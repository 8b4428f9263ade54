---------------------------- MODULE DkimRotation ----------------------------
(***************************************************************************)
(* The rotation of epistle's DKIM keys: the journaled state file and its   *)
(* backup, the key files, the TXT records at the DNS provider, the signer  *)
(* of the running server, and the passes of the background task that       *)
(* begin, resume, commit or withdraw a rotation and retire the key it      *)
(* replaced.  The operator asks for a rotation or a cleanup, drops a       *)
(* signing domain and turns RSA signing on or off between two starts;      *)
(* writes and calls to the provider fail, and the process dies at any step. *)
(*                                                                         *)
(* Time is counted in days, as selectors are: the selector of day d is d,  *)
(* that of the configured key 0.  A pass takes no time on this scale.      *)
(***************************************************************************)
EXTENDS Integers, FiniteSets, FiniteSetsExt

CONSTANTS
  Domains,      \* signing domains: numbers, in the order of the configuration
  LastDay,      \* bound: the calendar stops here
  Interval,     \* days between scheduled rotations
  Overlap,      \* days a replaced key stays published
  Dual,         \* whether RSA signing is configured at first
  MaxFaults,    \* bound: failed writes and calls
  MaxCrashes,   \* bound: times the process dies
  MaxAsks,      \* bound: requests of the operator, rotation or cleanup
  MaxConfigs    \* bound: changes of the configuration

ASSUME RotationAssumption ==
  /\ Domains \subseteq Nat /\ IsFiniteSet(Domains) /\ Domains # {}
  /\ LastDay \in Nat \ {0} /\ Interval \in Nat \ {0} /\ Overlap \in 1..Interval
  /\ MaxFaults \in Nat /\ MaxCrashes \in Nat /\ MaxAsks \in Nat
  /\ MaxConfigs \in Nat /\ Dual \in BOOLEAN

VARIABLES
  state,     \* dkim-rotation.json; Empty when there is no file
  backup,    \* dkim-rotation.json.bak; Empty when there is no file
  keys,      \* [Kinds -> [Days -> Nat]]: the key in each key file, 0 when none
  txt,       \* [Domains -> [Kinds -> [Days -> Nat]]]: the key each record shows
  asked,     \* the request files, and whether a failed rotation still waits
  domains,   \* the domains configured now
  dual,      \* whether RSA signing is configured
  signer,    \* the keys the server signs with
  run,       \* where the pass of the background task is, with its locals
  now,       \* today
  used,      \* history: [Kinds -> [Days -> Nat]]: the last day a selector signed
  excused,   \* history: what the properties do not answer for
  spent      \* counters of the bounds

Kinds == {"ed", "rsa"}
Days  == 0..LastDay
Keys  == [day : Days, key : Nat]
NoKey == [day |-> 0, key |-> 0]

NoPrev == [sel |-> 0, rsa |-> 0, retire |-> 0]
NoPend == [day |-> 0, rsa |-> FALSE, domains |-> {}, withdrawing |-> FALSE]
Empty  == [sel |-> 0, rsa |-> 0, at |-> 0, prev |-> NoPrev, pend |-> NoPend]

Previous      == [sel : Days, rsa : Days, retire : Nat]
Pending       == [day : Days, rsa : BOOLEAN, domains : SUBSET Domains, withdrawing : BOOLEAN]
RotationState == [sel : Days, rsa : Days, at : Days, prev : Previous, pend : Pending]

Places == {"down", "idle", "request", "cleanup", "tick", "journal", "resume", "rsaKey", "drop",
           "publish", "confirm", "swap", "unpublish", "unkey", "withdrawn", "retire", "retireKey",
           "retired", "backup", "save"}
Run  == [at : Places, leg : {"none", "request", "tick"}, auto : BOOLEAN, then : Places,
         todo : SUBSET (Domains \X Kinds), failed : BOOLEAN, mem : RotationState]
Idle == [at |-> "idle", leg |-> "none", auto |-> FALSE, then |-> "idle", todo |-> {},
         failed |-> FALSE, mem |-> Empty]

diskVars == <<state, backup>>
vars     == <<diskVars, keys, txt, asked, domains, dual, signer, run, now, used, excused, spent>>

Init ==
  /\ state = Empty /\ backup = Empty
  /\ keys = [k \in Kinds |-> [d \in Days |-> IF d = 0 THEN 1 ELSE 0]]
  /\ txt = [m \in Domains |-> keys]
  /\ asked = [rotate |-> FALSE, cleanup |-> FALSE, paused |-> FALSE]
  /\ domains = Domains /\ dual = Dual
  /\ signer = [ed |-> [day |-> 0, key |-> 1], rsa |-> IF dual THEN [day |-> 0, key |-> 1] ELSE NoKey]
  /\ run = Idle /\ now = 1
  /\ used = [k \in Kinds |-> [d \in Days |-> 0]]
  /\ excused = [early |-> {}, left |-> {}, unsure |-> FALSE]
  /\ spent = [faults |-> 0, crashes |-> 0, asks |-> 0, configs |-> 0]

Fault == spent.faults < MaxFaults /\ spent' = [spent EXCEPT !.faults = @ + 1]
Fine  == UNCHANGED spent

DualSigning == signer.rsa # NoKey
PendKinds(pend) == IF pend.rsa THEN Kinds ELSE {"ed"}

\* The records a loop goes through, domain by domain, the ed25519 record before
\* the RSA one: those still to come, and the first of them.
Records(where, rsa) == where \X (IF rsa THEN Kinds ELSE {"ed"})

First(todo) ==
  LET m == Min({r[1] : r \in todo})
  IN <<m, IF <<m, "ed">> \in todo THEN "ed" ELSE "rsa">>

Goto(where)      == run' = [run EXCEPT !.at = where]
\* save_state, then on to `next`.
SaveThen(mem, next) == [run EXCEPT !.mem = mem, !.at = "backup", !.then = next]

\* A rotation or retirement ends: serve_request notes the result, tick is done.
Finish(ok) ==
  IF run.leg = "request"
    THEN /\ run' = [Idle EXCEPT !.at = "cleanup", !.auto = run.auto /\ ~ok]
         /\ asked' = IF ok THEN [asked EXCEPT !.rotate = FALSE] ELSE [asked EXCEPT !.paused = TRUE]
    ELSE run' = Idle /\ UNCHANGED asked

-----------------------------------------------------------------------------
(***************************************************************************)
(* A pass: the operator's request, the cleanup, the scheduled tick.        *)
(***************************************************************************)
Cycle(auto) ==
  /\ run.at = "idle"
  /\ run' = [Idle EXCEPT !.at = "request", !.auto = auto]
  /\ UNCHANGED <<diskVars, keys, txt, asked, domains, dual, signer, now, used, excused, spent>>

\* What is begun on the state just loaded.  A retirement takes the previous
\* selector from it.
Begin(leg, where) ==
  run' = [run EXCEPT !.leg = leg, !.at = where, !.mem = state, !.failed = FALSE,
          !.todo = IF where = "retire" THEN Records(domains, state.prev.rsa # 0) ELSE {}]

\* force_rotate: a rotation half done first, then the previous key goes early.
Forced ==
  /\ Begin("request", IF state.pend # NoPend THEN "resume"
                      ELSE IF state.prev # NoPrev THEN "retire" ELSE "journal")
  /\ excused' = IF state.pend = NoPend /\ state.prev # NoPrev
                  THEN [excused EXCEPT !.early = @ \cup {<<"ed", state.prev.sel>>,
                                                          <<"rsa", state.prev.rsa>>}]
                  ELSE excused
  /\ UNCHANGED asked

MutantKeepsMootRequest ==
  /\ run.at = "request"
  /\ IF ~asked.rotate \/ asked.paused \/ state.sel = now
       THEN Goto("cleanup") /\ UNCHANGED <<asked, excused>>
       ELSE Forced
  /\ UNCHANGED <<diskVars, keys, txt, domains, dual, signer, now, used, spent>>

MutantForgetsPrevious ==
  /\ run.at = "request"
  /\ IF ~asked.rotate \/ asked.paused \/ state.sel = now
       THEN Goto("cleanup") /\ asked' = [asked EXCEPT !.rotate = @ /\ asked.paused]
       ELSE Begin("request", IF state.pend # NoPend THEN "resume" ELSE "journal") /\ UNCHANGED asked
  /\ UNCHANGED <<diskVars, keys, txt, domains, dual, signer, now, used, excused, spent>>

ServeRequest ==
  /\ run.at = "request"
  /\ IF ~asked.rotate \/ asked.paused
       THEN Goto("cleanup") /\ UNCHANGED <<asked, excused>>
     ELSE IF state.sel = now
       THEN Goto("cleanup") /\ asked' = [asked EXCEPT !.rotate = FALSE] /\ UNCHANGED excused
     ELSE Forced
  /\ UNCHANGED <<diskVars, keys, txt, domains, dual, signer, now, used, spent>>

\* named_selectors, of the state on disk and the configured keys.
Named(k) ==
  {0} \cup IF k = "ed" THEN {state.sel, state.prev.sel, state.pend.day}
           ELSE {state.rsa, state.prev.rsa} \cup (IF state.pend.rsa THEN {state.pend.day} ELSE {})

OrphanKeys    == {s \in Kinds \X Days : keys[s[1]][s[2]] # 0 /\ s[2] \notin Named(s[1])}
OrphanRecords == {s \in domains \X Kinds \X Days :
                    txt[s[1]][s[2]][s[3]] # 0 /\ s[3] \notin Named(s[2])}

KeysWithout(gone)    == [k \in Kinds |-> [d \in Days |-> IF <<k, d>> \in gone THEN 0 ELSE keys[k][d]]]
RecordsWithout(gone) == [m \in Domains |-> [k \in Kinds |-> [d \in Days |->
                           IF <<m, k, d>> \in gone THEN 0 ELSE txt[m][k][d]]]]

\* The request is consumed, then what is unnamed is removed as far as it goes.
ServeCleanup ==
  /\ run.at = "cleanup" /\ Goto("tick")
  /\ asked' = [asked EXCEPT !.cleanup = FALSE]
  /\ IF ~asked.cleanup THEN UNCHANGED <<keys, txt>> /\ Fine
     ELSE \/ keys' = KeysWithout(OrphanKeys) /\ txt' = RecordsWithout(OrphanRecords) /\ Fine
          \/ /\ Fault
             /\ \E K \in SUBSET OrphanKeys : keys' = KeysWithout(K)
             /\ \E R \in SUBSET OrphanRecords : txt' = RecordsWithout(R)
  /\ UNCHANGED <<diskVars, domains, dual, signer, now, used, excused>>

\* decide.
MutantRetireDayEarly == state.prev # NoPrev /\ now + 1 >= state.prev.retire

RetireDue == state.prev # NoPrev /\ now >= state.prev.retire
RotateDue == state.sel = 0 \/ now - state.at >= Interval

Tick ==
  /\ run.at = "tick"
  /\ IF ~run.auto THEN run' = Idle
     ELSE IF state.pend # NoPend THEN Begin("tick", "resume")
     ELSE IF RetireDue THEN Begin("tick", "retire")
     ELSE IF RotateDue /\ state.sel # now THEN Begin("tick", "journal")
     ELSE run' = Idle
  /\ UNCHANGED <<diskVars, keys, txt, asked, domains, dual, signer, now, used, excused, spent>>

-----------------------------------------------------------------------------
(***************************************************************************)
(* save_state: the state that is replaced is kept first, if it reads; a    *)
(* state that names nothing is removed.  A write that fails leaves the     *)
(* file as it was, or replaced and reported as failed.                     *)
(***************************************************************************)
MutantOnlyWhenJournaling ==
  /\ run.at = "backup"
  /\ \/ /\ backup' = IF run.mem.pend # NoPend /\ state # Empty THEN state ELSE backup
        /\ Goto("save") /\ Fine /\ UNCHANGED asked
     \/ Fault /\ Finish(FALSE) /\ UNCHANGED backup
  /\ UNCHANGED <<state, keys, txt, domains, dual, signer, now, used, excused>>

SaveBackup ==
  /\ run.at = "backup"
  /\ \/ /\ backup' = IF run.mem # Empty /\ state # Empty THEN state ELSE backup
        /\ Goto("save") /\ Fine /\ UNCHANGED asked
     \/ Fault /\ Finish(FALSE) /\ UNCHANGED backup
  /\ UNCHANGED <<state, keys, txt, domains, dual, signer, now, used, excused>>

\* Where a save leads.
Saved ==
  CASE run.then = "withdrawn" -> Finish(FALSE)
    [] run.then = "retired" /\ run.leg = "tick" -> Finish(TRUE)
    [] run.then = "retired" /\ run.leg = "request" -> Goto("journal") /\ UNCHANGED asked
    [] OTHER -> Goto(run.then) /\ UNCHANGED asked

SaveState ==
  /\ run.at = "save"
  /\ \/ /\ state' = run.mem /\ Saved /\ Fine /\ UNCHANGED excused
     \/ /\ Fault /\ UNCHANGED <<state, excused>>
        /\ IF run.mem = Empty THEN Saved ELSE Finish(FALSE)
     \/ /\ Fault /\ run.mem # Empty /\ state' = run.mem /\ Finish(FALSE)
        /\ excused' = IF run.then # "swap" THEN excused
                      ELSE [excused EXCEPT !.unsure = TRUE,
                                           !.early = @ \cup {<<k, signer[k].day>> : k \in Kinds}]
  /\ UNCHANGED <<backup, keys, txt, domains, dual, signer, now, used>>

-----------------------------------------------------------------------------
(***************************************************************************)
(* A rotation: journal, keys, records, confirmation, commit, switch.       *)
(***************************************************************************)
Pend == run.mem.pend

MutantTomorrow ==
  /\ run.at = "journal"
  /\ run' = SaveThen([run.mem EXCEPT !.pend = [day |-> now + 1, rsa |-> DualSigning,
                                               domains |-> domains, withdrawing |-> FALSE]], "resume")
  /\ UNCHANGED <<diskVars, keys, txt, asked, domains, dual, signer, now, used, excused, spent>>

Journal ==
  /\ run.at = "journal"
  /\ run' = SaveThen([run.mem EXCEPT !.pend = [day |-> now, rsa |-> DualSigning, domains |-> domains,
                                               withdrawing |-> FALSE]], "resume")
  /\ UNCHANGED <<diskVars, keys, txt, asked, domains, dual, signer, now, used, excused, spent>>

\* withdraw, up to its loop: the mark is saved before anything is removed.
Unpublishing(r) == [r EXCEPT !.failed = FALSE, !.todo = Records(Pend.domains \cup domains, Pend.rsa)]

Withdraw ==
  /\ run' = Unpublishing(SaveThen([run.mem EXCEPT !.pend.withdrawing = TRUE], "unpublish"))
  /\ UNCHANGED asked

\* A key no record shows: of one more than there are domains, one is free.
Fresh(k, d) == Min(1..(Cardinality(Domains) + 1) \ {txt[m][k][d] : m \in Domains})

\* A key file that loads is kept, else one is written.
Keyed(k) == keys' = [keys EXCEPT ![k][Pend.day] = IF @ # 0 THEN @ ELSE Fresh(k, Pend.day)]

MutantForgetsWithdrawal ==
  /\ run.at = "resume"
  /\ \/ Keyed("ed") /\ Goto("rsaKey") /\ Fine /\ UNCHANGED asked
     \/ Fault /\ Finish(FALSE) /\ (Keyed("ed") \/ UNCHANGED keys)
  /\ UNCHANGED <<diskVars, txt, domains, dual, signer, now, used, excused>>

\* resume, its start: a rotation that is being withdrawn goes on with that.
MakeKey ==
  /\ run.at = "resume"
  /\ IF Pend.withdrawing
       THEN /\ run' = [Unpublishing(run) EXCEPT !.at = "unpublish"]
            /\ Fine /\ UNCHANGED <<asked, keys>>
       ELSE \/ Keyed("ed") /\ Goto("rsaKey") /\ Fine /\ UNCHANGED asked
            \/ Fault /\ Finish(FALSE) /\ (Keyed("ed") \/ UNCHANGED keys)
  /\ UNCHANGED <<diskVars, txt, domains, dual, signer, now, used, excused>>

MakeRsaKey ==
  /\ run.at = "rsaKey"
  /\ \/ ~Pend.rsa /\ Goto("drop") /\ Fine /\ UNCHANGED <<asked, keys>>
     \/ Pend.rsa /\ ~DualSigning /\ Withdraw /\ Fine /\ UNCHANGED keys
     \/ Pend.rsa /\ DualSigning /\ Keyed("rsa") /\ Goto("drop") /\ Fine /\ UNCHANGED asked
     \/ Pend.rsa /\ DualSigning /\ Fault /\ Withdraw /\ (Keyed("rsa") \/ UNCHANGED keys)
  /\ UNCHANGED <<diskVars, txt, domains, dual, signer, now, used, excused>>

\* Domains dropped from the configuration lose the new records.
DropDomains ==
  /\ run.at = "drop"
  /\ LET gone == (Pend.domains \ domains) \X PendKinds(Pend) \X {Pend.day}
     IN \/ /\ txt' = RecordsWithout(gone) /\ Fine /\ UNCHANGED asked
           /\ run' = [run EXCEPT !.at = "publish", !.todo = Records(domains, Pend.rsa)]
        \/ /\ gone # {} /\ Fault /\ Finish(FALSE)
           /\ \E some \in SUBSET gone : txt' = RecordsWithout(some)
  /\ UNCHANGED <<diskVars, keys, domains, dual, signer, now, used, excused>>

\* One upsert.  The provider may answer well and drop it, or answer with an
\* error and have done it.
Publish ==
  /\ run.at = "publish"
  /\ LET r       == First(run.todo)
         m       == r[1]
         k       == r[2]
         rest    == run.todo \ {r}
         written == txt' = [txt EXCEPT ![m][k][Pend.day] = keys[k][Pend.day]]
         onward  == /\ run' = [run EXCEPT !.todo = rest, !.at = IF rest = {} THEN "confirm" ELSE @]
                    /\ UNCHANGED asked
     IN \/ written /\ onward /\ Fine
        \/ Fault /\ onward /\ UNCHANGED txt
        \/ Fault /\ Withdraw /\ (written \/ UNCHANGED txt)
  /\ UNCHANGED <<diskVars, keys, domains, dual, signer, now, used, excused>>

\* confirm_published, for every domain and key.
Visible == \A m \in domains : \A k \in PendKinds(Pend) :
             txt[m][k][Pend.day] = keys[k][Pend.day]

\* rsa_after_commit and the state that commits.
Committed ==
  LET keeps == ~Pend.rsa /\ DualSigning
  IN [sel  |-> Pend.day, at |-> now, pend |-> NoPend,
      rsa  |-> IF keeps THEN run.mem.rsa ELSE IF Pend.rsa THEN Pend.day ELSE 0,
      prev |-> IF run.mem.sel = 0 THEN NoPrev
               ELSE [sel |-> run.mem.sel, rsa |-> IF keeps THEN 0 ELSE run.mem.rsa,
                     retire |-> now + Overlap]]

MutantTrustsProvider ==
  /\ run.at = "confirm"
  /\ run' = SaveThen(Committed, "swap") /\ Fine /\ UNCHANGED asked
  /\ UNCHANGED <<diskVars, keys, txt, domains, dual, signer, now, used, excused>>

\* The new keys are seen and load, and the commit is on its way; or they are
\* not seen in time, or do not load, and the rotation is withdrawn.
Confirm ==
  /\ run.at = "confirm"
  /\ \/ Visible /\ run' = SaveThen(Committed, "swap") /\ Fine /\ UNCHANGED asked
     \/ Visible /\ Fault /\ Withdraw
     \/ ~Visible /\ Withdraw /\ Fine
  /\ UNCHANGED <<diskVars, keys, txt, domains, dual, signer, now, used, excused>>

\* The day each key in use signed last.
Signed == [k \in Kinds |-> [d \in Days |->
             IF signer[k] # NoKey /\ signer[k].day = d THEN now ELSE used[k][d]]]

\* with_rotated_keys: without a new RSA key the one in use stays.
Swap ==
  /\ run.at = "swap"
  /\ LET d == run.mem.sel
     IN signer' = [ed  |-> [day |-> d, key |-> keys["ed"][d]],
                   rsa |-> IF run.mem.rsa = d THEN [day |-> d, key |-> keys["rsa"][d]] ELSE signer.rsa]
  /\ used' = Signed /\ Finish(TRUE)
  /\ UNCHANGED <<diskVars, keys, txt, domains, dual, now, excused, spent>>

-----------------------------------------------------------------------------
(***************************************************************************)
(* Withdrawal and retirement.  A record that cannot be deleted is passed   *)
(* over, and the pass ends before the key files with the state unchanged.  *)
(***************************************************************************)
DeleteRecord(days, next) ==
  LET r    == First(run.todo)
      rest == run.todo \ {r}
      On(failed) ==
        IF rest # {}
          THEN run' = [run EXCEPT !.todo = rest, !.failed = failed] /\ UNCHANGED asked
        ELSE IF failed THEN Finish(FALSE)
        ELSE run' = [run EXCEPT !.todo = {}, !.at = next] /\ UNCHANGED asked
      gone == txt' = RecordsWithout({<<r[1], r[2], days[r[2]]>>})
  IN \/ gone /\ On(run.failed) /\ Fine
     \/ Fault /\ On(TRUE) /\ (gone \/ UNCHANGED txt)

\* Key files are removed as far as they can be.
RemoveKeys(files) ==
  \/ keys' = KeysWithout(files) /\ Fine /\ UNCHANGED excused
  \/ \E stays \in files : /\ Fault /\ keys' = KeysWithout(files \ {stays})
                          /\ excused' = [excused EXCEPT !.left = @ \cup {stays}]

Unpublish ==
  /\ run.at = "unpublish"
  /\ DeleteRecord([k \in Kinds |-> Pend.day], "unkey")
  /\ UNCHANGED <<diskVars, keys, domains, dual, signer, now, used, excused>>

MutantStaysPending ==
  /\ run.at = "unkey"
  /\ RemoveKeys(PendKinds(Pend) \X {Pend.day})
  /\ run' = SaveThen(run.mem, "withdrawn")
  /\ UNCHANGED <<diskVars, txt, asked, domains, dual, signer, now, used>>

UnpublishKeys ==
  /\ run.at = "unkey"
  /\ RemoveKeys(PendKinds(Pend) \X {Pend.day})
  /\ run' = SaveThen([run.mem EXCEPT !.pend = NoPend], "withdrawn")
  /\ UNCHANGED <<diskVars, txt, asked, domains, dual, signer, now, used>>

Retire ==
  /\ run.at = "retire"
  /\ DeleteRecord([ed |-> run.mem.prev.sel, rsa |-> run.mem.prev.rsa], "retireKey")
  /\ UNCHANGED <<diskVars, keys, domains, dual, signer, now, used, excused>>

RetireKeys ==
  /\ run.at = "retireKey"
  /\ RemoveKeys({<<"ed", run.mem.prev.sel>>} \cup
                (IF run.mem.prev.rsa = 0 THEN {} ELSE {<<"rsa", run.mem.prev.rsa>>}))
  /\ run' = SaveThen([run.mem EXCEPT !.prev = NoPrev], "retired")
  /\ UNCHANGED <<diskVars, txt, asked, domains, dual, signer, now, used>>

-----------------------------------------------------------------------------
(***************************************************************************)
(* The process, the operator, the calendar.                                *)
(***************************************************************************)
Crash ==
  /\ run.at # "down" /\ spent.crashes < MaxCrashes
  /\ spent' = [spent EXCEPT !.crashes = @ + 1]
  /\ run' = [Idle EXCEPT !.at = "down"] /\ used' = Signed
  /\ asked' = [asked EXCEPT !.paused = FALSE]
  /\ signer' = [ed |-> NoKey, rsa |-> NoKey] /\ excused' = [excused EXCEPT !.unsure = FALSE]
  /\ UNCHANGED <<diskVars, keys, txt, domains, dual, now>>

\* active_ed25519 and active_rsa; a key file that is missing stops the start.
Restart ==
  /\ run.at = "down"
  /\ LET ed  == state.sel
         rsa == state.rsa
     IN /\ keys["ed"][ed] # 0 /\ (dual => keys["rsa"][rsa] # 0)
        /\ signer' = [ed  |-> [day |-> ed, key |-> keys["ed"][ed]],
                      rsa |-> IF dual THEN [day |-> rsa, key |-> keys["rsa"][rsa]] ELSE NoKey]
  /\ run' = Idle
  /\ UNCHANGED <<diskVars, keys, txt, asked, domains, dual, now, used, excused, spent>>

Reconfigure ==
  /\ run.at = "down" /\ spent.configs < MaxConfigs
  /\ spent' = [spent EXCEPT !.configs = @ + 1]
  /\ \/ \E m \in domains : domains' = domains \ {m} /\ domains' # {} /\ UNCHANGED dual
     \/ dual' = ~dual /\ UNCHANGED domains
  /\ UNCHANGED <<diskVars, keys, txt, asked, signer, run, now, used, excused>>

\* `epistle dkim rotate` and `epistle dkim cleanup`.
Ask ==
  /\ spent.asks < MaxAsks /\ spent' = [spent EXCEPT !.asks = @ + 1]
  /\ \/ ~asked.rotate /\ state.sel # now /\ asked' = [asked EXCEPT !.rotate = TRUE]
     \/ ~asked.cleanup /\ OrphanKeys \cup OrphanRecords # {} /\ asked' = [asked EXCEPT !.cleanup = TRUE]
  /\ UNCHANGED <<diskVars, keys, txt, domains, dual, signer, run, now, used, excused>>

\* Ten minutes after a failed request.
EndPause ==
  /\ asked.paused /\ asked' = [asked EXCEPT !.paused = FALSE]
  /\ UNCHANGED <<diskVars, keys, txt, domains, dual, signer, run, now, used, excused, spent>>

Midnight ==
  /\ now < LastDay /\ run.at \in {"down", "idle"}
  /\ now' = now + 1
  /\ UNCHANGED <<diskVars, keys, txt, asked, domains, dual, signer, run, used, excused, spent>>

Pass == \/ ServeRequest \/ ServeCleanup \/ Tick \/ SaveBackup \/ SaveState
        \/ Journal \/ MakeKey \/ MakeRsaKey \/ DropDomains \/ Publish \/ Confirm \/ Swap
        \/ Unpublish \/ UnpublishKeys \/ Retire \/ RetireKeys

Next == \/ \E auto \in BOOLEAN : Cycle(auto)
        \/ Pass
        \/ Crash \/ Restart \/ Reconfigure \/ Ask \/ EndPause \/ Midnight

\* The task runs its passes to their end and wakes every minute, every 60th
\* time with the scheduled tick; a stopped server is started again.
Fairness == /\ WF_vars(Pass) /\ SF_vars(Cycle(TRUE)) /\ WF_vars(Restart) /\ WF_vars(EndPause)

Spec == Init /\ [][Next]_vars /\ Fairness
-----------------------------------------------------------------------------
(***************************************************************************)
(* Properties.                                                             *)
(***************************************************************************)

\* The files, the records and the pass under way hold what their code writes.
TypeOK ==
  /\ state \in RotationState /\ backup \in RotationState
  /\ keys \in [Kinds -> [Days -> Nat]] /\ txt \in [Domains -> [Kinds -> [Days -> Nat]]]
  /\ asked \in [rotate : BOOLEAN, cleanup : BOOLEAN, paused : BOOLEAN]
  /\ domains \in SUBSET Domains /\ dual \in BOOLEAN
  /\ signer \in [ed : Keys, rsa : Keys] /\ run \in Run /\ now \in Days
  /\ used \in [Kinds -> [Days -> Nat]]
  /\ excused \in [early : SUBSET (Kinds \X Days), left : SUBSET (Kinds \X Days), unsure : BOOLEAN]

Shown(k, key) == \A m \in domains : txt[m][k][key.day] = key.key

\* "mail is never sent unsigned and never signed with a key that cannot be
\* verified" (dkim/rotate/publication): every key the running server signs
\* with is shown, under its selector, at every signing domain, through every
\* crash, failed call and change of configuration; except between a commit
\* whose save was in place and reported as failed and the next start.
SignerVerifies ==
  run.at # "down" /\ ~excused.unsure =>
    \A k \in Kinds : signer[k] # NoKey => Shown(k, signer[k])

\* "The previous selector's TXT stays published for an overlap window so mail
\* signed just before the switch still verifies" (dkim/rotate): a selector
\* that signed less than Overlap days ago is published, also across restarts,
\* unless a rotation the operator asked for retired it early, or the server
\* went on signing with it after the commit (see SignerVerifies).
OverlapKept ==
  \A k \in Kinds, d \in Days \ {0}, m \in domains :
    used[k][d] # 0 /\ now < used[k][d] + Overlap /\ <<k, d>> \notin excused.early
      => txt[m][k][d] # 0

\* No rotation leaves a key file or a record behind that the state does not
\* name, wherever it is stopped: "a state the next tick completes or rolls
\* back" (dkim/rotate); except a key file that could not be removed.
NothingOrphaned == OrphanRecords = {} /\ OrphanKeys \subseteq excused.left

\* "The backup names a key whose TXT is still published: it is at most one
\* save behind" (active_ed25519): what a start signs with when the state does
\* not read is in its key file and shown at every signing domain, until the
\* retirement of that key is due or the operator asked for a rotation.
BackupUsable ==
  backup # Empty => \A k \in Kinds :
    LET d == IF k = "ed" THEN backup.sel ELSE backup.rsa
    IN \/ keys[k][d] # 0 /\ Shown(k, [day |-> d, key |-> keys[k][d]])
       \/ d = (IF k = "ed" THEN state.prev.sel ELSE state.prev.rsa)
            /\ (RetireDue \/ <<k, d>> \in excused.early)

\* "from then on its records and key are only removed, never published again"
\* (Pending.withdrawing): once the mark is on disk no step of any later run
\* publishes the withdrawn selector.
WithdrawalFinal ==
  [][ state.pend.withdrawing /\ state'.pend = state.pend =>
        \A m \in Domains, k \in Kinds : txt'[m][k][state.pend.day] \in {0, txt[m][k][state.pend.day]} ]_vars

\* "a state the next tick completes or rolls back" (dkim/rotate): a journaled
\* rotation does not stay pending.
PendingEnds == state.pend # NoPend ~> (state.pend = NoPend)

\* "A request survives a failed publication and is retried" (request.rs): in
\* the end every request is served or found moot.
RequestServed == asked.rotate ~> (~asked.rotate)

=============================================================================
