----------------------------- MODULE Acceptance -----------------------------
(***************************************************************************)
(* How epistle takes a message into its outbound queue: the message and    *)
(* its envelope are staged in the spool, the acceptance is recorded in the *)
(* evidence chain, the files are renamed to where the worker sees them,    *)
(* and the client is answered.  A start of the server records the end of   *)
(* what a stop left staged.  The sealer uses the same chain beside it.     *)
(***************************************************************************)
EXTENDS EvidenceChain

CONSTANTS
  Ids,         \* messages submitted, by queue id
  Classes,     \* among "mandatory", "optional" (evidence is kept) and "none"
  Limit,       \* leftovers one start looks at (10 000 in the code)
  MaxCrashes   \* bound: times the server dies

VARIABLES
  tmpEml, tmpJson,   \* staged message files and envelopes
  newEml, newJson,   \* queued message files and envelopes
  sub,               \* [Ids -> where its submission is]
  class,             \* [Ids -> its mail class]
  told,              \* [Ids -> what the client was answered]
  server,            \* "down", "start" or "up"
  todo,              \* the leftovers the start still has to go through
  step,              \* where it is with the first of them
  doubt,             \* history: acceptances that were not confirmed
  crashes            \* times the server died

spoolVars == <<tmpEml, tmpJson, newEml, newJson>>
vars == <<chainVars, spoolVars, sub, class, told, server, todo, step, doubt, crashes>>

ASSUME AcceptanceAssumption ==
  /\ Writers = Ids \cup {"start"} /\ "start" \notin Ids /\ IsFiniteSet(Ids)
  /\ [kind : {"accepted", "abandoned"}, id : Ids] \subseteq Entries
  /\ Classes \subseteq {"mandatory", "optional", "none"}
  /\ Limit \in Nat \ {0} /\ MaxCrashes \in Nat

Steps == {"idle", "stageJson", "hook", "unstageJson", "unstageEml",
          "renameEml", "renameJson", "abandon", "done", "lost"}

Init ==
  /\ ChainInit
  /\ tmpEml = {} /\ tmpJson = {} /\ newEml = {} /\ newJson = {}
  /\ sub = [i \in Ids |-> "idle"] /\ class = [i \in Ids |-> "none"]
  /\ told = [i \in Ids |-> "nothing"]
  /\ server = "up" /\ todo = <<>> /\ step = "abandon"
  /\ doubt = {} /\ crashes = 0

Accepted(i)  == [kind |-> "accepted", id |-> i]
Abandoned(i) == [kind |-> "abandoned", id |-> i]
InChain(e)   == \E r \in Records : r.entry = e

startVars == <<server, todo, step>>

Goto(i, where) == sub' = [sub EXCEPT ![i] = where]
\* The submission ends with an answer.
Answer(i, what) == Goto(i, "done") /\ told' = [told EXCEPT ![i] = what]

-----------------------------------------------------------------------------
(***************************************************************************)
(* Appends.  Whoever wants a record appends it in three steps; what it     *)
(* does with the result is the step after.                                 *)
(***************************************************************************)
Wants(w) ==
  IF w = "start" THEN server = "start" /\ step = "abandon"
  ELSE sub[w] \in {"hook", "abandon"}

EntryOf(w) ==
  CASE w = "start"                     -> Abandoned(Head(todo))
    [] w # "start" /\ sub[w] = "hook" -> Accepted(w)
    [] OTHER                           -> Abandoned(w)

AppendOf(w) ==
  /\ Wants(w)
  /\ \/ \E now \in Readings : AppendBegin(w, now)
     \/ WriteLine(w, EntryOf(w))
     \/ WriteHead(w)
  /\ UNCHANGED <<spoolVars, sub, class, told, startVars, doubt, crashes>>

\* The caller takes the result of its append.
Took(w) == call' = [call EXCEPT ![w] = Idle]
chainButCall == <<made, file, torn, seals, head, lock, wall, hashes, kept, faults>>

-----------------------------------------------------------------------------
(***************************************************************************)
(* store_with, and what route_with_evidence does around it.  A write that  *)
(* fails before or after the record leaves what is staged, and the message *)
(* is recorded as abandoned; a record that fails refuses mandatory mail    *)
(* and removes what is staged, and nothing else is recorded.               *)
(***************************************************************************)
chainButFaults == <<made, file, torn, seals, head, lock, call, wall, hashes, kept>>

\* Err from store_with, when it was not the hook.
GiveUp(i) ==
  /\ Fail
  /\ IF class'[i] = "none" THEN Answer(i, "refused")
     ELSE Goto(i, "abandon") /\ UNCHANGED told

StageEml(i) ==
  /\ server = "up" /\ sub[i] = "idle"
  /\ \E c \in Classes : class' = [class EXCEPT ![i] = c]
  /\ \/ tmpEml' = tmpEml \cup {i} /\ Goto(i, "stageJson") /\ UNCHANGED <<told, faults>>
     \/ GiveUp(i) /\ tmpEml' \in {tmpEml, tmpEml \cup {i}}
  /\ UNCHANGED <<chainButFaults, tmpJson, newEml, newJson, startVars, doubt, crashes>>

StageJson(i) ==
  /\ sub[i] = "stageJson"
  /\ UNCHANGED class
  /\ \/ /\ tmpJson' = tmpJson \cup {i}
        /\ Goto(i, IF class[i] = "none" THEN "renameEml" ELSE "hook")
        /\ UNCHANGED <<told, faults>>
     \/ GiveUp(i) /\ tmpJson' \in {tmpJson, tmpJson \cup {i}}
  /\ UNCHANGED <<chainButFaults, tmpEml, newEml, newJson, startVars, doubt, crashes>>

MutantHookIgnored(i) ==
  /\ sub[i] = "hook" /\ call[i].result # "none" /\ Took(i)
  /\ Goto(i, "renameEml")
  /\ doubt' = IF call[i].result = "unconfirmed" THEN doubt \cup {i} ELSE doubt
  /\ UNCHANGED <<chainButCall, spoolVars, class, told, startVars, crashes>>

\* The hook's answer: an error is passed over for mail whose evidence is not
\* mandatory.
HookDone(i) ==
  /\ sub[i] = "hook" /\ call[i].result # "none" /\ Took(i)
  /\ Goto(i, IF call[i].result # "ok" /\ class[i] = "mandatory" THEN "unstageJson"
             ELSE "renameEml")
  /\ doubt' = IF call[i].result = "unconfirmed" THEN doubt \cup {i} ELSE doubt
  /\ UNCHANGED <<chainButCall, spoolVars, class, told, startVars, crashes>>

\* The staged files of a refused message are removed; a failure is ignored.
UnstageJson(i) ==
  /\ sub[i] = "unstageJson" /\ Goto(i, "unstageEml")
  /\ \/ tmpJson' = tmpJson \ {i} /\ UNCHANGED faults
     \/ Fail /\ UNCHANGED tmpJson
  /\ UNCHANGED <<chainButFaults, tmpEml, newEml, newJson, class, told, startVars, doubt, crashes>>

UnstageEml(i) ==
  /\ sub[i] = "unstageEml" /\ Answer(i, "refused")
  /\ \/ tmpEml' = tmpEml \ {i} /\ UNCHANGED faults
     \/ Fail /\ UNCHANGED tmpEml
  /\ UNCHANGED <<chainButFaults, tmpJson, newEml, newJson, class, startVars, doubt, crashes>>

MutantMissedRename(i) ==
  /\ sub[i] = "renameEml" /\ UNCHANGED <<class, told>>
  /\ Goto(i, "renameJson")
  /\ \/ tmpEml' = tmpEml \ {i} /\ newEml' = newEml \cup {i} /\ UNCHANGED faults
     \/ Fail /\ UNCHANGED <<tmpEml, newEml>>
  /\ UNCHANGED <<chainButFaults, tmpJson, newJson, startVars, doubt, crashes>>

RenameEml(i) ==
  /\ sub[i] = "renameEml" /\ UNCHANGED class
  /\ \/ /\ tmpEml' = tmpEml \ {i} /\ newEml' = newEml \cup {i}
        /\ Goto(i, "renameJson") /\ UNCHANGED <<told, faults>>
     \/ GiveUp(i) /\ UNCHANGED <<tmpEml, newEml>>
  /\ UNCHANGED <<chainButFaults, tmpJson, newJson, startVars, doubt, crashes>>

MutantLinksTheEnvelope(i) ==
  /\ sub[i] = "renameJson" /\ UNCHANGED <<class, tmpJson>>
  /\ newJson' = newJson \cup {i}
  /\ Answer(i, "accepted") /\ UNCHANGED faults
  /\ UNCHANGED <<chainButFaults, tmpEml, newEml, startVars, doubt, crashes>>

RenameJson(i) ==
  /\ sub[i] = "renameJson" /\ UNCHANGED class
  /\ \/ /\ tmpJson' = tmpJson \ {i} /\ newJson' = newJson \cup {i}
        /\ Answer(i, "accepted") /\ UNCHANGED faults
     \/ GiveUp(i) /\ UNCHANGED <<tmpJson, newJson>>
  /\ UNCHANGED <<chainButFaults, tmpEml, newEml, startVars, doubt, crashes>>

\* The abandonment is best effort; the client is refused either way.
AbandonDone(i) ==
  /\ sub[i] = "abandon" /\ call[i].result # "none" /\ Took(i)
  /\ Answer(i, "refused")
  /\ UNCHANGED <<chainButCall, spoolVars, class, startVars, doubt, crashes>>

-----------------------------------------------------------------------------
(***************************************************************************)
(* Start and stop.  reconcile goes through at most Limit leftovers before  *)
(* a submission is taken, and an error of it ends the start.               *)
(***************************************************************************)
Staged == tmpEml \cup tmpJson

\* leftovers: an envelope that is missing counts as carrying evidence (so does
\* one that does not read, which is the same to everything here).
Evidence(i) == i \in tmpJson => class[i] # "none"

Begin(q) == IF q = <<>> \/ Evidence(Head(q)) THEN "abandon" ELSE "json"

Restart ==
  /\ server = "down"
  /\ \E S \in SUBSET Staged :
       /\ Cardinality(S) = Min({Limit, Cardinality(Staged)})
       /\ todo' \in SetToSeqs(S)
  /\ server' = IF todo' = <<>> THEN "up" ELSE "start"
  /\ step' = Begin(todo')
  /\ UNCHANGED <<chainVars, spoolVars, sub, class, told, doubt, crashes>>

\* An error ends the start.
FailedStart == server' = "down" /\ todo' = <<>> /\ step' = "abandon"

MutantGoesOn ==
  /\ server = "start" /\ call["start"].result # "none" /\ Took("start")
  /\ step' = "json" /\ UNCHANGED <<server, todo>>
  /\ UNCHANGED <<chainButCall, spoolVars, sub, class, told, doubt, crashes>>

StartAppended ==
  /\ server = "start" /\ call["start"].result # "none" /\ Took("start")
  /\ IF call["start"].result = "ok" THEN step' = "json" /\ UNCHANGED <<server, todo>>
     ELSE FailedStart
  /\ UNCHANGED <<chainButCall, spoolVars, sub, class, told, doubt, crashes>>

DiscardJson ==
  /\ server = "start" /\ step = "json"
  /\ \/ /\ tmpJson' = tmpJson \ {Head(todo)} /\ step' = "eml"
        /\ UNCHANGED <<faults, server, todo>>
     \/ Fail /\ FailedStart /\ UNCHANGED tmpJson
  /\ UNCHANGED <<chainButFaults, tmpEml, newEml, newJson, sub, class, told, doubt, crashes>>

DiscardEml ==
  /\ server = "start" /\ step = "eml"
  /\ \/ /\ tmpEml' = tmpEml \ {Head(todo)} /\ todo' = Tail(todo)
        /\ server' = IF todo' = <<>> THEN "up" ELSE "start"
        /\ step' = Begin(todo') /\ UNCHANGED faults
     \/ Fail /\ FailedStart /\ UNCHANGED tmpEml
  /\ UNCHANGED <<chainButFaults, tmpJson, newEml, newJson, sub, class, told, doubt, crashes>>

InFlight(i) == sub[i] \notin {"idle", "done", "lost"}

Stop ==
  /\ server = "up" /\ \A i \in Ids : ~InFlight(i)
  /\ server' = "down"
  /\ UNCHANGED <<chainVars, spoolVars, sub, class, told, todo, step, doubt, crashes>>

Crash ==
  /\ server # "down" /\ crashes < MaxCrashes /\ crashes' = crashes + 1
  /\ Die(Writers)
  /\ sub' = [i \in Ids |-> IF InFlight(i) THEN "lost" ELSE sub[i]]
  /\ FailedStart
  /\ UNCHANGED <<spoolVars, class, told, doubt>>

SealDay ==
  /\ server = "up" /\ \E now \in Readings : Seal(now)
  /\ UNCHANGED <<spoolVars, sub, class, told, startVars, doubt, crashes>>

Time ==
  /\ Tick
  /\ UNCHANGED <<spoolVars, sub, class, told, startVars, doubt, crashes>>

-----------------------------------------------------------------------------
Submission(i) ==
  \/ StageEml(i) \/ StageJson(i) \/ HookDone(i) \/ UnstageJson(i) \/ UnstageEml(i)
  \/ RenameEml(i) \/ RenameJson(i) \/ AbandonDone(i)

Next ==
  \/ \E i \in Ids : Submission(i)
  \/ \E w \in Writers : AppendOf(w)
  \/ Restart \/ StartAppended \/ DiscardJson \/ DiscardEml
  \/ Stop \/ Crash \/ SealDay \/ Time

Spec == Init /\ [][Next]_vars
-----------------------------------------------------------------------------
(***************************************************************************)
(* Properties.                                                             *)
(***************************************************************************)

\* The chain is well formed, and every submission and the start of the server
\* are at a step of their code.
TypeOK ==
  /\ ChainTypeOK
  /\ tmpEml \subseteq Ids /\ tmpJson \subseteq Ids /\ newEml \subseteq Ids /\ newJson \subseteq Ids
  /\ sub \in [Ids -> Steps] /\ class \in [Ids -> {"mandatory", "optional", "none"}]
  /\ told \in [Ids -> {"nothing", "accepted", "refused"}]
  /\ server \in {"up", "start", "down"} /\ todo \in Seq(Ids)
  /\ step \in {"abandon", "json", "eml"} /\ doubt \subseteq Ids /\ crashes \in 0..MaxCrashes

\* "nothing is queued that has no record" (storage/spool): mail whose evidence
\* is mandatory is where the worker sees it only with an acceptance whose
\* append was confirmed and that is still in the chain.
NothingUnrecorded ==
  \A i \in newJson : class[i] = "mandatory" =>
    \E r \in Records : r.hash \in kept /\ r.entry = Accepted(i)

\* An acceptance in the chain has an end, or will have: its message is queued
\* or recorded as abandoned, its submission is still under way, or its files
\* are still staged for the next start to find (evidence/service, reconcile);
\* unless the append was not confirmed, when the message is refused and no
\* end is recorded.
AcceptanceTraced ==
  \A i \in Ids : InChain(Accepted(i)) /\ i \notin doubt =>
    i \in newJson \cup Staged \/ InChain(Abandoned(i)) \/ InFlight(i)

\* An envelope the worker can see has its message beside it, and what the
\* client was told is true: accepted mail is queued whole, refused mail is not
\* queued ("envelope last, where the worker can see them", storage/spool).
QueuedWhole ==
  /\ newJson \subseteq newEml
  /\ \A i \in Ids : /\ told[i] = "accepted" => i \in newJson
                    /\ told[i] = "refused"  => i \notin newJson

\* A message recorded as abandoned never was and never is queued: "never
\* queued, never sent, and the client was never told it was accepted"
\* (storage/spool/leftovers), also when a start is cut short and repeated.
AbandonedNeverQueued ==
  \A i \in Ids : InChain(Abandoned(i)) => i \notin newJson /\ told[i] # "accepted"

=============================================================================
