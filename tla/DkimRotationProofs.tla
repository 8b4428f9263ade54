------------------------- MODULE DkimRotationProofs -------------------------
(***************************************************************************)
(* Proofs about DkimRotation: the server signs with keys that verify, a    *)
(* replaced key stays published for the overlap, no rotation leaves a file *)
(* or a record behind, the backup names a usable key, and a withdrawn      *)
(* selector is never published again, for any number of domains, days,     *)
(* faults, crashes, requests and changes of the configuration.             *)
(***************************************************************************)
EXTENDS DkimRotation, FiniteSetTheorems, WellFoundedInduction, TLAPS

(***************************************************************************)
(* The inductive invariant.                                                *)
(***************************************************************************)

\* The selector that signs with a kind of key, and the one it replaced.
Active(s, k)   == IF k = "ed" THEN s.sel ELSE s.rsa
Replaced(s, k) == IF k = "ed" THEN s.prev.sel ELSE s.prev.rsa

\* A record shows the key of its selector, which is in its file.
InUse(k, d) == keys[k][d] # 0 /\ \A m \in domains : txt[m][k][d] = keys[k][d]

\* The days a state names come in the order in which it got them, and a
\* rotation is never journaled while a replaced key is still to be retired.
InOrder ==
  /\ state.rsa <= state.sel /\ state.sel <= state.at /\ state.at <= now
  /\ state.pend = NoPend \/ /\ state.prev = NoPrev
                            /\ state.sel < state.pend.day /\ state.pend.day <= now
  /\ state.prev = NoPrev \/ /\ 0 < state.prev.sel /\ state.prev.sel < state.sel
                            /\ state.prev.rsa = 0 \/ state.prev.rsa # state.rsa
                            /\ state.prev.retire = state.at + Overlap

\* The configured keys stay, and so do the keys the state says are active.
KeysShown == \A k \in Kinds : InUse(k, 0) /\ InUse(k, Active(state, k))

\* The replaced keys may go.
MayGo(k) == RetireDue \/ <<k, Replaced(state, k)>> \in excused.early

ReplacedShown == \A k \in Kinds : MayGo(k) \/ InUse(k, Replaced(state, k))

\* A selector that signed within the overlap is active, or replaced and not
\* due before the overlap is over.
RecentNamed ==
  \A k \in Kinds, d \in Days \ {0} :
    /\ used[k][d] <= now
    /\ used[k][d] # 0 /\ now < used[k][d] + Overlap /\ <<k, d>> \notin excused.early
         => \/ d = Active(state, k)
            \/ d = Replaced(state, k) /\ used[k][d] + Overlap <= state.prev.retire

\* The backup is at most one commit behind.
BackupBehind == \A k \in Kinds : Active(backup, k) \in {0, Active(state, k), Replaced(state, k)}

\* Between the save of a commit and the switch the server signs with what was
\* replaced.
Signing(k) == IF run.at = "swap" /\ Active(state, k) = state.sel THEN Replaced(state, k)
              ELSE Active(state, k)

SignsWell ==
  \A k \in Kinds :
    \/ signer[k] = NoKey
    \/ signer[k] = [day |-> Signing(k), key |-> keys[k][Signing(k)]]
    \/ excused.unsure /\ <<k, signer[k].day>> \in excused.early

\* What the pass knows where it is: the state it carries is the one on disk,
\* or what it is about to save.
Journaled == /\ state.pend # NoPend /\ run.mem = state
Going     == Journaled /\ ~state.pend.withdrawing
KeyThere(k) == keys[k][state.pend.day] # 0
AllThere  == \A k \in PendKinds(state.pend) : KeyThere(k)

\* The records and key files of days that are gone.
RecordGone(m, k, d) == txt[m][k][d] = 0
FileGone(k, d)      == keys[k][d] = 0 \/ <<k, d>> \in excused.left

PendGone == \A k \in PendKinds(state.pend) : \A m \in domains : RecordGone(m, k, state.pend.day)
PrevKinds == IF state.prev.rsa # 0 THEN Kinds ELSE {"ed"}
PrevGone == \A k \in PrevKinds : \A m \in domains : RecordGone(m, k, Replaced(state, k))

\* A loop that met no failure has removed what is not still to come.
PendGoing == /\ run.todo # {}
             /\ ~run.failed => \A k \in PendKinds(state.pend) : \A m \in domains :
                  <<m, k>> \in run.todo \/ RecordGone(m, k, state.pend.day)
PrevGoing == /\ run.todo # {} /\ run.todo \subseteq Domains \X PrevKinds
             /\ ~run.failed => \A k \in PrevKinds : \A m \in domains :
                  <<m, k>> \in run.todo \/ RecordGone(m, k, Replaced(state, k))

Retiring == /\ state.prev # NoPrev /\ state.pend = NoPend
            /\ \A k \in PrevKinds : MayGo(k)
            /\ run.leg # "none" /\ (run.leg = "request" => state.sel < now)

\* The commit of the journaled rotation.
CommitsTo(s) ==
  LET keeps == ~state.pend.rsa /\ DualSigning
  IN s = [sel  |-> state.pend.day, at |-> now, pend |-> NoPend,
          rsa  |-> IF keeps THEN state.rsa ELSE IF state.pend.rsa THEN state.pend.day ELSE 0,
          prev |-> IF state.sel = 0 THEN NoPrev
                   ELSE [sel |-> state.sel, rsa |-> IF keeps THEN 0 ELSE state.rsa,
                         retire |-> now + Overlap]]

CommitReady == \A k \in PendKinds(state.pend) : InUse(k, state.pend.day)

\* What each place of a pass has behind it; for a save, the place it leads to.
PlaceInv ==
  /\ run.at = "journal" =>
       run.mem = state /\ state.pend = NoPend /\ state.prev = NoPrev /\ state.sel < now
  /\ run.at = "resume" => Journaled
  /\ run.at = "rsaKey" => Going /\ KeyThere("ed")
  /\ run.at \in {"drop", "confirm"} => Going /\ AllThere
  /\ run.at = "publish" =>
       Going /\ AllThere /\ run.todo # {} /\ run.todo \subseteq Domains \X PendKinds(state.pend)
  /\ run.at = "swap" =>
       /\ run.mem = state /\ state.at = now
       /\ \A k \in Kinds : InUse(k, Replaced(state, k))
  /\ run.at = "unpublish" => Journaled /\ state.pend.withdrawing /\ PendGoing
  /\ run.at = "unkey" => Journaled /\ PendGone
  /\ run.at = "retire" => run.mem = state /\ Retiring /\ PrevGoing
  /\ run.at = "retireKey" => run.mem = state /\ Retiring /\ PrevGone
  /\ run.at \notin {"withdrawn", "retired"}

SaveInv ==
  run.at \in {"backup", "save"} =>
    \/ /\ run.then = "resume" /\ state.pend = NoPend /\ state.prev = NoPrev /\ state.sel < now
       /\ \E p \in Pending : /\ p.day = now /\ ~p.withdrawing
                             /\ run.mem = [state EXCEPT !.pend = p]
    \/ /\ run.then = "unpublish" /\ state.pend # NoPend /\ PendGoing
       /\ run.mem = [state EXCEPT !.pend.withdrawing = TRUE]
    \/ /\ run.then = "swap" /\ state.pend # NoPend /\ CommitReady /\ CommitsTo(run.mem)
    \/ /\ run.then = "withdrawn" /\ state.pend # NoPend /\ PendGone
       /\ \A k \in PendKinds(state.pend) : FileGone(k, state.pend.day)
       /\ run.mem = [state EXCEPT !.pend = NoPend]
    \/ /\ run.then = "retired" /\ Retiring /\ PrevGone
       /\ \A k \in PrevKinds : FileGone(k, Replaced(state, k))
       /\ run.mem = [state EXCEPT !.prev = NoPrev]

\* Between the two writes of a save the backup is the state to be replaced.
BackupTaken == run.at = "save" => backup = state \/ state = Empty \/ run.mem = Empty

\* What the files, the records and the history say, wherever the pass is.
Books == /\ domains # {} /\ InOrder /\ KeysShown /\ ReplacedShown /\ RecentNamed
         /\ NothingOrphaned /\ BackupBehind

Inv == TypeOK /\ Books /\ SignsWell /\ PlaceInv /\ SaveInv /\ BackupTaken

-----------------------------------------------------------------------------
(***************************************************************************)
(* Lemmas about the operators the model is built from.                     *)
(***************************************************************************)

\* Every set of numbers that has a member has a least one.
LEMMA MinIn ==
  ASSUME NEW S \in SUBSET Nat, S # {}
  PROVE  Min(S) \in S
<1> DEFINE R == {ss \in Nat \X Nat : ss[1] < ss[2]}
<1>1. IsWellFoundedOn(R, Nat)
  <2>1. R = OpToRel(<, Nat)
    BY DEF OpToRel
  <2> QED  BY <2>1, NatLessThanWellFounded
<1>2. PICK x \in S : \A y \in S : ~ (<<y, x>> \in R)
  <2> HIDE DEF R
  <2> QED  BY <1>1, WFMin
<1>3. ASSUME NEW y \in S  PROVE x <= y
  <2>1. x \in Nat /\ y \in Nat
    OBVIOUS
  <2>2. y < x => <<y, x>> \in R
    BY <2>1
  <2> QED  BY <1>2, <2>1, <2>2
<1> QED  BY <1>3 DEF Min

\* A loop takes its next record from those that are still to come.
LEMMA FirstIn ==
  ASSUME NEW todo \in SUBSET (Domains \X Kinds), todo # {}
  PROVE  First(todo) \in todo
<1> DEFINE S == {r[1] : r \in todo}
           m == Min(S)
<1>1. S \in SUBSET Nat /\ S # {}
  BY RotationAssumption
<1>2. m \in S
  <2> HIDE DEF S
  <2> QED  BY <1>1, MinIn
<1>3. PICK r \in todo : r[1] = m
  BY <1>2
<1>4. r = <<m, "ed">> \/ r = <<m, "rsa">>
  BY <1>3 DEF Kinds
<1> HIDE DEF m
<1>5. <<m, IF <<m, "ed">> \in todo THEN "ed" ELSE "rsa">> \in todo
  BY <1>4
<1> QED  BY <1>5 DEF First, m

\* There is always a key that no record shows.
LEMMA FreshIn ==
  ASSUME TypeOK, NEW k \in Kinds, NEW d \in Days
  PROVE  Fresh(k, d) \in Nat \ {0}
<1> DEFINE f == [m \in Domains |-> txt[m][k][d]]
           T == {txt[m][k][d] : m \in Domains}
           c == Cardinality(Domains)
           N == 1..(c + 1)
           S == N \ T
<1>1. c \in Nat /\ IsFiniteSet(Domains)
  BY FS_CardinalityType, RotationAssumption
<1>2. f \in Surjection(Domains, T)
  BY DEF Surjection
<1>3. IsFiniteSet(T) /\ Cardinality(T) <= c
  <2> HIDE DEF f, T
  <2> QED  BY <1>1, <1>2, FS_Surjection
<1>4. IsFiniteSet(N) /\ Cardinality(N) = c + 1
  <2> HIDE DEF c
  <2>1. 1 \in Int /\ c + 1 \in Int /\ ~(1 > c + 1)
    BY <1>1
  <2> QED  BY <2>1, <1>1, FS_Interval
<1>5. Cardinality(T) \in Nat
  <2> HIDE DEF T
  <2> QED  BY <1>3, FS_CardinalityType
<1>6. ~(N \subseteq T)
  <2> HIDE DEF T, N, c
  <2> QED  BY <1>1, <1>3, <1>4, <1>5, FS_Subset
<1>7. S \in SUBSET Nat /\ S # {}
  <2> HIDE DEF T, c
  <2> QED  BY <1>1, <1>6
<1>8. Min(S) \in S
  <2> HIDE DEF S
  <2> QED  BY <1>7, MinIn
<1>9. S \subseteq Nat \ {0}
  <2> HIDE DEF T, c
  <2> QED  BY <1>1
<1> QED  BY <1>8, <1>9 DEF Fresh

\* What is left of the key files and of the records.
LEMMA WithoutIs ==
  ASSUME TypeOK
  PROVE  /\ \A gone : /\ KeysWithout(gone) \in [Kinds -> [Days -> Nat]]
                      /\ \A k \in Kinds, d \in Days :
                           KeysWithout(gone)[k][d] = IF <<k, d>> \in gone THEN 0 ELSE keys[k][d]
         /\ \A gone : /\ RecordsWithout(gone) \in [Domains -> [Kinds -> [Days -> Nat]]]
                      /\ \A m \in Domains, k \in Kinds, d \in Days :
                           RecordsWithout(gone)[m][k][d] =
                             IF <<m, k, d>> \in gone THEN 0 ELSE txt[m][k][d]
BY DEF KeysWithout, RecordsWithout, TypeOK

\* The constant states are states.
LEMMA ConstantsTyped ==
  /\ NoPrev \in Previous /\ NoPend \in Pending /\ Empty \in RotationState /\ NoKey \in Keys
  /\ 0 \in Days /\ 1 \in Days
<1>1. 0 \in Days /\ 1 \in Days
  BY RotationAssumption DEF Days
<1> QED  BY <1>1 DEF NoPrev, Previous, NoPend, Pending, Empty, RotationState, NoKey, Keys

\* A pass that ends a rotation rests: it carries no state on.
Rests(r) == r \in Run /\ r.at \in {"down", "idle", "request", "cleanup", "tick"}

Asked == [rotate : BOOLEAN, cleanup : BOOLEAN, paused : BOOLEAN]

\* A pass at rest is one of the places of the task, whoever began it.
LEMMA IdleRests ==
  /\ Rests(Idle)
  /\ \A auto \in BOOLEAN, where \in {"down", "idle", "request", "cleanup", "tick"} :
       Rests([Idle EXCEPT !.at = where, !.auto = auto]) /\ Rests([Idle EXCEPT !.at = where])
<1>1. Idle \in Run
  BY ConstantsTyped DEF Idle, Run, Places
<1>2. Idle.at = "idle"
  BY DEF Idle
<1>3. ASSUME NEW auto \in BOOLEAN, NEW where \in {"down", "idle", "request", "cleanup", "tick"}
      PROVE  Rests([Idle EXCEPT !.at = where, !.auto = auto]) /\ Rests([Idle EXCEPT !.at = where])
  <2>1. where \in Places
    BY DEF Places
  <2>2. [Idle EXCEPT !.at = where] \in Run
    BY <1>1, <2>1 DEF Run
  <2>3. [Idle EXCEPT !.at = where, !.auto = auto] \in Run
    BY <1>1, <2>1 DEF Run
  <2>4. [Idle EXCEPT !.at = where].at = where
    BY <1>1 DEF Run
  <2>5. [Idle EXCEPT !.at = where, !.auto = auto].at = where
    BY <1>1 DEF Run
  <2> QED  BY <2>2, <2>3, <2>4, <2>5 DEF Rests
<1> QED  BY <1>1, <1>2, <1>3 DEF Rests

\* serve_request and tick return: the task goes on to the cleanup or waits.
LEMMA FinishRests ==
  ASSUME run \in Run, asked \in Asked, NEW ok \in BOOLEAN, Finish(ok)
  PROVE  Rests(run') /\ asked' \in Asked /\ run'.at \in {"cleanup", "idle"}
<1>1. CASE run.leg = "request"
  <2>1. run' = [Idle EXCEPT !.at = "cleanup", !.auto = run.auto /\ ~ok]
    BY <1>1 DEF Finish
  <2>2. (run.auto /\ ~ok) \in BOOLEAN
    BY DEF Run
  <2>3. Rests(run')
    BY <2>1, <2>2, IdleRests
  <2>4. run'.at = "cleanup"
    BY <2>1 DEF Idle
  <2>5. asked' \in Asked
    BY <1>1 DEF Finish, Asked
  <2> QED  BY <2>3, <2>4, <2>5
<1>2. CASE run.leg # "request"
  <2>1. run' = Idle /\ asked' = asked
    BY <1>2 DEF Finish
  <2>2. Idle.at = "idle"
    BY DEF Idle
  <2> QED  BY <2>1, <2>2, IdleRests
<1> QED  BY <1>1, <1>2

-----------------------------------------------------------------------------
(***************************************************************************)
(* What a step leaves alone.                                               *)
(***************************************************************************)

\* Excuses are only added.
MoreExcused == /\ excused.early \subseteq excused'.early
               /\ excused.left \subseteq excused'.left

\* Between places other than the switch, a step that leaves the files, the
\* records and the signer alone disturbs nothing of the books.
LEMMA QuietBooks ==
  ASSUME Books, MoreExcused,
         UNCHANGED <<diskVars, keys, txt, domains, now, used>>
  PROVE  Books'
<1>1. domains' # {}
  BY DEF Books
<1>2. InOrder'
  BY DEF Books, InOrder, diskVars
<1>3. KeysShown'
  BY DEF Books, KeysShown, InUse, Active, diskVars
<1>4. ReplacedShown'
  BY DEF Books, ReplacedShown, MayGo, RetireDue, InUse, Replaced, diskVars, MoreExcused
<1>5. RecentNamed'
  BY DEF Books, RecentNamed, Active, Replaced, diskVars, MoreExcused
<1>6. NothingOrphaned'
  BY DEF Books, NothingOrphaned, OrphanKeys, OrphanRecords, Named, diskVars, MoreExcused
<1>7. BackupBehind'
  BY DEF Books, BackupBehind, Active, Replaced, diskVars
<1> QED  BY <1>1, <1>2, <1>3, <1>4, <1>5, <1>6, <1>7 DEF Books

\* What signs well goes on doing so while state, keys and signer stay.
LEMMA QuietSigner ==
  ASSUME SignsWell, MoreExcused, excused'.unsure = excused.unsure,
         run.at # "swap", run'.at # "swap", UNCHANGED <<state, keys, signer>>
  PROVE  SignsWell'
BY DEF SignsWell, Signing, Active, MoreExcused

\* A pass that rests carries nothing on.
LEMMA RestKeeps ==
  ASSUME Rests(run)'
  PROVE  (PlaceInv /\ SaveInv /\ BackupTaken)' /\ run'.at # "swap" /\ run' \in Run
BY DEF Rests, PlaceInv, SaveInv, BackupTaken

\* A step that leaves the pass, the files and the records alone.
LEMMA SamePlace ==
  ASSUME PlaceInv, SaveInv, BackupTaken,
         UNCHANGED <<diskVars, keys, txt, domains, signer, now, run, excused>>
  PROVE  (PlaceInv /\ SaveInv /\ BackupTaken)'
BY DEF PlaceInv, SaveInv, BackupTaken, diskVars, DualSigning, Journaled, Going, KeyThere, AllThere, RecordGone,
       FileGone, PendGone, PrevKinds, PrevGone, PendGoing, PrevGoing, Retiring, CommitsTo,
       CommitReady, MayGo, RetireDue, InUse, Replaced

-----------------------------------------------------------------------------
(***************************************************************************)
(* The initial state, and the steps that write no file and no record.      *)
(***************************************************************************)

\* A server starts with the configured keys, published, and no rotation.
LEMMA InvInit == Init => Inv
<1> SUFFICES ASSUME Init PROVE Inv
  OBVIOUS
<1>1. run \in Run /\ Rests(run)
  BY IdleRests DEF Init, Rests
<1>2. TypeOK
  BY <1>1, ConstantsTyped, RotationAssumption DEF Init, TypeOK, Kinds, Keys
<1>3. domains # {}
  BY RotationAssumption DEF Init
<1>4. InOrder
  BY DEF Init, InOrder, Empty
<1>5. \A k \in Kinds : Active(state, k) = 0 /\ Replaced(state, k) = 0 /\ Active(backup, k) = 0
  BY DEF Init, Active, Replaced, Empty, NoPrev
<1>6. \A k \in Kinds : InUse(k, 0)
  <2>1. \A k \in Kinds : keys[k][0] = 1
    BY ConstantsTyped DEF Init
  <2>2. \A m \in Domains : txt[m] = keys
    BY DEF Init
  <2> QED  BY <2>1, <2>2 DEF InUse, Init
<1>7. KeysShown /\ ReplacedShown /\ BackupBehind
  BY <1>5, <1>6 DEF KeysShown, ReplacedShown, BackupBehind
<1>8. RecentNamed
  BY DEF Init, RecentNamed
<1>9. NothingOrphaned
  <2>1. \A k \in Kinds, d \in Days : keys[k][d] # 0 => d \in Named(k)
    BY DEF Init, Named
  <2>2. \A m \in Domains : txt[m] = keys
    BY DEF Init
  <2>3. OrphanKeys = {}
    BY <2>1 DEF OrphanKeys
  <2>4. OrphanRecords = {}
    BY <2>1, <2>2 DEF OrphanRecords, Init
  <2> QED  BY <2>3, <2>4 DEF NothingOrphaned
<1>10. SignsWell
  BY <1>5, <1>6, ConstantsTyped DEF Init, SignsWell, Signing, Active, Idle, NoKey, Kinds
<1>11. PlaceInv /\ SaveInv /\ BackupTaken
  BY <1>1 DEF Rests, PlaceInv, SaveInv, BackupTaken
<1> QED  BY <1>2, <1>3, <1>4, <1>7, <1>8, <1>9, <1>10, <1>11 DEF Inv, Books

\* cycle, at the ticker.
LEMMA CycleKeeps ==
  ASSUME Inv, NEW auto \in BOOLEAN, Cycle(auto)
  PROVE  Inv'
<1>1. Rests(run)' /\ run.at # "swap"
  BY IdleRests DEF Cycle
<1>2. MoreExcused /\ excused'.unsure = excused.unsure
  BY DEF Cycle, MoreExcused
<1>3. TypeOK'
  BY <1>1 DEF Inv, TypeOK, Cycle, diskVars, Rests
<1>4. Books'
  BY <1>2, QuietBooks DEF Inv, Cycle
<1>5. SignsWell'
  BY <1>1, <1>2, QuietSigner, RestKeeps DEF Inv, Cycle, diskVars
<1> QED  BY <1>1, <1>3, <1>4, <1>5, RestKeeps DEF Inv

\* The pause after a failure is over.
LEMMA EndPauseKeeps ==
  ASSUME Inv, EndPause
  PROVE  Inv'
<1>1. UNCHANGED <<diskVars, keys, txt, domains, signer, run, now, used, excused>>
  BY DEF EndPause
<1>2. MoreExcused
  BY <1>1 DEF MoreExcused
<1>3. TypeOK'
  BY <1>1 DEF Inv, TypeOK, EndPause, diskVars
<1>4. Books'
  BY <1>1, <1>2, QuietBooks DEF Inv
<1>5. SignsWell'
  BY <1>1 DEF Inv, SignsWell, Signing, Active, Replaced, diskVars
<1>6. (PlaceInv /\ SaveInv /\ BackupTaken)'
  BY <1>1, SamePlace DEF Inv
<1> QED  BY <1>3, <1>4, <1>5, <1>6 DEF Inv

\* The operator leaves a request.
LEMMA AskKeeps ==
  ASSUME Inv, Ask
  PROVE  Inv'
<1>1. UNCHANGED <<diskVars, keys, txt, domains, dual, signer, run, now, used, excused>>
  BY DEF Ask
<1>2. MoreExcused
  BY <1>1 DEF MoreExcused
<1>3. TypeOK'
  BY <1>1 DEF Inv, TypeOK, Ask, diskVars
<1>4. Books'
  BY <1>1, <1>2, QuietBooks DEF Inv
<1>5. SignsWell'
  BY <1>1 DEF Inv, SignsWell, Signing, Active, Replaced, diskVars
<1>6. (PlaceInv /\ SaveInv /\ BackupTaken)'
  BY <1>1, SamePlace DEF Inv
<1> QED  BY <1>3, <1>4, <1>5, <1>6 DEF Inv

\* What a pass begins on the state it has loaded.  The guards of the callers
\* are the hypotheses: a journal only with nothing to retire.
LEMMA BeginTyped ==
  ASSUME Inv, NEW leg \in {"request", "tick"}, NEW where \in {"journal", "resume", "retire"},
         Begin(leg, where)
  PROVE  /\ run' \in Run /\ run'.at = where /\ run'.mem = state /\ run'.leg = leg
         /\ run'.failed = FALSE
         /\ where = "retire" => run'.todo = Records(domains, state.prev.rsa # 0)
<1> DEFINE todo == IF where = "retire" THEN Records(domains, state.prev.rsa # 0) ELSE {}
<1>1. run \in Run /\ state \in RotationState /\ where \in Places /\ FALSE \in BOOLEAN
      /\ domains \in SUBSET Domains
  BY DEF Inv, TypeOK, Places
<1>2. todo \in SUBSET (Domains \X Kinds)
  BY <1>1 DEF Records, Kinds
<1>3. run' = [run EXCEPT !.leg = leg, !.at = where, !.mem = state, !.failed = FALSE, !.todo = todo]
  BY DEF Begin
<1> HIDE DEF todo
<1>4. run' \in Run
  BY <1>1, <1>2, <1>3 DEF Run
<1>5. /\ run'.at = where /\ run'.mem = state /\ run'.leg = leg /\ run'.failed = FALSE
      /\ run'.todo = todo
  BY <1>1, <1>3 DEF Run
<1> QED  BY <1>4, <1>5 DEF todo

\* A pass begins with the state it loaded, and with what its place asks for.
LEMMA BeginPlaced ==
  ASSUME Inv, NEW leg \in {"request", "tick"}, NEW where \in {"journal", "resume", "retire"},
         Begin(leg, where), UNCHANGED <<diskVars, keys, txt, domains, now>>, MoreExcused,
         where = "resume" => state.pend # NoPend,
         where # "resume" => state.pend = NoPend,
         where = "journal" => state.prev = NoPrev /\ state.sel < now,
         where = "retire" => /\ state.prev # NoPrev /\ (leg = "request" => state.sel < now)
                             /\ RetireDue \/ \A k \in Kinds : <<k, Replaced(state, k)>> \in excused'.early
  PROVE  (PlaceInv /\ SaveInv /\ BackupTaken)' /\ run'.at # "swap" /\ run' \in Run
<1>1. /\ run' \in Run /\ run'.at = where /\ run'.mem = state' /\ run'.leg = leg
      /\ run'.failed = FALSE
      /\ where = "retire" => run'.todo = Records(domains, state.prev.rsa # 0)
  BY BeginTyped DEF diskVars
<1>2. SaveInv' /\ BackupTaken' /\ run'.at # "swap"
  BY <1>1 DEF SaveInv, BackupTaken
<1>3. CASE where = "journal"
  <2>1. /\ run'.at = "journal" /\ run'.mem = state' /\ state'.pend = NoPend /\ state'.prev = NoPrev
        /\ state'.sel < now'
    BY <1>1, <1>3 DEF diskVars
  <2> QED  BY <1>1, <1>2, <2>1 DEF PlaceInv
<1>4. CASE where = "resume"
  <2>1. run'.at = "resume" /\ Journaled'
    BY <1>1, <1>4 DEF Journaled, diskVars
  <2> QED  BY <1>1, <1>2, <2>1 DEF PlaceInv
<1>5. CASE where = "retire"
  <2>1. run'.todo = domains \X PrevKinds
    BY <1>1, <1>5 DEF Records, PrevKinds
  <2>2. domains # {} /\ domains \subseteq Domains /\ PrevKinds' = PrevKinds /\ PrevKinds \subseteq Kinds
        /\ "ed" \in PrevKinds
    BY DEF Inv, Books, TypeOK, PrevKinds, diskVars, Kinds
  <2>3. PrevGoing'
    <3>1. run'.todo # {} /\ run'.todo \subseteq Domains \X PrevKinds'
      <4>1. PICK m \in domains : TRUE
        BY <2>2
      <4>2. <<m, "ed">> \in run'.todo
        BY <2>1, <2>2, <4>1
      <4> QED  BY <2>1, <2>2, <4>2
    <3>2. \A k \in PrevKinds' : \A m \in domains' : <<m, k>> \in run'.todo
      BY <2>1, <2>2
    <3> QED  BY <3>1, <3>2 DEF PrevGoing
  <2>4. Retiring'
    BY <1>1, <1>5, <2>2 DEF Retiring, MayGo, RetireDue, Replaced, diskVars
  <2>5. run'.at = "retire" /\ run'.mem = state'
    BY <1>1, <1>5
  <2> QED  BY <1>1, <1>2, <2>3, <2>4, <2>5 DEF PlaceInv
<1> QED  BY <1>1, <1>2, <1>3, <1>4, <1>5

\* serve_request and what it begins.
LEMMA ServeRequestKeeps ==
  ASSUME Inv, ServeRequest
  PROVE  Inv'
<1>1. /\ run.at = "request"
      /\ UNCHANGED <<diskVars, keys, txt, domains, dual, signer, now, used, spent>>
  BY DEF ServeRequest
<1>2. TypeOK /\ run \in Run
  BY DEF Inv, TypeOK
<1> DEFINE S == /\ (PlaceInv /\ SaveInv /\ BackupTaken)' /\ run'.at # "swap" /\ run' \in Run
                /\ asked' \in Asked /\ MoreExcused /\ excused'.unsure = excused.unsure
                /\ excused' \in [early : SUBSET (Kinds \X Days), left : SUBSET (Kinds \X Days),
                                 unsure : BOOLEAN]
<1>3. ASSUME ~asked.rotate \/ asked.paused \/ state.sel = now  PROVE S
  <2>1. run' = [run EXCEPT !.at = "cleanup"] /\ asked' \in Asked /\ excused' = excused
    BY <1>2, <1>3 DEF ServeRequest, Goto, TypeOK, Asked
  <2>2. Rests(run)'
    BY <1>2, <2>1 DEF Rests, Run, Places
  <2>3. S
    BY <2>1, <2>2, <1>2, RestKeeps DEF MoreExcused, TypeOK
  <2> QED  BY <2>3
<1>4. ASSUME ~(~asked.rotate \/ asked.paused \/ state.sel = now)  PROVE S
  <2>1. Forced /\ asked' = asked
    BY <1>4 DEF ServeRequest, Forced
  <2>2. state \in RotationState /\ now \in Days /\ state.sel \in Int /\ now \in Int
    BY <1>2 DEF TypeOK, RotationState, Days
  <2>3. state.sel < now
    BY <1>4, <2>2 DEF Inv, Books, InOrder, RotationState, Days
  <2>4. CASE state.pend # NoPend
    <3>1. Begin("request", "resume") /\ excused' = excused
      BY <2>1, <2>4 DEF Forced
    <3>2. MoreExcused
      BY <3>1 DEF MoreExcused
    <3>3. (PlaceInv /\ SaveInv /\ BackupTaken)' /\ run'.at # "swap" /\ run' \in Run
      BY <3>1, <3>2, <2>4, <1>1, BeginPlaced
    <3> QED  BY <3>1, <3>2, <3>3, <1>2, <2>1 DEF TypeOK, Asked
  <2>5. CASE state.pend = NoPend /\ state.prev # NoPrev
    <3>1. /\ Begin("request", "retire")
          /\ excused' = [excused EXCEPT !.early = @ \cup {<<"ed", state.prev.sel>>,
                                                          <<"rsa", state.prev.rsa>>}]
      BY <2>1, <2>5 DEF Forced
    <3>2. MoreExcused /\ \A k \in Kinds : <<k, Replaced(state, k)>> \in excused'.early
      BY <1>2, <3>1 DEF MoreExcused, Replaced, Kinds, TypeOK
    <3>3. (PlaceInv /\ SaveInv /\ BackupTaken)' /\ run'.at # "swap" /\ run' \in Run
      BY <3>1, <3>2, <2>3, <2>5, <1>1, BeginPlaced
    <3>4. {<<"ed", state.prev.sel>>, <<"rsa", state.prev.rsa>>} \subseteq Kinds \X Days
      BY <2>2 DEF RotationState, Previous, Kinds
    <3>5. /\ excused'.unsure = excused.unsure
          /\ excused' \in [early : SUBSET (Kinds \X Days), left : SUBSET (Kinds \X Days),
                           unsure : BOOLEAN]
      BY <1>2, <3>1, <3>4 DEF TypeOK
    <3> QED  BY <3>2, <3>3, <3>5, <1>2, <2>1 DEF TypeOK, Asked
  <2>6. CASE state.pend = NoPend /\ state.prev = NoPrev
    <3>1. Begin("request", "journal") /\ excused' = excused
      BY <2>1, <2>6 DEF Forced
    <3>2. MoreExcused
      BY <3>1 DEF MoreExcused
    <3>3. (PlaceInv /\ SaveInv /\ BackupTaken)' /\ run'.at # "swap" /\ run' \in Run
      BY <3>1, <3>2, <2>3, <2>6, <1>1, BeginPlaced
    <3> QED  BY <3>1, <3>2, <3>3, <1>2, <2>1 DEF TypeOK, Asked
  <2> QED  BY <2>4, <2>5, <2>6
<1>5. S
  BY <1>3, <1>4
<1>6. TypeOK'
  BY <1>1, <1>2, <1>5 DEF TypeOK, diskVars, Asked
<1>7. Books'
  BY <1>1, <1>5, QuietBooks DEF Inv
<1>8. SignsWell'
  BY <1>1, <1>5, QuietSigner DEF Inv, diskVars
<1> QED  BY <1>5, <1>6, <1>7, <1>8 DEF Inv

\* decide: a scheduled rotation is due only when no replaced key is left.
LEMMA TickKeeps ==
  ASSUME Inv, Tick
  PROVE  Inv'
<1>1. /\ run.at = "tick"
      /\ UNCHANGED <<diskVars, keys, txt, asked, domains, dual, signer, now, used, excused, spent>>
  BY DEF Tick
<1>2. TypeOK /\ run \in Run /\ MoreExcused /\ excused'.unsure = excused.unsure
  BY <1>1 DEF Inv, TypeOK, MoreExcused
<1>3. state \in RotationState /\ now \in Int /\ state.sel \in Int /\ state.at \in Int
      /\ state.prev.retire \in Int
  BY <1>2 DEF TypeOK, RotationState, Previous, Days
<1>4. state.sel <= now
  BY <1>3 DEF Inv, Books, InOrder
<1>5. (PlaceInv /\ SaveInv /\ BackupTaken)' /\ run'.at # "swap" /\ run' \in Run
  <2>1. CASE run' = Idle
    BY <2>1, IdleRests, RestKeeps
  <2>2. CASE state.pend # NoPend /\ Begin("tick", "resume")
    BY <2>2, <1>1, <1>2, BeginPlaced
  <2>3. CASE state.pend = NoPend /\ RetireDue /\ Begin("tick", "retire")
    BY <2>3, <1>1, <1>2, BeginPlaced DEF RetireDue
  <2>4. CASE state.pend = NoPend /\ ~RetireDue /\ RotateDue /\ state.sel # now /\ Begin("tick", "journal")
    <3>1. state.prev = NoPrev
      <4>1. state.prev.sel \in Int /\ Overlap \in Int /\ Interval \in Int /\ Overlap <= Interval
        BY <1>3, RotationAssumption DEF RotationState, Previous, Days
      <4>2. ASSUME state.prev # NoPrev  PROVE FALSE
        <5>1. now < state.prev.retire
          BY <2>4, <4>2, <1>3 DEF RetireDue
        <5>2. /\ 0 < state.prev.sel /\ state.prev.sel < state.sel
              /\ state.prev.retire = state.at + Overlap
          BY <4>2 DEF Inv, Books, InOrder
        <5> QED  BY <5>1, <5>2, <4>1, <2>4, <1>3 DEF RotateDue
      <4> QED  BY <4>2
    <3>2. state.sel < now
      BY <2>4, <1>3, <1>4
    <3> QED  BY <2>4, <3>1, <3>2, <1>1, <1>2, BeginPlaced
  <2> QED  BY <2>1, <2>2, <2>3, <2>4 DEF Tick
<1>6. TypeOK'
  BY <1>1, <1>2, <1>5 DEF TypeOK, diskVars
<1>7. Books'
  BY <1>1, <1>2, QuietBooks DEF Inv
<1>8. SignsWell'
  BY <1>1, <1>2, <1>5, QuietSigner DEF Inv, diskVars
<1> QED  BY <1>5, <1>6, <1>7, <1>8 DEF Inv

-----------------------------------------------------------------------------
(***************************************************************************)
(* Steps that write key files and records.                                 *)
(***************************************************************************)

\* The key and the records of a selector stay as they are.
Kept(k, d) == keys'[k][d] = keys[k][d] /\ \A m \in domains : txt'[m][k][d] = txt[m][k][d]

\* A step may write what the state names, as long as it keeps what is active
\* and what was replaced and may not go yet.
Spares == /\ \A k \in Kinds : /\ Kept(k, 0) /\ Kept(k, Active(state, k))
                              /\ MayGo(k) \/ Kept(k, Replaced(state, k))
          /\ \A k \in Kinds, d \in Days : keys'[k][d] # 0 => keys[k][d] # 0 \/ d \in Named(k)
          /\ \A m \in domains, k \in Kinds, d \in Days :
               txt'[m][k][d] # 0 => txt[m][k][d] # 0 \/ d \in Named(k)

\* A step that removes no key in use and writes only under named selectors
\* keeps the books.
LEMMA SparesBooks ==
  ASSUME TypeOK, Books, MoreExcused, Spares, UNCHANGED <<diskVars, domains, now, used>>
  PROVE  Books'
<1>1. domains' # {}
  BY DEF Books
<1>2. InOrder'
  BY DEF Books, InOrder, diskVars
<1>3. KeysShown'
  BY DEF Books, KeysShown, InUse, Active, diskVars, Spares, Kept
<1>4. ReplacedShown'
  <2> SUFFICES ASSUME NEW k \in Kinds PROVE (MayGo(k) \/ InUse(k, Replaced(state, k)))'
    BY DEF ReplacedShown
  <2>1. CASE MayGo(k)
    BY <2>1 DEF MayGo, RetireDue, Replaced, diskVars, MoreExcused
  <2>2. CASE ~MayGo(k)
    <3>1. InUse(k, Replaced(state, k)) /\ Kept(k, Replaced(state, k))
      BY <2>2 DEF Books, ReplacedShown, Spares
    <3> QED  BY <3>1 DEF InUse, Kept, Replaced, diskVars
  <2> QED  BY <2>1, <2>2
<1>5. RecentNamed'
  BY DEF Books, RecentNamed, Active, Replaced, diskVars, MoreExcused
<1>6. NothingOrphaned'
  <2>1. \A k \in Kinds : Named(k)' = Named(k)
    BY DEF Named, diskVars
  <2>2. OrphanRecords' = {}
    BY <2>1 DEF OrphanRecords, Books, NothingOrphaned, Spares
  <2>3. OrphanKeys' \subseteq OrphanKeys
    BY <2>1 DEF OrphanKeys, Spares
  <2> QED  BY <2>2, <2>3 DEF Books, NothingOrphaned, MoreExcused
<1>7. BackupBehind'
  BY DEF Books, BackupBehind, Active, Replaced, diskVars
<1> QED  BY <1>1, <1>2, <1>3, <1>4, <1>5, <1>6, <1>7 DEF Books

\* It also keeps the key the server signs with.
LEMMA SparesSigner ==
  ASSUME SignsWell, MoreExcused, excused'.unsure = excused.unsure, Spares,
         run.at # "swap", run'.at # "swap", UNCHANGED <<state, signer>>
  PROVE  SignsWell'
BY DEF SignsWell, Signing, Active, MoreExcused, Spares, Kept

\* save_state is on its way.
LEMMA SaveThenIs ==
  ASSUME run \in Run, NEW mem \in RotationState, NEW next \in Places
  PROVE  /\ SaveThen(mem, next) \in Run
         /\ SaveThen(mem, next).at = "backup" /\ SaveThen(mem, next).then = next
         /\ SaveThen(mem, next).mem = mem /\ SaveThen(mem, next).leg = run.leg
<1>1. "backup" \in Places
  BY DEF Places
<1> QED  BY <1>1 DEF SaveThen, Run

\* The records of a withdrawal: all that the rotation may have published.
LEMMA UnpublishingIs ==
  ASSUME TypeOK, domains # {}, Pend \in Pending, NEW r \in Run
  PROVE  /\ Unpublishing(r) \in Run /\ Unpublishing(r).at = r.at /\ Unpublishing(r).then = r.then
         /\ Unpublishing(r).mem = r.mem /\ Unpublishing(r).failed = FALSE
         /\ Unpublishing(r).todo # {} /\ domains \X PendKinds(Pend) \subseteq Unpublishing(r).todo
<1> DEFINE todo == Records(Pend.domains \cup domains, Pend.rsa)
<1>1. Unpublishing(r) = [r EXCEPT !.failed = FALSE, !.todo = todo]
  BY DEF Unpublishing
<1>2. todo = (Pend.domains \cup domains) \X PendKinds(Pend)
  BY DEF Records, PendKinds
<1>3. "ed" \in PendKinds(Pend) /\ PendKinds(Pend) \subseteq Kinds
  BY DEF PendKinds, Kinds
<1>4. Pend.domains \subseteq Domains /\ domains \subseteq Domains
  BY DEF Pending, TypeOK
<1> HIDE DEF todo
<1>5. todo \in SUBSET (Domains \X Kinds)
  BY <1>2, <1>3, <1>4
<1>6. domains \X PendKinds(Pend) \subseteq todo
  BY <1>2
<1>7. todo # {}
  <2>1. PICK m \in domains : TRUE
    OBVIOUS
  <2>2. <<m, "ed">> \in todo
    BY <1>3, <1>6
  <2> QED  BY <2>2
<1>8. Unpublishing(r) \in Run
  BY <1>1, <1>5 DEF Run
<1>9. /\ Unpublishing(r).at = r.at /\ Unpublishing(r).then = r.then /\ Unpublishing(r).mem = r.mem
      /\ Unpublishing(r).failed = FALSE /\ Unpublishing(r).todo = todo
  BY <1>1 DEF Run
<1> QED  BY <1>6, <1>7, <1>8, <1>9

\* withdraw marks the journal before it removes anything.
LEMMA WithdrawPlaced ==
  ASSUME Inv, Journaled, Withdraw, UNCHANGED <<diskVars, domains>>
  PROVE  (PlaceInv /\ SaveInv /\ BackupTaken)' /\ run'.at = "backup" /\ run' \in Run
<1>1. TypeOK /\ run \in Run /\ domains # {} /\ run.mem = state /\ state \in RotationState
      /\ state.pend # NoPend /\ state.pend \in Pending /\ Pend = state.pend
  BY DEF Inv, TypeOK, Books, Journaled, RotationState, Pend
<1> DEFINE mem == [state EXCEPT !.pend.withdrawing = TRUE]
           r   == SaveThen(mem, "unpublish")
<1>2. mem \in RotationState
  BY <1>1 DEF RotationState, Pending
<1>3. run' = Unpublishing(r)
  BY <1>1 DEF Withdraw
<1> HIDE DEF mem
<1>4. r \in Run /\ r.at = "backup" /\ r.then = "unpublish" /\ r.mem = mem
  <2>1. "unpublish" \in Places
    BY DEF Places
  <2> QED  BY <1>1, <1>2, <2>1, SaveThenIs
<1> HIDE DEF r
<1>5. /\ run' \in Run /\ run'.at = "backup" /\ run'.then = "unpublish" /\ run'.mem = mem
      /\ run'.failed = FALSE /\ run'.todo # {} /\ domains \X PendKinds(state.pend) \subseteq run'.todo
  BY <1>1, <1>3, <1>4, UnpublishingIs
<1>6. PendGoing'
  BY <1>5 DEF PendGoing, diskVars
<1>7. PlaceInv' /\ BackupTaken'
  BY <1>5 DEF PlaceInv, BackupTaken
<1>8. run'.mem = [state' EXCEPT !.pend.withdrawing = TRUE] /\ state'.pend # NoPend
  BY <1>1, <1>5 DEF mem, diskVars
<1>9. SaveInv'
  BY <1>5, <1>6, <1>8 DEF SaveInv
<1> QED  BY <1>5, <1>7, <1>9

Excused == [early : SUBSET (Kinds \X Days), left : SUBSET (Kinds \X Days), unsure : BOOLEAN]

\* A step that writes no key file and no record is one of these.
LEMMA QuietSpares ==
  ASSUME UNCHANGED <<keys, txt>>
  PROVE  Spares
BY DEF Spares, Kept

\* A step of the pass that writes key files and records, put together.
LEMMA WriteKeeps ==
  ASSUME Inv, Spares, MoreExcused, excused'.unsure = excused.unsure, excused' \in Excused,
         UNCHANGED <<diskVars, domains, dual, signer, now, used>>, asked' \in Asked,
         keys' \in [Kinds -> [Days -> Nat]], txt' \in [Domains -> [Kinds -> [Days -> Nat]]],
         run' \in Run, run.at # "swap", run'.at # "swap", (PlaceInv /\ SaveInv /\ BackupTaken)'
  PROVE  Inv'
<1>1. TypeOK'
  BY DEF Inv, TypeOK, diskVars, Asked, Excused
<1>2. Books'
  BY SparesBooks DEF Inv
<1>3. SignsWell'
  BY SparesSigner DEF Inv, diskVars
<1> QED  BY <1>1, <1>2, <1>3 DEF Inv

\* The selector of a journaled rotation is younger than all the others.
LEMMA PendApart ==
  ASSUME Inv, state.pend # NoPend
  PROVE  /\ state.pend \in Pending /\ state.pend.day \in Days /\ state.pend.day # 0
         /\ PendKinds(state.pend) \subseteq Kinds /\ "ed" \in PendKinds(state.pend)
         /\ \A k \in Kinds : /\ Active(state, k) \in Days /\ state.pend.day # Active(state, k)
                             /\ Replaced(state, k) = 0
         /\ \A k \in PendKinds(state.pend) : state.pend.day \in Named(k)
<1>1. state \in RotationState /\ state.pend \in Pending /\ state.pend.day \in Days
      /\ state.sel \in Days /\ state.rsa \in Days
  BY DEF Inv, TypeOK, RotationState, Pending
<1>2. state.pend.day \in Nat /\ state.sel \in Nat /\ state.rsa \in Nat
  BY <1>1 DEF Days
<1>3. /\ state.prev = NoPrev /\ state.rsa <= state.sel /\ state.sel < state.pend.day
  BY DEF Inv, Books, InOrder
<1>4. state.pend.day # 0 /\ state.pend.day # state.sel /\ state.pend.day # state.rsa
  BY <1>2, <1>3
<1>5. PendKinds(state.pend) \subseteq Kinds /\ "ed" \in PendKinds(state.pend)
  BY DEF PendKinds, Kinds
<1>6. \A k \in Kinds : /\ Active(state, k) \in Days /\ state.pend.day # Active(state, k)
                       /\ Replaced(state, k) = 0
  BY <1>1, <1>3, <1>4 DEF Active, Replaced, NoPrev
<1>7. \A k \in PendKinds(state.pend) : state.pend.day \in Named(k)
  BY DEF Named, PendKinds, Kinds
<1> QED  BY <1>1, <1>4, <1>5, <1>6, <1>7

\* A key file is written for the journaled selector, or kept.
LEMMA KeyedWrites ==
  ASSUME Inv, Journaled, NEW k \in PendKinds(state.pend), Keyed(k), UNCHANGED txt
  PROVE  /\ Spares /\ keys' \in [Kinds -> [Days -> Nat]] /\ keys'[k][state.pend.day] # 0
         /\ \A j \in Kinds, d \in Days : keys[j][d] # 0 => keys'[j][d] # 0
<1>1. /\ state.pend \in Pending /\ state.pend.day \in Days /\ state.pend.day # 0 /\ k \in Kinds
      /\ state.pend.day \in Named(k)
      /\ \A j \in Kinds : /\ Active(state, j) \in Days /\ state.pend.day # Active(state, j)
                          /\ Replaced(state, j) = 0
  BY PendApart DEF Journaled
<1>2. TypeOK
  BY DEF Inv
<1> DEFINE d == state.pend.day
           fresh == Fresh(k, d)
<1>3. fresh \in Nat \ {0}
  BY <1>1, <1>2, FreshIn
<1> HIDE DEF fresh
<1>4. keys' = [keys EXCEPT ![k][d] = IF @ # 0 THEN @ ELSE fresh]
  BY DEF Keyed, Pend, Journaled, fresh
<1>5. keys \in [Kinds -> [Days -> Nat]]
  BY <1>2 DEF TypeOK
<1>6. keys' \in [Kinds -> [Days -> Nat]]
  BY <1>1, <1>3, <1>4, <1>5
<1>7. \A j \in Kinds, e \in Days :
        keys'[j][e] = IF j = k /\ e = d THEN (IF keys[k][d] # 0 THEN keys[k][d] ELSE fresh)
                      ELSE keys[j][e]
  BY <1>1, <1>4, <1>5
<1>8. Spares
  BY <1>1, <1>7, ConstantsTyped DEF Spares, Kept
<1> QED  BY <1>1, <1>3, <1>6, <1>7, <1>8

\* run_rotation up to its first save.
LEMMA JournalKeeps ==
  ASSUME Inv, Journal
  PROVE  Inv'
<1>1. /\ run.at = "journal"
      /\ UNCHANGED <<diskVars, keys, txt, asked, domains, dual, signer, now, used, excused, spent>>
  BY DEF Journal
<1>2. TypeOK /\ run \in Run /\ state \in RotationState /\ now \in Days /\ domains \in SUBSET Domains
  BY DEF Inv, TypeOK
<1>3. run.mem = state /\ state.pend = NoPend /\ state.prev = NoPrev /\ state.sel < now
  BY <1>1 DEF Inv, PlaceInv
<1> DEFINE p == [day |-> now, rsa |-> DualSigning, domains |-> domains, withdrawing |-> FALSE]
           mem == [state EXCEPT !.pend = p]
<1>4. p \in Pending /\ p.day = now /\ ~p.withdrawing
  BY <1>2 DEF Pending, DualSigning
<1>5. run' = SaveThen(mem, "resume")
  BY <1>3 DEF Journal
<1> HIDE DEF p
<1>6. mem \in RotationState /\ "resume" \in Places
  BY <1>2, <1>4 DEF RotationState, Places
<1> HIDE DEF mem
<1>7. run' \in Run /\ run'.at = "backup" /\ run'.then = "resume" /\ run'.mem = mem
  BY <1>2, <1>5, <1>6, SaveThenIs
<1>8. PlaceInv' /\ BackupTaken'
  BY <1>7 DEF PlaceInv, BackupTaken
<1>9. /\ state'.pend = NoPend /\ state'.prev = NoPrev /\ state'.sel < now' /\ p.day = now'
      /\ run'.mem = [state' EXCEPT !.pend = p]
  BY <1>1, <1>3, <1>4, <1>7 DEF mem, diskVars
<1>10. SaveInv'
  BY <1>4, <1>7, <1>9 DEF SaveInv
<1>11. MoreExcused /\ excused' \in Excused /\ asked' \in Asked /\ keys' \in [Kinds -> [Days -> Nat]]
       /\ txt' \in [Domains -> [Kinds -> [Days -> Nat]]]
  BY <1>1, <1>2 DEF MoreExcused, Excused, Asked, TypeOK
<1> QED  BY <1>1, <1>7, <1>8, <1>10, <1>11, QuietSpares, WriteKeeps

\* A pass that ends leaves the rest as the write left it.
LEMMA FinishKeeps ==
  ASSUME Inv, NEW ok \in BOOLEAN, Finish(ok), Spares, MoreExcused, excused'.unsure = excused.unsure,
         excused' \in Excused, UNCHANGED <<diskVars, domains, dual, signer, now, used>>,
         keys' \in [Kinds -> [Days -> Nat]], txt' \in [Domains -> [Kinds -> [Days -> Nat]]],
         run.at # "swap"
  PROVE  Inv'
<1>1. run \in Run /\ asked \in Asked
  BY DEF Inv, TypeOK, Asked
<1>2. Rests(run)' /\ asked' \in Asked
  BY <1>1, FinishRests
<1> QED  BY <1>2, RestKeeps, WriteKeeps

\* A step that changes no history.
LEMMA SameExcused ==
  ASSUME Inv, UNCHANGED excused
  PROVE  MoreExcused /\ excused'.unsure = excused.unsure /\ excused' \in Excused
BY DEF Inv, TypeOK, MoreExcused, Excused

\* resume, with the first key: ensure_key.
LEMMA MakeKeyKeeps ==
  ASSUME Inv, MakeKey
  PROVE  Inv'
<1>1. /\ run.at = "resume"
      /\ UNCHANGED <<diskVars, txt, domains, dual, signer, now, used, excused>>
  BY DEF MakeKey
<1>2. /\ TypeOK /\ run \in Run /\ keys \in [Kinds -> [Days -> Nat]] /\ asked \in Asked
      /\ txt' \in [Domains -> [Kinds -> [Days -> Nat]]]
  BY <1>1 DEF Inv, TypeOK, Asked
<1>3. Journaled /\ Pend = state.pend
  BY <1>1 DEF Inv, PlaceInv, Journaled, Pend
<1>4. MoreExcused /\ excused'.unsure = excused.unsure /\ excused' \in Excused
  BY <1>1, SameExcused
<1>5. state.pend \in Pending /\ "ed" \in PendKinds(state.pend) /\ state.pend.day \in Days
  BY <1>3, PendApart DEF Journaled
<1>6. CASE Pend.withdrawing
  <2> DEFINE r == Unpublishing(run)
  <2>1. run' = [r EXCEPT !.at = "unpublish"] /\ asked' = asked /\ keys' = keys
    BY <1>6 DEF MakeKey
  <2>2. /\ r \in Run /\ r.mem = state /\ r.failed = FALSE
        /\ r.todo # {} /\ domains \X PendKinds(state.pend) \subseteq r.todo
    BY <1>2, <1>3, <1>5, UnpublishingIs DEF Inv, Books, Journaled
  <2> HIDE DEF r
  <2>3. /\ run' \in Run /\ run'.at = "unpublish" /\ run'.mem = state /\ run'.failed = FALSE
        /\ run'.todo = r.todo
    BY <2>1, <2>2 DEF Run, Places
  <2>4. PendGoing'
    BY <1>1, <2>2, <2>3 DEF PendGoing, diskVars
  <2>5. Journaled' /\ state'.pend.withdrawing
    BY <1>1, <1>3, <1>6, <2>3 DEF Journaled, diskVars
  <2>6. (PlaceInv /\ SaveInv /\ BackupTaken)'
    BY <2>3, <2>4, <2>5 DEF PlaceInv, SaveInv, BackupTaken
  <2>7. Spares
    BY <1>1, <2>1, QuietSpares
  <2> QED  BY <1>1, <1>2, <1>4, <2>1, <2>3, <2>6, <2>7, WriteKeeps
<1>7. CASE ~Pend.withdrawing /\ Keyed("ed") /\ Goto("rsaKey") /\ UNCHANGED asked
  <2>1. Spares /\ keys' \in [Kinds -> [Days -> Nat]] /\ keys'["ed"][state.pend.day] # 0
    BY <1>1, <1>3, <1>5, <1>7, KeyedWrites
  <2>2. run' \in Run /\ run'.at = "rsaKey" /\ run'.mem = run.mem
    BY <1>2, <1>7 DEF Goto, Run, Places
  <2>3. Going' /\ KeyThere("ed")'
    BY <1>1, <1>3, <1>7, <2>1, <2>2 DEF Going, Journaled, KeyThere, diskVars
  <2>4. (PlaceInv /\ SaveInv /\ BackupTaken)'
    BY <2>2, <2>3 DEF PlaceInv, SaveInv, BackupTaken
  <2> QED  BY <1>1, <1>2, <1>4, <1>7, <2>1, <2>2, <2>4, WriteKeeps
<1>8. CASE ~Pend.withdrawing /\ Finish(FALSE) /\ (Keyed("ed") \/ UNCHANGED keys)
  <2>1. Spares /\ keys' \in [Kinds -> [Days -> Nat]]
    BY <1>1, <1>2, <1>3, <1>5, <1>8, KeyedWrites, QuietSpares
  <2> QED  BY <1>1, <1>2, <1>4, <1>8, <2>1, FinishKeeps
<1> QED  BY <1>6, <1>7, <1>8 DEF MakeKey

\* ensure_rsa_key; without an RSA signer the rotation is withdrawn.
LEMMA MakeRsaKeyKeeps ==
  ASSUME Inv, MakeRsaKey
  PROVE  Inv'
<1>1. /\ run.at = "rsaKey"
      /\ UNCHANGED <<diskVars, txt, domains, dual, signer, now, used, excused>>
  BY DEF MakeRsaKey
<1>2. /\ TypeOK /\ run \in Run /\ keys \in [Kinds -> [Days -> Nat]] /\ asked \in Asked
      /\ txt' \in [Domains -> [Kinds -> [Days -> Nat]]]
  BY <1>1 DEF Inv, TypeOK, Asked
<1>3. Going /\ Journaled /\ KeyThere("ed") /\ Pend = state.pend
  BY <1>1 DEF Inv, PlaceInv, Going, Journaled, Pend
<1>4. MoreExcused /\ excused'.unsure = excused.unsure /\ excused' \in Excused
  BY <1>1, SameExcused
<1>5. state.pend \in Pending /\ "ed" \in PendKinds(state.pend) /\ state.pend.day \in Days
  BY <1>3, PendApart DEF Journaled
<1>6. CASE Withdraw /\ ((Pend.rsa /\ Keyed("rsa")) \/ UNCHANGED keys)
  <2>1. Pend.rsa => "rsa" \in PendKinds(state.pend)
    BY <1>3 DEF PendKinds, Kinds
  <2>2. Spares /\ keys' \in [Kinds -> [Days -> Nat]]
    BY <1>1, <1>2, <1>3, <1>6, <2>1, KeyedWrites, QuietSpares
  <2>3. (PlaceInv /\ SaveInv /\ BackupTaken)' /\ run'.at = "backup" /\ run' \in Run
    BY <1>1, <1>3, <1>6, WithdrawPlaced
  <2>4. asked' \in Asked
    BY <1>2, <1>6 DEF Withdraw
  <2> QED  BY <1>1, <1>2, <1>4, <2>2, <2>3, <2>4, WriteKeeps
<1>7. CASE Goto("drop") /\ UNCHANGED asked /\ ((~Pend.rsa /\ UNCHANGED keys) \/ (Pend.rsa /\ Keyed("rsa")))
  <2>1. run' \in Run /\ run'.at = "drop" /\ run'.mem = run.mem
    BY <1>2, <1>7 DEF Goto, Run, Places
  <2>2. Spares /\ keys' \in [Kinds -> [Days -> Nat]] /\ AllThere'
    <3>1. CASE ~Pend.rsa /\ UNCHANGED keys
      <4>1. PendKinds(state.pend) = {"ed"}
        BY <1>3, <3>1 DEF PendKinds
      <4> QED  BY <1>1, <1>2, <1>3, <3>1, <4>1, QuietSpares DEF AllThere, KeyThere, diskVars
    <3>2. CASE Pend.rsa /\ Keyed("rsa")
      <4>1. PendKinds(state.pend) = {"ed", "rsa"}
        BY <1>3, <3>2 DEF PendKinds, Kinds
      <4>2. /\ Spares /\ keys' \in [Kinds -> [Days -> Nat]] /\ keys'["rsa"][state.pend.day] # 0
            /\ \A j \in Kinds, d \in Days : keys[j][d] # 0 => keys'[j][d] # 0
        BY <1>1, <1>3, <3>2, <4>1, KeyedWrites
      <4>3. keys'["ed"][state.pend.day] # 0
        BY <1>3, <1>5, <4>2 DEF KeyThere, Kinds
      <4> QED  BY <1>1, <4>1, <4>2, <4>3 DEF AllThere, KeyThere, diskVars
    <3> QED  BY <1>7, <3>1, <3>2
  <2>3. Going'
    BY <1>1, <1>3, <2>1 DEF Going, Journaled, diskVars
  <2>4. (PlaceInv /\ SaveInv /\ BackupTaken)'
    BY <2>1, <2>2, <2>3 DEF PlaceInv, SaveInv, BackupTaken
  <2> QED  BY <1>1, <1>2, <1>4, <1>7, <2>1, <2>2, <2>4, WriteKeeps
<1>8. \/ Withdraw /\ ((Pend.rsa /\ Keyed("rsa")) \/ UNCHANGED keys)
      \/ Goto("drop") /\ UNCHANGED asked /\ ((~Pend.rsa /\ UNCHANGED keys) \/ (Pend.rsa /\ Keyed("rsa")))
  <2>1. CASE ~Pend.rsa /\ Goto("drop") /\ Fine /\ UNCHANGED <<asked, keys>>
    <3>1. keys' = keys /\ asked' = asked /\ Goto("drop") /\ ~Pend.rsa
      BY <2>1
    <3> QED  BY <3>1
  <2>2. CASE Pend.rsa /\ ~DualSigning /\ Withdraw /\ Fine /\ UNCHANGED keys
    BY <2>2
  <2>3. CASE Pend.rsa /\ DualSigning /\ Keyed("rsa") /\ Goto("drop") /\ Fine /\ UNCHANGED asked
    BY <2>3
  <2>4. CASE Pend.rsa /\ DualSigning /\ Fault /\ Withdraw /\ (Keyed("rsa") \/ UNCHANGED keys)
    BY <2>4
  <2> QED  BY <2>1, <2>2, <2>3, <2>4 DEF MakeRsaKey
<1> QED  BY <1>6, <1>7, <1>8

\* Removing the records of one selector of one kind.
LEMMA RecordsSpared ==
  ASSUME Inv, NEW gone, txt' = RecordsWithout(gone), UNCHANGED <<keys, excused>>,
         \A m \in domains, k \in Kinds, d \in Days : <<m, k, d>> \in gone =>
           /\ d # 0 /\ d # Active(state, k)
           /\ d = Replaced(state, k) => MayGo(k)
  PROVE  /\ Spares /\ keys' \in [Kinds -> [Days -> Nat]]
         /\ txt' \in [Domains -> [Kinds -> [Days -> Nat]]]
         /\ \A m \in Domains, k \in Kinds, d \in Days :
              txt'[m][k][d] = IF <<m, k, d>> \in gone THEN 0 ELSE txt[m][k][d]
<1>1. TypeOK /\ keys' \in [Kinds -> [Days -> Nat]]
  BY DEF Inv, TypeOK
<1>2. /\ txt' \in [Domains -> [Kinds -> [Days -> Nat]]]
      /\ \A m \in Domains, k \in Kinds, d \in Days :
           txt'[m][k][d] = IF <<m, k, d>> \in gone THEN 0 ELSE txt[m][k][d]
  BY <1>1, WithoutIs
<1>3. domains \subseteq Domains /\ 0 \in Days
      /\ \A k \in Kinds : Active(state, k) \in Days /\ Replaced(state, k) \in Days
  BY <1>1, ConstantsTyped DEF TypeOK, RotationState, Previous, Active, Replaced
<1>4. Spares
  <2>1. ASSUME NEW k \in Kinds
        PROVE  /\ Kept(k, 0) /\ Kept(k, Active(state, k))
               /\ MayGo(k) \/ Kept(k, Replaced(state, k))
    <3>1. ASSUME NEW d \in Days, \A m \in domains : <<m, k, d>> \notin gone  PROVE Kept(k, d)
      <4>1. ASSUME NEW m \in domains  PROVE txt'[m][k][d] = txt[m][k][d]
        <5>1. m \in Domains /\ <<m, k, d>> \notin gone
          BY <1>3, <3>1
        <5> QED  BY <1>2, <5>1
      <4> QED  BY <4>1 DEF Kept
    <3>2. Kept(k, 0) /\ Kept(k, Active(state, k))
      BY <1>3, <3>1
    <3>3. ASSUME ~MayGo(k)  PROVE Kept(k, Replaced(state, k))
      BY <1>3, <3>1, <3>3
    <3> QED  BY <3>2, <3>3
  <2>2. ASSUME NEW m \in domains, NEW k \in Kinds, NEW d \in Days, txt'[m][k][d] # 0
        PROVE  txt[m][k][d] # 0
    <3>1. m \in Domains
      BY <1>3
    <3> QED  BY <1>2, <2>2, <3>1
  <2> QED  BY <2>1, <2>2 DEF Spares
<1> QED  BY <1>1, <1>2, <1>4

\* The records of domains that were dropped go first.
LEMMA DropDomainsKeeps ==
  ASSUME Inv, DropDomains
  PROVE  Inv'
<1>1. /\ run.at = "drop"
      /\ UNCHANGED <<diskVars, keys, domains, dual, signer, now, used, excused>>
  BY DEF DropDomains
<1>2. TypeOK /\ run \in Run /\ domains # {} /\ domains \in SUBSET Domains /\ asked \in Asked
  BY DEF Inv, TypeOK, Books, Asked
<1>3. Going /\ AllThere /\ Pend = state.pend /\ run.mem = state /\ state.pend # NoPend
  BY <1>1 DEF Inv, PlaceInv, Going, Journaled, Pend
<1>4. MoreExcused /\ excused'.unsure = excused.unsure /\ excused' \in Excused
  BY <1>1, SameExcused
<1>5. PendKinds(state.pend) \subseteq Kinds /\ "ed" \in PendKinds(state.pend)
  BY <1>3, PendApart
<1> DEFINE gone == (Pend.domains \ domains) \X PendKinds(Pend) \X {Pend.day}
<1>6. \A some \in SUBSET gone : \A m \in domains, k \in Kinds, d \in Days : <<m, k, d>> \notin some
  OBVIOUS
<1>7. PICK some \in SUBSET gone : txt' = RecordsWithout(some)
  BY DEF DropDomains
<1> HIDE DEF gone
<1>8. /\ Spares /\ keys' \in [Kinds -> [Days -> Nat]]
      /\ txt' \in [Domains -> [Kinds -> [Days -> Nat]]]
  BY <1>1, <1>6, <1>7, RecordsSpared
<1>9. CASE Finish(FALSE)
  BY <1>1, <1>4, <1>8, <1>9, FinishKeeps
<1>10. CASE run' = [run EXCEPT !.at = "publish", !.todo = Records(domains, Pend.rsa)] /\ UNCHANGED asked
  <2> DEFINE todo == domains \X PendKinds(state.pend)
  <2>1. Records(domains, Pend.rsa) = todo
    BY <1>3 DEF Records, PendKinds
  <2>2. todo # {} /\ todo \subseteq Domains \X PendKinds(state.pend) /\ todo \subseteq Domains \X Kinds
    <3>1. PICK m \in domains : TRUE
      BY <1>2
    <3>2. <<m, "ed">> \in todo
      BY <1>5
    <3>3. todo # {}
      BY <3>2
    <3>4. todo \subseteq Domains \X PendKinds(state.pend) /\ todo \subseteq Domains \X Kinds
      BY <1>2, <1>5
    <3> QED  BY <3>3, <3>4
  <2> HIDE DEF todo
  <2>3. run' \in Run /\ run'.at = "publish" /\ run'.mem = run.mem /\ run'.todo = todo
    BY <1>2, <1>10, <2>1, <2>2 DEF Run, Places
  <2>4. Going' /\ AllThere'
    BY <1>1, <1>3, <2>3 DEF Going, Journaled, AllThere, KeyThere, diskVars
  <2>5. run'.todo # {} /\ run'.todo \subseteq Domains \X PendKinds(state'.pend)
    BY <1>1, <2>2, <2>3 DEF diskVars
  <2>6. (PlaceInv /\ SaveInv /\ BackupTaken)'
    BY <2>3, <2>4, <2>5 DEF PlaceInv, SaveInv, BackupTaken
  <2> QED  BY <1>1, <1>2, <1>4, <1>8, <1>10, <2>3, <2>6, WriteKeeps
<1> QED  BY <1>9, <1>10 DEF DropDomains

\* publish: one record of the journaled selector.
LEMMA PublishKeeps ==
  ASSUME Inv, Publish
  PROVE  Inv'
<1>1. /\ run.at = "publish"
      /\ UNCHANGED <<diskVars, keys, domains, dual, signer, now, used, excused>>
  BY DEF Publish
<1>2. TypeOK /\ run \in Run /\ domains \in SUBSET Domains /\ asked \in Asked
      /\ keys' \in [Kinds -> [Days -> Nat]] /\ txt \in [Domains -> [Kinds -> [Days -> Nat]]]
  BY <1>1 DEF Inv, TypeOK, Asked
<1>3. /\ Going /\ AllThere /\ Journaled /\ Pend = state.pend /\ run.mem = state /\ state.pend # NoPend
      /\ run.todo # {} /\ run.todo \subseteq Domains \X PendKinds(state.pend)
  BY <1>1 DEF Inv, PlaceInv, Going, Journaled, Pend
<1>4. MoreExcused /\ excused'.unsure = excused.unsure /\ excused' \in Excused
  BY <1>1, SameExcused
<1>5. /\ PendKinds(state.pend) \subseteq Kinds /\ state.pend.day \in Days /\ state.pend.day # 0
      /\ \A j \in Kinds : /\ Active(state, j) \in Days /\ state.pend.day # Active(state, j)
                          /\ Replaced(state, j) = 0
      /\ \A j \in PendKinds(state.pend) : state.pend.day \in Named(j)
  BY <1>3, PendApart
<1> DEFINE r == First(run.todo)
           m == r[1]
           k == r[2]
           d == state.pend.day
<1>6. run.todo \subseteq Domains \X Kinds /\ r \in run.todo
  <2>1. run.todo \in SUBSET (Domains \X Kinds)
    BY <1>2 DEF Run
  <2> QED  BY <1>3, <2>1, FirstIn
<1> HIDE DEF r
<1>7. m \in Domains /\ k \in PendKinds(state.pend) /\ k \in Kinds
  BY <1>3, <1>5, <1>6
<1> HIDE DEF m, k
<1>8. \/ txt' = [txt EXCEPT ![m][k][d] = keys[k][d]]
      \/ txt' = txt
  BY <1>3 DEF Publish, r, m, k
<1>9. Spares /\ txt' \in [Domains -> [Kinds -> [Days -> Nat]]]
  <2>1. CASE txt' = txt
    BY <1>1, <1>2, <2>1, QuietSpares
  <2>2. CASE txt' = [txt EXCEPT ![m][k][d] = keys[k][d]]
    <3>1. keys[k][d] \in Nat
      BY <1>1, <1>2, <1>5, <1>7
    <3>2. txt' \in [Domains -> [Kinds -> [Days -> Nat]]]
      BY <1>2, <1>5, <1>7, <2>2, <3>1
    <3>3. \A n \in Domains, j \in Kinds, e \in Days :
            txt'[n][j][e] = IF n = m /\ j = k /\ e = d THEN keys[k][d] ELSE txt[n][j][e]
      BY <1>2, <1>5, <1>7, <2>2
    <3>4. ASSUME NEW j \in Kinds, NEW e \in Days, e # d  PROVE Kept(j, e)
      BY <1>1, <1>2, <3>3, <3>4 DEF Kept
    <3>5. \A j \in Kinds : /\ Kept(j, 0) /\ Kept(j, Active(state, j)) /\ Kept(j, Replaced(state, j))
      BY <1>5, <3>4, ConstantsTyped
    <3>6. ASSUME NEW n \in domains, NEW j \in Kinds, NEW e \in Days, txt'[n][j][e] # 0
          PROVE  txt[n][j][e] # 0 \/ e \in Named(j)
      <4>1. n \in Domains
        BY <1>2
      <4> QED  BY <1>5, <1>7, <3>3, <3>6, <4>1
    <3>7. Spares
      BY <1>1, <3>5, <3>6 DEF Spares
    <3> QED  BY <3>2, <3>7
  <2> QED  BY <1>8, <2>1, <2>2
<1>10. CASE Withdraw
  <2>1. (PlaceInv /\ SaveInv /\ BackupTaken)' /\ run'.at = "backup" /\ run' \in Run
    BY <1>1, <1>3, <1>10, WithdrawPlaced
  <2>2. asked' \in Asked
    BY <1>2, <1>10 DEF Withdraw
  <2> QED  BY <1>1, <1>2, <1>4, <1>9, <2>1, <2>2, WriteKeeps
<1> DEFINE rest == run.todo \ {r}
<1>11. CASE /\ run' = [run EXCEPT !.todo = rest, !.at = IF rest = {} THEN "confirm" ELSE @]
            /\ asked' = asked
  <2>1. rest \in SUBSET (Domains \X Kinds) /\ rest \subseteq Domains \X PendKinds(state.pend)
    BY <1>3, <1>6
  <2> HIDE DEF rest
  <2>2. (IF rest = {} THEN "confirm" ELSE run.at) \in Places
    BY <1>1 DEF Places
  <2>3. run' \in Run
    BY <1>2, <1>11, <2>1, <2>2 DEF Run
  <2>4. /\ run'.mem = run.mem /\ run'.todo = rest
        /\ run'.at = IF rest = {} THEN "confirm" ELSE "publish"
    BY <1>1, <1>2, <1>11 DEF Run
  <2>5. Going' /\ AllThere'
    BY <1>1, <1>3, <2>4 DEF Going, Journaled, AllThere, KeyThere, diskVars
  <2>6. run'.at = "publish" => run'.todo # {} /\ run'.todo \subseteq Domains \X PendKinds(state'.pend)
    BY <1>1, <2>1, <2>4 DEF diskVars
  <2>7. run'.at \in {"publish", "confirm"}
    BY <2>4
  <2>8. (PlaceInv /\ SaveInv /\ BackupTaken)'
    BY <2>5, <2>6, <2>7 DEF PlaceInv, SaveInv, BackupTaken
  <2> QED  BY <1>1, <1>2, <1>4, <1>9, <1>11, <2>3, <2>7, <2>8, WriteKeeps
<1> QED  BY <1>10, <1>11 DEF Publish, r

\* confirm_published, and the commit it lets through.
LEMMA ConfirmKeeps ==
  ASSUME Inv, Confirm
  PROVE  Inv'
<1>1. /\ run.at = "confirm"
      /\ UNCHANGED <<diskVars, keys, txt, domains, dual, signer, now, used, excused>>
  BY DEF Confirm
<1>2. TypeOK /\ run \in Run /\ asked \in Asked
      /\ keys' \in [Kinds -> [Days -> Nat]] /\ txt' \in [Domains -> [Kinds -> [Days -> Nat]]]
  BY <1>1 DEF Inv, TypeOK, Asked
<1>3. Going /\ AllThere /\ Journaled /\ Pend = state.pend /\ run.mem = state /\ state.pend # NoPend
  BY <1>1 DEF Inv, PlaceInv, Going, Journaled, Pend
<1>4. MoreExcused /\ excused'.unsure = excused.unsure /\ excused' \in Excused
  BY <1>1, SameExcused
<1>5. Spares
  BY <1>1, QuietSpares
<1>6. CASE Withdraw
  <2>1. (PlaceInv /\ SaveInv /\ BackupTaken)' /\ run'.at = "backup" /\ run' \in Run
    BY <1>1, <1>3, <1>6, WithdrawPlaced
  <2>2. asked' \in Asked
    BY <1>2, <1>6 DEF Withdraw
  <2> QED  BY <1>1, <1>2, <1>4, <1>5, <2>1, <2>2, WriteKeeps
<1>7. CASE Visible /\ run' = SaveThen(Committed, "swap") /\ UNCHANGED asked
  <2>1. CommitReady
    BY <1>3, <1>7 DEF CommitReady, InUse, AllThere, KeyThere, Visible
  <2>2. CommitsTo(Committed)
    BY <1>3 DEF CommitsTo, Committed
  <2>3. Committed \in RotationState /\ "swap" \in Places
    <3>1. /\ state \in RotationState /\ state.pend \in Pending /\ now \in Days /\ Overlap \in Nat
          /\ 0 \in Days /\ NoPend \in Pending /\ NoPrev \in Previous
      BY <1>2, RotationAssumption, ConstantsTyped DEF TypeOK, RotationState
    <3>2. now + Overlap \in Nat
      BY <3>1 DEF Days
    <3> QED  BY <1>3, <3>1, <3>2 DEF Committed, RotationState, Pending, Previous, Places
  <2>4. run' \in Run /\ run'.at = "backup" /\ run'.then = "swap" /\ run'.mem = Committed
    BY <1>2, <1>7, <2>3, SaveThenIs
  <2>5. CommitsTo(run.mem)' /\ CommitReady' /\ state'.pend # NoPend
    BY <1>1, <1>3, <2>1, <2>2, <2>4 DEF CommitsTo, CommitReady, InUse, DualSigning, diskVars
  <2>6. (PlaceInv /\ SaveInv /\ BackupTaken)'
    BY <2>4, <2>5 DEF PlaceInv, SaveInv, BackupTaken
  <2> QED  BY <1>1, <1>2, <1>4, <1>5, <1>7, <2>4, <2>6, WriteKeeps
<1> QED  BY <1>6, <1>7 DEF Confirm

-----------------------------------------------------------------------------
(***************************************************************************)
(* Withdrawal, retirement and cleanup.                                     *)
(***************************************************************************)

RemovedRecord(days, r) == txt' = RecordsWithout({<<r[1], r[2], days[r[2]]>>})

\* One record of a loop: removed or passed over, and where the loop goes on.
LEMMA DeleteRecordSteps ==
  ASSUME Inv, run.todo # {}, NEW days, NEW next, DeleteRecord(days, next)
  PROVE  \E r \in run.todo :
           /\ RemovedRecord(days, r) \/ txt' = txt
           /\ \/ Finish(FALSE)
              \/ /\ run.todo \ {r} # {} /\ asked' = asked
                 /\ \E failed \in BOOLEAN :
                      /\ run' = [run EXCEPT !.todo = run.todo \ {r}, !.failed = failed]
                      /\ ~failed => ~run.failed /\ RemovedRecord(days, r)
              \/ /\ run.todo \ {r} = {} /\ asked' = asked
                 /\ ~run.failed /\ RemovedRecord(days, r)
                 /\ run' = [run EXCEPT !.todo = {}, !.at = next]
<1> DEFINE r == First(run.todo)
           rest == run.todo \ {r}
<1>1. run.todo \in SUBSET (Domains \X Kinds) /\ run.failed \in BOOLEAN
  BY DEF Inv, TypeOK, Run
<1>2. r \in run.todo
  BY <1>1, FirstIn
<1>3. \/ RemovedRecord(days, r) /\ rest # {} /\ asked' = asked
           /\ run' = [run EXCEPT !.todo = rest, !.failed = run.failed]
      \/ (RemovedRecord(days, r) \/ txt' = txt) /\ rest # {} /\ asked' = asked
           /\ run' = [run EXCEPT !.todo = rest, !.failed = TRUE]
      \/ (RemovedRecord(days, r) \/ txt' = txt) /\ Finish(FALSE)
      \/ RemovedRecord(days, r) /\ rest = {} /\ ~run.failed /\ asked' = asked
           /\ run' = [run EXCEPT !.todo = {}, !.at = next]
  <2> HIDE DEF r
  <2>1. CASE rest # {}
    BY <2>1 DEF DeleteRecord, RemovedRecord, r
  <2>2. CASE rest = {}
    BY <2>2 DEF DeleteRecord, RemovedRecord, r
  <2> QED  BY <2>1, <2>2
<1> HIDE DEF r
<1> QED  BY <1>1, <1>2, <1>3

\* A loop keeps all that it may not remove, and what it removed is gone.
LEMMA RemovedSpares ==
  ASSUME Inv, NEW days \in [Kinds -> Days], NEW r \in Domains \X Kinds,
         RemovedRecord(days, r) \/ txt' = txt, UNCHANGED <<keys, excused>>,
         days[r[2]] # 0, days[r[2]] # Active(state, r[2]),
         days[r[2]] = Replaced(state, r[2]) => MayGo(r[2])
  PROVE  /\ Spares /\ keys' \in [Kinds -> [Days -> Nat]]
         /\ txt' \in [Domains -> [Kinds -> [Days -> Nat]]]
         /\ \A m \in Domains, k \in Kinds, d \in Days : txt[m][k][d] = 0 => txt'[m][k][d] = 0
         /\ RemovedRecord(days, r) => txt'[r[1]][r[2]][days[r[2]]] = 0
<1>1. CASE txt' = txt /\ ~RemovedRecord(days, r)
  BY <1>1, QuietSpares DEF Inv, TypeOK
<1>2. CASE RemovedRecord(days, r)
  <2> DEFINE gone == {<<r[1], r[2], days[r[2]]>>}
  <2>1. txt' = RecordsWithout(gone)
    BY <1>2 DEF RemovedRecord
  <2>2. \A m \in domains, k \in Kinds, d \in Days : <<m, k, d>> \in gone =>
           /\ d # 0 /\ d # Active(state, k)
           /\ d = Replaced(state, k) => MayGo(k)
    OBVIOUS
  <2>3. <<r[1], r[2], days[r[2]]>> \in gone /\ r[1] \in Domains /\ r[2] \in Kinds /\ days[r[2]] \in Days
    OBVIOUS
  <2> HIDE DEF gone
  <2>4. /\ Spares /\ keys' \in [Kinds -> [Days -> Nat]]
        /\ txt' \in [Domains -> [Kinds -> [Days -> Nat]]]
        /\ \A m \in Domains, k \in Kinds, d \in Days :
             txt'[m][k][d] = IF <<m, k, d>> \in gone THEN 0 ELSE txt[m][k][d]
    BY <2>1, <2>2, RecordsSpared
  <2>5. \A m \in Domains, k \in Kinds, d \in Days : txt[m][k][d] = 0 => txt'[m][k][d] = 0
    BY <2>4
  <2>6. txt'[r[1]][r[2]][days[r[2]]] = 0
    BY <2>3, <2>4
  <2> QED  BY <2>4, <2>5, <2>6
<1> QED  BY <1>1, <1>2

\* withdraw, one record after the other: those of the journaled selector only.
LEMMA UnpublishKeeps ==
  ASSUME Inv, Unpublish
  PROVE  Inv'
<1>1. /\ run.at = "unpublish"
      /\ UNCHANGED <<diskVars, keys, domains, dual, signer, now, used, excused>>
  BY DEF Unpublish
<1>2. TypeOK /\ run \in Run /\ domains \in SUBSET Domains /\ asked \in Asked
      /\ run.todo \in SUBSET (Domains \X Kinds)
  BY DEF Inv, TypeOK, Asked, Run
<1>3. /\ Journaled /\ Pend = state.pend /\ state.pend # NoPend /\ state.pend.withdrawing
      /\ PendGoing /\ run.todo # {} /\ run.mem = state
  BY <1>1 DEF Inv, PlaceInv, Journaled, Pend, PendGoing
<1>4. MoreExcused /\ excused'.unsure = excused.unsure /\ excused' \in Excused
  BY <1>1, SameExcused
<1>5. /\ PendKinds(state.pend) \subseteq Kinds /\ state.pend.day \in Days /\ state.pend.day # 0
      /\ \A j \in Kinds : /\ Active(state, j) \in Days /\ state.pend.day # Active(state, j)
                          /\ Replaced(state, j) = 0
  BY <1>3, PendApart
<1> DEFINE days == [k \in Kinds |-> Pend.day]
           d    == state.pend.day
<1>6. DeleteRecord(days, "unkey")
  BY DEF Unpublish
<1>7. days \in [Kinds -> Days] /\ \A k \in Kinds : days[k] = d
  BY <1>3, <1>5
<1> HIDE DEF days
<1>8. PICK r \in run.todo :
        /\ RemovedRecord(days, r) \/ txt' = txt
        /\ \/ Finish(FALSE)
           \/ /\ run.todo \ {r} # {} /\ asked' = asked
              /\ \E failed \in BOOLEAN :
                   /\ run' = [run EXCEPT !.todo = run.todo \ {r}, !.failed = failed]
                   /\ ~failed => ~run.failed /\ RemovedRecord(days, r)
           \/ /\ run.todo \ {r} = {} /\ asked' = asked
              /\ ~run.failed /\ RemovedRecord(days, r)
              /\ run' = [run EXCEPT !.todo = {}, !.at = "unkey"]
  BY <1>3, <1>6, DeleteRecordSteps
<1>9. /\ r \in Domains \X Kinds /\ days[r[2]] = d
      /\ d # Active(state, r[2]) /\ d # Replaced(state, r[2])
  <2>1. r \in Domains \X Kinds /\ r[2] \in Kinds
    BY <1>2
  <2> QED  BY <1>5, <1>7, <2>1
<1>10. /\ Spares /\ keys' \in [Kinds -> [Days -> Nat]]
       /\ txt' \in [Domains -> [Kinds -> [Days -> Nat]]]
       /\ \A m \in Domains, k \in Kinds, e \in Days : txt[m][k][e] = 0 => txt'[m][k][e] = 0
       /\ RemovedRecord(days, r) => txt'[r[1]][r[2]][d] = 0
  <2>1. /\ RemovedRecord(days, r) \/ txt' = txt
        /\ UNCHANGED <<keys, excused>> /\ days \in [Kinds -> Days]
        /\ days[r[2]] # 0 /\ days[r[2]] # Active(state, r[2]) /\ days[r[2]] # Replaced(state, r[2])
    BY <1>1, <1>5, <1>7, <1>8, <1>9
  <2>2. /\ Spares /\ keys' \in [Kinds -> [Days -> Nat]]
        /\ txt' \in [Domains -> [Kinds -> [Days -> Nat]]]
        /\ \A m \in Domains, k \in Kinds, e \in Days : txt[m][k][e] = 0 => txt'[m][k][e] = 0
        /\ RemovedRecord(days, r) => txt'[r[1]][r[2]][days[r[2]]] = 0
    <3> HIDE DEF d
    <3> QED  BY <1>9, <2>1, RemovedSpares
  <2> QED  BY <1>9, <2>2
<1>11. ASSUME ~run.failed, RemovedRecord(days, r), NEW k \in PendKinds(state.pend), NEW m \in domains
       PROVE  <<m, k>> \in run.todo \ {r} \/ txt'[m][k][d] = 0
  <2>1. <<m, k>> \in run.todo \/ txt[m][k][d] = 0
    BY <1>3, <1>11 DEF PendGoing, RecordGone
  <2>2. m \in Domains /\ k \in Kinds /\ (r = <<m, k>> => r[1] = m /\ r[2] = k)
    BY <1>2, <1>5
  <2> QED  BY <1>5, <1>10, <1>11, <2>1, <2>2
<1>12. CASE Finish(FALSE)
  BY <1>1, <1>4, <1>10, <1>12, FinishKeeps
<1>13. ASSUME NEW failed \in BOOLEAN, run.todo \ {r} # {}, asked' = asked,
              run' = [run EXCEPT !.todo = run.todo \ {r}, !.failed = failed],
              ~failed => ~run.failed /\ RemovedRecord(days, r)
       PROVE  Inv'
  <2>1. /\ run' \in Run /\ run'.at = "unpublish" /\ run'.mem = run.mem /\ run'.todo = run.todo \ {r}
        /\ run'.failed = failed
    BY <1>1, <1>2, <1>13 DEF Run
  <2>2. PendGoing'
    <3>1. ~run'.failed => \A k \in PendKinds(state.pend) : \A m \in domains :
             <<m, k>> \in run'.todo \/ txt'[m][k][d] = 0
      BY <1>11, <1>13, <2>1
    <3> QED  BY <1>1, <1>13, <2>1, <3>1 DEF PendGoing, RecordGone, diskVars
  <2>3. Journaled' /\ state'.pend.withdrawing
    BY <1>1, <1>3, <2>1 DEF Journaled, diskVars
  <2>4. (PlaceInv /\ SaveInv /\ BackupTaken)'
    BY <2>1, <2>2, <2>3 DEF PlaceInv, SaveInv, BackupTaken
  <2> QED  BY <1>1, <1>2, <1>4, <1>10, <1>13, <2>1, <2>4, WriteKeeps
<1>14. CASE /\ run.todo \ {r} = {} /\ asked' = asked
            /\ ~run.failed /\ RemovedRecord(days, r)
            /\ run' = [run EXCEPT !.todo = {}, !.at = "unkey"]
  <2>1. run' \in Run /\ run'.at = "unkey" /\ run'.mem = run.mem
    BY <1>2, <1>14 DEF Run, Places
  <2>2. PendGone'
    <3>1. \A k \in PendKinds(state.pend) : \A m \in domains : txt'[m][k][d] = 0
      BY <1>11, <1>14
    <3> QED  BY <1>1, <3>1 DEF PendGone, RecordGone, diskVars
  <2>3. Journaled'
    BY <1>1, <1>3, <2>1 DEF Journaled, diskVars
  <2>4. (PlaceInv /\ SaveInv /\ BackupTaken)'
    BY <2>1, <2>2, <2>3 DEF PlaceInv, SaveInv, BackupTaken
  <2> QED  BY <1>1, <1>2, <1>4, <1>10, <1>14, <2>1, <2>4, WriteKeeps
<1> QED  BY <1>8, <1>12, <1>13, <1>14

\* The replaced selectors that are retired are neither active nor configured.
LEMMA PrevApart ==
  ASSUME Inv, state.prev # NoPrev
  PROVE  /\ PrevKinds \subseteq Kinds /\ "ed" \in PrevKinds
         /\ \A k \in PrevKinds : /\ Replaced(state, k) \in Days /\ Replaced(state, k) # 0
                                 /\ Replaced(state, k) # Active(state, k)
<1>1. state \in RotationState /\ state.prev \in Previous
  BY DEF Inv, TypeOK, RotationState
<1>2. /\ 0 < state.prev.sel /\ state.prev.sel < state.sel
      /\ state.prev.rsa = 0 \/ state.prev.rsa # state.rsa
  BY DEF Inv, Books, InOrder
<1>3. state.prev.sel \in Days /\ state.prev.rsa \in Days /\ state.prev.sel \in Nat /\ state.sel \in Nat
  BY <1>1 DEF RotationState, Previous, Days
<1>4. state.prev.sel # 0 /\ state.prev.sel # state.sel
  BY <1>2, <1>3
<1> QED  BY <1>2, <1>3, <1>4 DEF PrevKinds, Kinds, Replaced, Active

\* retire, one record after the other: those of the replaced selectors only,
\* whose overlap is over or was cut short by the operator.
LEMMA RetireKeeps ==
  ASSUME Inv, Retire
  PROVE  Inv'
<1>1. /\ run.at = "retire"
      /\ UNCHANGED <<diskVars, keys, domains, dual, signer, now, used, excused>>
  BY DEF Retire
<1>2. TypeOK /\ run \in Run /\ domains \in SUBSET Domains /\ asked \in Asked
      /\ run.todo \in SUBSET (Domains \X Kinds) /\ state \in RotationState
  BY DEF Inv, TypeOK, Asked, Run
<1>3. /\ run.mem = state /\ Retiring /\ PrevGoing /\ state.prev # NoPrev
      /\ run.todo # {} /\ run.todo \subseteq Domains \X PrevKinds
      /\ \A k \in PrevKinds : MayGo(k)
  BY <1>1 DEF Inv, PlaceInv, Retiring, PrevGoing
<1>4. MoreExcused /\ excused'.unsure = excused.unsure /\ excused' \in Excused
  BY <1>1, SameExcused
<1>5. /\ PrevKinds \subseteq Kinds
      /\ \A k \in PrevKinds : /\ Replaced(state, k) \in Days /\ Replaced(state, k) # 0
                              /\ Replaced(state, k) # Active(state, k)
  BY <1>3, PrevApart
<1> DEFINE days == [ed |-> run.mem.prev.sel, rsa |-> run.mem.prev.rsa]
<1>6. DeleteRecord(days, "retireKey")
  BY DEF Retire
<1>7. days \in [Kinds -> Days] /\ \A k \in Kinds : days[k] = Replaced(state, k)
  BY <1>2, <1>3 DEF Replaced, Kinds, RotationState, Previous
<1> HIDE DEF days
<1>8. PICK r \in run.todo :
        /\ RemovedRecord(days, r) \/ txt' = txt
        /\ \/ Finish(FALSE)
           \/ /\ run.todo \ {r} # {} /\ asked' = asked
              /\ \E failed \in BOOLEAN :
                   /\ run' = [run EXCEPT !.todo = run.todo \ {r}, !.failed = failed]
                   /\ ~failed => ~run.failed /\ RemovedRecord(days, r)
           \/ /\ run.todo \ {r} = {} /\ asked' = asked
              /\ ~run.failed /\ RemovedRecord(days, r)
              /\ run' = [run EXCEPT !.todo = {}, !.at = "retireKey"]
  BY <1>3, <1>6, DeleteRecordSteps
<1>9. /\ r \in Domains \X Kinds /\ r[2] \in PrevKinds /\ r[2] \in Kinds
      /\ days[r[2]] = Replaced(state, r[2])
  <2>1. r \in Domains \X PrevKinds
    BY <1>3
  <2> QED  BY <1>5, <1>7, <2>1
<1>10. /\ Spares /\ keys' \in [Kinds -> [Days -> Nat]]
       /\ txt' \in [Domains -> [Kinds -> [Days -> Nat]]]
       /\ \A m \in Domains, k \in Kinds, e \in Days : txt[m][k][e] = 0 => txt'[m][k][e] = 0
       /\ RemovedRecord(days, r) => txt'[r[1]][r[2]][Replaced(state, r[2])] = 0
  <2>1. /\ RemovedRecord(days, r) \/ txt' = txt
        /\ UNCHANGED <<keys, excused>> /\ days \in [Kinds -> Days]
        /\ days[r[2]] # 0 /\ days[r[2]] # Active(state, r[2]) /\ MayGo(r[2])
    BY <1>1, <1>3, <1>5, <1>7, <1>8, <1>9
  <2>2. /\ Spares /\ keys' \in [Kinds -> [Days -> Nat]]
        /\ txt' \in [Domains -> [Kinds -> [Days -> Nat]]]
        /\ \A m \in Domains, k \in Kinds, e \in Days : txt[m][k][e] = 0 => txt'[m][k][e] = 0
        /\ RemovedRecord(days, r) => txt'[r[1]][r[2]][days[r[2]]] = 0
    BY <1>9, <2>1, RemovedSpares
  <2> QED  BY <1>9, <2>2
<1>11. ASSUME ~run.failed, RemovedRecord(days, r), NEW k \in PrevKinds, NEW m \in domains
       PROVE  <<m, k>> \in run.todo \ {r} \/ txt'[m][k][Replaced(state, k)] = 0
  <2>1. <<m, k>> \in run.todo \/ txt[m][k][Replaced(state, k)] = 0
    BY <1>3, <1>11 DEF PrevGoing, RecordGone
  <2>2. m \in Domains /\ k \in Kinds /\ (r = <<m, k>> => r[1] = m /\ r[2] = k)
    BY <1>2, <1>5
  <2> QED  BY <1>5, <1>10, <1>11, <2>1, <2>2
<1>12. CASE Finish(FALSE)
  BY <1>1, <1>4, <1>10, <1>12, FinishKeeps
<1>13. PrevKinds' = PrevKinds /\ \A k \in Kinds : Replaced(state, k)' = Replaced(state, k)
  BY <1>1 DEF PrevKinds, Replaced, diskVars
<1>14. ASSUME run'.leg = run.leg  PROVE Retiring'
  BY <1>1, <1>3, <1>13, <1>14, <1>5 DEF Retiring, MayGo, RetireDue, diskVars
<1>15. ASSUME NEW failed \in BOOLEAN, run.todo \ {r} # {}, asked' = asked,
              run' = [run EXCEPT !.todo = run.todo \ {r}, !.failed = failed],
              ~failed => ~run.failed /\ RemovedRecord(days, r)
       PROVE  Inv'
  <2>1. /\ run' \in Run /\ run'.at = "retire" /\ run'.mem = run.mem /\ run'.todo = run.todo \ {r}
        /\ run'.failed = failed /\ run'.leg = run.leg
    BY <1>1, <1>2, <1>15 DEF Run
  <2>2. PrevGoing'
    <3>1. ~run'.failed => \A k \in PrevKinds : \A m \in domains :
             <<m, k>> \in run'.todo \/ txt'[m][k][Replaced(state, k)] = 0
      BY <1>11, <1>15, <2>1
    <3>2. run'.todo # {} /\ run'.todo \subseteq Domains \X PrevKinds'
      BY <1>3, <1>13, <1>15, <2>1
    <3>3. ~run'.failed => \A k \in PrevKinds' : \A m \in domains' :
             <<m, k>> \in run'.todo \/ txt'[m][k][Replaced(state, k)'] = 0
      BY <1>1, <1>5, <1>13, <3>1
    <3> QED  BY <3>2, <3>3 DEF PrevGoing, RecordGone
  <2>3. (PlaceInv /\ SaveInv /\ BackupTaken)'
    <3>1. Retiring' /\ run'.mem = state'
      BY <1>1, <1>3, <1>14, <2>1 DEF diskVars
    <3> QED  BY <2>1, <2>2, <3>1 DEF PlaceInv, SaveInv, BackupTaken
  <2> QED  BY <1>1, <1>2, <1>4, <1>10, <1>15, <2>1, <2>3, WriteKeeps
<1>16. CASE /\ run.todo \ {r} = {} /\ asked' = asked
            /\ ~run.failed /\ RemovedRecord(days, r)
            /\ run' = [run EXCEPT !.todo = {}, !.at = "retireKey"]
  <2>1. run' \in Run /\ run'.at = "retireKey" /\ run'.mem = run.mem /\ run'.leg = run.leg
    BY <1>2, <1>16 DEF Run, Places
  <2>2. PrevGone'
    <3>1. \A k \in PrevKinds : \A m \in domains : txt'[m][k][Replaced(state, k)] = 0
      BY <1>11, <1>16
    <3> QED  BY <1>1, <1>5, <1>13, <3>1 DEF PrevGone, RecordGone
  <2>3. (PlaceInv /\ SaveInv /\ BackupTaken)'
    <3>1. Retiring' /\ run'.mem = state'
      BY <1>1, <1>3, <1>14, <2>1 DEF diskVars
    <3> QED  BY <2>1, <2>2, <3>1 DEF PlaceInv, SaveInv, BackupTaken
  <2> QED  BY <1>1, <1>2, <1>4, <1>10, <1>16, <2>1, <2>3, WriteKeeps
<1> QED  BY <1>8, <1>12, <1>15, <1>16

\* Key files are removed; one that stays is noted.
LEMMA RemoveKeysSpares ==
  ASSUME Inv, NEW files \in SUBSET (Kinds \X Days), RemoveKeys(files), UNCHANGED txt,
         \A k \in Kinds, d \in Days : <<k, d>> \in files =>
           /\ d # 0 /\ d # Active(state, k)
           /\ d = Replaced(state, k) => MayGo(k)
  PROVE  /\ Spares /\ keys' \in [Kinds -> [Days -> Nat]]
         /\ MoreExcused /\ excused'.unsure = excused.unsure /\ excused' \in Excused
         /\ \A k \in Kinds, d \in Days : <<k, d>> \in files => keys'[k][d] = 0 \/ <<k, d>> \in excused'.left
<1>1. TypeOK /\ excused \in Excused
  BY DEF Inv, TypeOK, Excused
<1>2. /\ 0 \in Days
      /\ \A k \in Kinds : Active(state, k) \in Days /\ Replaced(state, k) \in Days
  BY <1>1, ConstantsTyped DEF TypeOK, RotationState, Previous, Active, Replaced
<1>3. ASSUME NEW gone \in SUBSET files, keys' = KeysWithout(gone)
      PROVE  /\ Spares /\ keys' \in [Kinds -> [Days -> Nat]]
             /\ \A k \in Kinds, d \in Days : <<k, d>> \in gone => keys'[k][d] = 0
  <2>1. /\ keys' \in [Kinds -> [Days -> Nat]]
        /\ \A k \in Kinds, d \in Days : keys'[k][d] = IF <<k, d>> \in gone THEN 0 ELSE keys[k][d]
    BY <1>1, <1>3, WithoutIs
  <2>2. ASSUME NEW k \in Kinds, NEW d \in Days, <<k, d>> \notin gone  PROVE Kept(k, d)
    BY <2>1, <2>2 DEF Kept
  <2>3. ASSUME NEW k \in Kinds
        PROVE  Kept(k, 0) /\ Kept(k, Active(state, k)) /\ (MayGo(k) \/ Kept(k, Replaced(state, k)))
    BY <1>2, <2>2
  <2>4. Spares
    BY <2>1, <2>3 DEF Spares
  <2> QED  BY <2>1, <2>4
<1>4. CASE keys' = KeysWithout(files) /\ excused' = excused
  BY <1>1, <1>3, <1>4 DEF MoreExcused
<1>5. ASSUME NEW stays \in files, keys' = KeysWithout(files \ {stays}),
             excused' = [excused EXCEPT !.left = @ \cup {stays}]
      PROVE  /\ Spares /\ keys' \in [Kinds -> [Days -> Nat]]
             /\ MoreExcused /\ excused'.unsure = excused.unsure /\ excused' \in Excused
             /\ \A k \in Kinds, d \in Days : <<k, d>> \in files => keys'[k][d] = 0 \/ <<k, d>> \in excused'.left
  <2>1. /\ Spares /\ keys' \in [Kinds -> [Days -> Nat]]
        /\ \A k \in Kinds, d \in Days : <<k, d>> \in files \ {stays} => keys'[k][d] = 0
    BY <1>3, <1>5
  <2>2. /\ excused'.left = excused.left \cup {stays} /\ excused'.early = excused.early
        /\ excused'.unsure = excused.unsure /\ excused' \in Excused
    BY <1>1, <1>5 DEF Excused
  <2> QED  BY <2>1, <2>2 DEF MoreExcused
<1> QED  BY <1>4, <1>5 DEF RemoveKeys

\* withdraw, the key files, once every record is gone.
LEMMA UnpublishKeysKeeps ==
  ASSUME Inv, UnpublishKeys
  PROVE  Inv'
<1>1. /\ run.at = "unkey"
      /\ UNCHANGED <<diskVars, txt, asked, domains, dual, signer, now, used>>
  BY DEF UnpublishKeys
<1>2. TypeOK /\ run \in Run /\ asked \in Asked /\ state \in RotationState
      /\ txt' \in [Domains -> [Kinds -> [Days -> Nat]]]
  BY <1>1 DEF Inv, TypeOK, Asked
<1>3. Journaled /\ PendGone /\ Pend = state.pend /\ state.pend # NoPend /\ run.mem = state
  BY <1>1 DEF Inv, PlaceInv, Journaled, Pend
<1>4. /\ PendKinds(state.pend) \subseteq Kinds /\ state.pend.day \in Days /\ state.pend.day # 0
      /\ \A j \in Kinds : /\ Active(state, j) \in Days /\ state.pend.day # Active(state, j)
                          /\ Replaced(state, j) = 0
  BY <1>3, PendApart
<1> DEFINE files == PendKinds(state.pend) \X {state.pend.day}
           mem   == [state EXCEPT !.pend = NoPend]
<1>5. RemoveKeys(files) /\ run' = SaveThen(mem, "withdrawn")
  BY <1>3 DEF UnpublishKeys
<1>6. /\ files \in SUBSET (Kinds \X Days)
      /\ \A k \in Kinds, d \in Days : <<k, d>> \in files =>
           /\ d # 0 /\ d # Active(state, k)
           /\ d = Replaced(state, k) => MayGo(k)
      /\ \A k \in PendKinds(state.pend) : <<k, state.pend.day>> \in files
  BY <1>4
<1> HIDE DEF files
<1>7. /\ Spares /\ keys' \in [Kinds -> [Days -> Nat]]
      /\ MoreExcused /\ excused'.unsure = excused.unsure /\ excused' \in Excused
      /\ \A k \in Kinds, d \in Days : <<k, d>> \in files => keys'[k][d] = 0 \/ <<k, d>> \in excused'.left
  BY <1>1, <1>5, <1>6, RemoveKeysSpares
<1>8. mem \in RotationState /\ "withdrawn" \in Places
  BY <1>2, ConstantsTyped DEF RotationState, Places
<1> HIDE DEF mem
<1>9. run' \in Run /\ run'.at = "backup" /\ run'.then = "withdrawn" /\ run'.mem = mem
  BY <1>2, <1>5, <1>8, SaveThenIs
<1>10. \A k \in PendKinds(state.pend) : keys'[k][state.pend.day] = 0 \/ <<k, state.pend.day>> \in excused'.left
  BY <1>4, <1>6, <1>7
<1>11. /\ state'.pend # NoPend /\ PendGone' /\ run'.mem = [state' EXCEPT !.pend = NoPend]
       /\ \A k \in PendKinds(state'.pend) : FileGone(k, state.pend.day)'
  BY <1>1, <1>3, <1>9, <1>10 DEF PendGone, RecordGone, FileGone, mem, diskVars
<1>12. (PlaceInv /\ SaveInv /\ BackupTaken)'
  BY <1>9, <1>11 DEF PlaceInv, SaveInv, BackupTaken
<1> QED  BY <1>1, <1>2, <1>7, <1>9, <1>12, WriteKeeps

\* retire, the key files, once every record is gone.
LEMMA RetireKeysKeeps ==
  ASSUME Inv, RetireKeys
  PROVE  Inv'
<1>1. /\ run.at = "retireKey"
      /\ UNCHANGED <<diskVars, txt, asked, domains, dual, signer, now, used>>
  BY DEF RetireKeys
<1>2. TypeOK /\ run \in Run /\ asked \in Asked /\ state \in RotationState
      /\ txt' \in [Domains -> [Kinds -> [Days -> Nat]]]
  BY <1>1 DEF Inv, TypeOK, Asked
<1>3. /\ Retiring /\ PrevGone /\ run.mem = state /\ state.prev # NoPrev
      /\ \A k \in PrevKinds : MayGo(k)
  BY <1>1 DEF Inv, PlaceInv, Retiring
<1>4. /\ PrevKinds \subseteq Kinds
      /\ \A k \in PrevKinds : /\ Replaced(state, k) \in Days /\ Replaced(state, k) # 0
                              /\ Replaced(state, k) # Active(state, k)
  BY <1>3, PrevApart
<1> DEFINE files == {<<k, Replaced(state, k)>> : k \in PrevKinds}
           mem   == [state EXCEPT !.prev = NoPrev]
<1>5. RemoveKeys(files) /\ run' = SaveThen(mem, "retired")
  <2>1. files = {<<"ed", run.mem.prev.sel>>} \cup
                (IF run.mem.prev.rsa = 0 THEN {} ELSE {<<"rsa", run.mem.prev.rsa>>})
    BY <1>3 DEF PrevKinds, Replaced, Kinds
  <2> QED  BY <1>3, <2>1 DEF RetireKeys
<1>6. /\ files \in SUBSET (Kinds \X Days)
      /\ \A k \in Kinds, d \in Days : <<k, d>> \in files =>
           /\ d # 0 /\ d # Active(state, k)
           /\ d = Replaced(state, k) => MayGo(k)
      /\ \A k \in PrevKinds : <<k, Replaced(state, k)>> \in files
  BY <1>3, <1>4
<1> HIDE DEF files
<1>7. /\ Spares /\ keys' \in [Kinds -> [Days -> Nat]]
      /\ MoreExcused /\ excused'.unsure = excused.unsure /\ excused' \in Excused
      /\ \A k \in Kinds, d \in Days : <<k, d>> \in files => keys'[k][d] = 0 \/ <<k, d>> \in excused'.left
  BY <1>1, <1>5, <1>6, RemoveKeysSpares
<1>8. mem \in RotationState /\ "retired" \in Places
  BY <1>2, ConstantsTyped DEF RotationState, Places
<1> HIDE DEF mem
<1>9. run' \in Run /\ run'.at = "backup" /\ run'.then = "retired" /\ run'.mem = mem /\ run'.leg = run.leg
  BY <1>2, <1>5, <1>8, SaveThenIs
<1>10. PrevKinds' = PrevKinds /\ \A k \in Kinds : Replaced(state, k)' = Replaced(state, k)
  BY <1>1 DEF PrevKinds, Replaced, diskVars
<1>11. \A k \in PrevKinds' : FileGone(k, Replaced(state, k))'
  BY <1>4, <1>6, <1>7, <1>10 DEF FileGone
<1>12. PrevGone'
  BY <1>1, <1>3, <1>4, <1>10 DEF PrevGone, RecordGone
<1>13. Retiring'
  <2>1. \A k \in PrevKinds' : MayGo(k)'
    BY <1>1, <1>3, <1>4, <1>7, <1>10 DEF MayGo, RetireDue, diskVars, MoreExcused
  <2> QED  BY <1>1, <1>3, <1>9, <2>1 DEF Retiring, diskVars
<1>14. run'.mem = [state' EXCEPT !.prev = NoPrev]
  BY <1>1, <1>9 DEF mem, diskVars
<1>15. (PlaceInv /\ SaveInv /\ BackupTaken)'
  BY <1>9, <1>11, <1>12, <1>13, <1>14 DEF PlaceInv, SaveInv, BackupTaken
<1> QED  BY <1>1, <1>2, <1>7, <1>9, <1>15, WriteKeeps

\* cleanup removes what the state does not name, and nothing else.
LEMMA ServeCleanupKeeps ==
  ASSUME Inv, ServeCleanup
  PROVE  Inv'
<1>1. /\ run.at = "cleanup" /\ run' = [run EXCEPT !.at = "tick"]
      /\ UNCHANGED <<diskVars, domains, dual, signer, now, used, excused>>
      /\ asked' = [asked EXCEPT !.cleanup = FALSE]
  BY DEF ServeCleanup, Goto
<1>2. TypeOK /\ run \in Run /\ asked' \in Asked /\ state \in RotationState /\ domains \in SUBSET Domains
  BY <1>1 DEF Inv, TypeOK, Asked
<1>3. MoreExcused /\ excused'.unsure = excused.unsure /\ excused' \in Excused
  BY <1>1, SameExcused
<1>4. OrphanRecords = {}
  BY DEF Inv, Books, NothingOrphaned
<1>5. PICK K \in SUBSET OrphanKeys : keys' = keys \/ keys' = KeysWithout(K)
  BY DEF ServeCleanup
<1>6. txt' = txt \/ txt' = RecordsWithout({})
  BY <1>4 DEF ServeCleanup
<1>7. txt' \in [Domains -> [Kinds -> [Days -> Nat]]] /\ keys' \in [Kinds -> [Days -> Nat]]
  BY <1>2, <1>5, <1>6, WithoutIs DEF TypeOK
<1>8. \A m \in Domains, k \in Kinds, d \in Days : txt'[m][k][d] = txt[m][k][d]
  <2>1. CASE txt' = RecordsWithout({})
    BY <2>1 DEF RecordsWithout
  <2> QED  BY <1>6, <2>1
<1>9. \A k \in Kinds, d \in Days : keys'[k][d] = keys[k][d] \/ (keys'[k][d] = 0 /\ <<k, d>> \in OrphanKeys)
  <2>1. CASE keys' = KeysWithout(K)
    BY <2>1 DEF KeysWithout
  <2> QED  BY <1>5, <2>1
<1>10. ASSUME NEW k \in Kinds
       PROVE  /\ Kept(k, 0) /\ Kept(k, Active(state, k)) /\ Kept(k, Replaced(state, k))
  <2>1. 0 \in Named(k) /\ Active(state, k) \in Named(k) /\ Replaced(state, k) \in Named(k)
    BY DEF Named, Active, Replaced
  <2>2. 0 \in Days /\ Active(state, k) \in Days /\ Replaced(state, k) \in Days
    BY <1>2, ConstantsTyped DEF Active, Replaced, RotationState, Previous
  <2>3. ASSUME NEW d \in Days, d \in Named(k)  PROVE Kept(k, d)
    <3>1. <<k, d>> \notin OrphanKeys
      BY <2>3 DEF OrphanKeys
    <3> QED  BY <1>2, <1>8, <1>9, <3>1 DEF Kept
  <2> QED  BY <2>1, <2>2, <2>3
<1>11. Spares
  <2>1. ASSUME NEW m \in domains, NEW k \in Kinds, NEW d \in Days  PROVE txt'[m][k][d] = txt[m][k][d]
    BY <1>2, <1>8
  <2> QED  BY <1>9, <1>10, <2>1 DEF Spares
<1>12. Rests(run)'
  BY <1>1, <1>2 DEF Rests, Run, Places
<1> QED  BY <1>1, <1>2, <1>3, <1>7, <1>11, <1>12, RestKeeps, WriteKeeps

-----------------------------------------------------------------------------
(***************************************************************************)
(* Saves: the backup, and the state.                                       *)
(***************************************************************************)

\* save_state, its first write: the state on disk becomes the backup.
LEMMA SaveBackupKeeps ==
  ASSUME Inv, SaveBackup
  PROVE  Inv'
<1>1. /\ run.at = "backup"
      /\ UNCHANGED <<state, keys, txt, domains, dual, signer, now, used, excused>>
  BY DEF SaveBackup
<1>2. TypeOK /\ run \in Run /\ asked \in Asked /\ state \in RotationState
      /\ keys' \in [Kinds -> [Days -> Nat]] /\ txt' \in [Domains -> [Kinds -> [Days -> Nat]]]
  BY <1>1 DEF Inv, TypeOK, Asked
<1>3. MoreExcused /\ excused'.unsure = excused.unsure /\ excused' \in Excused
  BY <1>1, SameExcused
<1>4. CASE Finish(FALSE) /\ backup' = backup
  <2>1. Spares /\ UNCHANGED diskVars
    BY <1>1, <1>4, QuietSpares DEF diskVars
  <2> QED  BY <1>1, <1>2, <1>3, <1>4, <2>1, FinishKeeps
<1>5. CASE Goto("save") /\ backup' = (IF run.mem # Empty /\ state # Empty THEN state ELSE backup)
           /\ UNCHANGED asked
  <2>1. /\ run' \in Run /\ run'.at = "save" /\ run'.mem = run.mem /\ run'.then = run.then
        /\ run'.todo = run.todo /\ run'.failed = run.failed /\ run'.leg = run.leg
    BY <1>2, <1>5 DEF Goto, Run, Places
  <2>2. TypeOK'
    <3>1. backup' \in RotationState
      BY <1>2, <1>5 DEF TypeOK
    <3> QED  BY <1>1, <1>2, <1>5, <2>1, <3>1 DEF TypeOK
  <2>3. Books'
    <3>1. domains' # {} /\ InOrder' /\ KeysShown'
      BY <1>1 DEF Inv, Books, InOrder, KeysShown, InUse, Active
    <3>2. ReplacedShown' /\ RecentNamed'
      BY <1>1 DEF Inv, Books, ReplacedShown, MayGo, RetireDue, InUse, Replaced, RecentNamed, Active
    <3>3. NothingOrphaned'
      BY <1>1 DEF Inv, Books, NothingOrphaned, OrphanKeys, OrphanRecords, Named
    <3>4. BackupBehind'
      BY <1>1, <1>5 DEF Inv, Books, BackupBehind, Active, Replaced
    <3> QED  BY <3>1, <3>2, <3>3, <3>4 DEF Books
  <2>4. SignsWell'
    BY <1>1, <1>3, <2>1, QuietSigner DEF Inv
  <2>5. PlaceInv'
    BY <2>1 DEF PlaceInv
  <2>6. BackupTaken'
    BY <1>1, <1>5, <2>1 DEF BackupTaken
  <2>7. SaveInv'
    <3>1. PendGoing => PendGoing'
      BY <1>1, <2>1 DEF PendGoing, RecordGone
    <3>2. CommitReady => CommitReady'
      BY <1>1 DEF CommitReady, InUse
    <3>3. CommitsTo(run.mem) => CommitsTo(run.mem)'
      BY <1>1, <2>1 DEF CommitsTo, DualSigning
    <3>4. PendGone => PendGone'
      BY <1>1 DEF PendGone, RecordGone
    <3>5. PrevGone => PrevGone'
      BY <1>1 DEF PrevGone, PrevKinds, RecordGone, Replaced
    <3>6. Retiring => Retiring'
      BY <1>1, <2>1 DEF Retiring, PrevKinds, MayGo, RetireDue, Replaced
    <3>7. (\A k \in PrevKinds : FileGone(k, Replaced(state, k))) =>
            (\A k \in PrevKinds : FileGone(k, Replaced(state, k)))'
      BY <1>1 DEF FileGone, Replaced, PrevKinds
    <3>8. (\A k \in PendKinds(state.pend) : FileGone(k, state.pend.day)) =>
            (\A k \in PendKinds(state.pend) : FileGone(k, state.pend.day))'
      BY <1>1 DEF FileGone
    <3>9. SaveInv /\ run.at \in {"backup", "save"}
      BY <1>1 DEF Inv
    <3>10. CASE run.then = "resume"
      BY <1>1, <2>1, <3>9, <3>10 DEF SaveInv
    <3>11. CASE run.then = "unpublish"
      BY <1>1, <2>1, <3>1, <3>9, <3>11 DEF SaveInv
    <3>12. CASE run.then = "swap"
      BY <1>1, <2>1, <3>2, <3>3, <3>9, <3>12 DEF SaveInv
    <3>13. CASE run.then = "withdrawn"
      BY <1>1, <2>1, <3>4, <3>8, <3>9, <3>13 DEF SaveInv
    <3>14. CASE run.then = "retired"
      BY <1>1, <2>1, <3>5, <3>6, <3>7, <3>9, <3>14 DEF SaveInv
    <3> QED  BY <3>9, <3>10, <3>11, <3>12, <3>13, <3>14 DEF SaveInv
  <2> QED  BY <2>2, <2>3, <2>4, <2>5, <2>6, <2>7 DEF Inv
<1> QED  BY <1>4, <1>5 DEF SaveBackup

\* A save that leaves the active and the replaced selectors alone.
LEMMA SameSelectors ==
  ASSUME Inv, MoreExcused, UNCHANGED <<backup, keys, txt, domains, now, used>>,
         state'.sel = state.sel, state'.rsa = state.rsa, state'.prev = state.prev
  PROVE  (KeysShown /\ ReplacedShown /\ RecentNamed /\ BackupBehind)'
<1>1. \A k \in Kinds : Active(state, k)' = Active(state, k) /\ Replaced(state, k)' = Replaced(state, k)
  BY DEF Active, Replaced
<1>2. KeysShown'
  BY <1>1 DEF Inv, Books, KeysShown, InUse
<1>3. ReplacedShown'
  BY <1>1 DEF Inv, Books, ReplacedShown, MayGo, RetireDue, InUse, MoreExcused
<1>4. RecentNamed'
  BY <1>1 DEF Inv, Books, RecentNamed, MoreExcused
<1>5. BackupBehind'
  <2>1. \A k \in Kinds : Active(backup, k)' = Active(backup, k)
    BY DEF Active
  <2> QED  BY <1>1, <2>1 DEF Inv, Books, BackupBehind
<1> QED  BY <1>2, <1>3, <1>4, <1>5

\* What a save took the name of from the state is gone, or noted.
LEMMA OrphansNone ==
  ASSUME Inv, MoreExcused, UNCHANGED <<keys, txt, domains>>,
         \A k \in Kinds, d \in Days :
           d \in Named(k) /\ d \notin Named(k)' =>
             FileGone(k, d) /\ \A m \in domains : RecordGone(m, k, d)
  PROVE  NothingOrphaned'
<1>1. NothingOrphaned
  BY DEF Inv, Books
<1>2. OrphanRecords' = {}
  <2> SUFFICES ASSUME NEW m \in domains, NEW k \in Kinds, NEW d \in Days, txt[m][k][d] # 0
               PROVE  d \in Named(k)'
    BY DEF OrphanRecords
  <2>1. ASSUME d \notin Named(k)  PROVE FALSE
    <3>1. <<m, k, d>> \in domains \X Kinds \X Days
      OBVIOUS
    <3>2. <<m, k, d>> \in OrphanRecords
      BY <2>1, <3>1 DEF OrphanRecords
    <3> QED  BY <1>1, <3>2 DEF NothingOrphaned
  <2> QED  BY <2>1 DEF RecordGone
<1>3. OrphanKeys' \subseteq excused'.left
  <2> SUFFICES ASSUME NEW k \in Kinds, NEW d \in Days, keys[k][d] # 0, d \notin Named(k)'
               PROVE  <<k, d>> \in excused'.left
    BY DEF OrphanKeys
  <2>1. d \notin Named(k) => <<k, d>> \in excused.left
    BY <1>1 DEF NothingOrphaned, OrphanKeys
  <2>2. d \in Named(k) => <<k, d>> \in excused.left
    BY DEF FileGone
  <2> QED  BY <2>1, <2>2 DEF MoreExcused
<1> QED  BY <1>2, <1>3 DEF NothingOrphaned

\* The state on disk becomes the one the pass carries.
Replacing == /\ run.at = "save" /\ state' = run.mem /\ MoreExcused
             /\ UNCHANGED <<backup, keys, txt, domains, now, used>>

\* The journal of a rotation, and the mark of its withdrawal.
LEMMA JournalSaved ==
  ASSUME Inv, Replacing, run.then \in {"resume", "unpublish"}
  PROVE  /\ Books' /\ \A k \in Kinds : Active(state, k)' = Active(state, k)
         /\ state'.pend # NoPend
         /\ run.then = "unpublish" => /\ state'.pend.withdrawing /\ PendGoing
                                      /\ state'.pend.day = state.pend.day
                                      /\ PendKinds(state.pend)' = PendKinds(state.pend)
<1>1. state \in RotationState /\ now \in Nat /\ state.sel \in Nat /\ state.pend \in Pending
  BY DEF Inv, TypeOK, RotationState, Days
<1>2. UNCHANGED <<backup, keys, txt, domains, now, used>> /\ MoreExcused /\ run.at = "save"
  BY DEF Replacing
<1>3. CASE run.then = "resume"
  <2>1. PICK p \in Pending : p.day = now /\ ~p.withdrawing /\ run.mem = [state EXCEPT !.pend = p]
    BY <1>2, <1>3 DEF Inv, SaveInv
  <2>2. state.pend = NoPend /\ state.prev = NoPrev /\ state.sel < now
    BY <1>2, <1>3 DEF Inv, SaveInv
  <2>3. /\ state'.sel = state.sel /\ state'.rsa = state.rsa /\ state'.at = state.at
        /\ state'.prev = state.prev /\ state'.pend = p
    BY <1>1, <2>1 DEF Replacing, RotationState
  <2>4. p # NoPend
    BY <1>1, <2>1, <2>2 DEF NoPend
  <2>5. InOrder'
    BY <1>1, <1>2, <2>1, <2>2, <2>3 DEF Inv, Books, InOrder
  <2>6. \A k \in Kinds : Named(k) \subseteq Named(k)'
    BY <2>2, <2>3 DEF Named, NoPend
  <2>7. NothingOrphaned'
    BY <1>2, <2>6, OrphansNone
  <2>8. (KeysShown /\ ReplacedShown /\ RecentNamed /\ BackupBehind)'
    BY <1>2, <2>3, SameSelectors
  <2>9. Books'
    BY <1>2, <2>5, <2>7, <2>8 DEF Inv, Books
  <2> QED  BY <1>3, <2>3, <2>4, <2>9 DEF Active
<1>4. CASE run.then = "unpublish"
  <2>1. state.pend # NoPend /\ PendGoing /\ run.mem = [state EXCEPT !.pend.withdrawing = TRUE]
    BY <1>2, <1>4 DEF Inv, SaveInv
  <2>2. /\ state'.sel = state.sel /\ state'.rsa = state.rsa /\ state'.at = state.at
        /\ state'.prev = state.prev /\ state'.pend.day = state.pend.day
        /\ state'.pend.rsa = state.pend.rsa /\ state'.pend.withdrawing
    BY <1>1, <2>1 DEF Replacing, RotationState, Pending
  <2>3. state'.pend # NoPend
    BY <2>2 DEF NoPend
  <2>4. InOrder'
    BY <1>1, <1>2, <2>1, <2>2, <2>3 DEF Inv, Books, InOrder
  <2>5. \A k \in Kinds : Named(k) \subseteq Named(k)'
    BY <2>2 DEF Named
  <2>6. NothingOrphaned'
    BY <1>2, <2>5, OrphansNone
  <2>7. (KeysShown /\ ReplacedShown /\ RecentNamed /\ BackupBehind)'
    BY <1>2, <2>2, SameSelectors
  <2>8. Books'
    BY <1>2, <2>4, <2>6, <2>7 DEF Inv, Books
  <2> QED  BY <1>4, <2>1, <2>2, <2>3, <2>8 DEF Active, PendKinds
<1> QED  BY <1>3, <1>4

\* The end of a withdrawal.
LEMMA WithdrawalSaved ==
  ASSUME Inv, Replacing, run.then = "withdrawn"
  PROVE  Books' /\ \A k \in Kinds : Active(state, k)' = Active(state, k)
<1>1. state \in RotationState
  BY DEF Inv, TypeOK
<1>2. UNCHANGED <<backup, keys, txt, domains, now, used>> /\ MoreExcused /\ run.at = "save"
  BY DEF Replacing
<1>3. /\ state.pend # NoPend /\ PendGone /\ run.mem = [state EXCEPT !.pend = NoPend]
      /\ \A k \in PendKinds(state.pend) : FileGone(k, state.pend.day)
  BY <1>2 DEF Inv, SaveInv
<1>4. /\ state'.sel = state.sel /\ state'.rsa = state.rsa /\ state'.at = state.at
      /\ state'.prev = state.prev /\ state'.pend = NoPend
  BY <1>1, <1>3 DEF Replacing, RotationState
<1>5. InOrder'
  BY <1>2, <1>3, <1>4 DEF Inv, Books, InOrder
<1>6. ASSUME NEW k \in Kinds, NEW d \in Days, d \in Named(k), d \notin Named(k)'
      PROVE  FileGone(k, d) /\ \A m \in domains : RecordGone(m, k, d)
  <2>1. d = state.pend.day /\ k \in PendKinds(state.pend)
    BY <1>4, <1>6 DEF Named, PendKinds, Kinds
  <2> QED  BY <1>3, <2>1 DEF PendGone
<1>7. NothingOrphaned'
  BY <1>2, <1>6, OrphansNone
<1>8. (KeysShown /\ ReplacedShown /\ RecentNamed /\ BackupBehind)'
  BY <1>2, <1>4, SameSelectors
<1>9. Books'
  BY <1>2, <1>5, <1>7, <1>8 DEF Inv, Books
<1> QED  BY <1>4, <1>9 DEF Active

\* The end of a retirement: what is no longer named could go, and the backup
\* was taken of the state that is active.
LEMMA RetirementSaved ==
  ASSUME Inv, Replacing, run.then = "retired"
  PROVE  /\ Books' /\ \A k \in Kinds : Active(state, k)' = Active(state, k)
         /\ state'.pend = NoPend /\ state'.prev = NoPrev
         /\ run.leg # "none" /\ (run.leg = "request" => state'.sel < now')
<1>1. state \in RotationState /\ state.sel \in Nat /\ state.prev.sel \in Nat /\ state.prev.retire \in Nat
      /\ now \in Nat /\ used \in [Kinds -> [Days -> Nat]] /\ Overlap \in Nat
  <2>1. /\ state \in RotationState /\ used \in [Kinds -> [Days -> Nat]] /\ now \in Days
        /\ state.sel \in Days /\ state.prev.sel \in Days /\ state.prev.retire \in Nat
    BY DEF Inv, TypeOK, RotationState, Previous
  <2>2. Overlap \in Nat
    BY RotationAssumption
  <2> QED  BY <2>1, <2>2 DEF Days
<1>2. UNCHANGED <<backup, keys, txt, domains, now, used>> /\ MoreExcused /\ run.at = "save"
  BY DEF Replacing
<1>3. /\ Retiring /\ PrevGone /\ run.mem = [state EXCEPT !.prev = NoPrev]
      /\ \A k \in PrevKinds : FileGone(k, Replaced(state, k))
  BY <1>2 DEF Inv, SaveInv
<1>4. /\ state'.sel = state.sel /\ state'.rsa = state.rsa /\ state'.at = state.at
      /\ state'.prev = NoPrev /\ state'.pend = state.pend
  BY <1>1, <1>3 DEF Replacing, RotationState
<1>5. state.pend = NoPend /\ state.prev # NoPrev
  BY <1>3 DEF Retiring
<1>6. /\ PrevKinds \subseteq Kinds /\ "ed" \in PrevKinds
      /\ \A k \in PrevKinds : /\ Replaced(state, k) \in Days /\ Replaced(state, k) # 0
                              /\ Replaced(state, k) # Active(state, k)
      /\ \A k \in Kinds \ PrevKinds : Replaced(state, k) = 0
  BY <1>5, PrevApart DEF PrevKinds, Replaced, Kinds
<1>7. InOrder'
  BY <1>2, <1>4, <1>5 DEF Inv, Books, InOrder
<1>8. \A k \in Kinds : Active(state, k)' = Active(state, k) /\ Replaced(state, k)' = 0
  BY <1>4 DEF Active, Replaced, NoPrev
<1>9. KeysShown' /\ ReplacedShown'
  BY <1>2, <1>8 DEF Inv, Books, KeysShown, ReplacedShown, InUse
<1>10. NothingOrphaned'
  <2>1. ASSUME NEW k \in Kinds, NEW d \in Days, d \in Named(k), d \notin Named(k)'
        PROVE  FileGone(k, d) /\ \A m \in domains : RecordGone(m, k, d)
    <3>1. d = Replaced(state, k) /\ d # 0
      BY <1>4, <2>1 DEF Named, Replaced, Kinds
    <3>2. k \in PrevKinds
      BY <1>6, <3>1
    <3> QED  BY <1>3, <3>1, <3>2 DEF PrevGone
  <2> QED  BY <1>2, <2>1, OrphansNone
<1>11. RecentNamed'
  <2> SUFFICES ASSUME NEW k \in Kinds, NEW d \in Days \ {0}
               PROVE  /\ used[k][d] <= now
                      /\ used[k][d] # 0 /\ now < used[k][d] + Overlap /\ <<k, d>> \notin excused'.early
                           => d = Active(state, k)
    BY <1>2, <1>8 DEF RecentNamed
  <2>1. /\ used[k][d] <= now
        /\ used[k][d] # 0 /\ now < used[k][d] + Overlap /\ <<k, d>> \notin excused.early
             => \/ d = Active(state, k)
                \/ d = Replaced(state, k) /\ used[k][d] + Overlap <= state.prev.retire
    BY DEF Inv, Books, RecentNamed
  <2>2. ASSUME d = Replaced(state, k), used[k][d] + Overlap <= state.prev.retire,
               now < used[k][d] + Overlap, <<k, d>> \notin excused.early
        PROVE  FALSE
    <3>1. k \in PrevKinds
      BY <1>6, <2>2
    <3>2. MayGo(k)
      BY <1>3, <3>1 DEF Retiring
    <3>3. used[k][d] \in Nat
      BY <1>1
    <3>4. now < state.prev.retire
      BY <1>1, <2>2, <3>3
    <3> QED  BY <1>1, <2>2, <3>2, <3>4 DEF MayGo, RetireDue
  <2> QED  BY <1>2, <2>1, <2>2 DEF MoreExcused
<1>12. BackupBehind'
  <2>1. state # Empty
    BY <1>5 DEF Empty
  <2>2. run.mem # Empty
    <3>1. 0 < state.prev.sel /\ state.prev.sel < state.sel
      BY <1>5 DEF Inv, Books, InOrder
    <3>2. state.sel # 0
      BY <1>1, <3>1
    <3> QED  BY <1>4, <3>2 DEF Replacing, Empty
  <2>3. backup = state
    BY <1>2, <2>1, <2>2 DEF Inv, BackupTaken
  <2>4. \A k \in Kinds : Active(backup, k)' = Active(state, k)
    BY <1>2, <2>3 DEF Active
  <2> QED  BY <1>8, <2>4 DEF BackupBehind
<1>13. Books'
  BY <1>2, <1>7, <1>9, <1>10, <1>11, <1>12 DEF Inv, Books
<1> QED  BY <1>2, <1>3, <1>4, <1>5, <1>8, <1>13 DEF Retiring

\* The commit: the journaled selectors become active, and what they replace
\* stays named until the overlap is over.
LEMMA CommitIs ==
  ASSUME Inv, Replacing, run.then = "swap"
  PROVE  /\ state'.sel = state.pend.day /\ state'.at = now /\ state'.pend = NoPend
         /\ state'.sel # 0 /\ state.pend # NoPend /\ CommitReady
         /\ state'.rsa = IF ~state.pend.rsa /\ DualSigning THEN state.rsa
                         ELSE IF state.pend.rsa THEN state.pend.day ELSE 0
         /\ state.sel = 0 => state'.prev = NoPrev /\ state.rsa = 0
         /\ state.sel # 0 =>
              state'.prev = [sel |-> state.sel, retire |-> now + Overlap,
                             rsa |-> IF ~state.pend.rsa /\ DualSigning THEN 0 ELSE state.rsa]
<1>1. run.at = "save" /\ state' = run.mem
  BY DEF Replacing
<1>2. state.pend # NoPend /\ CommitReady /\ CommitsTo(run.mem)
  BY <1>1 DEF Inv, SaveInv
<1>3. state.pend.day # 0
  BY <1>2, PendApart
<1>4. state.sel = 0 => state.rsa = 0
  <2>1. state.rsa \in Nat /\ state.sel \in Nat /\ state.rsa <= state.sel
    BY DEF Inv, Books, InOrder, TypeOK, RotationState, Days
  <2> QED  BY <2>1
<1> QED  BY <1>1, <1>2, <1>3, <1>4 DEF CommitsTo

\* Of each kind, the active selector stays active or becomes the replaced one.
LEMMA CommitMoves ==
  ASSUME Inv, Replacing, run.then = "swap", NEW k \in Kinds
  PROVE  /\ Active(state, k)' \in {0, Active(state, k)} \/ (/\ k \in PendKinds(state.pend)
                                                           /\ Active(state, k)' = state.pend.day)
         /\ k \in PendKinds(state.pend) => Active(state, k)' = state.pend.day
         /\ Replaced(state, k)' \in {0, Active(state, k)}
         /\ \/ Active(state, k) \in {0, Active(state, k)'}
            \/ /\ Active(state, k) = Replaced(state, k)'
               /\ state'.prev # NoPrev /\ state'.prev.retire = now + Overlap
<1>1. /\ state'.sel = state.pend.day
      /\ state'.rsa = IF ~state.pend.rsa /\ DualSigning THEN state.rsa
                      ELSE IF state.pend.rsa THEN state.pend.day ELSE 0
      /\ state.sel = 0 => state'.prev = NoPrev /\ state.rsa = 0
      /\ state.sel # 0 =>
           state'.prev = [sel |-> state.sel, retire |-> now + Overlap,
                          rsa |-> IF ~state.pend.rsa /\ DualSigning THEN 0 ELSE state.rsa]
  BY CommitIs
<1>2. CASE state.sel = 0
  BY <1>1, <1>2 DEF Active, Replaced, PendKinds, Kinds, NoPrev
<1>3. CASE state.sel # 0
  <2>1. /\ state'.prev.sel = state.sel /\ state'.prev.retire = now + Overlap
        /\ state'.prev.rsa = IF ~state.pend.rsa /\ DualSigning THEN 0 ELSE state.rsa
        /\ state'.prev # NoPrev
    BY <1>1, <1>3 DEF NoPrev
  <2>2. CASE k = "ed"
    BY <1>1, <2>1, <2>2 DEF Active, Replaced, PendKinds, Kinds
  <2>3. CASE k = "rsa"
    BY <1>1, <2>1, <2>3 DEF Active, Replaced, PendKinds, Kinds
  <2> QED  BY <2>2, <2>3 DEF Kinds
<1> QED  BY <1>2, <1>3

\* The commit: the journaled selector becomes active, the active one replaced
\* with its overlap ahead of it.
LEMMA CommitSaved ==
  ASSUME Inv, Replacing, run.then = "swap"
  PROVE  Books'
<1>1. UNCHANGED <<backup, keys, txt, domains, now, used>> /\ MoreExcused /\ run.at = "save"
  BY DEF Replacing
<1>2. /\ state'.sel = state.pend.day /\ state'.at = now /\ state'.pend = NoPend
      /\ state'.sel # 0 /\ state.pend # NoPend /\ CommitReady
      /\ state'.rsa = IF ~state.pend.rsa /\ DualSigning THEN state.rsa
                      ELSE IF state.pend.rsa THEN state.pend.day ELSE 0
      /\ state.sel = 0 => state'.prev = NoPrev /\ state.rsa = 0
      /\ state.sel # 0 =>
           state'.prev = [sel |-> state.sel, retire |-> now + Overlap,
                          rsa |-> IF ~state.pend.rsa /\ DualSigning THEN 0 ELSE state.rsa]
  BY CommitIs
<1>3. \A k \in Kinds :
        /\ Active(state, k)' \in {0, Active(state, k)} \/ (/\ k \in PendKinds(state.pend)
                                                          /\ Active(state, k)' = state.pend.day)
        /\ k \in PendKinds(state.pend) => Active(state, k)' = state.pend.day
        /\ Replaced(state, k)' \in {0, Active(state, k)}
        /\ \/ Active(state, k) \in {0, Active(state, k)'}
           \/ /\ Active(state, k) = Replaced(state, k)'
              /\ state'.prev # NoPrev /\ state'.prev.retire = now + Overlap
  BY CommitMoves
<1>4. /\ state.sel \in Nat /\ state.rsa \in Nat /\ state.pend.day \in Nat /\ now \in Nat
      /\ used \in [Kinds -> [Days -> Nat]] /\ Overlap \in Nat
  <2>1. /\ state.sel \in Days /\ state.rsa \in Days /\ state.pend.day \in Days /\ now \in Days
        /\ used \in [Kinds -> [Days -> Nat]]
    BY DEF Inv, TypeOK, RotationState, Pending
  <2>2. Overlap \in Nat
    BY RotationAssumption
  <2> QED  BY <2>1, <2>2 DEF Days
<1>5. InOrder'
  <2>1. state.rsa <= state.sel /\ state.sel < state.pend.day /\ state.pend.day <= now
    BY <1>2 DEF Inv, Books, InOrder
  <2>2. state'.rsa <= state'.sel /\ state'.sel <= state'.at /\ state'.at <= now'
    BY <1>1, <1>2, <1>4, <2>1
  <2>3. state'.prev = NoPrev \/ /\ 0 < state'.prev.sel /\ state'.prev.sel < state'.sel
                                /\ state'.prev.rsa = 0 \/ state'.prev.rsa # state'.rsa
                                /\ state'.prev.retire = state'.at + Overlap
    <3>1. CASE state.sel # 0
      <4>1. /\ state'.prev.sel = state.sel /\ state'.prev.retire = now + Overlap
            /\ state'.prev.rsa = IF ~state.pend.rsa /\ DualSigning THEN 0 ELSE state.rsa
        BY <1>2, <3>1
      <4> QED  BY <1>2, <1>4, <2>1, <3>1, <4>1
    <3> QED  BY <1>2, <3>1
  <2> QED  BY <1>2, <2>2, <2>3 DEF InOrder
<1>6. KeysShown'
  <2> SUFFICES ASSUME NEW k \in Kinds PROVE InUse(k, 0) /\ InUse(k, Active(state, k)')
    BY <1>1 DEF KeysShown, InUse
  <2>1. InUse(k, 0) /\ InUse(k, Active(state, k))
    BY DEF Inv, Books, KeysShown
  <2>2. k \in PendKinds(state.pend) => InUse(k, state.pend.day)
    BY <1>2 DEF CommitReady
  <2> QED  BY <1>3, <2>1, <2>2
<1>7. ReplacedShown'
  <2> SUFFICES ASSUME NEW k \in Kinds PROVE InUse(k, Replaced(state, k)')
    BY <1>1 DEF ReplacedShown, InUse
  <2>1. InUse(k, 0) /\ InUse(k, Active(state, k))
    BY DEF Inv, Books, KeysShown
  <2> QED  BY <1>3, <2>1
<1>8. RecentNamed'
  <2> SUFFICES ASSUME NEW k \in Kinds, NEW d \in Days \ {0}
               PROVE  /\ used[k][d] <= now
                      /\ used[k][d] # 0 /\ now < used[k][d] + Overlap /\ <<k, d>> \notin excused'.early
                           => \/ d = Active(state, k)'
                              \/ d = Replaced(state, k)' /\ used[k][d] + Overlap <= state'.prev.retire
    BY <1>1 DEF RecentNamed
  <2>1. /\ used[k][d] <= now
        /\ used[k][d] # 0 /\ now < used[k][d] + Overlap /\ <<k, d>> \notin excused.early
             => \/ d = Active(state, k)
                \/ d = Replaced(state, k) /\ used[k][d] + Overlap <= state.prev.retire
    BY DEF Inv, Books, RecentNamed
  <2>2. Replaced(state, k) = 0
    BY <1>2, PendApart
  <2>3. used[k][d] \in Nat /\ used[k][d] + Overlap <= now + Overlap
    BY <1>4, <2>1
  <2>4. ASSUME d = Active(state, k)
        PROVE  \/ d = Active(state, k)'
               \/ d = Replaced(state, k)' /\ used[k][d] + Overlap <= state'.prev.retire
    BY <1>3, <2>3, <2>4
  <2> QED  BY <1>1, <2>1, <2>2, <2>4 DEF MoreExcused
<1>9. NothingOrphaned'
  <2>1. ASSUME NEW k \in Kinds, NEW d \in Named(k)  PROVE d \in Named(k)'
    <3>1. Replaced(state, k) = 0
      BY <1>2, PendApart
    <3>2. d = 0 \/ d = Active(state, k) \/ (d = state.pend.day /\ k \in PendKinds(state.pend))
      BY <3>1 DEF Named, Active, Replaced, PendKinds, Kinds
    <3>3. 0 \in Named(k)' /\ Active(state, k)' \in Named(k)' /\ Replaced(state, k)' \in Named(k)'
      BY DEF Named, Active, Replaced, Kinds
    <3> QED  BY <1>3, <3>2, <3>3
  <2> QED  BY <1>1, <2>1, OrphansNone
<1>10. BackupBehind'
  <2>1. state # Empty /\ run.mem # Empty
    BY <1>2 DEF Replacing, Empty
  <2>2. backup = state
    BY <1>1, <2>1 DEF Inv, BackupTaken
  <2>3. \A k \in Kinds : Active(backup, k)' = Active(state, k)
    BY <1>1, <2>2 DEF Active
  <2> QED  BY <1>3, <2>3 DEF BackupBehind
<1> QED  BY <1>1, <1>5, <1>6, <1>7, <1>8, <1>9, <1>10 DEF Inv, Books

\* Every save keeps the books.
LEMMA ReplacingBooks ==
  ASSUME Inv, Replacing
  PROVE  /\ Books' /\ run.then \in {"resume", "unpublish", "swap", "withdrawn", "retired"}
         /\ run.then # "swap" => \A k \in Kinds : Active(state, k)' = Active(state, k)
<1>1. run.then \in {"resume", "unpublish", "swap", "withdrawn", "retired"}
  BY DEF Inv, SaveInv, Replacing
<1> QED  BY <1>1, JournalSaved, WithdrawalSaved, RetirementSaved, CommitSaved

\* A save that leaves the active selectors alone leaves the signer right.
LEMMA SameActiveSigns ==
  ASSUME SignsWell, MoreExcused, excused'.unsure = excused.unsure,
         \A k \in Kinds : Active(state, k)' = Active(state, k),
         run.at # "swap", run'.at # "swap", UNCHANGED <<keys, signer>>
  PROVE  SignsWell'
BY DEF SignsWell, Signing, MoreExcused

\* After the commit is saved the server signs with what it replaced.
LEMMA CommitSigns ==
  ASSUME Inv, Replacing, run.then = "swap", run'.at = "swap",
         excused'.unsure = excused.unsure, UNCHANGED signer
  PROVE  SignsWell'
<1>1. /\ state'.sel = state.pend.day
      /\ state'.rsa = IF ~state.pend.rsa /\ DualSigning THEN state.rsa
                      ELSE IF state.pend.rsa THEN state.pend.day ELSE 0
      /\ state.sel = 0 => state'.prev = NoPrev /\ state.rsa = 0
      /\ state.sel # 0 =>
           state'.prev = [sel |-> state.sel, retire |-> now + Overlap,
                          rsa |-> IF ~state.pend.rsa /\ DualSigning THEN 0 ELSE state.rsa]
      /\ state.pend # NoPend
  BY CommitIs
<1>2. run.at = "save" /\ UNCHANGED keys /\ MoreExcused
  BY DEF Replacing
<1>3. state.pend.day # state.rsa /\ state.pend.day # 0
  <2>1. \A k \in Kinds : state.pend.day # Active(state, k)
    BY <1>1, PendApart
  <2>2. state.pend.day # 0
    BY <1>1, PendApart
  <2> QED  BY <2>1, <2>2 DEF Active, Kinds
<1>4. ASSUME signer["ed"] # NoKey  PROVE Signing("ed")' = Signing("ed")
  BY <1>1, <1>2 DEF Signing, Active, Replaced, NoPrev
<1>5. ASSUME signer["rsa"] # NoKey  PROVE Signing("rsa")' = Signing("rsa")
  <2>1. DualSigning
    BY <1>5 DEF DualSigning
  <2>2. Signing("rsa") = state.rsa
    BY <1>2 DEF Signing, Active
  <2>3. CASE state.pend.rsa
    <3>1. state'.rsa = state'.sel
      BY <1>1, <2>3
    <3>2. Signing("rsa")' = state'.prev.rsa
      BY <3>1 DEF Signing, Active, Replaced
    <3>3. state'.prev.rsa = state.rsa
      BY <1>1, <2>3 DEF NoPrev
    <3> QED  BY <2>2, <3>2, <3>3
  <2>4. CASE ~state.pend.rsa
    <3>1. state'.rsa = state.rsa /\ state'.rsa # state'.sel
      BY <1>1, <1>3, <2>1, <2>4
    <3>2. Signing("rsa")' = state'.rsa
      BY <3>1 DEF Signing, Active
    <3> QED  BY <2>2, <3>1, <3>2
  <2> QED  BY <2>3, <2>4
<1>6. ASSUME NEW k \in Kinds
      PROVE  \/ signer[k] = NoKey
             \/ signer[k] = [day |-> Signing(k)', key |-> keys[k][Signing(k)']]
             \/ excused'.unsure /\ <<k, signer[k].day>> \in excused'.early
  <2>1. \/ signer[k] = NoKey
        \/ signer[k] = [day |-> Signing(k), key |-> keys[k][Signing(k)]]
        \/ excused.unsure /\ <<k, signer[k].day>> \in excused.early
    BY DEF Inv, SignsWell
  <2>2. signer[k] # NoKey => Signing(k)' = Signing(k)
    BY <1>4, <1>5 DEF Kinds
  <2> QED  BY <1>2, <2>1, <2>2 DEF MoreExcused
<1> QED  BY <1>2, <1>6 DEF SignsWell

\* save_state, its second write: in place, failed, or in place and reported as
\* failed.
LEMMA SaveStateKeeps ==
  ASSUME Inv, SaveState
  PROVE  Inv'
<1>1. /\ run.at = "save"
      /\ UNCHANGED <<backup, keys, txt, domains, dual, signer, now, used>>
  BY DEF SaveState
<1>2. TypeOK /\ run \in Run /\ asked \in Asked /\ state \in RotationState /\ run.mem \in RotationState
      /\ keys' \in [Kinds -> [Days -> Nat]] /\ txt' \in [Domains -> [Kinds -> [Days -> Nat]]]
      /\ signer \in [ed : Keys, rsa : Keys] /\ excused \in Excused
  BY <1>1 DEF Inv, TypeOK, Asked, Run, Excused
\* The file was not replaced.
<1>3. CASE /\ UNCHANGED <<state, excused>> /\ (run.mem = Empty => Saved) /\ (run.mem # Empty => Finish(FALSE))
  <2>1. Finish(FALSE)
    <3>1. ASSUME run.mem = Empty  PROVE run.then = "withdrawn"
      <4>1. run.mem.sel = 0 /\ run.mem.pend = NoPend
        BY <3>1 DEF Empty
      <4>2. CASE run.then = "resume"
        <5>1. PICK p \in Pending : p.day = now /\ run.mem = [state EXCEPT !.pend = p]
          BY <1>1, <4>2 DEF Inv, SaveInv
        <5>2. state.sel \in Nat /\ now \in Nat /\ state.sel < now
          BY <1>1, <1>2, <4>2 DEF Inv, SaveInv, TypeOK, RotationState, Days
        <5>3. run.mem.pend = p /\ p.day # 0
          BY <1>2, <5>1, <5>2 DEF RotationState
        <5> QED  BY <4>1, <5>3 DEF NoPend
      <4>3. CASE run.then = "unpublish"
        <5>1. run.mem = [state EXCEPT !.pend.withdrawing = TRUE]
          BY <1>1, <4>3 DEF Inv, SaveInv
        <5>2. run.mem.pend.withdrawing = TRUE
          BY <1>2, <5>1 DEF RotationState, Pending
        <5> QED  BY <4>1, <5>2 DEF NoPend
      <4>4. CASE run.then = "swap"
        <5>1. state.pend # NoPend /\ CommitsTo(run.mem)
          BY <1>1, <4>4 DEF Inv, SaveInv
        <5>2. state.pend.day # 0 /\ run.mem.sel = state.pend.day
          BY <5>1, PendApart DEF CommitsTo
        <5> QED  BY <4>1, <5>2
      <4>5. CASE run.then = "retired"
        <5>1. Retiring /\ run.mem = [state EXCEPT !.prev = NoPrev]
          BY <1>1, <4>5 DEF Inv, SaveInv
        <5>2. 0 < state.prev.sel /\ state.prev.sel < state.sel
          BY <5>1 DEF Retiring, Inv, Books, InOrder
        <5>3. state.prev.sel \in Nat /\ state.sel \in Nat
          BY <1>2 DEF RotationState, Previous, Days
        <5>4. run.mem.sel # 0
          BY <1>2, <5>1, <5>2, <5>3 DEF RotationState
        <5> QED  BY <4>1, <5>4
      <4> QED  BY <1>1, <4>2, <4>3, <4>4, <4>5 DEF Inv, SaveInv
    <3> QED  BY <1>3, <3>1 DEF Saved
  <2>2. Spares /\ UNCHANGED diskVars
    BY <1>1, <1>3, QuietSpares DEF diskVars
  <2>3. MoreExcused /\ excused'.unsure = excused.unsure /\ excused' \in Excused
    BY <1>3, SameExcused
  <2> QED  BY <1>1, <1>2, <2>1, <2>2, <2>3, FinishKeeps
\* The file was replaced, and reported as failed.
<1>4. CASE /\ state' = run.mem /\ Finish(FALSE)
           /\ excused' = IF run.then # "swap" THEN excused
                         ELSE [excused EXCEPT !.unsure = TRUE,
                                              !.early = @ \cup {<<k, signer[k].day>> : k \in Kinds}]
  <2>1. Rests(run)' /\ asked' \in Asked
    BY <1>2, <1>4, FinishRests
  <2>2. MoreExcused /\ excused' \in Excused
    <3>1. CASE run.then # "swap"
      BY <1>2, <1>4, <3>1 DEF MoreExcused
    <3>2. CASE run.then = "swap"
      <4>1. {<<k, signer[k].day>> : k \in Kinds} \subseteq Kinds \X Days
        BY <1>2 DEF Kinds, Keys
      <4> QED  BY <1>2, <1>4, <3>2, <4>1 DEF MoreExcused, Excused
    <3> QED  BY <3>1, <3>2
  <2>3. Replacing
    BY <1>1, <1>4, <2>2 DEF Replacing
  <2>4. Books'
    BY <2>3, ReplacingBooks
  <2>5. TypeOK'
    BY <1>1, <1>2, <1>4, <2>1, <2>2 DEF TypeOK, Rests, Asked, Excused
  <2>6. SignsWell'
    <3>1. CASE run.then # "swap"
      BY <1>1, <1>4, <2>1, <2>2, <2>3, <3>1, ReplacingBooks, SameActiveSigns, RestKeeps DEF Inv
    <3>2. CASE run.then = "swap"
      <4>1. excused'.unsure /\ \A k \in Kinds : <<k, signer[k].day>> \in excused'.early
        BY <1>2, <1>4, <3>2 DEF Excused
      <4> QED  BY <1>1, <4>1 DEF SignsWell
    <3> QED  BY <3>1, <3>2
  <2> QED  BY <2>1, <2>4, <2>5, <2>6, RestKeeps DEF Inv
\* The file was replaced.
<1>5. CASE state' = run.mem /\ Saved /\ UNCHANGED excused
  <2>1. MoreExcused /\ excused'.unsure = excused.unsure /\ excused' \in Excused
    BY <1>5, SameExcused
  <2>2. Replacing
    BY <1>1, <1>5, <2>1 DEF Replacing
  <2>3. /\ Books' /\ run.then \in {"resume", "unpublish", "swap", "withdrawn", "retired"}
        /\ run.then # "swap" => \A k \in Kinds : Active(state, k)' = Active(state, k)
    BY <2>2, ReplacingBooks
  <2>4. ASSUME run' \in Run, asked' \in Asked, (PlaceInv /\ SaveInv /\ BackupTaken)', SignsWell'
        PROVE  Inv'
    <3>1. TypeOK'
      BY <1>1, <1>2, <1>5, <2>1, <2>4 DEF TypeOK, Asked, Excused
    <3> QED  BY <2>3, <2>4, <3>1 DEF Inv
  <2>5. ASSUME run.then # "swap", run'.at # "swap"  PROVE SignsWell'
    BY <1>1, <2>1, <2>3, <2>5, SameActiveSigns DEF Inv
  <2>6. ASSUME NEW ok \in BOOLEAN, Finish(ok), run.then # "swap"  PROVE Inv'
    <3>1. Rests(run)' /\ asked' \in Asked
      BY <1>2, <2>6, FinishRests
    <3> QED  BY <2>4, <2>5, <2>6, <3>1, RestKeeps
  <2>7. ASSUME NEW where \in Places, Goto(where), where \notin {"backup", "save"}
        PROVE  /\ run' \in Run /\ run'.at = where /\ run'.mem = state' /\ run'.todo = run.todo
               /\ run'.failed = run.failed /\ SaveInv' /\ BackupTaken'
    <3>1. /\ run' \in Run /\ run'.at = where /\ run'.mem = run.mem /\ run'.todo = run.todo
          /\ run'.failed = run.failed
      BY <1>2, <2>7 DEF Goto, Run
    <3> QED  BY <1>5, <2>7, <3>1 DEF SaveInv, BackupTaken
  <2>8. CASE run.then = "withdrawn"
    BY <1>5, <2>6, <2>8 DEF Saved
  <2>9. CASE run.then = "retired"
    <3>1. /\ state'.pend = NoPend /\ state'.prev = NoPrev /\ run.leg # "none"
          /\ run.leg = "request" => state'.sel < now'
      BY <2>2, <2>9, RetirementSaved
    <3>2. CASE run.leg = "tick"
      BY <1>5, <2>6, <2>9, <3>2 DEF Saved
    <3>3. CASE run.leg = "request"
      <4>1. Goto("journal") /\ asked' = asked
        BY <1>5, <2>9, <3>3 DEF Saved
      <4>2. run' \in Run /\ run'.at = "journal" /\ run'.mem = state' /\ SaveInv' /\ BackupTaken'
        BY <2>7, <4>1 DEF Places
      <4>3. PlaceInv'
        BY <3>1, <3>3, <4>2 DEF PlaceInv
      <4> QED  BY <1>2, <2>4, <2>5, <2>9, <4>1, <4>2, <4>3
    <3>4. run.leg \in {"none", "request", "tick"}
      BY <1>2 DEF Run
    <3> QED  BY <3>1, <3>2, <3>3, <3>4
  <2>10. ASSUME run.then \in {"resume", "unpublish", "swap"}
         PROVE  Goto(run.then) /\ asked' = asked
    BY <1>5, <2>10 DEF Saved
  <2>11. CASE run.then = "resume"
    <3>1. run' \in Run /\ run'.at = "resume" /\ run'.mem = state' /\ SaveInv' /\ BackupTaken'
      BY <2>7, <2>10, <2>11 DEF Places
    <3>2. state'.pend # NoPend
      BY <2>2, <2>11, JournalSaved
    <3>3. PlaceInv'
      BY <3>1, <3>2 DEF PlaceInv, Journaled
    <3> QED  BY <1>2, <2>4, <2>5, <2>10, <2>11, <3>1, <3>3
  <2>12. CASE run.then = "unpublish"
    <3>1. /\ run' \in Run /\ run'.at = "unpublish" /\ run'.mem = state' /\ run'.todo = run.todo
          /\ run'.failed = run.failed /\ SaveInv' /\ BackupTaken'
      BY <2>7, <2>10, <2>12 DEF Places
    <3>2. /\ state'.pend # NoPend /\ state'.pend.withdrawing /\ PendGoing
          /\ state'.pend.day = state.pend.day /\ PendKinds(state.pend)' = PendKinds(state.pend)
      BY <2>2, <2>12, JournalSaved
    <3>3. PendGoing'
      BY <1>1, <3>1, <3>2 DEF PendGoing, RecordGone
    <3>4. PlaceInv'
      BY <3>1, <3>2, <3>3 DEF PlaceInv, Journaled
    <3> QED  BY <1>2, <2>4, <2>5, <2>10, <2>12, <3>1, <3>4
  <2>13. CASE run.then = "swap"
    <3>1. run' \in Run /\ run'.at = "swap" /\ run'.mem = state' /\ SaveInv' /\ BackupTaken'
      BY <2>7, <2>10, <2>13 DEF Places
    <3>2. state'.at = now' /\ (\A k \in Kinds : InUse(k, Replaced(state, k)))'
      <4>1. \A k \in Kinds : Replaced(state, k)' \in {0, Active(state, k)}
        BY <2>2, <2>13, CommitMoves
      <4>2. \A k \in Kinds : InUse(k, Replaced(state, k)')
        BY <4>1 DEF Inv, Books, KeysShown
      <4> QED  BY <1>1, <2>2, <2>13, <4>2, CommitIs DEF InUse
    <3>3. PlaceInv'
      BY <3>1, <3>2 DEF PlaceInv
    <3>4. SignsWell'
      BY <1>1, <2>1, <2>2, <2>13, <3>1, CommitSigns
    <3> QED  BY <1>2, <2>4, <2>10, <2>13, <3>1, <3>3, <3>4
  <2> QED  BY <2>3, <2>8, <2>9, <2>11, <2>12, <2>13
<1> QED  BY <1>3, <1>4, <1>5 DEF SaveState

-----------------------------------------------------------------------------
(***************************************************************************)
(* The signer, the process, the operator and the calendar.                 *)
(***************************************************************************)

\* What signs today is active, or was replaced today.
LEMMA SignedRecently ==
  ASSUME Inv, used' = Signed, excused'.early = excused.early, UNCHANGED <<diskVars, now>>
  PROVE  RecentNamed' /\ used' \in [Kinds -> [Days -> Nat]]
<1>1. /\ now \in Nat /\ used \in [Kinds -> [Days -> Nat]] /\ Overlap \in Nat
  <2>1. now \in Days /\ used \in [Kinds -> [Days -> Nat]]
    BY DEF Inv, TypeOK
  <2>2. Overlap \in Nat
    BY RotationAssumption
  <2> QED  BY <2>1, <2>2 DEF Days
<1>2. used' \in [Kinds -> [Days -> Nat]]
  BY <1>1 DEF Signed
<1>3. ASSUME NEW k \in Kinds, NEW d \in Days \ {0}
      PROVE  /\ used'[k][d] <= now
             /\ used'[k][d] # 0 /\ now < used'[k][d] + Overlap /\ <<k, d>> \notin excused.early
                  => \/ d = Active(state, k)
                     \/ d = Replaced(state, k) /\ used'[k][d] + Overlap <= state.prev.retire
  <2>1. used'[k][d] = IF signer[k] # NoKey /\ signer[k].day = d THEN now ELSE used[k][d]
    BY DEF Signed
  <2>2. CASE ~(signer[k] # NoKey /\ signer[k].day = d)
    <3>1. used'[k][d] = used[k][d]
      BY <2>1, <2>2
    <3>2. /\ used[k][d] <= now
          /\ used[k][d] # 0 /\ now < used[k][d] + Overlap /\ <<k, d>> \notin excused.early
               => \/ d = Active(state, k)
                  \/ d = Replaced(state, k) /\ used[k][d] + Overlap <= state.prev.retire
      BY DEF Inv, Books, RecentNamed
    <3> QED  BY <3>1, <3>2
  <2>3. CASE signer[k] # NoKey /\ signer[k].day = d
    <3>1. used'[k][d] = now
      BY <2>1, <2>3
    <3>2. d = Signing(k) \/ <<k, d>> \in excused.early
      <4>1. \/ signer[k] = [day |-> Signing(k), key |-> keys[k][Signing(k)]]
            \/ <<k, signer[k].day>> \in excused.early
        BY <2>3 DEF Inv, SignsWell
      <4>2. ASSUME signer[k] = [day |-> Signing(k), key |-> keys[k][Signing(k)]]
            PROVE  signer[k].day = Signing(k)
        BY <4>2
      <4> QED  BY <2>3, <4>1, <4>2
    <3>3. ASSUME d = Signing(k), d # Active(state, k)
          PROVE  d = Replaced(state, k) /\ state.prev.retire = now + Overlap
      <4>1. run.at = "swap" /\ d = Replaced(state, k)
        BY <3>3 DEF Signing
      <4>2. state.prev # NoPrev
        BY <4>1 DEF Replaced, NoPrev
      <4>3. state.prev.retire = state.at + Overlap /\ state.at = now
        BY <4>1, <4>2 DEF Inv, Books, InOrder, PlaceInv
      <4> QED  BY <4>1, <4>3
    <3> QED  BY <1>1, <3>1, <3>2, <3>3
  <2> QED  BY <2>2, <2>3
<1>4. RecentNamed'
  <2>1. \A k \in Kinds : Active(state, k)' = Active(state, k) /\ Replaced(state, k)' = Replaced(state, k)
    BY DEF Active, Replaced, diskVars
  <2>2. state'.prev = state.prev /\ now' = now
    BY DEF diskVars
  <2> QED  BY <1>3, <2>1, <2>2 DEF RecentNamed
<1> QED  BY <1>2, <1>4

\* The books, when only the history of signatures moves on.
LEMMA SignedBooks ==
  ASSUME Inv, used' = Signed, excused'.early = excused.early, excused'.left = excused.left,
         UNCHANGED <<diskVars, keys, txt, domains, now>>
  PROVE  Books'
<1>1. RecentNamed'
  BY SignedRecently
<1>2. domains' # {} /\ InOrder' /\ KeysShown'
  BY DEF Inv, Books, InOrder, KeysShown, InUse, Active, diskVars
<1>3. ReplacedShown'
  BY DEF Inv, Books, ReplacedShown, MayGo, RetireDue, InUse, Replaced, diskVars
<1>4. NothingOrphaned'
  BY DEF Inv, Books, NothingOrphaned, OrphanKeys, OrphanRecords, Named, diskVars
<1>5. BackupBehind'
  BY DEF Inv, Books, BackupBehind, Active, Replaced, diskVars
<1> QED  BY <1>1, <1>2, <1>3, <1>4, <1>5 DEF Books

\* with_rotated_keys.
LEMMA SwapKeeps ==
  ASSUME Inv, Swap
  PROVE  Inv'
<1>1. /\ run.at = "swap" /\ used' = Signed /\ Finish(TRUE)
      /\ UNCHANGED <<diskVars, keys, txt, domains, dual, now, excused, spent>>
  BY DEF Swap
<1>2. run \in Run /\ asked \in Asked /\ state \in RotationState /\ TypeOK
  BY DEF Inv, TypeOK, Asked
<1>3. run.mem = state
  BY <1>1 DEF Inv, PlaceInv
<1>4. signer' = [ed  |-> [day |-> state.sel, key |-> keys["ed"][state.sel]],
                 rsa |-> IF state.rsa = state.sel THEN [day |-> state.sel, key |-> keys["rsa"][state.sel]]
                         ELSE signer.rsa]
  BY <1>3 DEF Swap
<1>5. Rests(run)' /\ asked' \in Asked
  BY <1>1, <1>2, FinishRests
<1>6. Books' /\ used' \in [Kinds -> [Days -> Nat]]
  BY <1>1, SignedBooks, SignedRecently
<1>7. TypeOK'
  <2>1. state.sel \in Days /\ keys["ed"][state.sel] \in Nat /\ keys["rsa"][state.sel] \in Nat
        /\ signer.rsa \in Keys
    BY <1>2 DEF TypeOK, RotationState, Kinds
  <2>2. signer' \in [ed : Keys, rsa : Keys]
    BY <1>4, <2>1 DEF Keys
  <2> QED  BY <1>1, <1>2, <1>5, <1>6, <2>2 DEF TypeOK, diskVars, Rests, Asked
<1>8. SignsWell'
  <2>1. run'.at # "swap"
    BY <1>5, RestKeeps
  <2>2. \A k \in Kinds : Signing(k)' = Active(state, k)
    BY <1>1, <2>1 DEF Signing, Active, diskVars
  <2>3. signer'["ed"] = [day |-> Active(state, "ed"), key |-> keys["ed"][Active(state, "ed")]]
    BY <1>4 DEF Active
  <2>4. CASE state.rsa = state.sel
    <3>1. signer'["rsa"] = [day |-> Active(state, "rsa"), key |-> keys["rsa"][Active(state, "rsa")]]
      BY <1>4, <2>4 DEF Active
    <3> QED  BY <1>1, <2>2, <2>3, <3>1 DEF SignsWell, Kinds
  <2>5. CASE state.rsa # state.sel
    <3>1. signer'["rsa"] = signer["rsa"] /\ Signing("rsa") = Active(state, "rsa")
      BY <1>4, <2>5 DEF Signing, Active
    <3>2. \/ signer["rsa"] = NoKey
          \/ signer["rsa"] = [day |-> Signing("rsa"), key |-> keys["rsa"][Signing("rsa")]]
          \/ excused.unsure /\ <<"rsa", signer["rsa"].day>> \in excused.early
      BY DEF Inv, SignsWell, Kinds
    <3> QED  BY <1>1, <2>2, <2>3, <3>1, <3>2 DEF SignsWell, Kinds
  <2> QED  BY <2>4, <2>5
<1> QED  BY <1>5, <1>6, <1>7, <1>8, RestKeeps DEF Inv

\* The process dies, at any place of the pass.
LEMMA CrashKeeps ==
  ASSUME Inv, Crash
  PROVE  Inv'
<1>1. /\ used' = Signed /\ run' = [Idle EXCEPT !.at = "down"]
      /\ signer' = [ed |-> NoKey, rsa |-> NoKey] /\ excused' = [excused EXCEPT !.unsure = FALSE]
      /\ asked' = [asked EXCEPT !.paused = FALSE]
      /\ UNCHANGED <<diskVars, keys, txt, domains, dual, now>>
  BY DEF Crash
<1>2. TypeOK /\ excused \in Excused /\ asked' \in Asked
  BY <1>1 DEF Inv, TypeOK, Excused, Asked
<1>3. excused'.early = excused.early /\ excused'.left = excused.left /\ excused' \in Excused
  BY <1>1, <1>2 DEF Excused
<1>4. Rests(run)'
  BY <1>1, IdleRests
<1>5. Books' /\ used' \in [Kinds -> [Days -> Nat]]
  BY <1>1, <1>3, SignedBooks, SignedRecently
<1>6. TypeOK'
  <2>1. signer' \in [ed : Keys, rsa : Keys]
    BY <1>1, ConstantsTyped
  <2> QED  BY <1>1, <1>2, <1>3, <1>4, <1>5, <2>1 DEF TypeOK, diskVars, Rests, Asked, Excused
<1>7. SignsWell'
  BY <1>1 DEF SignsWell, Kinds
<1> QED  BY <1>4, <1>5, <1>6, <1>7, RestKeeps DEF Inv

\* The server starts and signs with what the state says is active.
LEMMA RestartKeeps ==
  ASSUME Inv, Restart
  PROVE  Inv'
<1>1. /\ run' = Idle
      /\ UNCHANGED <<diskVars, keys, txt, asked, domains, dual, now, used, excused, spent>>
      /\ signer' = [ed  |-> [day |-> state.sel, key |-> keys["ed"][state.sel]],
                    rsa |-> IF dual THEN [day |-> state.rsa, key |-> keys["rsa"][state.rsa]] ELSE NoKey]
  BY DEF Restart
<1>2. TypeOK
  BY DEF Inv
<1>3. Rests(run)' /\ run'.at # "swap"
  BY <1>1, IdleRests, RestKeeps
<1>4. Books'
  <2>1. MoreExcused
    BY <1>1 DEF MoreExcused
  <2> QED  BY <1>1, <2>1, QuietBooks DEF Inv
<1>5. TypeOK'
  <2>1. /\ state.sel \in Days /\ keys["ed"][state.sel] \in Nat
        /\ state.rsa \in Days /\ keys["rsa"][state.rsa] \in Nat
    BY <1>2 DEF TypeOK, RotationState, Kinds
  <2>2. signer' \in [ed : Keys, rsa : Keys]
    BY <1>1, <2>1, ConstantsTyped DEF Keys
  <2> QED  BY <1>1, <1>2, <1>3, <2>2 DEF TypeOK, diskVars, Rests
<1>6. SignsWell'
  <2>1. \A k \in Kinds : Signing(k)' = Active(state, k)
    BY <1>1, <1>3 DEF Signing, Active, diskVars
  <2>2. /\ signer'["ed"] = [day |-> Active(state, "ed"), key |-> keys["ed"][Active(state, "ed")]]
        /\ \/ signer'["rsa"] = [day |-> Active(state, "rsa"), key |-> keys["rsa"][Active(state, "rsa")]]
           \/ signer'["rsa"] = NoKey
    BY <1>1 DEF Active
  <2> QED  BY <1>1, <2>1, <2>2 DEF SignsWell, Kinds
<1> QED  BY <1>3, <1>4, <1>5, <1>6, RestKeeps DEF Inv

\* Domains are dropped and dual signing is switched while the server is down.
LEMMA ReconfigureKeeps ==
  ASSUME Inv, Reconfigure
  PROVE  Inv'
<1>1. /\ run.at = "down" /\ domains' \subseteq domains /\ domains' # {} /\ dual' \in BOOLEAN
      /\ UNCHANGED <<diskVars, keys, txt, asked, signer, run, now, used, excused>>
  BY DEF Reconfigure, Inv, Books, TypeOK
<1>2. TypeOK /\ Rests(run)'
  BY <1>1 DEF Inv, TypeOK, Rests
<1>3. TypeOK'
  BY <1>1, <1>2 DEF TypeOK, diskVars
<1>4. InOrder' /\ KeysShown'
  BY <1>1 DEF Inv, Books, InOrder, KeysShown, InUse, Active, diskVars
<1>5. ReplacedShown' /\ RecentNamed' /\ BackupBehind'
  BY <1>1 DEF Inv, Books, ReplacedShown, MayGo, RetireDue, InUse, Replaced, RecentNamed, Active,
              BackupBehind, diskVars
<1>6. NothingOrphaned'
  <2>1. OrphanRecords' \subseteq OrphanRecords /\ OrphanKeys' = OrphanKeys
    BY <1>1 DEF OrphanRecords, OrphanKeys, Named, diskVars
  <2> QED  BY <1>1, <2>1 DEF Inv, Books, NothingOrphaned
<1>7. SignsWell'
  BY <1>1 DEF Inv, SignsWell, Signing, Active, Replaced, diskVars
<1> QED  BY <1>1, <1>2, <1>3, <1>4, <1>5, <1>6, <1>7, RestKeeps DEF Inv, Books

\* A day passes: a replaced key may become due, and no more signatures are recent.
LEMMA MidnightKeeps ==
  ASSUME Inv, Midnight
  PROVE  Inv'
<1>1. /\ now < LastDay /\ now' = now + 1 /\ run.at \in {"down", "idle"}
      /\ UNCHANGED <<diskVars, keys, txt, asked, domains, dual, signer, run, used, excused, spent>>
  BY DEF Midnight
<1>2. TypeOK /\ Rests(run)' /\ state \in RotationState /\ used \in [Kinds -> [Days -> Nat]]
  BY <1>1 DEF Inv, TypeOK, Rests
<1>3. now \in Nat /\ now' \in Days /\ Overlap \in Nat /\ state.prev.retire \in Nat /\ state.at \in Nat
      /\ state.pend.day \in Nat
  <2>1. now \in Days /\ state.prev.retire \in Nat /\ state.at \in Days /\ state.pend.day \in Days
    BY <1>2 DEF TypeOK, RotationState, Previous, Pending
  <2>2. Overlap \in Nat /\ LastDay \in Nat
    BY RotationAssumption
  <2> QED  BY <1>1, <2>1, <2>2 DEF Days
<1>4. TypeOK'
  BY <1>1, <1>2, <1>3 DEF TypeOK, diskVars
<1>5. InOrder'
  BY <1>1, <1>3 DEF Inv, Books, InOrder, diskVars
<1>6. KeysShown' /\ BackupBehind' /\ domains' # {}
  BY <1>1 DEF Inv, Books, KeysShown, InUse, Active, Replaced, BackupBehind, diskVars
<1>7. ReplacedShown'
  <2>1. RetireDue => RetireDue'
    BY <1>1, <1>3 DEF RetireDue, diskVars
  <2> QED  BY <1>1, <2>1 DEF Inv, Books, ReplacedShown, MayGo, InUse, Replaced, diskVars
<1>8. RecentNamed'
  <2>1. \A k \in Kinds : Active(state, k)' = Active(state, k) /\ Replaced(state, k)' = Replaced(state, k)
    BY <1>1 DEF Active, Replaced, diskVars
  <2>2. ASSUME NEW k \in Kinds, NEW d \in Days \ {0}
        PROVE  /\ used[k][d] <= now'
               /\ used[k][d] # 0 /\ now' < used[k][d] + Overlap /\ <<k, d>> \notin excused.early
                    => \/ d = Active(state, k)
                       \/ d = Replaced(state, k) /\ used[k][d] + Overlap <= state.prev.retire
    <3>1. /\ used[k][d] <= now
          /\ used[k][d] # 0 /\ now < used[k][d] + Overlap /\ <<k, d>> \notin excused.early
               => \/ d = Active(state, k)
                  \/ d = Replaced(state, k) /\ used[k][d] + Overlap <= state.prev.retire
      BY DEF Inv, Books, RecentNamed
    <3>2. used[k][d] \in Nat
      BY <1>2
    <3> QED  BY <1>1, <1>3, <3>1, <3>2
  <2>3. state'.prev = state.prev /\ used' = used /\ excused' = excused
    BY <1>1 DEF diskVars
  <2> QED  BY <2>1, <2>2, <2>3 DEF RecentNamed
<1>9. NothingOrphaned'
  BY <1>1 DEF Inv, Books, NothingOrphaned, OrphanKeys, OrphanRecords, Named, diskVars
<1>10. SignsWell'
  BY <1>1 DEF Inv, SignsWell, Signing, Active, Replaced, diskVars
<1> QED  BY <1>2, <1>4, <1>5, <1>6, <1>7, <1>8, <1>9, <1>10, RestKeeps DEF Inv, Books

-----------------------------------------------------------------------------
(***************************************************************************)
(* The theorems.                                                           *)
(***************************************************************************)

\* A step of the background task, or of its surroundings, keeps the invariant.
LEMMA InvNext ==
  ASSUME Inv, [Next]_vars
  PROVE  Inv'
<1>1. CASE UNCHANGED vars
  <2>1. /\ UNCHANGED <<diskVars, keys, txt, domains, signer, now, run, excused, used, asked, dual>>
    BY <1>1 DEF vars
  <2>2. MoreExcused
    BY <2>1 DEF MoreExcused
  <2>3. TypeOK'
    BY <2>1 DEF Inv, TypeOK, diskVars
  <2>4. Books'
    BY <2>1, <2>2, QuietBooks DEF Inv
  <2>5. SignsWell'
    BY <2>1 DEF Inv, SignsWell, Signing, Active, Replaced, diskVars
  <2>6. (PlaceInv /\ SaveInv /\ BackupTaken)'
    BY <2>1, SamePlace DEF Inv
  <2> QED  BY <2>3, <2>4, <2>5, <2>6 DEF Inv
<1>2. CASE \E auto \in BOOLEAN : Cycle(auto)
  BY <1>2, CycleKeeps
<1>3. CASE Pass
  BY <1>3, ServeRequestKeeps, ServeCleanupKeeps, TickKeeps, SaveBackupKeeps, SaveStateKeeps,
     JournalKeeps, MakeKeyKeeps, MakeRsaKeyKeeps, DropDomainsKeeps, PublishKeeps, ConfirmKeeps,
     SwapKeeps, UnpublishKeeps, UnpublishKeysKeeps, RetireKeeps, RetireKeysKeeps DEF Pass
<1>4. CASE Crash \/ Restart \/ Reconfigure \/ Ask \/ EndPause \/ Midnight
  BY <1>4, CrashKeeps, RestartKeeps, ReconfigureKeeps, AskKeeps, EndPauseKeeps, MidnightKeeps
<1> QED  BY <1>1, <1>2, <1>3, <1>4 DEF Next

\* The files, the records, the history of signatures and the place of the
\* pass fit together after every step, fault, crash and restart.
THEOREM InvHolds == Spec => []Inv
<1>1. Inv /\ [Next]_vars => Inv'
  BY InvNext
<1> QED  BY <1>1, InvInit, PTL DEF Spec

\* What the files, the records and the pass hold is what their code writes.
THEOREM RotationTypes == Spec => []TypeOK
<1>1. Inv => TypeOK
  BY DEF Inv
<1> QED  BY <1>1, InvHolds, PTL

\* Every key the running server signs with is shown, under its selector, at
\* every signing domain: mail is never signed with a key that cannot be
\* verified, whatever fails and wherever the process dies.
THEOREM NeverUnverifiable == Spec => []SignerVerifies
<1>1. Inv => SignerVerifies
  <2> SUFFICES ASSUME Inv, ~excused.unsure, NEW k \in Kinds, signer[k] # NoKey
               PROVE  Shown(k, signer[k])
    BY DEF SignerVerifies
  <2>1. signer[k] = [day |-> Signing(k), key |-> keys[k][Signing(k)]]
    BY DEF Inv, SignsWell
  <2>2. signer[k].day = Signing(k) /\ signer[k].key = keys[k][Signing(k)]
    BY <2>1
  <2>3. InUse(k, Signing(k))
    <3>1. InUse(k, Active(state, k))
      BY DEF Inv, Books, KeysShown
    <3>2. run.at = "swap" => InUse(k, Replaced(state, k))
      BY DEF Inv, PlaceInv
    <3> QED  BY <3>1, <3>2 DEF Signing
  <2> QED  BY <2>2, <2>3 DEF Shown, InUse
<1> QED  BY <1>1, InvHolds, PTL

\* A selector that signed less than the overlap ago is published, across
\* rotations, retirements, crashes and restarts, unless the operator had its
\* key retired early.
THEOREM OverlapHolds == Spec => []OverlapKept
<1>1. Inv => OverlapKept
  <2> SUFFICES ASSUME Inv, NEW k \in Kinds, NEW d \in Days \ {0}, NEW m \in domains,
                      used[k][d] # 0, now < used[k][d] + Overlap, <<k, d>> \notin excused.early
               PROVE  txt[m][k][d] # 0
    BY DEF OverlapKept
  <2>1. \/ d = Active(state, k)
        \/ d = Replaced(state, k) /\ used[k][d] + Overlap <= state.prev.retire
    BY DEF Inv, Books, RecentNamed
  <2>2. InUse(k, d)
    <3>1. CASE d = Active(state, k)
      BY <3>1 DEF Inv, Books, KeysShown
    <3>2. CASE d = Replaced(state, k) /\ used[k][d] + Overlap <= state.prev.retire
      <4>1. now \in Nat /\ Overlap \in Nat /\ state.prev.retire \in Nat /\ used[k][d] \in Nat
        <5>1. now \in Days /\ state.prev.retire \in Nat /\ used[k][d] \in Nat
          BY DEF Inv, TypeOK, RotationState, Previous
        <5> QED  BY <5>1, RotationAssumption DEF Days
      <4>2. ~MayGo(k)
        BY <3>2, <4>1 DEF MayGo, RetireDue
      <4> QED  BY <3>2, <4>2 DEF Inv, Books, ReplacedShown
    <3> QED  BY <2>1, <3>1, <3>2
  <2> QED  BY <2>2 DEF InUse
<1> QED  BY <1>1, InvHolds, PTL

\* No rotation leaves a record behind that the state does not name, nor a key
\* file other than one that could not be removed.
THEOREM NothingLeftBehind == Spec => []NothingOrphaned
<1>1. Inv => NothingOrphaned
  BY DEF Inv, Books
<1> QED  BY <1>1, InvHolds, PTL

\* The keys a start falls back on, when the state does not read, are in their
\* files and shown, until their retirement is due or asked for.
THEOREM BackupServes == Spec => []BackupUsable
<1>1. Inv => BackupUsable
  <2> SUFFICES ASSUME Inv, NEW k \in Kinds
               PROVE  LET d == IF k = "ed" THEN backup.sel ELSE backup.rsa
                      IN \/ keys[k][d] # 0 /\ Shown(k, [day |-> d, key |-> keys[k][d]])
                         \/ /\ d = (IF k = "ed" THEN state.prev.sel ELSE state.prev.rsa)
                            /\ RetireDue \/ <<k, d>> \in excused.early
    BY DEF BackupUsable
  <2> DEFINE d == Active(backup, k)
  <2>1. d \in {0, Active(state, k), Replaced(state, k)}
    BY DEF Inv, Books, BackupBehind
  <2>2. InUse(k, 0) /\ InUse(k, Active(state, k)) /\ (MayGo(k) \/ InUse(k, Replaced(state, k)))
    BY DEF Inv, Books, KeysShown, ReplacedShown
  <2>3. InUse(k, d) \/ (d = Replaced(state, k) /\ MayGo(k))
    BY <2>1, <2>2
  <2>4. InUse(k, d) => keys[k][d] # 0 /\ Shown(k, [day |-> d, key |-> keys[k][d]])
    BY DEF InUse, Shown
  <2>5. MayGo(k) => RetireDue \/ <<k, Replaced(state, k)>> \in excused.early
    BY DEF MayGo
  <2>6. \/ keys[k][d] # 0 /\ Shown(k, [day |-> d, key |-> keys[k][d]])
        \/ /\ d = Replaced(state, k)
           /\ RetireDue \/ <<k, d>> \in excused.early
    BY <2>3, <2>4, <2>5
  <2> QED  BY <2>6 DEF Active, Replaced
<1> QED  BY <1>1, InvHolds, PTL

\* Once the withdrawal of a rotation is on disk, no step publishes a record of
\* its selector again: not a retry, not a later run, not a restart.
THEOREM WithdrawnStays == Spec => WithdrawalFinal
<1> DEFINE Final == state.pend.withdrawing /\ state'.pend = state.pend =>
                      \A m \in Domains, k \in Kinds :
                        txt'[m][k][state.pend.day] \in {0, txt[m][k][state.pend.day]}
<1>1. Inv /\ [Next]_vars => [Final]_vars
  <2> SUFFICES ASSUME Inv, Next, state.pend.withdrawing, NEW m \in Domains, NEW k \in Kinds
               PROVE  txt'[m][k][state.pend.day] \in {0, txt[m][k][state.pend.day]}
    OBVIOUS
  <2>1. TypeOK /\ state.pend.day \in Days
    BY DEF Inv, TypeOK, RotationState, Pending
  <2>2. ASSUME NEW gone, txt' = RecordsWithout(gone)
        PROVE  txt'[m][k][state.pend.day] \in {0, txt[m][k][state.pend.day]}
    BY <2>1, <2>2 DEF RecordsWithout
  <2>3. CASE UNCHANGED txt
    BY <2>3
  <2>4. ~Publish
    BY DEF Publish, Inv, PlaceInv, Going
  <2>5. CASE ServeCleanup
    BY <2>2, <2>3, <2>5 DEF ServeCleanup
  <2>6. CASE DropDomains
    BY <2>2, <2>6 DEF DropDomains
  <2>7. CASE Unpublish \/ Retire
    BY <2>2, <2>3, <2>7 DEF Unpublish, Retire, DeleteRecord
  <2>8. CASE UnpublishKeys \/ RetireKeys \/ SaveBackup \/ SaveState \/ Journal \/ MakeKey \/ MakeRsaKey
             \/ Confirm \/ Swap \/ Tick \/ ServeRequest
    BY <2>3, <2>8 DEF UnpublishKeys, RetireKeys, SaveBackup, SaveState, Journal, MakeKey, MakeRsaKey,
                      Confirm, Swap, Tick, ServeRequest
  <2>9. CASE (\E auto \in BOOLEAN : Cycle(auto)) \/ Crash \/ Restart \/ Reconfigure \/ Ask
             \/ EndPause \/ Midnight
    BY <2>3, <2>9 DEF Cycle, Crash, Restart, Reconfigure, Ask, EndPause, Midnight
  <2> QED  BY <2>4, <2>5, <2>6, <2>7, <2>8, <2>9 DEF Next, Pass
<1>2. Spec => [][Final]_vars
  BY <1>1, InvHolds, PTL DEF Spec
<1> QED  BY <1>2 DEF WithdrawalFinal
=============================================================================
