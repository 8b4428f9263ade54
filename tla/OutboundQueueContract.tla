----------------------- MODULE OutboundQueueContract -----------------------
(***************************************************************************)
(* OutboundQueue implements QueueContract, for every number of messages,   *)
(* recipients, slots, crashes and faults: the worker's memory, the spool   *)
(* lock and the conversations are hidden, and what is left of every step   *)
(* is a step of the contract or none.  What the contract guarantees is     *)
(* then true of the queue.                                                 *)
(***************************************************************************)
EXTENDS OutboundQueueSafety

Decided == Kinds \ {"canceled"}

\* An entry at the point of being unlinked has nothing left to lose: the one
\* the worker is to unlink has nobody pending and owes nothing, the one an
\* operator has under removal owes nothing, and there is one of the two at
\* most (the spool lock).
AboutToGo ==
  /\ pc = "unlink" => /\ opId = NoEntry /\ Queued(cur)
                      /\ Pending(cur) = {} /\ OwedBy(cur) = {}
  /\ opId # NoEntry => Queued(opId) /\ OwedBy(opId) = {}

\* An answer `ok` is of a remote that took the message.
OkTaken == \A s \in Slots, r \in Rcpts : answer[s][r] = "ok" => copies[r] > 0

\* Between the write of a conversation's verdicts and the writes to the log,
\* the envelope notes what the conversation owes.
IntendedOwed == pc = "after" => Intended(slot) \subseteq owed

\* A recipient without a verdict of which the log knows an outcome belongs to
\* an entry that was removed during the conversation, now over.
Undecided ==
  \A r \in Rcpts :
    rcpt[r].status = "pending" /\ (\E k \in Decided : <<r, k>> \in owed \cup evLog)
      => /\ env[EntryOf[r]].at \in Gone
         /\ \A s \in Talking : r \notin conv[s].talk

Books == AboutToGo /\ OkTaken /\ IntendedOwed /\ Undecided

(***************************************************************************)
(* Who changes what the contract sees.                                     *)
(***************************************************************************)
AtKept == \A i \in Ids : env'[i].at = env[i].at

\* Entries enter by Submit and leave by the two unlinks.
LEMMA PlaceCases ==
  ASSUME TypeOK, Next
  PROVE  AtKept \/ Unlink \/ OpUnlink \/ \E i \in Ids : Submit(i)
<1> USE DEF AtKept, diskVars
<1>1. ASSUME UNCHANGED env PROVE AtKept
  BY <1>1
<1>2. /\ env \in [Ids -> Envelope]
      /\ \A e \in Envelope : HoldForRemoval(e).at = e.at
  BY DEF TypeOK, DiskType, HoldForRemoval, Envelope
<1>3. ASSUME NEW i \in Ids, WriteWaiting(i) PROVE AtKept
  BY <1>2, <1>3 DEF WriteWaiting
<1>4. ASSUME NEW q \in agenda.queue, QueueEntry(q) PROVE AtKept
  BY <1>2, <1>4 DEF QueueEntry, Envelope
<1>5. ASSUME ScanBegin \/ ScanStep PROVE AtKept
  BY <1>1, <1>3, <1>4, <1>5 DEF ScanBegin, ScanStep, ScanOverdue, ScanLoad, QueueEntryError, ScanEnd
<1>6. ASSUME FillStep PROVE AtKept
  BY <1>1, <1>6 DEF FillStep, DropHeldJob, DropStaleJob, StartJob, FillEnd
<1>7. ASSUME FinishExpire PROVE AtKept
  BY <1>2, <1>7 DEF FinishExpire, Envelope
<1>8. ASSUME Settle PROVE AtKept
  <2>1. CASE env' = [env EXCEPT ![cur] = HoldForRemoval(@)]
    BY <1>2, <2>1
  <2>2. CASE ~MayRemove(cur)
    BY <1>2, <1>8, <2>2 DEF Settle, Envelope
  <2> QED BY <1>8, <2>1, <2>2 DEF Settle
<1>9. ASSUME FinishStep, ~Unlink PROVE AtKept
  BY <1>1, <1>7, <1>8, <1>9
     DEF FinishStep, FinishGone, FinishFault, NoReport, SendReport, ReportRefused, MarkReported
<1>10. ASSUME AfterConversation PROVE AtKept
  BY <1>1, <1>10 DEF AfterConversation
<1>11. ASSUME NEW s \in Slots, Record(s) PROVE AtKept
  BY <1>2, <1>11 DEF Record, Envelope
<1>12. ASSUME NEW s \in Slots, Remote(s) \/ Complete(s) PROVE AtKept
  BY <1>1, <1>11, <1>12 DEF Remote, Answer, AnswerLost, Complete, RecordGone, RecordFault
<1>13. ASSUME NEW i \in Ids, OpHold(i) \/ OpRelease(i) \/ OpRetry(i) \/ OpRemove(i) PROVE AtKept
  <2>1. CASE OpRemove(i)
    BY <1>2, <2>1 DEF OpRemove
  <2> QED BY <1>2, <1>13, <2>1 DEF OpHold, OpRelease, OpRetry, Envelope
<1>14. ASSUME NEW d \in Dests, OpReleaseDestination(d) PROVE AtKept
  BY <1>2, <1>14 DEF OpReleaseDestination, Envelope
<1>15. ASSUME OpRefused PROVE AtKept
  BY <1>2, <1>15 DEF OpRefused, Envelope
<1>16. ASSUME Removal, ~OpUnlink PROVE AtKept
  BY <1>1, <1>15, <1>16 DEF Removal, OpCancel, OpUnconfirmed, OpDie
<1>17. ASSUME Crash \/ Restart \/ Tick PROVE AtKept
  BY <1>1, <1>17 DEF Crash, Restart, Tick
<1> QED
  BY <1>5, <1>6, <1>9, <1>10, <1>12, <1>13, <1>14, <1>16, <1>17 DEF Next, WorkerStep, Operator

\* The actions that write to the log or to the notes of what it is owed.
LEMMA LogCases ==
  ASSUME Next
  PROVE  \/ UNCHANGED <<owed, evLog>>
         \/ AfterConversation \/ FinishExpire
         \/ \E i \in Ids : WriteWaiting(i)
         \/ \E q \in agenda.queue : QueueEntry(q)
         \/ \E s \in Slots : Record(s) \/ RecordGone(s)
         \/ \E o \in ToCancel : OpCancel(o) \/ OpUnconfirmed(o)
<1> DEFINE Kept == UNCHANGED <<owed, evLog>>
<1> USE DEF diskVars
<1>1. ASSUME NEW i \in Ids, Submit(i) PROVE Kept
  BY <1>1 DEF Submit
<1>2. ASSUME ScanBegin \/ ScanStep, ~\E i \in Ids : WriteWaiting(i),
             ~\E q \in agenda.queue : QueueEntry(q)
      PROVE  Kept
  BY <1>2 DEF ScanBegin, ScanStep, ScanOverdue, ScanLoad, QueueEntryError, ScanEnd
<1>3. ASSUME FillStep PROVE Kept
  BY <1>3 DEF FillStep, DropHeldJob, DropStaleJob, StartJob, FillEnd
<1>4. ASSUME FinishStep, ~FinishExpire PROVE Kept
  BY <1>4 DEF FinishStep, FinishGone, FinishFault, NoReport, SendReport, ReportRefused,
              MarkReported, Settle, Unlink
<1>5. ASSUME NEW s \in Slots, Remote(s) \/ RecordFault(s) PROVE Kept
  BY <1>5 DEF Remote, Answer, AnswerLost, RecordFault
<1>6. ASSUME Operator PROVE Kept
  BY <1>6 DEF Operator, OpHold, OpRelease, OpRetry, OpRemove, OpReleaseDestination
<1>7. ASSUME Removal, ~\E o \in ToCancel : OpCancel(o) \/ OpUnconfirmed(o) PROVE Kept
  BY <1>7 DEF Removal, OpRefused, OpUnlink, OpDie
<1>8. ASSUME Crash \/ Restart \/ Tick PROVE Kept
  BY <1>8 DEF Crash, Restart, Tick
<1> QED
  BY <1>1, <1>2, <1>3, <1>4, <1>5, <1>6, <1>7, <1>8 DEF Next, WorkerStep, Complete

\* While the worker is between a record and its log writes, or at the unlink
\* of an entry, everybody else in the program waits.
LEMMA BusySteps ==
  ASSUME Next, pc \in {"after", "unlink"}
  PROVE  AfterConversation \/ Unlink \/ Operator \/ Removal \/ Crash
<1>1. ~\E i \in Ids : Submit(i)
  BY DEF Submit
<1>2. ~ScanBegin /\ ~ScanStep /\ ~FillStep
  BY DEF ScanBegin, ScanStep, WriteWaiting, ScanOverdue, ScanLoad, QueueEntry, QueueEntryError,
         ScanEnd, FillStep, DropHeldJob, DropStaleJob, StartJob, FillEnd
<1>3. FinishStep => Unlink
  BY DEF FinishStep, FinishGone, FinishFault, FinishExpire, NoReport, SendReport, ReportRefused,
         MarkReported, Settle
<1>4. ~\E s \in Slots : Remote(s) \/ Complete(s)
  BY DEF Remote, Answer, AnswerLost, Complete, Record, RecordGone, RecordFault, Answered
<1>5. ~Restart /\ ~Tick
  BY DEF Restart, Tick
<1> QED BY <1>1, <1>2, <1>3, <1>4, <1>5 DEF Next, WorkerStep

\* Who takes and lets go of the spool lock for a removal.
LEMMA RemovalCases ==
  ASSUME Next
  PROVE  UNCHANGED opVars \/ Removal \/ \E i \in Ids : OpRemove(i)
<1>1. ASSUME \E i \in Ids : Submit(i) PROVE UNCHANGED opVars
  BY <1>1 DEF Submit
<1>2. ASSUME ScanBegin \/ ScanStep PROVE UNCHANGED opVars
  BY <1>2 DEF ScanBegin, ScanStep, WriteWaiting, ScanOverdue, ScanLoad, QueueEntry, QueueEntryError,
              ScanEnd
<1>3. ASSUME FillStep \/ AfterConversation PROVE UNCHANGED opVars
  BY <1>3 DEF FillStep, DropHeldJob, DropStaleJob, StartJob, FillEnd, AfterConversation
<1>4. ASSUME FinishStep PROVE UNCHANGED opVars
  BY <1>4 DEF FinishStep, FinishGone, FinishFault, FinishExpire, NoReport, SendReport, ReportRefused,
              MarkReported, Settle, Unlink
<1>5. ASSUME NEW s \in Slots, Remote(s) \/ Complete(s) PROVE UNCHANGED opVars
  BY <1>5 DEF Remote, Answer, AnswerLost, Complete, Record, RecordGone, RecordFault
<1>6. ASSUME Operator, ~\E i \in Ids : OpRemove(i) PROVE UNCHANGED opVars
  BY <1>6 DEF Operator, OpHold, OpRelease, OpRetry, OpReleaseDestination
<1>7. ASSUME Crash \/ Restart \/ Tick PROVE UNCHANGED opVars
  BY <1>7 DEF Crash, Restart, Tick
<1> QED BY <1>1, <1>2, <1>3, <1>4, <1>5, <1>6, <1>7 DEF Next, WorkerStep

(***************************************************************************)
(* The books are kept.                                                     *)
(***************************************************************************)
\* An answer is given with its copies, and copies are never taken back.
LEMMA OkTakenStep ==
  ASSUME TypeOK, OkTaken, Next
  PROVE  OkTaken'
<1>1. /\ answer \in [Slots -> Answers] /\ copies \in [Rcpts -> Nat]
      /\ NoAnswer = [r \in Rcpts |-> "none"]
  BY DEF TypeOK, SchedType, WorldType, NoAnswer
<1>2. CASE UNCHANGED <<copies, answer>>
  BY <1>2 DEF OkTaken
<1>3. ASSUME NEW s \in Slots, EndConversation(s), UNCHANGED copies PROVE OkTaken'
  BY <1>1, <1>3 DEF EndConversation, OkTaken
<1>4. CASE AfterConversation
  BY <1>3, <1>4 DEF AfterConversation, histVars, TypeOK, TaskType
<1>5. CASE Crash
  BY <1>1, <1>5 DEF Crash, OkTaken
<1>6. ASSUME NEW s \in Slots, RecordGone(s) \/ RecordFault(s) PROVE OkTaken'
  BY <1>3, <1>6 DEF RecordGone, RecordFault, histVars
<1>7. ASSUME NEW s \in Slots, Answer(s) PROVE OkTaken'
  <2>1. PICK a \in [conv[s].talk -> Replies] :
          /\ answer' = [answer EXCEPT ![s] = [r \in Rcpts |-> IF r \in conv[s].talk THEN a[r] ELSE "none"]]
          /\ copies' = [r \in Rcpts |-> IF r \in conv[s].talk /\ a[r] = "ok"
                                        THEN copies[r] + 1 ELSE copies[r]]
    BY <1>7 DEF Answer
  <2> SUFFICES ASSUME NEW t \in Slots, NEW r \in Rcpts, answer'[t][r] = "ok" PROVE copies'[r] > 0
    BY DEF OkTaken
  <2>2. copies[r] \in Nat /\ copies'[r] >= copies[r]
    BY <1>1, <2>1
  <2>3. CASE t = s
    BY <1>1, <2>1, <2>2, <2>3
  <2>4. CASE t # s
    BY <1>1, <2>1, <2>2, <2>4 DEF OkTaken
  <2> QED BY <2>3, <2>4
<1>8. ASSUME NEW s \in Slots, AnswerLost(s) PROVE OkTaken'
  <2>1. PICK took \in SUBSET conv[s].talk :
          copies' = [r \in Rcpts |-> IF r \in took THEN copies[r] + 1 ELSE copies[r]]
    BY <1>8 DEF AnswerLost
  <2>2. answer' = [answer EXCEPT ![s] = [r \in Rcpts |-> IF r \in conv[s].talk THEN "deferred"
                                                         ELSE "none"]]
    BY <1>8 DEF AnswerLost
  <2> SUFFICES ASSUME NEW t \in Slots, NEW r \in Rcpts, answer'[t][r] = "ok" PROVE copies'[r] > 0
    BY DEF OkTaken
  <2>3. t # s
    BY <1>1, <2>2
  <2>4. copies[r] \in Nat /\ copies[r] > 0
    BY <1>1, <2>2, <2>3 DEF OkTaken
  <2> QED BY <2>1, <2>4
<1> QED BY <1>2, <1>4, <1>5, <1>6, <1>7, <1>8, AnswerCases DEF Remote

\* What Worker::record noted as owed stays noted until it is written.
LEMMA IntendedOwedStep ==
  ASSUME TypeOK, IntendedOwed, Next
  PROVE  IntendedOwed'
<1> SUFFICES ASSUME pc' = "after" PROVE Intended(slot)' \subseteq owed'
  BY DEF IntendedOwed
<1>1. CASE pc = "after"
  <2>1. Operator \/ Removal
    BY <1>1, BusySteps DEF AfterConversation, EndConversation, JobEnded, Unlink, Crash
  <2>2. UNCHANGED <<owed, conv, answer, slot>>
    BY <2>1 DEF Operator, OpHold, OpRelease, OpRetry, OpRemove, OpReleaseDestination, Removal,
                OpCancel, OpUnconfirmed, OpRefused, OpUnlink, OpDie, diskVars, taskVars, schedVars
  <2>3. Intended(slot)' = Intended(slot)
    BY <2>2 DEF Intended, Said
  <2> QED BY <1>1, <2>2, <2>3 DEF IntendedOwed
<1>2. CASE \E s \in Slots : Record(s)
  <2>1. PICK s \in Slots : Record(s)
    BY <1>2
  <2>2. slot' = s /\ UNCHANGED <<conv, answer>> /\ owed' = owed \cup Intended(s)
    BY <2>1 DEF Record
  <2>3. Intended(slot)' = Intended(s)
    BY <2>2 DEF Intended, Said
  <2> QED BY <2>2, <2>3
<1>3. ASSUME pc # "after", ~\E s \in Slots : Record(s) PROVE FALSE
  BY <1>3, QuietCases DEF Quiet, AfterConversation, Crash, StartJob, Complete, RecordGone,
                          RecordFault, EndConversation, JobEnded
<1> QED BY <1>1, <1>2, <1>3

\* No entry at the point of being unlinked changes any more: verdicts are
\* final, and who would note something as owed waits for the lock.
LEMMA AboutToGoStep ==
  ASSUME TypeOK, OneConversation, ScanFresh, AboutToGo, Next
  PROVE  AboutToGo'
<1> USE DEF AboutToGo
<1>1. /\ env \in [Ids -> Envelope] /\ rcpt \in [Rcpts -> RecipientState] /\ opId \in Ids \cup {NoEntry}
      /\ cur \in Ids \cup {NoEntry} /\ NoEntry \notin Ids /\ EntryOf \in [Rcpts -> Ids]
      /\ owed \subseteq Rcpts \X Kinds
  BY ConstantsAssumption DEF TypeOK, DiskType, TaskType, WorldType
<1>2. \A i \in Ids : Pending(i)' \subseteq Pending(i)
  BY StatusFinalStep DEF Pending, PendingIn, RcptsOf
<1>3. ASSUME pc' = "unlink"
      PROVE  opId' = NoEntry /\ Queued(cur)' /\ Pending(cur)' = {} /\ OwedBy(cur)' = {}
  <2>1. CASE pc = "unlink"
    BY <1>1, <1>3, <2>1, BusySteps
       DEF AfterConversation, Unlink, Return, Crash, Operator, OpHold, OpRelease, OpRetry, OpRemove,
           OpReleaseDestination, Command, OperatorMayWrite, Removal, OpCancel, OpUnconfirmed, OpRefused,
           OpUnlink, OpDie, TypeOK, TaskType
  <2>2. ASSUME NEW i \in Ids, WriteWaiting(i), pc # "unlink"
        PROVE  opId' = NoEntry /\ Queued(cur)' /\ Pending(cur)' = {} /\ OwedBy(cur)' = {}
    <3>1. /\ opId' = opId /\ opId = NoEntry /\ cur' = i /\ Queued(i) /\ rcpt' = rcpt
          /\ owed' \cap OwedBy(i) = {} /\ Pending(i) = {} /\ RecordOutcomes(OwedBy(i), owed)
          /\ env' = [env EXCEPT ![i] = HoldForRemoval(@)]
      BY <1>3, <2>2 DEF WriteWaiting, WorkerMayWrite, opVars
    <3>2. owed' \subseteq owed
      BY <3>1 DEF RecordOutcomes
    <3>3. OwedBy(cur)' = {}
      BY <3>1, <3>2 DEF OwedBy
    <3>4. Queued(cur)' /\ Pending(cur)' = {}
      BY <1>1, <3>1 DEF Queued, HoldForRemoval, Envelope, Pending, PendingIn, RcptsOf
    <3> QED BY <3>1, <3>3, <3>4
  <2>3. ASSUME Settle, pc # "unlink"
        PROVE  opId' = NoEntry /\ Queued(cur)' /\ Pending(cur)' = {} /\ OwedBy(cur)' = {}
    <3>1. /\ opId' = opId /\ opId = NoEntry /\ cur' = cur /\ Queued(cur) /\ UNCHANGED <<rcpt, owed>>
          /\ MayRemove(cur) /\ env' = [env EXCEPT ![cur] = HoldForRemoval(@)] /\ cur \in Ids
      BY <1>3, <2>3 DEF Settle, WorkerMayWrite, opVars, GoTo, Return, TypeOK, TaskType, Settling
    <3>2. Queued(cur)' /\ Pending(cur)' = {} /\ OwedBy(cur)' = {}
      BY <1>1, <3>1 DEF MayRemove, Queued, HoldForRemoval, Envelope, Pending, PendingIn, RcptsOf, OwedBy
    <3> QED BY <3>1, <3>2
  <2>4. ASSUME pc # "unlink", ~Settle, ~\E i \in Ids : WriteWaiting(i) PROVE FALSE
    <3>1. ASSUME UNCHANGED pc PROVE FALSE
      BY <1>3, <2>4, <3>1
    <3>2. ASSUME ScanBegin \/ ScanStep PROVE FALSE
      BY <1>3, <2>4, <3>2 DEF ScanBegin, ScanStep, ScanOverdue, ScanLoad, QueueEntry,
                              QueueEntryError, ScanEnd
    <3>3. ASSUME FillStep PROVE FALSE
      BY <1>3, <2>4, <3>3 DEF FillStep, DropHeldJob, DropStaleJob, StartJob, FillEnd, JobEnded
    <3>4. ASSUME FinishStep PROVE FALSE
      BY <1>3, <2>4, <3>4 DEF FinishStep, FinishGone, FinishFault, FinishExpire, NoReport, SendReport,
                              ReportRefused, MarkReported, Unlink, Return, GoTo, TypeOK, TaskType
    <3>5. ASSUME AfterConversation PROVE FALSE
      BY <1>3, <3>5 DEF AfterConversation, EndConversation, JobEnded
    <3>6. ASSUME NEW s \in Slots, Remote(s) \/ Complete(s) PROVE FALSE
      BY <1>3, <2>4, <3>6 DEF Remote, Answer, AnswerLost, Complete, Record, RecordGone, RecordFault,
                              EndConversation, JobEnded
    <3>7. ASSUME \E i \in Ids : Submit(i) PROVE FALSE
      BY <3>1, <3>7 DEF Submit
    <3>8. ASSUME Operator \/ Removal PROVE FALSE
      BY <3>1, <3>8 DEF Operator, OpHold, OpRelease, OpRetry, OpRemove, OpReleaseDestination, Removal,
                        OpCancel, OpUnconfirmed, OpRefused, OpUnlink, OpDie
    <3>9. ASSUME Crash \/ Restart \/ Tick PROVE FALSE
      BY <1>3, <3>1, <3>9 DEF Crash, Restart, Tick
    <3> QED BY <3>2, <3>3, <3>4, <3>5, <3>6, <3>7, <3>8, <3>9 DEF Next, WorkerStep
  <2> QED BY <2>1, <2>2, <2>3, <2>4
<1>4. ASSUME opId' # NoEntry
      PROVE  Queued(opId)' /\ OwedBy(opId)' = {}
  <2>1. CASE opId = NoEntry
    <3>1. PICK i \in Ids : OpRemove(i)
      BY <1>4, <2>1, RemovalCases DEF opVars, Removal, OpCancel, OpUnconfirmed, OpRefused, OpUnlink, OpDie
    <3>2. /\ opId' = i /\ Queued(i) /\ OwedBy(i) = {} /\ owed' = owed
          /\ env' = [env EXCEPT ![i] = HoldForRemoval(@)]
      BY <3>1 DEF OpRemove
    <3> QED BY <1>1, <3>2 DEF Queued, HoldForRemoval, Envelope, OwedBy
  <2>2. CASE opId # NoEntry
    <3>1. ~Unlink /\ ~OpUnlink
      BY <1>4, <2>2 DEF Unlink, OpUnlink
    <3>2. Queued(opId) /\ opId \in Ids /\ OwedBy(opId) = {}
      BY <1>1, <2>2
    <3>3. opId' = opId
      BY <1>4, <2>2, RemovalCases DEF opVars, Removal, OpCancel, OpUnconfirmed, OpRefused, OpUnlink,
                                      OpDie, OpRemove, Command, OperatorMayWrite
    <3>4. env'[opId].at = "queued"
      BY <1>1, <3>1, <3>2, PlaceCases DEF AtKept, Submit, Queued, Envelope
    <3>5. owed' = owed
      BY <2>2, LogCases DEF AfterConversation, FinishExpire, WriteWaiting, QueueEntry, Record,
                            RecordGone, OpCancel, OpUnconfirmed, WorkerMayWrite
    <3> QED BY <3>2, <3>3, <3>4, <3>5 DEF Queued, OwedBy
  <2> QED BY <2>1, <2>2
<1> QED BY <1>3, <1>4

\* Worker::record writes delivered for the recipients the remote took and
\* failed for the ones it refused.
LEMMA RecordGives ==
  ASSUME TypeOK, NEW s \in Slots, Record(s), NEW r \in Rcpts
  PROVE  /\ r \in Said(s, {"ok"}) => rcpt'[r].status = "delivered"
         /\ r \in Said(s, {"refused", "bad"}) => rcpt'[r].status = "failed"
<1>1. rcpt[r] \in RecipientState
  BY DEF TypeOK, DiskType
<1>2. PICK w : rcpt' = Recorded(s, w)
  BY DEF Record
<1> DEFINE ok == r \in Said(s, {"ok"})
           bad == r \in Said(s, {"refused", "bad"})
           again == r \in RetryNow(s)
           later == r \in Said(s, {"deferred", "slow", "toomany"}) \ RetryNow(s)
<1>3. ok => ~bad /\ ~again /\ ~later
  BY DEF Said, RetryNow
<1>4. bad => ~ok /\ ~again /\ ~later
  BY DEF Said, RetryNow
<1>5. ASSUME ok PROVE rcpt'[r] = [rcpt[r] EXCEPT !.status = "delivered"]
  BY <1>2, <1>3, <1>5 DEF Recorded
<1>6. ASSUME bad PROVE rcpt'[r] = [rcpt[r] EXCEPT !.status = "failed"]
  BY <1>2, <1>4, <1>6 DEF Recorded
<1> QED BY <1>1, <1>5, <1>6 DEF RecipientState

\* Every record that is not a cancellation comes with the verdict it is of,
\* except for the ones RecordGone writes about an entry that was removed.
LEMMA NewRecords ==
  ASSUME TypeOK, IntendedOwed, Next, NEW r \in Rcpts, NEW k \in Decided,
         <<r, k>> \in owed' \cup evLog', <<r, k>> \notin owed \cup evLog
  PROVE  \/ rcpt'[r].status # "pending"
         \/ \E s \in Slots : RecordGone(s) /\ <<r, k>> \in Intended(s)
<1>1. /\ rcpt[r] \in RecipientState /\ k # "canceled"
  BY DEF TypeOK, DiskType, Decided
<1>2. ASSUME NEW recs, NEW noted, RecordOutcomes(recs, noted) PROVE <<r, k>> \in noted \cup recs
  BY <1>2 DEF RecordOutcomes
<1>3. ~UNCHANGED <<owed, evLog>>
  OBVIOUS
<1>4. ~AfterConversation
  <2>1. ASSUME AfterConversation PROVE <<r, k>> \in owed \cup Intended(slot)
    BY <1>2, <2>1 DEF AfterConversation
  <2> QED BY <2>1 DEF IntendedOwed, AfterConversation
<1>5. ASSUME NEW i \in Ids, WriteWaiting(i) PROVE FALSE
  <2>1. <<r, k>> \in owed \cup OwedBy(i)
    BY <1>2, <1>5 DEF WriteWaiting
  <2> QED BY <2>1 DEF OwedBy
<1>6. ASSUME FinishExpire PROVE rcpt'[r].status # "pending"
  <2>1. <<r, k>> \in OutcomesOf(Expired(cur), "expired")
    BY <1>2, <1>6 DEF FinishExpire
  <2>2. r \in Expired(cur)
    BY <2>1 DEF OutcomesOf
  <2> QED BY <1>1, <1>6, <2>2 DEF FinishExpire, ExpireStates, RecipientState
<1>7. ASSUME NEW q \in agenda.queue, QueueEntry(q) PROVE rcpt'[r].status # "pending"
  <2>1. <<r, k>> \in OutcomesOf(Skipped(q), "suppressed") \cup OutcomesOf(Refused(q), "bounced")
    BY <1>2, <1>7 DEF QueueEntry
  <2>2. r \in Skipped(q) \cup Refused(q)
    BY <2>1 DEF OutcomesOf
  <2> QED BY <1>1, <1>7, <2>2 DEF QueueEntry, FailedWithout, RecipientState
<1>8. ASSUME NEW s \in Slots, Record(s) PROVE rcpt'[r].status # "pending"
  <2>1. <<r, k>> \in Intended(s)
    BY <1>8 DEF Record
  <2>2. r \in Said(s, {"ok"}) \/ r \in Said(s, {"refused", "bad"})
    BY <2>1 DEF Intended, OutcomesOf
  <2> QED BY <1>8, <2>2, RecordGives
<1>9. ASSUME NEW s \in Slots, RecordGone(s) PROVE <<r, k>> \in Intended(s)
  BY <1>9 DEF RecordGone
<1>10. ASSUME NEW o \in ToCancel, OpCancel(o) \/ OpUnconfirmed(o) PROVE FALSE
  <2>1. <<r, k>> = o
    BY <1>10 DEF OpCancel, OpUnconfirmed
  <2> QED BY <1>1, <2>1 DEF ToCancel, OutcomesOf
<1> QED BY <1>3, <1>4, <1>5, <1>6, <1>7, <1>8, <1>9, <1>10, LogCases

\* No conversation takes up a recipient of an entry that left the queue.
LEMMA GoneNotTalkedOf ==
  ASSUME TypeOK, JobsOwn, Next, NEW r \in Rcpts, env[EntryOf[r]].at \in Gone,
         \A s \in Talking : r \notin conv[s].talk
  PROVE  \A s \in Talking' : r \notin conv'[s].talk
<1>1. conv \in [Slots -> Talk \cup {NoTalk}]
  BY DEF TypeOK, SchedType
<1>2. ASSUME UNCHANGED conv PROVE \A s \in Talking' : r \notin conv'[s].talk
  BY <1>2 DEF Talking
<1>3. ASSUME NEW s \in Slots, EndConversation(s) PROVE \A t \in Talking' : r \notin conv'[t].talk
  BY <1>1, <1>3 DEF EndConversation, Talking
<1>4. ASSUME NEW j \in waiting, NEW s \in Slots, StartJob(j, s)
      PROVE  \A t \in Talking' : r \notin conv'[t].talk
  <2>1. r \notin j.rcpts
    BY <1>4 DEF StartJob, Startable, Queued, Gone, JobsOwn, RcptsOf
  <2>2. /\ \A t \in Slots : t # s => conv'[t] = conv[t]
        /\ conv'[s].talk = ToSend(j)
    BY <1>1, <1>4 DEF StartJob
  <2> QED BY <2>1, <2>2 DEF Talking, ToSend
<1>5. CASE AfterConversation
  BY <1>3, <1>5 DEF AfterConversation, TypeOK, TaskType
<1>6. CASE Crash
  BY <1>6 DEF Crash, Talking
<1>7. ASSUME NEW s \in Slots, Complete(s) PROVE \A t \in Talking' : r \notin conv'[t].talk
  BY <1>2, <1>3, <1>7 DEF Complete, Record, RecordGone, RecordFault
<1> QED BY <1>2, <1>4, <1>5, <1>6, <1>7, QuietCases DEF Quiet

\* A recipient the log knows an outcome of and the spool does not stays one
\* of an entry that is gone, and is talked of no more.
LEMMA UndecidedStep ==
  ASSUME TypeOK, OneConversation, ScanFresh, JobsOwn, IntendedOwed, Undecided, Next
  PROVE  Undecided'
<1> SUFFICES ASSUME NEW r \in Rcpts, rcpt'[r].status = "pending", NEW k \in Decided,
                    <<r, k>> \in owed' \cup evLog'
             PROVE  /\ env'[EntryOf[r]].at \in Gone
                    /\ \A s \in Talking' : r \notin conv'[s].talk
  BY DEF Undecided
<1>1. /\ rcpt[r].status = "pending" /\ EntryOf[r] \in Ids /\ NoReturn
      /\ conv \in [Slots -> Talk \cup {NoTalk}] /\ env \in [Ids -> Envelope]
  BY StatusFinalStep, EntriesDoNotReturn, ConstantsAssumption DEF TypeOK, SchedType, DiskType
<1>2. CASE <<r, k>> \in owed \cup evLog
  <2>1. env[EntryOf[r]].at \in Gone /\ \A s \in Talking : r \notin conv[s].talk
    BY <1>1, <1>2 DEF Undecided
  <2> QED BY <1>1, <2>1, GoneNotTalkedOf DEF NoReturn
<1>3. CASE <<r, k>> \notin owed \cup evLog
  <2>1. PICK s \in Slots : RecordGone(s) /\ <<r, k>> \in Intended(s)
    BY <1>3, NewRecords
  <2>2. s \in Talking /\ r \in conv[s].talk
    BY <2>1 DEF RecordGone, Answered, Talking, Intended, OutcomesOf, Said
  <2>3. EntryOf[r] = conv[s].job.id /\ env[EntryOf[r]].at # "absent"
    BY <2>2 DEF OneConversation, JobsOwn, RcptsOf
  <2>4. env[EntryOf[r]].at \in Gone /\ env' = env
    BY <1>1, <2>1, <2>3 DEF RecordGone, Queued, Envelope, Gone
  <2>5. conv' = [conv EXCEPT ![s] = NoTalk]
    BY <2>1 DEF RecordGone, EndConversation
  <2>6. \A t \in Talking : t # s => r \notin conv[t].talk
    BY <2>2 DEF OneConversation
  <2> QED BY <1>1, <2>4, <2>5, <2>6 DEF Talking
<1> QED BY <1>2, <1>3

\* Nothing is written, owed or on its way out at the start.
LEMMA BooksInit == Init => Books
<1> SUFFICES ASSUME Init PROVE Books
  OBVIOUS
<1>1. AboutToGo /\ IntendedOwed /\ Undecided
  BY DEF Init, AboutToGo, IntendedOwed, Undecided
<1>2. OkTaken
  BY DEF Init, OkTaken, NoAnswer
<1> QED BY <1>1, <1>2 DEF Books

\* A step that changes nothing keeps the books.
LEMMA BooksStutter ==
  ASSUME Books, UNCHANGED vars
  PROVE  Books'
<1> USE DEF vars, diskVars, taskVars, schedVars, opVars, worldVars, histVars, Books
<1>1. AboutToGo'
  BY DEF AboutToGo, Queued, Pending, PendingIn, RcptsOf, OwedBy
<1>2. OkTaken' /\ IntendedOwed' /\ Undecided'
  BY DEF OkTaken, IntendedOwed, Intended, Said, Undecided, Talking
<1> QED BY <1>1, <1>2

\* The books are kept at every step: an entry about to be unlinked has
\* nothing left to write, and an outcome without a verdict is of an entry
\* that is gone.
THEOREM BooksHold == Spec => [](Inv /\ Books)
<1>1. Inv /\ Books /\ [Next]_vars => Books'
  BY AboutToGoStep, OkTakenStep, IntendedOwedStep, UndecidedStep, BooksStutter DEF Inv, Books
<1> QED BY <1>1, BooksInit, InvHolds, PTL DEF Spec

(***************************************************************************)
(* Every step is a step of the contract, or none.                          *)
(***************************************************************************)
\* What the contract calls the place of entries, the verdicts and the copies
\* taken, is unchanged when the fields it reads are.
LEMMA PlaceMapped ==
  ASSUME AtKept
  PROVE  /\ \A i \in Ids : Placed(i)' = Placed(i)
         /\ [i \in Ids |-> Placed(i)]' = [i \in Ids |-> Placed(i)]
BY DEF AtKept, Placed

\* Likewise the verdicts.
LEMMA VerdictMapped ==
  ASSUME StatusKept
  PROVE  [r \in Rcpts |-> rcpt[r].status]' = [r \in Rcpts |-> rcpt[r].status]
BY DEF StatusKept

\* A step that touches neither is no step of the contract.
LEMMA HiddenStep ==
  ASSUME AtKept, StatusKept, UNCHANGED <<copies, owed, evLog>>
  PROVE  UNCHANGED Contract!promised
BY PlaceMapped, VerdictMapped DEF Contract!promised

\* record_outcome pays what it is given, as far as the log takes it.
LEMMA OutcomesPay ==
  ASSUME NEW recs, NEW noted, recs \subseteq noted, RecordOutcomes(recs, noted)
  PROVE  Contract!Pay(noted)
<1>1. CASE evLog' = evLog \cup recs /\ owed' = noted \ recs
  BY <1>1 DEF Contract!Pay
<1>2. CASE \E written \in SUBSET recs : \E dropped \in SUBSET written :
             evLog' = evLog \cup written /\ owed' = noted \ dropped
  BY <1>2 DEF Contract!Pay
<1> QED BY <1>1, <1>2 DEF RecordOutcomes

\* Verdicts written together with what they owe are a decision.
LEMMA DecideMapped ==
  ASSUME NEW i \in Ids, Queued(i), AtKept, UNCHANGED copies,
         NEW S, S \subseteq Pending(i), NEW kind \in [S -> Contract!Decisions],
         \A r \in S : kind[r] = "delivered" => copies[r] > 0,
         \A r \in Rcpts : rcpt'[r].status = IF r \in S THEN Contract!Result(kind[r])
                                            ELSE rcpt[r].status,
         Contract!Pay(owed \cup {<<r, kind[r]>> : r \in {x \in S : i \in Mandatory}})
  PROVE  Contract!Decide(i)
<1>1. [x \in Ids |-> Placed(x)][i] = "queued"
  BY DEF Placed, Queued
<1>2. S \in SUBSET Contract!Open(i)
  BY DEF Contract!Open, Contract!Of, Pending, PendingIn, RcptsOf
<1>3. \A r \in S : kind[r] = "delivered" => r \in {x \in Rcpts : copies[x] > 0}
  BY DEF Pending, PendingIn, RcptsOf
<1>4. [r \in Rcpts |-> rcpt[r].status]' =
        [r \in Rcpts |-> IF r \in S THEN Contract!Result(kind[r])
                         ELSE [x \in Rcpts |-> rcpt[x].status][r]]
  OBVIOUS
<1> QED BY <1>1, <1>2, <1>3, <1>4, PlaceMapped DEF Contract!Decide

\* Submission is the entry's way in.
LEMMA SubmitMapped ==
  ASSUME TypeOK, NEW i \in Ids, Submit(i)
  PROVE  Contract!Enter(i)
<1>1. /\ env \in [Ids -> Envelope] /\ env[i].at = "absent"
      /\ env' = [env EXCEPT ![i].at = "queued", ![i].created = now]
      /\ UNCHANGED <<rcpt, copies, owed, evLog>>
  BY DEF TypeOK, DiskType, Submit, histVars
<1>2. /\ Placed(i) = "absent" /\ Placed(i)' = "queued"
      /\ \A j \in Ids : j # i => Placed(j)' = Placed(j)
  BY <1>1 DEF Placed, Envelope
<1>3. [j \in Ids |-> Placed(j)]' = [[j \in Ids |-> Placed(j)] EXCEPT ![i] = "queued"]
  BY <1>2
<1> QED BY <1>1, <1>2, <1>3 DEF Contract!Enter

\* What a remote takes it takes for recipients that wait for it.
LEMMA RemoteMapped ==
  ASSUME TypeOK, OneConversation, JobsOwn, NEW s \in Slots, Remote(s)
  PROVE  \E i \in Ids : Contract!Take(i)
<1> PICK i \in Ids : i = conv[s].job.id
  BY DEF Remote, Answer, AnswerLost, TypeOK, SchedType, Talk, Job
<1> DEFINE took == {r \in Rcpts : copies[r] > 0}
<1>1. /\ pc = "select" /\ s \in Talking /\ UNCHANGED <<env, rcpt, owed, evLog>>
      /\ copies \in [Rcpts -> Nat] /\ conv[s].talk \subseteq Rcpts
  BY DEF Remote, Answer, AnswerLost, diskVars, Talking, TypeOK, WorldType, SchedType, Talk
<1>2. conv[s].talk \subseteq Contract!Open(i)
  BY <1>1 DEF OneConversation, JobsOwn, RcptsOf, Contract!Open, Contract!Of
<1>3. i \in Ids /\ [x \in Ids |-> Placed(x)][i] # "absent"
  <2>1. i \in Ids /\ env[i].at # "absent"
    BY <1>1 DEF JobsOwn, TypeOK, SchedType, Talking, Talk, Job
  <2> QED BY <2>1 DEF Placed
<1>4. \E S \in SUBSET conv[s].talk : took' = took \cup S
  <2>1. CASE Answer(s)
    <3>1. PICK a \in [conv[s].talk -> Replies] :
            copies' = [r \in Rcpts |-> IF r \in conv[s].talk /\ a[r] = "ok"
                                       THEN copies[r] + 1 ELSE copies[r]]
      BY <2>1 DEF Answer
    <3> DEFINE S == {r \in conv[s].talk : a[r] = "ok"}
    <3>2. ASSUME NEW r \in Rcpts PROVE copies'[r] > 0 <=> copies[r] > 0 \/ r \in S
      BY <1>1, <3>1
    <3>3. took' = took \cup S
      BY <1>1, <3>2
    <3> QED BY <3>3
  <2>2. CASE AnswerLost(s)
    <3>1. PICK S \in SUBSET conv[s].talk :
            copies' = [r \in Rcpts |-> IF r \in S THEN copies[r] + 1 ELSE copies[r]]
      BY <2>2 DEF AnswerLost
    <3>2. ASSUME NEW r \in Rcpts PROVE copies'[r] > 0 <=> copies[r] > 0 \/ r \in S
      BY <1>1, <3>1
    <3>3. took' = took \cup S
      BY <1>1, <3>2
    <3> QED BY <3>3
  <2> QED BY <2>1, <2>2 DEF Remote
<1>5. \A x \in Ids : Placed(x)' = Placed(x)
  BY <1>1 DEF Placed
<1> QED BY <1>1, <1>2, <1>3, <1>4, <1>5 DEF Contract!Take

\* The worker writes the outcomes an earlier step left in the envelopes.
LEMMA WritesMapped ==
  ASSUME TypeOK, IntendedOwed, AfterConversation \/ \E i \in Ids : WriteWaiting(i)
  PROVE  Contract!Write
<1>1. AtKept
  <2>1. /\ env \in [Ids -> Envelope]
        /\ \A e \in Envelope : HoldForRemoval(e).at = e.at
    BY DEF TypeOK, DiskType, HoldForRemoval, Envelope
  <2> QED BY <2>1 DEF AfterConversation, WriteWaiting, AtKept
<1>2. StatusKept /\ UNCHANGED copies
  BY DEF AfterConversation, WriteWaiting, StatusKept, histVars
<1>3. Contract!Pay(owed)
  <2>1. CASE AfterConversation
    BY <2>1, OutcomesPay DEF AfterConversation, IntendedOwed
  <2>2. ASSUME NEW i \in Ids, WriteWaiting(i) PROVE Contract!Pay(owed)
    <3>1. OwedBy(i) \subseteq owed /\ RecordOutcomes(OwedBy(i), owed)
      BY <2>2 DEF WriteWaiting, OwedBy
    <3> QED BY <3>1, OutcomesPay
  <2> QED BY <2>1, <2>2
<1> QED BY <1>1, <1>2, <1>3, PlaceMapped, VerdictMapped DEF Contract!Write

\* The recipients the scan fails without a conversation get their verdicts,
\* which the log is owed, in one write.
LEMMA QueueEntryMapped ==
  ASSUME TypeOK, ScanFresh, NEW q \in agenda.queue, QueueEntry(q)
  PROVE  (\E i \in Ids : Contract!Decide(i)) \/ UNCHANGED Contract!promised
<1> DEFINE lost == Skipped(q) \cup Refused(q)
           recs == OutcomesOf(Skipped(q), "suppressed") \cup OutcomesOf(Refused(q), "bounced")
           kind == [r \in lost |-> IF r \in Skipped(q) THEN "suppressed" ELSE "bounced"]
<1>1. /\ q.id \in Ids /\ lost \subseteq Pending(q.id) /\ Skipped(q) \cap Refused(q) = {}
      /\ rcpt \in [Rcpts -> RecipientState] /\ env \in [Ids -> Envelope]
  BY DEF TypeOK, TaskType, DiskType, Agenda, ScanFresh, Skipped, Refused, Free
<1>2. /\ lost # {} => Queued(q.id) /\ RecordOutcomes(recs, owed \cup recs)
      /\ rcpt' = FailedWithout(q) /\ UNCHANGED copies /\ AtKept
      /\ RecordOutcomes(recs, owed \cup recs)
  BY <1>1 DEF QueueEntry, histVars, AtKept, Envelope
<1>3. \A r \in Rcpts : rcpt'[r].status = IF r \in lost THEN "failed" ELSE rcpt[r].status
  BY <1>1, <1>2 DEF FailedWithout, RecipientState
<1>4. CASE lost = {}
  <2>1. recs = {}
    BY <1>4 DEF OutcomesOf
  <2>2. UNCHANGED <<owed, evLog>>
    BY <1>2, <2>1 DEF RecordOutcomes
  <2>3. StatusKept
    BY <1>3, <1>4 DEF StatusKept
  <2> QED BY <1>2, <2>2, <2>3, HiddenStep
<1>5. CASE lost # {}
  <2>1. kind \in [lost -> Contract!Decisions] /\ \A r \in lost : kind[r] # "delivered"
    BY DEF Contract!Decisions
  <2>2. \A r \in Rcpts : rcpt'[r].status = IF r \in lost THEN Contract!Result(kind[r])
                                           ELSE rcpt[r].status
    BY <1>3, <2>1 DEF Contract!Result
  <2>3. recs = {<<r, kind[r]>> : r \in {x \in lost : q.id \in Mandatory}}
    <3>1. \A r \in lost : EntryOf[r] = q.id
      BY <1>1 DEF Pending, PendingIn, RcptsOf
    <3> QED BY <1>1, <3>1 DEF OutcomesOf
  <2>4. Contract!Pay(owed \cup {<<r, kind[r]>> : r \in {x \in lost : q.id \in Mandatory}})
    <3>1. Contract!Pay(owed \cup recs)
      BY <1>2, OutcomesPay
    <3> QED BY <2>3, <3>1
  <2>5. Queued(q.id)
    BY <1>2, <1>5
  <2> HIDE DEF lost, kind, recs
  <2> QED BY <1>1, <1>2, <2>1, <2>2, <2>4, <2>5, DecideMapped, SMTT(60)
<1> QED BY <1>4, <1>5

\* So do the recipients Worker::expire gives up.
LEMMA ExpireMapped ==
  ASSUME TypeOK, FinishExpire
  PROVE  \E i \in Ids : Contract!Decide(i)
<1> PICK i \in Ids : i = cur
  BY DEF TypeOK, TaskType, FinishExpire, Settling
<1> DEFINE S == Expired(i)
           kind == [r \in S |-> "expired"]
           recs == OutcomesOf(S, "expired")
<1>1. /\ S \subseteq Pending(i)
      /\ rcpt \in [Rcpts -> RecipientState] /\ env \in [Ids -> Envelope]
  BY DEF TypeOK, DiskType, Expired
<1>2. /\ Queued(i) /\ RecordOutcomes(recs, owed \cup recs)
      /\ rcpt' = ExpireStates(i) /\ UNCHANGED copies /\ AtKept
  BY <1>1 DEF FinishExpire, histVars, AtKept, Envelope
<1>3. kind \in [S -> Contract!Decisions] /\ \A r \in S : kind[r] # "delivered"
  BY DEF Contract!Decisions
<1>4. \A r \in Rcpts : rcpt'[r].status = IF r \in S THEN Contract!Result(kind[r])
                                         ELSE rcpt[r].status
  BY <1>1, <1>2, <1>3 DEF ExpireStates, RecipientState, Contract!Result
<1>5. recs = {<<r, kind[r]>> : r \in {x \in S : i \in Mandatory}}
  <2>1. \A r \in S : EntryOf[r] = i
    BY <1>1 DEF Pending, PendingIn, RcptsOf
  <2> QED BY <1>1, <2>1 DEF OutcomesOf
<1>6. Contract!Pay(owed \cup {<<r, kind[r]>> : r \in {x \in S : i \in Mandatory}})
  <2>1. Contract!Pay(owed \cup recs)
    BY <1>2, OutcomesPay
  <2> QED BY <1>5, <2>1
<1>7. \A r \in S : kind[r] = "delivered" => copies[r] > 0
  BY <1>3
<1>8. S \subseteq Pending(i) /\ Queued(i) /\ UNCHANGED copies /\ AtKept
  BY <1>1, <1>2
<1>9. kind \in [S -> Contract!Decisions]
  BY <1>3
<1> HIDE DEF S, kind, recs
<1>10. Contract!Decide(i)
  BY <1>4, <1>6, <1>7, <1>8, <1>9, DecideMapped, SMTT(60)
<1> QED BY <1>10

\* What a conversation decides: the outcome kind of each recipient the remote
\* gave a final answer for.
Answering(s) == Said(s, {"ok", "refused", "bad"})
Verdicts(s)  == [r \in Answering(s) |-> IF r \in Said(s, {"ok"}) THEN "delivered" ELSE "bounced"]

\* The answers are about recipients that wait, and a delivery is true.
LEMMA VerdictsSound ==
  ASSUME TypeOK, OneConversation, JobsOwn, OkTaken, NEW s \in Slots, Answered(s)
  PROVE  /\ conv[s].job.id \in Ids /\ env[conv[s].job.id].at # "absent"
         /\ Answering(s) \subseteq Pending(conv[s].job.id) /\ Answering(s) \subseteq conv[s].talk
         /\ \A r \in Answering(s) : Verdicts(s)[r] = "delivered" => copies[r] > 0
         /\ Intended(s) = {<<r, Verdicts(s)[r]>> :
                             r \in {x \in Answering(s) : conv[s].job.id \in Mandatory}}
<1>1. s \in Talking /\ pc = "select" /\ conv[s] \in Talk
  BY DEF Answered, Talking, TypeOK, SchedType
<1>2. conv[s].job.id \in Ids /\ env[conv[s].job.id].at # "absent"
  BY <1>1 DEF JobsOwn, Talk, Job
<1>3. Answering(s) \subseteq conv[s].talk
  BY DEF Answering, Said
<1>4. Answering(s) \subseteq Pending(conv[s].job.id)
  BY <1>1, <1>3 DEF OneConversation, JobsOwn, RcptsOf, Pending, PendingIn
<1>5. \A r \in Answering(s) : Verdicts(s)[r] = "delivered" => copies[r] > 0
  BY <1>4 DEF Verdicts, Said, OkTaken, Pending, PendingIn, RcptsOf
<1>6. \A r \in Answering(s) : EntryOf[r] = conv[s].job.id
  BY <1>4 DEF Pending, PendingIn, RcptsOf
<1>7. /\ Said(s, {"ok"}) \cap Said(s, {"refused", "bad"}) = {}
      /\ Answering(s) = Said(s, {"ok"}) \cup Said(s, {"refused", "bad"})
  BY DEF Said, Answering
<1>8. Intended(s) = {<<r, Verdicts(s)[r]>> :
                       r \in {x \in Answering(s) : conv[s].job.id \in Mandatory}}
  BY <1>6, <1>7 DEF Intended, OutcomesOf, Verdicts
<1> QED BY <1>2, <1>3, <1>4, <1>5, <1>8

\* Worker::record is a decision whose outcomes are owed.
LEMMA RecordMapped ==
  ASSUME TypeOK, OneConversation, JobsOwn, OkTaken, NEW s \in Slots, Record(s)
  PROVE  \E i \in Ids : Contract!Decide(i)
<1> PICK i \in Ids : i = conv[s].job.id
  BY VerdictsSound DEF Record
<1> DEFINE S == Answering(s)
           kind == Verdicts(s)
           recs == {<<r, kind[r]>> : r \in {x \in S : i \in Mandatory}}
<1>1. /\ S \subseteq Pending(i) /\ Intended(s) = recs
      /\ \A r \in S : kind[r] = "delivered" => copies[r] > 0
  BY VerdictsSound DEF Record
<1>2. /\ Queued(i) /\ owed' = owed \cup recs /\ evLog' = evLog /\ UNCHANGED copies /\ AtKept
  BY <1>1 DEF Record, histVars, AtKept, TypeOK, DiskType, Envelope
<1>3. kind \in [S -> Contract!Decisions]
  BY DEF Verdicts, Contract!Decisions
<1>4. ASSUME NEW r \in Rcpts
      PROVE  rcpt'[r].status = IF r \in S THEN Contract!Result(kind[r]) ELSE rcpt[r].status
  <2>1. CASE r \notin S
    BY <2>1, VerdictsOfRecord DEF Answering
  <2>2. CASE r \in Said(s, {"ok"})
    BY <2>2, RecordGives DEF Verdicts, Answering, Said, Contract!Result
  <2>3. CASE r \in Said(s, {"refused", "bad"})
    BY <2>3, RecordGives DEF Verdicts, Answering, Said, Contract!Result
  <2> QED BY <2>1, <2>2, <2>3 DEF Answering, Said
<1>5. Contract!Pay(owed \cup recs)
  <2>1. evLog' = evLog \cup {} /\ owed' = (owed \cup recs) \ {}
    BY <1>2
  <2> HIDE DEF recs
  <2> QED BY <2>1 DEF Contract!Pay
<1> HIDE DEF S, kind
<1> QED BY <1>1, <1>2, <1>3, <1>4, <1>5, DecideMapped, SMTT(60)

\* The conversation of a removed entry ends with a late outcome.
LEMMA RecordGoneMapped ==
  ASSUME TypeOK, OneConversation, JobsOwn, OkTaken, Undecided, NEW s \in Slots, RecordGone(s)
  PROVE  \E i \in Ids : Contract!Late(i)
<1>0. Answered(s) /\ s \in Talking
  BY DEF RecordGone, Answered, Talking
<1> PICK i \in Ids : i = conv[s].job.id
  BY <1>0, VerdictsSound
<1>1. PICK written \in SUBSET Intended(s) : evLog' = evLog \cup written
  BY DEF RecordGone
<1> DEFINE S == {r \in Answering(s) : <<r, Verdicts(s)[r]>> \in written}
           kind == [r \in S |-> Verdicts(s)[r]]
<1>2. /\ Answering(s) \subseteq Pending(i) /\ Answering(s) \subseteq conv[s].talk
      /\ \A r \in Answering(s) : Verdicts(s)[r] = "delivered" => copies[r] > 0
      /\ Intended(s) = {<<r, Verdicts(s)[r]>> : r \in {x \in Answering(s) : i \in Mandatory}}
      /\ env[i].at # "absent"
  BY <1>0, VerdictsSound
<1>3. [x \in Ids |-> Placed(x)][i] = "gone"
  BY <1>2 DEF RecordGone, Queued, Placed
<1>4. S \in SUBSET Contract!Open(i)
  BY <1>2 DEF Contract!Open, Contract!Of, Pending, PendingIn, RcptsOf
<1>5. kind \in [S -> {"delivered", "bounced"}]
  BY DEF Verdicts
<1>6. ASSUME NEW r \in S
      PROVE  /\ kind[r] = "delivered" => r \in {x \in Rcpts : copies[x] > 0}
             /\ \A k \in Contract!Decisions : <<r, k>> \notin owed \cup evLog
  <2>1. r \in Rcpts /\ rcpt[r].status = "pending" /\ r \in conv[s].talk
    BY <1>2 DEF Pending, PendingIn, RcptsOf
  <2>2. ~\E k \in Decided : <<r, k>> \in owed \cup evLog
    BY <1>0, <2>1 DEF Undecided
  <2>3. Contract!Decisions \subseteq Decided
    BY DEF Contract!Decisions, Decided, Kinds
  <2> QED BY <1>2, <2>1, <2>2, <2>3
<1>7. evLog' = evLog \cup {<<r, kind[r]>> : r \in S}
  BY <1>1, <1>2
<1>8. UNCHANGED <<env, rcpt, owed, copies>>
  BY DEF RecordGone, histVars
<1>9. \A x \in Ids : Placed(x)' = Placed(x)
  BY <1>8 DEF Placed
<1> HIDE DEF S, kind
<1> QED BY <1>3, <1>4, <1>5, <1>6, <1>7, <1>8, <1>9 DEF Contract!Late

\* A record of a removal under way is a cancellation of a recipient that waits.
LEMMA CancelMapped ==
  ASSUME TypeOK, AboutToGo, NEW o \in ToCancel, OpCancel(o) \/ OpUnconfirmed(o)
  PROVE  (\E i \in Ids : Contract!Cancel(i)) \/ UNCHANGED Contract!promised
<1>1. /\ opId \in Ids /\ Queued(opId) /\ UNCHANGED <<env, rcpt, owed, copies>>
  BY DEF OpCancel, OpUnconfirmed, AboutToGo, TypeOK, WorldType, histVars
<1>2. \A x \in Ids : Placed(x)' = Placed(x)
  BY <1>1 DEF Placed
<1>3. CASE evLog' = evLog
  BY <1>1, <1>2, <1>3 DEF Contract!promised
<1>4. CASE evLog' = evLog \cup {o}
  <2> PICK i \in Ids : i = opId
    BY <1>1
  <2>1. PICK r \in Pending(i) : o = <<r, "canceled">> /\ EntryOf[r] \in Mandatory
    BY DEF ToCancel, OutcomesOf
  <2>2. r \in Contract!Open(i) /\ i \in Mandatory
    BY <2>1 DEF Contract!Open, Contract!Of, Pending, PendingIn, RcptsOf
  <2>3. [x \in Ids |-> Placed(x)][i] = "queued"
    BY <1>1 DEF Placed, Queued
  <2> QED BY <1>1, <1>2, <1>4, <2>1, <2>2, <2>3 DEF Contract!Cancel
<1> QED BY <1>3, <1>4 DEF OpCancel, OpUnconfirmed

\* An entry leaves settled: the evidence of its verdicts is written, and the
\* recipients without one are cancelled.
LEMMA LeaveMapped ==
  ASSUME TypeOK, NEW i \in Ids, Queued(i), NEW at \in Gone, env' = [env EXCEPT ![i].at = at],
         UNCHANGED <<rcpt, copies, owed, evLog>>, EvidenceKept, OwedBy(i) = {},
         OutcomesOf(Pending(i), "canceled") \subseteq evLog
  PROVE  Contract!Leave(i)
<1>1. env \in [Ids -> Envelope] /\ owed \subseteq Rcpts \X Kinds /\ Contract!Kinds = Kinds
  BY DEF TypeOK, DiskType, Contract!Kinds, Contract!Decisions, Kinds
<1>2. /\ Placed(i) = "queued" /\ Placed(i)' = "gone"
      /\ \A j \in Ids : j # i => Placed(j)' = Placed(j)
  BY <1>1 DEF Queued, Placed, Envelope, Gone
<1>3. [j \in Ids |-> Placed(j)]' = [[j \in Ids |-> Placed(j)] EXCEPT ![i] = "gone"]
  BY <1>2
<1>4. ASSUME i \in Mandatory PROVE Contract!Settled(i)
  <2> SUFFICES ASSUME NEW r \in Rcpts, EntryOf[r] = i
               PROVE  /\ \E k \in Kinds : <<r, k>> \in evLog
                      /\ \A k \in Kinds : <<r, k>> \notin owed
    BY <1>1 DEF Contract!Settled, Contract!Of
  <2>1. \A k \in Kinds : <<r, k>> \notin owed
    BY DEF OwedBy
  <2>2. CASE rcpt[r].status = "pending"
    <3>1. <<r, "canceled">> \in OutcomesOf(Pending(i), "canceled")
      BY <1>4, <2>2 DEF OutcomesOf, Pending, PendingIn, RcptsOf
    <3> QED BY <2>1, <3>1 DEF Kinds
  <2>3. CASE rcpt[r].status # "pending"
    BY <1>4, <2>1, <2>3 DEF EvidenceKept
  <2> QED BY <2>1, <2>2, <2>3
<1> QED BY <1>2, <1>3, <1>4 DEF Contract!Leave

\* The worker's unlink, unless it fails, and the operator's.
LEMMA UnlinkMapped ==
  ASSUME TypeOK, EvidenceKept, AboutToGo, Unlink \/ OpUnlink
  PROVE  (\E i \in Ids : Contract!Leave(i)) \/ UNCHANGED Contract!promised
<1>1. UNCHANGED <<rcpt, copies, owed, evLog>>
  BY DEF Unlink, OpUnlink, histVars
<1>2. CASE UNCHANGED env
  BY <1>1, <1>2, HiddenStep DEF AtKept, StatusKept
<1>3. CASE Unlink /\ ~UNCHANGED env
  <2> PICK i \in Ids : i = cur
    BY <1>3 DEF Unlink, TypeOK, TaskType, Settling
  <2>1. Queued(i) /\ Pending(i) = {} /\ OwedBy(i) = {} /\ env' = [env EXCEPT ![i].at = "removed"]
    BY <1>3 DEF Unlink, AboutToGo
  <2>2. OutcomesOf(Pending(i), "canceled") \subseteq evLog /\ "removed" \in Gone
    BY <2>1 DEF OutcomesOf, Gone
  <2> QED BY <1>1, <2>1, <2>2, LeaveMapped
<1>4. CASE OpUnlink
  <2> PICK i \in Ids : i = opId
    BY <1>4 DEF OpUnlink, TypeOK, WorldType
  <2>1. Queued(i) /\ OwedBy(i) = {} /\ env' = [env EXCEPT ![i].at = "canceled"]
    BY <1>4 DEF OpUnlink, AboutToGo
  <2>2. OutcomesOf(Pending(i), "canceled") \subseteq evLog /\ "canceled" \in Gone
    BY <1>4 DEF OpUnlink, ToCancel, Gone
  <2> QED BY <1>1, <2>1, <2>2, LeaveMapped
<1> QED BY <1>2, <1>3, <1>4

\* The mapping, action by action: the ones not named leave everything the
\* contract sees alone.
LEMMA StepMapped ==
  ASSUME Inv, Books, Next
  PROVE  Contract!Next \/ UNCHANGED Contract!promised
<1> USE DEF Inv, Books
<1>1. ASSUME NEW i \in Ids, Submit(i) PROVE Contract!Next
  BY <1>1, SubmitMapped DEF Contract!Next
<1>2. ASSUME NEW s \in Slots, Remote(s) PROVE Contract!Next
  BY <1>2, RemoteMapped DEF Contract!Next
<1>3. ASSUME AfterConversation \/ \E i \in Ids : WriteWaiting(i) PROVE Contract!Next
  BY <1>3, WritesMapped DEF Contract!Next
<1>4. ASSUME NEW q \in agenda.queue, QueueEntry(q)
      PROVE  Contract!Next \/ UNCHANGED Contract!promised
  BY <1>4, QueueEntryMapped DEF Contract!Next
<1>5. ASSUME FinishExpire PROVE Contract!Next
  BY <1>5, ExpireMapped DEF Contract!Next
<1>6. ASSUME NEW s \in Slots, Record(s) PROVE Contract!Next
  BY <1>6, RecordMapped DEF Contract!Next
<1>7. ASSUME NEW s \in Slots, RecordGone(s) PROVE Contract!Next
  BY <1>7, RecordGoneMapped DEF Contract!Next
<1>8. ASSUME NEW o \in ToCancel, OpCancel(o) \/ OpUnconfirmed(o)
      PROVE  Contract!Next \/ UNCHANGED Contract!promised
  BY <1>8, CancelMapped DEF Contract!Next
<1>9. ASSUME Unlink \/ OpUnlink PROVE Contract!Next \/ UNCHANGED Contract!promised
  BY <1>9, UnlinkMapped DEF Contract!Next
<1>10. ASSUME AtKept, StatusKept, UNCHANGED <<copies, owed, evLog>>
       PROVE  UNCHANGED Contract!promised
  BY <1>10, HiddenStep
<1>11. ASSUME Crash \/ \E s \in Slots : RecordFault(s) PROVE UNCHANGED Contract!promised
  BY <1>11, <1>10 DEF Crash, RecordFault, diskVars, AtKept, StatusKept
<1> QED
  BY <1>1, <1>2, <1>3, <1>4, <1>5, <1>6, <1>7, <1>8, <1>9, <1>10, <1>11,
     PlaceCases, StatusCases, LogCases, AnswerCases

\* The queue keeps its contract, for every number of messages, recipients and
\* slots, every crash, fault and operator command: the refinement the runs
\* check on two messages.
THEOREM ContractKept == Spec => KeepsContract
<1>1. Init => Contract!Init
  BY DEF Init, Contract!Init, Placed
<1>2. UNCHANGED vars => UNCHANGED Contract!promised
  <2> SUFFICES ASSUME UNCHANGED vars PROVE UNCHANGED Contract!promised
    OBVIOUS
  <2>1. AtKept /\ StatusKept /\ UNCHANGED <<copies, owed, evLog>>
    BY DEF vars, diskVars, histVars, AtKept, StatusKept
  <2> QED BY <2>1, HiddenStep
<1>3. Inv /\ Books /\ [Next]_vars => [Contract!Next]_(Contract!promised)
  BY <1>2, StepMapped
<1> QED BY <1>1, <1>3, BooksHold, PTL DEF Spec, KeepsContract, Contract!Spec

\* What the contract guarantees holds of the queue.
THEOREM ContractGuarantees == Spec => []Contract!ContractInv
<1>1. EntryOf \in [Rcpts -> Ids]
  BY ConstantsAssumption
<1>2. Contract!Spec => []Contract!ContractInv
  BY <1>1, Contract!ContractSafe
<1> QED BY <1>2, ContractKept, PTL DEF KeepsContract

\* No message of mandatory evidence leaves the queue, by Worker::finish or by
\* an operator's removal, with an outcome unwritten.
THEOREM NoneVanish == Spec => []NoneVanishes
<1>1. Contract!ContractInv /\ TypeOK => NoneVanishes
  <2> SUFFICES ASSUME Contract!ContractInv, TypeOK, NEW r \in Rcpts, EntryOf[r] \in Mandatory,
                      env[EntryOf[r]].at \in Gone
               PROVE  (\E k \in Kinds : <<r, k>> \in evLog) /\ ~\E k \in Kinds : <<r, k>> \in owed
    BY DEF NoneVanishes, Gone
  <2>1. EntryOf[r] \in Ids /\ Placed(EntryOf[r]) = "gone"
    BY ConstantsAssumption DEF Placed, Gone
  <2>2. Contract!Settled(EntryOf[r]) /\ r \in Contract!Of(EntryOf[r])
    BY <2>1 DEF Contract!ContractInv, Contract!GoneSettled, Contract!Of
  <2>3. Contract!Kinds = Kinds
    BY DEF Contract!Kinds, Contract!Decisions, Kinds
  <2> QED BY <2>2, <2>3 DEF Contract!Settled
<1> QED BY <1>1, ContractGuarantees, TypeCorrect, PTL

\* The log and the notes never hold two verdicts on a recipient, and say
\* delivered only if a remote took the message, though Record, RecordGone,
\* the scan and the expiry all write outcomes.
THEOREM VerdictsAreTrue == Spec => []OneTrueVerdict
<1>1. Contract!ContractInv => OneTrueVerdict
  <2>1. Contract!Decisions = Kinds \ {"canceled"}
    BY DEF Contract!Decisions, Kinds
  <2> QED BY <2>1 DEF Contract!ContractInv, Contract!OneVerdict, OneTrueVerdict
<1> QED BY <1>1, ContractGuarantees, PTL

============================================================================
