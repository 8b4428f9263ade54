------------------------ MODULE OutboundQueueSafety ------------------------
(***************************************************************************)
(* What the outbound queue promises of each recipient, proved for every    *)
(* number of messages, recipients, slots, crashes and faults: its outcome  *)
(* is never lost nor changed, and no copy is sent after it or besides the  *)
(* ones nobody could know of.                                              *)
(***************************************************************************)
EXTENDS OutboundQueueTypes

\* Jobs carry recipients of their own entry, and a conversation's entry was
\* submitted.
JobsOwn ==
  /\ \A j \in waiting : j.rcpts \subseteq RcptsOf(j.id)
  /\ \A s \in Talking : /\ conv[s].claimed \subseteq RcptsOf(conv[s].job.id)
                         /\ env[conv[s].job.id].at # "absent"

\* Where each accepted copy is accounted for: excused, recorded as delivered,
\* in the answer of a conversation not recorded yet, or of an entry that left
\* the queue during the conversation.
SaidOk(r) == \E s \in Slots : Unrecorded(s) /\ r \in Said(s, {"ok"})
Accounted(r) ==
  \/ rcpt[r].status = "delivered" \/ SaidOk(r)
  \/ env[EntryOf[r]].at \in {"removed", "canceled"} /\ r \notin claims.rcpts
CopiesAccounted ==
  \A r \in Rcpts : copies[r] <= excused[r] + (IF Accounted(r) THEN 1 ELSE 0)

\* A failure is reported only after it is recorded.
ReportsFailed == \A r \in Rcpts : dsn[r] > 0 => rcpt[r].status = "failed"

\* The inductive invariant.
Inv ==
  /\ TypeOK /\ OneConversation /\ ScanFresh /\ JobsOwn
  /\ EvidenceKept /\ ReportsFailed /\ CopiesAccounted

(***************************************************************************)
(* What the actions leave alone.                                           *)
(***************************************************************************)
\* No conversation begins, is recorded or ends, and nobody in conversation
\* gets a verdict.
Quiet ==
  /\ UNCHANGED <<conv, claims, slot>> /\ (pc = "after" <=> pc' = "after")
  /\ \A r \in claims.rcpts : rcpt'[r].status = rcpt[r].status

StatusKept == \A r \in Rcpts : rcpt'[r].status = rcpt[r].status

\* Three actions give verdicts: QueueEntry, FinishExpire and Record.
LEMMA StatusCases ==
  ASSUME TypeOK, Next
  PROVE  \/ StatusKept \/ FinishExpire
         \/ \E q \in agenda.queue : QueueEntry(q)
         \/ \E s \in Slots : Record(s)
<1> USE DEF StatusKept, diskVars
<1>1. rcpt \in [Rcpts -> RecipientState]
  BY DEF TypeOK, DiskType
<1>2. ASSUME UNCHANGED rcpt PROVE StatusKept
  BY <1>2
<1>3. ASSUME NEW i \in Ids, Submit(i) PROVE StatusKept
  BY <1>3, <1>2 DEF Submit
<1>4. ASSUME ScanBegin PROVE StatusKept
  BY <1>4, <1>2 DEF ScanBegin
<1>5. ASSUME ScanStep, ~\E q \in agenda.queue : QueueEntry(q) PROVE StatusKept
  BY <1>5, <1>2 DEF ScanStep, WriteWaiting, ScanOverdue, ScanLoad, QueueEntryError, ScanEnd
<1>6. ASSUME FillStep PROVE StatusKept
  BY <1>6, <1>2 DEF FillStep, DropHeldJob, DropStaleJob, StartJob, FillEnd
<1>7. ASSUME ReportRefused PROVE StatusKept
  BY <1>1, <1>7 DEF ReportRefused, RefusedReport, RecipientState
<1>8. ASSUME MarkReported PROVE StatusKept
  BY <1>1, <1>8 DEF MarkReported, RecipientState
<1>9. ASSUME FinishStep, ~FinishExpire PROVE StatusKept
  BY <1>9, <1>7, <1>8, <1>2
     DEF FinishStep, FinishGone, FinishFault, NoReport, SendReport, Settle, Unlink
<1>10. ASSUME AfterConversation PROVE StatusKept
  BY <1>10, <1>2 DEF AfterConversation
<1>11. ASSUME NEW s \in Slots, Remote(s) PROVE StatusKept
  BY <1>11, <1>2 DEF Remote, Answer, AnswerLost
<1>12. ASSUME NEW s \in Slots, RecordGone(s) \/ RecordFault(s) PROVE StatusKept
  BY <1>12, <1>2 DEF RecordGone, RecordFault
<1>13. ASSUME NEW d \in Dests, OpReleaseDestination(d) PROVE StatusKept
  BY <1>1, <1>13 DEF OpReleaseDestination, ReleasedStates, RecipientState
<1>14. ASSUME Operator PROVE StatusKept
  BY <1>14, <1>13, <1>2 DEF Operator, OpHold, OpRelease, OpRetry, OpRemove
<1>15. ASSUME Removal PROVE StatusKept
  BY <1>15, <1>2 DEF Removal, OpCancel, OpUnconfirmed, OpRefused, OpUnlink, OpDie
<1>16. ASSUME Crash \/ Restart \/ Tick PROVE StatusKept
  BY <1>16, <1>2 DEF Crash, Restart, Tick
<1> QED
  BY <1>3, <1>4, <1>5, <1>6, <1>9, <1>10, <1>11, <1>12, <1>14, <1>15, <1>16
     DEF Next, WorkerStep, Complete

\* Which actions are not quiet.
LEMMA QuietCases ==
  ASSUME TypeOK, Next
  PROVE  \/ Quiet \/ AfterConversation \/ Crash
         \/ \E j \in waiting, s \in Slots : StartJob(j, s)
         \/ \E s \in Slots : Complete(s)
<1> USE DEF Quiet, diskVars, taskVars, schedVars
<1>1. ASSUME UNCHANGED <<rcpt, conv, claims, slot>>, pc = "after" <=> pc' = "after" PROVE Quiet
  BY <1>1
<1>2. rcpt \in [Rcpts -> RecipientState] /\ claims.rcpts \subseteq Rcpts
  BY DEF TypeOK, DiskType, SchedType, ClaimState
<1>3. ASSUME StatusKept, UNCHANGED <<conv, claims, slot>>, pc = "after" <=> pc' = "after" PROVE Quiet
  BY <1>2, <1>3 DEF StatusKept
<1>4. ret # "after"
  BY DEF TypeOK, TaskType
<1>5. ASSUME NEW i \in Ids, Submit(i) PROVE Quiet
  BY <1>1, <1>5 DEF Submit
<1>6. ASSUME ScanBegin PROVE Quiet
  BY <1>1, <1>6 DEF ScanBegin
<1>7. ASSUME NEW q \in agenda.queue, QueueEntry(q) PROVE Quiet
  BY <1>2, <1>7 DEF QueueEntry, FailedWithout, Skipped, Refused, Free
<1>8. ASSUME ScanStep PROVE Quiet
  BY <1>1, <1>7, <1>8 DEF ScanStep, WriteWaiting, ScanOverdue, ScanLoad, QueueEntryError, ScanEnd
<1>9. ASSUME FillStep, ~\E j \in waiting, s \in Slots : StartJob(j, s) PROVE Quiet
  BY <1>1, <1>9 DEF FillStep, DropHeldJob, DropStaleJob, FillEnd, JobEnded
<1>10. ASSUME FinishExpire PROVE Quiet
  BY <1>2, <1>10 DEF FinishExpire, ExpireStates, Expired, GoTo
<1>11. ASSUME ReportRefused \/ MarkReported PROVE Quiet
  <2>1. StatusKept
    BY <1>2, <1>11 DEF ReportRefused, MarkReported, RefusedReport, RecipientState, StatusKept
  <2> QED BY <2>1, <1>3, <1>11 DEF ReportRefused, MarkReported, GoTo
<1>12. ASSUME FinishStep PROVE Quiet
  BY <1>1, <1>4, <1>10, <1>11, <1>12
     DEF FinishStep, FinishGone, FinishFault, NoReport, SendReport, Settle, Unlink, Return, GoTo
<1>13. ASSUME NEW s \in Slots, Remote(s) PROVE Quiet
  BY <1>1, <1>13 DEF Remote, Answer, AnswerLost
<1>14. ASSUME NEW d \in Dests, OpReleaseDestination(d) PROVE Quiet
  <2>1. StatusKept
    BY <1>2, <1>14 DEF OpReleaseDestination, ReleasedStates, RecipientState, StatusKept
  <2> QED BY <2>1, <1>3, <1>14 DEF OpReleaseDestination
<1>15. ASSUME Operator PROVE Quiet
  BY <1>1, <1>14, <1>15 DEF Operator, OpHold, OpRelease, OpRetry, OpRemove
<1>16. ASSUME Removal PROVE Quiet
  BY <1>1, <1>16 DEF Removal, OpCancel, OpUnconfirmed, OpRefused, OpUnlink, OpDie
<1>17. ASSUME Restart \/ Tick PROVE Quiet
  BY <1>1, <1>17 DEF Restart, Tick
<1> QED
  BY <1>5, <1>6, <1>8, <1>9, <1>12, <1>13, <1>15, <1>16, <1>17 DEF Next, WorkerStep

\* Nothing is forgotten: what the log holds or an envelope notes as owed to
\* it is in one of the two ever after.
LEMMA EvidenceGrows ==
  ASSUME Next
  PROVE  owed \cup evLog \subseteq owed' \cup evLog'
<1> DEFINE Grows == owed \cup evLog \subseteq owed' \cup evLog'
<1> USE DEF diskVars
<1>1. ASSUME UNCHANGED <<owed, evLog>> PROVE Grows
  BY <1>1
<1>2. ASSUME NEW recs, NEW noted, RecordOutcomes(recs, noted), owed \subseteq noted PROVE Grows
  BY <1>2, RecordOutcomesKeeps
<1>3. ASSUME NEW i \in Ids, Submit(i) PROVE Grows
  BY <1>1, <1>3 DEF Submit
<1>4. ASSUME NEW i \in Ids, WriteWaiting(i) PROVE Grows
  BY <1>2, <1>4 DEF WriteWaiting
<1>5. ASSUME NEW q \in agenda.queue, QueueEntry(q) PROVE Grows
  BY <1>2, <1>5 DEF QueueEntry
<1>6. ASSUME ScanBegin \/ ScanStep PROVE Grows
  BY <1>1, <1>4, <1>5, <1>6 DEF ScanBegin, ScanStep, ScanOverdue, ScanLoad, QueueEntryError, ScanEnd
<1>7. ASSUME FillStep PROVE Grows
  BY <1>1, <1>7 DEF FillStep, DropHeldJob, DropStaleJob, StartJob, FillEnd
<1>8. ASSUME FinishExpire PROVE Grows
  BY <1>2, <1>8 DEF FinishExpire
<1>9. ASSUME FinishStep PROVE Grows
  BY <1>1, <1>8, <1>9 DEF FinishStep, FinishGone, FinishFault, NoReport, SendReport, ReportRefused,
                          MarkReported, Settle, Unlink
<1>10. ASSUME AfterConversation PROVE Grows
  BY <1>2, <1>10 DEF AfterConversation
<1>11. ASSUME NEW s \in Slots, Remote(s) \/ Complete(s) PROVE Grows
  BY <1>11 DEF Remote, Answer, AnswerLost, Complete, Record, RecordGone, RecordFault
<1>12. ASSUME Operator PROVE Grows
  BY <1>1, <1>12 DEF Operator, OpHold, OpRelease, OpRetry, OpRemove, OpReleaseDestination
<1>13. ASSUME Removal PROVE Grows
  BY <1>13 DEF Removal, OpCancel, OpUnconfirmed, OpRefused, OpUnlink, OpDie
<1>14. ASSUME Crash \/ Restart \/ Tick PROVE Grows
  BY <1>1, <1>14 DEF Crash, Restart, Tick
<1> QED
  BY <1>3, <1>6, <1>7, <1>9, <1>10, <1>11, <1>12, <1>13, <1>14 DEF Next, WorkerStep

\* A submitted entry stays submitted and one that left does not come back.
Gone == {"removed", "canceled"}
NoReturn == \A i \in Ids : /\ env[i].at # "absent" => env'[i].at # "absent"
                           /\ env[i].at \in Gone => env'[i].at \in Gone

\* No action, of the worker, of an operator or after a crash, brings back an
\* entry remove_with took out of the spool.
LEMMA EntriesDoNotReturn ==
  ASSUME TypeOK, Next
  PROVE  NoReturn
<1> USE DEF NoReturn, Gone, diskVars
<1>1. ASSUME UNCHANGED env PROVE NoReturn
  BY <1>1
<1>2. /\ env \in [Ids -> Envelope]
      /\ \A e \in Envelope : HoldForRemoval(e).at = e.at
  BY DEF TypeOK, DiskType, HoldForRemoval, Envelope
<1>3. ASSUME NEW i \in Ids, Submit(i) PROVE NoReturn
  BY <1>2, <1>3 DEF Submit, Envelope
<1>4. ASSUME NEW i \in Ids, WriteWaiting(i) PROVE NoReturn
  BY <1>2, <1>4 DEF WriteWaiting
<1>5. ASSUME NEW q \in agenda.queue, QueueEntry(q) PROVE NoReturn
  BY <1>2, <1>5 DEF QueueEntry, Envelope
<1>6. ASSUME ScanBegin \/ ScanStep PROVE NoReturn
  BY <1>1, <1>4, <1>5, <1>6 DEF ScanBegin, ScanStep, ScanOverdue, ScanLoad, QueueEntryError, ScanEnd
<1>7. ASSUME FillStep PROVE NoReturn
  BY <1>1, <1>7 DEF FillStep, DropHeldJob, DropStaleJob, StartJob, FillEnd
<1>8. ASSUME FinishExpire PROVE NoReturn
  BY <1>2, <1>8 DEF FinishExpire, Envelope
<1>9. ASSUME Settle PROVE NoReturn
  <2>1. CASE env' = [env EXCEPT ![cur] = HoldForRemoval(@)]
    BY <1>2, <2>1
  <2>2. CASE ~MayRemove(cur)
    BY <1>2, <1>9, <2>2 DEF Settle, Envelope
  <2> QED BY <1>9, <2>1, <2>2 DEF Settle
<1>10. ASSUME Unlink PROVE NoReturn
  BY <1>2, <1>10 DEF Unlink, Envelope
<1>11. ASSUME FinishStep PROVE NoReturn
  BY <1>1, <1>8, <1>9, <1>10, <1>11
     DEF FinishStep, FinishGone, FinishFault, NoReport, SendReport, ReportRefused, MarkReported
<1>12. ASSUME AfterConversation PROVE NoReturn
  BY <1>1, <1>12 DEF AfterConversation
<1>13. ASSUME NEW s \in Slots, Record(s) PROVE NoReturn
  BY <1>2, <1>13 DEF Record, Envelope
<1>14. ASSUME NEW s \in Slots, Remote(s) \/ Complete(s) PROVE NoReturn
  BY <1>1, <1>13, <1>14 DEF Remote, Answer, AnswerLost, Complete, RecordGone, RecordFault
<1>15. ASSUME NEW i \in Ids, OpHold(i) \/ OpRelease(i) \/ OpRetry(i) \/ OpRemove(i) PROVE NoReturn
  <2>1. CASE OpRemove(i)
    BY <1>2, <2>1 DEF OpRemove
  <2> QED BY <1>2, <1>15, <2>1 DEF OpHold, OpRelease, OpRetry, Envelope
<1>16. ASSUME NEW d \in Dests, OpReleaseDestination(d) PROVE NoReturn
  BY <1>2, <1>16 DEF OpReleaseDestination, Envelope
<1>17. ASSUME OpRefused \/ OpUnlink PROVE NoReturn
  BY <1>2, <1>17 DEF OpRefused, OpUnlink, Envelope
<1>18. ASSUME Removal PROVE NoReturn
  BY <1>1, <1>17, <1>18 DEF Removal, OpCancel, OpUnconfirmed, OpDie
<1>19. ASSUME Crash \/ Restart \/ Tick PROVE NoReturn
  BY <1>1, <1>19 DEF Crash, Restart, Tick
<1> QED
  BY <1>3, <1>6, <1>7, <1>11, <1>12, <1>14, <1>15, <1>16, <1>18, <1>19
     DEF Next, WorkerStep, Operator

(***************************************************************************)
(* Verdicts.                                                               *)
(***************************************************************************)
\* Worker::record gives a verdict to the recipients the remote gave one.
LEMMA VerdictsOfRecord ==
  ASSUME TypeOK, NEW s \in Slots, Record(s), NEW r \in Rcpts, rcpt'[r].status # rcpt[r].status
  PROVE  r \in Said(s, {"ok", "refused", "bad"})
<1>1. rcpt[r] \in RecipientState
  BY DEF TypeOK, DiskType
<1>2. PICK w : rcpt' = Recorded(s, w)
  BY DEF Record
<1>3. SUFFICES ASSUME r \notin Said(s, {"ok", "refused", "bad"}) PROVE FALSE
  OBVIOUS
<1>4. r \notin Said(s, {"ok"}) /\ r \notin Said(s, {"refused", "bad"})
  BY <1>3 DEF Said
<1> QED BY <1>1, <1>2, <1>4 DEF Recorded, RecipientState

\* A verdict is final: the recorded answers are of recipients still pending,
\* what the scan fails is what it read as pending and still is, and expiry
\* takes pending recipients only.
LEMMA StatusFinalStep ==
  ASSUME TypeOK, OneConversation, ScanFresh, Next
  PROVE  \A r \in Rcpts : rcpt[r].status # "pending" => rcpt'[r].status = rcpt[r].status
<1> SUFFICES ASSUME NEW r \in Rcpts, rcpt[r].status # "pending"
             PROVE  rcpt'[r].status = rcpt[r].status
  OBVIOUS
<1>1. CASE StatusKept
  BY <1>1 DEF StatusKept
<1>2. CASE FinishExpire
  BY <1>2 DEF FinishExpire, ExpireStates, Expired, Pending, PendingIn
<1>3. ASSUME NEW q \in agenda.queue, QueueEntry(q) PROVE rcpt'[r].status = rcpt[r].status
  <2>1. r \notin q.due
    BY DEF ScanFresh, Pending, PendingIn
  <2> QED BY <1>3, <2>1 DEF QueueEntry, FailedWithout, Skipped, Refused, Free
<1>4. ASSUME NEW s \in Slots, Record(s) PROVE rcpt'[r].status = rcpt[r].status
  <2>1. s \in Talking /\ pc = "select"
    BY <1>4 DEF Record, Answered, Talking
  <2>2. r \notin conv[s].talk
    BY <2>1 DEF OneConversation
  <2> QED BY <1>4, <2>2, VerdictsOfRecord DEF Said
<1> QED BY <1>1, <1>2, <1>3, <1>4, StatusCases

(***************************************************************************)
(* Preservation of each part of the invariant.                             *)
(***************************************************************************)
\* A verdict of mandatory mail comes with its outcome record.
LEMMA EvidenceKeptStep ==
  ASSUME TypeOK, OneConversation, ScanFresh, EvidenceKept, Next
  PROVE  EvidenceKept'
<1> SUFFICES ASSUME NEW r \in Rcpts, EntryOf[r] \in Mandatory, rcpt'[r].status # "pending"
             PROVE  \E k \in Kinds : <<r, k>> \in owed' \cup evLog'
  BY DEF EvidenceKept
<1>1. CASE rcpt[r].status # "pending"
  BY <1>1, EvidenceGrows DEF EvidenceKept
<1>2. CASE rcpt[r].status = "pending"
  <2>1. CASE StatusKept
    BY <1>2, <2>1 DEF StatusKept
  <2>2. CASE FinishExpire
    <3> DEFINE recs == OutcomesOf(Expired(cur), "expired")
    <3>1. r \in Expired(cur)
      BY <1>2, <2>2 DEF FinishExpire, ExpireStates
    <3>2. <<r, "expired">> \in recs
      BY <3>1 DEF OutcomesOf
    <3>3. RecordOutcomes(recs, owed \cup recs)
      BY <2>2 DEF FinishExpire
    <3>4. owed \cup recs \cup evLog \subseteq owed' \cup evLog'
      BY <3>3, RecordOutcomesKeeps
    <3> QED BY <3>2, <3>4 DEF Kinds
  <2>3. ASSUME NEW q \in agenda.queue, QueueEntry(q)
        PROVE  \E k \in Kinds : <<r, k>> \in owed' \cup evLog'
    <3> DEFINE recs == OutcomesOf(Skipped(q), "suppressed") \cup OutcomesOf(Refused(q), "bounced")
    <3>1. r \in Skipped(q) \cup Refused(q)
      BY <1>2, <2>3 DEF QueueEntry, FailedWithout
    <3>2. <<r, "suppressed">> \in recs \/ <<r, "bounced">> \in recs
      BY <3>1 DEF OutcomesOf
    <3>3. RecordOutcomes(recs, owed \cup recs)
      BY <2>3 DEF QueueEntry
    <3>4. owed \cup recs \cup evLog \subseteq owed' \cup evLog'
      BY <3>3, RecordOutcomesKeeps
    <3> QED BY <3>2, <3>4 DEF Kinds
  <2>4. ASSUME NEW s \in Slots, Record(s)
        PROVE  \E k \in Kinds : <<r, k>> \in owed' \cup evLog'
    <3>1. r \in Said(s, {"ok", "refused", "bad"})
      BY <1>2, <2>4, VerdictsOfRecord
    <3>2. <<r, "delivered">> \in Intended(s) \/ <<r, "bounced">> \in Intended(s)
      BY <3>1 DEF Intended, OutcomesOf, Said
    <3> QED BY <2>4, <3>2 DEF Record, Kinds
  <2> QED BY <2>1, <2>2, <2>3, <2>4, StatusCases
<1> QED BY <1>1, <1>2

\* A conversation that ends takes its claim and nobody else's.
LEMMA EndKeepsConversations ==
  ASSUME TypeOK, OneConversation, NEW s \in Slots, conv[s] # NoTalk, EndConversation(s),
         StatusKept, pc = "after" => slot = s
  PROVE  OneConversation'
<1>1. conv \in [Slots -> Talk \cup {NoTalk}] /\ claims \in ClaimState /\ rcpt \in [Rcpts -> RecipientState]
  BY DEF TypeOK, SchedType, DiskType
<1>2. conv' = [conv EXCEPT ![s] = NoTalk] /\ claims' = DropClaim(s) /\ pc' # "after"
  BY DEF EndConversation, JobEnded
<1>3. claims'.rcpts = claims.rcpts \ conv[s].claimed
  BY <1>2 DEF DropClaim
<1>4. SUFFICES ASSUME NEW t \in Talking'
               PROVE  /\ \A u \in Talking' : t # u => conv'[t].claimed \cap conv'[u].claimed = {}
                      /\ conv'[t].talk \subseteq conv'[t].claimed
                      /\ conv'[t].claimed \subseteq claims'.rcpts
                      /\ \A r \in conv'[t].talk : rcpt'[r].status = "pending"
  BY DEF OneConversation
<1>5. Talking' = Talking \ {s} /\ \A u \in Talking' : conv'[u] = conv[u]
  BY <1>1, <1>2 DEF Talking
<1>6. s \in Talking /\ t \in Talking /\ t # s /\ conv[t] \in Talk /\ conv[t].talk \subseteq Rcpts
  BY <1>1, <1>5 DEF Talking, Talk
<1>7. \A r \in conv[t].talk : rcpt'[r].status = rcpt[r].status
  BY <1>6 DEF StatusKept
<1> QED BY <1>3, <1>5, <1>6, <1>7 DEF OneConversation

\* No recipient is in two conversations, and one in conversation is pending.
LEMMA OneConversationStep ==
  ASSUME TypeOK, OneConversation, ScanFresh, Next
  PROVE  OneConversation'
<1>1. /\ conv \in [Slots -> Talk \cup {NoTalk}] /\ claims \in ClaimState
      /\ rcpt \in [Rcpts -> RecipientState] /\ NoTalk \notin Talk
  BY ConstantsAssumption DEF TypeOK, SchedType, DiskType
<1>2. CASE Quiet
  <2>1. \A s \in Talking : conv[s].talk \subseteq claims.rcpts
    BY DEF OneConversation
  <2> QED BY <1>2, <2>1 DEF OneConversation, Quiet, Talking
<1>3. CASE AfterConversation
  <2>1. conv[slot] # NoTalk /\ slot \in Slots /\ pc = "after"
    BY <1>1, <1>3 DEF AfterConversation, TypeOK, TaskType
  <2>2. StatusKept /\ EndConversation(slot)
    BY <1>3 DEF AfterConversation, StatusKept
  <2> QED BY <2>1, <2>2, EndKeepsConversations
<1>4. CASE Crash
  BY <1>4 DEF Crash, OneConversation, Talking
<1>5. ASSUME NEW j \in waiting, NEW s \in Slots, StartJob(j, s) PROVE OneConversation'
  <2>1. /\ conv[s] = NoTalk /\ pc' = pc /\ pc = "fill" /\ rcpt' = rcpt
        /\ claims'.rcpts = claims.rcpts \cup j.rcpts
        /\ \A t \in Slots : t # s => conv'[t] = conv[t]
    BY <1>1, <1>5 DEF StartJob, TakeClaim, diskVars
  <2>2. /\ conv'[s].claimed = j.rcpts \ claims.rcpts /\ conv'[s].talk = ToSend(j)
    BY <1>1, <1>5 DEF StartJob
  <2>3. \A t \in Talking' : t # s => t \in Talking
    BY <2>1 DEF Talking
  <2>4. /\ ToSend(j) \subseteq j.rcpts \ claims.rcpts
        /\ \A r \in ToSend(j) : rcpt[r].status = "pending"
    BY DEF ToSend
  <2> QED BY <2>1, <2>2, <2>3, <2>4 DEF OneConversation, Talking
<1>6. ASSUME NEW s \in Slots, Record(s) PROVE OneConversation'
  <2>1. UNCHANGED <<conv, claims>> /\ pc' = "after" /\ slot' = s /\ pc = "select" /\ s \in Talking
    BY <1>6 DEF Record, Answered, Talking
  <2>2. ASSUME NEW t \in Talking, t # s, NEW r \in conv[t].talk PROVE rcpt'[r].status = "pending"
    <3>1. r \notin conv[s].talk /\ r \in Rcpts
      BY <1>1, <2>1, <2>2 DEF OneConversation, Talking, Talk
    <3>2. rcpt'[r].status = rcpt[r].status
      BY <1>6, <3>1, VerdictsOfRecord DEF Said
    <3> QED BY <2>1, <2>2, <3>2 DEF OneConversation
  <2> QED BY <2>1, <2>2 DEF OneConversation, Talking
<1>7. ASSUME NEW s \in Slots, RecordGone(s) \/ RecordFault(s) PROVE OneConversation'
  <2>1. conv[s] # NoTalk /\ pc = "select" /\ StatusKept /\ EndConversation(s)
    BY <1>7 DEF RecordGone, RecordFault, Answered, StatusKept, diskVars
  <2> QED BY <2>1, EndKeepsConversations
<1> QED BY <1>2, <1>3, <1>4, <1>5, <1>6, <1>7, QuietCases DEF Complete

\* What the scan read stays true: the task settles other entries only, and
\* nobody else gives verdicts while it scans.
LEMMA ScanFreshStep ==
  ASSUME TypeOK, OneConversation, ScanFresh, Next
  PROVE  ScanFresh'
<1> USE DEF Settling
<1>1. ASSUME agenda'.queue = {} PROVE ScanFresh'
  BY <1>1 DEF ScanFresh
<1>2. ASSUME StatusKept, agenda'.queue \subseteq agenda.queue, agenda'.finish \subseteq agenda.finish,
             \/ pc' = "scan"
             \/ pc' \in Settling /\ ret' = "scan" /\ \A q \in agenda'.queue : cur' # q.id
      PROVE  ScanFresh'
  BY <1>2 DEF ScanFresh, StatusKept, Pending, PendingIn, RcptsOf
<1>3. ASSUME agenda.queue = {}, UNCHANGED agenda PROVE ScanFresh'
  BY <1>1, <1>3
<1>4. ASSUME pc \notin Settling, pc # "scan" PROVE agenda.queue = {}
  BY <1>4 DEF ScanFresh
<1>5. ASSUME StatusKept, UNCHANGED <<agenda, pc, ret, cur>> PROVE ScanFresh'
  BY <1>5 DEF ScanFresh, StatusKept, Pending, PendingIn, RcptsOf
<1>6. ASSUME StatusKept, UNCHANGED agenda, pc \in Settling, Return PROVE ScanFresh'
  <2>1. CASE agenda.queue = {}
    BY <1>3, <1>6, <2>1
  <2>2. CASE agenda.queue # {}
    <3>1. pc' = "scan"
      BY <1>6, <2>2 DEF ScanFresh, Return
    <3> QED BY <1>2, <1>6, <3>1
  <2> QED BY <2>1, <2>2
<1>7. ASSUME StatusKept, UNCHANGED agenda, pc \in Settling, NEW p \in Settling, GoTo(p)
      PROVE  ScanFresh'
  BY <1>7 DEF ScanFresh, GoTo, StatusKept, Pending, PendingIn, RcptsOf
<1>8. ASSUME NEW i \in Ids, Submit(i) PROVE ScanFresh'
  BY <1>5, <1>8 DEF Submit, taskVars, StatusKept
<1>9. ASSUME ScanBegin PROVE ScanFresh'
  BY <1>1, <1>9 DEF ScanBegin, NoAgenda
<1>10. ASSUME NEW i \in Ids, WriteWaiting(i) PROVE ScanFresh'
  <2>1. agenda'.queue = {}
    BY <1>4, <1>10 DEF WriteWaiting, TypeOK, TaskType, Agenda
  <2> QED BY <1>1, <2>1
<1>11. ASSUME ScanLoad PROVE ScanFresh'
  <2>1. /\ pc' = "scan" /\ rcpt' = rcpt
        /\ \A q \in agenda'.queue : q.due = Due(q.id) /\ q.id \notin agenda'.finish
        /\ \A q, p \in agenda'.queue : q.id = p.id => q = p
    BY <1>11 DEF ScanLoad, diskVars
  <2> QED BY <2>1 DEF ScanFresh, Due, Pending, PendingIn, RcptsOf
<1>12. ASSUME NEW i \in Ids, ScanOverdue(i) PROVE ScanFresh'
  <2>1. /\ agenda'.queue = agenda.queue /\ agenda'.finish \subseteq agenda.finish
        /\ pc' = "finish" /\ ret' = "scan" /\ cur' = i /\ i \in agenda.finish /\ StatusKept
    BY <1>12 DEF ScanOverdue, TypeOK, TaskType, Agenda, diskVars, StatusKept
  <2>2. \A q \in agenda'.queue : cur' # q.id
    BY <2>1 DEF ScanFresh
  <2> QED BY <1>2, <2>1, <2>2
<1>13. ASSUME NEW q \in agenda.queue, QueueEntry(q) PROVE ScanFresh'
  <2>1. /\ agenda'.queue = agenda.queue \ {q} /\ agenda'.finish = agenda.finish /\ pc = "scan"
        /\ pc' = "scan" \/ (pc' = "finish" /\ ret' = "scan" /\ cur' = q.id)
    BY <1>13 DEF QueueEntry, TypeOK, TaskType, Agenda
  <2>2. ASSUME NEW p \in agenda'.queue, NEW r \in p.due
        PROVE  r \in RcptsOf(p.id) /\ rcpt'[r].status = "pending"
    <3>1. p.id # q.id /\ r \in Pending(p.id)
      BY <2>1, <2>2 DEF ScanFresh
    <3>2. r \notin q.due /\ r \in RcptsOf(p.id) /\ rcpt[r].status = "pending" /\ r \in Rcpts
      BY <3>1 DEF ScanFresh, Pending, PendingIn, RcptsOf
    <3> QED BY <1>13, <3>2 DEF QueueEntry, FailedWithout, Skipped, Refused, Free
  <2>3. \A p \in agenda'.queue : p.due \subseteq Pending(p.id)'
    BY <2>2 DEF Pending, PendingIn, RcptsOf
  <2>4. \A p \in agenda'.queue : p \in agenda.queue /\ p.id # q.id
    BY <2>1 DEF ScanFresh
  <2> QED BY <2>1, <2>3, <2>4 DEF ScanFresh
<1>14. ASSUME NEW q \in agenda.queue, QueueEntryError(q) PROVE ScanFresh'
  <2>1. /\ agenda'.queue \subseteq agenda.queue /\ agenda'.finish = agenda.finish
        /\ pc' = "scan" /\ StatusKept
    BY <1>14 DEF QueueEntryError, TypeOK, TaskType, Agenda, diskVars, StatusKept
  <2> QED BY <1>2, <2>1
<1>15. ASSUME ScanEnd PROVE ScanFresh'
  BY <1>3, <1>15 DEF ScanEnd, taskVars
<1>16. ASSUME FillStep PROVE ScanFresh'
  <2>1. pc = "fill" /\ UNCHANGED agenda
    BY <1>16 DEF FillStep, DropHeldJob, DropStaleJob, StartJob, FillEnd, taskVars
  <2> QED BY <1>3, <1>4, <2>1
<1>17. ASSUME AfterConversation PROVE ScanFresh'
  <2>1. pc = "after" /\ UNCHANGED agenda
    BY <1>17 DEF AfterConversation
  <2> QED BY <1>3, <1>4, <2>1
<1>18. ASSUME NEW s \in Slots, Remote(s) \/ Complete(s) PROVE ScanFresh'
  <2>1. pc = "select" /\ UNCHANGED agenda
    BY <1>18 DEF Remote, Answer, AnswerLost, Complete, Record, RecordGone, RecordFault, Answered,
                 taskVars
  <2> QED BY <1>3, <1>4, <2>1
<1>19. ASSUME FinishGone \/ FinishFault \/ Unlink PROVE ScanFresh'
  BY <1>6, <1>19 DEF FinishGone, FinishFault, Unlink, diskVars, StatusKept
<1>20. ASSUME FinishExpire PROVE ScanFresh'
  <2>1. pc = "finish" /\ pc' = "report" /\ UNCHANGED <<agenda, ret, cur>>
    BY <1>20 DEF FinishExpire, GoTo
  <2>2. ASSUME NEW q \in agenda.queue, NEW r \in q.due
        PROVE  r \in RcptsOf(q.id) /\ rcpt'[r].status = "pending"
    <3>1. cur # q.id /\ r \in RcptsOf(q.id) /\ rcpt[r].status = "pending" /\ r \in Rcpts
      BY <2>1, <2>2 DEF ScanFresh, Pending, PendingIn, RcptsOf
    <3>2. r \notin Expired(cur)
      BY <3>1 DEF Expired, Pending, PendingIn, RcptsOf
    <3> QED BY <1>20, <3>1, <3>2 DEF FinishExpire, ExpireStates
  <2>3. \A q \in agenda.queue : q.due \subseteq Pending(q.id)'
    BY <2>2 DEF Pending, PendingIn, RcptsOf
  <2> QED BY <2>1, <2>3 DEF ScanFresh
<1>21. ASSUME NoReport \/ SendReport PROVE ScanFresh'
  BY <1>7, <1>21 DEF NoReport, SendReport, diskVars, StatusKept
<1>22. ASSUME ReportRefused \/ MarkReported PROVE ScanFresh'
  <2>1. rcpt \in [Rcpts -> RecipientState]
    BY DEF TypeOK, DiskType
  <2>2. StatusKept
    BY <1>22, <2>1 DEF ReportRefused, MarkReported, RefusedReport, RecipientState, StatusKept
  <2> QED BY <1>7, <1>22, <2>2 DEF ReportRefused, MarkReported
<1>23. ASSUME Settle PROVE ScanFresh'
  BY <1>6, <1>7, <1>23 DEF Settle, StatusKept
<1>24. ASSUME Operator PROVE ScanFresh'
  <2>1. rcpt \in [Rcpts -> RecipientState]
    BY DEF TypeOK, DiskType
  <2>2. StatusKept
    BY <1>24, <2>1 DEF Operator, OpHold, OpRelease, OpRetry, OpRemove, OpReleaseDestination,
                       ReleasedStates, RecipientState, StatusKept
  <2> QED BY <1>5, <1>24, <2>2 DEF Operator, OpHold, OpRelease, OpRetry, OpRemove,
                                   OpReleaseDestination, taskVars
<1>25. ASSUME Removal PROVE ScanFresh'
  BY <1>5, <1>25 DEF Removal, OpCancel, OpUnconfirmed, OpRefused, OpUnlink, OpDie, diskVars,
                     taskVars, StatusKept
<1>26. ASSUME Crash PROVE ScanFresh'
  BY <1>1, <1>26 DEF Crash, NoAgenda
<1>27. ASSUME Restart \/ Tick PROVE ScanFresh'
  BY <1>3, <1>4, <1>27 DEF Restart, Tick, taskVars
<1> QED
  BY <1>8, <1>9, <1>10, <1>11, <1>12, <1>13, <1>14, <1>15, <1>16, <1>17, <1>18, <1>19, <1>20,
     <1>21, <1>22, <1>23, <1>24, <1>25, <1>26, <1>27
     DEF Next, WorkerStep, ScanStep, FinishStep

\* A conversation's end adds at most a job of recipients it had.
LEMMA EndKeepsJobs ==
  ASSUME TypeOK, OneConversation, JobsOwn, NoReturn, NEW s \in Slots, conv[s] # NoTalk,
         EndConversation(s)
  PROVE  JobsOwn'
<1>1. conv \in [Slots -> Talk \cup {NoTalk}] /\ s \in Talking
  BY DEF TypeOK, SchedType, Talking
<1>2. conv[s] \in Talk /\ conv[s].job \in Job
  BY <1>1 DEF Talking, Talk
<1>3. RetryNow(s) \subseteq RcptsOf(conv[s].job.id)
  <2>1. RetryNow(s) \subseteq conv[s].talk
    BY DEF RetryNow, Said
  <2> QED BY <1>1, <2>1 DEF OneConversation, JobsOwn
<1>4. [conv[s].job EXCEPT !.rcpts = RetryNow(s)].id = conv[s].job.id
  BY <1>2 DEF Job
<1>5. [conv[s].job EXCEPT !.rcpts = RetryNow(s)].rcpts = RetryNow(s)
  BY <1>2 DEF Job
<1>6. waiting' \subseteq waiting \cup {[conv[s].job EXCEPT !.rcpts = RetryNow(s)]}
  BY DEF EndConversation, JobEnded
<1>7. \A j \in waiting' : j.rcpts \subseteq RcptsOf(j.id)
  BY <1>3, <1>4, <1>5, <1>6 DEF JobsOwn
<1>8. \A t \in Talking' : t \in Talking /\ conv'[t] = conv[t] /\ conv[t].job.id \in Ids
  BY <1>1 DEF EndConversation, Talking, Talk, Job
<1> QED BY <1>7, <1>8 DEF JobsOwn, NoReturn, RcptsOf

\* Jobs carry recipients of their own entry.
LEMMA JobsOwnStep ==
  ASSUME TypeOK, OneConversation, ScanFresh, JobsOwn, Next
  PROVE  JobsOwn'
<1>1. NoReturn
  BY EntriesDoNotReturn
<1>2. /\ conv \in [Slots -> Talk \cup {NoTalk}] /\ waiting \subseteq Job
      /\ NoTalk \notin Talk
  BY ConstantsAssumption DEF TypeOK, SchedType
<1>3. \A s \in Talking : conv[s].job.id \in Ids
  BY <1>2 DEF Talking, Talk, Job
<1>4. ASSUME UNCHANGED conv, waiting' \subseteq waiting PROVE JobsOwn'
  BY <1>1, <1>3, <1>4 DEF JobsOwn, NoReturn, Talking, RcptsOf
<1>5. ASSUME NEW q \in agenda.queue, QueueEntry(q) PROVE JobsOwn'
  <2>1. Sendable(q) \subseteq RcptsOf(q.id)
    BY DEF ScanFresh, Sendable, Free, Pending, PendingIn
  <2>2. \A j \in JobsOf(q) : j.id = q.id /\ j.rcpts \subseteq Sendable(q)
    BY DEF JobsOf
  <2>3. waiting' = waiting \cup JobsOf(q) /\ conv' = conv
    BY <1>5 DEF QueueEntry
  <2>4. \A j \in waiting' : j.rcpts \subseteq RcptsOf(j.id)
    BY <2>1, <2>2, <2>3 DEF JobsOwn
  <2> QED BY <1>1, <1>3, <2>3, <2>4 DEF JobsOwn, NoReturn, Talking, RcptsOf
<1>6. ASSUME NEW j \in waiting, NEW s \in Slots, StartJob(j, s) PROVE JobsOwn'
  <2>1. /\ waiting' \subseteq waiting /\ env[j.id].at = "queued" /\ env' = env
        /\ conv'[s].job = j /\ conv'[s].claimed \subseteq j.rcpts
        /\ \A t \in Slots : t # s => conv'[t] = conv[t]
    BY <1>2, <1>6 DEF StartJob, Startable, Queued, diskVars
  <2> QED BY <2>1 DEF JobsOwn, Talking, RcptsOf
<1>7. ASSUME NEW i \in Ids, Submit(i) PROVE JobsOwn'
  BY <1>4, <1>7 DEF Submit, schedVars
<1>8. ASSUME ScanBegin \/ ScanStep PROVE JobsOwn'
  BY <1>4, <1>5, <1>8 DEF ScanBegin, ScanStep, WriteWaiting, ScanOverdue, ScanLoad, QueueEntryError,
                          ScanEnd, schedVars
<1>9. ASSUME FillStep PROVE JobsOwn'
  BY <1>4, <1>6, <1>9 DEF FillStep, DropHeldJob, DropStaleJob, FillEnd, JobEnded, schedVars
<1>10. ASSUME FinishStep PROVE JobsOwn'
  BY <1>4, <1>10 DEF FinishStep, FinishGone, FinishFault, FinishExpire, NoReport, SendReport,
                     ReportRefused, MarkReported, Settle, Unlink, schedVars
<1>11. ASSUME AfterConversation PROVE JobsOwn'
  <2>1. conv[slot] # NoTalk /\ slot \in Slots
    BY <1>2, <1>11 DEF AfterConversation, TypeOK, TaskType
  <2> QED BY <1>1, <1>11, <2>1, EndKeepsJobs DEF AfterConversation
<1>12. ASSUME NEW s \in Slots, Remote(s) \/ Record(s) PROVE JobsOwn'
  BY <1>4, <1>12 DEF Remote, Answer, AnswerLost, Record
<1>13. ASSUME NEW s \in Slots, RecordGone(s) \/ RecordFault(s) PROVE JobsOwn'
  BY <1>1, <1>13, EndKeepsJobs DEF RecordGone, RecordFault, Answered
<1>14. ASSUME Operator PROVE JobsOwn'
  BY <1>4, <1>14 DEF Operator, OpHold, OpRelease, OpRetry, OpRemove, OpReleaseDestination, schedVars
<1>15. ASSUME Removal PROVE JobsOwn'
  BY <1>4, <1>15 DEF Removal, OpCancel, OpUnconfirmed, OpRefused, OpUnlink, OpDie, schedVars
<1>16. ASSUME Crash PROVE JobsOwn'
  BY <1>16 DEF Crash, JobsOwn, Talking
<1>17. ASSUME Restart \/ Tick PROVE JobsOwn'
  BY <1>4, <1>17 DEF Restart, Tick, schedVars
<1> QED
  BY <1>7, <1>8, <1>9, <1>10, <1>11, <1>12, <1>13, <1>14, <1>15, <1>16, <1>17
     DEF Next, WorkerStep, Complete

\* Only SendReport reports, and it reports failures.
LEMMA ReportsFailedStep ==
  ASSUME TypeOK, OneConversation, ScanFresh, ReportsFailed, Next
  PROVE  ReportsFailed'
<1>1. \A r \in Rcpts : rcpt[r].status # "pending" => rcpt'[r].status = rcpt[r].status
  BY StatusFinalStep
<1>2. ASSUME UNCHANGED dsn PROVE ReportsFailed'
  BY <1>1, <1>2 DEF ReportsFailed
<1>3. ASSUME SendReport PROVE ReportsFailed'
  <2>1. rcpt' = rcpt /\ dsn \in [Rcpts -> Nat]
    BY <1>3 DEF SendReport, diskVars, TypeOK, WorldType
  <2>2. \A r \in Rcpts : dsn'[r] = dsn[r] \/ r \in Unreported(cur)
    BY <1>3, <2>1 DEF SendReport
  <2> QED BY <2>1, <2>2 DEF ReportsFailed, Unreported
<1>4. ASSUME FinishStep PROVE ReportsFailed'
  BY <1>2, <1>3, <1>4 DEF FinishStep, FinishGone, FinishFault, FinishExpire, NoReport,
                          ReportRefused, MarkReported, Settle, Unlink, histVars
<1>5. ASSUME ~FinishStep PROVE UNCHANGED dsn
  <2>1. ASSUME NEW i \in Ids, Submit(i) PROVE UNCHANGED dsn
    BY <2>1 DEF Submit, histVars
  <2>2. ASSUME ScanBegin \/ ScanStep PROVE UNCHANGED dsn
    BY <2>2 DEF ScanBegin, ScanStep, WriteWaiting, ScanOverdue, ScanLoad, QueueEntry,
                QueueEntryError, ScanEnd, histVars
  <2>3. ASSUME FillStep \/ AfterConversation PROVE UNCHANGED dsn
    BY <2>3 DEF FillStep, DropHeldJob, DropStaleJob, StartJob, FillEnd, AfterConversation, histVars
  <2>4. ASSUME NEW s \in Slots, Remote(s) \/ Complete(s) PROVE UNCHANGED dsn
    BY <2>4 DEF Remote, Answer, AnswerLost, Complete, Record, RecordGone, RecordFault, histVars
  <2>5. ASSUME Operator \/ Removal PROVE UNCHANGED dsn
    BY <2>5 DEF Operator, OpHold, OpRelease, OpRetry, OpRemove, OpReleaseDestination, Removal,
                OpCancel, OpUnconfirmed, OpRefused, OpUnlink, OpDie, histVars
  <2>6. ASSUME Crash \/ Restart \/ Tick PROVE UNCHANGED dsn
    BY <2>6 DEF Crash, Restart, Tick, histVars
  <2> QED BY <1>5, <2>1, <2>2, <2>3, <2>4, <2>5, <2>6 DEF Next, WorkerStep
<1> QED BY <1>2, <1>4, <1>5

\* Who touches the copies and the answers.
LEMMA AnswerCases ==
  ASSUME Next
  PROVE  \/ UNCHANGED <<copies, excused, answer>>
         \/ AfterConversation \/ Crash
         \/ \E s \in Slots : Remote(s) \/ RecordGone(s) \/ RecordFault(s)
<1> USE DEF histVars, schedVars
<1>1. ASSUME NEW i \in Ids, Submit(i) PROVE UNCHANGED <<copies, excused, answer>>
  BY <1>1 DEF Submit
<1>2. ASSUME ScanBegin \/ ScanStep PROVE UNCHANGED <<copies, excused, answer>>
  BY <1>2 DEF ScanBegin, ScanStep, WriteWaiting, ScanOverdue, ScanLoad, QueueEntry, QueueEntryError,
              ScanEnd
<1>3. ASSUME FillStep PROVE UNCHANGED <<copies, excused, answer>>
  BY <1>3 DEF FillStep, DropHeldJob, DropStaleJob, StartJob, FillEnd
<1>4. ASSUME FinishStep PROVE UNCHANGED <<copies, excused, answer>>
  BY <1>4 DEF FinishStep, FinishGone, FinishFault, FinishExpire, NoReport, SendReport,
              ReportRefused, MarkReported, Settle, Unlink
<1>5. ASSUME NEW s \in Slots, Record(s) PROVE UNCHANGED <<copies, excused, answer>>
  BY <1>5 DEF Record
<1>6. ASSUME Operator \/ Removal PROVE UNCHANGED <<copies, excused, answer>>
  BY <1>6 DEF Operator, OpHold, OpRelease, OpRetry, OpRemove, OpReleaseDestination, Removal,
              OpCancel, OpUnconfirmed, OpRefused, OpUnlink, OpDie
<1>7. ASSUME Restart \/ Tick PROVE UNCHANGED <<copies, excused, answer>>
  BY <1>7 DEF Restart, Tick
<1> QED BY <1>1, <1>2, <1>3, <1>4, <1>5, <1>6, <1>7 DEF Next, WorkerStep, Complete

\* A recipient in a conversation is in no other, so nobody else has its ok.
LEMMA OkInOwnTalk ==
  ASSUME OneConversation, NEW s \in Slots, NEW t \in Slots, conv[s] # NoTalk, Unrecorded(t),
         NEW r \in conv[s].talk, r \in Said(t, {"ok"})
  PROVE  t = s
<1>1. s \in Talking /\ t \in Talking
  BY DEF Talking, Unrecorded
<1> QED BY <1>1 DEF OneConversation, Said

\* Every accepted copy is accounted for.
LEMMA CopiesAccountedStep ==
  ASSUME TypeOK, OneConversation, ScanFresh, JobsOwn, CopiesAccounted, Next
  PROVE  CopiesAccounted'
<1>1. /\ \A r \in Rcpts : rcpt[r].status # "pending" => rcpt'[r].status = rcpt[r].status
      /\ NoReturn
  BY StatusFinalStep, EntriesDoNotReturn
<1>2. /\ conv \in [Slots -> Talk \cup {NoTalk}] /\ NoTalk \notin Talk
      /\ copies \in [Rcpts -> Nat] /\ excused \in [Rcpts -> Nat] /\ EntryOf \in [Rcpts -> Ids]
      /\ answer \in [Slots -> Answers] /\ claims \in ClaimState
  BY ConstantsAssumption DEF TypeOK, SchedType, WorldType
<1>3. ASSUME UNCHANGED <<copies, excused>>, \A r \in Rcpts : Accounted(r) => Accounted(r)'
      PROVE  CopiesAccounted'
  BY <1>2, <1>3 DEF CopiesAccounted
<1>4. ASSUME NEW r \in Rcpts, Accounted(r), SaidOk(r) => Accounted(r)', claims'.rcpts \subseteq claims.rcpts
      PROVE  Accounted(r)'
  BY <1>1, <1>2, <1>4 DEF Accounted, NoReturn, Gone
<1>5. CASE UNCHANGED <<copies, excused, answer>> /\ Quiet
  <2>1. ASSUME NEW r \in Rcpts, SaidOk(r) PROVE SaidOk(r)'
    BY <1>5, <2>1 DEF SaidOk, Quiet, Unrecorded, Said
  <2>2. ASSUME NEW r \in Rcpts, Accounted(r) PROVE Accounted(r)'
    BY <1>4, <1>5, <2>1, <2>2 DEF Quiet, Accounted
  <2> QED BY <1>3, <1>5, <2>2
<1>6. ASSUME NEW j \in waiting, NEW s \in Slots, StartJob(j, s) PROVE CopiesAccounted'
  <2>1. /\ conv[s] = NoTalk /\ pc' = pc /\ pc = "fill" /\ UNCHANGED <<rcpt, env, answer, copies, excused>>
        /\ claims'.rcpts = claims.rcpts \cup j.rcpts /\ env[j.id].at = "queued"
        /\ \A t \in Slots : t # s => conv'[t] = conv[t]
    BY <1>2, <1>6 DEF StartJob, Startable, Queued, TakeClaim, diskVars, histVars
  <2>2. ASSUME NEW r \in Rcpts, SaidOk(r) PROVE SaidOk(r)'
    BY <2>1, <2>2 DEF SaidOk, Unrecorded, Said
  <2>3. \A r \in j.rcpts : env[EntryOf[r]].at = "queued"
    BY <2>1 DEF JobsOwn, RcptsOf
  <2>4. ASSUME NEW r \in Rcpts, Accounted(r) PROVE Accounted(r)'
    BY <2>1, <2>2, <2>3, <2>4 DEF Accounted
  <2> QED BY <1>3, <2>1, <2>4
<1>7. ASSUME NEW s \in Slots, Record(s) PROVE CopiesAccounted'
  <2>1. UNCHANGED <<conv, claims, answer, copies, excused>> /\ pc' = "after" /\ slot' = s
        /\ pc = "select"
    BY <1>7 DEF Record, Answered, histVars
  <2>2. PICK w : rcpt' = Recorded(s, w)
    BY <1>7 DEF Record
  <2>3. ASSUME NEW r \in Rcpts, SaidOk(r) PROVE Accounted(r)'
    <3>1. PICK t \in Slots : Unrecorded(t) /\ r \in Said(t, {"ok"})
      BY <2>3 DEF SaidOk
    <3>2. CASE t = s
      <4>1. /\ r \in Said(s, {"ok"}) /\ r \notin Said(s, {"refused", "bad"})
            /\ r \notin RetryNow(s) /\ r \notin Said(s, {"deferred", "slow", "toomany"})
        BY <3>1, <3>2 DEF Said, RetryNow
      <4>2. rcpt'[r] = [rcpt[r] EXCEPT !.status = "delivered"]
        BY <2>2, <4>1 DEF Recorded
      <4> QED BY <4>2 DEF Accounted, TypeOK, DiskType, RecipientState
    <3>3. CASE t # s
      BY <2>1, <3>1, <3>3 DEF Accounted, SaidOk, Unrecorded, Said
    <3> QED BY <3>2, <3>3
  <2> QED BY <1>3, <1>4, <2>1, <2>3
<1>8. ASSUME AfterConversation PROVE CopiesAccounted'
  <2>1. /\ UNCHANGED <<copies, excused>> /\ pc = "after" /\ pc' # "after"
        /\ conv' = [conv EXCEPT ![slot] = NoTalk] /\ answer' = [answer EXCEPT ![slot] = NoAnswer]
        /\ claims'.rcpts \subseteq claims.rcpts
    BY <1>8 DEF AfterConversation, EndConversation, JobEnded, DropClaim, histVars
  <2>2. ASSUME NEW r \in Rcpts, SaidOk(r) PROVE SaidOk(r)'
    BY <1>2, <2>1, <2>2 DEF SaidOk, Unrecorded, Said
  <2> QED BY <1>3, <1>4, <2>1, <2>2 DEF Accounted
<1>9. ASSUME NEW s \in Slots, RecordGone(s) PROVE CopiesAccounted'
  <2>1. /\ UNCHANGED <<copies, excused, env>> /\ pc = "select" /\ pc' # "after"
        /\ conv' = [conv EXCEPT ![s] = NoTalk] /\ answer' = [answer EXCEPT ![s] = NoAnswer]
        /\ claims'.rcpts = claims.rcpts \ conv[s].claimed
        /\ env[conv[s].job.id].at # "queued" /\ s \in Talking
    BY <1>9 DEF RecordGone, EndConversation, JobEnded, DropClaim, histVars, Answered, Queued, Talking
  <2>2. ASSUME NEW r \in Rcpts, SaidOk(r) PROVE Accounted(r)'
    <3>1. PICK t \in Slots : Unrecorded(t) /\ r \in Said(t, {"ok"})
      BY <2>2 DEF SaidOk
    <3>2. CASE t = s
      <4>1. r \in conv[s].claimed /\ EntryOf[r] = conv[s].job.id
        BY <2>1, <3>1, <3>2 DEF Said, OneConversation, JobsOwn, RcptsOf
      <4>2. env[EntryOf[r]] \in Envelope /\ env[EntryOf[r]].at # "absent"
        BY <1>2, <2>1, <4>1 DEF JobsOwn, TypeOK, DiskType
      <4> QED BY <2>1, <4>1, <4>2 DEF Accounted, Envelope
    <3>3. CASE t # s
      BY <1>2, <2>1, <3>1, <3>3 DEF Accounted, SaidOk, Unrecorded, Said
    <3> QED BY <3>2, <3>3
  <2> QED BY <1>3, <1>4, <2>1, <2>2
<1>10. ASSUME NEW s \in Slots, RecordFault(s) PROVE CopiesAccounted'
  <2>1. /\ UNCHANGED <<copies, env, rcpt>> /\ pc = "select" /\ pc' # "after"
        /\ conv' = [conv EXCEPT ![s] = NoTalk] /\ answer' = [answer EXCEPT ![s] = NoAnswer]
        /\ claims'.rcpts \subseteq claims.rcpts
        /\ excused' = [r \in Rcpts |-> IF r \in Said(s, {"ok"}) THEN excused[r] + 1 ELSE excused[r]]
    BY <1>10 DEF RecordFault, EndConversation, JobEnded, DropClaim, diskVars, Answered
  <2>2. ASSUME NEW r \in Rcpts, r \notin Said(s, {"ok"}), Accounted(r) PROVE Accounted(r)'
    <3>1. ASSUME SaidOk(r) PROVE SaidOk(r)'
      BY <1>2, <2>1, <2>2, <3>1 DEF SaidOk, Unrecorded, Said
    <3> QED BY <1>4, <2>1, <2>2, <3>1 DEF Accounted
  <2>3. ASSUME NEW r \in Rcpts PROVE copies'[r] <= excused'[r] + (IF Accounted(r)' THEN 1 ELSE 0)
    <3>1. copies[r] \in Nat /\ excused[r] \in Nat /\ copies[r] <= excused[r] + (IF Accounted(r) THEN 1 ELSE 0)
      BY <1>2 DEF CopiesAccounted
    <3> QED BY <2>1, <2>2, <3>1
  <2> QED BY <2>3 DEF CopiesAccounted
<1>11. ASSUME NEW s \in Slots, Answer(s) PROVE CopiesAccounted'
  <2>1. PICK a \in [conv[s].talk -> Replies] :
          /\ answer' = [answer EXCEPT ![s] = [r \in Rcpts |-> IF r \in conv[s].talk THEN a[r] ELSE "none"]]
          /\ copies' = [r \in Rcpts |-> IF r \in conv[s].talk /\ a[r] = "ok"
                                        THEN copies[r] + 1 ELSE copies[r]]
    BY <1>11 DEF Answer
  <2>2. /\ UNCHANGED <<env, rcpt, conv, claims, excused, pc, slot>> /\ pc = "select"
        /\ conv[s] # NoTalk /\ answer[s] = NoAnswer /\ s \in Talking
    BY <1>11 DEF Answer, diskVars, taskVars, Talking
  <2>3. ASSUME NEW r \in Rcpts, SaidOk(r) PROVE SaidOk(r)'
    <3>1. PICK t \in Slots : Unrecorded(t) /\ r \in Said(t, {"ok"})
      BY <2>3 DEF SaidOk
    <3>2. t # s
      BY <2>2, <3>1 DEF Said, NoAnswer
    <3> QED BY <1>2, <2>1, <2>2, <3>1, <3>2 DEF SaidOk, Unrecorded, Said
  <2>4. ASSUME NEW r \in Rcpts, r \in conv[s].talk, a[r] = "ok" PROVE SaidOk(r)' /\ ~Accounted(r)
    <3>1. SaidOk(r)'
      BY <1>2, <2>1, <2>2, <2>4 DEF SaidOk, Unrecorded, Said, Answers
    <3>2. rcpt[r].status = "pending" /\ r \in claims.rcpts
      BY <2>2, <2>4 DEF OneConversation
    <3>3. ~SaidOk(r)
      BY <2>2, <2>4, OkInOwnTalk DEF SaidOk, Said, NoAnswer
    <3> QED BY <3>1, <3>2, <3>3 DEF Accounted
  <2>5. ASSUME NEW r \in Rcpts PROVE copies'[r] <= excused'[r] + (IF Accounted(r)' THEN 1 ELSE 0)
    <3>1. copies[r] \in Nat /\ excused[r] \in Nat /\ copies[r] <= excused[r] + (IF Accounted(r) THEN 1 ELSE 0)
      BY <1>2 DEF CopiesAccounted
    <3>2. CASE r \in conv[s].talk /\ a[r] = "ok"
      <4>1. Accounted(r)' /\ copies'[r] = copies[r] + 1 /\ excused'[r] = excused[r]
        BY <2>1, <2>2, <2>4, <3>2 DEF Accounted
      <4> QED BY <2>4, <3>1, <3>2, <4>1
    <3>3. CASE ~(r \in conv[s].talk /\ a[r] = "ok")
      <4>1. Accounted(r) => Accounted(r)'
        BY <2>2, <2>3 DEF Accounted
      <4>2. copies'[r] = copies[r] /\ excused'[r] = excused[r]
        BY <2>1, <2>2, <3>3
      <4> QED BY <3>1, <4>1, <4>2
    <3> QED BY <3>2, <3>3
  <2> QED BY <2>5 DEF CopiesAccounted
<1>12. ASSUME NEW s \in Slots, AnswerLost(s) PROVE CopiesAccounted'
  <2>1. /\ UNCHANGED <<env, rcpt, conv, claims, pc, slot>> /\ pc = "select"
        /\ conv[s] # NoTalk /\ answer[s] = NoAnswer
        /\ \A t \in Slots : t # s => answer'[t] = answer[t]
    BY <1>2, <1>12 DEF AnswerLost, diskVars, taskVars
  <2>2. PICK took \in SUBSET conv[s].talk :
          /\ copies'  = [r \in Rcpts |-> IF r \in took THEN copies[r] + 1 ELSE copies[r]]
          /\ excused' = [r \in Rcpts |-> IF r \in took THEN excused[r] + 1 ELSE excused[r]]
    BY <1>12 DEF AnswerLost
  <2>3. ASSUME NEW r \in Rcpts, SaidOk(r) PROVE SaidOk(r)'
    <3>1. PICK t \in Slots : Unrecorded(t) /\ r \in Said(t, {"ok"})
      BY <2>3 DEF SaidOk
    <3>2. t # s
      BY <2>1, <3>1 DEF Said, NoAnswer
    <3> QED BY <2>1, <3>1, <3>2 DEF SaidOk, Unrecorded, Said
  <2>4. ASSUME NEW r \in Rcpts PROVE copies'[r] <= excused'[r] + (IF Accounted(r)' THEN 1 ELSE 0)
    <3>1. copies[r] \in Nat /\ excused[r] \in Nat /\ copies[r] <= excused[r] + (IF Accounted(r) THEN 1 ELSE 0)
      BY <1>2 DEF CopiesAccounted
    <3>2. Accounted(r) => Accounted(r)'
      BY <2>1, <2>3 DEF Accounted
    <3> QED BY <2>2, <3>1, <3>2
  <2> QED BY <2>4 DEF CopiesAccounted
<1>13. ASSUME Crash PROVE CopiesAccounted'
  <2>1. /\ UNCHANGED <<env, rcpt, copies>> /\ claims'.rcpts = {}
        /\ excused' = [r \in Rcpts |-> IF SaidOk(r) THEN excused[r] + 1 ELSE excused[r]]
    BY <1>13 DEF Crash, diskVars, NoClaims, SaidOk
  <2>2. ASSUME NEW r \in Rcpts PROVE copies'[r] <= excused'[r] + (IF Accounted(r)' THEN 1 ELSE 0)
    <3>1. copies[r] \in Nat /\ excused[r] \in Nat /\ copies[r] <= excused[r] + (IF Accounted(r) THEN 1 ELSE 0)
      BY <1>2 DEF CopiesAccounted
    <3>2. Accounted(r) /\ ~SaidOk(r) => Accounted(r)'
      BY <2>1 DEF Accounted
    <3> QED BY <2>1, <3>1, <3>2
  <2> QED BY <2>2 DEF CopiesAccounted
<1> QED
  BY <1>5, <1>6, <1>7, <1>8, <1>9, <1>10, <1>11, <1>12, <1>13, QuietCases, AnswerCases
     DEF Complete, Remote

(***************************************************************************)
(* The theorems.                                                           *)
(***************************************************************************)
\* Nothing is in conversation, scanned or sent at the start.
LEMMA InvInit == Init => Inv
<1> SUFFICES ASSUME Init PROVE Inv
  OBVIOUS
<1>1. TypeOK
  BY TypeInit
<1>2. Talking = {} /\ agenda.queue = {} /\ waiting = {}
  BY DEF Init, Talking, NoAgenda
<1>3. OneConversation /\ ScanFresh /\ JobsOwn
  BY <1>2 DEF OneConversation, ScanFresh, JobsOwn
<1>4. EvidenceKept /\ ReportsFailed /\ CopiesAccounted
  BY DEF Init, EvidenceKept, ReportsFailed, CopiesAccounted
<1> QED BY <1>1, <1>3, <1>4 DEF Inv

\* Every action keeps the invariant.
LEMMA InvNext ==
  ASSUME Inv, Next
  PROVE  Inv'
BY TypeNext, OneConversationStep, ScanFreshStep, JobsOwnStep, EvidenceKeptStep, ReportsFailedStep,
   CopiesAccountedStep DEF Inv

\* A step that changes nothing keeps it.
LEMMA InvStutter ==
  ASSUME Inv, UNCHANGED vars
  PROVE  Inv'
<1> USE DEF vars, diskVars, taskVars, schedVars, opVars, worldVars, histVars
<1>1. TypeOK'
  BY DEF Inv, TypeOK, DiskType, TaskType, SchedType, WorldType
<1>2. OneConversation' /\ ScanFresh' /\ JobsOwn'
  BY DEF Inv, OneConversation, ScanFresh, JobsOwn, Talking, Pending, PendingIn, RcptsOf
<1>3. EvidenceKept' /\ ReportsFailed'
  BY DEF Inv, EvidenceKept, ReportsFailed
<1>4. CopiesAccounted'
  BY DEF Inv, CopiesAccounted, Accounted, SaidOk, Unrecorded, Said
<1> QED BY <1>1, <1>2, <1>3, <1>4 DEF Inv

\* The invariant the properties below follow from.
THEOREM InvHolds == Spec => []Inv
<1>1. Inv /\ [Next]_vars => Inv'
  BY InvNext, InvStutter
<1> QED BY <1>1, InvInit, PTL DEF Spec

\* No outcome of mandatory mail is lost: what the spool says of a recipient
\* is in the evidence log or noted in the envelope, because evidence::intend
\* writes the note with the verdict and record_outcome drops it only after
\* the log took the outcome.
THEOREM EvidenceIsKept == Spec => []EvidenceKept
<1>1. Inv => EvidenceKept
  BY DEF Inv
<1> QED BY <1>1, InvHolds, PTL

\* Two conversations never carry the same recipient, and one in conversation
\* is pending: the claim of Claims::take is checked by every action that
\* gives verdicts.
THEOREM ConversationsAreExclusive == Spec => []OneConversation
<1>1. Inv => OneConversation
  BY DEF Inv
<1> QED BY <1>1, InvHolds, PTL

\* What Worker::scan read of the entries it has still to queue is true when
\* it queues them.
THEOREM ScanStaysFresh == Spec => []ScanFresh
<1>1. Inv => ScanFresh
  BY DEF Inv
<1> QED BY <1>1, InvHolds, PTL

\* A remote takes a second copy for a recipient only after a copy whose
\* acceptance never reached the spool (Worker::start, Worker::record).
THEOREM CopiesAreExcused == Spec => []NoUnexcusedCopy
<1>1. Inv => NoUnexcusedCopy
  <2> SUFFICES ASSUME Inv, NEW r \in Rcpts PROVE copies[r] <= 1 + excused[r]
    BY DEF NoUnexcusedCopy
  <2>1. copies[r] \in Nat /\ excused[r] \in Nat
    BY DEF Inv, TypeOK, WorldType
  <2> QED BY <2>1 DEF Inv, CopiesAccounted
<1> QED BY <1>1, InvHolds, PTL

\* A recipient's verdict never changes, though the scan, the expiry of
\* Worker::finish and the record of a conversation all write verdicts.
THEOREM VerdictsAreFinal == Spec => StatusFinal
<1>1. Inv /\ [Next]_vars =>
        [\A r \in Rcpts : rcpt[r].status # "pending" => rcpt'[r].status = rcpt[r].status]_vars
  BY StatusFinalStep DEF Inv
<1> QED BY <1>1, InvHolds, PTL DEF Spec, StatusFinal

\* No copy is accepted for a recipient with a verdict or reported to the
\* sender as failed.
THEOREM NoCopyFollowsVerdict == Spec => NoCopyAfterVerdict
<1>1. Inv /\ [Next]_vars =>
        [\A r \in Rcpts : copies'[r] > copies[r] => rcpt[r].status = "pending" /\ dsn[r] = 0]_vars
  <2> SUFFICES ASSUME Inv, Next, NEW r \in Rcpts, copies'[r] > copies[r]
               PROVE  rcpt[r].status = "pending" /\ dsn[r] = 0
    OBVIOUS
  <2>1. copies \in [Rcpts -> Nat] /\ dsn \in [Rcpts -> Nat]
    BY DEF Inv, TypeOK, WorldType
  <2>2. PICK s \in Slots : Remote(s)
    <3>1. copies' # copies
      BY <2>1
    <3> QED BY <3>1, AnswerCases DEF AfterConversation, Crash, RecordGone, RecordFault, histVars
  <2>3. pc = "select" /\ s \in Talking /\ r \in conv[s].talk
    BY <2>1, <2>2 DEF Remote, Answer, AnswerLost, Talking
  <2>4. rcpt[r].status = "pending"
    BY <2>3 DEF Inv, OneConversation
  <2> QED BY <2>1, <2>4 DEF Inv, ReportsFailed
<1> QED BY <1>1, InvHolds, PTL DEF Spec, NoCopyAfterVerdict

============================================================================
