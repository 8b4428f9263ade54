------------------------ MODULE OutboundQueueWorker ------------------------
(***************************************************************************)
(* The worker's own books: what it has claimed is what it talks about, an  *)
(* entry counts the jobs it has waiting and running, the holds in memory   *)
(* cover those of the spool, and failures are told, once.                  *)
(***************************************************************************)
EXTENDS OutboundQueueContract

\* The conversations with a destination, of a sender and of an entry, and the
\* jobs of an entry that wait.
DestTalks(d)   == {s \in Talking : conv[s].job.dest = d}
SenderTalks(u) == {s \in Talking : SenderOf[conv[s].job.id] = u}
EntryTalks(i)  == {s \in Talking : conv[s].job.id = i}
WaitingOf(i)   == {j \in waiting : j.id = i}

\* An entry has one job for a destination at a time, waiting or running: so
\* the job for the recipients left over by a conversation is a new one.
Same(j, k) == j.id = k.id /\ j.dest = k.dest
JobsApart ==
  /\ \A j, k \in waiting : Same(j, k) => j = k
  /\ \A s \in Talking : \A j \in waiting : ~Same(conv[s].job, j)
  /\ \A s, t \in Talking : Same(conv[s].job, conv[t].job) => s = t

\* An entry the scan is to queue has no job.
ScanIdle == \A q \in agenda.queue : left[q.id] = 0

Rounds == IsFiniteSet(waiting) /\ JobsApart /\ ScanIdle /\ RoundsExact

(***************************************************************************)
(* Who changes the schedule.                                               *)
(***************************************************************************)
SchedKept == UNCHANGED <<waiting, left, conv, claims>>

\* Jobs are made by QueueEntry, dropped or started by fill, and end with
\* their conversation.
LEMMA SchedCases ==
  ASSUME Next
  PROVE  \/ SchedKept \/ Crash \/ AfterConversation
         \/ \E q \in agenda.queue : QueueEntry(q)
         \/ \E j \in waiting : DropHeldJob(j) \/ DropStaleJob(j) \/ \E s \in Slots : StartJob(j, s)
         \/ \E s \in Slots : RecordGone(s) \/ RecordFault(s)
<1> USE DEF SchedKept, schedVars
<1>1. ASSUME NEW i \in Ids, Submit(i) PROVE SchedKept
  BY <1>1 DEF Submit
<1>2. ASSUME ScanBegin \/ ScanStep, ~\E q \in agenda.queue : QueueEntry(q) PROVE SchedKept
  BY <1>2 DEF ScanBegin, ScanStep, WriteWaiting, ScanOverdue, ScanLoad, QueueEntryError, ScanEnd
<1>3. ASSUME FillEnd PROVE SchedKept
  BY <1>3 DEF FillEnd
<1>4. ASSUME FinishStep PROVE SchedKept
  BY <1>4 DEF FinishStep, FinishGone, FinishFault, FinishExpire, NoReport, SendReport, ReportRefused,
              MarkReported, Settle, Unlink
<1>5. ASSUME NEW s \in Slots, Remote(s) \/ Record(s) PROVE SchedKept
  BY <1>5 DEF Remote, Answer, AnswerLost, Record
<1>6. ASSUME Operator \/ Removal PROVE SchedKept
  BY <1>6 DEF Operator, OpHold, OpRelease, OpRetry, OpRemove, OpReleaseDestination, Removal,
              OpCancel, OpUnconfirmed, OpRefused, OpUnlink, OpDie
<1>7. ASSUME Restart \/ Tick PROVE SchedKept
  BY <1>7 DEF Restart, Tick
<1> QED
  BY <1>1, <1>2, <1>3, <1>4, <1>5, <1>6, <1>7 DEF Next, WorkerStep, FillStep, Complete

\* A conversation ends in RecordGone, RecordFault and AfterConversation, with
\* the scan's agenda empty.
LEMMA EndCases ==
  ASSUME Inv
  PROVE  /\ AfterConversation => /\ slot \in Slots /\ conv[slot] \in Talk /\ conv[slot] # NoTalk
                                 /\ EndConversation(slot) /\ pc = "after"
         /\ \A s \in Slots : RecordGone(s) \/ RecordFault(s) =>
              conv[s] \in Talk /\ conv[s] # NoTalk /\ EndConversation(s) /\ pc = "select"
<1>1. conv \in [Slots -> Talk \cup {NoTalk}] /\ NoTalk \notin Talk /\ slot \in Slots
      /\ (pc = "after" => conv[slot] \in Talk)
  BY ConstantsAssumption DEF Inv, TypeOK, TaskType, SchedType
<1> QED BY <1>1 DEF AfterConversation, RecordGone, RecordFault, Answered

\* The agenda of a scan.
LEMMA AgendaCases ==
  ASSUME TypeOK, Next
  PROVE  /\ ScanLoad \/ agenda'.queue \subseteq agenda.queue
         /\ ScanBegin \/ agenda'.outcomes \subseteq agenda.outcomes
<1> DEFINE Less == agenda'.queue \subseteq agenda.queue /\ agenda'.outcomes \subseteq agenda.outcomes
<1> USE DEF taskVars
<1>1. agenda \in Agenda
  BY DEF TypeOK, TaskType
<1>2. ASSUME UNCHANGED agenda PROVE Less
  BY <1>2
<1>3. ASSUME agenda' = NoAgenda PROVE Less
  BY <1>3 DEF NoAgenda
<1>4. ASSUME ScanBegin PROVE agenda'.queue = {}
  BY <1>4 DEF ScanBegin, NoAgenda
<1>5. ASSUME ScanStep, ~ScanLoad PROVE Less
  BY <1>1, <1>2, <1>5 DEF Agenda, ScanStep, WriteWaiting, ScanOverdue, QueueEntry, QueueEntryError, ScanEnd
<1>6. ASSUME FillStep \/ AfterConversation PROVE Less
  BY <1>2, <1>6 DEF FillStep, DropHeldJob, DropStaleJob, StartJob, FillEnd, AfterConversation
<1>7. ASSUME FinishStep PROVE Less
  BY <1>2, <1>7 DEF FinishStep, FinishGone, FinishFault, FinishExpire, NoReport, SendReport,
                    ReportRefused, MarkReported, Settle, Unlink
<1>8. ASSUME NEW s \in Slots, Remote(s) \/ Complete(s) PROVE Less
  BY <1>2, <1>8 DEF Remote, Answer, AnswerLost, Complete, Record, RecordGone, RecordFault
<1>9. ASSUME Operator \/ Removal PROVE Less
  BY <1>2, <1>9 DEF Operator, OpHold, OpRelease, OpRetry, OpRemove, OpReleaseDestination, Removal,
                    OpCancel, OpUnconfirmed, OpRefused, OpUnlink, OpDie
<1>10. ASSUME Crash \/ Restart \/ Tick \/ \E i \in Ids : Submit(i) PROVE Less
  BY <1>2, <1>3, <1>10 DEF Crash, Restart, Tick, Submit
<1>11. ASSUME ScanLoad PROVE agenda'.outcomes = {}
  BY <1>11 DEF ScanLoad
<1> QED BY <1>4, <1>5, <1>6, <1>7, <1>8, <1>9, <1>10, <1>11 DEF Next, WorkerStep

(***************************************************************************)
(* Counting.                                                               *)
(***************************************************************************)
\* Slots are finitely many, so every set of them can be counted.
LEMMA SlotsFinite == \A S \in SUBSET Slots : IsFiniteSet(S) /\ Cardinality(S) \in Nat
<1>1. IsFiniteSet(Slots)
  BY FS_Interval, ConstantsAssumption DEF Slots
<1> QED BY <1>1, FS_Subset, FS_CardinalityType

\* One more, one less.
LEMMA OneCounts ==
  ASSUME NEW S, IsFiniteSet(S), NEW x
  PROVE  /\ Cardinality(S) \in Nat
         /\ x \notin S => Cardinality(S \cup {x}) = Cardinality(S) + 1
         /\ x \in S => Cardinality(S \ {x}) = Cardinality(S) - 1 /\ Cardinality(S) > 0
         /\ IsFiniteSet(S \cup {x}) /\ IsFiniteSet(S \ {x})
<1>1. Cardinality(S) \in Nat
  BY FS_CardinalityType
<1>2. Cardinality(S \ {x}) \in Nat
  BY FS_RemoveElement, FS_CardinalityType
<1>3. x \in S => Cardinality(S \ {x}) = Cardinality(S) - 1
  BY FS_RemoveElement
<1> QED BY <1>1, <1>2, <1>3, FS_AddElement, FS_RemoveElement

\* What a conversation that begins adds to those of its destination, sender
\* and entry.
LEMMA TalkBegins ==
  ASSUME TypeOK, NEW s \in Slots, conv[s] = NoTalk, NEW c \in Talk, conv' = [conv EXCEPT ![s] = c]
  PROVE  /\ s \notin Talking /\ Talking' = Talking \cup {s} /\ conv'[s] = c
         /\ \A t \in Talking : conv'[t] = conv[t]
         /\ \A d \in Dests : DestTalks(d)' = IF d = c.job.dest THEN DestTalks(d) \cup {s} ELSE DestTalks(d)
         /\ \A u \in Senders : SenderTalks(u)' = IF u = SenderOf[c.job.id] THEN SenderTalks(u) \cup {s}
                                                 ELSE SenderTalks(u)
         /\ \A i \in Ids : EntryTalks(i)' = IF i = c.job.id THEN EntryTalks(i) \cup {s} ELSE EntryTalks(i)
<1>1. conv \in [Slots -> Talk \cup {NoTalk}] /\ c # NoTalk
  BY ConstantsAssumption DEF TypeOK, SchedType
<1>2. s \notin Talking /\ Talking' = Talking \cup {s} /\ conv'[s] = c /\ \A t \in Talking : conv'[t] = conv[t]
  BY <1>1 DEF Talking
<1>3. \A d \in Dests : DestTalks(d)' = IF d = c.job.dest THEN DestTalks(d) \cup {s} ELSE DestTalks(d)
  BY <1>2 DEF DestTalks
<1>4. \A u \in Senders : SenderTalks(u)' = IF u = SenderOf[c.job.id] THEN SenderTalks(u) \cup {s}
                                           ELSE SenderTalks(u)
  BY <1>2 DEF SenderTalks
<1>5. \A i \in Ids : EntryTalks(i)' = IF i = c.job.id THEN EntryTalks(i) \cup {s} ELSE EntryTalks(i)
  BY <1>2 DEF EntryTalks
<1> QED BY <1>2, <1>3, <1>4, <1>5

\* What one that ends takes away.
LEMMA TalkEnds ==
  ASSUME TypeOK, NEW s \in Slots, conv[s] # NoTalk, conv' = [conv EXCEPT ![s] = NoTalk]
  PROVE  /\ s \in Talking /\ Talking' = Talking \ {s}
         /\ \A t \in Talking \ {s} : conv'[t] = conv[t]
         /\ \A d \in Dests : DestTalks(d)' = DestTalks(d) \ {s}
         /\ \A u \in Senders : SenderTalks(u)' = SenderTalks(u) \ {s}
         /\ \A i \in Ids : EntryTalks(i)' = EntryTalks(i) \ {s}
<1>1. conv \in [Slots -> Talk \cup {NoTalk}]
  BY DEF TypeOK, SchedType
<1>2. s \in Talking /\ Talking' = Talking \ {s} /\ \A t \in Talking \ {s} : conv'[t] = conv[t]
  BY <1>1 DEF Talking
<1>3. \A d \in Dests : DestTalks(d)' = DestTalks(d) \ {s}
  BY <1>2 DEF DestTalks
<1>4. \A u \in Senders : SenderTalks(u)' = SenderTalks(u) \ {s}
  BY <1>2 DEF SenderTalks
<1>5. \A i \in Ids : EntryTalks(i)' = EntryTalks(i) \ {s}
  BY <1>2 DEF EntryTalks
<1> QED BY <1>2, <1>3, <1>4, <1>5

\* The sets counted are sets of slots.
LEMMA TalksFinite ==
  /\ IsFiniteSet(Talking)
  /\ \A x : IsFiniteSet(DestTalks(x)) /\ IsFiniteSet(SenderTalks(x)) /\ IsFiniteSet(EntryTalks(x))
<1>1. Talking \subseteq Slots /\ \A x : /\ DestTalks(x) \subseteq Slots /\ SenderTalks(x) \subseteq Slots
                                        /\ EntryTalks(x) \subseteq Slots
  BY DEF Talking, DestTalks, SenderTalks, EntryTalks
<1> QED BY <1>1, SlotsFinite

(***************************************************************************)
(* The claims.                                                             *)
(***************************************************************************)
\* ClaimsExact in terms of the sets above.
LEMMA ClaimsAre ==
  ClaimsExact <=> /\ claims.rcpts = UNION {conv[s].claimed : s \in Talking}
                  /\ claims.running = Cardinality(Talking)
                  /\ \A d \in Dests : claims.domains[d] = Cardinality(DestTalks(d))
                  /\ \A u \in Senders : claims.senders[u] = Cardinality(SenderTalks(u))
BY DEF ClaimsExact, DestTalks, SenderTalks

\* Claims::take counts the conversation that Worker::start begins.
LEMMA TakeExact ==
  ASSUME Inv, ClaimsExact, NEW j \in waiting, NEW s \in Slots, StartJob(j, s)
  PROVE  ClaimsExact'
<1> DEFINE c == [job |-> j, claimed |-> j.rcpts \ claims.rcpts, talk |-> ToSend(j),
                 own |-> Max({rcpt[r].throttled : r \in ToSend(j)})]
<1>1. TypeOK /\ waiting \subseteq Job /\ claims \in ClaimState /\ ToSend(j) # {}
  BY DEF Inv, TypeOK, SchedType, StartJob, Startable
<1>2. j \in Job /\ j.rcpts \in SUBSET Rcpts /\ ToSend(j) \subseteq Rcpts
  BY <1>1 DEF Job, ToSend
<1>3. Max({rcpt[r].throttled : r \in ToSend(j)}) \in Levels
  BY <1>1, <1>2, ThrottledMax
<1>4. c \in Talk /\ c.job = j /\ c.claimed = j.rcpts \ claims.rcpts
  BY <1>2, <1>3 DEF Talk
<1>5. conv[s] = NoTalk /\ conv' = [conv EXCEPT ![s] = c] /\ claims' = TakeClaim(j)
  BY DEF StartJob
<1> HIDE DEF c
<1>6. /\ s \notin Talking /\ Talking' = Talking \cup {s} /\ conv'[s] = c
      /\ \A t \in Talking : conv'[t] = conv[t]
      /\ \A d \in Dests : DestTalks(d)' = IF d = j.dest THEN DestTalks(d) \cup {s} ELSE DestTalks(d)
      /\ \A u \in Senders : SenderTalks(u)' = IF u = SenderOf[j.id] THEN SenderTalks(u) \cup {s}
                                              ELSE SenderTalks(u)
  <2>1. /\ s \notin Talking /\ Talking' = Talking \cup {s} /\ conv'[s] = c
        /\ \A t \in Talking : conv'[t] = conv[t]
        /\ \A d \in Dests : DestTalks(d)' = IF d = c.job.dest THEN DestTalks(d) \cup {s} ELSE DestTalks(d)
        /\ \A u \in Senders : SenderTalks(u)' = IF u = SenderOf[c.job.id] THEN SenderTalks(u) \cup {s}
                                                ELSE SenderTalks(u)
    <3>1. c \in Talk /\ conv[s] = NoTalk /\ conv' = [conv EXCEPT ![s] = c] /\ TypeOK
      BY <1>1, <1>4, <1>5
    <3> QED BY <3>1, TalkBegins
  <2> QED BY <1>4, <2>1
<1>7. /\ claims.rcpts = UNION {conv[t].claimed : t \in Talking} /\ claims.running = Cardinality(Talking)
      /\ \A d \in Dests : claims.domains[d] = Cardinality(DestTalks(d))
      /\ \A u \in Senders : claims.senders[u] = Cardinality(SenderTalks(u))
  BY ClaimsAre
<1>8. /\ claims'.rcpts = claims.rcpts \cup j.rcpts /\ claims'.running = claims.running + 1
      /\ \A d \in Dests : claims'.domains[d] = IF d = j.dest THEN claims.domains[d] + 1 ELSE claims.domains[d]
      /\ \A u \in Senders : claims'.senders[u] = IF u = SenderOf[j.id] THEN claims.senders[u] + 1
                                                 ELSE claims.senders[u]
  BY <1>1, <1>5 DEF TakeClaim, ClaimState
<1>9. claims'.rcpts = UNION {conv'[t].claimed : t \in Talking'}
  BY <1>4, <1>6, <1>7, <1>8
<1>10. claims'.running = Cardinality(Talking')
  BY <1>6, <1>7, <1>8, TalksFinite, OneCounts
<1>11. ASSUME NEW d \in Dests PROVE claims'.domains[d] = Cardinality(DestTalks(d)')
  <2>1. s \notin DestTalks(d) /\ IsFiniteSet(DestTalks(d))
    BY <1>6, TalksFinite DEF DestTalks
  <2>2. Cardinality(DestTalks(d) \cup {s}) = Cardinality(DestTalks(d)) + 1
    BY <2>1, OneCounts
  <2>3. claims.domains[d] = Cardinality(DestTalks(d))
    BY <1>7
  <2>4. CASE d = j.dest
    <3>1. DestTalks(d)' = DestTalks(d) \cup {s} /\ claims'.domains[d] = claims.domains[d] + 1
      BY <1>6, <1>8, <2>4
    <3> QED BY <2>2, <2>3, <3>1
  <2>5. CASE d # j.dest
    <3>1. DestTalks(d)' = DestTalks(d) /\ claims'.domains[d] = claims.domains[d]
      BY <1>6, <1>8, <2>5
    <3> QED BY <2>3, <3>1
  <2> QED BY <2>4, <2>5
<1>12. ASSUME NEW u \in Senders PROVE claims'.senders[u] = Cardinality(SenderTalks(u)')
  <2>1. s \notin SenderTalks(u) /\ IsFiniteSet(SenderTalks(u))
    BY <1>6, TalksFinite DEF SenderTalks
  <2>2. Cardinality(SenderTalks(u) \cup {s}) = Cardinality(SenderTalks(u)) + 1
    BY <2>1, OneCounts
  <2>3. claims.senders[u] = Cardinality(SenderTalks(u))
    BY <1>7
  <2>4. CASE u = SenderOf[j.id]
    <3>1. SenderTalks(u)' = SenderTalks(u) \cup {s} /\ claims'.senders[u] = claims.senders[u] + 1
      BY <1>6, <1>8, <2>4
    <3> QED BY <2>2, <2>3, <3>1
  <2>5. CASE u # SenderOf[j.id]
    <3>1. SenderTalks(u)' = SenderTalks(u) /\ claims'.senders[u] = claims.senders[u]
      BY <1>6, <1>8, <2>5
    <3> QED BY <2>3, <3>1
  <2> QED BY <2>4, <2>5
<1> QED BY <1>9, <1>10, <1>11, <1>12 DEF ClaimsExact, DestTalks, SenderTalks

\* Claim's Drop counts it out again; the claims of the others stay, since no
\* two conversations share a recipient.
LEMMA DropExact ==
  ASSUME Inv, ClaimsExact, NEW s \in Slots, conv[s] \in Talk, conv[s] # NoTalk, EndConversation(s)
  PROVE  ClaimsExact'
<1> DEFINE j == conv[s].job
<1>1. TypeOK /\ claims \in ClaimState /\ j.dest \in Dests /\ j.id \in Ids /\ SenderOf[j.id] \in Senders
  BY ConstantsAssumption DEF Inv, TypeOK, SchedType, Talk, Job
<1>2. conv' = [conv EXCEPT ![s] = NoTalk] /\ claims' = DropClaim(s)
  BY DEF EndConversation
<1>3. /\ s \in Talking /\ Talking' = Talking \ {s}
      /\ \A t \in Talking \ {s} : conv'[t] = conv[t]
      /\ \A d \in Dests : DestTalks(d)' = DestTalks(d) \ {s}
      /\ \A u \in Senders : SenderTalks(u)' = SenderTalks(u) \ {s}
  BY <1>1, <1>2, TalkEnds
<1>4. /\ claims.rcpts = UNION {conv[t].claimed : t \in Talking} /\ claims.running = Cardinality(Talking)
      /\ \A d \in Dests : claims.domains[d] = Cardinality(DestTalks(d))
      /\ \A u \in Senders : claims.senders[u] = Cardinality(SenderTalks(u))
  BY ClaimsAre
<1>5. /\ claims'.rcpts = claims.rcpts \ conv[s].claimed
      /\ claims'.running = SaturatingSub(claims.running, 1)
      /\ \A d \in Dests : claims'.domains[d] = IF d = j.dest THEN SaturatingSub(claims.domains[d], 1)
                                               ELSE claims.domains[d]
      /\ \A u \in Senders : claims'.senders[u] = IF u = SenderOf[j.id] THEN SaturatingSub(claims.senders[u], 1)
                                                 ELSE claims.senders[u]
  BY <1>1, <1>2 DEF DropClaim, ClaimState
<1>6. claims'.rcpts = UNION {conv'[t].claimed : t \in Talking'}
  <2>1. \A t \in Talking \ {s} : conv[t].claimed \cap conv[s].claimed = {}
    BY <1>3 DEF Inv, OneConversation
  <2> QED BY <1>3, <1>4, <1>5, <2>1
<1>7. \A n \in Nat : n > 0 => SaturatingSub(n, 1) = n - 1
  BY DEF SaturatingSub
<1>8. claims'.running = Cardinality(Talking')
  BY <1>3, <1>4, <1>5, <1>7, TalksFinite, OneCounts
<1>9. ASSUME NEW d \in Dests PROVE claims'.domains[d] = Cardinality(DestTalks(d)')
  <2>1. IsFiniteSet(DestTalks(d)) /\ (s \in DestTalks(d) <=> d = j.dest)
    BY <1>3, TalksFinite DEF DestTalks
  <2>2. CASE d = j.dest
    <3>1. Cardinality(DestTalks(d)) \in Nat /\ Cardinality(DestTalks(d)) > 0
          /\ Cardinality(DestTalks(d) \ {s}) = Cardinality(DestTalks(d)) - 1
      BY <2>1, <2>2, OneCounts
    <3>2. claims'.domains[d] = Cardinality(DestTalks(d)) - 1
      BY <1>4, <1>5, <1>7, <2>2, <3>1
    <3> QED BY <1>3, <3>1, <3>2
  <2>3. CASE d # j.dest
    <3>1. DestTalks(d)' = DestTalks(d)
      BY <1>3, <2>1, <2>3
    <3>2. claims'.domains[d] = claims.domains[d]
      BY <1>5, <2>3
    <3> QED BY <1>4, <3>1, <3>2
  <2> QED BY <2>2, <2>3
<1>10. ASSUME NEW u \in Senders PROVE claims'.senders[u] = Cardinality(SenderTalks(u)')
  <2>1. IsFiniteSet(SenderTalks(u)) /\ (s \in SenderTalks(u) <=> u = SenderOf[j.id])
    BY <1>3, TalksFinite DEF SenderTalks
  <2>2. CASE u = SenderOf[j.id]
    <3>1. Cardinality(SenderTalks(u)) \in Nat /\ Cardinality(SenderTalks(u)) > 0
          /\ Cardinality(SenderTalks(u) \ {s}) = Cardinality(SenderTalks(u)) - 1
      BY <2>1, <2>2, OneCounts
    <3>2. claims'.senders[u] = Cardinality(SenderTalks(u)) - 1
      BY <1>4, <1>5, <1>7, <2>2, <3>1
    <3> QED BY <1>3, <3>1, <3>2
  <2>3. CASE u # SenderOf[j.id]
    <3>1. SenderTalks(u)' = SenderTalks(u)
      BY <1>3, <2>1, <2>3
    <3>2. claims'.senders[u] = claims.senders[u]
      BY <1>5, <2>3
    <3> QED BY <1>4, <3>1, <3>2
  <2> QED BY <2>2, <2>3
<1> QED BY <1>6, <1>8, <1>9, <1>10 DEF ClaimsExact, DestTalks, SenderTalks

\* Without a conversation nothing is claimed.
LEMMA NothingClaimed ==
  ASSUME Talking = {}, claims = NoClaims
  PROVE  ClaimsExact
<1>1. Cardinality({}) = 0
  BY FS_EmptySet
<1>2. \A x : DestTalks(x) = {} /\ SenderTalks(x) = {}
  BY DEF DestTalks, SenderTalks
<1>3. UNION {conv[s].claimed : s \in Talking} = {}
  OBVIOUS
<1> QED BY <1>1, <1>2, <1>3, ClaimsAre DEF NoClaims

\* Every step keeps the claims exact.
LEMMA ClaimsExactStep ==
  ASSUME Inv, ClaimsExact, Next
  PROVE  ClaimsExact'
<1>1. ASSUME UNCHANGED <<conv, claims>> PROVE ClaimsExact'
  <2>1. Talking' = Talking
    BY <1>1 DEF Talking
  <2> QED BY <1>1, <2>1 DEF ClaimsExact
<1>2. CASE Crash
  <2>1. Talking' = {} /\ claims' = NoClaims
    BY <1>2 DEF Crash, Talking
  <2>2. Cardinality({}) = 0
    BY FS_EmptySet
  <2> QED BY <2>1, <2>2 DEF ClaimsExact, NoClaims
<1>3. CASE SchedKept
  BY <1>1, <1>3 DEF SchedKept
<1>4. ASSUME NEW q \in agenda.queue, QueueEntry(q) PROVE ClaimsExact'
  BY <1>1, <1>4 DEF QueueEntry
<1>5. ASSUME NEW j \in waiting, DropHeldJob(j) \/ DropStaleJob(j) PROVE ClaimsExact'
  BY <1>1, <1>5 DEF DropHeldJob, DropStaleJob
<1> QED BY <1>2, <1>3, <1>4, <1>5, SchedCases, EndCases, TakeExact, DropExact

(***************************************************************************)
(* The rounds.                                                             *)
(***************************************************************************)
\* RoundsExact in terms of the sets above, which are finite.
LEMMA RoundsAre ==
  ASSUME IsFiniteSet(waiting)
  PROVE  /\ RoundsExact <=> \A i \in Ids : left[i] = Cardinality(WaitingOf(i)) + Cardinality(EntryTalks(i))
         /\ \A i : /\ IsFiniteSet(WaitingOf(i)) /\ Cardinality(WaitingOf(i)) \in Nat
                   /\ IsFiniteSet(EntryTalks(i)) /\ Cardinality(EntryTalks(i)) \in Nat
<1>1. \A i : WaitingOf(i) \in SUBSET waiting
  BY DEF WaitingOf
<1>2. \A i : IsFiniteSet(WaitingOf(i))
  BY <1>1, FS_Subset
<1> QED BY <1>2, TalksFinite, FS_CardinalityType DEF RoundsExact, WaitingOf, EntryTalks

\* Nothing is queued by a scan while the worker fills slots or waits.
LEMMA NoAgendaLeft ==
  ASSUME ScanFresh, pc \in {"fill", "select", "after"}
  PROVE  agenda.queue = {}
BY DEF ScanFresh, Settling

\* Worker::queue_entry: an entry without jobs gets one for each destination.
LEMMA QueueRounds ==
  ASSUME Inv, Rounds, NEW q \in agenda.queue, QueueEntry(q)
  PROVE  Rounds'
<1>1. /\ waiting' = waiting \cup JobsOf(q) /\ left' = [left EXCEPT ![q.id] = Cardinality(JobsOf(q))]
      /\ UNCHANGED <<conv, claims>> /\ agenda' = [agenda EXCEPT !.queue = @ \ {q}]
  BY DEF QueueEntry
<1>2. /\ q \in [id : Ids, due : SUBSET Rcpts] /\ q.id \in Ids /\ left \in [Ids -> Nat] /\ waiting \subseteq Job
      /\ agenda \in Agenda
  BY DEF Inv, TypeOK, TaskType, SchedType, Agenda
<1>3. JobsOf(q) \subseteq Job /\ IsFiniteSet(JobsOf(q)) /\ Cardinality(JobsOf(q)) \in Nat
  BY <1>2, JobsOfType
<1>4. IsFiniteSet(waiting')
  BY <1>1, <1>3, FS_Union DEF Rounds
<1>5. left[q.id] = 0 /\ IsFiniteSet(waiting) /\ RoundsExact /\ JobsApart
  BY DEF Rounds, ScanIdle
<1>6. WaitingOf(q.id) = {} /\ EntryTalks(q.id) = {}
  <2>1. Cardinality(WaitingOf(q.id)) = 0 /\ Cardinality(EntryTalks(q.id)) = 0
        /\ IsFiniteSet(WaitingOf(q.id)) /\ IsFiniteSet(EntryTalks(q.id))
    BY <1>2, <1>5, RoundsAre
  <2> QED BY <2>1, FS_EmptySet
<1>7. /\ \A j \in JobsOf(q) : j.id = q.id
      /\ \A j, k \in JobsOf(q) : j.dest = k.dest => j = k
  BY DEF JobsOf
<1>8. \A j \in waiting : j.id # q.id
  BY <1>6 DEF WaitingOf
<1>9. \A s \in Talking : conv[s].job.id # q.id
  BY <1>6 DEF EntryTalks
<1>10. Talking' = Talking
  BY <1>1 DEF Talking
<1>11. JobsApart'
  <2>1. \A j, k \in waiting' : Same(j, k) => j = k
    BY <1>1, <1>5, <1>7, <1>8 DEF JobsApart, Same
  <2>2. \A s \in Talking : \A j \in waiting' : ~Same(conv[s].job, j)
    BY <1>1, <1>5, <1>7, <1>9 DEF JobsApart, Same
  <2> QED BY <1>1, <1>5, <1>10, <2>1, <2>2 DEF JobsApart, Same
<1>12. ScanIdle'
  <2> SUFFICES ASSUME NEW p \in agenda'.queue PROVE left'[p.id] = 0
    BY DEF ScanIdle
  <2>1. p \in agenda.queue /\ p # q /\ p.id \in Ids
    BY <1>1, <1>2 DEF Agenda
  <2>2. p.id # q.id
    BY <2>1 DEF Inv, ScanFresh
  <2> QED BY <1>1, <1>2, <2>1, <2>2 DEF Rounds, ScanIdle
<1>13. RoundsExact'
  <2> SUFFICES ASSUME NEW i \in Ids
               PROVE  left'[i] = Cardinality(WaitingOf(i)') + Cardinality(EntryTalks(i)')
    BY DEF RoundsExact, WaitingOf, EntryTalks
  <2>1. EntryTalks(i)' = EntryTalks(i)
    BY <1>1, <1>10 DEF EntryTalks
  <2>2. CASE i = q.id
    <3>1. WaitingOf(i)' = JobsOf(q)
      BY <1>1, <1>7, <1>8, <2>2 DEF WaitingOf
    <3>2. EntryTalks(i)' = {} /\ Cardinality({}) = 0
      BY <1>6, <2>1, <2>2, FS_EmptySet
    <3>3. left'[i] = Cardinality(JobsOf(q))
      BY <1>1, <1>2, <2>2
    <3> QED BY <1>3, <3>1, <3>2, <3>3
  <2>3. CASE i # q.id
    <3>1. WaitingOf(i)' = WaitingOf(i)
      BY <1>1, <1>7, <2>3 DEF WaitingOf
    <3> QED BY <1>1, <1>2, <1>5, <2>1, <2>3, <3>1, RoundsAre
  <2> QED BY <2>2, <2>3
<1> QED BY <1>4, <1>11, <1>12, <1>13 DEF Rounds

\* Schedule::job_ended for a job that is dropped before it starts.
LEMMA DropRounds ==
  ASSUME Inv, Rounds, NEW j \in waiting, JobEnded(j.id, waiting \ {j}), UNCHANGED conv,
         agenda.queue = {}, agenda' = agenda
  PROVE  Rounds'
<1>1. waiting' = waiting \ {j} /\ left' = [left EXCEPT ![j.id] = SaturatingSub(@, 1)]
  BY DEF JobEnded
<1>2. left \in [Ids -> Nat] /\ waiting \subseteq Job /\ j.id \in Ids
  BY DEF Inv, TypeOK, SchedType, Job
<1>3. IsFiniteSet(waiting) /\ RoundsExact /\ JobsApart /\ IsFiniteSet(waiting')
  BY <1>1, FS_RemoveElement DEF Rounds
<1>4. Talking' = Talking /\ \A i \in Ids : EntryTalks(i)' = EntryTalks(i)
  BY DEF Talking, EntryTalks
<1>5. JobsApart' /\ ScanIdle'
  BY <1>1, <1>3, <1>4 DEF JobsApart, ScanIdle
<1>6. RoundsExact'
  <2> SUFFICES ASSUME NEW i \in Ids
               PROVE  left'[i] = Cardinality(WaitingOf(i)') + Cardinality(EntryTalks(i)')
    BY DEF RoundsExact, WaitingOf, EntryTalks
  <2>1. /\ left[i] = Cardinality(WaitingOf(i)) + Cardinality(EntryTalks(i)) /\ IsFiniteSet(WaitingOf(i))
        /\ Cardinality(WaitingOf(i)) \in Nat /\ Cardinality(EntryTalks(i)) \in Nat
    BY <1>3, RoundsAre
  <2>2. WaitingOf(i)' = WaitingOf(i) \ {j} /\ (j \in WaitingOf(i) <=> i = j.id)
    BY <1>1 DEF WaitingOf
  <2>3. CASE i = j.id
    <3>1. Cardinality(WaitingOf(i) \ {j}) = Cardinality(WaitingOf(i)) - 1 /\ Cardinality(WaitingOf(i)) > 0
      BY <2>1, <2>2, <2>3, OneCounts
    <3>2. left'[i] = left[i] - 1
      BY <1>1, <1>2, <2>1, <2>3, <3>1 DEF SaturatingSub
    <3> QED BY <1>4, <2>1, <2>2, <3>1, <3>2
  <2>4. CASE i # j.id
    <3>1. WaitingOf(i) \ {j} = WaitingOf(i)
      BY <2>2, <2>4
    <3> QED BY <1>1, <1>2, <1>4, <2>1, <2>2, <2>4, <3>1
  <2> QED BY <2>3, <2>4
<1> QED BY <1>3, <1>5, <1>6 DEF Rounds

\* A job that starts is still in hand.
LEMMA StartRounds ==
  ASSUME Inv, Rounds, NEW j \in waiting, NEW s \in Slots, StartJob(j, s)
  PROVE  Rounds'
<1> DEFINE c == [job |-> j, claimed |-> j.rcpts \ claims.rcpts, talk |-> ToSend(j),
                 own |-> Max({rcpt[r].throttled : r \in ToSend(j)})]
<1>1. TypeOK /\ waiting \subseteq Job /\ claims \in ClaimState /\ ToSend(j) # {} /\ left \in [Ids -> Nat]
  BY DEF Inv, TypeOK, SchedType, StartJob, Startable
<1>2. j \in Job /\ j.rcpts \in SUBSET Rcpts /\ ToSend(j) \subseteq Rcpts /\ j.id \in Ids
  BY <1>1 DEF Job, ToSend
<1>3. Max({rcpt[r].throttled : r \in ToSend(j)}) \in Levels
  BY <1>1, <1>2, ThrottledMax
<1>4. c \in Talk /\ c.job = j
  BY <1>2, <1>3 DEF Talk
<1>5. /\ conv[s] = NoTalk /\ conv' = [conv EXCEPT ![s] = c] /\ waiting' = waiting \ {j}
      /\ UNCHANGED <<left, agenda>> /\ pc = "fill"
  BY DEF StartJob, taskVars
<1> HIDE DEF c
<1>6. /\ s \notin Talking /\ Talking' = Talking \cup {s} /\ conv'[s] = c
      /\ \A t \in Talking : conv'[t] = conv[t]
      /\ \A i \in Ids : EntryTalks(i)' = IF i = j.id THEN EntryTalks(i) \cup {s} ELSE EntryTalks(i)
  <2>1. /\ s \notin Talking /\ Talking' = Talking \cup {s} /\ conv'[s] = c
        /\ \A t \in Talking : conv'[t] = conv[t]
        /\ \A i \in Ids : EntryTalks(i)' = IF i = c.job.id THEN EntryTalks(i) \cup {s} ELSE EntryTalks(i)
    <3>1. c \in Talk /\ conv[s] = NoTalk /\ conv' = [conv EXCEPT ![s] = c] /\ TypeOK
      BY <1>1, <1>4, <1>5
    <3> QED BY <3>1, TalkBegins
  <2> QED BY <1>4, <2>1
<1>7. IsFiniteSet(waiting) /\ RoundsExact /\ JobsApart /\ IsFiniteSet(waiting')
  BY <1>5, FS_RemoveElement DEF Rounds
<1>8. JobsApart'
  <2>1. \A k, l \in waiting' : Same(k, l) => k = l
    BY <1>5, <1>7 DEF JobsApart
  <2>2. \A t \in Talking' : \A k \in waiting' : ~Same(conv'[t].job, k)
    BY <1>4, <1>5, <1>6, <1>7 DEF JobsApart
  <2>3. \A t, v \in Talking' : Same(conv'[t].job, conv'[v].job) => t = v
    BY <1>4, <1>6, <1>7 DEF JobsApart, Same
  <2> QED BY <2>1, <2>2, <2>3 DEF JobsApart, Same
<1>9. ScanIdle'
  BY <1>5, NoAgendaLeft DEF Inv, ScanIdle
<1>10. RoundsExact'
  <2> SUFFICES ASSUME NEW i \in Ids
               PROVE  left'[i] = Cardinality(WaitingOf(i)') + Cardinality(EntryTalks(i)')
    BY DEF RoundsExact, WaitingOf, EntryTalks
  <2>1. /\ left[i] = Cardinality(WaitingOf(i)) + Cardinality(EntryTalks(i)) /\ IsFiniteSet(WaitingOf(i))
        /\ Cardinality(WaitingOf(i)) \in Nat /\ Cardinality(EntryTalks(i)) \in Nat
        /\ IsFiniteSet(EntryTalks(i))
    BY <1>7, RoundsAre
  <2>2. WaitingOf(i)' = WaitingOf(i) \ {j} /\ (j \in WaitingOf(i) <=> i = j.id) /\ s \notin EntryTalks(i)
    BY <1>5, <1>6 DEF WaitingOf, EntryTalks
  <2>3. CASE i = j.id
    <3>1. Cardinality(WaitingOf(i) \ {j}) = Cardinality(WaitingOf(i)) - 1
      BY <2>1, <2>2, <2>3, OneCounts
    <3>2. Cardinality(EntryTalks(i) \cup {s}) = Cardinality(EntryTalks(i)) + 1
      BY <2>1, <2>2, OneCounts
    <3>3. EntryTalks(i)' = EntryTalks(i) \cup {s} /\ left'[i] = left[i]
      BY <1>5, <1>6, <2>3
    <3> QED BY <2>1, <2>2, <3>1, <3>2, <3>3
  <2>4. CASE i # j.id
    <3>1. WaitingOf(i) \ {j} = WaitingOf(i)
      BY <2>2, <2>4
    <3> QED BY <1>5, <1>6, <2>1, <2>2, <2>4, <3>1
  <2> QED BY <2>3, <2>4
<1> QED BY <1>7, <1>8, <1>9, <1>10 DEF Rounds

\* The end of a conversation: its job is over, or goes on as the job of those
\* it left, which is none of the jobs that wait.
LEMMA EndRounds ==
  ASSUME Inv, Rounds, NEW s \in Slots, conv[s] \in Talk, conv[s] # NoTalk, EndConversation(s),
         agenda.queue = {}, agenda' = agenda
  PROVE  Rounds'
<1> DEFINE j == conv[s].job
           k == [j EXCEPT !.rcpts = RetryNow(s)]
<1>1. TypeOK /\ left \in [Ids -> Nat] /\ j \in Job /\ j.id \in Ids
  BY DEF Inv, TypeOK, SchedType, Talk, Job
<1>2. conv' = [conv EXCEPT ![s] = NoTalk]
  BY DEF EndConversation
<1>3. /\ s \in Talking /\ Talking' = Talking \ {s} /\ \A t \in Talking \ {s} : conv'[t] = conv[t]
      /\ \A i \in Ids : EntryTalks(i)' = EntryTalks(i) \ {s}
  BY <1>1, <1>2, TalkEnds
<1>4. IsFiniteSet(waiting) /\ RoundsExact /\ JobsApart
  BY DEF Rounds
<1>5. ScanIdle'
  BY DEF ScanIdle
<1>6. \A i \in Ids : /\ left[i] = Cardinality(WaitingOf(i)) + Cardinality(EntryTalks(i))
                     /\ IsFiniteSet(WaitingOf(i)) /\ IsFiniteSet(EntryTalks(i))
                     /\ Cardinality(WaitingOf(i)) \in Nat /\ Cardinality(EntryTalks(i)) \in Nat
  BY <1>4, RoundsAre
<1>7. \A i \in Ids : s \in EntryTalks(i) <=> i = j.id
  BY <1>3 DEF EntryTalks
<1>8. /\ Cardinality(EntryTalks(j.id) \ {s}) = Cardinality(EntryTalks(j.id)) - 1
      /\ Cardinality(EntryTalks(j.id)) > 0
  BY <1>1, <1>6, <1>7, OneCounts
<1>9. \A i \in Ids : i # j.id => EntryTalks(i) \ {s} = EntryTalks(i)
  BY <1>7
<1>10. CASE RetryNow(s) # {} /\ left[j.id] > 0
  <2>1. waiting' = waiting \cup {k} /\ left' = left
    BY <1>10 DEF EndConversation
  <2>2. k.id = j.id /\ k.dest = j.dest
    BY <1>1 DEF Job
  <2>3. \A l \in waiting : ~Same(k, l)
    BY <1>3, <1>4, <2>2 DEF JobsApart, Same
  <2>4. k \notin waiting
    BY <2>3 DEF Same
  <2>5. IsFiniteSet(waiting')
    BY <1>4, <2>1, FS_AddElement
  <2> HIDE DEF k
  <2>6. JobsApart'
    <3>1. \A l, m \in waiting' : Same(l, m) => l = m
      BY <1>4, <2>1, <2>3 DEF JobsApart, Same
    <3>2. \A t \in Talking' : \A l \in waiting' : ~Same(conv'[t].job, l)
      BY <1>3, <1>4, <2>1, <2>2 DEF JobsApart, Same
    <3>3. \A t, v \in Talking' : Same(conv'[t].job, conv'[v].job) => t = v
      BY <1>3, <1>4 DEF JobsApart
    <3> QED BY <3>1, <3>2, <3>3 DEF JobsApart, Same
  <2>7. ASSUME NEW i \in Ids PROVE left'[i] = Cardinality(WaitingOf(i)') + Cardinality(EntryTalks(i)')
    <3>1. CASE i = j.id
      <4>1. WaitingOf(i)' = WaitingOf(i) \cup {k} /\ k \notin WaitingOf(i)
        BY <2>1, <2>2, <2>4, <3>1 DEF WaitingOf
      <4>2. Cardinality(WaitingOf(i) \cup {k}) = Cardinality(WaitingOf(i)) + 1
        BY <1>6, <4>1, OneCounts
      <4>3. EntryTalks(i)' = EntryTalks(i) \ {s} /\ left'[i] = left[i]
        BY <1>3, <2>1
      <4>4. Cardinality(EntryTalks(i) \ {s}) = Cardinality(EntryTalks(i)) - 1
        BY <1>8, <3>1
      <4> QED BY <1>6, <4>1, <4>2, <4>3, <4>4
    <3>2. CASE i # j.id
      <4>1. WaitingOf(i)' = WaitingOf(i)
        BY <2>1, <2>2, <3>2 DEF WaitingOf
      <4> QED BY <1>3, <1>6, <1>9, <2>1, <3>2, <4>1
    <3> QED BY <3>1, <3>2
  <2> QED BY <1>5, <2>5, <2>6, <2>7 DEF Rounds, RoundsExact, WaitingOf, EntryTalks
<1>11. CASE ~(RetryNow(s) # {} /\ left[j.id] > 0)
  <2>1. waiting' = waiting /\ left' = [left EXCEPT ![j.id] = SaturatingSub(@, 1)]
    BY <1>11 DEF EndConversation, JobEnded
  <2>2. JobsApart'
    BY <1>3, <1>4, <2>1 DEF JobsApart, Same
  <2>3. \A i \in Ids : WaitingOf(i)' = WaitingOf(i)
    BY <2>1 DEF WaitingOf
  <2>4. left'[j.id] = left[j.id] - 1
    BY <1>1, <1>6, <1>8, <2>1 DEF SaturatingSub
  <2>5. ASSUME NEW i \in Ids PROVE left'[i] = Cardinality(WaitingOf(i)') + Cardinality(EntryTalks(i)')
    <3>1. CASE i = j.id
      <4>1. EntryTalks(i)' = EntryTalks(i) \ {s} /\ WaitingOf(i)' = WaitingOf(i)
        BY <1>3, <2>3
      <4>2. Cardinality(EntryTalks(i) \ {s}) = Cardinality(EntryTalks(i)) - 1 /\ left'[i] = left[i] - 1
        BY <1>8, <2>4, <3>1
      <4> QED BY <1>6, <4>1, <4>2
    <3>2. CASE i # j.id
      BY <1>1, <1>3, <1>6, <1>9, <2>1, <2>3, <3>2
    <3> QED BY <3>1, <3>2
  <2> QED BY <1>4, <1>5, <2>1, <2>2, <2>5 DEF Rounds, RoundsExact, WaitingOf, EntryTalks
<1> QED BY <1>10, <1>11

\* Every step keeps the rounds.
LEMMA RoundsStep ==
  ASSUME Inv, Rounds, Next
  PROVE  Rounds'
<1>1. ScanFresh /\ TypeOK
  BY DEF Inv
<1>2. CASE SchedKept
  <2>1. IsFiniteSet(waiting)' /\ JobsApart' /\ RoundsExact'
    BY <1>2 DEF SchedKept, Rounds, JobsApart, Same, RoundsExact, Talking
  <2>2. CASE ScanLoad
    <3>1. \A q \in agenda'.queue : left[q.id] = 0
      BY <2>2 DEF ScanLoad
    <3> QED BY <1>2, <2>1, <3>1 DEF SchedKept, ScanIdle, Rounds
  <2>3. CASE agenda'.queue \subseteq agenda.queue
    <3>1. \A q \in agenda.queue : left[q.id] = 0
      BY DEF Rounds, ScanIdle
    <3>2. left' = left
      BY <1>2 DEF SchedKept
    <3> QED BY <2>1, <2>3, <3>1, <3>2 DEF ScanIdle, Rounds
  <2> QED BY <1>1, <2>2, <2>3, AgendaCases
<1>3. CASE Crash
  <2>1. /\ waiting' = {} /\ left' = [i \in Ids |-> 0] /\ agenda'.queue = {} /\ Talking' = {}
    BY <1>3 DEF Crash, NoAgenda, Talking
  <2>2. IsFiniteSet({}) /\ Cardinality({}) = 0
    BY FS_EmptySet
  <2>3. JobsApart' /\ ScanIdle'
    BY <2>1 DEF JobsApart, ScanIdle
  <2>4. RoundsExact'
    BY <2>1, <2>2 DEF RoundsExact
  <2> QED BY <2>1, <2>2, <2>3, <2>4 DEF Rounds
<1>4. ASSUME NEW j \in waiting, DropHeldJob(j) \/ DropStaleJob(j) PROVE Rounds'
  <2>1. JobEnded(j.id, waiting \ {j}) /\ UNCHANGED <<conv, agenda>> /\ pc = "fill"
    BY <1>4 DEF DropHeldJob, DropStaleJob
  <2> QED BY <1>1, <2>1, NoAgendaLeft, DropRounds
<1>5. ASSUME AfterConversation PROVE Rounds'
  <2>1. /\ slot \in Slots /\ conv[slot] \in Talk /\ conv[slot] # NoTalk /\ EndConversation(slot)
        /\ pc = "after" /\ agenda' = agenda
    BY <1>5, EndCases DEF AfterConversation
  <2> QED BY <1>1, <2>1, NoAgendaLeft, EndRounds
<1>6. ASSUME NEW s \in Slots, RecordGone(s) \/ RecordFault(s) PROVE Rounds'
  <2>1. conv[s] \in Talk /\ conv[s] # NoTalk /\ EndConversation(s) /\ pc = "select" /\ agenda' = agenda
    BY <1>6, EndCases DEF RecordGone, RecordFault
  <2> QED BY <1>1, <2>1, NoAgendaLeft, EndRounds
<1> QED BY <1>2, <1>3, <1>4, <1>5, <1>6, SchedCases, QueueRounds, StartRounds

(***************************************************************************)
(* Who changes what the envelopes say of a recipient.                      *)
(***************************************************************************)
\* The actions that write recipient states.
LEMMA RcptCases ==
  ASSUME Next
  PROVE  \/ UNCHANGED rcpt \/ FinishExpire \/ ReportRefused \/ MarkReported
         \/ \E q \in agenda.queue : QueueEntry(q)
         \/ \E s \in Slots : Record(s)
         \/ \E d \in Dests : OpReleaseDestination(d)
<1> USE DEF diskVars
<1>1. ASSUME \E i \in Ids : Submit(i) PROVE UNCHANGED rcpt
  BY <1>1 DEF Submit
<1>2. ASSUME ScanBegin \/ ScanStep, ~\E q \in agenda.queue : QueueEntry(q) PROVE UNCHANGED rcpt
  BY <1>2 DEF ScanBegin, ScanStep, WriteWaiting, ScanOverdue, ScanLoad, QueueEntryError, ScanEnd
<1>3. ASSUME FillStep \/ AfterConversation PROVE UNCHANGED rcpt
  BY <1>3 DEF FillStep, DropHeldJob, DropStaleJob, StartJob, FillEnd, AfterConversation
<1>4. ASSUME FinishStep, ~FinishExpire, ~ReportRefused, ~MarkReported PROVE UNCHANGED rcpt
  BY <1>4 DEF FinishStep, FinishGone, FinishFault, NoReport, SendReport, Settle, Unlink
<1>5. ASSUME NEW s \in Slots, Remote(s) \/ Complete(s), ~Record(s) PROVE UNCHANGED rcpt
  BY <1>5 DEF Remote, Answer, AnswerLost, Complete, RecordGone, RecordFault
<1>6. ASSUME Operator, ~\E d \in Dests : OpReleaseDestination(d) PROVE UNCHANGED rcpt
  BY <1>6 DEF Operator, OpHold, OpRelease, OpRetry, OpRemove
<1>7. ASSUME Removal \/ Crash \/ Restart \/ Tick PROVE UNCHANGED rcpt
  BY <1>7 DEF Removal, OpCancel, OpUnconfirmed, OpRefused, OpUnlink, OpDie, Crash, Restart, Tick
<1> QED BY <1>1, <1>2, <1>3, <1>4, <1>5, <1>6, <1>7 DEF Next, WorkerStep

\* A mark that a failure was reported is never taken back.
LEMMA ReportedStays ==
  ASSUME TypeOK, Next, NEW r \in Rcpts, rcpt[r].reported
  PROVE  rcpt'[r].reported
<1>1. rcpt \in [Rcpts -> RecipientState] /\ rcpt[r] \in RecipientState
  BY DEF TypeOK, DiskType
<1>2. CASE UNCHANGED rcpt
  BY <1>2
<1>3. CASE FinishExpire
  BY <1>1, <1>3 DEF FinishExpire, ExpireStates, RecipientState
<1>4. CASE ReportRefused
  BY <1>1, <1>4 DEF ReportRefused, RefusedReport, RecipientState
<1>5. CASE MarkReported
  BY <1>1, <1>5 DEF MarkReported, RecipientState
<1>6. ASSUME NEW q \in agenda.queue, QueueEntry(q) PROVE rcpt'[r].reported
  BY <1>1, <1>6 DEF QueueEntry, FailedWithout, RecipientState
<1>7. ASSUME NEW s \in Slots, Record(s) PROVE rcpt'[r].reported
  <2>1. PICK w : rcpt' = Recorded(s, w)
    BY <1>7 DEF Record
  <2> QED BY <1>1, <2>1 DEF Recorded, RecipientState
<1>8. ASSUME NEW d \in Dests, OpReleaseDestination(d) PROVE rcpt'[r].reported
  BY <1>1, <1>8 DEF OpReleaseDestination, ReleasedStates, RecipientState
<1> QED BY <1>2, <1>3, <1>4, <1>5, <1>6, <1>7, <1>8, RcptCases

\* What the backoff is about: only Record and release-destination change it.
BackoffKept(r) == rcpt'[r].throttled = rcpt[r].throttled /\ rcpt'[r].next = rcpt[r].next

\* The other writes of an envelope leave it alone.
LEMMA BackoffCases ==
  ASSUME TypeOK, Next, ~\E s \in Slots : Record(s), ~\E d \in Dests : OpReleaseDestination(d)
  PROVE  \A r \in Rcpts : BackoffKept(r)
<1> SUFFICES ASSUME NEW r \in Rcpts PROVE BackoffKept(r)
  OBVIOUS
<1> USE DEF BackoffKept
<1>1. rcpt \in [Rcpts -> RecipientState] /\ rcpt[r] \in RecipientState
  BY DEF TypeOK, DiskType
<1>2. CASE UNCHANGED rcpt
  BY <1>2
<1>3. CASE FinishExpire
  BY <1>1, <1>3 DEF FinishExpire, ExpireStates, RecipientState
<1>4. CASE ReportRefused
  BY <1>1, <1>4 DEF ReportRefused, RefusedReport, RecipientState
<1>5. CASE MarkReported
  BY <1>1, <1>5 DEF MarkReported, RecipientState
<1>6. ASSUME NEW q \in agenda.queue, QueueEntry(q) PROVE BackoffKept(r)
  BY <1>1, <1>6 DEF QueueEntry, FailedWithout, RecipientState
<1> QED BY <1>2, <1>3, <1>4, <1>5, <1>6, RcptCases

(***************************************************************************)
(* The holds.                                                              *)
(***************************************************************************)
\* The recipients of a job are of its destination.
JobsTo ==
  /\ \A j \in waiting : \A r \in j.rcpts : DestOf[r] = j.dest
  /\ \A s \in Talking : \A r \in conv[s].talk : DestOf[r] = conv[s].job.dest

\* Nothing happened to the recipients of a message not submitted yet.
NewPlain == \A r \in Rcpts : env[EntryOf[r]].at = "absent" =>
                               rcpt[r].status = "pending" /\ rcpt[r].throttled = 0

\* What the spool says of a hold that has not ended, memory knows.
Throttled(r) == Queued(EntryOf[r]) /\ rcpt[r].status = "pending" /\ rcpt[r].throttled > 0
Cover == \A r \in Rcpts : Throttled(r) /\ rcpt[r].next > now => rcpt[r].next <= holds[DestOf[r]].until

\* Memory knows it while a job waits or runs and while the scan has entries to
\* queue: after a crash there is none of these until the spool is read again.
Busy == waiting # {} \/ agenda.queue # {} \/ Talking # {}
HoldsKnown == JobsTo /\ NewPlain /\ (Busy => Cover)

\* JobsOf makes a job per destination; a job keeps its destination.
LEMMA JobsToStep ==
  ASSUME Inv, JobsTo, Next
  PROVE  JobsTo'
<1>1. /\ conv \in [Slots -> Talk \cup {NoTalk}] /\ waiting \subseteq Job /\ NoTalk \notin Talk /\ TypeOK
  BY ConstantsAssumption DEF Inv, TypeOK, SchedType
<1>2. ASSUME UNCHANGED conv, \A j \in waiting' : \A r \in j.rcpts : DestOf[r] = j.dest PROVE JobsTo'
  BY <1>2 DEF JobsTo, Talking
<1>3. CASE SchedKept
  BY <1>2, <1>3 DEF SchedKept, JobsTo
<1>4. CASE Crash
  BY <1>4 DEF Crash, JobsTo, Talking
<1>5. ASSUME NEW q \in agenda.queue, QueueEntry(q) PROVE JobsTo'
  <2>1. waiting' = waiting \cup JobsOf(q) /\ UNCHANGED conv
    BY <1>5 DEF QueueEntry
  <2>2. \A j \in JobsOf(q) : \A r \in j.rcpts : DestOf[r] = j.dest
    BY DEF JobsOf
  <2> QED BY <1>2, <2>1, <2>2 DEF JobsTo
<1>6. ASSUME NEW j \in waiting, DropHeldJob(j) \/ DropStaleJob(j) PROVE JobsTo'
  <2>1. waiting' = waiting \ {j} /\ UNCHANGED conv
    BY <1>6 DEF DropHeldJob, DropStaleJob, JobEnded
  <2> QED BY <1>2, <2>1 DEF JobsTo
<1>7. ASSUME NEW j \in waiting, NEW s \in Slots, StartJob(j, s) PROVE JobsTo'
  <2>1. /\ waiting' = waiting \ {j} /\ conv'[s].job = j /\ conv'[s].talk \subseteq j.rcpts
        /\ \A t \in Slots \ {s} : conv'[t] = conv[t]
    BY <1>1, <1>7 DEF StartJob, ToSend
  <2>2. \A t \in Talking' : t = s \/ (t \in Talking /\ conv'[t] = conv[t])
    BY <2>1 DEF Talking
  <2> QED BY <2>1, <2>2 DEF JobsTo
<1>8. ASSUME NEW s \in Slots, conv[s] \in Talk, conv[s] # NoTalk, EndConversation(s) PROVE JobsTo'
  <2>1. Talking' = Talking \ {s} /\ s \in Talking /\ \A t \in Talking \ {s} : conv'[t] = conv[t]
    BY <1>1, <1>8, TalkEnds DEF EndConversation
  <2>2. conv[s].job \in Job /\ RetryNow(s) \subseteq conv[s].talk
    BY <1>8 DEF Talk, RetryNow, Said
  <2>3. waiting' \subseteq waiting \cup {[conv[s].job EXCEPT !.rcpts = RetryNow(s)]}
    BY <1>8 DEF EndConversation, JobEnded
  <2>4. \A j \in waiting' : \A r \in j.rcpts : DestOf[r] = j.dest
    BY <2>1, <2>2, <2>3 DEF JobsTo, Job
  <2> QED BY <2>1, <2>4 DEF JobsTo
<1> QED BY <1>3, <1>4, <1>5, <1>6, <1>7, <1>8, SchedCases, EndCases

\* A conversation is of recipients of an entry that was submitted.
LEMMA TalkersSubmitted ==
  ASSUME Inv, NEW s \in Slots, conv[s] # NoTalk, NEW r \in conv[s].talk
  PROVE  r \in Rcpts /\ EntryOf[r] = conv[s].job.id /\ s \in Talking /\ conv[s] \in Talk
<1>1. conv \in [Slots -> Talk \cup {NoTalk}] /\ s \in Talking
  BY DEF Inv, TypeOK, SchedType, Talking
<1> QED BY <1>1 DEF Inv, OneConversation, JobsOwn, RcptsOf, Talk

\* What Worker::record leaves alone.
LEMMA RecordSpares ==
  ASSUME Inv, NEW s \in Slots, Record(s), NEW r \in Rcpts, r \notin conv[s].talk
  PROVE  rcpt'[r] = rcpt[r]
<1>1. PICK w : rcpt' = Recorded(s, w)
  BY DEF Record
<1>2. r \notin RetryNow(s) /\ \A k : r \notin Said(s, k)
  BY DEF Said, RetryNow
<1> QED BY <1>1, <1>2 DEF Recorded

\* Worker::record, the expiry and the operator leave alone what is not queued.
LEMMA NewPlainStep ==
  ASSUME Inv, NewPlain, Next
  PROVE  NewPlain'
<1> SUFFICES ASSUME NEW r \in Rcpts, env'[EntryOf[r]].at = "absent"
             PROVE  rcpt'[r].status = "pending" /\ rcpt'[r].throttled = 0
  BY DEF NewPlain
<1>1. TypeOK /\ EntryOf[r] \in Ids /\ rcpt \in [Rcpts -> RecipientState] /\ rcpt[r] \in RecipientState
  BY ConstantsAssumption DEF Inv, TypeOK, DiskType
<1>2. env[EntryOf[r]].at = "absent"
  BY <1>1, EntriesDoNotReturn DEF NoReturn
<1>3. rcpt[r].status = "pending" /\ rcpt[r].throttled = 0
  BY <1>2 DEF NewPlain
<1>4. ASSUME NEW s \in Slots, Record(s) PROVE rcpt'[r] = rcpt[r]
  <2>1. conv[s] # NoTalk /\ env[conv[s].job.id].at = "queued"
    BY <1>4 DEF Record, Answered, Queued
  <2>2. r \notin conv[s].talk
    BY <1>2, <2>1, TalkersSubmitted
  <2> QED BY <1>4, <2>2, RecordSpares
<1>5. ASSUME NEW d \in Dests, OpReleaseDestination(d) PROVE rcpt'[r] = rcpt[r]
  BY <1>2, <1>5 DEF OpReleaseDestination, ReleasedStates, ThrottledFor, Queued
<1>6. rcpt'[r].throttled = 0
  BY <1>1, <1>3, <1>4, <1>5, BackoffCases DEF BackoffKept
<1>7. rcpt'[r].status = "pending"
  <2>1. CASE StatusKept
    BY <1>3, <2>1 DEF StatusKept
  <2>2. CASE FinishExpire
    <3>1. r \notin Expired(cur)
      BY <1>2, <2>2 DEF FinishExpire, Queued, Expired, Pending, PendingIn, RcptsOf
    <3> QED BY <1>3, <2>2, <3>1 DEF FinishExpire, ExpireStates
  <2>3. ASSUME NEW q \in agenda.queue, QueueEntry(q) PROVE rcpt'[r].status = "pending"
    <3>1. r \in Skipped(q) \cup Refused(q) => EntryOf[r] = q.id
      BY DEF Skipped, Refused, Free, Inv, ScanFresh, Pending, PendingIn, RcptsOf
    <3>2. r \notin Skipped(q) \cup Refused(q)
      BY <1>2, <2>3, <3>1 DEF QueueEntry, Queued
    <3> QED BY <1>3, <2>3, <3>2 DEF QueueEntry, FailedWithout
  <2> QED BY <1>1, <1>3, <1>4, <2>1, <2>2, <2>3, StatusCases
<1> QED BY <1>6, <1>7

\* Who changes the holds in memory.
LEMMA HoldsCases ==
  ASSUME Next
  PROVE  UNCHANGED holds \/ ScanLoad \/ Crash \/ \E s \in Slots : Record(s)
<1> USE DEF schedVars
<1>1. ASSUME \E i \in Ids : Submit(i) PROVE UNCHANGED holds
  BY <1>1 DEF Submit
<1>2. ASSUME ScanBegin \/ ScanStep, ~ScanLoad PROVE UNCHANGED holds
  BY <1>2 DEF ScanBegin, ScanStep, WriteWaiting, ScanOverdue, QueueEntry, QueueEntryError, ScanEnd
<1>3. ASSUME FillStep \/ AfterConversation PROVE UNCHANGED holds
  BY <1>3 DEF FillStep, DropHeldJob, DropStaleJob, StartJob, FillEnd, AfterConversation
<1>4. ASSUME FinishStep PROVE UNCHANGED holds
  BY <1>4 DEF FinishStep, FinishGone, FinishFault, FinishExpire, NoReport, SendReport, ReportRefused,
              MarkReported, Settle, Unlink
<1>5. ASSUME NEW s \in Slots, Remote(s) \/ Complete(s), ~Record(s) PROVE UNCHANGED holds
  BY <1>5 DEF Remote, Answer, AnswerLost, Complete, RecordGone, RecordFault
<1>6. ASSUME Operator \/ Removal PROVE UNCHANGED holds
  BY <1>6 DEF Operator, OpHold, OpRelease, OpRetry, OpRemove, OpReleaseDestination, Removal,
              OpCancel, OpUnconfirmed, OpRefused, OpUnlink, OpDie
<1>7. ASSUME Restart \/ Tick PROVE UNCHANGED holds
  BY <1>7 DEF Restart, Tick
<1> QED BY <1>1, <1>2, <1>3, <1>4, <1>5, <1>6, <1>7 DEF Next, WorkerStep

\* The clock does not go back.
LEMMA NowGrows ==
  ASSUME TypeOK, Next
  PROVE  now' \in Nat /\ now \in Nat /\ now <= now'
<1> USE DEF worldVars
<1>1. now \in Nat
  BY ConstantsAssumption DEF TypeOK, WorldType, Times
<1>2. ASSUME ScanBegin \/ ScanStep \/ \E i \in Ids : Submit(i) PROVE now' = now
  BY <1>2 DEF Submit, ScanBegin, ScanStep, WriteWaiting, ScanOverdue, ScanLoad, QueueEntry,
              QueueEntryError, ScanEnd
<1>3. ASSUME FillStep \/ AfterConversation PROVE now' = now
  BY <1>3 DEF FillStep, DropHeldJob, DropStaleJob, StartJob, FillEnd, AfterConversation
<1>4. ASSUME FinishStep PROVE now' = now
  BY <1>4 DEF FinishStep, FinishGone, FinishFault, FinishExpire, NoReport, SendReport, ReportRefused,
              MarkReported, Settle, Unlink
<1>5. ASSUME NEW s \in Slots, Remote(s) \/ Complete(s) PROVE now' = now
  BY <1>5 DEF Remote, Answer, AnswerLost, Complete, Record, RecordGone, RecordFault
<1>6. ASSUME Operator \/ Removal PROVE now' = now
  BY <1>6 DEF Operator, OpHold, OpRelease, OpRetry, OpRemove, OpReleaseDestination, Removal,
              OpCancel, OpUnconfirmed, OpRefused, OpUnlink, OpDie
<1>7. ASSUME Crash \/ Restart PROVE now' = now
  BY <1>7 DEF Crash, Restart
<1>8. ASSUME Tick PROVE now' = now + 1
  BY <1>8 DEF Tick
<1> QED BY <1>1, <1>2, <1>3, <1>4, <1>5, <1>6, <1>7, <1>8 DEF Next, WorkerStep

\* The worker gets something to do from a scan that read the spool.
LEMMA BusyCases ==
  ASSUME Inv, Next, Busy'
  PROVE  ScanLoad \/ (Busy /\ ~Crash)
<1>1. TypeOK
  BY DEF Inv
<1>2. CASE SchedKept /\ ~Crash
  <2>1. waiting' = waiting /\ Talking' = Talking
    BY <1>2 DEF SchedKept, Talking
  <2> QED BY <1>1, <1>2, <2>1, AgendaCases DEF Busy
<1>3. ~Crash
  BY DEF Crash, Busy, NoAgenda, Talking
<1>4. ASSUME NEW s \in Slots, conv[s] # NoTalk PROVE Busy
  BY <1>4 DEF Busy, Talking
<1>5. CASE AfterConversation \/ \E s \in Slots : RecordGone(s) \/ RecordFault(s)
  BY <1>3, <1>4, <1>5, EndCases
<1>6. CASE (\E q \in agenda.queue : QueueEntry(q))
             \/ \E j \in waiting : DropHeldJob(j) \/ DropStaleJob(j) \/ \E s \in Slots : StartJob(j, s)
  BY <1>3, <1>6 DEF Busy
<1> QED BY <1>2, <1>3, <1>5, <1>6, SchedCases

\* A recipient that waits after a slow-down was queued and pending before.
LEMMA WasWaiting ==
  ASSUME Inv, NewPlain, Next, NEW r \in Rcpts, Queued(EntryOf[r])', rcpt'[r].status = "pending",
         ~(\E i \in Ids : Submit(i)) \/ rcpt[r].throttled > 0
  PROVE  Queued(EntryOf[r]) /\ rcpt[r].status = "pending"
<1>1. TypeOK /\ EntryOf[r] \in Ids /\ env \in [Ids -> Envelope]
  BY ConstantsAssumption DEF Inv, TypeOK, DiskType
<1>2. rcpt[r].status = "pending"
  BY StatusFinalStep DEF Inv
<1>3. env'[EntryOf[r]].at = "queued"
  BY DEF Queued
<1>4. CASE AtKept
  BY <1>1, <1>2, <1>3, <1>4 DEF AtKept, Queued
<1>5. CASE Unlink
  <2>1. cur \in Ids
    BY <1>1, <1>5 DEF Unlink, TypeOK, TaskType, Settling
  <2>2. env' = [env EXCEPT ![cur].at = "removed"] \/ env' = env
    BY <1>5 DEF Unlink
  <2>3. env[EntryOf[r]].at = "queued"
    BY <1>1, <1>3, <2>1, <2>2 DEF Envelope
  <2> QED BY <1>2, <2>3 DEF Queued
<1>6. CASE OpUnlink
  <2>1. opId \in Ids /\ env' = [env EXCEPT ![opId].at = "canceled"]
    BY <1>1, <1>6 DEF OpUnlink, TypeOK, WorldType
  <2>2. env[EntryOf[r]].at = "queued"
    BY <1>1, <1>3, <2>1 DEF Envelope
  <2> QED BY <1>2, <2>2 DEF Queued
<1>7. CASE \E i \in Ids : Submit(i)
  <2>1. PICK i \in Ids : Submit(i)
    BY <1>7
  <2>2. rcpt[r].throttled > 0 /\ env[i].at = "absent"
        /\ env' = [env EXCEPT ![i].at = "queued", ![i].created = now]
    BY <1>7, <2>1 DEF Submit
  <2>3. EntryOf[r] # i
    BY <1>1, <2>2 DEF NewPlain
  <2>4. env'[EntryOf[r]] = env[EntryOf[r]]
    BY <1>1, <2>2, <2>3
  <2> QED BY <1>2, <1>3, <2>4 DEF Queued
<1> QED BY <1>1, <1>4, <1>5, <1>6, <1>7, PlaceCases

\* Worker::record notes the hold in memory, longest first, when it writes it
\* to the spool.
LEMMA HoldNoted ==
  ASSUME Inv, NEW s \in Slots, Record(s)
  PROVE  /\ holds' \in [Dests -> Hold] /\ holds \in [Dests -> Hold]
         /\ conv[s] \in Talk /\ conv[s].job.dest \in Dests
         /\ \A d \in Dests : holds[d].until <= holds'[d].until
         /\ Said(s, {"slow"}) # {} => SlowDown(s).until <= holds'[conv[s].job.dest].until
<1> DEFINE d0 == conv[s].job.dest
<1>1. TypeOK /\ holds \in [Dests -> Hold] /\ conv[s] \in Talk /\ d0 \in Dests
  BY DEF Inv, TypeOK, SchedType, Record, Answered, Talk, Job
<1>2. MaxTime \in Nat /\ SlowDown(s).until \in Times /\ \A d \in Dests : holds[d].until \in Times
  BY <1>1, SlowDownType, ConstantsAssumption DEF Hold
<1>3. CASE Said(s, {"slow"}) = {}
  <2>1. holds' = holds
    BY <1>3 DEF Record
  <2> QED BY <1>1, <1>2, <1>3, <2>1 DEF Times
<1>4. CASE Said(s, {"slow"}) # {}
  <2> DEFINE n == Noted(holds[d0], SlowDown(s).until, SlowDown(s).deferrals)
  <2>1. holds' = [holds EXCEPT ![d0] = n]
    BY <1>4 DEF Record
  <2>2. n \in Hold
    BY <1>1, SlowDownType
  <2>3. n.until = Max({holds[d0].until, SlowDown(s).until})
    BY DEF Noted
  <2>4. holds[d0].until <= n.until /\ SlowDown(s).until <= n.until
    <3>1. {holds[d0].until, SlowDown(s).until} \subseteq 0..MaxTime
      BY <1>1, <1>2 DEF Times
    <3> QED BY <1>2, <2>3, <3>1, MaxIn
  <2> HIDE DEF n
  <2>5. holds' \in [Dests -> Hold] /\ holds'[d0] = n /\ \A d \in Dests \ {d0} : holds'[d] = holds[d]
    BY <1>1, <2>1, <2>2
  <2> QED BY <1>1, <1>2, <2>4, <2>5 DEF Times
<1> QED BY <1>3, <1>4

\* What Worker::record writes of a recipient it leaves waiting.
LEMMA RecordWaits ==
  ASSUME Inv, NEW s \in Slots, Record(s), NEW r \in conv[s].talk, rcpt'[r].status = "pending"
  PROVE  \/ rcpt'[r] = rcpt[r] \/ rcpt'[r].next = now \/ rcpt'[r].throttled = 0
         \/ Said(s, {"slow"}) # {} /\ rcpt'[r].next = SlowDown(s).until
<1>1. PICK w : rcpt' = Recorded(s, w)
  BY DEF Record
<1>2. r \in Rcpts /\ rcpt[r] \in RecipientState
  BY TalkersSubmitted DEF Inv, TypeOK, DiskType, Record, Answered
<1> DEFINE a == answer[s][r]
           Q == rcpt'[r]
<1>3. \A k : r \in Said(s, k) <=> a \in k
  BY DEF Said
<1>4. a \notin {"ok", "refused", "bad"}
  <2>1. TypeOK /\ r \notin Said(s, {"ok"}) /\ r \notin Said(s, {"refused", "bad"})
    BY <1>2, RecordGives DEF Inv
  <2> QED BY <1>3, <2>1
<1>5. CASE r \in RetryNow(s)
  BY <1>1, <1>2, <1>3, <1>4, <1>5 DEF Recorded, RecipientState
<1>6. CASE r \notin RetryNow(s) /\ a \in {"deferred", "slow", "toomany"}
  <2>1. Q = IF Said(s, {"slow"}) # {}
              THEN [rcpt[r] EXCEPT !.next = SlowDown(s).until, !.throttled = SlowDown(s).deferrals]
              ELSE [rcpt[r] EXCEPT !.next = Later(w[r]), !.throttled = 0]
    BY <1>1, <1>2, <1>3, <1>4, <1>6 DEF Recorded
  <2> QED BY <1>2, <2>1 DEF RecipientState
<1>7. CASE r \notin RetryNow(s) /\ a \notin {"deferred", "slow", "toomany"}
  BY <1>1, <1>2, <1>3, <1>4, <1>7 DEF Recorded
<1> QED BY <1>5, <1>6, <1>7

\* Every step but the scan that reads the spool afresh, and a crash.
LEMMA CoverStep ==
  ASSUME Inv, JobsTo, NewPlain, Cover, Next, ~Crash, ~ScanLoad
  PROVE  Cover'
<1> SUFFICES ASSUME NEW r \in Rcpts, Throttled(r)', rcpt'[r].next > now'
             PROVE  rcpt'[r].next <= holds'[DestOf[r]].until
  BY DEF Cover
<1>1. /\ TypeOK /\ TypeOK' /\ DestOf[r] \in Dests /\ rcpt[r] \in RecipientState /\ rcpt'[r] \in RecipientState
      /\ holds \in [Dests -> Hold] /\ MaxTime \in Nat
  BY TypeNext, ConstantsAssumption DEF Inv, TypeOK, DiskType, SchedType
<1>2. now \in Nat /\ now' \in Nat /\ now <= now' /\ rcpt[r].next \in Nat /\ rcpt'[r].next \in Nat
      /\ \A d \in Dests : holds[d].until \in Nat
  BY <1>1, NowGrows DEF RecipientState, Hold, Times
<1>3. Queued(EntryOf[r])' /\ rcpt'[r].status = "pending" /\ rcpt'[r].throttled > 0
  BY DEF Throttled
<1>4. ASSUME BackoffKept(r) PROVE rcpt'[r].next = rcpt[r].next /\ rcpt[r].next <= holds[DestOf[r]].until
  <2>1. rcpt[r].throttled > 0 /\ rcpt[r].next = rcpt'[r].next
    BY <1>3, <1>4 DEF BackoffKept
  <2>2. Throttled(r)
    BY <1>3, <2>1, WasWaiting DEF Throttled
  <2>3. rcpt[r].next > now
    BY <1>2, <2>1
  <2> QED BY <2>1, <2>2, <2>3 DEF Cover
<1>5. ASSUME NEW s \in Slots, Record(s) PROVE rcpt'[r].next <= holds'[DestOf[r]].until
  <2>1. CASE rcpt'[r] = rcpt[r]
    <3>1. rcpt'[r].next <= holds[DestOf[r]].until
      BY <1>4, <2>1 DEF BackoffKept
    <3>2. holds'[DestOf[r]].until \in Nat /\ holds[DestOf[r]].until <= holds'[DestOf[r]].until
      BY <1>1, <1>5, HoldNoted DEF Hold, Times
    <3> QED BY <1>1, <1>2, <3>1, <3>2
  <2>2. CASE r \in conv[s].talk /\ rcpt'[r] # rcpt[r]
    <3>1. s \in Talking /\ now' = now
      BY <1>5 DEF Record, Answered, Talking, worldVars
    <3>2. DestOf[r] = conv[s].job.dest
      BY <2>2, <3>1 DEF JobsTo
    <3>3. rcpt'[r].next # now /\ rcpt'[r].throttled # 0
      BY <1>2, <1>3, <3>1
    <3>4. Said(s, {"slow"}) # {} /\ rcpt'[r].next = SlowDown(s).until
      BY <1>3, <1>5, <2>2, <3>3, RecordWaits
    <3> QED BY <1>5, <3>2, <3>4, HoldNoted
  <2> QED BY <1>5, <2>1, <2>2, RecordSpares
<1>6. ASSUME ~\E s \in Slots : Record(s) PROVE rcpt'[r].next <= holds'[DestOf[r]].until
  <2>1. holds' = holds
    BY <1>6, HoldsCases
  <2>2. CASE BackoffKept(r)
    BY <1>4, <2>1, <2>2
  <2>3. ASSUME NEW d \in Dests, OpReleaseDestination(d), ~BackoffKept(r) PROVE FALSE
    <3>1. rcpt'[r].throttled = 0
      BY <1>1, <2>3 DEF OpReleaseDestination, ReleasedStates, RecipientState, BackoffKept
    <3> QED BY <1>3, <3>1
  <2> QED BY <1>1, <1>6, <2>2, <2>3, BackoffCases
<1> QED BY <1>5, <1>6

\* The scan takes the holds from the spool.
LEMMA LoadCovers ==
  ASSUME Inv, ScanLoad
  PROVE  Cover'
<1> SUFFICES ASSUME NEW r \in Rcpts, Throttled(r)'
             PROVE  rcpt'[r].next <= holds'[DestOf[r]].until
  BY DEF Cover
<1> DEFINE d == DestOf[r]
           S == {rcpt[q].next : q \in ThrottledFor(d)}
<1>1. d \in Dests /\ rcpt \in [Rcpts -> RecipientState] /\ MaxTime \in Nat
  BY ConstantsAssumption DEF Inv, TypeOK, DiskType
<1>2. rcpt' = rcpt /\ env' = env /\ holds'[d] = SpoolHold(d)
  BY <1>1 DEF ScanLoad, diskVars
<1>3. r \in ThrottledFor(d)
  BY <1>2 DEF ThrottledFor, Throttled, Queued
<1>4. S \subseteq 0..MaxTime /\ S # {} /\ rcpt[r].next \in S
  BY <1>1, <1>3 DEF ThrottledFor, RecipientState, Times
<1>5. rcpt[r].next <= Max(S)
  <2> HIDE DEF S
  <2> QED BY <1>1, <1>4, MaxIn
<1>6. SpoolHold(d).until = Max(S)
  BY <1>3 DEF SpoolHold
<1> QED BY <1>2, <1>5, <1>6

\* Every step keeps what memory must know of the holds.
LEMMA HoldsKnownStep ==
  ASSUME Inv, HoldsKnown, Next
  PROVE  HoldsKnown'
<1>1. JobsTo' /\ NewPlain'
  BY JobsToStep, NewPlainStep DEF HoldsKnown
<1>2. ASSUME Busy' PROVE Cover'
  <2>1. CASE ScanLoad
    BY <2>1, LoadCovers
  <2>2. CASE ~ScanLoad
    BY <1>2, <2>2, BusyCases, CoverStep DEF HoldsKnown
  <2> QED BY <2>1, <2>2
<1> QED BY <1>1, <1>2 DEF HoldsKnown

\* The hold of the spool is that of one of its recipients.
LEMMA KnownCovers ==
  ASSUME Inv, HoldsKnown
  PROVE  HoldsCover
<1> SUFFICES ASSUME waiting # {}, NEW d \in Dests, SpoolHold(d).until > now
             PROVE  holds[d].until >= SpoolHold(d).until
  BY DEF HoldsCover
<1> DEFINE S == {rcpt[q].next : q \in ThrottledFor(d)}
<1>1. /\ rcpt \in [Rcpts -> RecipientState] /\ holds \in [Dests -> Hold] /\ MaxTime \in Nat /\ now \in Nat
      /\ Cover
  BY ConstantsAssumption DEF Inv, TypeOK, DiskType, SchedType, WorldType, Times, HoldsKnown, Busy
<1>2. ThrottledFor(d) # {}
  BY <1>1 DEF SpoolHold, NoHold
<1>3. SpoolHold(d).until = Max(S)
  BY <1>2 DEF SpoolHold
<1>4. S \subseteq 0..MaxTime /\ S # {}
  BY <1>1, <1>2 DEF ThrottledFor, RecipientState, Times
<1>5. Max(S) \in S
  <2> HIDE DEF S
  <2> QED BY <1>1, <1>4, MaxIn
<1>6. PICK r \in ThrottledFor(d) : rcpt[r].next = Max(S)
  BY <1>5
<1>7. r \in Rcpts /\ DestOf[r] = d /\ Throttled(r) /\ rcpt[r].next > now
  BY <1>3, <1>6 DEF ThrottledFor, Throttled
<1>8. rcpt[r].next <= holds[d].until /\ rcpt[r].next \in Nat /\ holds[d].until \in Nat
  BY <1>1, <1>7 DEF Cover, RecipientState, Hold, Times
<1> QED BY <1>3, <1>6, <1>8

(***************************************************************************)
(* The reports.                                                            *)
(***************************************************************************)
\* A report a crash or a failed write did not take the mark of is marked in
\* the envelope, about to be, or the entry is gone.
Told(r) == rcpt[r].reported \/ env[EntryOf[r]].at \in Gone \/ (pc = "mark" /\ cur = EntryOf[r])
Mishaps == spent.crashes + spent.faults
ReportsCounted == \A r \in Rcpts : dsn[r] <= Mishaps + (IF Told(r) THEN 1 ELSE 0)

\* Mishaps are counted, never forgotten.
LEMMA MishapsGrow ==
  ASSUME TypeOK, Next
  PROVE  /\ Mishaps \in Nat /\ Mishaps' \in Nat /\ Mishaps <= Mishaps'
         /\ Crash \/ FinishFault => Mishaps' = Mishaps + 1
<1> USE DEF worldVars
<1>1. spent \in Spent /\ spent.crashes \in Nat /\ spent.faults \in Nat
  BY DEF TypeOK, WorldType, Spent
<1> DEFINE More == Mishaps' \in Nat /\ Mishaps <= Mishaps'
<1>2. ASSUME UNCHANGED spent PROVE More
  BY <1>1, <1>2 DEF Mishaps
<1>3. ASSUME Fault PROVE More /\ Mishaps' = Mishaps + 1
  BY <1>1, <1>3 DEF Fault, Mishaps, Spent
<1>4. ASSUME spent' = [spent EXCEPT !.crashes = @ + 1] PROVE More /\ Mishaps' = Mishaps + 1
  BY <1>1, <1>4 DEF Mishaps, Spent
<1>5. ASSUME NEW k, Command(k) PROVE More
  BY <1>1, <1>5 DEF Command, Mishaps, Spent
<1>6. \A recs, noted : RecordOutcomes(recs, noted) => UNCHANGED spent \/ Fault
  BY DEF RecordOutcomes
<1> HIDE DEF More
<1>7. ASSUME ScanBegin \/ ScanStep \/ \E i \in Ids : Submit(i) PROVE More
  BY <1>2, <1>3, <1>6, <1>7 DEF Submit, ScanBegin, ScanStep, WriteWaiting, ScanOverdue, ScanLoad, QueueEntry,
              QueueEntryError, ScanEnd
<1>8. ASSUME FillStep \/ AfterConversation PROVE More
  BY <1>2, <1>3, <1>6, <1>8 DEF FillStep, DropHeldJob, DropStaleJob, StartJob, FillEnd, AfterConversation
<1>9. ASSUME FinishStep PROVE More
  BY <1>2, <1>3, <1>6, <1>9 DEF FinishStep, FinishGone, FinishFault, FinishExpire, NoReport, SendReport,
              ReportRefused, MarkReported, Settle, Unlink
<1>10. ASSUME NEW s \in Slots, Remote(s) \/ Complete(s) PROVE More
  BY <1>2, <1>3, <1>10 DEF Remote, Answer, AnswerLost, Complete, Record, RecordGone, RecordFault
<1>11. ASSUME Operator PROVE More
  BY <1>5, <1>11 DEF Operator, OpHold, OpRelease, OpRetry, OpRemove, OpReleaseDestination
<1>12. ASSUME Removal PROVE More
  BY <1>2, <1>3, <1>4, <1>12 DEF Removal, OpCancel, OpUnconfirmed, OpRefused, OpUnlink, OpDie
<1>13. ASSUME Crash \/ Restart \/ Tick PROVE More
  BY <1>2, <1>4, <1>13 DEF Crash, Restart, Tick
<1>14. More
  BY <1>7, <1>8, <1>9, <1>10, <1>11, <1>12, <1>13 DEF Next, WorkerStep
<1>15. Crash \/ FinishFault => Mishaps' = Mishaps + 1
  BY <1>3, <1>4 DEF Crash, FinishFault
<1> QED BY <1>1, <1>14, <1>15 DEF More, Mishaps

\* While the worker is about to mark a report, it or a crash ends that, and
\* the operator does not.
LEMMA MarkSteps ==
  ASSUME Next, pc = "mark"
  PROVE  FinishGone \/ FinishFault \/ MarkReported \/ Crash \/ UNCHANGED <<pc, cur, dsn>>
<1> USE DEF taskVars, histVars
<1>1. ~ScanBegin /\ ~ScanStep /\ ~FillStep /\ ~AfterConversation /\ ~Restart /\ ~Tick /\ ~\E i \in Ids : Submit(i)
  BY DEF Submit, ScanBegin, ScanStep, WriteWaiting, ScanOverdue, ScanLoad, QueueEntry, QueueEntryError,
         ScanEnd, FillStep, DropHeldJob, DropStaleJob, StartJob, FillEnd, AfterConversation, Restart, Tick
<1>2. ~\E s \in Slots : Remote(s) \/ Complete(s)
  BY DEF Remote, Answer, AnswerLost, Complete, Record, RecordGone, RecordFault, Answered
<1>3. FinishStep => FinishGone \/ FinishFault \/ MarkReported
  BY DEF FinishStep, FinishExpire, NoReport, SendReport, ReportRefused, Settle, Unlink
<1>4. Operator \/ Removal => UNCHANGED <<pc, cur, dsn>>
  BY DEF Operator, OpHold, OpRelease, OpRetry, OpRemove, OpReleaseDestination, Removal,
         OpCancel, OpUnconfirmed, OpRefused, OpUnlink, OpDie
<1> QED BY <1>1, <1>2, <1>3, <1>4 DEF Next, WorkerStep

\* Reports go out in SendReport.
LEMMA ReportCases ==
  ASSUME Next
  PROVE  UNCHANGED dsn \/ SendReport
<1> USE DEF histVars
<1>1. ASSUME \E i \in Ids : Submit(i) PROVE UNCHANGED dsn
  BY <1>1 DEF Submit
<1>2. ASSUME ScanBegin \/ ScanStep PROVE UNCHANGED dsn
  BY <1>2 DEF ScanBegin, ScanStep, WriteWaiting, ScanOverdue, ScanLoad, QueueEntry, QueueEntryError, ScanEnd
<1>3. ASSUME FillStep \/ AfterConversation PROVE UNCHANGED dsn
  BY <1>3 DEF FillStep, DropHeldJob, DropStaleJob, StartJob, FillEnd, AfterConversation
<1>4. ASSUME FinishStep, ~SendReport PROVE UNCHANGED dsn
  BY <1>4 DEF FinishStep, FinishGone, FinishFault, FinishExpire, NoReport, ReportRefused,
              MarkReported, Settle, Unlink
<1>5. ASSUME NEW s \in Slots, Remote(s) \/ Complete(s) PROVE UNCHANGED dsn
  BY <1>5 DEF Remote, Answer, AnswerLost, Complete, Record, RecordGone, RecordFault
<1>6. ASSUME Operator \/ Removal \/ Crash \/ Restart \/ Tick PROVE UNCHANGED dsn
  BY <1>6 DEF Operator, OpHold, OpRelease, OpRetry, OpRemove, OpReleaseDestination, Removal,
              OpCancel, OpUnconfirmed, OpRefused, OpUnlink, OpDie, Crash, Restart, Tick
<1> QED BY <1>1, <1>2, <1>3, <1>4, <1>5, <1>6 DEF Next, WorkerStep

\* Every step keeps the count of reports.
LEMMA ReportsCountedStep ==
  ASSUME Inv, NewPlain, ReportsCounted, Next
  PROVE  ReportsCounted'
<1> SUFFICES ASSUME NEW r \in Rcpts PROVE dsn'[r] <= Mishaps' + (IF Told(r)' THEN 1 ELSE 0)
  BY DEF ReportsCounted
<1>1. /\ TypeOK /\ EntryOf[r] \in Ids /\ rcpt \in [Rcpts -> RecipientState] /\ rcpt[r] \in RecipientState
      /\ env \in [Ids -> Envelope] /\ dsn \in [Rcpts -> Nat] /\ dsn[r] \in Nat
  BY ConstantsAssumption DEF Inv, TypeOK, DiskType, WorldType
<1>2. dsn[r] <= Mishaps + (IF Told(r) THEN 1 ELSE 0)
  BY DEF ReportsCounted
<1>3. Mishaps \in Nat /\ Mishaps' \in Nat /\ Mishaps <= Mishaps' /\ (Crash \/ FinishFault => Mishaps' = Mishaps + 1)
  BY <1>1, MishapsGrow
<1>4. ASSUME rcpt[r].reported \/ env[EntryOf[r]].at \in Gone PROVE Told(r)'
  BY <1>1, <1>4, ReportedStays, EntriesDoNotReturn DEF Told, NoReturn
<1>5. CASE SendReport
  <2>1. pc = "report" /\ Queued(cur) /\ pc' = "mark" /\ cur' = cur
    BY <1>5 DEF SendReport, GoTo
  <2>2. CASE r \in Unreported(cur) \ NoDsn
    <3>1. EntryOf[r] = cur /\ ~rcpt[r].reported
      BY <2>2 DEF Unreported, RcptsOf
    <3>2. ~Told(r) /\ Told(r)'
      BY <2>1, <3>1 DEF Told, Queued, Gone
    <3>3. dsn'[r] \in Nat /\ dsn'[r] <= dsn[r] + 1
      BY <1>1, <1>5, <2>2 DEF SendReport
    <3> QED BY <1>1, <1>2, <1>3, <3>2, <3>3
  <2>3. CASE r \notin Unreported(cur) \ NoDsn
    <3>1. dsn'[r] = dsn[r]
      BY <1>5, <2>3 DEF SendReport
    <3>2. Told(r) => Told(r)'
      BY <1>4, <2>1 DEF Told
    <3> QED BY <1>1, <1>2, <1>3, <3>1, <3>2
  <2> QED BY <2>2, <2>3
<1>6. CASE UNCHANGED dsn
  <2>1. CASE ~Told(r) \/ Told(r)'
    BY <1>1, <1>2, <1>3, <1>6, <2>1
  <2>2. CASE dsn[r] = 0
    <3>1. CASE Told(r)'
      BY <2>1, <3>1
    <3>2. CASE ~Told(r)'
      <4>1. dsn'[r] = 0 /\ Mishaps' \in Nat
        BY <1>3, <1>6, <2>2
      <4>2. (IF Told(r)' THEN 1 ELSE 0) = 0
        BY <3>2
      <4>3. \A m \in Nat : 0 <= m + 0
        OBVIOUS
      <4> QED BY <4>1, <4>2, <4>3
    <3> QED BY <3>1, <3>2
  <2>3. CASE Crash \/ FinishFault
    BY <1>1, <1>2, <1>3, <1>6, <2>3
  <2>4. CASE /\ dsn[r] > 0 /\ pc = "mark" /\ cur = EntryOf[r] /\ FinishGone
    <3>1. rcpt[r].status = "failed"
      BY <2>4 DEF Inv, ReportsFailed
    <3>2. env[EntryOf[r]].at \in Gone
      BY <1>1, <2>4, <3>1 DEF FinishGone, Queued, NewPlain, Envelope, Gone
    <3> QED BY <1>4, <2>1, <3>2
  <2>5. CASE /\ dsn[r] > 0 /\ pc = "mark" /\ cur = EntryOf[r] /\ MarkReported
    <3>1. rcpt[r].status = "failed"
      BY <2>5 DEF Inv, ReportsFailed
    <3>2. CASE rcpt[r].reported
      BY <1>4, <2>1, <3>2
    <3>3. CASE ~rcpt[r].reported
      <4>1. r \in Unreported(cur)
        BY <2>5, <3>1, <3>3 DEF Unreported, RcptsOf
      <4>2. rcpt'[r].reported
        BY <1>1, <2>5, <4>1 DEF MarkReported, RecipientState
      <4> QED BY <2>1, <4>2 DEF Told
    <3> QED BY <3>2, <3>3
  <2>6. CASE pc = "mark" /\ cur = EntryOf[r] /\ UNCHANGED <<pc, cur>>
    BY <2>1, <2>6 DEF Told
  <2>7. CASE Told(r) /\ ~Told(r)' /\ dsn[r] # 0 /\ ~Crash /\ ~FinishFault
    <3>1. pc = "mark" /\ cur = EntryOf[r] /\ dsn[r] > 0
      BY <1>1, <1>4, <2>7 DEF Told
    <3> QED BY <2>4, <2>5, <2>6, <2>7, <3>1, MarkSteps
  <2> QED BY <2>1, <2>2, <2>3, <2>7
<1> QED BY <1>5, <1>6, ReportCases

(***************************************************************************)
(* Failures are told before the entry goes.                                *)
(***************************************************************************)
\* Outcomes are owed for mail whose evidence is mandatory, and only such an
\* entry is removed by write_waiting_outcomes.
OwedMandatory ==
  /\ \A o \in owed : EntryOf[o[1]] \in Mandatory
  /\ agenda.outcomes \subseteq Mandatory

\* Worker::finish gets to the removal with every failure reported.
UnlinkTold == pc = "unlink" /\ cur \notin Mandatory => Unreported(cur) = {}

\* And the entry stays that way when it is gone.
RemovedTold ==
  \A r \in Rcpts : env[EntryOf[r]].at = "removed" =>
    /\ rcpt[r].status # "pending"
    /\ EntryOf[r] \notin Mandatory /\ rcpt[r].status = "failed" => rcpt[r].reported

ToldFirst == OwedMandatory /\ UnlinkTold /\ RemovedTold

\* OutcomesOf keeps to mandatory evidence; the scan begins with what is owed.
LEMMA OwedMandatoryStep ==
  ASSUME TypeOK, OwedMandatory, Next
  PROVE  OwedMandatory'
<1> DEFINE Fine(S) == \A o \in S : EntryOf[o[1]] \in Mandatory
<1>1. Fine(owed) /\ agenda.outcomes \subseteq Mandatory
  BY DEF OwedMandatory
<1>2. \A S, k : Fine(OutcomesOf(S, k))
  BY DEF OutcomesOf
<1>3. \A s : Fine(Intended(s))
  BY <1>2 DEF Intended
<1>4. \A recs, noted : RecordOutcomes(recs, noted) => owed' \subseteq noted
  BY DEF RecordOutcomes
<1>5. Fine(owed')
  <2>1. CASE UNCHANGED <<owed, evLog>>
    BY <1>1, <2>1
  <2>2. CASE AfterConversation
    BY <1>1, <1>4, <2>2 DEF AfterConversation
  <2>3. CASE FinishExpire
    BY <1>1, <1>2, <1>4, <2>3 DEF FinishExpire
  <2>4. ASSUME NEW i \in Ids, WriteWaiting(i) PROVE Fine(owed')
    BY <1>1, <1>4, <2>4 DEF WriteWaiting
  <2>5. ASSUME NEW q \in agenda.queue, QueueEntry(q) PROVE Fine(owed')
    <3> DEFINE recs == OutcomesOf(Skipped(q), "suppressed") \cup OutcomesOf(Refused(q), "bounced")
    <3>1. owed' \subseteq owed \cup recs
      BY <1>4, <2>5 DEF QueueEntry
    <3>2. Fine(recs)
      BY <1>2
    <3> QED BY <1>1, <3>1, <3>2
  <2>6. ASSUME NEW s \in Slots, Record(s) \/ RecordGone(s) PROVE Fine(owed')
    BY <1>1, <1>3, <2>6 DEF Record, RecordGone
  <2>7. ASSUME NEW o \in ToCancel, OpCancel(o) \/ OpUnconfirmed(o) PROVE Fine(owed')
    BY <1>1, <2>7 DEF OpCancel, OpUnconfirmed
  <2> QED BY <2>1, <2>2, <2>3, <2>4, <2>5, <2>6, <2>7, LogCases
<1>6. agenda'.outcomes \subseteq Mandatory
  <2>1. CASE ScanBegin
    <3>1. agenda'.outcomes = {i \in Ids : Queued(i) /\ OwedBy(i) # {}}
      BY <2>1 DEF ScanBegin, NoAgenda
    <3> QED BY <1>1, <3>1 DEF OwedBy
  <2>2. CASE agenda'.outcomes \subseteq agenda.outcomes
    BY <1>1, <2>2
  <2> QED BY <2>1, <2>2, AgendaCases
<1> QED BY <1>5, <1>6 DEF OwedMandatory

\* Two steps lead to an unlink.
LEMMA UnlinkBegins ==
  ASSUME TypeOK, Next, pc' = "unlink", pc # "unlink"
  PROVE  (Settle /\ MayRemove(cur) /\ cur' = cur) \/ \E i \in Ids : WriteWaiting(i) /\ cur' = i
<1> USE DEF taskVars
<1>1. ret # "unlink"
  BY DEF TypeOK, TaskType
<1>2. ~Crash /\ ~Restart /\ ~Tick /\ ~ScanBegin /\ ~\E i \in Ids : Submit(i)
  BY DEF Crash, Restart, Tick, ScanBegin, Submit
<1>3. ScanStep => \E i \in Ids : WriteWaiting(i) /\ cur' = i
  BY DEF ScanStep, WriteWaiting, ScanOverdue, ScanLoad, QueueEntry, QueueEntryError, ScanEnd
<1>4. ~FillStep
  BY DEF FillStep, DropHeldJob, DropStaleJob, StartJob, FillEnd, JobEnded
<1>5. FinishStep => Settle /\ MayRemove(cur) /\ cur' = cur
  BY <1>1 DEF FinishStep, FinishGone, FinishFault, FinishExpire, NoReport, SendReport, ReportRefused,
         MarkReported, Settle, Unlink, Return, GoTo
<1>6. ~AfterConversation /\ ~\E s \in Slots : Remote(s) \/ Complete(s)
  BY DEF AfterConversation, Remote, Answer, AnswerLost, Complete, Record, RecordGone, RecordFault,
         EndConversation, JobEnded
<1>7. ~Operator /\ ~Removal
  BY DEF Operator, OpHold, OpRelease, OpRetry, OpRemove, OpReleaseDestination, Removal,
         OpCancel, OpUnconfirmed, OpRefused, OpUnlink, OpDie
<1> QED BY <1>2, <1>3, <1>4, <1>5, <1>6, <1>7 DEF Next, WorkerStep

\* The operator changes neither verdicts nor marks, nor where the worker is.
LEMMA OperatorSpares ==
  ASSUME TypeOK, Operator \/ Removal
  PROVE  /\ UNCHANGED <<pc, cur>>
         /\ \A r \in Rcpts : rcpt'[r].status = rcpt[r].status /\ rcpt'[r].reported = rcpt[r].reported
<1> USE DEF taskVars, diskVars
<1>1. rcpt \in [Rcpts -> RecipientState]
  BY DEF TypeOK, DiskType
<1>2. UNCHANGED <<pc, cur>>
  BY DEF Operator, OpHold, OpRelease, OpRetry, OpRemove, OpReleaseDestination, Removal,
         OpCancel, OpUnconfirmed, OpRefused, OpUnlink, OpDie
<1>3. UNCHANGED rcpt \/ \E d \in Dests : OpReleaseDestination(d)
  BY DEF Operator, OpHold, OpRelease, OpRetry, OpRemove, Removal,
         OpCancel, OpUnconfirmed, OpRefused, OpUnlink, OpDie
<1>4. ASSUME NEW d \in Dests, OpReleaseDestination(d), NEW r \in Rcpts
      PROVE  rcpt'[r].status = rcpt[r].status /\ rcpt'[r].reported = rcpt[r].reported
  BY <1>1, <1>4 DEF OpReleaseDestination, ReleasedStates, RecipientState
<1> QED BY <1>2, <1>3, <1>4

\* MayRemove asks for it; nothing the operator does undoes it.
LEMMA UnlinkToldStep ==
  ASSUME TypeOK, OwedMandatory, UnlinkTold, Next
  PROVE  UnlinkTold'
<1> SUFFICES ASSUME pc' = "unlink", cur' \notin Mandatory PROVE Unreported(cur)' = {}
  BY DEF UnlinkTold
<1>1. ret # "unlink"
  BY DEF TypeOK, TaskType
<1>2. CASE pc # "unlink"
  <2>1. ASSUME NEW i \in Ids, WriteWaiting(i), cur' = i PROVE FALSE
    BY <2>1 DEF WriteWaiting, OwedMandatory
  <2>2. Settle /\ MayRemove(cur) /\ cur' = cur /\ rcpt' = rcpt
    BY <1>2, <2>1, UnlinkBegins DEF Settle
  <2> QED BY <2>2 DEF MayRemove, Unreported
<1>3. CASE pc = "unlink"
  <2>1. Operator \/ Removal
    BY <1>1, <1>3, BusySteps DEF AfterConversation, Unlink, Return, Crash
  <2>2. cur' = cur /\ Unreported(cur) = {}
    BY <1>3, <2>1, OperatorSpares DEF UnlinkTold
  <2>3. \A r \in Rcpts : rcpt'[r].status = rcpt[r].status /\ rcpt'[r].reported = rcpt[r].reported
    BY <2>1, OperatorSpares
  <2>4. Unreported(cur)' = Unreported(cur)
    BY <2>2, <2>3 DEF Unreported, RcptsOf
  <2> QED BY <2>2, <2>4
<1> QED BY <1>2, <1>3

\* Of an entry that is gone nothing changes any more.
LEMMA RemovedToldStep ==
  ASSUME Inv, AboutToGo, UnlinkTold, RemovedTold, Next
  PROVE  RemovedTold'
<1> DEFINE Fine(rc, r) == /\ rc[r].status # "pending"
                          /\ EntryOf[r] \notin Mandatory /\ rc[r].status = "failed" => rc[r].reported
<1> SUFFICES ASSUME NEW r \in Rcpts, env'[EntryOf[r]].at = "removed" PROVE Fine(rcpt', r)
  BY DEF RemovedTold
<1>1. TypeOK /\ EntryOf[r] \in Ids /\ env \in [Ids -> Envelope]
  BY ConstantsAssumption DEF Inv, TypeOK, DiskType
<1>2. CASE env[EntryOf[r]].at = "removed"
  <2>1. Fine(rcpt, r)
    BY <1>2 DEF RemovedTold
  <2>2. rcpt'[r].status = rcpt[r].status
    BY <2>1, StatusFinalStep DEF Inv
  <2>3. rcpt[r].reported => rcpt'[r].reported
    BY <1>1, ReportedStays
  <2> QED BY <2>1, <2>2, <2>3
<1>3. CASE env[EntryOf[r]].at # "removed"
  <2>1. ~AtKept
    BY <1>1, <1>3 DEF AtKept
  <2>2. ~OpUnlink
    <3> SUFFICES ASSUME OpUnlink PROVE FALSE
      OBVIOUS
    <3>1. opId \in Ids /\ env' = [env EXCEPT ![opId].at = "canceled"]
      BY <1>1 DEF OpUnlink, TypeOK, WorldType
    <3>2. CASE opId = EntryOf[r]
      BY <1>1, <3>1, <3>2 DEF Envelope
    <3>3. CASE opId # EntryOf[r]
      BY <1>1, <1>3, <3>1, <3>3
    <3> QED BY <3>2, <3>3
  <2>3. ~\E i \in Ids : Submit(i)
    BY <1>1, <1>3 DEF Submit, Envelope
  <2>4. Unlink
    BY <1>1, <2>1, <2>2, <2>3, PlaceCases
  <2>5. cur = EntryOf[r] /\ pc = "unlink" /\ rcpt' = rcpt
    BY <1>1, <1>3, <2>4 DEF Unlink, TypeOK, TaskType, Settling, Envelope
  <2>6. r \notin Pending(cur) /\ (cur \notin Mandatory => r \notin Unreported(cur))
    BY <2>5 DEF AboutToGo, UnlinkTold
  <2> QED BY <2>5, <2>6 DEF Pending, PendingIn, Unreported, RcptsOf
<1> QED BY <1>2, <1>3

(***************************************************************************)
(* The worker's books.                                                     *)
(***************************************************************************)
\* The inductive invariant: HoldsKnown, ReportsCounted and ToldFirst carry
\* what HoldsCover, ReportOnce and FailureTold leave out.
WorkerInv == ClaimsExact /\ Rounds /\ HoldsKnown /\ ReportsCounted /\ ToldFirst

\* It holds of an empty spool and a worker without jobs.
LEMMA WorkerInit == Init => WorkerInv
<1> SUFFICES ASSUME Init PROVE WorkerInv
  OBVIOUS
<1> USE DEF Init
<1>1. Talking = {} /\ waiting = {} /\ agenda = NoAgenda
  BY DEF Talking
<1>2. ClaimsExact
  BY <1>1, NothingClaimed
<1>3. Rounds
  <2>1. IsFiniteSet({}) /\ Cardinality({}) = 0
    BY FS_EmptySet
  <2>2. \A i : WaitingOf(i) = {} /\ EntryTalks(i) = {}
    BY <1>1 DEF WaitingOf, EntryTalks
  <2>3. RoundsExact
    <3>1. ASSUME NEW i \in Ids PROVE left[i] = Cardinality(WaitingOf(i)) + Cardinality(EntryTalks(i))
      <4>1. left[i] = 0
        OBVIOUS
      <4>2. Cardinality(WaitingOf(i)) = 0 /\ Cardinality(EntryTalks(i)) = 0
        BY <2>1, <2>2
      <4> HIDE DEF Init
      <4> QED BY <4>1, <4>2
    <3> QED BY <1>1, <2>1, <3>1, RoundsAre
  <2> QED BY <1>1, <2>1, <2>3 DEF Rounds, JobsApart, ScanIdle, NoAgenda
<1>4. HoldsKnown
  BY <1>1, ConstantsAssumption DEF HoldsKnown, JobsTo, NewPlain, Busy, NoAgenda
<1>5. ReportsCounted
  BY DEF ReportsCounted, Mishaps
<1>6. ToldFirst
  BY ConstantsAssumption DEF ToldFirst, OwedMandatory, UnlinkTold, RemovedTold, NoAgenda
<1> QED BY <1>2, <1>3, <1>4, <1>5, <1>6 DEF WorkerInv

\* Every step keeps it.
LEMMA WorkerNext ==
  ASSUME Inv, AboutToGo, WorkerInv, Next
  PROVE  WorkerInv'
<1>1. TypeOK /\ ClaimsExact /\ Rounds /\ HoldsKnown /\ ReportsCounted /\ ToldFirst /\ NewPlain
  BY DEF Inv, WorkerInv, HoldsKnown
<1>2. ToldFirst'
  BY <1>1, OwedMandatoryStep, UnlinkToldStep, RemovedToldStep DEF ToldFirst
<1> QED BY <1>1, <1>2, ClaimsExactStep, RoundsStep, HoldsKnownStep, ReportsCountedStep DEF WorkerInv

\* So does doing nothing.
LEMMA WorkerStutter ==
  ASSUME WorkerInv, UNCHANGED vars
  PROVE  WorkerInv'
<1> USE DEF vars, diskVars, taskVars, schedVars, opVars, worldVars, histVars
<1>1. ClaimsExact' /\ Rounds'
  BY DEF WorkerInv, ClaimsExact, Rounds, JobsApart, Same, ScanIdle, RoundsExact, Talking
<1>2. HoldsKnown'
  BY DEF WorkerInv, HoldsKnown, JobsTo, NewPlain, Busy, Cover, Throttled, Queued, Talking
<1>3. ReportsCounted'
  BY DEF WorkerInv, ReportsCounted, Mishaps, Told
<1>4. ToldFirst'
  BY DEF WorkerInv, ToldFirst, OwedMandatory, UnlinkTold, RemovedTold, Unreported
<1> QED BY <1>1, <1>2, <1>3, <1>4 DEF WorkerInv

\* The worker's books are right in every reachable state, for every number of
\* messages, recipients, destinations, slots, crashes and faults.
THEOREM WorkerHolds == Spec => [](Inv /\ WorkerInv)
<1>1. Inv /\ Books /\ WorkerInv /\ [Next]_vars => WorkerInv'
  BY WorkerNext, WorkerStutter DEF Books
<1> QED BY <1>1, WorkerInit, BooksHold, PTL DEF Spec

\* No slot and no claim leaks: the counters Limits are checked against are
\* those of the conversations running, however each of them ended.
THEOREM ClaimsAreExact == Spec => []ClaimsExact
<1>1. Inv /\ WorkerInv => ClaimsExact
  BY DEF WorkerInv
<1> QED BY <1>1, WorkerHolds, PTL

\* Schedule.rounds counts the jobs an entry has waiting and running, also when
\* a conversation leaves recipients to a job of their own.
THEOREM RoundsAreExact == Spec => []RoundsExact
<1>1. Inv /\ WorkerInv => RoundsExact
  BY DEF WorkerInv, Rounds
<1> QED BY <1>1, WorkerHolds, PTL

\* While jobs wait, memory holds back every destination that the envelopes
\* say is to be held back (Holds::note beside each write of Worker::record).
THEOREM HoldsAreCovered == Spec => []HoldsCover
<1>1. Inv /\ WorkerInv => HoldsCover
  BY KnownCovers DEF WorkerInv
<1> QED BY <1>1, WorkerHolds, PTL

\* A failure is reported once, and once more for each crash or failed write
\* at most (Worker::report_failures marks what it reported).
THEOREM ReportsAreCounted == Spec => []ReportOnce
<1>1. Inv /\ WorkerInv => ReportOnce
  <2> SUFFICES ASSUME Inv, WorkerInv, NEW r \in Rcpts PROVE dsn[r] <= 1 + spent.crashes + spent.faults
    BY DEF ReportOnce
  <2>1. spent.crashes \in Nat /\ spent.faults \in Nat /\ dsn[r] \in Nat
    BY DEF Inv, TypeOK, WorldType, Spent
  <2>2. dsn[r] <= spent.crashes + spent.faults + (IF Told(r) THEN 1 ELSE 0)
    BY DEF WorkerInv, ReportsCounted, Mishaps
  <2>3. CASE Told(r)
    BY <2>1, <2>2, <2>3
  <2>4. CASE ~Told(r)
    BY <2>1, <2>2, <2>4
  <2> QED BY <2>3, <2>4
<1> QED BY <1>1, WorkerHolds, PTL

\* FailureTold of the entries whose evidence is not mandatory.
PlainTold ==
  \A r \in Rcpts : (EntryOf[r] \notin Mandatory /\ env[EntryOf[r]].at = "removed"
                      /\ rcpt[r].status = "failed") => rcpt[r].reported

\* Worker::finish lets no such entry go before its failures are reported or
\* given up on, whatever the other entries are.
THEOREM PlainFailuresTold == Spec => []PlainTold
<1>1. Inv /\ WorkerInv => PlainTold
  BY DEF WorkerInv, ToldFirst, RemovedTold, PlainTold
<1> QED BY <1>1, WorkerHolds, PTL

\* Without mandatory evidence that is every entry.  With it FailureTold fails:
\* write_waiting_outcomes removes an entry without a look at its reports.
THEOREM FailuresAreTold ==
  ASSUME Mandatory = {}
  PROVE  Spec => []FailureTold
<1>1. PlainTold => FailureTold
  BY DEF PlainTold, FailureTold
<1> QED BY <1>1, PlainFailuresTold, PTL

=============================================================================
