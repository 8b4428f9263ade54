------------------------- MODULE OutboundQueueTypes -------------------------
(***************************************************************************)
(* Type correctness of OutboundQueue, for every number of messages,        *)
(* recipients, destinations, slots, crashes and faults, and the lemmas on  *)
(* its helpers that it rests on.                                           *)
(***************************************************************************)
EXTENDS OutboundQueue, FiniteSetTheorems, WellFoundedInduction, TLAPS

(***************************************************************************)
(* Minima and maxima of sets of naturals.                                  *)
(***************************************************************************)
\* A nonempty set of naturals has a least element.
LEMMA LeastExists ==
  ASSUME NEW S, S \subseteq Nat, S # {}
  PROVE  \E x \in S : \A y \in S : x <= y
<1> DEFINE R == {ss \in Nat \X Nat : ss[1] < ss[2]}
<1>1. IsWellFoundedOn(R, Nat)
  BY NatLessThanWellFounded DEF OpToRel
<1>2. \E x \in S : \A y \in S : ~(<<y, x>> \in R)
  <2> HIDE DEF R
  <2> QED BY <1>1, WFMin
<1>3. PICK x \in S : \A y \in S : ~(<<y, x>> \in R)
  BY <1>2
<1>4. ASSUME NEW y \in S PROVE x <= y
  <2>1. ~(<<y, x>> \in R)
    BY <1>3
  <2> QED BY <2>1
<1> QED BY <1>4

\* Min, which Envelope::settle takes over the retry times, is in the set.
LEMMA MinIn ==
  ASSUME NEW S, S \subseteq Nat, S # {}
  PROVE  Min(S) \in S
BY LeastExists DEF Min

\* Max, which Holds::note takes, is in a nonempty set that has a bound, and
\* nothing in the set is above it.
LEMMA MaxIn ==
  ASSUME NEW n \in Nat, NEW S, S \subseteq 0..n, S # {}
  PROVE  Max(S) \in S /\ \A y \in S : y <= Max(S)
<1> DEFINE U == {x \in 0..n : \A y \in S : x >= y}
<1>1. n \in U
  OBVIOUS
<1>2. PICK m \in U : \A u \in U : m <= u
  <2>1. U \subseteq Nat /\ U # {}
    BY <1>1
  <2> QED BY <2>1, LeastExists
<1>3. m \in S
  <2>1. SUFFICES ASSUME m \notin S PROVE FALSE
    OBVIOUS
  <2>2. \A y \in S : m > y
    BY <2>1
  <2>3. PICK y \in S : TRUE
    OBVIOUS
  <2>4. m - 1 \in 0..n
    BY <2>2, <2>3
  <2>5. m - 1 \in U
    BY <2>2, <2>4
  <2> QED BY <2>5, <1>2
<1> QED BY <1>3 DEF Max

(***************************************************************************)
(* Types of the helpers.                                                   *)
(***************************************************************************)
\* A wait of Worker::record or report_refused ends within the horizon.
LEMMA LaterType ==
  ASSUME TypeOK, NEW w \in Nat
  PROVE  Later(w) \in Times
BY ConstantsAssumption DEF TypeOK, WorldType, Later, Times

\* Envelope::settle takes a retry time of a pending recipient.
LEMMA SettledNextType ==
  ASSUME TypeOK, NEW rc \in [Rcpts -> RecipientState], NEW i \in Ids
  PROVE  SettledNext(rc, i) \in Times
<1> DEFINE N == {rc[r].next : r \in PendingIn(rc, i)}
<1>1. CASE PendingIn(rc, i) = {}
  BY <1>1 DEF SettledNext, TypeOK, DiskType, Envelope
<1>2. CASE PendingIn(rc, i) # {}
  <2>1. N \subseteq Times /\ N # {}
    BY <1>2 DEF PendingIn, RcptsOf, RecipientState
  <2>2. Min(N) \in N
    <3>1. N \subseteq Nat /\ N # {}
      BY <2>1, ConstantsAssumption DEF Times
    <3> HIDE DEF N
    <3> QED BY <3>1, MinIn
  <2> QED BY <1>2, <2>1, <2>2 DEF SettledNext
<1> QED BY <1>1, <1>2

\* The hold Holds::add_envelope gathers from the spool is well formed.
LEMMA SpoolHoldType ==
  ASSUME TypeOK, NEW d \in Dests
  PROVE  SpoolHold(d) \in Hold
<1> DEFINE N == {rcpt[r].next : r \in ThrottledFor(d)}
           D == {rcpt[r].throttled : r \in ThrottledFor(d)}
<1>1. CASE ThrottledFor(d) = {}
  BY <1>1, ConstantsAssumption DEF SpoolHold, NoHold, Hold, Times, Levels
<1>2. CASE ThrottledFor(d) # {}
  <2>1. N \subseteq Times /\ N # {} /\ D \subseteq Levels /\ D # {}
    BY <1>2 DEF ThrottledFor, TypeOK, DiskType, RecipientState
  <2>2. Max(N) \in Times /\ Max(D) \in Levels
    <3> HIDE DEF N, D
    <3>1. MaxTime \in Nat /\ Len(BackoffSteps) \in Nat
      BY ConstantsAssumption
    <3>2. Max(N) \in N /\ Max(D) \in D
      BY <2>1, <3>1, MaxIn DEF Times, Levels
    <3> QED BY <2>1, <3>2
  <2> QED BY <1>2, <2>2 DEF SpoolHold, Hold
<1> QED BY <1>1, <1>2

\* The deferrals a conversation starts from.
LEMMA ThrottledMax ==
  ASSUME TypeOK, NEW S, S \subseteq Rcpts, S # {}
  PROVE  Max({rcpt[r].throttled : r \in S}) \in Levels
<1> DEFINE D == {rcpt[r].throttled : r \in S}
<1>1. D \subseteq Levels /\ D # {}
  BY DEF TypeOK, DiskType, RecipientState
<1>2. Max(D) \in Levels
  <2> HIDE DEF D
  <2>1. Len(BackoffSteps) \in Nat
    BY ConstantsAssumption
  <2> QED BY <1>1, <2>1, MaxIn DEF Levels
<1> QED BY <1>2

\* Worker::report_refused asks for a wait only below the cap.
LEMMA RefusedReportType ==
  ASSUME TypeOK
  PROVE  \A st \in RecipientState : RefusedReport(st) \in RecipientState
<1> SUFFICES ASSUME NEW st \in RecipientState PROVE RefusedReport(st) \in RecipientState
  OBVIOUS
<1>1. st.tries \in Nat /\ st.tries + 1 \in Nat
  BY DEF RecipientState
<1>2. CASE st.tries + 1 >= MaxReports
  BY <1>1, <1>2 DEF RefusedReport, RecipientState
<1>3. CASE ~(st.tries + 1 >= MaxReports)
  <2>1. ReportWait[st.tries + 1] \in Nat
    BY <1>1, <1>3, ConstantsAssumption
  <2>2. Later(ReportWait[st.tries + 1]) \in Times
    BY <2>1, LaterType
  <2> QED BY <1>1, <1>3, <2>2 DEF RefusedReport, RecipientState
<1> QED BY <1>2, <1>3

\* Worker::slow_down and Holds::note stay within the steps there are.
LEMMA SlowDownType ==
  ASSUME TypeOK, NEW s \in Slots, conv[s] \in Talk
  PROVE  /\ SlowDown(s) \in Hold
         /\ \A h \in Hold : Noted(h, SlowDown(s).until, SlowDown(s).deferrals) \in Hold
<1> DEFINE hold == holds[conv[s].job.dest]
           own == conv[s].own
<1>1. MaxTime \in Nat /\ Len(BackoffSteps) \in Nat \ {0}
  BY ConstantsAssumption
<1>2. hold \in Hold /\ own \in Levels /\ now \in Times
  BY DEF Talk, Job, TypeOK, SchedType, WorldType
<1>3. \A a, b \in Levels : Max({a, b}) \in Levels
  <2>1. ASSUME NEW a \in Levels, NEW b \in Levels PROVE Max({a, b}) \in {a, b}
    <3>1. {a, b} \subseteq 0..Len(BackoffSteps) /\ {a, b} # {}
      BY DEF Levels
    <3> QED BY <1>1, <3>1, MaxIn
  <2> QED BY <2>1
<1>4. \A a, b \in Times : Max({a, b}) \in Times
  <2>1. ASSUME NEW a \in Times, NEW b \in Times PROVE Max({a, b}) \in {a, b}
    <3>1. {a, b} \subseteq 0..MaxTime /\ {a, b} # {}
      BY DEF Times
    <3> QED BY <1>1, <3>1, MaxIn
  <2> QED BY <2>1
<1>5. \A n \in Levels : Step(n) \in Nat /\ OneMore(n) \in Levels
  BY <1>1, ConstantsAssumption DEF Step, OneMore, Levels
<1>6. \A n \in Levels : Later(Step(n)) \in Times
  BY <1>5, LaterType
<1>7. SlowDown(s) \in Hold
  BY <1>2, <1>3, <1>5, <1>6 DEF SlowDown, Hold
<1>8. ASSUME NEW h \in Hold
      PROVE  Noted(h, SlowDown(s).until, SlowDown(s).deferrals) \in Hold
  BY <1>3, <1>4, <1>7 DEF Noted, Hold
<1> QED BY <1>7, <1>8

\* What Worker::record writes is a recipient state.
LEMMA RecordedType ==
  ASSUME TypeOK, NEW s \in Slots, conv[s] \in Talk,
         NEW w \in [Said(s, {"deferred", "toomany"}) -> RetryWaits]
  PROVE  Recorded(s, w) \in [Rcpts -> RecipientState]
<1> DEFINE late == Said(s, {"deferred", "slow", "toomany"}) \ RetryNow(s)
<1>1. rcpt \in [Rcpts -> RecipientState] /\ now \in Times
  BY DEF TypeOK, DiskType, WorldType
<1>2. SlowDown(s) \in Hold
  BY SlowDownType
<1>3. ASSUME NEW r \in late, Said(s, {"slow"}) = {} PROVE Later(w[r]) \in Times
  <2>1. r \in Said(s, {"deferred", "toomany"})
    BY <1>3 DEF Said
  <2>2. w[r] \in Nat
    BY <2>1, ConstantsAssumption
  <2> QED BY <2>2, LaterType
<1>4. 0 \in Levels
  BY ConstantsAssumption DEF Levels
<1>5. ASSUME NEW r \in Rcpts PROVE Recorded(s, w)[r] \in RecipientState
  <2>1. CASE r \in late /\ Said(s, {"slow"}) # {}
    <3>1. [rcpt[r] EXCEPT !.next = SlowDown(s).until, !.throttled = SlowDown(s).deferrals]
            \in RecipientState
      BY <1>1, <1>2 DEF RecipientState, Hold
    <3> QED BY <2>1, <3>1 DEF Recorded, Said
  <2>2. CASE r \in late /\ Said(s, {"slow"}) = {}
    <3>1. [rcpt[r] EXCEPT !.next = Later(w[r]), !.throttled = 0] \in RecipientState
      BY <1>1, <1>3, <1>4, <2>2 DEF RecipientState
    <3> QED BY <2>2, <3>1 DEF Recorded, Said
  <2>3. CASE r \notin late
    BY <1>1, <2>3 DEF Recorded, RecipientState, Status
  <2> QED BY <2>1, <2>2, <2>3
<1>6. DOMAIN Recorded(s, w) = Rcpts /\ Recorded(s, w) = [r \in Rcpts |-> Recorded(s, w)[r]]
  BY DEF Recorded
<1> QED BY <1>5, <1>6

\* The outcome records name recipients and kinds.
LEMMA OutcomesType ==
  ASSUME NEW S, S \subseteq Rcpts, NEW k \in Kinds
  PROVE  OutcomesOf(S, k) \subseteq Rcpts \X Kinds
BY DEF OutcomesOf

\* What evidence::intend notes are outcome records.
LEMMA IntendedType ==
  ASSUME TypeOK, NEW s \in Slots, conv[s] \in Talk
  PROVE  Intended(s) \subseteq Rcpts \X Kinds
<1>1. Said(s, {"ok"}) \subseteq Rcpts /\ Said(s, {"refused", "bad"}) \subseteq Rcpts
  BY DEF Said, Talk
<1> QED BY <1>1, OutcomesType DEF Intended, Kinds

\* record_outcome forgets nothing: what was written or noted still is.
LEMMA RecordOutcomesKeeps ==
  ASSUME NEW recs, NEW noted, RecordOutcomes(recs, noted)
  PROVE  noted \cup evLog \subseteq owed' \cup evLog'
BY DEF RecordOutcomes

\* record_outcome keeps the log and the notes well formed.
LEMMA RecordOutcomesType ==
  ASSUME TypeOK, NEW recs, NEW noted, RecordOutcomes(recs, noted),
         recs \subseteq Rcpts \X Kinds, noted \subseteq Rcpts \X Kinds
  PROVE  /\ owed' \subseteq Rcpts \X Kinds /\ evLog' \subseteq Rcpts \X Kinds
         /\ spent' \in Spent
BY DEF RecordOutcomes, Fault, TypeOK, DiskType, WorldType, Spent

\* The bounds are counted in naturals.
LEMMA SpentType ==
  ASSUME TypeOK
  PROVE  /\ Fault => spent' \in Spent
         /\ \A k : Command(k) => spent' \in Spent
         /\ [spent EXCEPT !.crashes = @ + 1] \in Spent
<1>1. spent \in Spent
  BY DEF TypeOK, WorldType
<1>2. \A n \in Nat : n + 1 \in Nat
  OBVIOUS
<1> QED BY <1>1, <1>2 DEF Fault, Command, Spent

\* Claim's Drop counts out without going below zero.
LEMMA DropClaimType ==
  ASSUME TypeOK, NEW s \in Slots, conv[s] \in Talk
  PROVE  DropClaim(s) \in ClaimState
<1>1. claims \in ClaimState /\ conv[s].job.dest \in Dests
  BY DEF TypeOK, SchedType, Talk, Job
<1>2. \A n \in Nat : SaturatingSub(n, 1) \in Nat
  BY DEF SaturatingSub
<1> QED BY <1>1, <1>2 DEF DropClaim, ClaimState

\* Claims::take counts in.
LEMMA TakeClaimType ==
  ASSUME TypeOK, NEW j \in Job
  PROVE  TakeClaim(j) \in ClaimState
<1>1. /\ claims \in ClaimState /\ j.rcpts \subseteq Rcpts
      /\ j.dest \in Dests /\ SenderOf[j.id] \in Senders
  BY ConstantsAssumption DEF TypeOK, SchedType, Job
<1>2. [claims.domains EXCEPT ![j.dest] = @ + 1] \in [Dests -> Nat]
  BY <1>1 DEF ClaimState
<1>3. [claims.senders EXCEPT ![SenderOf[j.id]] = @ + 1] \in [Senders -> Nat]
  BY <1>1 DEF ClaimState
<1> QED BY <1>1, <1>2, <1>3 DEF TakeClaim, ClaimState

\* Schedule::job_ended.
LEMMA JobEndedType ==
  ASSUME TypeOK, NEW i \in Ids, NEW w \in SUBSET Job, JobEnded(i, w)
  PROVE  /\ waiting' \subseteq Job /\ left' \in [Ids -> Nat]
         /\ pc' \in {"finish", "fill"} /\ ret' \in {"outcomes", "scan", "fill"}
         /\ cur' \in Ids \cup {NoEntry} /\ (pc' = "finish" => cur' \in Ids)
<1>1. left \in [Ids -> Nat] /\ ret \in {"outcomes", "scan", "fill"} /\ cur \in Ids \cup {NoEntry}
  BY DEF TypeOK, SchedType, TaskType
<1>2. \A n \in Nat : SaturatingSub(n, 1) \in Nat
  BY DEF SaturatingSub
<1> QED BY <1>1, <1>2 DEF JobEnded

\* The end of Worker::complete keeps the schedule well formed.
LEMMA EndConversationType ==
  ASSUME TypeOK, NEW s \in Slots, conv[s] \in Talk, EndConversation(s)
  PROVE  /\ claims' \in ClaimState
         /\ conv' \in [Slots -> Talk \cup {NoTalk}]
         /\ answer' \in [Slots -> Answers]
         /\ waiting' \subseteq Job /\ left' \in [Ids -> Nat]
         /\ pc' \in {"finish", "fill"} /\ ret' \in {"outcomes", "scan", "fill"}
         /\ cur' \in Ids \cup {NoEntry} /\ (pc' = "finish" => cur' \in Ids)
<1>1. claims' \in ClaimState
  BY DropClaimType DEF EndConversation
<1>2. conv' \in [Slots -> Talk \cup {NoTalk}]
  BY DEF EndConversation, TypeOK, SchedType
<1>3. answer' \in [Slots -> Answers]
  BY DEF EndConversation, TypeOK, SchedType, NoAnswer, Answers
<1>4. conv[s].job \in Job /\ conv[s].job.id \in Ids /\ waiting \subseteq Job
  BY DEF Talk, Job, TypeOK, SchedType
<1>5. CASE RetryNow(s) # {} /\ left[conv[s].job.id] > 0
  <2>1. RetryNow(s) \subseteq Rcpts
    BY DEF RetryNow, Said, Talk
  <2>2. [conv[s].job EXCEPT !.rcpts = RetryNow(s)] \in Job
    BY <1>4, <2>1 DEF Job
  <2> QED BY <1>1, <1>2, <1>3, <1>4, <1>5, <2>2 DEF EndConversation, TypeOK, SchedType, TaskType
<1>6. CASE ~(RetryNow(s) # {} /\ left[conv[s].job.id] > 0)
  <2>1. JobEnded(conv[s].job.id, waiting)
    BY <1>6 DEF EndConversation
  <2> QED BY <1>1, <1>2, <1>3, <1>4, <2>1, JobEndedType
<1> QED BY <1>5, <1>6

\* An entry makes finitely many jobs, each of them well formed.
LEMMA JobsOfType ==
  ASSUME NEW q \in [id : Ids, due : SUBSET Rcpts]
  PROVE  /\ JobsOf(q) \subseteq Job
         /\ IsFiniteSet(JobsOf(q)) /\ Cardinality(JobsOf(q)) \in Nat
<1> DEFINE S == Sendable(q)
           job(d) == [id |-> q.id, dest |-> d, rcpts |-> {r \in S : DestOf[r] = d}]
           f == [r \in S |-> job(DestOf[r])]
<1>1. S \subseteq Rcpts
  BY DEF Sendable, Free
<1>2. IsFiniteSet(S)
  BY <1>1, FS_Subset, ConstantsAssumption
<1>3. f \in Surjection(S, JobsOf(q))
  BY DEF Surjection, JobsOf
<1>4. IsFiniteSet(JobsOf(q))
  <2> HIDE DEF f, S
  <2> QED BY <1>2, <1>3, FS_Surjection
<1>5. Cardinality(JobsOf(q)) \in Nat
  BY <1>4, FS_CardinalityType
<1>6. \A r \in Rcpts : DestOf[r] \in Dests
  BY ConstantsAssumption
<1> QED BY <1>1, <1>4, <1>5, <1>6 DEF JobsOf, Job

\* Every action keeps the types.
LEMMA TypeNext ==
  ASSUME TypeOK, Next
  PROVE  TypeOK'
<1> USE DEF TypeOK, PCs, Settling
<1>1. ASSUME NEW i \in Ids, Submit(i) PROVE TypeOK'
  <2>1. env' \in [Ids -> Envelope]
    BY <1>1 DEF Submit, DiskType, WorldType, Envelope, Times
  <2> QED BY <1>1, <2>1 DEF Submit, DiskType, TaskType, SchedType, WorldType, diskVars,
          taskVars, schedVars, opVars, worldVars, histVars
<1>2. ASSUME ScanBegin PROVE TypeOK'
  <2>1. agenda' \in Agenda
    BY <1>2 DEF ScanBegin, Agenda, NoAgenda
  <2> QED BY <1>2, <2>1 DEF ScanBegin, DiskType, TaskType, SchedType, WorldType, diskVars,
          taskVars, schedVars, opVars, worldVars, histVars
<1>3. ASSUME ScanEnd PROVE TypeOK'
  BY <1>3 DEF ScanEnd, DiskType, TaskType, SchedType, WorldType, diskVars, taskVars, schedVars,
      opVars, worldVars, histVars
<1>4. ASSUME NEW i \in Ids, ScanOverdue(i) PROVE TypeOK'
  <2>1. agenda' \in Agenda
    BY <1>4 DEF ScanOverdue, Agenda, TaskType
  <2> QED BY <1>4, <2>1 DEF ScanOverdue, DiskType, TaskType, SchedType, WorldType, diskVars,
          taskVars, schedVars, opVars, worldVars, histVars
<1>5. ASSUME NEW q \in agenda.queue, QueueEntryError(q) PROVE TypeOK'
  <2>1. agenda' \in Agenda
    BY <1>5 DEF QueueEntryError, Agenda, TaskType
  <2>2. spent' \in Spent
    BY <1>5, SpentType DEF QueueEntryError, WorldType
  <2> QED BY <1>5, <2>1, <2>2 DEF QueueEntryError, DiskType, TaskType, SchedType, WorldType,
          diskVars, taskVars, schedVars, opVars, worldVars, histVars
<1>6. ASSUME NEW j \in waiting, DropHeldJob(j) PROVE TypeOK'
  BY <1>6, JobEndedType DEF DropHeldJob, Job, DiskType, TaskType, SchedType, WorldType,
      diskVars, taskVars, schedVars, opVars, worldVars, histVars
<1>7. ASSUME NEW j \in waiting, DropStaleJob(j) PROVE TypeOK'
  BY <1>7, JobEndedType DEF DropStaleJob, Job, DiskType, TaskType, SchedType, WorldType,
      diskVars, taskVars, schedVars, opVars, worldVars, histVars
<1>8. ASSUME FillEnd PROVE TypeOK'
  BY <1>8 DEF FillEnd, DiskType, TaskType, SchedType, WorldType, diskVars, taskVars, schedVars,
      opVars, worldVars, histVars
<1>9. ASSUME NEW s \in Slots, Answer(s) PROVE TypeOK'
  <2>1. answer' \in [Slots -> Answers]
    BY <1>9 DEF Answer, SchedType, Answers
  <2>2. copies' \in [Rcpts -> Nat]
    BY <1>9 DEF Answer, WorldType
  <2> QED BY <1>9, <2>1, <2>2 DEF Answer, DiskType, TaskType, SchedType, WorldType, diskVars,
          taskVars, schedVars, opVars, worldVars, histVars
<1>10. ASSUME NEW s \in Slots, AnswerLost(s) PROVE TypeOK'
  <2>1. answer' \in [Slots -> Answers]
    BY <1>10 DEF AnswerLost, SchedType, Answers
  <2>2. copies' \in [Rcpts -> Nat] /\ excused' \in [Rcpts -> Nat]
    BY <1>10 DEF AnswerLost, WorldType
  <2>3. spent' \in Spent
    BY <1>10, SpentType DEF AnswerLost
  <2> QED BY <1>10, <2>1, <2>2, <2>3 DEF AnswerLost, DiskType, TaskType, SchedType, WorldType,
          diskVars, taskVars, schedVars, opVars, worldVars, histVars
<1>11. ASSUME NEW s \in Slots, RecordFault(s) PROVE TypeOK'
  <2>1. excused' \in [Rcpts -> Nat]
    BY <1>11 DEF RecordFault, WorldType
  <2>2. spent' \in Spent
    BY <1>11, SpentType DEF RecordFault
  <2> QED BY <1>11, <2>1, <2>2, EndConversationType DEF RecordFault, Answered, DiskType,
          TaskType, SchedType, WorldType, diskVars, taskVars, schedVars, opVars, worldVars,
          histVars
<1>12. ASSUME FinishGone PROVE TypeOK'
  BY <1>12 DEF FinishGone, Return, DiskType, TaskType, SchedType, WorldType, diskVars, taskVars,
      schedVars, opVars, worldVars, histVars
<1>13. ASSUME FinishFault PROVE TypeOK'
  <2>1. spent' \in Spent
    BY <1>13, SpentType DEF FinishFault
  <2> QED BY <1>13, <2>1 DEF FinishFault, Return, DiskType, TaskType, SchedType, WorldType,
          diskVars, taskVars, schedVars, opVars, worldVars, histVars
<1>14. ASSUME NoReport PROVE TypeOK'
  BY <1>14 DEF NoReport, GoTo, DiskType, TaskType, SchedType, WorldType, diskVars, taskVars,
      schedVars, opVars, worldVars, histVars
<1>15. ASSUME SendReport PROVE TypeOK'
  <2>1. dsn' \in [Rcpts -> Nat]
    BY <1>15 DEF SendReport, WorldType
  <2> QED BY <1>15, <2>1 DEF SendReport, GoTo, DiskType, TaskType, SchedType, WorldType,
          diskVars, taskVars, schedVars, opVars, worldVars, histVars
<1>16. ASSUME MarkReported PROVE TypeOK'
  <2>1. rcpt' \in [Rcpts -> RecipientState]
    BY <1>16 DEF MarkReported, DiskType, RecipientState
  <2> QED BY <1>16, <2>1 DEF MarkReported, GoTo, DiskType, TaskType, SchedType, WorldType,
          diskVars, taskVars, schedVars, opVars, worldVars, histVars
<1>17. ASSUME Settle PROVE TypeOK'
  <2>1. cur \in Ids /\ env[cur] \in Envelope
    BY <1>17 DEF Settle, TaskType, DiskType
  <2>2. HoldForRemoval(env[cur]) \in Envelope
    BY <1>17, <2>1 DEF HoldForRemoval, Envelope, WorldType
  <2>3. (env[cur].warned \/ (Pending(cur) # {} /\ WindowUsed(cur) >= DelayAge)) \in BOOLEAN
    BY <1>17 DEF Envelope
  <2>4. \A b \in BOOLEAN : [env[cur] EXCEPT !.warned = b] \in Envelope
    BY <1>17, <2>1 DEF Envelope
  <2>5. env' \in [Ids -> Envelope]
    BY <1>17, <2>1, <2>2, <2>3, <2>4 DEF Settle, DiskType
  <2> QED BY <1>17, <2>1, <2>2, <2>3, <2>4, <2>5 DEF Settle, Return, GoTo, DiskType, TaskType,
          SchedType, WorldType, diskVars, taskVars, schedVars, opVars, worldVars, histVars
<1>18. ASSUME Unlink PROVE TypeOK'
  <2>1. env' \in [Ids -> Envelope]
    BY <1>18 DEF Unlink, DiskType, WorldType, Envelope, Times
  <2>2. spent' \in Spent
    BY <1>18, SpentType DEF Unlink, WorldType
  <2> QED BY <1>18, <2>1, <2>2 DEF Unlink, Return, DiskType, TaskType, SchedType, WorldType,
          diskVars, taskVars, schedVars, opVars, worldVars, histVars
<1>19. ASSUME NEW i \in Ids, OpHold(i) PROVE TypeOK'
  <2>1. env' \in [Ids -> Envelope]
    BY <1>19 DEF OpHold, DiskType, WorldType, Envelope, Times
  <2>2. spent' \in Spent
    BY <1>19, SpentType DEF OpHold
  <2> QED BY <1>19, <2>1, <2>2 DEF OpHold, DiskType, TaskType, SchedType, WorldType, diskVars,
          taskVars, schedVars, opVars, worldVars, histVars
<1>20. ASSUME NEW i \in Ids, OpRelease(i) PROVE TypeOK'
  <2>1. env[i].heldSecs + SaturatingSub(now, env[i].held) \in Nat
    BY <1>20 DEF OpRelease, SaturatingSub, DiskType, WorldType, Envelope, Times, NotHeld
  <2>2. env' \in [Ids -> Envelope]
    BY <1>20, <2>1 DEF OpRelease, DiskType, Envelope
  <2>3. spent' \in Spent
    BY <1>20, SpentType DEF OpRelease
  <2> QED BY <1>20, <2>1, <2>2, <2>3 DEF OpRelease, DiskType, TaskType, SchedType, WorldType,
          diskVars, taskVars, schedVars, opVars, worldVars, histVars
<1>21. ASSUME NEW i \in Ids, OpRetry(i) PROVE TypeOK'
  <2>1. 0 \in Times
    BY <1>21, ConstantsAssumption DEF Times
  <2>2. env' \in [Ids -> Envelope]
    BY <1>21, <2>1 DEF OpRetry, DiskType, Envelope
  <2>3. spent' \in Spent
    BY <1>21, SpentType DEF OpRetry
  <2> QED BY <1>21, <2>1, <2>2, <2>3 DEF OpRetry, DiskType, TaskType, SchedType, WorldType,
          diskVars, taskVars, schedVars, opVars, worldVars, histVars
<1>22. ASSUME NEW i \in Ids, OpRemove(i) PROVE TypeOK'
  <2>1. env' \in [Ids -> Envelope]
    BY <1>22 DEF OpRemove, HoldForRemoval, DiskType, WorldType, Envelope, Times
  <2>2. opWas' \in Removing
    BY <1>22 DEF OpRemove, Removing, DiskType, Envelope
  <2>3. spent' \in Spent
    BY <1>22, SpentType DEF OpRemove
  <2> QED BY <1>22, <2>1, <2>2, <2>3 DEF OpRemove, DiskType, TaskType, SchedType, WorldType,
          diskVars, taskVars, schedVars, opVars, worldVars, histVars
<1>23. ASSUME NEW o \in ToCancel, OpCancel(o) PROVE TypeOK'
  <2>1. evLog' \subseteq Rcpts \X Kinds
    BY <1>23 DEF OpCancel, ToCancel, OutcomesOf, Pending, PendingIn, RcptsOf, DiskType, Kinds
  <2>2. opWas' \in Removing
    BY <1>23 DEF OpCancel, WorldType, Removing
  <2> QED BY <1>23, <2>1, <2>2 DEF OpCancel, DiskType, TaskType, SchedType, WorldType, diskVars,
          taskVars, schedVars, opVars, worldVars, histVars
<1>24. ASSUME NEW o \in ToCancel, OpUnconfirmed(o) PROVE TypeOK'
  <2>1. evLog' \subseteq Rcpts \X Kinds
    BY <1>24 DEF OpUnconfirmed, ToCancel, OutcomesOf, Pending, PendingIn, RcptsOf, DiskType, Kinds
  <2>2. opWas' \in Removing
    BY <1>24 DEF OpUnconfirmed, NotRemoving, Removing
  <2>3. spent' \in Spent
    BY <1>24, SpentType DEF OpUnconfirmed
  <2> QED BY <1>24, <2>1, <2>2, <2>3 DEF OpUnconfirmed, DiskType, TaskType, SchedType,
          WorldType, diskVars, taskVars, schedVars, opVars, worldVars, histVars
<1>25. ASSUME OpRefused PROVE TypeOK'
  <2>1. env' \in [Ids -> Envelope]
    BY <1>25 DEF OpRefused, Removing, DiskType, WorldType, Envelope, Times
  <2>2. opWas' \in Removing
    BY <1>25 DEF OpRefused, NotRemoving, Removing
  <2>3. spent' \in Spent
    BY <1>25, SpentType DEF OpRefused
  <2> QED BY <1>25, <2>1, <2>2, <2>3 DEF OpRefused, DiskType, TaskType, SchedType, WorldType,
          diskVars, taskVars, schedVars, opVars, worldVars, histVars
<1>26. ASSUME OpUnlink PROVE TypeOK'
  <2>1. env' \in [Ids -> Envelope]
    BY <1>26 DEF OpUnlink, DiskType, WorldType, Envelope, Times
  <2>2. opWas' \in Removing
    BY <1>26 DEF OpUnlink, NotRemoving, Removing
  <2> QED BY <1>26, <2>1, <2>2 DEF OpUnlink, DiskType, TaskType, SchedType, WorldType, diskVars,
          taskVars, schedVars, opVars, worldVars, histVars
<1>27. ASSUME OpDie PROVE TypeOK'
  <2>1. opWas' \in Removing
    BY <1>27 DEF OpDie, NotRemoving, Removing
  <2>2. spent' \in Spent
    BY <1>27, SpentType DEF OpDie
  <2> QED BY <1>27, <2>1, <2>2 DEF OpDie, DiskType, TaskType, SchedType, WorldType, diskVars,
          taskVars, schedVars, opVars, worldVars, histVars
<1>28. ASSUME Crash PROVE TypeOK'
  <2>1. slot' \in Slots
    BY <1>28, ConstantsAssumption DEF Crash, Slots
  <2>2. claims' \in ClaimState
    BY <1>28 DEF Crash, NoClaims, ClaimState
  <2>3. agenda' \in Agenda
    BY <1>28 DEF Crash, Agenda, NoAgenda
  <2>4. answer' \in [Slots -> Answers]
    BY <1>28 DEF Crash, NoAnswer, Answers
  <2>5. holds' \in [Dests -> Hold]
    BY <1>28, ConstantsAssumption DEF Crash, NoHold, Hold, Times, Levels
  <2>6. excused' \in [Rcpts -> Nat]
    BY <1>28 DEF Crash, WorldType
  <2>7. spent' \in Spent
    BY <1>28, SpentType DEF Crash
  <2> QED BY <1>28, <2>1, <2>2, <2>3, <2>4, <2>5, <2>6, <2>7, ConstantsAssumption DEF Crash,
          DiskType, TaskType, SchedType, WorldType, diskVars, taskVars, schedVars, opVars,
          worldVars, histVars
<1>29. ASSUME Restart PROVE TypeOK'
  BY <1>29 DEF Restart, DiskType, TaskType, SchedType, WorldType, diskVars, taskVars, schedVars,
      opVars, worldVars, histVars
<1>30. ASSUME Tick PROVE TypeOK'
  <2>1. now' \in Times
    BY <1>30, ConstantsAssumption DEF Tick, Times, WorldType
  <2> QED BY <1>30, <2>1 DEF Tick, DiskType, TaskType, SchedType, WorldType, diskVars, taskVars,
          schedVars, opVars, worldVars, histVars
<1>31. ASSUME NEW i \in Ids, WriteWaiting(i) PROVE TypeOK'
  <2>1. OwedBy(i) \subseteq Rcpts \X Kinds
    BY <1>31 DEF OwedBy, DiskType
  <2>2. owed' \subseteq Rcpts \X Kinds /\ evLog' \subseteq Rcpts \X Kinds /\ spent' \in Spent
    BY <1>31, <2>1, RecordOutcomesType DEF WriteWaiting, DiskType
  <2>3. agenda' \in Agenda
    BY <1>31 DEF WriteWaiting, Agenda, TaskType
  <2>4. HoldForRemoval(env[i]) \in Envelope
    BY <1>31 DEF HoldForRemoval, Envelope, WorldType, DiskType
  <2>5. env' \in [Ids -> Envelope]
    BY <1>31, <2>4 DEF WriteWaiting, DiskType
  <2> QED BY <1>31, <2>1, <2>2, <2>3, <2>4, <2>5 DEF WriteWaiting, DiskType, TaskType,
          SchedType, WorldType, diskVars, taskVars, schedVars, opVars, worldVars, histVars
<1>32. ASSUME ScanLoad PROVE TypeOK'
  <2>1. holds' \in [Dests -> Hold]
    BY <1>32, SpoolHoldType DEF ScanLoad
  <2>2. agenda' \in Agenda
    BY <1>32 DEF ScanLoad, Agenda, Due, Pending, PendingIn, RcptsOf
  <2> QED BY <1>32, <2>1, <2>2 DEF ScanLoad, DiskType, TaskType, SchedType, WorldType, diskVars,
          taskVars, schedVars, opVars, worldVars, histVars
<1>33. ASSUME NEW q \in agenda.queue, QueueEntry(q) PROVE TypeOK'
  <2>1. q \in [id : Ids, due : SUBSET Rcpts] /\ q.id \in Ids
    BY <1>33 DEF TaskType, Agenda
  <2>2. Skipped(q) \subseteq Rcpts /\ Refused(q) \subseteq Rcpts
    BY <1>33, <2>1 DEF Skipped, Refused, Free
  <2>3. /\ OutcomesOf(Skipped(q), "suppressed") \subseteq Rcpts \X Kinds
        /\ OutcomesOf(Refused(q), "bounced") \subseteq Rcpts \X Kinds
    BY <1>33, <2>2, OutcomesType DEF Kinds
  <2>4. owed' \subseteq Rcpts \X Kinds /\ evLog' \subseteq Rcpts \X Kinds /\ spent' \in Spent
    BY <1>33, <2>3, RecordOutcomesType DEF QueueEntry, DiskType
  <2>5. FailedWithout(q) \in [Rcpts -> RecipientState]
    BY <1>33 DEF FailedWithout, DiskType, RecipientState, Status
  <2>6. SettledNext(FailedWithout(q), q.id) \in Times
    BY <1>33, <2>1, <2>5, SettledNextType
  <2>7. env' \in [Ids -> Envelope]
    BY <1>33, <2>1, <2>6 DEF QueueEntry, DiskType, Envelope
  <2>8. waiting' \subseteq Job /\ left' \in [Ids -> Nat]
    BY <1>33, <2>1, JobsOfType DEF QueueEntry, SchedType
  <2>9. agenda' \in Agenda
    BY <1>33 DEF QueueEntry, Agenda, TaskType
  <2> QED BY <1>33, <2>1, <2>2, <2>3, <2>4, <2>5, <2>6, <2>7, <2>8, <2>9 DEF QueueEntry,
          DiskType, TaskType, SchedType, WorldType, diskVars, taskVars, schedVars, opVars,
          worldVars, histVars
<1>34. ASSUME NEW j \in waiting, NEW s \in Slots, StartJob(j, s) PROVE TypeOK'
  <2>1. j \in Job
    BY <1>34 DEF SchedType
  <2>2. claims' \in ClaimState
    BY <1>34, <2>1, TakeClaimType DEF StartJob
  <2>3. ToSend(j) \subseteq Rcpts /\ ToSend(j) # {}
    BY <1>34, <2>1 DEF StartJob, Startable, ToSend, Job
  <2>4. Max({rcpt[r].throttled : r \in ToSend(j)}) \in Levels
    BY <1>34, <2>3, ThrottledMax
  <2>5. conv' \in [Slots -> Talk \cup {NoTalk}]
    BY <1>34, <2>1, <2>3, <2>4 DEF StartJob, SchedType, Talk, Job
  <2> QED BY <1>34, <2>1, <2>2, <2>3, <2>4, <2>5 DEF StartJob, DiskType, TaskType, SchedType,
          WorldType, diskVars, taskVars, schedVars, opVars, worldVars, histVars
<1>35. ASSUME NEW s \in Slots, Record(s) PROVE TypeOK'
  <2>1. conv[s] \in Talk /\ conv[s].job.id \in Ids /\ conv[s].job.dest \in Dests
    BY <1>35 DEF Record, Answered, SchedType, Talk, Job
  <2>2. rcpt' \in [Rcpts -> RecipientState]
    BY <1>35, <2>1, RecordedType DEF Record
  <2>3. env' \in [Ids -> Envelope]
    BY <1>35, <2>1, RecordedType, SettledNextType DEF Record, DiskType, Envelope
  <2>4. owed' \subseteq Rcpts \X Kinds
    BY <1>35, <2>1, IntendedType DEF Record, DiskType
  <2>5. holds' \in [Dests -> Hold]
    BY <1>35, <2>1, SlowDownType DEF Record, SchedType
  <2> QED BY <1>35, <2>1, <2>2, <2>3, <2>4, <2>5 DEF Record, DiskType, TaskType, SchedType,
          WorldType, diskVars, taskVars, schedVars, opVars, worldVars, histVars
<1>36. ASSUME NEW s \in Slots, RecordGone(s) PROVE TypeOK'
  <2>1. conv[s] \in Talk
    BY <1>36 DEF RecordGone, Answered, SchedType
  <2>2. evLog' \subseteq Rcpts \X Kinds
    BY <1>36, <2>1, IntendedType DEF RecordGone, DiskType
  <2>3. spent' \in Spent
    BY <1>36, SpentType DEF RecordGone, WorldType
  <2> QED BY <1>36, <2>1, <2>2, <2>3, EndConversationType DEF RecordGone, DiskType, TaskType,
          SchedType, WorldType, diskVars, taskVars, schedVars, opVars, worldVars, histVars
<1>37. ASSUME AfterConversation PROVE TypeOK'
  <2>1. conv[slot] \in Talk /\ slot \in Slots
    BY <1>37 DEF AfterConversation, TaskType
  <2>2. owed' \subseteq Rcpts \X Kinds /\ evLog' \subseteq Rcpts \X Kinds /\ spent' \in Spent
    BY <1>37, <2>1, RecordOutcomesType, IntendedType DEF AfterConversation, DiskType
  <2>3. suppressed' \subseteq Addrs
    BY <1>37, <2>1, ConstantsAssumption DEF AfterConversation, DiskType, Said, Talk
  <2>4. slot' \in Slots
    BY <1>37, ConstantsAssumption DEF AfterConversation, Slots
  <2> QED BY <1>37, <2>1, <2>2, <2>3, <2>4, EndConversationType DEF AfterConversation, DiskType,
          TaskType, SchedType, WorldType, diskVars, taskVars, schedVars, opVars, worldVars,
          histVars
<1>38. ASSUME FinishExpire PROVE TypeOK'
  <2>1. cur \in Ids
    BY <1>38 DEF FinishExpire, TaskType
  <2>2. ExpireStates(cur) \in [Rcpts -> RecipientState]
    BY <1>38 DEF ExpireStates, DiskType, RecipientState, Status
  <2>3. OutcomesOf(Expired(cur), "expired") \subseteq Rcpts \X Kinds
    BY <1>38, OutcomesType DEF Expired, Pending, PendingIn, RcptsOf, Kinds
  <2>4. owed' \subseteq Rcpts \X Kinds /\ evLog' \subseteq Rcpts \X Kinds /\ spent' \in Spent
    BY <1>38, <2>3, RecordOutcomesType DEF FinishExpire, DiskType
  <2>5. SettledNext(ExpireStates(cur), cur) \in Times
    BY <1>38, <2>1, <2>2, SettledNextType
  <2>6. env' \in [Ids -> Envelope]
    BY <1>38, <2>1, <2>5 DEF FinishExpire, DiskType, Envelope
  <2> QED BY <1>38, <2>1, <2>2, <2>3, <2>4, <2>5, <2>6 DEF FinishExpire, GoTo, DiskType,
          TaskType, SchedType, WorldType, diskVars, taskVars, schedVars, opVars, worldVars,
          histVars
<1>39. ASSUME ReportRefused PROVE TypeOK'
  <2>1. \A st \in RecipientState : RefusedReport(st) \in RecipientState
    BY <1>39, RefusedReportType
  <2>2. rcpt' \in [Rcpts -> RecipientState]
    BY <1>39, <2>1 DEF ReportRefused, DiskType
  <2> QED BY <1>39, <2>1, <2>2 DEF ReportRefused, GoTo, DiskType, TaskType, SchedType,
          WorldType, diskVars, taskVars, schedVars, opVars, worldVars, histVars
<1>40. ASSUME NEW d \in Dests, OpReleaseDestination(d) PROVE TypeOK'
  <2>1. 0 \in Levels /\ now \in Times
    BY <1>40, ConstantsAssumption DEF Levels, WorldType
  <2>2. ReleasedStates(d) \in [Rcpts -> RecipientState]
    BY <1>40, <2>1 DEF ReleasedStates, DiskType, RecipientState
  <2>3. \A i \in Ids : SettledNext(ReleasedStates(d), i) \in Times
    BY <1>40, <2>2, SettledNextType
  <2>4. env' \in [Ids -> Envelope]
    BY <1>40, <2>3 DEF OpReleaseDestination, DiskType, Envelope
  <2>5. spent' \in Spent
    BY <1>40, SpentType DEF OpReleaseDestination
  <2> QED BY <1>40, <2>1, <2>2, <2>3, <2>4, <2>5 DEF OpReleaseDestination, DiskType, TaskType,
          SchedType, WorldType, diskVars, taskVars, schedVars, opVars, worldVars, histVars
<1> QED BY <1>1, <1>2, <1>3, <1>4, <1>5, <1>6, <1>7, <1>8, <1>9, <1>10, <1>11, <1>12, <1>13,
        <1>14, <1>15, <1>16, <1>17, <1>18, <1>19, <1>20, <1>21, <1>22, <1>23, <1>24, <1>25,
        <1>26, <1>27, <1>28, <1>29, <1>30, <1>31, <1>32, <1>33, <1>34, <1>35, <1>36, <1>37,
        <1>38, <1>39, <1>40 DEF Next, WorkerStep, ScanStep, FillStep, FinishStep, Remote,
        Complete, Operator, Removal

\* The initial state is well typed.
LEMMA TypeInit == Init => TypeOK
<1> SUFFICES ASSUME Init PROVE TypeOK
  OBVIOUS
<1>1. 0 \in Times /\ 0 \in Levels /\ 1 \in Slots
  BY ConstantsAssumption DEF Times, Levels, Slots
<1>2. DiskType
  BY <1>1 DEF Init, DiskType, Envelope, RecipientState, Status, NotHeld
<1>3. TaskType
  BY <1>1 DEF Init, TaskType, PCs, Settling, Agenda, NoAgenda
<1>4. SchedType
  BY <1>1 DEF Init, SchedType, NoAnswer, Answers, NoClaims, ClaimState, NoHold, Hold
<1>5. WorldType
  BY <1>1 DEF Init, WorldType, NotRemoving, Removing, Spent
<1> QED BY <1>2, <1>3, <1>4, <1>5 DEF TypeOK

\* Every variable keeps the type of the envelope, recipient, claim and
\* schedule structs of the code, whatever the interleaving of worker,
\* operator, remotes, crashes and failed writes.
THEOREM TypeCorrect == Spec => []TypeOK
<1>1. TypeOK /\ UNCHANGED vars => TypeOK'
  BY DEF vars, TypeOK, DiskType, TaskType, SchedType, WorldType, diskVars, taskVars, schedVars,
         opVars, worldVars, histVars
<1> QED BY <1>1, TypeInit, TypeNext, PTL DEF Spec

============================================================================
