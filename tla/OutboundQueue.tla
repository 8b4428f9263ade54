--------------------------- MODULE OutboundQueue ---------------------------
(***************************************************************************)
(* The outbound queue of epistle: the spool entries on disk (envelopes     *)
(* with one state per recipient), the worker that turns due recipients     *)
(* into SMTP conversations and settles entries, the evidence log it owes   *)
(* an outcome for every recipient of mail whose evidence is mandatory, the *)
(* operator who edits the same entries from another process, the remote    *)
(* servers, and crashes of the server at every point between two writes.   *)
(*                                                                         *)
(* The worker (queue/worker) is one task: a scan, the end of a             *)
(* conversation, and the filling of free slots follow one another, so the  *)
(* model gives it a program counter.  What can happen between two of its   *)
(* writes is a step of the operator, of a remote server, or a crash.       *)
(* Everything in memory goes with a crash; everything on disk stays.       *)
(***************************************************************************)
EXTENDS Integers, FiniteSetsExt, Sequences

CONSTANTS
  Ids,          \* spool entries (messages)
  Rcpts,        \* recipients: one element per recipient of one entry
  Dests,        \* destinations (recipient domains)
  Addrs,        \* recipient addresses, the keys of the suppression list
  Senders,      \* whose share of the slots a message counts to
  EntryOf,      \* [Rcpts -> Ids]
  DestOf,       \* [Rcpts -> Dests]
  AddrOf,       \* [Rcpts -> Addrs]
  SenderOf,     \* [Ids -> Senders]
  Mandatory,    \* entries whose evidence is mandatory (transactional mail)
  NoDsn,        \* recipients with NOTIFY=NEVER
  Unparseable,  \* recipients whose address does not parse
  Total,        \* Limits.total: conversations at once
  PerDomain,    \* Limits.per_domain
  MaxAge,       \* max_age_secs: the give-up window
  DelayAge,     \* RetrySchedule.delay_warning
  RetryWaits,   \* the waits RetrySchedule::wait can draw
  BackoffSteps, \* backoff_steps: waits after a slow-down reply
  MaxReports,   \* MAX_REPORT_ATTEMPTS
  ReportWait,   \* report_wait, for every attempt before the last
  Replies,      \* the answers remote servers give in this instance
  Sinks,        \* what the bounce sink does with a report in this instance
  OpKinds,      \* the operator commands used in this instance
  MaxTime,      \* bound: the clock stops here
  LastSubmit,   \* bound: no message is submitted after this time
  MaxCrashes,   \* bound: crashes of the server, deaths of a removal
  MaxFaults,    \* bound: failed writes (spool, evidence log)
  MaxOps,       \* bound: operator commands
  NoEntry,      \* stands for "no entry"
  NoTalk        \* stands for "no conversation"

Status  == {"pending", "delivered", "failed"}
Kinds   == {"delivered", "bounced", "expired", "suppressed", "canceled"}
AllReplies == {"ok", "deferred", "slow", "toomany", "refused", "bad"}
AllSinks   == {"queued", "refused", "gone"}
AllOpKinds == {"hold", "release", "retry", "remove", "releasedest"}
NotHeld == -1

Times  == 0..MaxTime
Levels == 0..Len(BackoffSteps)

Job  == [id : Ids, dest : Dests, rcpts : SUBSET Rcpts]
Talk == [job : Job, claimed : SUBSET Rcpts, talk : SUBSET Rcpts, own : Levels]

ASSUME ConstantsAssumption ==
  /\ EntryOf \in [Rcpts -> Ids] /\ DestOf \in [Rcpts -> Dests]
  /\ AddrOf \in [Rcpts -> Addrs] /\ SenderOf \in [Ids -> Senders]
  /\ Mandatory \subseteq Ids /\ NoDsn \subseteq Rcpts /\ Unparseable \subseteq Rcpts
  /\ IsFiniteSet(Rcpts)
  /\ Total \in Nat \ {0} /\ PerDomain \in Nat \ {0}
  /\ MaxAge \in Nat \ {0} /\ DelayAge \in Nat
  /\ RetryWaits \subseteq Nat /\ RetryWaits # {}
  /\ BackoffSteps \in Seq(Nat) /\ Len(BackoffSteps) > 0
  /\ MaxReports \in Nat \ {0} /\ ReportWait \in [1 .. MaxReports - 1 -> Nat]
  /\ Replies \subseteq AllReplies /\ Sinks \subseteq AllSinks /\ OpKinds \subseteq AllOpKinds
  /\ MaxTime \in Nat /\ LastSubmit \in Nat /\ MaxCrashes \in Nat /\ MaxFaults \in Nat /\ MaxOps \in Nat
  /\ NoEntry \notin Ids /\ NoTalk \notin Talk

Slots == 1..Total

(***************************************************************************)
(* The state.                                                              *)
(***************************************************************************)
VARIABLES
  \* --- on disk
  env,        \* [Ids -> Envelope]: the entry-wide fields of each envelope
  rcpt,       \* [Rcpts -> RecipientState]
  owed,       \* outcomes_pending of all envelopes
  evLog,      \* outcome records the evidence chain holds
  suppressed, \* the suppression list
  \* --- the worker, lost in a crash
  pc,         \* where the worker task is
  ret,        \* where it goes on after settling an entry
  cur,        \* the entry being settled
  slot,       \* the slot whose conversation was just recorded
  agenda,     \* what the scan under way has still to do
  waiting,    \* jobs waiting for a slot
  left,       \* Schedule.rounds: jobs of an entry not yet ended
  conv,       \* [Slots -> Talk \cup {NoTalk}]: conversations
  answer,     \* [Slots -> answers]: what the remote said to each recipient
  claims,     \* ClaimState
  holds,      \* [Dests -> Hold]: destinations that asked to slow down
  \* --- the removal an operator has under way, lost when its process dies
  opId,       \* the entry whose removal holds the spool lock, or NoEntry
  opWas,      \* its hold before the removal, and whether a record was written
  \* --- the world
  now, spent,
  \* --- history
  copies,     \* copies of the message the remote accepted for a recipient
  excused,    \* of those, the ones whose acceptance the spool was never told
  dsn         \* failure reports handed to the sink for a recipient

diskVars   == <<env, rcpt, owed, evLog, suppressed>>
taskVars   == <<ret, cur, slot, agenda>>
schedVars  == <<waiting, left, conv, answer, claims, holds>>
opVars     == <<opId, opWas>>
worldVars  == <<now, spent>>
histVars   == <<copies, excused, dsn>>
vars == <<diskVars, pc, taskVars, schedVars, opVars, worldVars, histVars>>

Envelope == [at : {"absent", "queued", "removed", "canceled"}, created : Times, next : Times,
             held : Times \cup {NotHeld}, heldSecs : Nat, cancelling : BOOLEAN,
             warned : BOOLEAN]

RecipientState == [status : Status, next : Times, throttled : Levels,
                   reported : BOOLEAN, tries : Nat, after : Times]

Hold == [until : Times, deferrals : Levels]

ClaimState == [rcpts : SUBSET Rcpts, domains : [Dests -> Nat],
               senders : [Senders -> Nat], running : Nat]

Agenda == [outcomes : SUBSET Ids, finish : SUBSET Ids,
           queue : SUBSET [id : Ids, due : SUBSET Rcpts]]

\* What an operator's removal keeps of the entry, and what was spent of the
\* bounds on crashes, faults and commands.
Removing == [held : Times \cup {NotHeld}, cancelling : BOOLEAN, wrote : BOOLEAN]
Spent    == [crashes : Nat, faults : Nat, ops : Nat]

Answers  == [Rcpts -> Replies \cup {"deferred", "none"}]
NoAnswer == [r \in Rcpts |-> "none"]
NoClaims == [rcpts |-> {}, domains |-> [d \in Dests |-> 0],
             senders |-> [s \in Senders |-> 0], running |-> 0]
NoHold   == [until |-> 0, deferrals |-> 0]
NoAgenda == [outcomes |-> {}, finish |-> {}, queue |-> {}]
NotRemoving == [held |-> NotHeld, cancelling |-> FALSE, wrote |-> FALSE]

Init ==
  /\ env = [i \in Ids |-> [at |-> "absent", created |-> 0, next |-> 0, held |-> NotHeld,
                           heldSecs |-> 0, cancelling |-> FALSE, warned |-> FALSE]]
  /\ rcpt = [r \in Rcpts |-> [status |-> "pending", next |-> 0, throttled |-> 0,
                              reported |-> FALSE, tries |-> 0, after |-> 0]]
  /\ owed = {} /\ evLog = {} /\ suppressed = {}
  /\ pc = "select" /\ ret = "fill" /\ cur = NoEntry /\ slot = 1
  /\ agenda = NoAgenda /\ waiting = {} /\ left = [i \in Ids |-> 0]
  /\ conv = [s \in Slots |-> NoTalk] /\ answer = [s \in Slots |-> NoAnswer]
  /\ claims = NoClaims /\ holds = [d \in Dests |-> NoHold]
  /\ opId = NoEntry /\ opWas = NotRemoving
  /\ now = 0 /\ spent = [crashes |-> 0, faults |-> 0, ops |-> 0]
  /\ copies = [r \in Rcpts |-> 0] /\ excused = [r \in Rcpts |-> 0]
  /\ dsn = [r \in Rcpts |-> 0]

(***************************************************************************)
(* Reading an envelope.                                                    *)
(***************************************************************************)
RcptsOf(i) == {r \in Rcpts : EntryOf[r] = i}
Queued(i)  == env[i].at = "queued"
OwedBy(i)  == {o \in owed : EntryOf[o[1]] = i}

\* Envelope::pending and recipients_in(Failed)
PendingIn(rc, i) == {r \in RcptsOf(i) : rc[r].status = "pending"}
Pending(i) == PendingIn(rcpt, i)
Unreported(i) == {r \in RcptsOf(i) : rcpt[r].status = "failed" /\ ~rcpt[r].reported}

SaturatingSub(a, b) == IF a >= b THEN a - b ELSE 0

\* The time a wait that begins now ends.  Past the horizon MaxTime of the
\* model's clock a wait takes no time, so that it still ends.
Later(wait) == IF now + wait <= MaxTime THEN now + wait ELSE MaxTime

\* Envelope::due: an entry-wide retry time before every recipient's own is
\* an operator's retry, and makes every pending recipient due.
Due(i) ==
  {r \in Pending(i) : \/ rcpt[r].next <= now
                      \/ \A q \in Pending(i) : env[i].next < rcpt[q].next}

\* Envelope::settle, on the recipient states rc about to be written.
SettledNext(rc, i) ==
  IF PendingIn(rc, i) = {} THEN env[i].next
  ELSE Min({rc[r].next : r \in PendingIn(rc, i)})

\* Worker::window_used: the age of the entry less the time it was held.
WindowUsed(i) == SaturatingSub(SaturatingSub(now, env[i].created), env[i].heldSecs)

\* Mutation of Expired: recipients in conversation are expired too.
ExpiredInTalk(i) == {r \in Pending(i) : WindowUsed(i) >= MaxAge}

\* The recipients of i past the give-up window that no conversation holds.
Expired(i) == {r \in Pending(i) : r \notin claims.rcpts /\ WindowUsed(i) >= MaxAge}

\* Holds::held: whether destination d is not to be contacted now.
OnHold(d) == holds[d].until > now

\* What the spool says of the holds (Holds::add_envelope over all entries).
ThrottledFor(d) == {r \in Rcpts : /\ DestOf[r] = d /\ Queued(EntryOf[r])
                                  /\ rcpt[r].status = "pending" /\ rcpt[r].throttled > 0}
SpoolHold(d) ==
  IF ThrottledFor(d) = {} THEN NoHold
  ELSE [until     |-> Max({rcpt[r].next : r \in ThrottledFor(d)}),
        deferrals |-> Max({rcpt[r].throttled : r \in ThrottledFor(d)})]

\* The spool lock (flock): the writes of one process wait for a removal the
\* other has under way.
WorkerMayWrite   == opId = NoEntry
OperatorMayWrite == opId = NoEntry /\ pc # "unlink"

Fault == spent.faults < MaxFaults /\ spent' = [spent EXCEPT !.faults = @ + 1]

(***************************************************************************)
(* The evidence log.  A write may be refused; a note is dropped from the   *)
(* envelope only after its outcome is written, and dropping it may fail.   *)
(***************************************************************************)
OutcomesOf(S, k) == {<<r, k>> : r \in {x \in S : EntryOf[x] \in Mandatory}}

\* Mutation of RecordOutcomes: the notes go even when the write failed.
RecordOutcomesForgets(recs, noted) ==
  /\ evLog' \in {evLog, evLog \cup recs} /\ owed' = noted \ recs
  /\ UNCHANGED spent

\* record_outcome over recs, the notes being in noted: every outcome is
\* written and its note dropped, or, counted as a fault, only some are.
RecordOutcomes(recs, noted) ==
  \/ /\ evLog' = evLog \cup recs
     /\ owed' = noted \ recs
     /\ UNCHANGED spent
  \/ /\ recs # {} /\ Fault
     /\ \E written \in SUBSET recs : \E dropped \in SUBSET written :
          /\ dropped # recs
          /\ evLog' = evLog \cup written
          /\ owed' = noted \ dropped

\* The first half of FsSpool::remove_with: the entry is put on hold.
HoldForRemoval(e) == [e EXCEPT !.held = IF @ = NotHeld THEN now ELSE @, !.cancelling = TRUE]

(***************************************************************************)
(* Submission.  The entry appears in new/ with its envelope.               *)
(***************************************************************************)
Submit(i) ==
  /\ pc = "select" /\ env[i].at = "absent" /\ now <= LastSubmit
  /\ env' = [env EXCEPT ![i].at = "queued", ![i].created = now]
  /\ UNCHANGED <<rcpt, owed, evLog, suppressed, pc, taskVars, schedVars, opVars,
                 worldVars, histVars>>

(***************************************************************************)
(* Worker::scan.  It begins with the outcomes still owed to the evidence   *)
(* log (write_waiting_outcomes), reads every envelope, settles the entries *)
(* in hand that are overdue, then queues what is due.                      *)
(***************************************************************************)
\* Mutation of ScanBegin: the outcomes waiting are not looked at.
ScanBeginNoOutcomes ==
  /\ pc = "select"
  /\ pc' = "outcomes" /\ agenda' = NoAgenda
  /\ UNCHANGED <<diskVars, ret, cur, slot, schedVars, opVars, worldVars, histVars>>

ScanBegin ==
  /\ pc = "select"
  /\ pc' = "outcomes"
  /\ agenda' = [NoAgenda EXCEPT !.outcomes = {i \in Ids : Queued(i) /\ OwedBy(i) # {}}]
  /\ UNCHANGED <<diskVars, ret, cur, slot, schedVars, opVars, worldVars, histVars>>

WriteWaiting(i) ==
  /\ pc = "outcomes" /\ i \in agenda.outcomes /\ WorkerMayWrite
  /\ RecordOutcomes(OwedBy(i), owed)
  /\ agenda' = [agenda EXCEPT !.outcomes = @ \ {i}]
  /\ IF Queued(i) /\ owed' \cap OwedBy(i) = {} /\ Pending(i) = {}
       THEN /\ env' = [env EXCEPT ![i] = HoldForRemoval(@)]
            /\ pc' = "unlink" /\ ret' = "outcomes" /\ cur' = i
       ELSE UNCHANGED <<env, pc, ret, cur>>
  /\ UNCHANGED <<rcpt, suppressed, slot, schedVars, opVars, now, histVars>>

\* Mutation of ScanLoad: entries in hand are queued as well.
ScanLoadInHand ==
  /\ pc = "outcomes" /\ agenda.outcomes = {}
  /\ pc' = "scan"
  /\ holds' = [d \in Dests |-> SpoolHold(d)]
  /\ LET open == {i \in Ids : Queued(i) /\ env[i].held = NotHeld}
     IN  agenda' = [outcomes |-> {},
                    finish |-> {i \in open : left[i] > 0 /\ Expired(i) # {}},
                    queue  |-> {[id |-> i, due |-> Due(i)] :
                                i \in {x \in open : env[x].next <= now}}]
  /\ UNCHANGED <<diskVars, ret, cur, slot, waiting, left, conv, answer, claims, opVars,
                 worldVars, histVars>>

ScanLoad ==
  /\ pc = "outcomes" /\ agenda.outcomes = {}
  /\ pc' = "scan"
  /\ holds' = [d \in Dests |-> SpoolHold(d)]
  /\ LET open == {i \in Ids : Queued(i) /\ env[i].held = NotHeld}
     IN  agenda' = [outcomes |-> {},
                    finish |-> {i \in open : left[i] > 0 /\ Expired(i) # {}},
                    queue  |-> {[id |-> i, due |-> Due(i)] :
                                i \in {x \in open : left[x] = 0 /\ env[x].next <= now}}]
  /\ UNCHANGED <<diskVars, ret, cur, slot, waiting, left, conv, answer, claims, opVars,
                 worldVars, histVars>>

ScanOverdue(i) ==
  /\ pc = "scan" /\ i \in agenda.finish
  /\ agenda' = [agenda EXCEPT !.finish = @ \ {i}]
  /\ pc' = "finish" /\ ret' = "scan" /\ cur' = i
  /\ UNCHANGED <<diskVars, slot, schedVars, opVars, worldVars, histVars>>

\* The due recipients of q on the suppression list (skip_suppressed), those
\* whose address does not parse (refuse_unparseable), and the jobs the
\* others make, one per destination not on hold.
Free(q)     == q.due \ claims.rcpts
Skipped(q)  == {r \in Free(q) : AddrOf[r] \in suppressed}
Refused(q)  == {r \in Free(q) : r \in Unparseable /\ AddrOf[r] \notin suppressed}
Sendable(q) == {r \in Free(q) : /\ AddrOf[r] \notin suppressed /\ r \notin Unparseable
                                /\ ~OnHold(DestOf[r])}
JobsOf(q) == {[id |-> q.id, dest |-> d, rcpts |-> {r \in Sendable(q) : DestOf[r] = d}] :
              d \in {DestOf[r] : r \in Sendable(q)}}

\* Failing recipients without a conversation; the suppressed are not
\* reported to the sender.
FailedWithout(q) ==
  [r \in Rcpts |-> IF r \in Skipped(q) \cup Refused(q)
                   THEN [rcpt[r] EXCEPT !.status = "failed",
                                        !.reported = @ \/ r \in Skipped(q)]
                   ELSE rcpt[r]]

QueueEntry(q) ==
  /\ pc = "scan" /\ agenda.finish = {} /\ q \in agenda.queue /\ WorkerMayWrite
  /\ agenda' = [agenda EXCEPT !.queue = @ \ {q}]
  /\ LET lost == Skipped(q) \cup Refused(q)
         recs == OutcomesOf(Skipped(q), "suppressed") \cup OutcomesOf(Refused(q), "bounced")
     IN  /\ lost # {} => Queued(q.id)
         /\ RecordOutcomes(recs, owed \cup recs)
         /\ rcpt' = FailedWithout(q)
         /\ env' = IF lost = {} THEN env
                   ELSE [env EXCEPT ![q.id].next = SettledNext(FailedWithout(q), q.id)]
         /\ waiting' = waiting \cup JobsOf(q)
         /\ left' = [left EXCEPT ![q.id] = Cardinality(JobsOf(q))]
         /\ IF JobsOf(q) = {} /\ (lost # {} \/ (Free(q) = {} /\ RcptsOf(q.id) \cap claims.rcpts = {}))
              THEN pc' = "finish" /\ ret' = "scan" /\ cur' = q.id
              ELSE UNCHANGED <<pc, ret, cur>>
  /\ UNCHANGED <<suppressed, slot, conv, answer, claims, holds, opVars, now, histVars>>

\* The entry was removed since it was read, or a write failed: the error is
\* kept for the end of the pass and the next entry is taken.
QueueEntryError(q) ==
  /\ pc = "scan" /\ agenda.finish = {} /\ q \in agenda.queue /\ WorkerMayWrite
  /\ Skipped(q) \cup Refused(q) # {}
  /\ agenda' = [agenda EXCEPT !.queue = @ \ {q}]
  /\ IF Queued(q.id) THEN Fault ELSE UNCHANGED spent
  /\ UNCHANGED <<diskVars, pc, ret, cur, slot, schedVars, opVars, now, histVars>>

ScanEnd ==
  /\ pc = "scan" /\ agenda.finish = {} /\ agenda.queue = {}
  /\ pc' = "fill"
  /\ UNCHANGED <<diskVars, taskVars, schedVars, opVars, worldVars, histVars>>

(***************************************************************************)
(* Worker::fill.  Jobs are started while a slot is free; the order in      *)
(* which the senders and their domains take turns is left open here.       *)
(***************************************************************************)
\* Limits::per_sender: three quarters of the slots, at least one.
PerSender == IF (Total * 3) \div 4 = 0 THEN 1 ELSE (Total * 3) \div 4

HasRoom       == claims.running < Total
DomainFull(d) == claims.domains[d] >= PerDomain
SenderFull(u) == claims.senders[u] >= PerSender
CanTake(j)    == HasRoom /\ ~DomainFull(j.dest) /\ ~SenderFull(SenderOf[j.id])

\* Schedule::job_ended: one job of entry i is over; the entry is settled
\* after its last one, and the worker goes on filling slots.
JobEnded(i, w) ==
  /\ waiting' = w
  /\ left' = [left EXCEPT ![i] = SaturatingSub(@, 1)]
  /\ IF left[i] = 1 THEN pc' = "finish" /\ ret' = "fill" /\ cur' = i
                    ELSE pc' = "fill" /\ UNCHANGED <<ret, cur>>

\* A destination put on hold since its jobs were queued.
DropHeldJob(j) ==
  /\ pc = "fill" /\ j \in waiting /\ HasRoom /\ OnHold(j.dest)
  /\ JobEnded(j.id, waiting \ {j})
  /\ UNCHANGED <<diskVars, slot, agenda, conv, answer, claims, holds, opVars, worldVars,
                 histVars>>

\* Claims::take.  The recipients of j nobody holds are claimed.
TakeClaim(j) ==
  [rcpts   |-> claims.rcpts \cup j.rcpts,
   domains |-> [claims.domains EXCEPT ![j.dest] = @ + 1],
   senders |-> [claims.senders EXCEPT ![SenderOf[j.id]] = @ + 1],
   running |-> claims.running + 1]

\* Mutation of ToSend: the status is not looked at again.
ToSendUnchecked(j) == j.rcpts \ claims.rcpts

\* Worker::start: the entry is read again under the claim, and only the
\* recipients still pending are sent to.
ToSend(j) == {r \in j.rcpts \ claims.rcpts : rcpt[r].status = "pending"}
Startable(j) == Queued(j.id) /\ env[j.id].held = NotHeld /\ ToSend(j) # {}

StartJob(j, s) ==
  /\ pc = "fill" /\ j \in waiting /\ ~OnHold(j.dest) /\ CanTake(j) /\ Startable(j)
  /\ conv[s] = NoTalk /\ \A t \in Slots : t < s => conv[t] # NoTalk
  /\ waiting' = waiting \ {j}
  /\ claims' = TakeClaim(j)
  /\ conv' = [conv EXCEPT ![s] = [job |-> j, claimed |-> j.rcpts \ claims.rcpts,
                                  talk |-> ToSend(j),
                                  own |-> Max({rcpt[r].throttled : r \in ToSend(j)})]]
  /\ UNCHANGED <<diskVars, pc, taskVars, left, answer, holds, opVars, worldVars, histVars>>

\* The entry was delivered, held or removed since the scan.
DropStaleJob(j) ==
  /\ pc = "fill" /\ j \in waiting /\ ~OnHold(j.dest) /\ CanTake(j) /\ ~Startable(j)
  /\ JobEnded(j.id, waiting \ {j})
  /\ UNCHANGED <<diskVars, slot, agenda, conv, answer, claims, holds, opVars, worldVars,
                 histVars>>

\* No slot is free, or no sender has a job that can start: a held job stays
\* behind only when its sender was set aside, at its share, before it.
FillEnd ==
  /\ pc = "fill"
  /\ \/ ~HasRoom
     \/ \A j \in waiting :
          IF OnHold(j.dest)
            THEN /\ SenderFull(SenderOf[j.id])
                 /\ \E k \in waiting : /\ SenderOf[k.id] = SenderOf[j.id]
                                       /\ ~OnHold(k.dest) /\ ~DomainFull(k.dest)
            ELSE ~CanTake(j)
  /\ pc' = "select"
  /\ UNCHANGED <<diskVars, taskVars, schedVars, opVars, worldVars, histVars>>

(***************************************************************************)
(* The remote servers.  A conversation ends with an answer for each        *)
(* recipient; a connection lost after the message was handed over leaves   *)
(* copies the sender was never told of.                                    *)
(***************************************************************************)
Answer(s) ==
  /\ pc = "select" /\ conv[s] # NoTalk /\ answer[s] = NoAnswer
  /\ \E a \in [conv[s].talk -> Replies] :
       /\ answer' = [answer EXCEPT ![s] = [r \in Rcpts |-> IF r \in conv[s].talk THEN a[r]
                                                           ELSE "none"]]
       /\ copies' = [r \in Rcpts |-> IF r \in conv[s].talk /\ a[r] = "ok"
                                     THEN copies[r] + 1 ELSE copies[r]]
  /\ UNCHANGED <<diskVars, pc, taskVars, waiting, left, conv, claims, holds, opVars,
                 worldVars, excused, dsn>>

AnswerLost(s) ==
  /\ pc = "select" /\ conv[s] # NoTalk /\ answer[s] = NoAnswer /\ Fault
  /\ \E took \in SUBSET conv[s].talk :
       /\ took # {}
       /\ copies'  = [r \in Rcpts |-> IF r \in took THEN copies[r] + 1 ELSE copies[r]]
       /\ excused' = [r \in Rcpts |-> IF r \in took THEN excused[r] + 1 ELSE excused[r]]
  /\ answer' = [answer EXCEPT ![s] = [r \in Rcpts |-> IF r \in conv[s].talk THEN "deferred"
                                                      ELSE "none"]]
  /\ UNCHANGED <<diskVars, pc, taskVars, waiting, left, conv, claims, holds, opVars, now, dsn>>

(***************************************************************************)
(* Worker::complete and Worker::record.                                    *)
(***************************************************************************)
Said(s, k) == {r \in conv[s].talk : answer[s][r] \in k}

\* Conversation::retry_now: left for another transaction by a remote that
\* took the message for others.
RetryNow(s) == IF Said(s, {"ok"}) = {} THEN {} ELSE Said(s, {"toomany"})

\* backoff::step: the wait after `level` slow-down replies in a row, the last
\* step repeating.  OneMore counts a reply, no further than Step can tell.
Step(level) == BackoffSteps[IF level < Len(BackoffSteps) THEN level + 1 ELSE Len(BackoffSteps)]
OneMore(level) == IF level < Len(BackoffSteps) THEN level + 1 ELSE Len(BackoffSteps)

\* Worker::slow_down: the hold a conversation that was asked to slow down
\* puts on its destination.  A hold in force is kept, not grown.
SlowDown(s) ==
  LET hold == holds[conv[s].job.dest]
      behind == Max({conv[s].own, hold.deferrals})
  IN  IF hold.until > now
        THEN [until |-> hold.until, deferrals |-> Max({hold.deferrals, OneMore(conv[s].own)})]
        ELSE [until |-> Later(Step(behind)), deferrals |-> OneMore(behind)]

\* Mutation of Noted: the hold is written to the spool only.
NotedNever(h, until, deferrals) == h

\* Holds::note: the longest wait and the most deferrals seen.
Noted(h, until, deferrals) ==
  [until |-> Max({h.until, until}), deferrals |-> Max({h.deferrals, deferrals})]

\* Mutation of Recorded: the delivery is not saved.
RecordedLost(s, w) ==
  [r \in Rcpts |-> IF r \in Said(s, {"refused", "bad"}) THEN [rcpt[r] EXCEPT !.status = "failed"]
                   ELSE rcpt[r]]

\* What record writes for each recipient; w is the wait its retry schedule
\* draws for a recipient deferred without a slow-down.
Recorded(s, w) ==
  [r \in Rcpts |->
     CASE r \in Said(s, {"ok"}) -> [rcpt[r] EXCEPT !.status = "delivered"]
       [] r \in Said(s, {"refused", "bad"}) -> [rcpt[r] EXCEPT !.status = "failed"]
       [] r \in RetryNow(s) -> [rcpt[r] EXCEPT !.next = now]
       [] r \in Said(s, {"deferred", "slow", "toomany"}) \ RetryNow(s) ->
            IF Said(s, {"slow"}) # {}
              THEN [rcpt[r] EXCEPT !.next = SlowDown(s).until,
                                   !.throttled = SlowDown(s).deferrals]
              ELSE [rcpt[r] EXCEPT !.next = Later(w[r]), !.throttled = 0]
       [] OTHER -> rcpt[r]]

\* Mutations of Intended: a refusal owes nothing; a deferral counts as
\* delivered.
IntendedDeliveries(s) == OutcomesOf(Said(s, {"ok"}), "delivered")
IntendedDeferred(s) == OutcomesOf(Said(s, {"ok", "deferred"}), "delivered")
                         \cup OutcomesOf(Said(s, {"refused", "bad"}), "bounced")

\* The outcomes a conversation owes the evidence log (evidence::intend).
Intended(s) == OutcomesOf(Said(s, {"ok"}), "delivered")
                 \cup OutcomesOf(Said(s, {"refused", "bad"}), "bounced")

\* Mutation of DropClaim: the domain is not counted out.
DropClaimLeak(s) ==
  [rcpts   |-> claims.rcpts \ conv[s].claimed,
   domains |-> claims.domains,
   senders |-> [claims.senders EXCEPT ![SenderOf[conv[s].job.id]] = SaturatingSub(@, 1)],
   running |-> SaturatingSub(claims.running, 1)]

\* The rest of Worker::complete: the claim is dropped, the recipients left
\* for another transaction get a job of their own, and this job is over.
DropClaim(s) ==
  [rcpts   |-> claims.rcpts \ conv[s].claimed,
   domains |-> [claims.domains EXCEPT ![conv[s].job.dest] = SaturatingSub(@, 1)],
   senders |-> [claims.senders EXCEPT ![SenderOf[conv[s].job.id]] = SaturatingSub(@, 1)],
   running |-> SaturatingSub(claims.running, 1)]

\* Mutation of EndConversation: the job for the rest is not counted.
EndConversationUncounted(s) ==
  /\ claims' = DropClaim(s)
  /\ conv' = [conv EXCEPT ![s] = NoTalk]
  /\ answer' = [answer EXCEPT ![s] = NoAnswer]
  /\ JobEnded(conv[s].job.id,
              waiting \cup {[conv[s].job EXCEPT !.rcpts = RetryNow(s)] : x \in {y \in {s} : RetryNow(y) # {}}})

EndConversation(s) ==
  /\ claims' = DropClaim(s)
  /\ conv' = [conv EXCEPT ![s] = NoTalk]
  /\ answer' = [answer EXCEPT ![s] = NoAnswer]
  /\ IF RetryNow(s) # {} /\ left[conv[s].job.id] > 0
       THEN /\ waiting' = waiting \cup {[conv[s].job EXCEPT !.rcpts = RetryNow(s)]}
            /\ pc' = "fill" /\ UNCHANGED <<left, ret, cur>>
       ELSE JobEnded(conv[s].job.id, waiting)

Answered(s) == pc = "select" /\ conv[s] # NoTalk /\ answer[s] # NoAnswer

Record(s) ==
  /\ Answered(s) /\ WorkerMayWrite /\ Queued(conv[s].job.id)
  /\ \E w \in [Said(s, {"deferred", "toomany"}) -> RetryWaits] :
       /\ rcpt' = Recorded(s, w)
       /\ env' = [env EXCEPT ![conv[s].job.id].next =
                               SettledNext(Recorded(s, w), conv[s].job.id)]
  /\ owed' = owed \cup Intended(s)
  /\ holds' = IF Said(s, {"slow"}) = {} THEN holds
              ELSE [holds EXCEPT ![conv[s].job.dest] =
                      Noted(@, SlowDown(s).until, SlowDown(s).deferrals)]
  /\ pc' = "after" /\ slot' = s
  /\ UNCHANGED <<evLog, suppressed, ret, cur, agenda, waiting, left, conv, answer, claims,
                 opVars, worldVars, histVars>>

\* An operator removed the entry during the conversation: what it owes the
\* evidence log is written now, as far as the log takes it (write_owed).
RecordGone(s) ==
  /\ Answered(s) /\ WorkerMayWrite /\ ~Queued(conv[s].job.id)
  /\ \/ evLog' = evLog \cup Intended(s) /\ UNCHANGED spent
     \/ /\ Intended(s) # {} /\ Fault
        /\ \E written \in SUBSET Intended(s) : evLog' = evLog \cup written
  /\ EndConversation(s)
  /\ UNCHANGED <<env, rcpt, owed, suppressed, slot, agenda, holds, opVars, now, histVars>>

\* The envelope cannot be written: the answers are lost.
RecordFault(s) ==
  /\ Answered(s) /\ WorkerMayWrite /\ Fault
  /\ EndConversation(s)
  /\ excused' = [r \in Rcpts |-> IF r \in Said(s, {"ok"}) THEN excused[r] + 1 ELSE excused[r]]
  /\ UNCHANGED <<diskVars, slot, agenda, holds, opVars, now, copies, dsn>>

\* Worker::after_conversation, then the end of Worker::complete.  A reply
\* that proves an address bad suppresses it.
AfterConversation ==
  /\ pc = "after" /\ WorkerMayWrite
  /\ RecordOutcomes(Intended(slot), owed)
  /\ suppressed' = suppressed \cup {AddrOf[r] : r \in Said(slot, {"bad"})}
  /\ EndConversation(slot) /\ slot' = 1
  /\ UNCHANGED <<env, rcpt, agenda, holds, opVars, now, histVars>>

(***************************************************************************)
(* Worker::finish: expire what is too old, report the failures, then remove *)
(* the entry or warn of the delay.  Every step reads the envelope again,   *)
(* and an entry that is gone, or a write that fails, ends it.              *)
(***************************************************************************)
Return == pc' = ret /\ ret' = "fill" /\ cur' = NoEntry
GoTo(p) == pc' = p /\ UNCHANGED <<ret, cur>>

FinishGone ==
  /\ pc \in {"finish", "report", "mark", "settle"} /\ WorkerMayWrite /\ ~Queued(cur)
  /\ Return
  /\ UNCHANGED <<diskVars, slot, agenda, schedVars, opVars, worldVars, histVars>>

FinishFault ==
  /\ pc \in {"finish", "report", "mark", "settle"} /\ WorkerMayWrite /\ Queued(cur) /\ Fault
  /\ Return
  /\ UNCHANGED <<diskVars, slot, agenda, schedVars, opVars, now, histVars>>

\* Mutation of ExpireStates: a status the readers do not know.
ExpireStatesUnknown(i) ==
  [r \in Rcpts |-> IF r \in Expired(i) THEN [rcpt[r] EXCEPT !.status = "expired"] ELSE rcpt[r]]

\* Worker::expire.
ExpireStates(i) == [r \in Rcpts |-> IF r \in Expired(i) THEN [rcpt[r] EXCEPT !.status = "failed"]
                                    ELSE rcpt[r]]
FinishExpire ==
  /\ pc = "finish" /\ WorkerMayWrite /\ Queued(cur)
  /\ rcpt' = ExpireStates(cur)
  /\ env' = IF Expired(cur) = {} THEN env
            ELSE [env EXCEPT ![cur].next = SettledNext(ExpireStates(cur), cur)]
  /\ LET recs == OutcomesOf(Expired(cur), "expired") IN RecordOutcomes(recs, owed \cup recs)
  /\ GoTo("report")
  /\ UNCHANGED <<suppressed, slot, agenda, schedVars, opVars, now, histVars>>

\* Worker::report_failures.  The failed recipients not reported yet share
\* one report, unless one of them still waits after a refusal.
ReportDue(i) == Unreported(i) # {} /\ \A r \in Unreported(i) : rcpt[r].after <= now
NoReport ==
  /\ pc = "report" /\ Queued(cur) /\ ~ReportDue(cur)
  /\ GoTo("settle")
  /\ UNCHANGED <<diskVars, slot, agenda, schedVars, opVars, worldVars, histVars>>

\* The sink takes the report, drops it because the sender is gone, or there
\* is nobody to report about.
SendReport ==
  /\ pc = "report" /\ Queued(cur) /\ ReportDue(cur)
  /\ \/ /\ "queued" \in Sinks /\ Unreported(cur) \ NoDsn # {}
        /\ dsn' = [r \in Rcpts |-> IF r \in Unreported(cur) \ NoDsn THEN dsn[r] + 1 ELSE dsn[r]]
     \/ /\ "gone" \in Sinks \/ Unreported(cur) \ NoDsn = {}
        /\ UNCHANGED dsn
  /\ GoTo("mark")
  /\ UNCHANGED <<diskVars, slot, agenda, schedVars, opVars, worldVars, copies, excused>>

\* Mutation of RefusedReport: no cap.
RefusedReportForever(st) == [st EXCEPT !.after = Later(1)]

\* Worker::report_refused: a growing wait, and giving up at the cap.
RefusedReport(st) ==
  IF st.tries + 1 >= MaxReports
    THEN [st EXCEPT !.tries = @ + 1, !.reported = TRUE]
    ELSE [st EXCEPT !.tries = @ + 1, !.after = Later(ReportWait[st.tries + 1])]
ReportRefused ==
  /\ pc = "report" /\ WorkerMayWrite /\ Queued(cur) /\ ReportDue(cur)
  /\ "refused" \in Sinks /\ Unreported(cur) \ NoDsn # {}
  /\ rcpt' = [r \in Rcpts |-> IF r \in Unreported(cur) THEN RefusedReport(rcpt[r]) ELSE rcpt[r]]
  /\ GoTo("settle")
  /\ UNCHANGED <<env, owed, evLog, suppressed, slot, agenda, schedVars, opVars, worldVars,
                 histVars>>

\* Mutation of MarkReported: the mark is not written.
MarkReportedLost ==
  /\ pc = "mark" /\ WorkerMayWrite /\ Queued(cur)
  /\ GoTo("settle")
  /\ UNCHANGED <<diskVars, slot, agenda, schedVars, opVars, worldVars, histVars>>

MarkReported ==
  /\ pc = "mark" /\ WorkerMayWrite /\ Queued(cur)
  /\ rcpt' = [r \in Rcpts |-> IF r \in Unreported(cur) THEN [rcpt[r] EXCEPT !.reported = TRUE]
                              ELSE rcpt[r]]
  /\ GoTo("settle")
  /\ UNCHANGED <<env, owed, evLog, suppressed, slot, agenda, schedVars, opVars, worldVars,
                 histVars>>

\* Mutations of MayRemove: each check dropped in turn.
MayRemoveOwed(i) == Pending(i) = {} /\ Unreported(i) = {}
MayRemoveUnreported(i) == Pending(i) = {} /\ OwedBy(i) = {}

\* The end of Worker::finish.  An entry with nobody pending goes, unless a
\* failure is not reported yet or an outcome is owed.
MayRemove(i) == Pending(i) = {} /\ Unreported(i) = {} /\ OwedBy(i) = {}
Settle ==
  /\ pc = "settle" /\ WorkerMayWrite /\ Queued(cur)
  /\ IF MayRemove(cur)
       THEN env' = [env EXCEPT ![cur] = HoldForRemoval(@)] /\ GoTo("unlink")
       ELSE /\ env' = [env EXCEPT ![cur].warned =
                          @ \/ (Pending(cur) # {} /\ WindowUsed(cur) >= DelayAge)]
            /\ Return
  /\ UNCHANGED <<rcpt, owed, evLog, suppressed, slot, agenda, schedVars, opVars, worldVars,
                 histVars>>

\* The second half of FsSpool::remove_with, for the worker.
Unlink ==
  /\ pc = "unlink"
  /\ \/ env' = [env EXCEPT ![cur].at = "removed"] /\ UNCHANGED spent
     \/ Fault /\ UNCHANGED env
  /\ Return
  /\ UNCHANGED <<rcpt, owed, evLog, suppressed, slot, agenda, schedVars, opVars, now, histVars>>

(***************************************************************************)
(* The operator: epistle queue hold, release, retry, release-destination   *)
(* and remove, from another process, at any time.                          *)
(***************************************************************************)
Command(kind) ==
  /\ kind \in OpKinds /\ OperatorMayWrite /\ spent.ops < MaxOps
  /\ spent' = [spent EXCEPT !.ops = @ + 1]

OpHold(i) ==
  /\ Command("hold") /\ Queued(i) /\ env[i].held = NotHeld
  /\ env' = [env EXCEPT ![i].held = now]
  /\ UNCHANGED <<rcpt, owed, evLog, suppressed, pc, taskVars, schedVars, opVars, now, histVars>>

OpRelease(i) ==
  /\ Command("release") /\ Queued(i) /\ env[i].held # NotHeld
  /\ env' = [env EXCEPT ![i].held = NotHeld,
                        ![i].heldSecs = @ + SaturatingSub(now, env[i].held)]
  /\ UNCHANGED <<rcpt, owed, evLog, suppressed, pc, taskVars, schedVars, opVars, now, histVars>>

OpRetry(i) ==
  /\ Command("retry") /\ Queued(i)
  /\ env' = [env EXCEPT ![i].next = 0]
  /\ UNCHANGED <<rcpt, owed, evLog, suppressed, pc, taskVars, schedVars, opVars, now, histVars>>

\* Every recipient waiting after a slow-down of d is due now and its backoff
\* starts over.
ReleasedStates(d) ==
  [r \in Rcpts |-> IF r \in ThrottledFor(d) THEN [rcpt[r] EXCEPT !.throttled = 0, !.next = now]
                   ELSE rcpt[r]]
OpReleaseDestination(d) ==
  /\ Command("releasedest") /\ ThrottledFor(d) # {}
  /\ rcpt' = ReleasedStates(d)
  /\ env' = [i \in Ids |-> IF RcptsOf(i) \cap ThrottledFor(d) = {} THEN env[i]
                           ELSE [env[i] EXCEPT !.next = SettledNext(ReleasedStates(d), i)]]
  /\ UNCHANGED <<owed, evLog, suppressed, pc, taskVars, schedVars, opVars, now, histVars>>

\* Removal: the entry is put on hold under the lock, a cancellation is
\* recorded for each recipient still waiting, then the files go.
OpRemove(i) ==
  /\ Command("remove") /\ Queued(i) /\ OwedBy(i) = {}
  /\ env' = [env EXCEPT ![i] = HoldForRemoval(@)]
  /\ opId' = i
  /\ opWas' = [held |-> env[i].held, cancelling |-> env[i].cancelling, wrote |-> FALSE]
  /\ UNCHANGED <<rcpt, owed, evLog, suppressed, pc, taskVars, schedVars, now, histVars>>

\* evidence::cancel::record_partly: what is still to be written.  A record a
\* removal cut short left in the log is not written again.
ToCancel == OutcomesOf(Pending(opId), "canceled") \ evLog

OpCancel(o) ==
  /\ opId # NoEntry /\ o \in ToCancel
  /\ evLog' = evLog \cup {o}
  /\ opWas' = [opWas EXCEPT !.wrote = TRUE]
  /\ UNCHANGED <<env, rcpt, owed, suppressed, pc, taskVars, schedVars, opId, worldVars, histVars>>

\* The log refuses the record: unless one was written before, the entry goes
\* back as it was.
OpRefused ==
  /\ opId # NoEntry /\ ToCancel # {} /\ Fault
  /\ env' = IF opWas.wrote THEN env
            ELSE [env EXCEPT ![opId].held = opWas.held, ![opId].cancelling = opWas.cancelling]
  /\ opId' = NoEntry /\ opWas' = NotRemoving
  /\ UNCHANGED <<rcpt, owed, evLog, suppressed, pc, taskVars, schedVars, now, histVars>>

\* The log cannot say whether it took the record: the entry stays on hold.
OpUnconfirmed(o) ==
  /\ opId # NoEntry /\ o \in ToCancel /\ Fault
  /\ evLog' \in {evLog, evLog \cup {o}}
  /\ opId' = NoEntry /\ opWas' = NotRemoving
  /\ UNCHANGED <<env, rcpt, owed, suppressed, pc, taskVars, schedVars, now, histVars>>

OpUnlink ==
  /\ opId # NoEntry /\ ToCancel = {}
  /\ env' = [env EXCEPT ![opId].at = "canceled"]
  /\ opId' = NoEntry /\ opWas' = NotRemoving
  /\ UNCHANGED <<rcpt, owed, evLog, suppressed, pc, taskVars, schedVars, worldVars, histVars>>

OpDie ==
  /\ opId # NoEntry /\ spent.crashes < MaxCrashes
  /\ spent' = [spent EXCEPT !.crashes = @ + 1]
  /\ opId' = NoEntry /\ opWas' = NotRemoving
  /\ UNCHANGED <<diskVars, pc, taskVars, schedVars, now, histVars>>

(***************************************************************************)
(* Crash of the server, at any point between two writes, and restart.      *)
(***************************************************************************)
Unrecorded(s) == conv[s] # NoTalk /\ ~(pc = "after" /\ slot = s)
Crash ==
  /\ pc # "down" /\ spent.crashes < MaxCrashes
  /\ spent' = [spent EXCEPT !.crashes = @ + 1]
  /\ pc' = "down" /\ ret' = "fill" /\ cur' = NoEntry /\ slot' = 1
  /\ agenda' = NoAgenda /\ waiting' = {} /\ left' = [i \in Ids |-> 0]
  /\ conv' = [s \in Slots |-> NoTalk] /\ answer' = [s \in Slots |-> NoAnswer]
  /\ claims' = NoClaims /\ holds' = [d \in Dests |-> NoHold]
  /\ excused' = [r \in Rcpts |-> IF \E s \in Slots : Unrecorded(s) /\ r \in Said(s, {"ok"})
                                 THEN excused[r] + 1 ELSE excused[r]]
  /\ UNCHANGED <<diskVars, opVars, now, copies, dsn>>

Restart ==
  /\ pc = "down" /\ pc' = "select"
  /\ UNCHANGED <<diskVars, taskVars, schedVars, opVars, worldVars, histVars>>

Tick ==
  /\ pc \in {"select", "down"} /\ now < MaxTime
  /\ now' = now + 1
  /\ UNCHANGED <<diskVars, pc, taskVars, schedVars, opVars, spent, histVars>>

(***************************************************************************)
(* The specification.                                                      *)
(***************************************************************************)
ScanStep ==
  \/ \E i \in Ids : WriteWaiting(i) \/ ScanOverdue(i)
  \/ ScanLoad
  \/ \E q \in agenda.queue : QueueEntry(q) \/ QueueEntryError(q)
  \/ ScanEnd

FillStep ==
  \/ \E j \in waiting : DropHeldJob(j) \/ DropStaleJob(j) \/ \E s \in Slots : StartJob(j, s)
  \/ FillEnd

FinishStep ==
  \/ FinishGone \/ FinishFault \/ FinishExpire
  \/ NoReport \/ SendReport \/ ReportRefused \/ MarkReported
  \/ Settle \/ Unlink

\* What the worker does without waiting for anyone.
WorkerStep == ScanStep \/ FillStep \/ FinishStep \/ AfterConversation

Remote(s)   == Answer(s) \/ AnswerLost(s)
Complete(s) == Record(s) \/ RecordGone(s) \/ RecordFault(s)

Operator ==
  \/ \E i \in Ids : OpHold(i) \/ OpRelease(i) \/ OpRetry(i) \/ OpRemove(i)
  \/ \E d \in Dests : OpReleaseDestination(d)

\* A removal under way.
Removal ==
  \/ \E o \in ToCancel : OpCancel(o) \/ OpUnconfirmed(o)
  \/ OpRefused \/ OpUnlink \/ OpDie

Next ==
  \/ \E i \in Ids : Submit(i)
  \/ ScanBegin \/ WorkerStep
  \/ \E s \in Slots : Remote(s) \/ Complete(s)
  \/ Operator \/ Removal
  \/ Crash \/ Restart \/ Tick

Spec == Init /\ [][Next]_vars

\* The worker's synchronous code runs on; its select comes back to the tick
\* of the scan and to every conversation that ended; a remote answers or the
\* attempt times out; the clock advances; a server that is down is started
\* again and a removal ends.  Nothing is assumed of submissions, commands,
\* faults or crashes.
Fairness ==
  /\ WF_vars(WorkerStep) /\ SF_vars(ScanBegin)
  /\ \A s \in Slots : SF_vars(Answer(s)) /\ SF_vars(Complete(s))
  /\ SF_vars(Tick) /\ WF_vars(Restart) /\ WF_vars(Removal)

FairSpec == Spec /\ Fairness

(***************************************************************************)
(* Properties.                                                             *)
(***************************************************************************)
PCs == {"down", "select", "outcomes", "scan", "fill", "after", "finish", "report", "mark",
        "settle", "unlink"}
Settling == {"finish", "report", "mark", "settle", "unlink"}

\* The type of every variable (the envelope and claim structs of the code).
DiskType ==
  /\ env \in [Ids -> Envelope] /\ rcpt \in [Rcpts -> RecipientState]
  /\ owed \subseteq Rcpts \X Kinds /\ evLog \subseteq Rcpts \X Kinds
  /\ suppressed \subseteq Addrs
TaskType ==
  /\ pc \in PCs /\ ret \in {"outcomes", "scan", "fill"} /\ cur \in Ids \cup {NoEntry}
  /\ pc \in Settling => cur \in Ids
  /\ slot \in Slots
  /\ pc = "after" => conv[slot] \in Talk
  /\ agenda \in Agenda
SchedType ==
  /\ waiting \subseteq Job /\ left \in [Ids -> Nat]
  /\ conv \in [Slots -> Talk \cup {NoTalk}]
  /\ answer \in [Slots -> Answers]
  /\ claims \in ClaimState /\ holds \in [Dests -> Hold]
WorldType ==
  /\ opId \in Ids \cup {NoEntry}
  /\ opWas \in Removing /\ now \in Times /\ spent \in Spent
  /\ copies \in [Rcpts -> Nat] /\ excused \in [Rcpts -> Nat] /\ dsn \in [Rcpts -> Nat]
TypeOK == DiskType /\ TaskType /\ SchedType /\ WorldType

\* A remote accepts at most one copy of a message for a recipient, besides
\* those whose acceptance never reached the spool (a connection lost after
\* the data, a crash or a failed write before it was recorded): the claim,
\* the second look at the status and the recorded answer of Worker::start
\* and Worker::record leave no other way to send twice.
NoUnexcusedCopy == \A r \in Rcpts : copies[r] <= 1 + excused[r]

\* Once the spool says delivered or failed, no later step of the worker, of
\* the operator or after a crash says anything else: a recipient in
\* conversation is not expired under it (Claims::holds in Worker::finish).
StatusFinal ==
  [][\A r \in Rcpts : rcpt[r].status # "pending" => rcpt'[r].status = rcpt[r].status]_vars

\* No copy is accepted for a recipient that has a verdict, or whose failure
\* was already reported to the sender.
NoCopyAfterVerdict ==
  [][\A r \in Rcpts : copies'[r] > copies[r] => rcpt[r].status = "pending" /\ dsn[r] = 0]_vars

\* Mail whose evidence is mandatory: a verdict in the spool is in the
\* evidence log or noted in the envelope as owed to it, whatever write
\* failed and wherever the server crashed (evidence::intend).
EvidenceKept ==
  \A r \in Rcpts :
    (EntryOf[r] \in Mandatory /\ rcpt[r].status # "pending") =>
      \E k \in Kinds : <<r, k>> \in owed \cup evLog

\* An entry that left the queue, by the worker or by an operator, has an
\* outcome in the log for every recipient, and owes none.
NoneVanishes ==
  \A r \in Rcpts :
    (EntryOf[r] \in Mandatory /\ env[EntryOf[r]].at \in {"removed", "canceled"}) =>
      (\E k \in Kinds : <<r, k>> \in evLog) /\ ~\E k \in Kinds : <<r, k>> \in owed

\* The log never holds two verdicts on a recipient (a cancellation cut short
\* by a crash aside), and says delivered only if a remote took the message.
OneTrueVerdict ==
  \A r \in Rcpts : \A k, l \in Kinds \ {"canceled"} :
    /\ <<r, k>> \in owed \cup evLog /\ <<r, l>> \in owed \cup evLog => k = l
    /\ <<r, "delivered">> \in owed \cup evLog => copies[r] > 0

\* The counters the caps are checked against are those of the conversations
\* running: no claim and no slot leaks when a conversation ends, finds its
\* entry gone or fails to be recorded (Claim's Drop).
Talking == {s \in Slots : conv[s] # NoTalk}
ClaimsExact ==
  /\ claims.rcpts = UNION {conv[s].claimed : s \in Talking}
  /\ claims.running = Cardinality(Talking)
  /\ \A d \in Dests : claims.domains[d] = Cardinality({s \in Talking : conv[s].job.dest = d})
  /\ \A u \in Senders :
       claims.senders[u] = Cardinality({s \in Talking : SenderOf[conv[s].job.id] = u})

\* An entry is in hand exactly while it has jobs waiting or running, so it is
\* settled after its last one and never twice at once (Schedule.rounds).
RoundsExact ==
  \A i \in Ids : left[i] = Cardinality({j \in waiting : j.id = i})
                            + Cardinality({s \in Talking : conv[s].job.id = i})

\* No two conversations of this worker carry the same recipient, and every
\* recipient in conversation is pending in the spool until its answer is
\* recorded.
OneConversation ==
  \A s \in Talking :
    /\ \A t \in Talking : s # t => conv[s].claimed \cap conv[t].claimed = {}
    /\ conv[s].talk \subseteq conv[s].claimed /\ conv[s].claimed \subseteq claims.rcpts
    /\ ~(pc = "after" /\ slot = s) => \A r \in conv[s].talk : rcpt[r].status = "pending"

\* What the scan read of an entry still holds when it queues it, though it
\* settles overdue entries and fails recipients of others in between: the
\* recipients it read as due are pending, and an entry it is to queue is
\* neither in hand nor queued twice.
ScanFresh ==
  /\ agenda.queue # {} => pc = "scan" \/ (pc \in Settling /\ ret = "scan")
  /\ \A q \in agenda.queue :
       /\ q.due \subseteq Pending(q.id) /\ q.id \notin agenda.finish
       /\ pc \in Settling => cur # q.id
       /\ \A p \in agenda.queue : p.id = q.id => p = q

\* The holds in memory never allow what the spool would defer: while jobs
\* wait for a slot, a destination the spool shows on hold is on hold here
\* at least as long.
HoldsCover ==
  waiting # {} => \A d \in Dests : SpoolHold(d).until > now =>
                                    holds[d].until >= SpoolHold(d).until

\* A failure report goes out once, again only after a crash or a failed
\* write between the sink and the mark in the envelope.
ReportOnce == \A r \in Rcpts : dsn[r] <= 1 + spent.crashes + spent.faults

\* "A failure report the sink refused keeps the entry until it is sent or
\* given up on": no entry leaves the queue by the worker's hand with a failed
\* recipient not marked reported (Worker::finish).
FailureTold ==
  \A r \in Rcpts : (env[EntryOf[r]].at = "removed" /\ rcpt[r].status = "failed")
                      => rcpt[r].reported

\* "Make the next attempt happen now, skipping the backoff": while the retry
\* an operator asked for stands (the entry-wide time is before that of every
\* pending recipient) and a pending recipient has no job, no step makes that
\* recipient wait again, unless the recipient gets a job or a verdict or the
\* entry leaves the queue.
HasJob(r) == r \in claims.rcpts \/ \E j \in waiting : r \in j.rcpts
RetryHonoured ==
  [][\A r \in Rcpts :
       LET i == EntryOf[r]
       IN  (/\ Queued(i) /\ \A q \in Pending(i) : env[i].next < rcpt[q].next
            /\ r \in Pending(i) /\ ~HasJob(r))
             => \/ env'[i].next <= now \/ env'[i].at # "queued"
                \/ rcpt'[r].status # "pending" \/ HasJob(r)']_vars

\* "A held entry is not attempted and its time on hold does not count toward
\* the give-up window": no step expires a recipient of an entry whose age
\* less all its time on hold, the current hold included, is under MaxAge.
TimeOnHold(i) == env[i].heldSecs + (IF env[i].held = NotHeld THEN 0
                                    ELSE SaturatingSub(now, env[i].held))
HoldStopsClock ==
  [][\A r \in Rcpts :
       (pc = "finish" /\ rcpt[r].status = "pending" /\ rcpt'[r].status = "failed")
         => SaturatingSub(SaturatingSub(now, env[EntryOf[r]].created), TimeOnHold(EntryOf[r]))
              >= MaxAge]_vars

\* Every message is settled: once queued it leaves the queue or is on hold.
EventuallySettled ==
  \A i \in Ids : Queued(i) ~> (~Queued(i) \/ env[i].held # NotHeld)

\* An outcome owed to the evidence log is written in the end, even when the
\* log refused it at first or the server crashed before writing it.
OwedIsWritten ==
  \A r \in Rcpts : (\E k \in Kinds : <<r, k>> \in owed) ~> (\E k \in Kinds : <<r, k>> \in evLog)

(***************************************************************************)
(* What QueueContract calls the state of the queue.                        *)
(***************************************************************************)
Placed(i) == CASE env[i].at = "absent" -> "absent" [] env[i].at = "queued" -> "queued"
               [] OTHER -> "gone"

Contract == INSTANCE QueueContract WITH
              place   <- [i \in Ids |-> Placed(i)],
              verdict <- [r \in Rcpts |-> rcpt[r].status],
              taken   <- {r \in Rcpts : copies[r] > 0},
              book    <- evLog

\* The queue keeps its contract: every step of the worker, the operator and
\* the remotes, every failed write and every crash, seen through the spool
\* and the evidence log alone, is one step of QueueContract or none.  So a
\* verdict and what it owes the log are one write (Worker::record), nothing
\* is struck off before it is written, and no entry leaves with a debt.
KeepsContract == Contract!Spec

============================================================================
