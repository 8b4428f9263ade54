--------------------------- MODULE EvidenceChain ---------------------------
(***************************************************************************)
(* The append-only evidence chain of epistle: one file of records per day, *)
(* each record naming the hash of the one before, a head kept outside the  *)
(* directory, and the checkpoints that seal the days that have ended.      *)
(*                                                                         *)
(* The server's tasks (and the commands of the CLI) append to the same     *)
(* files; a lock is held from the reading of the last record to the        *)
(* writing of the head.  A write may fail and be cut off, fail and not be  *)
(* cut off, or not be confirmed; a process may die at any point.           *)
(*                                                                         *)
(* Time is counted in days.  A clock reading may be behind the time a      *)
(* record was given before, by up to Behind days.                          *)
(***************************************************************************)
EXTENDS Integers, FiniteSetsExt, SequencesExt

CONSTANTS
  Writers,    \* whoever appends: one element per call under way at once
  Entries,    \* what records say
  NoOne,      \* stands for "nobody holds the lock"
  LastDay,    \* bound: the wall clock stops here
  Behind,     \* how far back a believed clock may read (BEHIND_SECS)
  MaxFaults   \* bound: failed writes

ASSUME ChainAssumption ==
  /\ NoOne \notin Writers
  /\ LastDay \in Nat /\ Behind \in {0, 1} /\ MaxFaults \in Nat

Days == 0..LastDay

VARIABLES
  made,     \* the days that have a file
  file,     \* [Days -> Seq(Record)]: the complete lines of each day's file
  torn,     \* [Days -> BOOLEAN]: whether half a line follows them
  seals,    \* [Days -> Checkpoint]: NoSeal, or what the day's checkpoint says
  head,     \* the hash in evidence.head, 0 when there is none
  lock,     \* who holds chain/.lock
  call,     \* [Writers -> Call]: the append each writer has under way
  wall,     \* the wall clock
  hashes,   \* history: hashes drawn so far
  kept,     \* history: the hashes append returned
  faults    \* failed writes so far

chainVars == <<made, file, torn, seals, head, lock, call, wall, hashes, kept, faults>>

\* `hash` stands for the hash of the record's line, `prev` for the hash of
\* the line before it.
Record   == [hash : Nat \ {0}, prev : Nat, seq : Nat \ {0}, time : Days, entry : Entries]
Position == [hash : Nat, seq : Nat, time : Nat]
Start    == [hash |-> 0, seq |-> 0, time |-> 0]

Checkpoint == [records : Nat, last : Position]
NoSeal     == [records |-> 0, last |-> Start]

Results == {"none", "ok", "refused", "unconfirmed"}
Call    == [at : {"idle", "write", "head"}, now : Days, last : Position, result : Results]
Idle    == [at |-> "idle", now |-> 0, last |-> Start, result |-> "none"]

ChainInit ==
  /\ made = {} /\ file = [d \in Days |-> <<>>] /\ torn = [d \in Days |-> FALSE]
  /\ seals = [d \in Days |-> NoSeal] /\ head = 0
  /\ lock = NoOne /\ call = [w \in Writers |-> Idle]
  /\ wall = 0 /\ hashes = 0 /\ kept = {} /\ faults = 0

Records == UNION {Range(file[d]) : d \in Days}
Top(a, b) == IF a > b THEN a ELSE b

LastPosition(d) == [hash |-> Last(file[d]).hash, seq |-> Last(file[d]).seq,
                    time |-> Last(file[d]).time]

MutantOnlyUntilToday(day) ==
  LET full == {d \in made : d <= day /\ file[d] # <<>>}
  IN [at |-> IF full = {} THEN Start ELSE LastPosition(Max(full)), cut |-> made]

\* last_position_before_append: the newest file from `day` on is looked at
\* first, then those up to `day` from the newest to the oldest, until one has
\* a record; every file that is looked at loses its interrupted last line.
LastBeforeAppend(day) ==
  LET later   == {d \in made : d >= day}
      newest  == IF later = {} THEN {} ELSE {Max(later)}
      upTo    == {d \in made : d <= day}
      full    == {d \in upTo : file[d] # <<>>}
      reached == IF full = {} THEN upTo ELSE {d \in upTo : d >= Max(full)}
  IN IF newest # {} /\ file[Max(newest)] # <<>>
       THEN [at |-> LastPosition(Max(newest)), cut |-> newest]
     ELSE [at |-> IF full = {} THEN Start ELSE LastPosition(Max(full)), cut |-> newest \cup reached]

\* What the caller gets back, and the lock with it.
Return(w, result) ==
  /\ call' = [call EXCEPT ![w] = [Idle EXCEPT !.result = result]]
  /\ lock' = NoOne

MutantSealIgnored(w, now) ==
  /\ call[w] = Idle /\ lock = NoOne
  /\ LET last == LastBeforeAppend(now)
     IN /\ torn' = [d \in Days |-> torn[d] /\ d \notin last.cut]
        /\ call' = [call EXCEPT ![w] = [at |-> "write", now |-> Top(now, last.at.time),
                                        last |-> last.at, result |-> "none"]]
  /\ lock' = w
  /\ UNCHANGED <<made, file, seals, head, wall, hashes, kept, faults>>

\* append_with, up to the write: the lock, the clock, the last record, and
\* the refusal of a record that would fall in a sealed day.
AppendBegin(w, now) ==
  /\ call[w] = Idle /\ lock = NoOne
  /\ LET last == LastBeforeAppend(now)
         time == Top(now, last.at.time)
     IN /\ torn' = [d \in Days |-> torn[d] /\ d \notin last.cut]
        /\ IF seals[time] # NoSeal THEN Return(w, "refused")
           ELSE /\ lock' = w
                /\ call' = [call EXCEPT ![w] = [at |-> "write", now |-> time, last |-> last.at,
                                                result |-> "none"]]
  /\ UNCHANGED <<made, file, seals, head, wall, hashes, kept, faults>>

Fail == faults < MaxFaults /\ faults' = faults + 1

MutantSeqRepeats(w, e) ==
  [hash |-> hashes + 1, prev |-> call[w].last.hash, seq |-> call[w].last.seq,
   time |-> call[w].now, entry |-> e]

NewRecord(w, e) ==
  [hash |-> hashes + 1, prev |-> call[w].last.hash, seq |-> call[w].last.seq + 1,
   time |-> call[w].now, entry |-> e]

\* A line that was written in full.
Written(w, e) ==
  /\ file' = [file EXCEPT ![call[w].now] = Append(@, NewRecord(w, e))]
  /\ hashes' = hashes + 1
  /\ UNCHANGED torn

MutantCutsTheFile(w, e) ==
  /\ call[w].at = "write"
  /\ made' = made \cup {call[w].now}
  /\ \/ /\ Written(w, e) /\ call' = [call EXCEPT ![w].at = "head"]
        /\ UNCHANGED <<lock, faults>>
     \/ /\ Fail /\ Return(w, "refused")
        /\ file' = [file EXCEPT ![call[w].now] = <<>>] /\ UNCHANGED <<torn, hashes>>
  /\ UNCHANGED <<seals, head, wall, kept>>

MutantHeadFirst(w, e) ==
  /\ call[w].at = "write"
  /\ made' = made \cup {call[w].now} /\ head' = hashes + 1
  /\ \/ /\ Written(w, e) /\ call' = [call EXCEPT ![w].at = "head"]
        /\ UNCHANGED <<lock, faults>>
     \/ Fail /\ Return(w, "refused") /\ UNCHANGED <<file, torn, hashes>>
  /\ UNCHANGED <<seals, wall, kept>>

\* The day's file is opened and write_line writes and syncs the line; or it
\* is written and not synced; or the write fails and what it left is cut off,
\* or is not.
WriteLine(w, e) ==
  /\ call[w].at = "write"
  /\ made' = made \cup {call[w].now}
  /\ \/ /\ Written(w, e) /\ call' = [call EXCEPT ![w].at = "head"]
        /\ UNCHANGED <<lock, faults>>
     \/ Written(w, e) /\ Fail /\ Return(w, "unconfirmed")
     \/ Fail /\ Return(w, "refused") /\ UNCHANGED <<file, torn, hashes>>
     \/ /\ Fail /\ Return(w, "unconfirmed")
        /\ torn' = [torn EXCEPT ![call[w].now] = TRUE] /\ UNCHANGED <<file, hashes>>
  /\ UNCHANGED <<seals, head, wall, kept>>

\* The sync of a new file's directory, and the head; a failure of either
\* leaves the record written and not confirmed.
WriteHead(w) ==
  /\ call[w].at = "head"
  /\ LET written == Last(file[call[w].now])
     IN \/ /\ head' = written.hash /\ kept' = kept \cup {written.hash}
           /\ Return(w, "ok") /\ UNCHANGED faults
        \/ Fail /\ UNCHANGED <<head, kept>> /\ Return(w, "unconfirmed")
  /\ UNCHANGED <<made, file, torn, seals, wall, hashes>>

\* The process of the writers `dead` dies: the lock goes with it, and the line
\* it was writing may be missing, its file empty, or half of it be there.
Die(dead) ==
  /\ lock' = IF lock \in dead THEN NoOne ELSE lock
  /\ call' = [w \in Writers |-> IF w \in dead THEN Idle ELSE call[w]]
  /\ \/ UNCHANGED <<made, torn>>
     \/ /\ lock \in dead /\ call[lock].at = "write"
        /\ made' = made \cup {call[lock].now}
        /\ \/ UNCHANGED torn
           \/ torn' = [torn EXCEPT ![call[lock].now] = TRUE]
  /\ UNCHANGED <<file, seals, head, wall, hashes, kept, faults>>

\* seal_closed_days: the oldest day before `now` that has a file and no
\* checkpoint is sealed, under the chain lock, if walk_day finds records that
\* follow the last sealed one; the pass stops at a day that cannot be sealed.
Unsealed(now) == {d \in made : d < now /\ seals[d] = NoSeal}

SealedBefore(d) ==
  LET sealed == {c \in Days : c < d /\ seals[c] # NoSeal}
  IN IF sealed = {} THEN Start ELSE seals[Max(sealed)].last

Seal(now) ==
  /\ lock = NoOne /\ Unsealed(now) # {}
  /\ LET d == Min(Unsealed(now))
     IN /\ file[d] # <<>> /\ ~torn[d]
        /\ file[d][1].prev = SealedBefore(d).hash
        /\ seals' = [seals EXCEPT ![d] = [records |-> Len(file[d]), last |-> LastPosition(d)]]
  /\ UNCHANGED <<made, file, torn, head, lock, call, wall, hashes, kept, faults>>

Tick ==
  /\ wall < LastDay /\ wall' = wall + 1
  /\ UNCHANGED <<made, file, torn, seals, head, lock, call, hashes, kept, faults>>

\* The readings of a clock that is believed.
Readings == {t \in Days : t <= wall /\ t + Behind >= wall}
-----------------------------------------------------------------------------
(***************************************************************************)
(* Properties.                                                             *)
(***************************************************************************)
ChainTypeOK ==
  /\ made \in SUBSET Days /\ file \in [Days -> Seq(Record)] /\ torn \in [Days -> BOOLEAN]
  /\ seals \in [Days -> Checkpoint] /\ head \in Nat
  /\ lock \in Writers \cup {NoOne} /\ call \in [Writers -> Call]
  /\ wall \in Days /\ hashes \in Nat /\ kept \subseteq Nat /\ faults \in 0..MaxFaults

\* Where the chain stood before the n-th record of day d: at the record before
\* it in the file, or at the last one of the newest earlier day that has any.
PositionBefore(d, n) ==
  LET earlier == {c \in Days : c < d /\ file[c] # <<>>}
  IN CASE n > 1 -> [hash |-> file[d][n - 1].hash, seq |-> file[d][n - 1].seq,
                    time |-> file[d][n - 1].time]
       [] n = 1 /\ earlier # {} -> LastPosition(Max(earlier))
       [] OTHER -> Start

\* What verification walks over: every record names the hash of the one
\* before it, its number is one more, its time is no earlier and in the day of
\* its file, across crashes, failed writes and clocks that read the day before
\* (evidence/verify: "the sequence number one more than the record before, the
\* time no earlier than it and inside `day`").
ChainLinear ==
  \A d \in Days : \A n \in DOMAIN file[d] :
    LET r      == file[d][n]
        before == PositionBefore(d, n)
    IN /\ r.prev = before.hash /\ r.seq = before.seq + 1
       /\ r.time >= before.time /\ r.time = d

\* A day whose checkpoint was signed never changes: "no record can be stamped
\* before midnight and land after its day was sealed" (evidence/chain), also
\* when the clock goes back into that day.
SealedFrozen ==
  \A d \in Days : seals[d] # NoSeal =>
    /\ seals[d] = [records |-> Len(file[d]), last |-> LastPosition(d)]
    /\ ~torn[d]

\* What append confirmed is never cut off again, by the repair of a torn line
\* or of a failed write: "The record is on disk and synced when this returns
\* Ok" (evidence/chain).
ConfirmedKept == kept \subseteq {r.hash : r \in Records}

\* "The head may lag the chain, never lead it" (evidence/head): whatever fails
\* or stops in between, it names a record that is in the chain, and every
\* record after that one is one whose append was not confirmed.
HeadNamesRecord ==
  head # 0 => \E r \in Records : /\ r.hash = head
                             /\ \A k \in Records : k.hash \in kept => k.seq <= r.seq

=============================================================================
