-------------------------- MODULE AcceptanceProofs --------------------------
(***************************************************************************)
(* The safety of the evidence chain and of the acceptance of a message,    *)
(* for every number of messages, days, faults and crashes: the inductive   *)
(* invariant, and the properties of EvidenceChain and Acceptance that      *)
(* follow from it.                                                         *)
(***************************************************************************)
EXTENDS Acceptance, WellFoundedInduction, FiniteSetTheorems, SequenceTheorems, TLAPS

-----------------------------------------------------------------------------
(***************************************************************************)
(* The inductive invariant, the chain's part.                              *)
(***************************************************************************)
\* The days that have records, and the position after the last of them.
Full == {d \in Days : file[d] # <<>>}
End  == IF Full = {} THEN Start ELSE LastPosition(Max(Full))

\* A day's file is made before its records are, and no day is ahead of time.
FilesMade == Full \subseteq made /\ \A d \in made : d <= wall

\* Whoever is between the reading and the head of an append holds the lock.
Locked ==
  \A w \in Writers : call[w].at # "idle" =>
    lock = w /\ call[w].result = "none" /\ call[w].now <= wall

\* What it has read is still the end of the chain, and its day is not sealed.
AtEnd ==
  \A w \in Writers :
    /\ call[w].at # "idle" => \A d \in Full : d <= call[w].now
    /\ call[w].at = "write" => call[w].last = End /\ seals[call[w].now] = NoSeal
    /\ call[w].at = "head"  => call[w].now \in Full

\* Hashes and numbers only go up.
Numbered == \A r \in Records : r.hash <= hashes /\ r.seq <= End.seq

ChainInv ==
  /\ ChainTypeOK /\ FilesMade /\ Locked /\ AtEnd /\ Numbered
  /\ ChainLinear /\ SealedFrozen /\ ConfirmedKept /\ HeadNamesRecord
-----------------------------------------------------------------------------
(***************************************************************************)
(* The spool's part.                                                       *)
(***************************************************************************)
Confirmed(e) == \E r \in Records : r.hash \in kept /\ r.entry = e

\* An append under way is its caller's, and what it has written is the entry
\* the caller still wants written.
AppendsOwn ==
  \A w \in Writers :
    /\ call[w] # Idle => Wants(w)
    /\ call[w].at = "head" => Last(file[call[w].now]).entry = EntryOf(w)
    /\ call[w].result = "ok" => Confirmed(EntryOf(w))

\* Where the files of a submission are, by where the submission is.
Placed(i) ==
  /\ sub[i] = "idle" => i \notin Staged
  /\ i \in newJson <=> told[i] = "accepted"
  /\ told[i] # "nothing" => sub[i] = "done"
  /\ i \in newJson => i \in newEml /\ i \notin Staged
  /\ sub[i] = "renameJson" => i \in newEml /\ i \notin tmpEml
  /\ sub[i] \in {"hook", "renameEml", "renameJson"} => i \in tmpJson
  /\ sub[i] = "hook" => class[i] # "none"

\* Mandatory mail gets past the hook with a confirmed record only.
PassedRecorded(i) ==
  class[i] = "mandatory" /\ (sub[i] \in {"renameEml", "renameJson"} \/ i \in newJson)
    => Confirmed(Accepted(i))

\* Where a submission is once its acceptance, or its end, is in the chain.
AcceptedWhere(i) ==
  InChain(Accepted(i)) =>
    /\ class[i] # "none" /\ sub[i] \notin {"idle", "stageJson"}
    /\ sub[i] = "hook" => call[i].at = "head" \/ call[i].result \in {"ok", "unconfirmed"}
    /\ sub[i] \in {"unstageJson", "unstageEml"} => i \in doubt

AbandonedWhere(i) ==
  InChain(Abandoned(i)) => sub[i] \in {"abandon", "done", "lost"} /\ i \notin newJson

\* AcceptanceTraced without its last way out: wherever a submission is, its
\* envelope is queued or staged while no end of it is recorded.
Traced(i) ==
  InChain(Accepted(i)) /\ i \notin doubt =>
    i \in newJson \cup tmpJson \/ InChain(Abandoned(i))

Sound(i) ==
  Placed(i) /\ PassedRecorded(i) /\ AcceptedWhere(i) /\ AbandonedWhere(i) /\ Traced(i)

\* A start goes through distinct leftovers with nobody else at work, and only
\* discards one whose end is recorded or needs no record.
StartAlone ==
  /\ server # "up" => \A i \in Ids : ~InFlight(i)
  /\ server = "start" <=> todo # <<>>
  /\ \A n \in DOMAIN todo : todo[n] \in Staged \/ (n = 1 /\ step = "eml")
  /\ \A n, m \in DOMAIN todo : n # m => todo[n] # todo[m]
  /\ server = "start" /\ step # "abandon" =>
       class[Head(todo)] = "none" \/ InChain(Abandoned(Head(todo)))

SpoolInv == AppendsOwn /\ StartAlone /\ \A i \in Ids : Sound(i)

Inv == TypeOK /\ ChainInv /\ SpoolInv
-----------------------------------------------------------------------------
(***************************************************************************)
(* Greatest elements, records and the end of the chain.                    *)
(***************************************************************************)
\* A nonempty set of days has an oldest one.
LEMMA MinIn ==
  ASSUME NEW S, S \subseteq Nat, S # {}
  PROVE  Min(S) \in S /\ \A y \in S : Min(S) <= y
<1> DEFINE R == {ss \in Nat \X Nat : ss[1] < ss[2]}
<1>1. PICK m \in S : \A u \in S : ~(<<u, m>> \in R)
  <2>1. IsWellFoundedOn(R, Nat)
    BY NatLessThanWellFounded DEF OpToRel
  <2> HIDE DEF R
  <2> QED BY <2>1, WFMin
<1>2. \A u \in S : m <= u
  <2>1. ASSUME NEW u \in S PROVE m <= u
    <3>1. ~(<<u, m>> \in R)
      BY <1>1
    <3> QED BY <3>1
  <2> QED BY <2>1
<1> QED BY <1>2 DEF Min

\* A nonempty set of days has a newest one.
LEMMA MaxIn ==
  ASSUME NEW n \in Nat, NEW S, S \subseteq 0..n, S # {}
  PROVE  Max(S) \in S /\ \A y \in S : y <= Max(S)
<1> DEFINE U == {x \in 0..n : \A y \in S : x >= y}
           m == Min(U)
<1>1. U \subseteq Nat /\ n \in U
  OBVIOUS
<1>2. m \in U /\ \A u \in U : m <= u
  BY <1>1, MinIn
<1> HIDE DEF m
<1>3. m \in S
  <2>1. SUFFICES ASSUME m \notin S PROVE FALSE
    OBVIOUS
  <2>2. \A y \in S : m > y
    BY <1>2, <2>1
  <2>3. PICK y \in S : TRUE
    OBVIOUS
  <2>4. m - 1 \in 0..n
    BY <1>2, <2>2, <2>3
  <2>5. m - 1 \in U
    BY <1>2, <2>2, <2>4
  <2> QED BY <2>5, <1>2
<1> QED BY <1>2, <1>3 DEF Max

\* An element no other exceeds is the newest.
LEMMA MaxIs ==
  ASSUME NEW S, S \subseteq Nat, NEW m \in S, \A y \in S : y <= m
  PROVE  Max(S) = m
<1>1. m \in S /\ \A y \in S : m >= y
  OBVIOUS
<1>2. ASSUME NEW x \in S, \A y \in S : x >= y PROVE x = m
  <2>1. x >= m /\ x <= m
    BY <1>2
  <2> QED BY <2>1
<1> QED BY <1>1, <1>2 DEF Max

\* The records are the lines of the files.
LEMMA RecordsAre ==
  ASSUME ChainTypeOK, NEW r
  PROVE  r \in Records <=> \E d \in Days : \E n \in 1..Len(file[d]) : r = file[d][n]
<1>1. \A d \in Days : file[d] \in Seq(Record) /\ DOMAIN file[d] = 1..Len(file[d])
  BY DEF ChainTypeOK
<1>2. r \in Records <=> \E d \in Days : r \in Range(file[d])
  BY DEF Records
<1>3. ASSUME NEW d \in Days
      PROVE  r \in Range(file[d]) <=> \E n \in 1..Len(file[d]) : r = file[d][n]
  BY <1>1 DEF Range
<1> QED BY <1>2, <1>3

\* The lines of the files are records.
LEMMA RecordTypes ==
  ASSUME ChainTypeOK, NEW r \in Records
  PROVE  r \in Record
<1>1. PICK d \in Days : \E n \in 1..Len(file[d]) : r = file[d][n]
  BY RecordsAre
<1>2. file[d] \in Seq(Record)
  BY DEF ChainTypeOK
<1> QED BY <1>1, <1>2

\* The last line of a file that has one is a record of the chain.
LEMMA LastIs ==
  ASSUME ChainTypeOK, NEW d \in Full
  PROVE  /\ Len(file[d]) \in Nat \ {0} /\ Last(file[d]) = file[d][Len(file[d])]
         /\ Last(file[d]) \in Record /\ Last(file[d]) \in Records
         /\ LastPosition(d) \in Position
<1>1. /\ d \in Days /\ file[d] \in Seq(Record) /\ file[d] # <<>>
  BY DEF ChainTypeOK, Full
<1>2. Len(file[d]) \in Nat \ {0} /\ Last(file[d]) = file[d][Len(file[d])]
  BY <1>1 DEF Last
<1>3. Last(file[d]) \in Record
  BY <1>1, <1>2
<1>4. Last(file[d]) \in Records
  BY <1>1, <1>2, RecordsAre
<1>5. LastPosition(d) \in Position
  BY <1>3, ChainAssumption DEF LastPosition, Position, Record, Days
<1> QED BY <1>2, <1>3, <1>4, <1>5

\* The chain ends with the last record of the newest day that has any.
LEMMA EndIs ==
  ASSUME NEW m \in Full, \A d \in Full : d <= m
  PROVE  End = LastPosition(m)
<1>1. Full \subseteq Nat /\ Full # {}
  BY ChainAssumption DEF Full, Days
<1>2. Max(Full) = m
  <2> HIDE DEF Full
  <2> QED BY <1>1, MaxIs
<1> QED BY <1>1, <1>2 DEF End

\* The newest day that has records, when one has.
LEMMA NewestIn ==
  ASSUME Full # {}
  PROVE  Max(Full) \in Full /\ (\A d \in Full : d <= Max(Full)) /\ End = LastPosition(Max(Full))
<1>1. Full \subseteq 0..LastDay /\ LastDay \in Nat
  BY ChainAssumption DEF Full, Days
<1>2. Max(Full) \in Full /\ \A d \in Full : d <= Max(Full)
  <2> HIDE DEF Full
  <2> QED BY <1>1, MaxIn
<1> QED BY <1>2 DEF End

\* The end is a position, and its time is the newest day that has records.
LEMMA EndType ==
  ASSUME ChainTypeOK, ChainLinear
  PROVE  /\ End \in Position
         /\ Full # {} => End.time = Max(Full) /\ End.seq > 0
<1>1. CASE Full = {}
  BY <1>1 DEF End, Start, Position
<1>2. CASE Full # {}
  <2> DEFINE m == Max(Full)
  <2>1. m \in Full /\ End = LastPosition(m)
    BY <1>2, NewestIn
  <2> HIDE DEF m
  <2>2. m \in Days /\ Len(file[m]) \in DOMAIN file[m] /\ Last(file[m]) = file[m][Len(file[m])]
        /\ LastPosition(m) \in Position /\ Last(file[m]) \in Record
    BY <2>1, LastIs DEF Full, ChainTypeOK
  <2>3. Last(file[m]).time = m
    BY <2>2 DEF ChainLinear
  <2>4. LastPosition(m).time = m /\ LastPosition(m).seq > 0
    BY <2>2, <2>3 DEF LastPosition, Record
  <2> QED BY <2>1, <2>2, <2>4 DEF m
<1> QED BY <1>1, <1>2

\* last_position_before_append finds the end of the chain, although it only
\* looks at one of the files after the day it was given: no clock that is
\* believed is more than one day behind.
LEMMA ReadsEnd ==
  ASSUME ChainTypeOK, FilesMade, NEW now \in Readings
  PROVE  LastBeforeAppend(now).at = End
<1> DEFINE later  == {d \in made : d >= now}
           newest == IF later = {} THEN {} ELSE {Max(later)}
           full   == {d \in {c \in made : c <= now} : file[d] # <<>>}
<1>1. /\ made \subseteq 0..LastDay /\ LastDay \in Nat /\ now \in Nat /\ wall \in Nat
      /\ now <= wall /\ wall <= now + 1 /\ Full \subseteq made
      /\ \A d \in made : d \in Nat /\ d <= wall
  BY ChainAssumption DEF ChainTypeOK, FilesMade, Readings, Days
<1>2. ASSUME newest # {} PROVE Max(newest) = Max(later) /\ Max(later) \in later
                               /\ \A d \in later : d <= Max(later)
  <2>1. later # {} /\ later \subseteq 0..LastDay
    BY <1>1, <1>2
  <2>2. Max(later) \in later /\ \A d \in later : d <= Max(later)
    <3> HIDE DEF later
    <3> QED BY <1>1, <2>1, MaxIn
  <2>3. newest = {Max(later)} /\ {Max(later)} \subseteq Nat
    BY <1>1, <2>1, <2>2
  <2>4. \A x \in Nat : Max({x}) = x
    BY MaxIs
  <2> QED BY <2>2, <2>3, <2>4
<1>3. CASE newest # {} /\ file[Max(newest)] # <<>>
  <2> DEFINE m == Max(later)
  <2>1. m \in Full /\ Max(newest) = m
    BY <1>1, <1>2, <1>3 DEF Full, Days
  <2>2. ASSUME NEW d \in Full PROVE d <= m
    <3>1. d \in made /\ m \in later
      BY <1>1, <1>2, <1>3
    <3>2. m >= now /\ m \in Nat /\ d \in Nat
      BY <1>1, <3>1
    <3>3. d >= now => d \in later
      BY <3>1
    <3>4. d >= now => d <= m
      BY <1>2, <1>3, <3>3
    <3> HIDE DEF m
    <3> QED BY <3>2, <3>4, <1>1
  <2>3. End = LastPosition(m)
    <3> HIDE DEF m
    <3> QED BY <2>1, <2>2, EndIs
  <2>4. LastBeforeAppend(now).at = LastPosition(Max(newest))
    BY <1>3 DEF LastBeforeAppend
  <2> QED BY <2>1, <2>3, <2>4
<1>4. CASE ~(newest # {} /\ file[Max(newest)] # <<>>)
  <2>1. full \subseteq Full
    BY DEF Full, ChainTypeOK
  <2>2. ASSUME NEW d \in Full, d > now PROVE FALSE
    <3>1. d \in made /\ d = wall /\ d \in Nat
      BY <1>1, <2>2
    <3>2. d \in later /\ newest # {}
      BY <1>1, <2>2, <3>1
    <3>3. Max(later) = d
      <4>1. Max(later) \in later /\ d <= Max(later)
        BY <1>2, <3>2
      <4>2. Max(later) \in Nat /\ Max(later) <= wall
        BY <1>1, <4>1
      <4> QED BY <3>1, <4>1, <4>2
    <3>4. file[d] = <<>>
      BY <1>2, <1>4, <3>2, <3>3
    <3> QED BY <3>4 DEF Full
  <2>3. full = Full
    BY <1>1, <2>1, <2>2 DEF Full
  <2>4. LastBeforeAppend(now).at = IF full = {} THEN Start ELSE LastPosition(Max(full))
    BY <1>4 DEF LastBeforeAppend
  <2> HIDE DEF full
  <2> QED BY <2>3, <2>4 DEF End
<1> QED BY <1>3, <1>4
-----------------------------------------------------------------------------
(***************************************************************************)
(* The steps of the chain.                                                 *)
(***************************************************************************)
\* A step that writes no record and no head leaves what the records say.
LEMMA SameRecords ==
  ASSUME file' = file
  PROVE  /\ Full' = Full /\ End' = End /\ Records' = Records
         /\ ChainLinear => ChainLinear'
         /\ \A d \in Days : LastPosition(d)' = LastPosition(d)
<1>1. Records' = Records /\ \A d \in Days : LastPosition(d)' = LastPosition(d)
  BY DEF Records, LastPosition
<1>2. Full' = Full /\ End' = End
  BY DEF Full, End, LastPosition
<1>3. ASSUME NEW d \in Days, NEW n \in DOMAIN file[d]
      PROVE  PositionBefore(d, n)' = PositionBefore(d, n)
  BY DEF PositionBefore, LastPosition
<1>4. ChainLinear => ChainLinear'
  BY <1>3 DEF ChainLinear
<1> QED BY <1>1, <1>2, <1>4

\* Nor does it change how the head and what was confirmed stand to them.
LEMMA QuietStep ==
  ASSUME ChainInv, UNCHANGED <<file, head, kept, hashes>>
  PROVE  Numbered' /\ ChainLinear' /\ ConfirmedKept' /\ HeadNamesRecord'
<1>1. Records' = Records /\ End' = End /\ ChainLinear'
  BY SameRecords DEF ChainInv
<1>2. Numbered'
  BY <1>1 DEF ChainInv, Numbered
<1>3. ConfirmedKept'
  BY <1>1 DEF ChainInv, ConfirmedKept
<1>4. HeadNamesRecord'
  BY <1>1 DEF ChainInv, HeadNamesRecord
<1> QED BY <1>1, <1>2, <1>3, <1>4

\* The lock excludes: two appends are never between reading and head.
LEMMA OneAtWork ==
  ASSUME ChainInv, NEW w \in Writers, call[w].at # "idle"
  PROVE  /\ lock = w /\ lock # NoOne
         /\ \A v \in Writers : v # w => call[v].at = "idle"
BY ChainAssumption DEF ChainInv, Locked

\* Nobody is at work while nobody has the lock.
LEMMA NobodyAtWork ==
  ASSUME ChainInv, lock = NoOne
  PROVE  \A w \in Writers : call[w].at = "idle"
BY ChainAssumption DEF ChainInv, Locked

\* What a caller gets back is a call that is over.
LEMMA IdleCalls ==
  ASSUME ChainTypeOK, NEW w \in Writers, NEW r \in Results,
         call' = [call EXCEPT ![w] = [Idle EXCEPT !.result = r]]
  PROVE  /\ call' \in [Writers -> Call]
         /\ call'[w].at = "idle" /\ call'[w].result = r
         /\ \A v \in Writers : v # w => call'[v] = call[v]
<1>1. [Idle EXCEPT !.result = r] \in Call
  BY ChainAssumption DEF Idle, Call, Start, Position, Days
<1>2. [Idle EXCEPT !.result = r].at = "idle" /\ [Idle EXCEPT !.result = r].result = r
  BY DEF Idle
<1> QED BY <1>1, <1>2 DEF ChainTypeOK

\* append_with up to the write: the caller holds the lock and the end of the
\* chain, or was refused because the day it would write in is sealed.
LEMMA AppendBeginStep ==
  ASSUME ChainInv, NEW w \in Writers, NEW now \in Readings, AppendBegin(w, now)
  PROVE  /\ ChainInv'
         /\ \/ call'[w].at = "write" /\ call'[w].result = "none"
            \/ call'[w].at = "idle" /\ call'[w].result = "refused"
         /\ \A v \in Writers : v # w => call'[v] = call[v]
<1> DEFINE time == Top(now, End.time)
           begun == [at |-> "write", now |-> time, last |-> End, result |-> "none"]
<1>1. LastBeforeAppend(now).at = End
  BY ReadsEnd DEF ChainInv
<1>2. /\ call[w] = Idle /\ lock = NoOne
      /\ torn' = [d \in Days |-> torn[d] /\ d \notin LastBeforeAppend(now).cut]
      /\ UNCHANGED <<made, file, seals, head, wall, hashes, kept, faults>>
      /\ \/ Return(w, "refused")
         \/ seals[time] = NoSeal /\ lock' = w /\ call' = [call EXCEPT ![w] = begun]
  BY <1>1 DEF AppendBegin
<1>3. End \in Position /\ time \in Days /\ time <= wall /\ \A d \in Full : d <= time
  <2>1. now \in Days /\ now <= wall /\ now \in Nat /\ wall \in Nat
    BY ChainAssumption DEF Readings, Days, ChainInv, ChainTypeOK
  <2>2. End \in Position
    BY EndType DEF ChainInv
  <2>3. CASE Full = {}
    BY <2>1, <2>2, <2>3, ChainAssumption DEF End, Start, Top
  <2>4. CASE Full # {}
    <3> DEFINE m == Max(Full)
    <3>1. m \in Full /\ \A d \in Full : d <= m
      BY <2>4, NewestIn
    <3>2. End.time = m
      BY <2>4, EndType DEF ChainInv
    <3>3. m \in Days /\ m <= wall /\ m \in Nat /\ \A d \in Full : d \in Nat
      BY <3>1, ChainAssumption DEF ChainInv, FilesMade, Full, Days
    <3> HIDE DEF m
    <3> QED BY <2>1, <2>2, <3>1, <3>2, <3>3 DEF Top
  <2> QED BY <2>3, <2>4
<1> HIDE DEF time
<1>4. \A v \in Writers : call[v].at = "idle"
  BY <1>2, NobodyAtWork
<1>5. ChainTypeOK /\ Full' = Full /\ End' = End
  BY <1>2, SameRecords DEF ChainInv
<1>6. torn' \in [Days -> BOOLEAN] /\ \A d \in Days : torn'[d] => torn[d]
  BY <1>2, <1>5 DEF ChainTypeOK
<1>7. SealedFrozen'
  BY <1>2, <1>6, SameRecords DEF ChainInv, SealedFrozen
<1>8. Numbered' /\ ChainLinear' /\ ConfirmedKept' /\ HeadNamesRecord'
  BY <1>2, QuietStep
<1>9. FilesMade'
  BY <1>2, <1>5 DEF ChainInv, FilesMade
<1>10. CASE Return(w, "refused")
  <2>1. call' = [call EXCEPT ![w] = [Idle EXCEPT !.result = "refused"]] /\ lock' = NoOne
    BY <1>10 DEF Return
  <2>2. /\ call' \in [Writers -> Call] /\ call'[w].at = "idle" /\ call'[w].result = "refused"
        /\ \A v \in Writers : v # w => call'[v] = call[v]
    BY <1>5, <2>1, IdleCalls DEF Results
  <2>3. \A v \in Writers : call'[v].at = "idle"
    BY <1>4, <2>2
  <2>4. ChainTypeOK'
    BY <1>2, <1>5, <1>6, <2>1, <2>2 DEF ChainTypeOK
  <2>5. Locked' /\ AtEnd'
    BY <2>3 DEF Locked, AtEnd
  <2> QED BY <1>7, <1>8, <1>9, <2>2, <2>4, <2>5 DEF ChainInv
<1>11. CASE seals[time] = NoSeal /\ lock' = w /\ call' = [call EXCEPT ![w] = begun]
  <2>1. begun \in Call
    BY <1>3 DEF Call, Results
  <2>2. /\ call' \in [Writers -> Call] /\ call'[w] = begun
        /\ \A v \in Writers : v # w => call'[v] = call[v]
    BY <1>5, <1>11, <2>1 DEF ChainTypeOK
  <2>3. ChainTypeOK'
    BY <1>2, <1>5, <1>6, <1>11, <2>2 DEF ChainTypeOK
  <2>4. Locked'
    BY <1>2, <1>3, <1>4, <1>11, <2>2 DEF Locked
  <2>5. AtEnd'
    BY <1>2, <1>3, <1>4, <1>5, <1>11, <2>2 DEF AtEnd
  <2> QED BY <1>7, <1>8, <1>9, <2>2, <2>3, <2>4, <2>5 DEF ChainInv
<1> QED BY <1>2, <1>10, <1>11

\* The record that is written follows the last one of the chain: nothing was
\* appended, and its day was not sealed, since the end was read.
LEMMA WrittenStep ==
  ASSUME ChainInv, NEW w \in Writers, NEW e \in Entries, call[w].at = "write", Written(w, e),
         UNCHANGED <<seals, head, kept>>
  PROVE  /\ file' \in [Days -> Seq(Record)] /\ hashes' \in Nat
         /\ Records' = Records \cup {NewRecord(w, e)}
         /\ Full' = Full \cup {call[w].now} /\ Last(file'[call[w].now]) = NewRecord(w, e)
         /\ Numbered' /\ ChainLinear' /\ SealedFrozen' /\ ConfirmedKept' /\ HeadNamesRecord'
<1>a. call[w].now \in Days
  BY DEF ChainInv, ChainTypeOK, Call
<1>b. PICK c \in Days : c = call[w].now
  BY <1>a
<1>c. PICK len \in Nat : len = Len(file[c])
  BY DEF ChainInv, ChainTypeOK
<1>d. PICK rec : rec = NewRecord(w, e)
  OBVIOUS
<1>1. /\ c \in Days /\ call[w].last = End /\ seals[c] = NoSeal /\ \A d \in Full : d <= c
      /\ End \in Position /\ hashes \in Nat /\ ChainTypeOK
  BY <1>b, EndType DEF ChainInv, AtEnd, ChainTypeOK
<1>2. file' = [file EXCEPT ![c] = Append(@, rec)] /\ hashes' = hashes + 1 /\ torn' = torn
  BY <1>b, <1>d DEF Written
<1>3. /\ rec.hash = hashes + 1 /\ rec.prev = End.hash /\ rec.seq = End.seq + 1
      /\ rec.time = c /\ rec.entry = e /\ rec \in Record
  BY <1>1, <1>b, <1>d DEF NewRecord, Record, Position
<1>4. /\ file[c] \in Seq(Record) /\ len \in Nat
      /\ file' \in [Days -> Seq(Record)] /\ hashes' \in Nat
      /\ \A d \in Days : d # c => file'[d] = file[d]
      /\ Len(file'[c]) = len + 1 /\ file'[c] # <<>>
      /\ file'[c][len + 1] = rec /\ Last(file'[c]) = rec
      /\ \A n \in 1..len : file'[c][n] = file[c][n]
  <2>1. file[c] \in Seq(Record) /\ file'[c] = Append(file[c], rec)
        /\ \A d \in Days : d # c => file'[d] = file[d]
    BY <1>1, <1>2 DEF ChainTypeOK
  <2>2. Append(file[c], rec) \in Seq(Record)
    BY <1>3, <2>1
  <2>3. file' \in [Days -> Seq(Record)]
    BY <1>1, <1>2, <2>2 DEF ChainTypeOK
  <2> QED BY <1>1, <1>2, <1>3, <1>c, <2>1, <2>2, <2>3 DEF Last
<1>5. Full' = Full \cup {c}
  BY <1>1, <1>4 DEF Full
<1>6. Records' = Records \cup {rec}
  <2>1. \A d \in Days : DOMAIN file[d] = 1..Len(file[d]) /\ DOMAIN file'[d] = 1..Len(file'[d])
    BY <1>1, <1>4 DEF ChainTypeOK
  <2>2. \A d \in Days : d # c => Range(file'[d]) = Range(file[d])
    BY <1>4
  <2>3. Range(file'[c]) = Range(file[c]) \cup {rec}
    <3>1. DOMAIN file[c] = 1..len /\ DOMAIN file'[c] = 1..(len + 1)
      BY <1>1, <1>4, <1>c, <2>1
    <3>2. \A n \in 1..(len + 1) : n \in 1..len \/ n = len + 1
      BY <1>4
    <3>3. ASSUME NEW x \in Range(file'[c]) PROVE x \in Range(file[c]) \cup {rec}
      BY <1>4, <3>1, <3>2, <3>3 DEF Range
    <3>4. ASSUME NEW x \in Range(file[c]) PROVE x \in Range(file'[c])
      <4>1. PICK n \in 1..len : x = file[c][n]
        BY <3>1, <3>4 DEF Range
      <4>2. n \in 1..(len + 1) /\ x = file'[c][n]
        BY <1>4, <4>1
      <4> QED BY <3>1, <4>2 DEF Range
    <3>5. rec \in Range(file'[c])
      <4>1. len + 1 \in 1..(len + 1)
        BY <1>4
      <4> QED BY <1>4, <3>1, <4>1 DEF Range
    <3> QED BY <3>3, <3>4, <3>5
  <2> QED BY <1>1, <2>2, <2>3 DEF Records
<1>7. End'.seq = End.seq + 1
  <2>1. Full' \subseteq Nat /\ c \in Full' /\ \A d \in Full' : d <= c
    BY <1>1, <1>5, ChainAssumption DEF Full, Days
  <2>2. Max(Full') = c
    <3> HIDE DEF Full
    <3> QED BY <2>1, MaxIs
  <2>3. End' = LastPosition(c)'
    BY <2>1, <2>2 DEF End
  <2>4. LastPosition(c)'.seq = Last(file'[c]).seq
    BY DEF LastPosition
  <2> QED BY <1>3, <1>4, <2>3, <2>4
<1>8. Numbered'
  <2>1. ASSUME NEW r \in Records PROVE r.hash <= hashes' /\ r.seq <= End'.seq
    <3>1. r.hash <= hashes /\ r.seq <= End.seq
      BY DEF ChainInv, Numbered
    <3>2. r \in Record
      BY <1>1, RecordTypes
    <3> QED BY <1>1, <1>2, <1>7, <3>1, <3>2 DEF Record, Position
  <2>2. rec.hash <= hashes' /\ rec.seq <= End'.seq
    BY <1>1, <1>2, <1>3, <1>7 DEF Position
  <2> QED BY <1>6, <2>1, <2>2 DEF Numbered
<1>9. ChainLinear'
  <2>1. ASSUME NEW d \in Days, NEW n \in DOMAIN file'[d], ~(d = c /\ n = len + 1)
        PROVE  /\ n \in DOMAIN file[d] /\ file'[d][n] = file[d][n]
               /\ PositionBefore(d, n)' = PositionBefore(d, n)
    <3>1. /\ n \in DOMAIN file[d] /\ file'[d][n] = file[d][n] /\ n \in Nat \ {0}
          /\ n > 1 => file'[d][n - 1] = file[d][n - 1]
      <4>1. DOMAIN file[d] = 1..Len(file[d]) /\ DOMAIN file'[d] = 1..Len(file'[d])
            /\ Len(file[d]) \in Nat
        BY <1>1, <1>4 DEF ChainTypeOK
      <4>2. CASE d # c
        BY <1>4, <4>1, <4>2
      <4>3. CASE d = c
        <5>1. n \in 1..len
          BY <1>4, <2>1, <4>1, <4>3
        <5>2. n \in Nat \ {0} /\ n \in 1..Len(file[d])
          BY <1>c, <4>3, <5>1
        <5>4. n \in DOMAIN file[d] /\ file'[d][n] = file[d][n]
          BY <1>4, <4>1, <4>3, <5>1, <5>2
        <5>3. n > 1 => n - 1 \in 1..len
          BY <1>c, <5>1, <5>2
        <5> QED BY <1>4, <4>3, <5>2, <5>3, <5>4
      <4> QED BY <4>2, <4>3
    <3>2. d \in Full /\ d <= c
      BY <1>1, <3>1 DEF Full, ChainTypeOK
    <3>3. {x \in Days : x < d /\ file[x] # <<>>}' = {x \in Days : x < d /\ file[x] # <<>>}
      BY <1>1, <1>4, <3>2, ChainAssumption DEF Days
    <3> DEFINE E == {x \in Days : x < d /\ file[x] # <<>>}
    <3>4. E # {} => LastPosition(Max(E))' = LastPosition(Max(E))
      <4>1. E \subseteq 0..LastDay /\ LastDay \in Nat /\ c \notin E
        BY <1>1, <3>2, ChainAssumption DEF Days
      <4>2. E # {} => Max(E) \in E
        <5> HIDE DEF E
        <5> QED BY <4>1, MaxIn
      <4>3. E # {} => file'[Max(E)] = file[Max(E)]
        BY <1>4, <4>1, <4>2
      <4> QED BY <3>3, <4>3 DEF LastPosition
    <3>5. CASE n > 1
      BY <3>1, <3>5 DEF PositionBefore
    <3>6. CASE n = 1
      <4>1. PositionBefore(d, 1) = IF E = {} THEN Start ELSE LastPosition(Max(E))
        BY DEF PositionBefore
      <4>2. PositionBefore(d, 1)' = IF E' = {} THEN Start ELSE LastPosition(Max(E))'
        BY DEF PositionBefore
      <4> HIDE DEF E
      <4>3. E' = E
        BY <3>3 DEF E
      <4>4. PositionBefore(d, n)' = PositionBefore(d, 1)'
        BY <3>6
      <4>5. PositionBefore(d, 1)' = PositionBefore(d, 1)
        BY <3>4, <4>1, <4>2, <4>3
      <4> QED BY <3>1, <3>6, <4>4, <4>5
    <3> QED BY <3>1, <3>5, <3>6
  <2>2. PositionBefore(c, len + 1)' = End
    <3>1. CASE len > 0
      <4>1. c \in Full /\ End = LastPosition(c)
        BY <1>1, <1>4, <1>c, <3>1, EndIs DEF Full
      <4>2. /\ PositionBefore(c, len + 1)' = [hash |-> file'[c][len].hash,
                                    seq |-> file'[c][len].seq, time |-> file'[c][len].time]
        BY <1>4, <3>1 DEF PositionBefore
      <4>3. file'[c][len] = Last(file[c])
        BY <1>4, <1>c, <3>1 DEF Last
      <4> QED BY <4>1, <4>2, <4>3 DEF LastPosition
    <3>2. CASE len = 0
      <4> DEFINE E == {x \in Days : x < c /\ file[x] # <<>>}
      <4>1. file[c] = <<>> /\ c \notin Full
        BY <1>4, <1>c, <3>2, EmptySeq DEF Full
      <4>2. E = Full
        BY <1>1, <4>1, ChainAssumption DEF Full, Days
      <4>3. E' = E
        BY <1>1, <1>4, ChainAssumption DEF Days
      <4>4. E # {} => LastPosition(Max(E))' = LastPosition(Max(E))
        <5>1. E # {} => Max(E) \in E /\ Max(E) \in Days /\ Max(E) # c
          BY <4>1, <4>2, NewestIn DEF Full
        <5>2. E # {} => file'[Max(E)] = file[Max(E)]
          BY <1>4, <5>1
        <5> QED BY <4>3, <5>2 DEF LastPosition
      <4>5. PositionBefore(c, 1)' = IF E = {} THEN Start ELSE LastPosition(Max(E))
        BY <4>3, <4>4 DEF PositionBefore
      <4>6. End = IF E = {} THEN Start ELSE LastPosition(Max(E))
        <5> HIDE DEF E
        <5> QED BY <4>2 DEF End
      <4> HIDE DEF E
      <4> QED BY <3>2, <4>5, <4>6
    <3> QED BY <1>4, <3>1, <3>2
  <2>3. End.time <= c
    <3>1. CASE Full = {}
      BY <1>1, <3>1, ChainAssumption DEF End, Start, Days
    <3>2. CASE Full # {}
      <4>1. End.time \in Full
        BY <3>2, NewestIn, EndType DEF ChainInv
      <4> QED BY <1>1, <4>1
    <3> QED BY <3>1, <3>2
  <2>4. ASSUME NEW d \in Days, NEW n \in DOMAIN file'[d]
        PROVE  /\ file'[d][n].prev = PositionBefore(d, n)'.hash
               /\ file'[d][n].seq = PositionBefore(d, n)'.seq + 1
               /\ file'[d][n].time >= PositionBefore(d, n)'.time /\ file'[d][n].time = d
    <3>1. CASE d = c /\ n = len + 1
      <4>1. file'[d][n] = rec /\ PositionBefore(d, n)' = End
        BY <1>4, <2>2, <3>1
      <4> QED BY <1>1, <1>3, <2>3, <3>1, <4>1, ChainAssumption DEF Position, Days
    <3>2. CASE ~(d = c /\ n = len + 1)
      BY <2>1, <2>4, <3>2 DEF ChainInv, ChainLinear
    <3> QED BY <3>1, <3>2
  <2> QED BY <2>4 DEF ChainLinear
<1>10. SealedFrozen'
  <2>1. ASSUME NEW d \in Days, seals'[d] # NoSeal
        PROVE  d # c /\ file'[d] = file[d] /\ torn'[d] = torn[d]
    BY <1>1, <1>2, <1>4, <2>1
  <2> QED BY <2>1 DEF ChainInv, SealedFrozen, LastPosition
<1>11. ConfirmedKept'
  BY <1>6 DEF ChainInv, ConfirmedKept
<1>12. HeadNamesRecord'
  <2>1. rec.hash \notin kept
    <3>1. SUFFICES ASSUME NEW r \in Records, r.hash = rec.hash PROVE FALSE
      BY DEF ChainInv, ConfirmedKept
    <3>2. r.hash <= hashes
      BY DEF ChainInv, Numbered
    <3> QED BY <1>1, <1>3, <3>1, <3>2
  <2> QED BY <1>6, <2>1 DEF ChainInv, HeadNamesRecord
<1> QED BY <1>4, <1>5, <1>6, <1>8, <1>9, <1>10, <1>11, <1>12, <1>b, <1>d

\* A call that is over leaves everyone idle when its writer had the lock.
LEMMA ReturnStep ==
  ASSUME ChainInv, NEW w \in Writers, call[w].at # "idle", NEW r \in Results, Return(w, r)
  PROVE  /\ call' \in [Writers -> Call] /\ lock' = NoOne
         /\ call'[w].at = "idle" /\ call'[w].result = r
         /\ \A v \in Writers : v # w => call'[v] = call[v]
         /\ Locked' /\ AtEnd'
<1>1. call' = [call EXCEPT ![w] = [Idle EXCEPT !.result = r]] /\ lock' = NoOne
  BY DEF Return
<1>2. /\ call' \in [Writers -> Call] /\ call'[w].at = "idle" /\ call'[w].result = r
      /\ \A v \in Writers : v # w => call'[v] = call[v]
  BY <1>1, IdleCalls DEF ChainInv
<1>3. \A v \in Writers : call'[v].at = "idle"
  BY <1>2, OneAtWork
<1> QED BY <1>1, <1>2, <1>3 DEF Locked, AtEnd

\* What write_line leaves: nothing new, or the caller's record at the end.
LEMMA WriteLineStep ==
  ASSUME ChainInv, NEW w \in Writers, NEW e \in Entries, WriteLine(w, e)
  PROVE  /\ ChainInv'
         /\ \A v \in Writers : v # w => call'[v] = call[v]
         /\ \/ /\ Records' = Records \cup {NewRecord(w, e)} /\ NewRecord(w, e).entry = e
               /\ call'[w].at = "head" /\ call'[w].result = "none"
               /\ Last(file'[call'[w].now]) = NewRecord(w, e)
            \/ /\ Records' = Records \cup {NewRecord(w, e)} /\ NewRecord(w, e).entry = e
               /\ call'[w].at = "idle" /\ call'[w].result = "unconfirmed"
            \/ /\ Records' = Records
               /\ call'[w].at = "idle" /\ call'[w].result \in {"refused", "unconfirmed"}
<1>1. PICK c \in Days : c = call[w].now
  BY DEF ChainInv, ChainTypeOK, Call
<1>2. /\ call[w].at = "write" /\ made' = made \cup {c}
      /\ UNCHANGED <<seals, head, wall, kept>>
      /\ ChainTypeOK /\ seals[c] = NoSeal /\ c <= wall
      /\ \A d \in Full : d <= c
  BY <1>1 DEF WriteLine, ChainInv, AtEnd, Locked
<1>3. NewRecord(w, e).entry = e
  BY DEF NewRecord
<1>4. CASE Written(w, e)
  <2>1. /\ file' \in [Days -> Seq(Record)] /\ hashes' \in Nat
        /\ Records' = Records \cup {NewRecord(w, e)}
        /\ Full' = Full \cup {c} /\ Last(file'[c]) = NewRecord(w, e)
        /\ Numbered' /\ ChainLinear' /\ SealedFrozen' /\ ConfirmedKept' /\ HeadNamesRecord'
    BY <1>1, <1>2, <1>4, WrittenStep
  <2>2. FilesMade'
    BY <1>2, <2>1 DEF ChainInv, FilesMade
  <2>3. torn' = torn
    BY <1>4 DEF Written
  <2>4. CASE call' = [call EXCEPT ![w].at = "head"] /\ UNCHANGED <<lock, faults>>
    <3>1. /\ call' \in [Writers -> Call] /\ call'[w].at = "head" /\ call'[w].now = c
          /\ call'[w].result = call[w].result
          /\ \A v \in Writers : v # w => call'[v] = call[v]
      BY <1>1, <1>2, <2>4 DEF ChainTypeOK, Call
    <3>2. ChainTypeOK'
      BY <1>2, <2>1, <2>3, <2>4, <3>1 DEF ChainTypeOK
    <3>3. \A v \in Writers : v # w => call'[v].at = "idle"
      BY <1>2, <3>1, OneAtWork
    <3>4. Locked' /\ call'[w].result = "none"
      BY <1>2, <2>4, <3>1, <3>3 DEF ChainInv, Locked
    <3>5. AtEnd'
      BY <1>2, <2>1, <3>1, <3>3, ChainAssumption DEF AtEnd, Days
    <3> QED BY <1>3, <2>1, <2>2, <3>1, <3>2, <3>4, <3>5 DEF ChainInv
  <2>5. CASE Fail /\ Return(w, "unconfirmed")
    <3>1. /\ call' \in [Writers -> Call] /\ lock' = NoOne
          /\ call'[w].at = "idle" /\ call'[w].result = "unconfirmed"
          /\ \A v \in Writers : v # w => call'[v] = call[v]
          /\ Locked' /\ AtEnd'
      BY <1>2, <2>5, ReturnStep DEF Results
    <3>2. ChainTypeOK'
      BY <1>2, <2>1, <2>3, <2>5, <3>1, ChainAssumption DEF ChainTypeOK, Fail
    <3> QED BY <1>3, <2>1, <2>2, <3>1, <3>2 DEF ChainInv
  <2>6. CASE UNCHANGED <<file, torn, hashes>>
    BY <1>2, <1>4, <2>6 DEF Written, ChainTypeOK
  <2>7. CASE UNCHANGED <<file, hashes>>
    BY <1>2, <1>4, <2>7 DEF Written, ChainTypeOK
  <2> QED BY <2>4, <2>5, <2>6, <2>7 DEF WriteLine
<1>5. CASE UNCHANGED <<file, hashes>> /\ ~Written(w, e)
  <2>1. PICK r \in {"refused", "unconfirmed"} :
          /\ Fail /\ Return(w, r)
          /\ torn' = torn \/ torn' = [torn EXCEPT ![c] = TRUE]
    BY <1>1, <1>5 DEF WriteLine
  <2>2. /\ call' \in [Writers -> Call] /\ lock' = NoOne
        /\ call'[w].at = "idle" /\ call'[w].result = r
        /\ \A v \in Writers : v # w => call'[v] = call[v]
        /\ Locked' /\ AtEnd'
    BY <1>2, <2>1, ReturnStep DEF Results
  <2>3. ChainTypeOK'
    <3>1. torn \in [Days -> BOOLEAN]
      BY <1>2 DEF ChainTypeOK
    <3>2. torn' \in [Days -> BOOLEAN]
      BY <2>1, <3>1
    <3>3. faults' \in 0..MaxFaults /\ made' \in SUBSET Days
      BY <1>2, <2>1, ChainAssumption DEF ChainTypeOK, Fail
    <3> QED BY <1>2, <1>5, <2>2, <3>2, <3>3 DEF ChainTypeOK
  <2>4. FilesMade' /\ Records' = Records
    BY <1>2, <1>5, SameRecords DEF ChainInv, FilesMade
  <2>5. Numbered' /\ ChainLinear' /\ ConfirmedKept' /\ HeadNamesRecord'
    BY <1>2, <1>5, QuietStep
  <2>6. SealedFrozen'
    <3>1. \A d \in Days : seals'[d] # NoSeal => torn'[d] = torn[d]
      BY <1>2, <2>1 DEF ChainTypeOK
    <3> QED BY <1>2, <1>5, <3>1, SameRecords DEF ChainInv, SealedFrozen
  <2> QED BY <2>2, <2>3, <2>4, <2>5, <2>6 DEF ChainInv
<1> QED BY <1>4, <1>5 DEF WriteLine

\* A confirmed append makes the head the end of the chain.
LEMMA WriteHeadStep ==
  ASSUME ChainInv, NEW w \in Writers, WriteHead(w)
  PROVE  /\ ChainInv' /\ file' = file /\ kept \subseteq kept'
         /\ \A v \in Writers : v # w => call'[v] = call[v]
         /\ call[w].at = "head" /\ call'[w].at = "idle"
         /\ \/ /\ call'[w].result = "ok"
               /\ Last(file[call[w].now]) \in Records /\ Last(file[call[w].now]).hash \in kept'
            \/ call'[w].result = "unconfirmed"
<1>1. PICK c \in Days : c = call[w].now
  BY DEF ChainInv, ChainTypeOK, Call
<1> DEFINE last == Last(file[c])
<1>2. /\ call[w].at = "head" /\ UNCHANGED <<made, file, torn, seals, wall, hashes>>
      /\ ChainTypeOK /\ c \in Full /\ \A d \in Full : d <= c
      /\ \/ /\ head' = last.hash /\ kept' = kept \cup {last.hash}
            /\ Return(w, "ok") /\ UNCHANGED faults
         \/ Fail /\ UNCHANGED <<head, kept>> /\ Return(w, "unconfirmed")
  BY <1>1 DEF WriteHead, ChainInv, AtEnd
<1>3. last \in Records /\ last \in Record /\ End = LastPosition(c) /\ End.seq = last.seq
  BY <1>2, LastIs, EndIs DEF LastPosition
<1>4. Records' = Records /\ End' = End /\ Full' = Full /\ ChainLinear'
  BY <1>2, SameRecords DEF ChainInv
<1>5. FilesMade' /\ Numbered'
  BY <1>2, <1>4 DEF ChainInv, FilesMade, Numbered
<1>6. SealedFrozen'
  BY <1>2, SameRecords DEF ChainInv, SealedFrozen
<1> HIDE DEF last
<1>7. CASE /\ head' = last.hash /\ kept' = kept \cup {last.hash}
           /\ Return(w, "ok") /\ UNCHANGED faults
  <2>1. /\ call' \in [Writers -> Call] /\ lock' = NoOne
        /\ call'[w].at = "idle" /\ call'[w].result = "ok"
        /\ \A v \in Writers : v # w => call'[v] = call[v]
        /\ Locked' /\ AtEnd'
    BY <1>2, <1>7, ReturnStep DEF Results
  <2>2. ChainTypeOK'
    BY <1>2, <1>3, <1>7, <2>1 DEF ChainTypeOK, Record
  <2>3. ConfirmedKept'
    BY <1>3, <1>4, <1>7 DEF ChainInv, ConfirmedKept
  <2>4. HeadNamesRecord'
    BY <1>3, <1>4, <1>7 DEF ChainInv, Numbered, HeadNamesRecord
  <2> QED BY <1>1, <1>2, <1>3, <1>4, <1>5, <1>6, <1>7, <2>1, <2>2, <2>3, <2>4 DEF ChainInv, last
<1>8. CASE Fail /\ UNCHANGED <<head, kept>> /\ Return(w, "unconfirmed")
  <2>1. /\ call' \in [Writers -> Call] /\ lock' = NoOne
        /\ call'[w].at = "idle" /\ call'[w].result = "unconfirmed"
        /\ \A v \in Writers : v # w => call'[v] = call[v]
        /\ Locked' /\ AtEnd'
    BY <1>2, <1>8, ReturnStep DEF Results
  <2>2. ChainTypeOK'
    BY <1>2, <1>8, <2>1, ChainAssumption DEF ChainTypeOK, Fail
  <2>3. ConfirmedKept' /\ HeadNamesRecord'
    BY <1>2, <1>8, QuietStep
  <2> QED BY <1>2, <1>4, <1>5, <1>6, <1>8, <2>1, <2>2, <2>3 DEF ChainInv
<1> QED BY <1>2, <1>7, <1>8

\* The death of the process leaves a whole chain, and nobody at work; half a
\* line is only left in the day of the append, which is not sealed.
LEMMA DieStep ==
  ASSUME ChainInv, Die(Writers)
  PROVE  /\ ChainInv' /\ file' = file /\ kept' = kept
         /\ \A w \in Writers : call'[w] = Idle
<1>1. /\ call' = [w \in Writers |-> Idle] /\ lock' = NoOne
      /\ UNCHANGED <<file, seals, head, wall, hashes, kept, faults>> /\ ChainTypeOK
  BY DEF Die, ChainInv, ChainTypeOK
<1>2. (\A w \in Writers : call'[w] = Idle) /\ Idle.at = "idle" /\ Idle \in Call
  BY <1>1, ChainAssumption DEF Idle, Call, Start, Position, Results, Days
<1>3. Locked' /\ AtEnd'
  BY <1>2 DEF Locked, AtEnd
<1>4. Full' = Full
  BY <1>1, SameRecords
<1>5. Numbered' /\ ChainLinear' /\ ConfirmedKept' /\ HeadNamesRecord'
  BY <1>1, QuietStep
<1>6. CASE UNCHANGED <<made, torn>>
  <2>1. ChainTypeOK'
    BY <1>1, <1>2, <1>6 DEF ChainTypeOK
  <2>2. FilesMade' /\ SealedFrozen'
    BY <1>1, <1>4, <1>6, SameRecords DEF ChainInv, FilesMade, SealedFrozen
  <2> QED BY <1>1, <1>2, <1>3, <1>5, <2>1, <2>2 DEF ChainInv
<1>7. CASE /\ lock \in Writers /\ call[lock].at = "write" /\ made' = made \cup {call[lock].now}
           /\ \/ torn' = torn
              \/ torn' = [torn EXCEPT ![call[lock].now] = TRUE]
  <2>1. PICK c \in Days : c = call[lock].now
    BY <1>1, <1>7 DEF ChainTypeOK, Call
  <2>2. c <= wall /\ seals[c] = NoSeal
    BY <1>7, <2>1 DEF ChainInv, Locked, AtEnd
  <2>3. torn \in [Days -> BOOLEAN] /\ (torn' = torn \/ torn' = [torn EXCEPT ![c] = TRUE])
    BY <1>1, <1>7, <2>1 DEF ChainTypeOK
  <2>4. torn' \in [Days -> BOOLEAN]
    BY <2>3
  <2>5. ChainTypeOK'
    BY <1>1, <1>2, <1>7, <2>1, <2>4 DEF ChainTypeOK
  <2>6. FilesMade'
    BY <1>1, <1>4, <1>7, <2>1, <2>2 DEF ChainInv, FilesMade
  <2>7. SealedFrozen'
    <3>1. \A d \in Days : seals'[d] # NoSeal => torn'[d] = torn[d]
      BY <1>1, <2>2, <2>3
    <3> QED BY <1>1, <3>1, SameRecords DEF ChainInv, SealedFrozen
  <2> QED BY <1>1, <1>2, <1>3, <1>5, <2>5, <2>6, <2>7 DEF ChainInv
<1> QED BY <1>6, <1>7 DEF Die

\* A checkpoint says what the day's file holds, and no append is under way.
LEMMA SealStep ==
  ASSUME ChainInv, NEW now \in Readings, Seal(now)
  PROVE  ChainInv' /\ UNCHANGED <<file, kept, call>>
<1>1. /\ lock = NoOne /\ ChainTypeOK /\ Unsealed(now) \subseteq Days /\ Unsealed(now) # {}
      /\ UNCHANGED <<made, file, torn, head, lock, call, wall, hashes, kept, faults>>
  BY DEF Seal, ChainInv, ChainTypeOK, Unsealed
<1>2. Min(Unsealed(now)) \in Days
  <2>1. Unsealed(now) \subseteq Nat
    BY <1>1, ChainAssumption DEF Days
  <2>2. Min(Unsealed(now)) \in Unsealed(now)
    BY <1>1, <2>1, MinIn
  <2> QED BY <1>1, <2>2
<1>3. PICK d \in Days :
        /\ file[d] # <<>> /\ ~torn[d]
        /\ seals' = [seals EXCEPT ![d] = [records |-> Len(file[d]), last |-> LastPosition(d)]]
  BY <1>2 DEF Seal
<1>4. Full' = Full /\ End' = End /\ \A x \in Days : LastPosition(x)' = LastPosition(x)
  BY <1>1, SameRecords
<1>5. Numbered' /\ ChainLinear' /\ ConfirmedKept' /\ HeadNamesRecord'
  BY <1>1, QuietStep
<1>6. ChainTypeOK'
  <2>1. [records |-> Len(file[d]), last |-> LastPosition(d)] \in Checkpoint
    BY <1>1, <1>3, LastIs DEF Checkpoint, Full
  <2> QED BY <1>1, <1>3, <2>1 DEF ChainTypeOK
<1>7. \A w \in Writers : call[w].at = "idle"
  BY <1>1, NobodyAtWork
<1>8. Locked' /\ AtEnd' /\ FilesMade'
  BY <1>1, <1>4, <1>7 DEF ChainInv, Locked, AtEnd, FilesMade
<1>9. SealedFrozen'
  BY <1>1, <1>3, <1>4 DEF ChainInv, ChainTypeOK, SealedFrozen
<1> QED BY <1>1, <1>5, <1>6, <1>8, <1>9 DEF ChainInv

\* A day that passes leaves the chain whole.
LEMMA TickStep ==
  ASSUME ChainInv, Tick
  PROVE  ChainInv' /\ UNCHANGED <<file, kept, call>>
<1>1. /\ wall' = wall + 1 /\ wall' \in Days /\ wall \in Nat /\ ChainTypeOK
      /\ UNCHANGED <<made, file, torn, seals, head, lock, call, hashes, kept, faults>>
  BY ChainAssumption DEF Tick, ChainInv, ChainTypeOK, Days
<1>2. Full' = Full /\ End' = End /\ \A x \in Days : LastPosition(x)' = LastPosition(x)
  BY <1>1, SameRecords
<1>3. Numbered' /\ ChainLinear' /\ ConfirmedKept' /\ HeadNamesRecord'
  BY <1>1, QuietStep
<1>4. ChainTypeOK'
  BY <1>1 DEF ChainTypeOK
<1>5. SealedFrozen' /\ AtEnd'
  BY <1>1, <1>2 DEF ChainInv, SealedFrozen, AtEnd
<1>6. FilesMade'
  <2>1. \A d \in made : d \in Nat
    BY <1>1, ChainAssumption DEF ChainTypeOK, Days
  <2> QED BY <1>1, <1>2, <2>1 DEF ChainInv, FilesMade
<1>7. Locked'
  <2>1. \A w \in Writers : call[w].now \in Nat
    BY <1>1, ChainAssumption DEF ChainTypeOK, Call, Days
  <2> QED BY <1>1, <2>1 DEF ChainInv, Locked
<1> QED BY <1>1, <1>3, <1>4, <1>5, <1>6, <1>7 DEF ChainInv

\* A fault elsewhere is nothing to the chain.
LEMMA OtherStep ==
  ASSUME ChainInv, UNCHANGED chainButFaults, faults' \in 0..MaxFaults
  PROVE  ChainInv' /\ UNCHANGED <<file, kept, call>>
<1>1. /\ UNCHANGED <<made, file, torn, seals, head, lock, call, wall, hashes, kept>>
      /\ ChainTypeOK
  BY DEF chainButFaults, ChainInv
<1>2. Full' = Full /\ End' = End /\ \A x \in Days : LastPosition(x)' = LastPosition(x)
  BY <1>1, SameRecords
<1>3. Numbered' /\ ChainLinear' /\ ConfirmedKept' /\ HeadNamesRecord'
  BY <1>1, QuietStep
<1>4. ChainTypeOK'
  BY <1>1 DEF ChainTypeOK
<1>5. SealedFrozen' /\ AtEnd' /\ FilesMade' /\ Locked'
  BY <1>1, <1>2 DEF ChainInv, SealedFrozen, AtEnd, FilesMade, Locked
<1> QED BY <1>1, <1>3, <1>4, <1>5 DEF ChainInv

\* A caller takes the result of a call that is over.
LEMMA TookStep ==
  ASSUME ChainInv, NEW w \in Writers, call[w].result # "none", Took(w), UNCHANGED chainButCall
  PROVE  /\ ChainInv' /\ UNCHANGED <<file, kept>> /\ call'[w] = Idle
         /\ \A v \in Writers : v # w => call'[v] = call[v]
<1>1. /\ UNCHANGED <<made, file, torn, seals, head, lock, wall, hashes, kept, faults>>
      /\ ChainTypeOK /\ call' = [call EXCEPT ![w] = Idle]
  BY DEF chainButCall, ChainInv, Took
<1>2. Full' = Full /\ End' = End /\ \A x \in Days : LastPosition(x)' = LastPosition(x)
  BY <1>1, SameRecords
<1>3. Numbered' /\ ChainLinear' /\ ConfirmedKept' /\ HeadNamesRecord'
  BY <1>1, QuietStep
<1>4. Idle.at = "idle" /\ Idle \in Call
  BY ChainAssumption DEF Idle, Call, Start, Position, Results, Days
<1>5. /\ call' \in [Writers -> Call] /\ call'[w] = Idle
      /\ \A v \in Writers : v # w => call'[v] = call[v]
  BY <1>1, <1>4 DEF ChainTypeOK
<1>6. ChainTypeOK'
  BY <1>1, <1>5 DEF ChainTypeOK
<1>7. SealedFrozen' /\ FilesMade'
  BY <1>1, <1>2 DEF ChainInv, SealedFrozen, FilesMade
<1>8. AtEnd' /\ Locked'
  BY <1>1, <1>2, <1>4, <1>5 DEF ChainInv, AtEnd, Locked
<1> QED BY <1>1, <1>3, <1>5, <1>6, <1>7, <1>8 DEF ChainInv
-----------------------------------------------------------------------------
(***************************************************************************)
(* The steps of the spool.                                                 *)
(***************************************************************************)
\* What the chain holds of a submission only changes with the records.
LEMMA EntriesStay ==
  ASSUME Records' = Records, kept' = kept, NEW i \in Ids
  PROVE  /\ InChain(Accepted(i))' <=> InChain(Accepted(i))
         /\ InChain(Abandoned(i))' <=> InChain(Abandoned(i))
         /\ Confirmed(Accepted(i))' <=> Confirmed(Accepted(i))
BY DEF InChain, Confirmed

\* A step that leaves the submission j alone.
LeavesAlone(j) ==
  /\ sub'[j] = sub[j] /\ class'[j] = class[j] /\ told'[j] = told[j]
  /\ j \in tmpEml' <=> j \in tmpEml
  /\ j \in tmpJson' <=> j \in tmpJson
  /\ j \in newEml' <=> j \in newEml
  /\ j \in newJson' <=> j \in newJson
  /\ j \in doubt' <=> j \in doubt
  /\ InChain(Accepted(j))' <=> InChain(Accepted(j))
  /\ InChain(Abandoned(j))' <=> InChain(Abandoned(j))
  /\ Confirmed(Accepted(j)) => Confirmed(Accepted(j))'

\* Such a step keeps what is said of j, if it also leaves the append j waits for.
LEMMA SoundStays ==
  ASSUME NEW j \in Ids, Sound(j), LeavesAlone(j), sub[j] = "hook" => call'[j] = call[j]
  PROVE  Sound(j)'
<1>1. Placed(j)'
  BY DEF Sound, Placed, LeavesAlone, Staged
<1>2. PassedRecorded(j)'
  BY DEF Sound, PassedRecorded, LeavesAlone
<1>3. AcceptedWhere(j)'
  BY DEF Sound, AcceptedWhere, LeavesAlone
<1>4. AbandonedWhere(j)' /\ Traced(j)'
  BY DEF Sound, AbandonedWhere, Traced, LeavesAlone
<1> QED BY <1>1, <1>2, <1>3, <1>4 DEF Sound

\* What its caller wants stays the same while an append is under way.
LEMMA OwnStays ==
  ASSUME AppendsOwn, Records \subseteq Records', kept \subseteq kept', NEW w \in Writers,
         call'[w] = call[w], call[w] # Idle => Wants(w)' /\ EntryOf(w)' = EntryOf(w),
         call[w].at = "head" => file'[call[w].now] = file[call[w].now]
  PROVE  /\ call'[w] # Idle => Wants(w)'
         /\ call'[w].at = "head" => Last(file'[call'[w].now]).entry = EntryOf(w)'
         /\ call'[w].result = "ok" => Confirmed(EntryOf(w))'
<1>1. Idle.at = "idle" /\ Idle.result = "none"
  BY DEF Idle
<1>2. call'[w].at = "head" => Last(file'[call'[w].now]).entry = EntryOf(w)'
  BY <1>1 DEF AppendsOwn
<1>3. call'[w].result = "ok" => Confirmed(EntryOf(w))'
  BY <1>1 DEF AppendsOwn, Confirmed
<1> QED BY <1>2, <1>3

\* Nothing is said of an append that is not under way.
LEMMA OwnOfIdle ==
  ASSUME NEW w \in Writers, call'[w] = Idle
  PROVE  /\ call'[w] # Idle => Wants(w)'
         /\ call'[w].at = "head" => Last(file'[call'[w].now]).entry = EntryOf(w)'
         /\ call'[w].result = "ok" => Confirmed(EntryOf(w))'
BY DEF Idle

\* The writers, and what each wants.
LEMMA WriterCases ==
  ASSUME Inv, NEW w \in Writers, Wants(w)
  PROVE  /\ EntryOf(w) \in Entries
         /\ \/ /\ w = "start" /\ server = "start" /\ step = "abandon" /\ todo # <<>>
               /\ Head(todo) \in Ids /\ Head(todo) \in Staged /\ EntryOf(w) = Abandoned(Head(todo))
            \/ w \in Ids /\ w # "start" /\ sub[w] = "hook" /\ EntryOf(w) = Accepted(w)
            \/ w \in Ids /\ w # "start" /\ sub[w] = "abandon" /\ EntryOf(w) = Abandoned(w)
<1>1. CASE w = "start"
  <2>1. server = "start" /\ step = "abandon" /\ todo # <<>>
    BY <1>1 DEF Wants, Inv, SpoolInv, StartAlone
  <2>2. todo \in Seq(Ids) /\ 1 \in DOMAIN todo /\ Head(todo) = todo[1]
    BY <2>1 DEF Inv, TypeOK
  <2>3. Head(todo) \in Ids /\ Head(todo) \in Staged
    BY <2>1, <2>2 DEF Inv, SpoolInv, StartAlone
  <2>4. EntryOf(w) = Abandoned(Head(todo))
    BY <1>1 DEF EntryOf
  <2>5. \A i \in Ids : Abandoned(i) \in Entries
    BY AcceptanceAssumption DEF Abandoned
  <2> QED BY <1>1, <2>1, <2>3, <2>4, <2>5
<1>2. CASE w # "start"
  <2>1. w \in Ids /\ sub[w] \in {"hook", "abandon"}
    BY <1>2, AcceptanceAssumption DEF Wants
  <2>2. EntryOf(w) = IF sub[w] = "hook" THEN Accepted(w) ELSE Abandoned(w)
    BY <1>2 DEF EntryOf
  <2>3. Accepted(w) \in Entries /\ Abandoned(w) \in Entries
    BY <2>1, AcceptanceAssumption DEF Accepted, Abandoned
  <2> QED BY <1>2, <2>1, <2>2, <2>3
<1> QED BY <1>1, <1>2

\* A writer is the start of the server or a submission.
LEMMA WritersAre == \A w \in Writers : (w = "start" /\ w \notin Ids) \/ (w \in Ids /\ w # "start")
BY AcceptanceAssumption

\* Who does not want a record has no append under way.
LEMMA NotWanting ==
  ASSUME Inv, NEW i \in Ids, sub[i] \notin {"hook", "abandon"}
  PROVE  i \in Writers /\ i # "start" /\ call[i] = Idle
<1>1. i \in Writers /\ i # "start"
  BY AcceptanceAssumption
<1>2. ~Wants(i)
  BY <1>1 DEF Wants
<1> QED BY <1>1, <1>2 DEF Inv, SpoolInv, AppendsOwn

\* While a submission is under way the server is up and the start is over.
LEMMA UpWhileSubmitting ==
  ASSUME Inv, NEW i \in Ids, InFlight(i)
  PROVE  server = "up" /\ todo = <<>>
BY DEF Inv, SpoolInv, StartAlone

\* A step of submission i that leaves the chain and the start as they are.
LEMMA SubmissionLocal ==
  ASSUME Inv, NEW i \in Ids, UNCHANGED <<file, kept, server, todo, step>>, server = "up",
         i \in Writers => call'[i] = Idle \/ (call'[i] = call[i] /\ call[i] = Idle),
         \A w \in Writers : w # i => call'[w] = call[w],
         \A j \in Ids : j # i =>
           /\ sub'[j] = sub[j] /\ class'[j] = class[j] /\ told'[j] = told[j]
           /\ j \in tmpEml' <=> j \in tmpEml
           /\ j \in tmpJson' <=> j \in tmpJson
           /\ j \in newEml' <=> j \in newEml
           /\ j \in newJson' <=> j \in newJson
           /\ j \in doubt' <=> j \in doubt,
         Sound(i)'
  PROVE  SpoolInv'
<1>1. Records' = Records /\ kept' = kept
  BY SameRecords
<1>2. ASSUME NEW j \in Ids PROVE Sound(j)'
  <2>1. CASE j = i
    BY <2>1
  <2>2. CASE j # i
    <3>1. LeavesAlone(j)
      BY <1>1, <2>2, EntriesStay DEF LeavesAlone
    <3>2. j \in Writers /\ Sound(j)
      BY AcceptanceAssumption DEF Inv, SpoolInv
    <3> QED BY <2>2, <3>1, <3>2, SoundStays
  <2> QED BY <2>1, <2>2
<1>3. AppendsOwn'
  <2>1. ASSUME NEW w \in Writers
        PROVE  /\ call'[w] # Idle => Wants(w)'
               /\ call'[w].at = "head" => Last(file'[call'[w].now]).entry = EntryOf(w)'
               /\ call'[w].result = "ok" => Confirmed(EntryOf(w))'
    <3>1. CASE w = i
      <4>1. call'[w] = Idle
        BY <3>1
      <4> QED BY <4>1, OwnOfIdle
    <3>2. CASE w # i
      <4>1. call[w] # Idle => Wants(w)' /\ EntryOf(w)' = EntryOf(w)
        <5>1. w \in Ids => sub'[w] = sub[w]
          BY <3>2
        <5>2. call[w] # Idle => Wants(w)
          BY DEF Inv, SpoolInv, AppendsOwn
        <5>3. Wants(w) => Wants(w)' /\ EntryOf(w)' = EntryOf(w)
          BY <5>1, WritersAre DEF Wants, EntryOf
        <5> QED BY <5>2, <5>3
      <4> QED BY <1>1, <3>2, <4>1, OwnStays DEF Inv, SpoolInv
    <3> QED BY <3>1, <3>2
  <2> QED BY <2>1 DEF AppendsOwn
<1>4. StartAlone'
  <2>1. todo = <<>>
    BY DEF Inv, SpoolInv, StartAlone
  <2> QED BY <2>1 DEF StartAlone
<1> QED BY <1>2, <1>3, <1>4 DEF SpoolInv

\* A step of the spool, with or without a fault, leaves the chain.
LEMMA ChainLeft ==
  ASSUME Inv, UNCHANGED chainButFaults, UNCHANGED faults \/ Fail
  PROVE  /\ ChainInv' /\ ChainTypeOK' /\ UNCHANGED <<file, kept, call>>
         /\ \A i \in Ids : /\ InChain(Accepted(i))' <=> InChain(Accepted(i))
                           /\ InChain(Abandoned(i))' <=> InChain(Abandoned(i))
                           /\ Confirmed(Accepted(i))' <=> Confirmed(Accepted(i))
<1>1. faults' \in 0..MaxFaults
  BY ChainAssumption DEF Inv, TypeOK, ChainTypeOK, Fail
<1>2. ChainInv' /\ UNCHANGED <<file, kept, call>>
  BY <1>1, OtherStep DEF Inv
<1>3. Records' = Records
  BY <1>2, SameRecords
<1> QED BY <1>2, <1>3, EntriesStay DEF ChainInv

\* How a submission that fails before or after its record ends.
LEMMA GiveUpCases ==
  ASSUME Inv, NEW i \in Ids, GiveUp(i)
  PROVE  /\ Fail
         /\ \/ /\ class'[i] = "none" /\ sub' = [sub EXCEPT ![i] = "done"]
               /\ told' = [told EXCEPT ![i] = "refused"]
            \/ class'[i] # "none" /\ sub' = [sub EXCEPT ![i] = "abandon"] /\ told' = told
BY DEF GiveUp, Answer, Goto

\* store_with stages the message, or fails to.
LEMMA StageEmlStep ==
  ASSUME Inv, NEW i \in Ids, StageEml(i)
  PROVE  Inv'
<1>1. /\ server = "up" /\ sub[i] = "idle" /\ tmpEml' \in {tmpEml, tmpEml \cup {i}}
      /\ UNCHANGED <<chainButFaults, tmpJson, newEml, newJson, server, todo, step, doubt, crashes>>
      /\ UNCHANGED faults \/ Fail
  BY GiveUpCases DEF StageEml, startVars
<1>2. PICK c \in Classes : class' = [class EXCEPT ![i] = c]
  BY DEF StageEml
<1>3. PICK s \in {"stageJson", "done", "abandon"} : sub' = [sub EXCEPT ![i] = s] /\
        ((s = "done" /\ told' = [told EXCEPT ![i] = "refused"]) \/ (s # "done" /\ told' = told))
  BY GiveUpCases DEF StageEml, Goto
<1>4. /\ ChainInv' /\ ChainTypeOK' /\ UNCHANGED <<file, kept, call>>
      /\ InChain(Accepted(i))' <=> InChain(Accepted(i))
      /\ InChain(Abandoned(i))' <=> InChain(Abandoned(i))
  BY <1>1, ChainLeft
<1>5. TypeOK'
  BY <1>1, <1>2, <1>3, <1>4, AcceptanceAssumption DEF Inv, TypeOK, Steps
<1>6. /\ sub \in [Ids -> Steps] /\ told \in [Ids -> {"nothing", "accepted", "refused"}]
      /\ class \in [Ids -> {"mandatory", "optional", "none"}]
      /\ Placed(i) /\ AcceptedWhere(i) /\ AbandonedWhere(i)
  BY DEF Inv, TypeOK, SpoolInv, Sound
<1>7. ~InChain(Accepted(i)) /\ ~InChain(Abandoned(i)) /\ i \notin newJson /\ told[i] = "nothing"
  BY <1>1, <1>6 DEF AcceptedWhere, AbandonedWhere, Placed
<1>8. Sound(i)'
  <2>1. Placed(i)'
    BY <1>1, <1>3, <1>6, <1>7 DEF Placed
  <2>2. PassedRecorded(i)'
    BY <1>1, <1>3, <1>6, <1>7 DEF PassedRecorded
  <2> QED BY <1>4, <1>7, <2>1, <2>2 DEF Sound, AcceptedWhere, AbandonedWhere, Traced
<1>9. SpoolInv'
  BY <1>1, <1>2, <1>3, <1>4, <1>6, <1>8, NotWanting, SubmissionLocal
<1> QED BY <1>4, <1>5, <1>9 DEF Inv

\* store_with stages the envelope, or fails to, before anything is recorded.
LEMMA StageJsonStep ==
  ASSUME Inv, NEW i \in Ids, StageJson(i)
  PROVE  Inv'
<1>1. /\ sub[i] = "stageJson"
      /\ UNCHANGED <<chainButFaults, class, tmpEml, newEml, newJson, server, todo, step, doubt,
                     crashes>>
      /\ UNCHANGED faults \/ Fail
  BY GiveUpCases DEF StageJson, startVars
<1>2. server = "up"
  BY <1>1, UpWhileSubmitting DEF InFlight
<1>3. PICK s \in {"renameEml", "hook", "done", "abandon"} :
        /\ sub' = [sub EXCEPT ![i] = s]
        /\ \/ s = "done" /\ told' = [told EXCEPT ![i] = "refused"]
           \/ s # "done" /\ told' = told
        /\ \/ s \in {"done", "abandon"} /\ tmpJson' \in {tmpJson, tmpJson \cup {i}}
           \/ s = "renameEml" /\ class[i] = "none" /\ tmpJson' = tmpJson \cup {i}
           \/ s = "hook" /\ class[i] # "none" /\ tmpJson' = tmpJson \cup {i}
  BY GiveUpCases DEF StageJson, Goto
<1>4. /\ ChainInv' /\ ChainTypeOK' /\ UNCHANGED <<file, kept, call>>
      /\ InChain(Accepted(i))' <=> InChain(Accepted(i))
      /\ InChain(Abandoned(i))' <=> InChain(Abandoned(i))
  BY <1>1, ChainLeft
<1>5. TypeOK'
  BY <1>1, <1>3, <1>4 DEF Inv, TypeOK, Steps
<1>6. /\ sub \in [Ids -> Steps] /\ told \in [Ids -> {"nothing", "accepted", "refused"}]
      /\ class \in [Ids -> {"mandatory", "optional", "none"}]
      /\ Placed(i) /\ AcceptedWhere(i) /\ AbandonedWhere(i)
  BY DEF Inv, TypeOK, SpoolInv, Sound
<1>7. ~InChain(Accepted(i)) /\ ~InChain(Abandoned(i)) /\ i \notin newJson /\ told[i] = "nothing"
  BY <1>1, <1>6 DEF AcceptedWhere, AbandonedWhere, Placed
<1>8. Sound(i)'
  <2>1. Placed(i)'
    BY <1>1, <1>3, <1>6, <1>7 DEF Placed
  <2>2. PassedRecorded(i)'
    BY <1>1, <1>3, <1>6, <1>7 DEF PassedRecorded
  <2> QED BY <1>4, <1>7, <2>1, <2>2 DEF Sound, AcceptedWhere, AbandonedWhere, Traced
<1>9. SpoolInv'
  BY <1>1, <1>2, <1>3, <1>4, <1>6, <1>8, NotWanting, SubmissionLocal
<1> QED BY <1>4, <1>5, <1>9 DEF Inv

\* What a refusal by the hook removes has no record, or a doubtful one.
LEMMA UnstageStep ==
  ASSUME Inv, NEW i \in Ids, UnstageJson(i) \/ UnstageEml(i)
  PROVE  Inv'
<1>1. /\ sub[i] \in {"unstageJson", "unstageEml"}
      /\ UNCHANGED <<chainButFaults, class, newEml, newJson, server, todo, step, doubt, crashes>>
      /\ tmpJson' \in {tmpJson, tmpJson \ {i}} /\ tmpEml' \in {tmpEml, tmpEml \ {i}}
      /\ UNCHANGED faults \/ Fail
  BY DEF UnstageJson, UnstageEml, startVars
<1>2. server = "up"
  BY <1>1, UpWhileSubmitting DEF InFlight
<1>3. \/ sub' = [sub EXCEPT ![i] = "unstageEml"] /\ told' = told
      \/ sub' = [sub EXCEPT ![i] = "done"] /\ told' = [told EXCEPT ![i] = "refused"]
  BY DEF UnstageJson, UnstageEml, Goto, Answer
<1>4. /\ ChainInv' /\ ChainTypeOK' /\ UNCHANGED <<file, kept, call>>
      /\ InChain(Accepted(i))' <=> InChain(Accepted(i))
      /\ InChain(Abandoned(i))' <=> InChain(Abandoned(i))
  BY <1>1, ChainLeft
<1>5. TypeOK'
  BY <1>1, <1>3, <1>4 DEF Inv, TypeOK, Steps
<1>6. /\ sub \in [Ids -> Steps] /\ told \in [Ids -> {"nothing", "accepted", "refused"}]
      /\ Placed(i) /\ AcceptedWhere(i) /\ AbandonedWhere(i)
  BY DEF Inv, TypeOK, SpoolInv, Sound
<1>7. /\ ~InChain(Abandoned(i)) /\ i \notin newJson /\ told[i] = "nothing"
      /\ InChain(Accepted(i)) => i \in doubt /\ class[i] # "none"
  BY <1>1, <1>6 DEF AcceptedWhere, AbandonedWhere, Placed
<1>8. Sound(i)'
  <2>1. Placed(i)'
    BY <1>1, <1>3, <1>6, <1>7 DEF Placed
  <2>2. PassedRecorded(i)'
    BY <1>1, <1>3, <1>6, <1>7 DEF PassedRecorded
  <2>3. AcceptedWhere(i)'
    BY <1>1, <1>3, <1>4, <1>6, <1>7 DEF AcceptedWhere
  <2> QED BY <1>1, <1>4, <1>7, <2>1, <2>2, <2>3 DEF Sound, AbandonedWhere, Traced
<1>9. SpoolInv'
  BY <1>1, <1>2, <1>3, <1>4, <1>6, <1>8, NotWanting, SubmissionLocal
<1> QED BY <1>4, <1>5, <1>9 DEF Inv

\* The message is queued, envelope last, or is given up with its envelope staged.
LEMMA RenameStep ==
  ASSUME Inv, NEW i \in Ids, RenameEml(i) \/ RenameJson(i)
  PROVE  Inv'
<1>1. /\ sub[i] \in {"renameEml", "renameJson"}
      /\ UNCHANGED <<chainButFaults, class, server, todo, step, doubt, crashes>>
      /\ UNCHANGED faults \/ Fail
  BY GiveUpCases DEF RenameEml, RenameJson, startVars
<1>2. server = "up"
  BY <1>1, UpWhileSubmitting DEF InFlight
<1>3. \/ /\ sub[i] = "renameEml" /\ sub' = [sub EXCEPT ![i] = "renameJson"] /\ told' = told
         /\ tmpEml' = tmpEml \ {i} /\ newEml' = newEml \cup {i} /\ UNCHANGED <<tmpJson, newJson>>
      \/ /\ sub[i] = "renameJson" /\ sub' = [sub EXCEPT ![i] = "done"]
         /\ told' = [told EXCEPT ![i] = "accepted"]
         /\ tmpJson' = tmpJson \ {i} /\ newJson' = newJson \cup {i} /\ UNCHANGED <<tmpEml, newEml>>
      \/ /\ class[i] = "none" /\ sub' = [sub EXCEPT ![i] = "done"]
         /\ told' = [told EXCEPT ![i] = "refused"] /\ UNCHANGED spoolVars
      \/ /\ class[i] # "none" /\ sub' = [sub EXCEPT ![i] = "abandon"] /\ told' = told
         /\ UNCHANGED spoolVars
  BY GiveUpCases DEF RenameEml, RenameJson, Goto, Answer, spoolVars
<1>4. /\ ChainInv' /\ ChainTypeOK' /\ UNCHANGED <<file, kept, call>>
      /\ InChain(Accepted(i))' <=> InChain(Accepted(i))
      /\ InChain(Abandoned(i))' <=> InChain(Abandoned(i))
      /\ Confirmed(Accepted(i))' <=> Confirmed(Accepted(i))
  BY <1>1, ChainLeft
<1>5. TypeOK'
  BY <1>1, <1>3, <1>4 DEF Inv, TypeOK, Steps, spoolVars
<1>6. /\ sub \in [Ids -> Steps] /\ told \in [Ids -> {"nothing", "accepted", "refused"}]
      /\ Placed(i) /\ AcceptedWhere(i) /\ AbandonedWhere(i) /\ PassedRecorded(i) /\ Traced(i)
  BY DEF Inv, TypeOK, SpoolInv, Sound
<1>7. ~InChain(Abandoned(i)) /\ i \notin newJson /\ told[i] = "nothing" /\ i \in tmpJson
  BY <1>1, <1>6 DEF AbandonedWhere, Placed
<1>8. Sound(i)'
  <2>1. Placed(i)'
    BY <1>1, <1>3, <1>6, <1>7 DEF Placed, spoolVars, Staged
  <2>2. PassedRecorded(i)'
    BY <1>1, <1>3, <1>4, <1>6, <1>7 DEF PassedRecorded, spoolVars
  <2>3. AcceptedWhere(i)'
    BY <1>1, <1>3, <1>4, <1>6, <1>7 DEF AcceptedWhere
  <2>4. AbandonedWhere(i)' /\ Traced(i)'
    BY <1>1, <1>3, <1>4, <1>6, <1>7 DEF AbandonedWhere, Traced, spoolVars
  <2> QED BY <2>1, <2>2, <2>3, <2>4 DEF Sound
<1>9. SpoolInv'
  BY <1>1, <1>2, <1>3, <1>4, <1>6, <1>8, NotWanting, SubmissionLocal DEF spoolVars
<1> QED BY <1>4, <1>5, <1>9 DEF Inv

\* The hook's answer decides: past it only with what the class asks for.
LEMMA HookDoneStep ==
  ASSUME Inv, NEW i \in Ids, HookDone(i)
  PROVE  Inv'
<1>1. /\ sub[i] = "hook" /\ call[i].result # "none" /\ Took(i) /\ UNCHANGED chainButCall
      /\ UNCHANGED <<spoolVars, class, told, server, todo, step, crashes>>
      /\ doubt' = IF call[i].result = "unconfirmed" THEN doubt \cup {i} ELSE doubt
  BY DEF HookDone, startVars
<1>2. server = "up" /\ i \in Writers /\ i # "start"
  BY <1>1, UpWhileSubmitting, AcceptanceAssumption DEF InFlight
<1>3. PICK s \in {"unstageJson", "renameEml"} :
        /\ sub' = [sub EXCEPT ![i] = s]
        /\ s = "unstageJson" => call[i].result # "ok" /\ class[i] = "mandatory"
        /\ s = "renameEml" => call[i].result = "ok" \/ class[i] # "mandatory"
  BY DEF HookDone, Goto
<1>4. /\ ChainInv' /\ UNCHANGED <<file, kept>> /\ call'[i] = Idle
      /\ \A v \in Writers : v # i => call'[v] = call[v]
  BY <1>1, <1>2, TookStep DEF Inv
<1>5. /\ Records' = Records
      /\ InChain(Accepted(i))' <=> InChain(Accepted(i))
      /\ InChain(Abandoned(i))' <=> InChain(Abandoned(i))
      /\ Confirmed(Accepted(i))' <=> Confirmed(Accepted(i))
  BY <1>4, SameRecords, EntriesStay
<1>6. TypeOK'
  BY <1>1, <1>3, <1>4 DEF Inv, TypeOK, ChainInv, Steps, spoolVars
<1>7. /\ sub \in [Ids -> Steps] /\ told \in [Ids -> {"nothing", "accepted", "refused"}]
      /\ Placed(i) /\ AcceptedWhere(i) /\ AbandonedWhere(i) /\ PassedRecorded(i) /\ Traced(i)
      /\ call[i] \in Call
  BY <1>2 DEF Inv, TypeOK, ChainTypeOK, SpoolInv, Sound
<1>8. /\ ~InChain(Abandoned(i)) /\ i \notin newJson /\ told[i] = "nothing" /\ i \in tmpJson
      /\ class[i] # "none"
      /\ InChain(Accepted(i)) => call[i].result \in {"ok", "unconfirmed"}
  BY <1>1, <1>2, <1>7 DEF AbandonedWhere, AcceptedWhere, Placed, Inv, ChainInv, Locked
<1>9. call[i].result = "ok" => Confirmed(Accepted(i))
  <2>1. EntryOf(i) = Accepted(i)
    BY <1>1, <1>2 DEF EntryOf
  <2> QED BY <1>2, <2>1 DEF Inv, SpoolInv, AppendsOwn, Confirmed
<1>10. Sound(i)'
  <2>1. Placed(i)'
    BY <1>1, <1>3, <1>7, <1>8 DEF Placed, spoolVars
  <2>2. PassedRecorded(i)'
    BY <1>1, <1>3, <1>5, <1>7, <1>8, <1>9 DEF PassedRecorded, spoolVars
  <2>3. AcceptedWhere(i)'
    BY <1>1, <1>3, <1>5, <1>7, <1>8 DEF AcceptedWhere
  <2>4. AbandonedWhere(i)' /\ Traced(i)'
    BY <1>1, <1>3, <1>5, <1>7, <1>8 DEF AbandonedWhere, Traced, spoolVars
  <2> QED BY <2>1, <2>2, <2>3, <2>4 DEF Sound
<1>11. SpoolInv'
  BY <1>1, <1>2, <1>3, <1>4, <1>7, <1>10, SubmissionLocal DEF spoolVars
<1> QED BY <1>4, <1>6, <1>11 DEF Inv

\* The client of an abandoned message is refused.
LEMMA AbandonDoneStep ==
  ASSUME Inv, NEW i \in Ids, AbandonDone(i)
  PROVE  Inv'
<1>1. /\ sub[i] = "abandon" /\ call[i].result # "none" /\ Took(i) /\ UNCHANGED chainButCall
      /\ UNCHANGED <<spoolVars, class, server, todo, step, doubt, crashes>>
      /\ sub' = [sub EXCEPT ![i] = "done"] /\ told' = [told EXCEPT ![i] = "refused"]
  BY DEF AbandonDone, startVars, Answer, Goto
<1>2. server = "up" /\ i \in Writers /\ i # "start"
  BY <1>1, UpWhileSubmitting, AcceptanceAssumption DEF InFlight
<1>3. /\ ChainInv' /\ UNCHANGED <<file, kept>> /\ call'[i] = Idle
      /\ \A v \in Writers : v # i => call'[v] = call[v]
  BY <1>1, <1>2, TookStep DEF Inv
<1>4. /\ Records' = Records
      /\ InChain(Accepted(i))' <=> InChain(Accepted(i))
      /\ InChain(Abandoned(i))' <=> InChain(Abandoned(i))
      /\ Confirmed(Accepted(i))' <=> Confirmed(Accepted(i))
  BY <1>3, SameRecords, EntriesStay
<1>5. TypeOK'
  BY <1>1, <1>3 DEF Inv, TypeOK, ChainInv, Steps, spoolVars
<1>6. /\ sub \in [Ids -> Steps] /\ told \in [Ids -> {"nothing", "accepted", "refused"}]
      /\ Placed(i) /\ AcceptedWhere(i) /\ AbandonedWhere(i) /\ PassedRecorded(i) /\ Traced(i)
  BY DEF Inv, TypeOK, SpoolInv, Sound
<1>7. i \notin newJson /\ told[i] = "nothing"
  BY <1>1, <1>6 DEF Placed
<1>8. Sound(i)'
  <2>1. Placed(i)'
    BY <1>1, <1>6, <1>7 DEF Placed, spoolVars
  <2>2. PassedRecorded(i)' /\ AcceptedWhere(i)'
    BY <1>1, <1>4, <1>6, <1>7 DEF PassedRecorded, AcceptedWhere, spoolVars
  <2>3. AbandonedWhere(i)' /\ Traced(i)'
    BY <1>1, <1>4, <1>6, <1>7 DEF AbandonedWhere, Traced, spoolVars
  <2> QED BY <2>1, <2>2, <2>3 DEF Sound
<1>9. SpoolInv'
  BY <1>1, <1>2, <1>3, <1>6, <1>8, SubmissionLocal DEF spoolVars
<1> QED BY <1>3, <1>5, <1>9 DEF Inv

\* The spool while an append is under way: what is in the chain only grows by
\* the entry its caller wants.
LEMMA AppendSpool ==
  ASSUME Inv, NEW w \in Writers, Wants(w), ChainInv',
         UNCHANGED <<spoolVars, sub, class, told, server, todo, step, doubt, crashes>>,
         \A v \in Writers : v # w => call'[v] = call[v],
         kept \subseteq kept', file' = file \/ call[w].at # "idle",
         \/ Records' = Records
         \/ /\ \E rec : Records' = Records \cup {rec} /\ rec.entry = EntryOf(w)
            /\ call'[w].at = "head" \/ call'[w].result = "unconfirmed",
         \/ call'[w].at = "head"
         \/ call'[w].result \in {"ok", "unconfirmed"}
         \/ Records' = Records /\ call[w].at # "head" /\ call[w].result = "none",
         call'[w].at = "head" => Last(file'[call'[w].now]).entry = EntryOf(w),
         call'[w].result = "ok" => \E r \in Records' : r.hash \in kept' /\ r.entry = EntryOf(w)
  PROVE  Inv'
<1>1. PICK e \in Entries : e = EntryOf(w)
  BY WriterCases
<1>2. \/ /\ w = "start" /\ server = "start" /\ step = "abandon" /\ todo # <<>>
         /\ Head(todo) \in Ids /\ Head(todo) \in Staged /\ e = Abandoned(Head(todo))
      \/ w \in Ids /\ w # "start" /\ sub[w] = "hook" /\ e = Accepted(w)
      \/ w \in Ids /\ w # "start" /\ sub[w] = "abandon" /\ e = Abandoned(w)
  BY <1>1, WriterCases
<1>3. Records \subseteq Records' /\ \A r \in Records' : r \in Records \/ r.entry = e
  BY <1>1
<1>4. \A i, j \in Ids : /\ Accepted(i) = Accepted(j) => i = j
                        /\ Abandoned(i) = Abandoned(j) => i = j
                        /\ Accepted(i) # Abandoned(j)
  BY DEF Accepted, Abandoned
<1>5. ASSUME NEW j \in Ids
      PROVE  Sound(j)'
  <2>1. /\ Placed(j) /\ PassedRecorded(j) /\ AcceptedWhere(j) /\ AbandonedWhere(j) /\ Traced(j)
        /\ sub[j] \in Steps
    BY DEF Inv, SpoolInv, Sound, TypeOK
  <2>2. /\ InChain(Accepted(j)) => InChain(Accepted(j))'
        /\ InChain(Abandoned(j)) => InChain(Abandoned(j))'
        /\ Confirmed(Accepted(j)) => Confirmed(Accepted(j))'
    BY <1>3 DEF InChain, Confirmed
  <2>3. InChain(Accepted(j))' /\ ~InChain(Accepted(j)) =>
          j = w /\ sub[j] = "hook" /\ Records' # Records
    <3>1. SUFFICES ASSUME InChain(Accepted(j))', ~InChain(Accepted(j))
                   PROVE  j = w /\ sub[j] = "hook" /\ Records' # Records
      OBVIOUS
    <3>2. e = Accepted(j) /\ Records' # Records
      BY <1>3, <3>1 DEF InChain
    <3> QED BY <1>2, <1>4, <3>2
  <2>4. InChain(Abandoned(j))' /\ ~InChain(Abandoned(j)) =>
          sub[j] \in {"abandon", "done", "lost"} /\ j \notin newJson
    <3>1. SUFFICES ASSUME InChain(Abandoned(j))', ~InChain(Abandoned(j))
                   PROVE  sub[j] \in {"abandon", "done", "lost"} /\ j \notin newJson
      OBVIOUS
    <3>2. e = Abandoned(j)
      BY <1>3, <3>1 DEF InChain
    <3>3. CASE j = w /\ sub[j] = "abandon"
      BY <2>1, <3>3 DEF Placed
    <3>4. CASE server = "start" /\ j = Head(todo) /\ j \in Staged
      <4>1. ~InFlight(j)
        BY <3>4 DEF Inv, SpoolInv, StartAlone
      <4> QED BY <2>1, <3>4, <4>1 DEF Placed, InFlight, Steps
    <3> QED BY <1>2, <1>4, <3>2, <3>3, <3>4
  <2>5. Placed(j)' /\ PassedRecorded(j)'
    BY <2>1, <2>2 DEF Placed, PassedRecorded, Staged, spoolVars
  <2>6. AbandonedWhere(j)'
    BY <2>1, <2>4 DEF AbandonedWhere, spoolVars
  <2>7. Traced(j)'
    <3>1. sub[j] = "hook" => j \in tmpJson
      BY <2>1 DEF Placed
    <3> QED BY <2>1, <2>2, <2>3, <3>1 DEF Traced, spoolVars
  <2>8. AcceptedWhere(j)'
    <3>1. SUFFICES ASSUME InChain(Accepted(j))' PROVE AcceptedWhere(j)'
      BY DEF AcceptedWhere
    <3>2. /\ class[j] # "none" /\ sub[j] \notin {"idle", "stageJson"}
          /\ sub[j] \in {"unstageJson", "unstageEml"} => j \in doubt
      BY <2>1, <2>3, <3>1 DEF AcceptedWhere, Placed
    <3>3. sub[j] = "hook" /\ j # w => call[j].at = "head" \/ call[j].result \in {"ok", "unconfirmed"}
      BY <2>1, <2>3, <3>1 DEF AcceptedWhere
    <3>4. sub[j] = "hook" /\ j = w =>
            call'[j].at = "head" \/ call'[j].result \in {"ok", "unconfirmed"}
      <4>1. SUFFICES ASSUME sub[j] = "hook", j = w, Records' = Records, call[w].at # "head",
                            call[w].result = "none"
                     PROVE  FALSE
        BY <4>1
      <4>2. InChain(Accepted(j))
        BY <2>3, <3>1, <4>1
      <4> QED BY <2>1, <4>1, <4>2 DEF AcceptedWhere
    <3>5. j \in Writers
      BY AcceptanceAssumption
    <3> QED BY <3>2, <3>3, <3>4, <3>5 DEF AcceptedWhere
  <2> QED BY <2>5, <2>6, <2>7, <2>8 DEF Sound
<1>6. AppendsOwn'
  <2>1. ASSUME NEW v \in Writers
        PROVE  /\ call'[v] # Idle => Wants(v)'
               /\ call'[v].at = "head" => Last(file'[call'[v].now]).entry = EntryOf(v)'
               /\ call'[v].result = "ok" => Confirmed(EntryOf(v))'
    <3>1. (Wants(v)' <=> Wants(v)) /\ EntryOf(v)' = EntryOf(v)
      BY DEF Wants, EntryOf
    <3>2. CASE v = w
      BY <3>1, <3>2 DEF Confirmed
    <3>3. CASE v # w
      <4>1. call[v].at = "head" => file'[call[v].now] = file[call[v].now]
        BY <3>3, OneAtWork DEF Inv
      <4>2. call[v] # Idle => Wants(v)
        BY DEF Inv, SpoolInv, AppendsOwn
      <4> QED BY <1>3, <3>1, <3>3, <4>1, <4>2, OwnStays DEF Inv, SpoolInv
    <3> QED BY <3>2, <3>3
  <2> QED BY <2>1 DEF AppendsOwn
<1>7. StartAlone'
  <2>1. \A i \in Ids : InChain(Abandoned(i)) => InChain(Abandoned(i))'
    BY <1>3 DEF InChain
  <2>2. server = "start" => Head(todo) \in Ids
    BY DEF Inv, TypeOK, SpoolInv, StartAlone
  <2>3. server = "start" /\ step # "abandon" =>
          class[Head(todo)] = "none" \/ InChain(Abandoned(Head(todo)))'
    BY <1>3 DEF Inv, SpoolInv, StartAlone, InChain, Abandoned
  <2> QED BY <2>3 DEF Inv, SpoolInv, StartAlone, InFlight, Staged, spoolVars
<1>8. TypeOK'
  BY DEF Inv, TypeOK, ChainInv, spoolVars
<1> QED BY <1>5, <1>6, <1>7, <1>8 DEF Inv, SpoolInv

\* The three steps of an append, for the spool.
LEMMA AppendOfStep ==
  ASSUME Inv, NEW w \in Writers, AppendOf(w)
  PROVE  Inv'
<1>1. /\ Wants(w) /\ ChainInv
      /\ UNCHANGED <<spoolVars, sub, class, told, server, todo, step, doubt, crashes>>
  BY DEF AppendOf, startVars, Inv
<1>2. PICK e \in Entries : e = EntryOf(w)
  BY <1>1, WriterCases
<1>3. CASE \E now \in Readings : AppendBegin(w, now)
  <2>1. PICK now \in Readings : AppendBegin(w, now)
    BY <1>3
  <2>2. /\ ChainInv'
        /\ \/ call'[w].at = "write" /\ call'[w].result = "none"
           \/ call'[w].at = "idle" /\ call'[w].result = "refused"
        /\ \A v \in Writers : v # w => call'[v] = call[v]
    BY <1>1, <2>1, AppendBeginStep
  <2>3. file' = file /\ kept' = kept /\ Records' = Records
        /\ call[w].at = "idle" /\ call[w].result = "none"
    BY <2>1, SameRecords DEF AppendBegin, Idle
  <2> QED BY <1>1, <2>2, <2>3, AppendSpool
<1>4. CASE WriteLine(w, EntryOf(w))
  <2>1. WriteLine(w, e)
    BY <1>2, <1>4
  <2>2. /\ ChainInv'
        /\ \A v \in Writers : v # w => call'[v] = call[v]
        /\ \/ /\ Records' = Records \cup {NewRecord(w, e)} /\ NewRecord(w, e).entry = e
              /\ call'[w].at = "head" /\ call'[w].result = "none"
              /\ Last(file'[call'[w].now]) = NewRecord(w, e)
           \/ /\ Records' = Records \cup {NewRecord(w, e)} /\ NewRecord(w, e).entry = e
              /\ call'[w].at = "idle" /\ call'[w].result = "unconfirmed"
           \/ /\ Records' = Records
              /\ call'[w].at = "idle" /\ call'[w].result \in {"refused", "unconfirmed"}
    BY <1>1, <2>1, WriteLineStep
  <2>3. call[w].at = "write" /\ call[w].result = "none" /\ kept' = kept
    BY <1>1, <2>1 DEF WriteLine, ChainInv, Locked
  <2> HIDE DEF NewRecord
  <2> QED BY <1>1, <1>2, <2>2, <2>3, AppendSpool
<1>5. CASE WriteHead(w)
  <2>1. /\ ChainInv' /\ file' = file /\ kept \subseteq kept'
        /\ \A v \in Writers : v # w => call'[v] = call[v]
        /\ call[w].at = "head" /\ call'[w].at = "idle"
        /\ \/ /\ call'[w].result = "ok"
              /\ Last(file[call[w].now]) \in Records /\ Last(file[call[w].now]).hash \in kept'
           \/ call'[w].result = "unconfirmed"
    BY <1>1, <1>5, WriteHeadStep
  <2>2. Records' = Records
    BY <2>1, SameRecords
  <2>3. Last(file[call[w].now]).entry = EntryOf(w)
    BY <2>1 DEF Inv, SpoolInv, AppendsOwn
  <2>4. call'[w].result = "ok" => \E r \in Records' : r.hash \in kept' /\ r.entry = EntryOf(w)
    BY <2>1, <2>2, <2>3
  <2>5. call'[w].result \in {"ok", "unconfirmed"}
    BY <2>1
  <2> QED BY <1>1, <2>1, <2>2, <2>4, <2>5, AppendSpool
<1> QED BY <1>3, <1>4, <1>5 DEF AppendOf

\* The first leftover, and the ones after it.
LEMMA HeadIn ==
  ASSUME NEW S, NEW q \in Seq(S), q # <<>>
  PROVE  /\ 1 \in DOMAIN q /\ Head(q) = q[1] /\ Head(q) \in S /\ Tail(q) \in Seq(S)
         /\ \A n \in DOMAIN Tail(q) : n + 1 \in DOMAIN q /\ n + 1 # 1 /\ Tail(q)[n] = q[n + 1]
OBVIOUS

\* A step that leaves every submission, and the records, as they are.
LEMMA SoundUnmoved ==
  ASSUME Inv, Records' = Records, kept' = kept,
         UNCHANGED <<sub, class, told, newEml, newJson, tmpEml, tmpJson, doubt>>,
         \A j \in Ids : call'[j] = call[j]
  PROVE  \A j \in Ids : Sound(j)'
<1>1. ASSUME NEW j \in Ids PROVE Sound(j)'
  <2>1. LeavesAlone(j)
    BY EntriesStay DEF LeavesAlone
  <2>2. Sound(j)
    BY DEF Inv, SpoolInv
  <2> QED BY <2>1, <2>2, SoundStays
<1> QED BY <1>1

\* No submission has an append under way while the server is not up, and the
\* start has none when it wants none.
LEMMA IdleWhileDown ==
  ASSUME Inv, server # "up"
  PROVE  /\ \A i \in Ids : i \in Writers /\ i # "start" /\ call[i] = Idle
         /\ server = "down" \/ step # "abandon" => call["start"] = Idle
<1>1. ASSUME NEW i \in Ids PROVE i \in Writers /\ i # "start" /\ call[i] = Idle
  <2>1. ~InFlight(i)
    BY DEF Inv, SpoolInv, StartAlone
  <2>2. sub[i] \notin {"hook", "abandon"}
    BY <2>1 DEF InFlight
  <2> QED BY <2>2, NotWanting
<1>2. server = "down" \/ step # "abandon" => ~Wants("start")
  BY DEF Wants
<1>3. "start" \in Writers
  BY AcceptanceAssumption
<1> QED BY <1>1, <1>2, <1>3 DEF Inv, SpoolInv, AppendsOwn

\* Nor of any, when none is under way.
LEMMA OwnWhileIdle ==
  ASSUME \A w \in Writers : call'[w] = Idle
  PROVE  AppendsOwn'
<1>1. ASSUME NEW w \in Writers
      PROVE  /\ call'[w] # Idle => Wants(w)'
             /\ call'[w].at = "head" => Last(file'[call'[w].now]).entry = EntryOf(w)'
             /\ call'[w].result = "ok" => Confirmed(EntryOf(w))'
  BY OwnOfIdle
<1> QED BY <1>1 DEF AppendsOwn

\* The leftovers a start goes through: distinct, and staged.
LEMMA RestartStep ==
  ASSUME Inv, Restart
  PROVE  Inv'
<1>1. /\ server = "down" /\ server' = IF todo' = <<>> THEN "up" ELSE "start"
      /\ step' = Begin(todo')
      /\ UNCHANGED <<chainVars, spoolVars, sub, class, told, doubt, crashes>>
  BY DEF Restart
<1>2. PICK S \in SUBSET Staged : todo' \in SetToSeqs(S)
  BY DEF Restart
<1>3. S \subseteq Ids /\ Cardinality(S) \in Nat
  <2>1. S \subseteq Ids
    BY <1>2 DEF Staged, Inv, TypeOK
  <2>2. IsFiniteSet(S)
    BY <2>1, AcceptanceAssumption, FS_Subset
  <2> QED BY <2>1, <2>2, FS_CardinalityType
<1>4. /\ todo' \in [1..Cardinality(S) -> S]
      /\ \A n, m \in 1..Cardinality(S) : n # m => todo'[n] # todo'[m]
  BY <1>2 DEF SetToSeqs
<1>5. todo' \in Seq(Ids) /\ DOMAIN todo' = 1..Cardinality(S) /\ \A n \in DOMAIN todo' : todo'[n] \in S
  BY <1>3, <1>4
<1>6. /\ ChainInv' /\ UNCHANGED <<file, kept, call>> /\ Records' = Records
  <2>1. UNCHANGED chainButFaults /\ UNCHANGED faults /\ UNCHANGED <<file, kept, call>>
    BY <1>1 DEF chainVars, chainButFaults
  <2> QED BY <2>1, ChainLeft, SameRecords
<1>7. TypeOK'
  BY <1>1, <1>5, <1>6 DEF Inv, TypeOK, ChainInv, spoolVars, Begin
<1>8. \A j \in Ids : Sound(j)'
  BY <1>1, <1>6, SoundUnmoved, IdleWhileDown DEF spoolVars
<1>9. AppendsOwn'
  <2>1. \A w \in Writers : call'[w] = Idle
    BY <1>1, <1>6, IdleWhileDown, AcceptanceAssumption
  <2> QED BY <2>1, OwnWhileIdle
<1>10. StartAlone'
  <2>1. \A i \in Ids : ~InFlight(i)'
    BY <1>1 DEF Inv, SpoolInv, StartAlone, InFlight
  <2>2. server' = "start" <=> todo' # <<>>
    BY <1>1
  <2>3. Staged' = Staged
    BY <1>1 DEF Staged, spoolVars
  <2>4. todo' # <<>> => Head(todo') = todo'[1] /\ Head(todo') \in Ids
    BY <1>5, HeadIn
  <2>5. todo' # <<>> /\ step' # "abandon" => class'[Head(todo')] = "none"
    BY <1>1, <2>4 DEF Begin, Evidence
  <2> QED BY <1>4, <1>5, <2>1, <2>2, <2>3, <2>5 DEF StartAlone
<1> QED BY <1>6, <1>7, <1>8, <1>9, <1>10 DEF Inv, SpoolInv

\* The start goes on to discard a leftover only when its end was confirmed.
LEMMA StartAppendedStep ==
  ASSUME Inv, StartAppended
  PROVE  Inv'
<1>1. /\ server = "start" /\ call["start"].result # "none" /\ Took("start")
      /\ UNCHANGED <<chainButCall, spoolVars, sub, class, told, doubt, crashes>>
      /\ "start" \in Writers
  BY AcceptanceAssumption DEF StartAppended
<1>2. /\ ChainInv' /\ UNCHANGED <<file, kept>> /\ call'["start"] = Idle
      /\ \A v \in Writers : v # "start" => call'[v] = call[v]
  BY <1>1, TookStep DEF Inv
<1>3. Records' = Records
  BY <1>2, SameRecords
<1>4. \/ call["start"].result = "ok" /\ step' = "json" /\ UNCHANGED <<server, todo>>
      \/ server' = "down" /\ todo' = <<>> /\ step' = "abandon"
  BY DEF StartAppended, FailedStart
<1>5. TypeOK'
  <2>0. <<>> \in Seq(Ids)
    BY EmptySeq
  <2>1. todo' \in Seq(Ids) /\ server' \in {"up", "start", "down"}
        /\ step' \in {"abandon", "json", "eml"}
    BY <2>0, <1>4 DEF Inv, TypeOK
  <2> QED BY <1>1, <1>2, <2>1 DEF Inv, TypeOK, ChainInv, spoolVars
<1>6. \A i \in Ids : i \in Writers /\ i # "start" /\ call[i] = Idle
  BY <1>1, IdleWhileDown
<1>7. \A j \in Ids : Sound(j)'
  BY <1>1, <1>2, <1>3, <1>6, SoundUnmoved DEF spoolVars
<1>8. AppendsOwn'
  <2>1. \A w \in Writers : call'[w] = Idle
    BY <1>2, <1>6, AcceptanceAssumption
  <2> QED BY <2>1, OwnWhileIdle
<1>9. StartAlone'
  <2>1. \A i \in Ids : ~InFlight(i)'
    BY <1>1 DEF Inv, SpoolInv, StartAlone, InFlight
  <2>2. Staged' = Staged
    BY <1>1 DEF Staged, spoolVars
  <2>3. CASE server' = "down" /\ todo' = <<>> /\ step' = "abandon"
    BY <2>1, <2>3 DEF StartAlone
  <2>4. CASE call["start"].result = "ok" /\ step' = "json" /\ UNCHANGED <<server, todo>>
    <3>1. call["start"] # Idle
      BY <1>1 DEF Idle
    <3>2. step = "abandon" /\ EntryOf("start") = Abandoned(Head(todo))
      BY <1>1, <3>1 DEF Inv, SpoolInv, AppendsOwn, Wants, EntryOf
    <3>3. InChain(Abandoned(Head(todo)))
      BY <1>1, <2>4, <3>2 DEF Inv, SpoolInv, AppendsOwn, Confirmed, InChain
    <3>4. InChain(Abandoned(Head(todo)))'
      BY <1>3, <2>4, <3>3 DEF InChain, Abandoned
    <3> QED BY <1>1, <2>1, <2>2, <2>4, <3>2, <3>4 DEF Inv, SpoolInv, StartAlone
  <2> QED BY <1>4, <2>3, <2>4
<1> QED BY <1>2, <1>5, <1>7, <1>8, <1>9 DEF Inv, SpoolInv

\* A leftover's envelope goes only after its end is recorded, or needs none.
LEMMA DiscardJsonStep ==
  ASSUME Inv, DiscardJson
  PROVE  Inv'
<1>1. /\ server = "start" /\ step = "json" /\ todo # <<>>
      /\ UNCHANGED <<chainButFaults, tmpEml, newEml, newJson, sub, class, told, doubt, crashes>>
      /\ UNCHANGED faults \/ Fail
      /\ \/ tmpJson' = tmpJson \ {Head(todo)} /\ step' = "eml" /\ UNCHANGED <<server, todo>>
         \/ server' = "down" /\ todo' = <<>> /\ step' = "abandon" /\ tmpJson' = tmpJson
  BY DEF DiscardJson, FailedStart, Inv, SpoolInv, StartAlone
<1>2. PICK h \in Ids : h = Head(todo)
  BY <1>1, HeadIn DEF Inv, TypeOK
<1>3. /\ ChainInv' /\ ChainTypeOK' /\ UNCHANGED <<file, kept, call>>
      /\ \A i \in Ids : /\ InChain(Accepted(i))' <=> InChain(Accepted(i))
                        /\ InChain(Abandoned(i))' <=> InChain(Abandoned(i))
                        /\ Confirmed(Accepted(i))' <=> Confirmed(Accepted(i))
  BY <1>1, ChainLeft
<1>4. TypeOK'
  <2>0. <<>> \in Seq(Ids)
    BY EmptySeq
  <2>1. todo' \in Seq(Ids) /\ server' \in {"up", "start", "down"}
        /\ step' \in {"abandon", "json", "eml"} /\ tmpJson' \subseteq Ids
    BY <2>0, <1>1 DEF Inv, TypeOK
  <2> QED BY <1>1, <1>3, <2>1 DEF Inv, TypeOK
<1>5. \A i \in Ids : i \in Writers /\ i # "start" /\ call[i] = Idle /\ ~InFlight(i)
  BY <1>1, IdleWhileDown DEF Inv, SpoolInv, StartAlone
<1>6. AppendsOwn'
  <2>1. \A w \in Writers : call'[w] = Idle
    BY <1>1, <1>3, <1>5, IdleWhileDown, AcceptanceAssumption
  <2> QED BY <2>1, OwnWhileIdle
<1>7. class[h] = "none" \/ InChain(Abandoned(h))
  <2>1. class[Head(todo)] = "none" \/ InChain(Abandoned(Head(todo)))
    BY <1>1 DEF Inv, SpoolInv, StartAlone
  <2> QED BY <1>2, <2>1
<1>8. ASSUME NEW j \in Ids PROVE Sound(j)'
  <2>1. Placed(j) /\ PassedRecorded(j) /\ AcceptedWhere(j) /\ AbandonedWhere(j) /\ Traced(j)
    BY DEF Inv, SpoolInv, Sound
  <2>2. /\ j \in tmpJson' => j \in tmpJson
        /\ j # h => (j \in tmpJson' <=> j \in tmpJson)
        /\ sub[j] \in {"idle", "done", "lost"}
    BY <1>1, <1>2, <1>5 DEF InFlight
  <2>3. Placed(j)' /\ PassedRecorded(j)'
    BY <1>1, <1>3, <2>1, <2>2 DEF Placed, PassedRecorded, Staged
  <2>4. AcceptedWhere(j)' /\ AbandonedWhere(j)'
    BY <1>1, <1>3, <2>1, <2>2 DEF AcceptedWhere, AbandonedWhere
  <2>5. Traced(j)'
    BY <1>1, <1>3, <1>7, <2>1, <2>2 DEF Traced, AcceptedWhere
  <2> QED BY <2>3, <2>4, <2>5 DEF Sound
<1>9. StartAlone'
  <2>1. \A i \in Ids : ~InFlight(i)'
    BY <1>1, <1>5 DEF InFlight
  <2>2. CASE server' = "down" /\ todo' = <<>>
    BY <2>1, <2>2 DEF StartAlone
  <2>3. CASE tmpJson' = tmpJson \ {Head(todo)} /\ step' = "eml" /\ UNCHANGED <<server, todo>>
    <3>1. /\ \A n \in DOMAIN todo : todo[n] \in Staged
          /\ \A n, m \in DOMAIN todo : n # m => todo[n] # todo[m]
      BY <1>1 DEF Inv, SpoolInv, StartAlone
    <3>2. 1 \in DOMAIN todo /\ Head(todo) = todo[1]
      BY <1>1, HeadIn DEF Inv, TypeOK
    <3>3. \A n \in DOMAIN todo : n # 1 => todo[n] \in Staged'
      BY <1>1, <2>3, <3>1, <3>2 DEF Staged
    <3>4. class'[Head(todo')] = "none" \/ InChain(Abandoned(Head(todo)))'
      <4>1. class[h] = "none" \/ InChain(Abandoned(h))'
        BY <1>3, <1>7
      <4>2. Head(todo)' = h
        BY <1>2, <2>3
      <4>3. InChain(Abandoned(h))' => InChain(Abandoned(Head(todo)))'
        BY <4>2 DEF InChain, Abandoned
      <4> QED BY <1>1, <4>1, <4>2, <4>3
    <3> QED BY <1>1, <2>1, <2>3, <3>1, <3>3, <3>4 DEF StartAlone
  <2> QED BY <1>1, <2>2, <2>3
<1> QED BY <1>3, <1>4, <1>6, <1>8, <1>9 DEF Inv, SpoolInv

\* With its message the leftover is done with, and the next one is begun.
LEMMA DiscardEmlStep ==
  ASSUME Inv, DiscardEml
  PROVE  Inv'
<1>1. /\ server = "start" /\ step = "eml" /\ todo # <<>> /\ todo \in Seq(Ids)
      /\ UNCHANGED <<chainButFaults, tmpJson, newEml, newJson, sub, class, told, doubt, crashes>>
      /\ UNCHANGED faults \/ Fail
      /\ \/ /\ tmpEml' = tmpEml \ {Head(todo)} /\ todo' = Tail(todo) /\ step' = Begin(todo')
            /\ server' = IF todo' = <<>> THEN "up" ELSE "start"
         \/ server' = "down" /\ todo' = <<>> /\ step' = "abandon" /\ tmpEml' = tmpEml
  BY DEF DiscardEml, FailedStart, Inv, TypeOK, SpoolInv, StartAlone
<1>2. /\ 1 \in DOMAIN todo /\ Head(todo) = todo[1] /\ Tail(todo) \in Seq(Ids)
      /\ \A n \in DOMAIN Tail(todo) :
           n + 1 \in DOMAIN todo /\ n + 1 # 1 /\ Tail(todo)[n] = todo[n + 1]
  BY <1>1, HeadIn
<1>3. /\ ChainInv' /\ ChainTypeOK' /\ UNCHANGED <<file, kept, call>>
      /\ \A i \in Ids : /\ InChain(Accepted(i))' <=> InChain(Accepted(i))
                        /\ InChain(Abandoned(i))' <=> InChain(Abandoned(i))
                        /\ Confirmed(Accepted(i))' <=> Confirmed(Accepted(i))
  BY <1>1, ChainLeft
<1>4. TypeOK'
  <2>0. <<>> \in Seq(Ids)
    BY EmptySeq
  <2>1. todo' \in Seq(Ids) /\ server' \in {"up", "start", "down"}
        /\ step' \in {"abandon", "json", "eml"} /\ tmpEml' \subseteq Ids
    BY <2>0, <1>1, <1>2 DEF Inv, TypeOK, Begin
  <2> QED BY <1>1, <1>3, <2>1 DEF Inv, TypeOK
<1>5. \A i \in Ids : i \in Writers /\ i # "start" /\ call[i] = Idle /\ ~InFlight(i)
  BY <1>1, IdleWhileDown DEF Inv, SpoolInv, StartAlone
<1>6. AppendsOwn'
  <2>1. \A w \in Writers : call'[w] = Idle
    BY <1>1, <1>3, <1>5, IdleWhileDown, AcceptanceAssumption
  <2> QED BY <2>1, OwnWhileIdle
<1>7. ASSUME NEW j \in Ids PROVE Sound(j)'
  <2>1. Placed(j) /\ PassedRecorded(j) /\ AcceptedWhere(j) /\ AbandonedWhere(j) /\ Traced(j)
    BY DEF Inv, SpoolInv, Sound
  <2>2. (j \in tmpEml' => j \in tmpEml) /\ sub[j] \in {"idle", "done", "lost"}
    BY <1>1, <1>5 DEF InFlight
  <2>3. Placed(j)' /\ PassedRecorded(j)'
    BY <1>1, <1>3, <2>1, <2>2 DEF Placed, PassedRecorded, Staged
  <2>4. AcceptedWhere(j)' /\ AbandonedWhere(j)' /\ Traced(j)'
    BY <1>1, <1>3, <2>1, <2>2 DEF AcceptedWhere, AbandonedWhere, Traced
  <2> QED BY <2>3, <2>4 DEF Sound
<1>8. StartAlone'
  <2>1. \A i \in Ids : ~InFlight(i)'
    BY <1>1, <1>5 DEF InFlight
  <2>2. CASE server' = "down" /\ todo' = <<>>
    BY <2>1, <2>2 DEF StartAlone
  <2>3. CASE /\ tmpEml' = tmpEml \ {Head(todo)} /\ todo' = Tail(todo) /\ step' = Begin(todo')
             /\ server' = IF todo' = <<>> THEN "up" ELSE "start"
    <3>1. /\ \A n \in DOMAIN todo : n # 1 => todo[n] \in Staged /\ todo[n] # todo[1]
          /\ \A n, m \in DOMAIN todo : n # m => todo[n] # todo[m]
      BY <1>1, <1>2 DEF Inv, SpoolInv, StartAlone
    <3>2. \A n \in DOMAIN todo' : todo'[n] \in Staged'
      BY <1>1, <1>2, <2>3, <3>1 DEF Staged
    <3>3. ASSUME NEW n \in DOMAIN todo', NEW m \in DOMAIN todo', n # m PROVE todo'[n] # todo'[m]
      <4>1. n \in Int /\ m \in Int
        BY <1>2, <2>3
      <4>2. n + 1 # m + 1
        BY <3>3, <4>1
      <4> QED BY <1>2, <2>3, <3>1, <4>2
    <3>4. todo' # <<>> => Head(todo') \in Ids
      BY <1>4, HeadIn DEF TypeOK
    <3>5. todo' # <<>> /\ step' # "abandon" => class'[Head(todo')] = "none"
      BY <1>1, <2>3, <3>4 DEF Begin, Evidence
    <3> QED BY <2>1, <2>3, <3>2, <3>3, <3>5 DEF StartAlone
  <2> QED BY <1>1, <2>2, <2>3
<1> QED BY <1>3, <1>4, <1>6, <1>7, <1>8 DEF Inv, SpoolInv

\* A step beside the spool: the day passes, or one is sealed.
LEMMA BesideStep ==
  ASSUME Inv, SealDay \/ Time
  PROVE  Inv'
<1>1. UNCHANGED <<spoolVars, sub, class, told, server, todo, step, doubt, crashes>>
  BY DEF SealDay, Time, startVars
<1>2. ChainInv' /\ UNCHANGED <<file, kept, call>>
  BY SealStep, TickStep DEF SealDay, Time, Inv
<1>3. Records' = Records
  BY <1>2, SameRecords
<1>4. TypeOK'
  BY <1>1, <1>2 DEF Inv, TypeOK, ChainInv, spoolVars
<1>5. \A j \in Ids : Sound(j)'
  BY <1>1, <1>2, <1>3, SoundUnmoved DEF spoolVars
<1>6. AppendsOwn'
  <2>1. ASSUME NEW w \in Writers
        PROVE  /\ call'[w] # Idle => Wants(w)'
               /\ call'[w].at = "head" => Last(file'[call'[w].now]).entry = EntryOf(w)'
               /\ call'[w].result = "ok" => Confirmed(EntryOf(w))'
    <3>1. (Wants(w)' <=> Wants(w)) /\ EntryOf(w)' = EntryOf(w)
      BY <1>1 DEF Wants, EntryOf
    <3>2. call[w] # Idle => Wants(w)
      BY DEF Inv, SpoolInv, AppendsOwn
    <3> QED BY <1>2, <1>3, <3>1, <3>2, OwnStays DEF Inv, SpoolInv
  <2> QED BY <2>1 DEF AppendsOwn
<1>7. StartAlone'
  <2>1. InChain(Abandoned(Head(todo))) => InChain(Abandoned(Head(todo)))'
    BY <1>1, <1>3 DEF InChain, Abandoned
  <2> QED BY <1>1, <2>1 DEF Inv, SpoolInv, StartAlone, InFlight, Staged, spoolVars
<1> QED BY <1>2, <1>4, <1>5, <1>6, <1>7 DEF Inv, SpoolInv

\* The server stops between submissions.
LEMMA StopStep ==
  ASSUME Inv, Stop
  PROVE  Inv'
<1>1. /\ server = "up" /\ server' = "down" /\ \A i \in Ids : ~InFlight(i)
      /\ UNCHANGED <<chainVars, spoolVars, sub, class, told, todo, step, doubt, crashes>>
  BY DEF Stop
<1>2. UNCHANGED chainButFaults /\ UNCHANGED faults
  BY <1>1 DEF chainVars, chainButFaults
<1>3. ChainInv' /\ UNCHANGED <<file, kept, call>>
  BY <1>2, ChainLeft
<1>4. Records' = Records
  BY <1>3, SameRecords
<1>5. TypeOK'
  BY <1>1, <1>3 DEF Inv, TypeOK, ChainInv, spoolVars
<1>6. \A j \in Ids : Sound(j)'
  BY <1>1, <1>3, <1>4, SoundUnmoved DEF spoolVars
<1>7. AppendsOwn'
  <2>1. \A w \in Writers : ~Wants(w)
    BY <1>1, AcceptanceAssumption DEF Wants, InFlight
  <2>2. \A w \in Writers : call'[w] = Idle
    BY <1>3, <2>1 DEF Inv, SpoolInv, AppendsOwn
  <2> QED BY <2>2, OwnWhileIdle
<1>8. StartAlone'
  <2>1. todo = <<>> /\ \A i \in Ids : ~InFlight(i)'
    BY <1>1 DEF Inv, SpoolInv, StartAlone, InFlight
  <2> QED BY <1>1, <2>1 DEF StartAlone
<1> QED BY <1>3, <1>5, <1>6, <1>7, <1>8 DEF Inv, SpoolInv

\* The server dies at any step of any submission: what was under way is lost,
\* with its files where they were and its record in the chain or not.
LEMMA CrashStep ==
  ASSUME Inv, Crash
  PROVE  Inv'
<1>1. /\ crashes < MaxCrashes /\ crashes' = crashes + 1 /\ Die(Writers)
      /\ sub' = [i \in Ids |-> IF InFlight(i) THEN "lost" ELSE sub[i]]
      /\ server' = "down" /\ todo' = <<>> /\ step' = "abandon"
      /\ UNCHANGED <<spoolVars, class, told, doubt>>
  BY DEF Crash, FailedStart
<1>2. /\ ChainInv' /\ file' = file /\ kept' = kept
      /\ \A w \in Writers : call'[w] = Idle
  BY <1>1, DieStep DEF Inv
<1>3. Records' = Records
  BY <1>2, SameRecords
<1>4. TypeOK'
  <2>1. <<>> \in Seq(Ids)
    BY EmptySeq
  <2>2. crashes' \in 0..MaxCrashes
    BY <1>1, AcceptanceAssumption DEF Inv, TypeOK
  <2>3. sub' \in [Ids -> Steps]
    BY <1>1 DEF Inv, TypeOK, Steps
  <2> QED BY <1>1, <1>2, <2>1, <2>2, <2>3 DEF Inv, TypeOK, ChainInv, spoolVars
<1>5. ASSUME NEW j \in Ids PROVE Sound(j)'
  <2>1. /\ Placed(j) /\ PassedRecorded(j) /\ AcceptedWhere(j) /\ AbandonedWhere(j) /\ Traced(j)
        /\ sub[j] \in Steps
    BY DEF Inv, SpoolInv, Sound, TypeOK
  <2>2. \/ sub'[j] = "lost" /\ sub[j] \notin {"idle", "done", "lost"}
        \/ sub'[j] = sub[j] /\ sub[j] \in {"idle", "done", "lost"}
    BY <1>1 DEF InFlight
  <2>3. /\ InChain(Accepted(j))' <=> InChain(Accepted(j))
        /\ InChain(Abandoned(j))' <=> InChain(Abandoned(j))
        /\ Confirmed(Accepted(j))' <=> Confirmed(Accepted(j))
    BY <1>2, <1>3, EntriesStay
  <2>4. Placed(j)' /\ PassedRecorded(j)'
    BY <1>1, <2>1, <2>2, <2>3 DEF Placed, PassedRecorded, Staged, spoolVars
  <2>5. AcceptedWhere(j)' /\ AbandonedWhere(j)' /\ Traced(j)'
    BY <1>1, <2>1, <2>2, <2>3 DEF AcceptedWhere, AbandonedWhere, Traced, spoolVars
  <2> QED BY <2>4, <2>5 DEF Sound
<1>6. AppendsOwn'
  BY <1>2, OwnWhileIdle
<1>7. StartAlone'
  <2>1. \A i \in Ids : ~InFlight(i)'
    BY <1>1 DEF InFlight
  <2> QED BY <1>1, <2>1 DEF StartAlone
<1> QED BY <1>2, <1>4, <1>5, <1>6, <1>7 DEF Inv, SpoolInv
-----------------------------------------------------------------------------
(***************************************************************************)
(* The theorems.                                                           *)
(***************************************************************************)
\* Nothing is staged, queued or recorded at first.
LEMMA InvInit == Init => Inv
<1> SUFFICES ASSUME Init PROVE Inv
  OBVIOUS
<1> USE DEF Init, ChainInit
<1>1. ChainTypeOK
  BY ChainAssumption DEF ChainTypeOK, Idle, Call, Start, Position, Results, NoSeal, Checkpoint, Days
<1>2. Records = {} /\ Full = {}
  <2>1. \A d \in Days : Len(file[d]) = 0
    OBVIOUS
  <2>2. \A r : r \notin Records
    BY <1>1, <2>1, RecordsAre
  <2> QED BY <2>2 DEF Full
<1>3. \A w \in Writers : call[w] = Idle /\ call[w].at = "idle" /\ call[w].result = "none"
  BY DEF Idle
<1>4. FilesMade /\ Locked /\ AtEnd
  BY <1>2, <1>3 DEF FilesMade, Locked, AtEnd
<1>5. ChainLinear /\ SealedFrozen
  BY DEF ChainLinear, SealedFrozen
<1>6. Numbered /\ ConfirmedKept /\ HeadNamesRecord
  BY <1>2 DEF Numbered, ConfirmedKept, HeadNamesRecord
<1>7. AppendsOwn
  BY <1>3 DEF AppendsOwn
<1>8. StartAlone
  BY DEF StartAlone
<1>9. ASSUME NEW i \in Ids PROVE Sound(i)
  <2>1. ~InChain(Accepted(i)) /\ ~InChain(Abandoned(i))
    BY <1>2 DEF InChain
  <2>2. Placed(i) /\ PassedRecorded(i)
    BY DEF Placed, PassedRecorded, Staged
  <2> QED BY <2>1, <2>2 DEF Sound, AcceptedWhere, AbandonedWhere, Traced
<1>10. TypeOK
  <2>1. <<>> \in Seq(Ids)
    BY EmptySeq
  <2> QED BY <1>1, <2>1, AcceptanceAssumption DEF TypeOK, Steps
<1> QED BY <1>1, <1>4, <1>5, <1>6, <1>7, <1>8, <1>9, <1>10 DEF Inv, ChainInv, SpoolInv

\* A step that changes nothing.
LEMMA InvStutter ==
  ASSUME Inv, UNCHANGED vars
  PROVE  Inv'
<1>1. /\ UNCHANGED <<chainVars, spoolVars, sub, class, told, server, todo, step, doubt, crashes>>
  BY DEF vars
<1>2. UNCHANGED chainButFaults /\ UNCHANGED faults /\ UNCHANGED <<file, kept, call>>
  BY <1>1 DEF chainVars, chainButFaults
<1>3. ChainInv' /\ Records' = Records
  BY <1>2, ChainLeft, SameRecords
<1>4. TypeOK'
  BY <1>1, <1>3 DEF Inv, TypeOK, ChainInv, spoolVars
<1>5. \A j \in Ids : Sound(j)'
  BY <1>1, <1>2, <1>3, SoundUnmoved DEF spoolVars
<1>6. AppendsOwn'
  BY <1>1, <1>2, <1>3 DEF Inv, SpoolInv, AppendsOwn, Wants, EntryOf, Confirmed
<1>7. StartAlone'
  <2>1. InChain(Abandoned(Head(todo))) => InChain(Abandoned(Head(todo)))'
    BY <1>1, <1>3 DEF InChain, Abandoned
  <2> QED BY <1>1, <2>1 DEF Inv, SpoolInv, StartAlone, InFlight, Staged, spoolVars
<1> QED BY <1>3, <1>4, <1>5, <1>6, <1>7 DEF Inv, SpoolInv

\* The invariant holds throughout: the chain's part because the lock is held
\* from the reading of the end to the head, the spool's because an append says
\* what its caller still wants said when it returns.
THEOREM InvHolds == Spec => []Inv
<1>1. Init => Inv
  BY InvInit
<1>2. Inv /\ [Next]_vars => Inv'
  <2> SUFFICES ASSUME Inv, [Next]_vars PROVE Inv'
    OBVIOUS
  <2>1. CASE \E i \in Ids : Submission(i)
    <3>1. PICK i \in Ids : Submission(i)
      BY <2>1
    <3> QED BY <3>1, StageEmlStep, StageJsonStep, HookDoneStep, UnstageStep, RenameStep,
               AbandonDoneStep DEF Submission
  <2>2. CASE \E w \in Writers : AppendOf(w)
    BY <2>2, AppendOfStep
  <2>3. CASE Restart
    BY <2>3, RestartStep
  <2>4. CASE StartAppended
    BY <2>4, StartAppendedStep
  <2>5. CASE DiscardJson
    BY <2>5, DiscardJsonStep
  <2>6. CASE DiscardEml
    BY <2>6, DiscardEmlStep
  <2>7. CASE Stop
    BY <2>7, StopStep
  <2>8. CASE Crash
    BY <2>8, CrashStep
  <2>9. CASE SealDay \/ Time
    BY <2>9, BesideStep
  <2>10. CASE UNCHANGED vars
    BY <2>10, InvStutter
  <2> QED BY <2>1, <2>2, <2>3, <2>4, <2>5, <2>6, <2>7, <2>8, <2>9, <2>10 DEF Next
<1> QED BY <1>1, <1>2, PTL DEF Spec

\* Type correctness.
THEOREM Types == Spec => []TypeOK
<1>1. Inv => TypeOK
  BY DEF Inv
<1> QED BY <1>1, InvHolds, PTL

\* Verification finds one chain, whatever crashed, failed or ran behind.
THEOREM OneChain == Spec => []ChainLinear
<1>1. Inv => ChainLinear
  BY DEF Inv, ChainInv
<1> QED BY <1>1, InvHolds, PTL

\* A sealed day never changes.
THEOREM SealsHold == Spec => []SealedFrozen
<1>1. Inv => SealedFrozen
  BY DEF Inv, ChainInv
<1> QED BY <1>1, InvHolds, PTL

\* What append confirmed stays in the chain.
THEOREM NothingCutOff == Spec => []ConfirmedKept
<1>1. Inv => ConfirmedKept
  BY DEF Inv, ChainInv
<1> QED BY <1>1, InvHolds, PTL

\* The head never leads the chain, nor lags what was confirmed.
THEOREM HeadSound == Spec => []HeadNamesRecord
<1>1. Inv => HeadNamesRecord
  BY DEF Inv, ChainInv
<1> QED BY <1>1, InvHolds, PTL

\* Mandatory mail is queued with a confirmed record only.
THEOREM QueuedRecorded == Spec => []NothingUnrecorded
<1>1. Inv => NothingUnrecorded
  <2> SUFFICES ASSUME Inv, NEW i \in newJson, class[i] = "mandatory"
               PROVE  \E r \in Records : r.hash \in kept /\ r.entry = Accepted(i)
    BY DEF NothingUnrecorded
  <2>1. i \in Ids /\ PassedRecorded(i)
    BY DEF Inv, TypeOK, SpoolInv, Sound
  <2> QED BY <2>1 DEF PassedRecorded, Confirmed
<1> QED BY <1>1, InvHolds, PTL

\* Every acceptance in the chain has an end, or will have.
THEOREM EveryAcceptanceTraced == Spec => []AcceptanceTraced
<1>1. Inv => AcceptanceTraced
  BY DEF Inv, SpoolInv, Sound, Traced, AcceptanceTraced, Staged
<1> QED BY <1>1, InvHolds, PTL

\* What is queued is whole, and what the client was told is true.
THEOREM AnswersTrue == Spec => []QueuedWhole
<1>1. Inv => QueuedWhole
  <2> SUFFICES ASSUME Inv PROVE QueuedWhole
    OBVIOUS
  <2>1. newJson \subseteq Ids /\ \A i \in Ids : Placed(i)
    BY DEF Inv, TypeOK, SpoolInv, Sound
  <2> QED BY <2>1 DEF Placed, QueuedWhole
<1> QED BY <1>1, InvHolds, PTL

\* What is recorded as abandoned is not queued and was not called accepted.
THEOREM AbandonedStaysOut == Spec => []AbandonedNeverQueued
<1>1. Inv => AbandonedNeverQueued
  <2> SUFFICES ASSUME Inv PROVE AbandonedNeverQueued
    OBVIOUS
  <2>1. \A i \in Ids : Placed(i) /\ AbandonedWhere(i)
    BY DEF Inv, SpoolInv, Sound
  <2> QED BY <2>1 DEF Placed, AbandonedWhere, AbandonedNeverQueued
<1> QED BY <1>1, InvHolds, PTL
=============================================================================
