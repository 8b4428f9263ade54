--------------------------- MODULE QueueContract ---------------------------
(***************************************************************************)
(* What the outbound queue of epistle promises about the mail it takes,    *)
(* and nothing of how: an entry enters the queue once and leaves it once;  *)
(* remote servers take copies for recipients that have no verdict; a       *)
(* verdict on a recipient is given once, is delivered only if a remote     *)
(* took the message, and for mail whose evidence is mandatory it is in the *)
(* evidence log or owed to it from that very step; an entry of such mail   *)
(* leaves only with everything it owes written.                            *)
(***************************************************************************)
EXTENDS Integers, TLAPS

CONSTANTS
  Ids,        \* messages
  Rcpts,      \* recipients of all messages
  EntryOf,    \* [Rcpts -> Ids]
  Mandatory   \* messages whose evidence is mandatory

VARIABLES
  place,    \* [Ids -> {"absent", "queued", "gone"}]
  verdict,  \* [Rcpts -> {"pending", "delivered", "failed"}]
  taken,    \* recipients a remote took the message for
  owed,     \* outcomes owed to the evidence log
  book      \* outcomes in the evidence log

promised == <<place, verdict, taken, owed, book>>

Decisions == {"delivered", "bounced", "expired", "suppressed"}
Kinds     == Decisions \cup {"canceled"}
Result(k) == IF k = "delivered" THEN "delivered" ELSE "failed"
Of(i)     == {r \in Rcpts : EntryOf[r] = i}
Open(i)   == {r \in Of(i) : verdict[r] = "pending"}

Init ==
  /\ place = [i \in Ids |-> "absent"] /\ verdict = [r \in Rcpts |-> "pending"]
  /\ taken = {} /\ owed = {} /\ book = {}

Enter(i) ==
  /\ place[i] = "absent" /\ place' = [place EXCEPT ![i] = "queued"]
  /\ UNCHANGED <<verdict, taken, owed, book>>

\* A remote takes the message for some recipients, while the message is
\* queued or after an operator removed it during the conversation.
Take(i) ==
  /\ place[i] # "absent"
  /\ \E S \in SUBSET Open(i) : taken' = taken \cup S
  /\ UNCHANGED <<place, verdict, owed, book>>

\* Some of the debts are written; of those, some are struck off.
Pay(debts) ==
  \E written \in SUBSET debts : \E struck \in SUBSET written :
    book' = book \cup written /\ owed' = debts \ struck

\* Verdicts on some recipients of a queued message, the outcomes owed at once.
Decide(i) ==
  /\ place[i] = "queued"
  /\ \E S \in SUBSET Open(i) : \E kind \in [S -> Decisions] :
       /\ \A r \in S : kind[r] = "delivered" => r \in taken
       /\ verdict' = [r \in Rcpts |-> IF r \in S THEN Result(kind[r]) ELSE verdict[r]]
       /\ Pay(owed \cup {<<r, kind[r]>> : r \in {x \in S : i \in Mandatory}})
  /\ UNCHANGED <<place, taken>>

Write == Pay(owed) /\ UNCHANGED <<place, verdict, taken>>

\* A removal records the cancellation of a recipient that has no verdict.
Cancel(i) ==
  /\ place[i] = "queued" /\ i \in Mandatory
  /\ \E r \in Open(i) : book' = book \cup {<<r, "canceled">>}
  /\ UNCHANGED <<place, verdict, taken, owed>>

\* The conversation of a removed message ends: its outcomes, which nothing
\* recorded before, go to the log as far as it takes them.
Late(i) ==
  /\ place[i] = "gone"
  /\ \E S \in SUBSET Open(i) : \E kind \in [S -> {"delivered", "bounced"}] :
       /\ \A r \in S : /\ kind[r] = "delivered" => r \in taken
                       /\ \A k \in Decisions : <<r, k>> \notin owed \cup book
       /\ book' = book \cup {<<r, kind[r]>> : r \in S}
  /\ UNCHANGED <<place, verdict, taken, owed>>

Settled(i) == \A r \in Of(i) : /\ \E k \in Kinds : <<r, k>> \in book
                               /\ \A k \in Kinds : <<r, k>> \notin owed

Leave(i) ==
  /\ place[i] = "queued" /\ (i \in Mandatory => Settled(i))
  /\ place' = [place EXCEPT ![i] = "gone"]
  /\ UNCHANGED <<verdict, taken, owed, book>>

Next == \/ Write
        \/ \E i \in Ids : Enter(i) \/ Take(i) \/ Decide(i) \/ Cancel(i) \/ Late(i) \/ Leave(i)

Spec == Init /\ [][Next]_promised
-----------------------------------------------------------------------------
(***************************************************************************)
(* What follows from the promise.                                          *)
(***************************************************************************)
ContractType ==
  /\ place \in [Ids -> {"absent", "queued", "gone"}]
  /\ verdict \in [Rcpts -> {"pending", "delivered", "failed"}]
  /\ taken \subseteq Rcpts

\* An outcome of mandatory mail is known to the log or owed to it.
Kept ==
  \A r \in Rcpts : EntryOf[r] \in Mandatory /\ verdict[r] # "pending" =>
    \E k \in Kinds : <<r, k>> \in owed \cup book

\* Mandatory mail that left the queue is in the log and owes nothing.
GoneSettled == \A i \in Ids : place[i] = "gone" /\ i \in Mandatory => Settled(i)

\* There is one verdict, and delivered is true.
OneVerdict ==
  \A r \in Rcpts : /\ \A k, l \in Decisions :
                        <<r, k>> \in owed \cup book /\ <<r, l>> \in owed \cup book => k = l
                   /\ <<r, "delivered">> \in owed \cup book => r \in taken

\* Only mail that was removed during its conversation has an outcome and no
\* verdict in the queue.
Undecided ==
  \A r \in Rcpts : verdict[r] = "pending" => \A k \in Decisions :
    <<r, k>> \in owed \cup book => place[EntryOf[r]] = "gone"

ContractInv == ContractType /\ Kept /\ GoneSettled /\ OneVerdict /\ Undecided

\* Paying moves debts to the log and loses none.
LEMMA PayKeeps ==
  ASSUME NEW debts, Pay(debts)
  PROVE  /\ owed' \cup book' = debts \cup book
         /\ book \subseteq book' /\ owed' \subseteq debts
BY DEF Pay

\* A verdict owes its outcome in the same step.
LEMMA DecideKeeps ==
  ASSUME ContractInv, NEW i \in Ids, Decide(i)
  PROVE  ContractInv'
<1>0. PICK S \in SUBSET Open(i) : \E kind \in [S -> Decisions] :
        /\ \A r \in S : kind[r] = "delivered" => r \in taken
        /\ verdict' = [r \in Rcpts |-> IF r \in S THEN Result(kind[r]) ELSE verdict[r]]
        /\ Pay(owed \cup {<<r, kind[r]>> : r \in {x \in S : i \in Mandatory}})
  BY DEF Decide
<1>1. PICK kind \in [S -> Decisions] :
        /\ \A r \in S : kind[r] = "delivered" => r \in taken
        /\ verdict' = [r \in Rcpts |-> IF r \in S THEN Result(kind[r]) ELSE verdict[r]]
        /\ Pay(owed \cup {<<r, kind[r]>> : r \in {x \in S : i \in Mandatory}})
  BY <1>0
<1> DEFINE noted == {<<r, kind[r]>> : r \in {x \in S : i \in Mandatory}}
<1>2. /\ owed' \cup book' = owed \cup noted \cup book
      /\ book \subseteq book' /\ owed' \subseteq owed \cup noted
  BY <1>1, PayKeeps
<1>3. /\ place[i] = "queued" /\ UNCHANGED <<place, taken>>
      /\ \A r \in S : r \in Rcpts /\ EntryOf[r] = i /\ verdict[r] = "pending"
  BY DEF Decide, Open, Of
<1>4. \A r \in Rcpts, k \in Decisions : <<r, k>> \in noted => r \in S /\ k = kind[r]
  OBVIOUS
<1>5. ContractType'
  <2>1. \A k \in Decisions : Result(k) \in {"pending", "delivered", "failed"}
    BY DEF Result
  <2> QED BY <1>1, <1>3, <2>1 DEF ContractInv, ContractType
<1>6. Kept'
  <2> SUFFICES ASSUME NEW r \in Rcpts, EntryOf[r] \in Mandatory, verdict'[r] # "pending"
               PROVE  \E k \in Kinds : <<r, k>> \in owed' \cup book'
    BY DEF Kept
  <2>1. CASE r \in S
    BY <1>2, <1>3, <2>1 DEF Kinds
  <2>2. CASE r \notin S
    BY <1>1, <1>2, <2>2 DEF ContractInv, Kept
  <2> QED BY <2>1, <2>2
<1>7. GoneSettled'
  <2> SUFFICES ASSUME NEW j \in Ids, place[j] = "gone", j \in Mandatory PROVE Settled(j)'
    BY <1>3 DEF GoneSettled
  <2>1. Settled(j) /\ j # i
    BY <1>3 DEF ContractInv, GoneSettled
  <2>2. \A r \in Of(j) : r \notin S
    BY <1>3, <2>1 DEF Of
  <2> QED BY <1>2, <2>1, <2>2 DEF Settled, Of
<1>8. \A r \in S, k \in Decisions : <<r, k>> \notin owed \cup book
  BY <1>3 DEF ContractInv, Undecided
<1>9. OneVerdict'
  <2>1. ASSUME NEW r \in Rcpts, NEW k \in Decisions, <<r, k>> \in owed' \cup book'
        PROVE  IF r \in S THEN k = kind[r] ELSE <<r, k>> \in owed \cup book
    BY <1>2, <1>4, <1>8, <2>1
  <2> QED BY <1>1, <1>3, <2>1 DEF ContractInv, OneVerdict, Decisions
<1>10. Undecided'
  <2> SUFFICES ASSUME NEW r \in Rcpts, verdict'[r] = "pending", NEW k \in Decisions,
                      <<r, k>> \in owed' \cup book'
               PROVE  place[EntryOf[r]] = "gone"
    BY <1>3 DEF Undecided
  <2>1. r \notin S
    <3>1. \A d \in Decisions : Result(d) # "pending"
      BY DEF Result
    <3> QED BY <1>1, <3>1
  <2> QED BY <1>1, <1>2, <1>4, <2>1 DEF ContractInv, Undecided
<1> QED BY <1>5, <1>6, <1>7, <1>9, <1>10 DEF ContractInv

\* The other steps.
LEMMA ContractStep ==
  ASSUME EntryOf \in [Rcpts -> Ids], ContractInv, Next
  PROVE  ContractInv'
<1>1. CASE Write
  <2>1. /\ owed' \cup book' = owed \cup book /\ book \subseteq book' /\ owed' \subseteq owed
        /\ UNCHANGED <<place, verdict, taken>>
    BY <1>1, PayKeeps DEF Write
  <2> QED BY <2>1 DEF ContractInv, ContractType, Kept, GoneSettled, OneVerdict, Undecided, Settled
<1>2. ASSUME NEW i \in Ids, Enter(i) PROVE ContractInv'
  <2> USE <1>2 DEF Enter, ContractInv
  <2>1. ContractType'
    BY DEF ContractType
  <2>2. Kept' /\ OneVerdict'
    BY DEF Kept, OneVerdict
  <2>3. GoneSettled' /\ Undecided'
    BY DEF ContractType, GoneSettled, Undecided, Settled
  <2> QED BY <2>1, <2>2, <2>3
<1>3. ASSUME NEW i \in Ids, Take(i) PROVE ContractInv'
  BY <1>3 DEF Take, Open, Of, ContractInv, ContractType, Kept, GoneSettled, OneVerdict, Undecided, Settled
<1>4. ASSUME NEW i \in Ids, Cancel(i) PROVE ContractInv'
  <2>1. PICK r \in Open(i) : book' = book \cup {<<r, "canceled">>}
    BY <1>4 DEF Cancel
  <2>2. UNCHANGED <<place, verdict, taken, owed>>
    BY <1>4 DEF Cancel
  <2> QED BY <2>1, <2>2 DEF ContractInv, ContractType, Kept, GoneSettled, OneVerdict, Undecided,
                            Settled, Decisions
<1>5. ASSUME NEW i \in Ids, Late(i) PROVE ContractInv'
  <2>0. PICK S \in SUBSET Open(i) : \E kind \in [S -> {"delivered", "bounced"}] :
          /\ \A r \in S : /\ kind[r] = "delivered" => r \in taken
                          /\ \A k \in Decisions : <<r, k>> \notin owed \cup book
          /\ book' = book \cup {<<r, kind[r]>> : r \in S}
    BY <1>5 DEF Late
  <2>1. PICK kind \in [S -> {"delivered", "bounced"}] :
          /\ \A r \in S : /\ kind[r] = "delivered" => r \in taken
                          /\ \A k \in Decisions : <<r, k>> \notin owed \cup book
          /\ book' = book \cup {<<r, kind[r]>> : r \in S}
    BY <2>0
  <2>2. /\ UNCHANGED <<place, verdict, taken, owed>> /\ place[i] = "gone"
        /\ \A r \in S : EntryOf[r] = i
    BY <1>5 DEF Late, Open, Of
  <2>3. OneVerdict'
    <3>1. ASSUME NEW r \in Rcpts, NEW k \in Decisions, <<r, k>> \in owed' \cup book'
          PROVE  IF r \in S THEN k = kind[r] ELSE <<r, k>> \in owed \cup book
      BY <2>1, <2>2, <3>1
    <3> QED BY <2>1, <2>2, <3>1 DEF ContractInv, OneVerdict, Decisions
  <2>4. Undecided'
    BY <2>1, <2>2 DEF ContractInv, Undecided
  <2>5. ContractType' /\ Kept' /\ GoneSettled'
    BY <2>1, <2>2 DEF ContractInv, ContractType, Kept, GoneSettled, Settled
  <2> QED BY <2>3, <2>4, <2>5 DEF ContractInv
<1>6. ASSUME NEW i \in Ids, Leave(i) PROVE ContractInv'
  <2> USE <1>6 DEF Leave, ContractInv
  <2>1. ContractType'
    BY DEF ContractType
  <2>2. Kept' /\ OneVerdict'
    BY DEF Kept, OneVerdict
  <2>3. GoneSettled' /\ Undecided'
    BY DEF ContractType, GoneSettled, Undecided, Settled
  <2> QED BY <2>1, <2>2, <2>3
<1> QED BY <1>1, <1>2, <1>3, <1>4, <1>5, <1>6, DecideKeeps DEF Next

\* Whatever keeps the contract loses no outcome, settles what leaves the
\* queue, and gives one true verdict.
THEOREM ContractSafe ==
  ASSUME EntryOf \in [Rcpts -> Ids]
  PROVE  Spec => []ContractInv
<1>1. Init => ContractInv
  BY DEF Init, ContractInv, ContractType, Kept, GoneSettled, OneVerdict, Undecided
<1>2. ContractInv /\ UNCHANGED promised => ContractInv'
  BY DEF promised, ContractInv, ContractType, Kept, GoneSettled, OneVerdict, Undecided, Settled
<1>3. ContractInv /\ [Next]_promised => ContractInv'
  BY <1>2, ContractStep
<1> QED BY <1>1, <1>3, PTL DEF Spec

=============================================================================
