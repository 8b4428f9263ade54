---------------------------- MODULE MCMailbox ----------------------------
(***************************************************************************)
(* Instances of Mailbox.  Message numbers are UUID order, so only the      *)
(* sessions are interchangeable.                                           *)
(***************************************************************************)
EXTENDS Mailbox, TLC

MCMsgs    == 1..2
Plain     == {{}}
Flagged   == {{}, {"deleted"}}

SessionSymmetry == Permutations(Sessions)
=============================================================================
