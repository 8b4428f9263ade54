---------------------------- MODULE MCAcceptance ----------------------------
(***************************************************************************)
(* An instance of Acceptance: the submissions are interchangeable.         *)
(***************************************************************************)
EXTENDS Acceptance, TLC

CONSTANTS a, b

MCIds      == {a, b}
MCWriters  == {a, b, "start"}
MCEntries  == [kind : {"accepted", "abandoned"}, id : MCIds]
IdSymmetry == Permutations(MCIds)
=============================================================================
