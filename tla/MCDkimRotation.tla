--------------------------- MODULE MCDkimRotation ---------------------------
(***************************************************************************)
(* Instances of DkimRotation.                                              *)
(***************************************************************************)
EXTENDS DkimRotation, TLC

TwoDomains == {1, 2}
=============================================================================
