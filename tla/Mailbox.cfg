SPECIFICATION Spec
CONSTANTS
  Msgs <- MCMsgs
  Sessions = {s1, s2}
  Flags = {"deleted"}
  Writers = {"deliver"}
  NewFlags <- Flagged
  Overlap = FALSE
  MaxOps = 2
  MaxCrashes = 1
SYMMETRY SessionSymmetry
INVARIANT TypeOK
 
INVARIANT IndexSound
INVARIANT NumbersSound
 
