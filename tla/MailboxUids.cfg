SPECIFICATION Spec
CONSTANTS
  Msgs <- MCMsgs
  Sessions = {s1, s2}
  Flags = {"deleted"}
  Writers = {"deliver"}
  NewFlags <- Plain
  Overlap = TRUE
  MaxOps = 0
  MaxCrashes = 0
SYMMETRY SessionSymmetry
INVARIANT UidsUnique
