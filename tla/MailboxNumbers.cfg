SPECIFICATION Spec
CONSTANTS
  Msgs <- MCMsgs
  Sessions = {s1}
  Flags = {"deleted"}
  Writers = {"deliver", "append"}
  NewFlags <- Plain
  Overlap = FALSE
  MaxOps = 1
  MaxCrashes = 0
INVARIANT ClientAgrees
