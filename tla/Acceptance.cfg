SPECIFICATION Spec
CONSTANTS
  a = a
  b = b
  NoOne = NoOne
  Ids <- MCIds
  Writers <- MCWriters
  Entries <- MCEntries
  Classes = {"mandatory", "optional", "none"}
  Limit = 1
  LastDay = 2
  Behind = 1
  MaxFaults = 1
  MaxCrashes = 1
SYMMETRY IdSymmetry
INVARIANT TypeOK
 
INVARIANT SealedFrozen
INVARIANT ConfirmedKept
INVARIANT HeadNamesRecord
INVARIANT NothingUnrecorded
INVARIANT AcceptanceTraced
INVARIANT QueuedWhole
INVARIANT AbandonedNeverQueued
