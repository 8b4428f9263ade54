SPECIFICATION Spec
CONSTANTS
  Domains <- TwoDomains
  LastDay = 4
  Interval = 2
  Overlap = 2
  Dual = TRUE
  MaxFaults = 1
  MaxCrashes = 1
  MaxAsks = 1
  MaxConfigs = 1
INVARIANT TypeOK
INVARIANT SignerVerifies
 
INVARIANT NothingOrphaned
INVARIANT BackupUsable
PROPERTY WithdrawalFinal
PROPERTY PendingEnds
PROPERTY RequestServed
