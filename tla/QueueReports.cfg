SPECIFICATION Spec
INVARIANTS
  FailureTold
  RoundsExact
CONSTANTS
  m1 = m1  m2 = m2  r1 = r1  r2 = r2  r3 = r3  d1 = d1  d2 = d2
  a1 = a1  a2 = a2  u1 = u1  u2 = u2
  NoEntry = NoEntry  NoTalk = NoTalk
  Ids <- OneIds
  Rcpts <- ThreeRcpts
  Dests = {d1}
  Addrs <- TwoAddrs
  Senders = {u1}
  EntryOf <- ThreeEntry
  DestOf <- ThreeDest
  AddrOf <- ThreeAddr
  SenderOf <- OneSender
  Mandatory = {}
  NoDsn = {r2}
  Unparseable = {r3}
  Total = 2
  PerDomain = 1
  MaxAge = 2
  DelayAge = 1
  RetryWaits <- Waits1
  BackoffSteps <- Steps1
  MaxReports = 2
  ReportWait <- Wait1
  Replies = {"ok", "deferred", "toomany", "bad"}
  Sinks = {"queued", "refused", "gone"}
  OpKinds = {"hold", "release", "retry"}
  MaxTime = 2
  LastSubmit = 1
  MaxCrashes = 0
  MaxFaults = 1
  MaxOps = 2
