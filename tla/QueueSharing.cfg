SPECIFICATION Spec
INVARIANTS
  TypeOK
  OneConversation
  ClaimsExact
  ScanFresh
  HoldsCover
CONSTANTS
  m1 = m1  m2 = m2  r1 = r1  r2 = r2  r3 = r3  d1 = d1  d2 = d2
  a1 = a1  a2 = a2  u1 = u1  u2 = u2
  NoEntry = NoEntry  NoTalk = NoTalk
  Ids <- TwoIds
  Rcpts <- ThreeRcpts
  Dests <- TwoDests
  Addrs <- TwoAddrs
  Senders = {u1, u2}
  EntryOf <- TwoEntry
  DestOf <- CrossDest
  AddrOf <- ThreeAddr
  SenderOf <- TwoSenders
  Mandatory = {}
  NoDsn = {}
  Unparseable = {}
  Total = 3
  PerDomain = 1
  MaxAge = 2
  DelayAge = 1
  RetryWaits <- Waits1
  BackoffSteps <- Steps12
  MaxReports = 2
  ReportWait <- Wait1
  Replies = {"ok", "slow"}
  Sinks = {"queued"}
  OpKinds = {"releasedest"}
  MaxTime = 2
  LastSubmit = 0
  MaxCrashes = 0
  MaxFaults = 0
  MaxOps = 1
