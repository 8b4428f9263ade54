SPECIFICATION FairSpec
PROPERTIES
  EventuallySettled
  OwedIsWritten
CONSTANTS
  m1 = m1  m2 = m2  r1 = r1  r2 = r2  r3 = r3  d1 = d1  d2 = d2
  a1 = a1  a2 = a2  u1 = u1  u2 = u2
  NoEntry = NoEntry  NoTalk = NoTalk
  Ids <- OneIds
  Rcpts <- OneRcpts
  Dests <- TwoDests
  Addrs <- TwoAddrs
  Senders = {u1}
  EntryOf <- OneEntry
  DestOf <- OneDest
  AddrOf <- OneAddr
  SenderOf <- OneSender
  Mandatory = {m1}
  NoDsn = {}
  Unparseable = {}
  Total = 1
  PerDomain = 1
  MaxAge = 2
  DelayAge = 1
  RetryWaits <- Waits1
  BackoffSteps <- Steps1
  MaxReports = 2
  ReportWait <- Wait1
  Replies = {"ok", "deferred"}
  Sinks = {"queued", "refused"}
  OpKinds = {}
  MaxTime = 2
  LastSubmit = 0
  MaxCrashes = 1
  MaxFaults = 1
  MaxOps = 0
