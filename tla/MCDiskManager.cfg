SPECIFICATION FairSpec
CONSTANTS
  s1 = s1
  s2 = s2
  h1 = h1
  Sink = {s1, s2}
  Hash = {h1}
  Ops = {"AddTorrent", "RemoveTorrent", "SyncTorrent", "LoadBlock", "ProcessBlock"}
  max_capacity = 2
  MaxOps = 3
CHECK_DEADLOCK FALSE
INVARIANT
  NoReportAfterRemoval
PROPERTIES
  ImplementsLimiter
  EveryOperationAnswered
