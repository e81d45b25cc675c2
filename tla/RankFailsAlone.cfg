SPECIFICATION FairSpec
CONSTANTS
  Requests = {r1, r2}
  PreSlots = {p1}
  PoolSlots = {s1}
  QueueSize = 1
  MaxErrors = 2
  Others = {1}
  FailAlone = {0}
  MaxWork = 2
  MaxAhead = 1
PROPERTIES
  OthersDoNotHang
CHECK_DEADLOCK FALSE
