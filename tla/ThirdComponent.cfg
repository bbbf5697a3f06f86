CONSTANTS
  a = a  p1 = p1  p2 = p2
  None = None
  Addrs = {a}
  Probes = {p1, p2}
  Statuses <- Created
  FailureThreshold = 2
  SuccessThreshold = 1
  ChanCap = 1
  MaxGen = 2
  MaxLag = 1
  MaxSlot = 2
  Bounds <- Some
SPECIFICATION FairSpec
INVARIANTS TypeOK ReadyWasProbed PoolIsLive RemovalPending
PROPERTIES StatusFollows ProbersStop
CHECK_DEADLOCK FALSE
