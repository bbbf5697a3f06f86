CONSTANTS
  a = a  p1 = p1  p2 = p2
  None = None
  Addrs = {a}
  Probes = {p1, p2}
  Statuses <- Created
  FailureThreshold = 1
  SuccessThreshold = 1
  ChanCap = 1
  MaxGen = 1
  MaxLag = 1
  MaxSlot = 1
  Bounds <- TwoFlips
SPECIFICATION FairSpec
PROPERTIES ReadyMeansPassed
CHECK_DEADLOCK FALSE
