CONSTANTS
  u1 = u1
  u2 = u2
  None = None
  Users = {u1, u2}
  MaxHandles = 4
  Cap = 1
  MaxMsgs = 2
  Late = {}
  MaxFails = 1
  MaxBreaks = 1
SPECIFICATION FairSpec
CHECK_DEADLOCK FALSE
INVARIANTS TypeOK CurrentIsLive HandlesBounded
PROPERTIES Drains
