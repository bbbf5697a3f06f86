CONSTANTS
  t1 = t1  t2 = t2  t3 = t3
  None = None
  Tasks = {t1, t2, t3}
  TaskKind <- StartScaleStop
  Deployed = FALSE
  MaxTasks = 0
  MaxFaults = 1
  MaxRead = 1
  MaxLag = 1
SPECIFICATION FairSpec
INVARIANTS NoGhosts
PROPERTIES EveryTaskEnds StoreConverges
CHECK_DEADLOCK FALSE
