CONSTANTS
  t1 = t1  t2 = t2  t3 = t3
  None = None
  Tasks = {t1, t2}
  TaskKind <- RestartUpgrade
  Deployed = TRUE
  MaxTasks = 1
  MaxFaults = 0
  MaxRead = 1
  MaxLag = 1
SPECIFICATION Spec
INVARIANTS TypeOK LatestDeployed
CHECK_DEADLOCK FALSE
