CONSTANTS
  t1 = t1  t2 = t2  t3 = t3
  b1 = b1  b2 = b2
  None = None
  Builders = {b1, b2}
  Tasks = {t1, t2, t3}
  Kind <- SourcesAndShare
  Service <- Services
  Action <- Upgrades
  TaskTopic <- AllToBuilder
  BuilderTopic <- AllBuilder
  MaxTasks = 1
  Stoppable = {}
  MaxFaults = 0
SPECIFICATION FairSpec
PROPERTIES EveryTaskFinishes EveryVersionAnnounced
CHECK_DEADLOCK FALSE
