CONSTANTS
  t1 = t1  t2 = t2  t3 = t3
  b1 = b1  b2 = b2
  None = None
  Builders = {b1, b2}
  Tasks = {t1, t2}
  Kind <- SourceAndSlug
  Service <- Services
  Action <- Actions
  TaskTopic <- AllToBuilder
  BuilderTopic <- AllBuilder
  MaxTasks = 1
  Stoppable = {b1}
  MaxFaults = 1
SPECIFICATION Spec
INVARIANTS TypeOK SlotAccounting StopRecycles NoDuplicateRun NothingForgotten
CHECK_DEADLOCK FALSE
