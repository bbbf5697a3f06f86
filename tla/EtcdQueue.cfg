CONSTANTS
  m1 = m1  m2 = m2
  s1 = s1  s2 = s2
  h1 = h1  h2 = h2
  Topics = {"builder"}
  Messages = {m1, m2}
  Stamps = {s1, s2}
  Handlers = {h1, h2}
  MsgTopic <- OneTopic
  MsgApi <- MixedApis
  ClientTopic <- OneTopicClients
  ClientApi <- GrpcClients
  Covers <- PrefixFree
  MaxFaults = 2
SPECIFICATION FairSpec
INVARIANTS TypeOK OnePlace NoMissedWakeup LossNeedsFault
PROPERTIES FIFO ImplementsTaskQueue EventuallyTaken
