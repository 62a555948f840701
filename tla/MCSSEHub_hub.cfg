SPECIFICATION FairSpec
CONSTANTS
  n1 = n1
  n2 = n2
  s1 = s1
  s2 = s2
  tv = tv
  added = added
  Notifier <- TwoNotifiers
  Stream <- TwoStreams
  Client <- OneClient
  NoClient = NoClient
  EventType <- OneType
  NoEvent = NoEvent
  MaxClients = 1
  MaxQueue = 1
  BufferSize = 2
  MaxId = 3
CHECK_DEADLOCK FALSE
INVARIANTS
  TypeOK
  LatestKept
  ResumeIsComplete
  NoGhostClient
PROPERTIES
  NotifyReturns
