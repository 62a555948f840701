SPECIFICATION FairSpec
CONSTANTS
  Part = {"device", "limiter", "config", "threads"}
  Control = {"timezone"}
  MaxTries <- FewTries
  MaxAsked = 2
  Client = {"phone", "laptop"}
  Checker = {1, 2}
  MaxAttempts = 2
  Window = 3
  EvictAfter = 4
  Unit = 2
  MaxLag = 1
  MaxTime = 5
  Option = {"photo_order", "transition_mode"}
  Value = {"one", "two"}
  Default = "default"
  Listed = {"photo_order"}
  Handler = {1, 2}
  Faults = {"read", "write"}
  MaxSaves = 2
  MaxStarts = 1
  Conn = {1, 2, 3}
  Wanted = {"request", "upload", "stream"}
  Threads = {2}
  MaxClients = 1
CHECK_DEADLOCK FALSE
INVARIANTS
  InstallEnds
  ShownIsReal
  PartsTypeOK
  TwiceAtMost
  NoneClobbered
  
PROPERTIES
  RetryAfterHolds
  LineMoves
