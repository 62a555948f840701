SPECIFICATION Spec
CONSTANTS
  t1 = t1
  t2 = t2
  beach = beach
  beach_u1 = beach_u1
  Thread <- Threads
  Name <- OneName
  Fresh <- FreshNames
  NoName = NoName
  Permits = 2
  MaxFiles = 2
  Operations = {"upload", "delete", "deleteAll", "batch", "quarantine", "reboot"}
  Faults = {"write", "rename", "unlink", "process", "db"}
SYMMETRY ThreadSymmetry
INVARIANTS
  TypeOK
  SemaphoreAccounted
  OneWriter
  DestinationIsFree
  ShownIsWhole
