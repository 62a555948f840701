SPECIFICATION FairSpec
CONSTANTS
  t1 = t1
  t2 = t2
  beach = beach
  beach_u1 = beach_u1
  Thread <- Threads
  Name <- OneName
  Fresh <- FreshNames
  NoName = NoName
  Permits = 2
  MaxFiles = 1
  Operations = {"upload", "deleteAll", "batch", "quarantine", "reboot"}
  Faults = {"write", "rename", "process", "db"}
INVARIANTS
  TmpIsOwned
PROPERTIES
  LibraryRefined
  PermitsComeBack
