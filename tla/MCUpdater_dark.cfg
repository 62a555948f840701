SPECIFICATION FairSpec
CONSTANTS
  MaxRelease = 3
  Broken = {}
  Updaters = {"timer"}
  Faults = {}
  MaxLosses = 0
CHECK_DEADLOCK FALSE
PROPERTIES
  NotBricked
