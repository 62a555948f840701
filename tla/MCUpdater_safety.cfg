SPECIFICATION Spec
CONSTANTS
  MaxRelease = 3
  Broken = {2}
  Updaters = {"web", "timer"}
  Faults = {"write", "fetch", "git", "kiosk", "kill", "reboot"}
  MaxLosses = 1
CHECK_DEADLOCK FALSE
INVARIANTS
  RollbackReady
PROPERTIES
  RollsBackToProven
