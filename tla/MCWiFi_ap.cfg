SPECIFICATION FairSpec
CONSTANTS
  Thread = {1, 2}
  Timer = {1, 2, 3}
  MaxDeaths = 2
  Faults = {"read", "down", "hotspot", "marker"}
INVARIANTS
  ApIsWatched
PROPERTIES
  ComesBack
