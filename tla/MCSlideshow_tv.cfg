SPECIFICATION FairSpec
CONSTANTS
  Count = 2
  Kind = {"image", "video"}
  EmptyToo = TRUE
  Event = {"change", "show"}
  MaxPending = 2
CHECK_DEADLOCK FALSE
INVARIANTS
  TypeOK
  ActiveOnTop
PROPERTIES
  RoundAndRound
