SPECIFICATION Spec
CONSTANTS
  Count = 2
  Kind = {"image", "video"}
  EmptyToo = FALSE
  Event = {}
  MaxPending = 1
CHECK_DEADLOCK FALSE
INVARIANTS
  KeepsGoing
