SPECIFICATION Spec
CONSTANTS
  Page = {"users"}
  MaxCalls = 2
  Photo = {1, 2}
  Query = {"one", "two"}
  Files <- TwoBatches
  MaxRetries = 1
  Album = {"recent", "a", "b"}
  Smart = {"recent"}
  UserName = {"default", "ann", "bob"}
  Upload = {1}
  MaxId = 2
  MaxEvents = 2
  MaxHandlers = 2
  Network = {"home", "cafe"}
  Secured = {"home"}
CHECK_DEADLOCK FALSE
INVARIANTS
  NoOrphans
