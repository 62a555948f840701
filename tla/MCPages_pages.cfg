SPECIFICATION Spec
CONSTANTS
  Page = {"gallery", "search", "albums", "onboard", "uploads", "users", "display"}
  MaxCalls = 2
  Photo = {1, 2}
  Query = {"one", "two"}
  Files <- TwoBatches
  MaxRetries = 1
  Album = {"recent", "a", "b"}
  Smart = {"recent"}
  UserName = {"default", "ann", "bob"}
  Upload = {1}
  MaxId = 2
  MaxEvents = 1
  MaxHandlers = 2
  Network = {"home", "cafe"}
  Secured = {"home"}
CHECK_DEADLOCK FALSE
INVARIANTS
  TagsAreOfPhoto
  OnlyAgreed
  ResultsOfTheText
  RightAlbum
  CompleteIsKept
  ListIsFresh
  NoGhostBatch
  OwnersExist
  ScreenFits
