SPECIFICATION Spec
CONSTANTS
  p1 = p1
  p2 = p2
  Phone <- Phones
  Key = {"max_upload_mb", "display_on"}
  MaxCalls = 2
  MaxLate = 1
SYMMETRY PhoneSymmetry
INVARIANTS
  NoEditForgotten
PROPERTIES
  SavesOnlyChoices
  LateSavesAsMeant
