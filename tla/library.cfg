SPECIFICATION MCSpec
CONSTANTS
  Gear = {"g1", "g2", "g3"}
  Cat = {"c1", "c2"}
  NoCat = "none"
  Listed = {"g1", "g2"}
  GramsOf <- MCGramsOf
  Worn = {"g2"}
  Consumable = {}
  FoodGrams = 8
  GearCap = 2
  LibWrites = 2
  SurfaceId = {1, 2, 3}
  PostCap = 2
  Files <- MCFiles
  Fold <- MCFold
  Lower <- MCFold
  Escaped <- MCEscaped
  NoText = ""
  OwnGear <- MCOwnGear
  NewCat = "K"
  ItemCap = 6
  RowCap = 3
  CatCap = 3
  GramsCap = 100
  MaxCost = 9
  TooLong = {}
  ImportTries = 2
  OtherWrites = 1
  IndexedList = {1, 2, 3, 4}
  Named = {"p", "q"}
  ListCap = 4
  StartLists <- MCStartLists
  IndexJobs = 2
INVARIANTS PackInv LibraryHolds PageAddsUp ImportTold
PROPERTIES DialogsKept IndexRight AllOrNothing ImportsOnce
CHECK_DEADLOCK FALSE
