SPECIFICATION Spec
CONSTANTS
  NumLists = 2
  Filled = 1
  NumItems = 2
  NumFood = 2
  NumLocs = 1
  List <- MCList
  Item <- MCItem
  Food <- MCFood
  Loc <- MCLoc
  Gear <- MCGear
  ListOf <- MCListOf
  GearOf <- MCGearOf
  RankMax = 3
  ItemCap = 2
  FoodCap = 2
  LocCap = 1
INVARIANTS CohortRanksUnique
PROPERTIES PackOrderKept WornSlotReserved
