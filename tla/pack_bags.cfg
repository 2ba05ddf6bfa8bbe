SPECIFICATION Spec
CONSTANTS
  NumLists = 1
  Filled = 1
  NumItems = 3
  NumFood = 0
  NumLocs = 2
  List <- MCList
  Item <- MCItem
  Food <- MCFood
  Loc <- MCLoc
  Gear <- MCGear
  ListOf <- MCListOf
  GearOf <- MCGearOf
  RankMax = 2
  ItemCap = 3
  FoodCap = 0
  LocCap = 2
INVARIANTS NestingAcyclic RanksInRange
PROPERTIES TableOrderKept
