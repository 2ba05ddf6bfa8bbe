SPECIFICATION DragSpec
CONSTANTS
  DragGear = {1, 2, 3}
  DragFood = {4}
  DragBag = {8, 9}
  Backs <- MCBacks
  WornGear = {}
  CatOf <- MCCatOf
  DragStart <- MCDragStart
  RankCap = 4
  DragWrites = 3
  TickRow = {1, 2, 3}
INVARIANT CompleteIsPacked
CHECK_DEADLOCK FALSE
