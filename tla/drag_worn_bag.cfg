SPECIFICATION DragSpec
CONSTANTS
  DragGear = {1, 2, 3}
  DragFood = {4}
  DragBag = {8, 9}
  Backs <- MCBacks
  WornGear = {1}
  CatOf <- MCCatOf
  DragStart <- MCDragStart
  RankCap = 4
  DragWrites = 1
  TickRow = {2}
INVARIANT NoBagInItself
CHECK_DEADLOCK FALSE
