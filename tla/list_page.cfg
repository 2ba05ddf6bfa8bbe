SPECIFICATION MCSpec
CONSTANTS
  FoodItem = {"f1", "f2"}
  OnList = {"f1"}
  Meal = {"lunch"}
  DayCap = 2
  Length = {1, 2}
  Amount = {1}
  PlanWrites = 2
  Shared = {"f1"}
  Parts = 2
  DragGear = {1, 2, 3}
  DragFood = {4}
  DragBag = {8, 9}
  Backs <- MCBacks
  WornGear = {3}
  CatOf <- MCCatOf
  DragStart <- MCDragStart
  RankCap = 4
  DragWrites = 2
  TickRow = {2}
  Row = {"r1", "r2"}
  Backing = {"r1"}
  PanelId = {1, 2, 3}
  SaveCap = 2
  ListWrites = 2
  Name = {"a", "b"}
  FieldKind = {"text", "rename", "title", "add", "notes"}
  FieldKeys = 5
  OzGrams = 3
  MaxOunces = 2
  MaxCount = 3
  WeightKeys = 4
  Slug = {"s1", "s2", "s3"}
  Tries = 2
  Visitor = {"v"}
  ShareWrites = 2
INVARIANTS PlanHolds QuietAgrees NoBagInItself DrawnAddsUp OwnerObeyed
PROPERTIES EditorsSafe InputsKept EditsAsMeant DropsLand RollbackLocal LinkPromise
CHECK_DEADLOCK FALSE
