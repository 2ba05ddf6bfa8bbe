SPECIFICATION Spec
CONSTANTS
  i1 = i1 w1 = w1 w2 = w2
  Id = {i1}
  Write = {w1, w2}
  Tick = {"field"}
  Place = {"field"}
  Offered = {"update", "place", "reset", "insert", "delete", "rewrite"}
  Habits = {"stays", "ticks"}
SYMMETRY Interchangeable
INVARIANTS CacheInv Converges
PROPERTY SiblingsCompose
