SPECIFICATION Spec
CONSTANTS
  i1 = i1 w1 = w1 w2 = w2
  Id = {i1}
  Write = {w1, w2}
  Tick = {"packed"}
  Place = {"place"}
  Offered = {"update", "place"}
  Habits = {"leaves"}
SYMMETRY Interchangeable
INVARIANT Converges
