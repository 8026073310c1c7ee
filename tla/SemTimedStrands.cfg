CONSTANTS
  p1 = p1  p2 = p2  w1 = w1  w2 = w2  w3 = w3  x1 = x1  d1 = d1
  Thread = {p1, p2, w1, w2, d1}
  Poster = {p1, p2}
  Waiter = {w1, w2}
  TryWaiter = {}
  TimedWaiter = {d1}
  Initial = 0
  MaxPosts = 3
  WordMax <- MCWordMax
SPECIFICATION Spec
SYMMETRY TimedSymmetry
INVARIANTS SleepersHaveHelp
CHECK_DEADLOCK FALSE
