CONSTANTS
  p1 = p1  p2 = p2  w1 = w1  w2 = w2  w3 = w3  x1 = x1  d1 = d1
  Thread = {p1, x1, w1, w2, d1}
  Poster = {p1, x1}
  Waiter = {w1, w2}
  TryWaiter = {x1}
  TimedWaiter = {d1}
  Initial = 0
  MaxPosts = 3
  WordMax <- MCWordMax
SPECIFICATION FairSpec
INVARIANTS TypeOK TokenConservation NoStrandedToken
PROPERTIES TokenReachesSleeper TimedCallsReturn ImplementsSemaphore
CHECK_DEADLOCK FALSE
