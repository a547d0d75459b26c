CONSTANTS
  t1 = t1
  t2 = t2
  t3 = t3
  Threads <- TwoThreads
  Max = 3
  RPS = 1
  BlockTimeout = 1
  MaxClock = 2
  MaxArrivals = 3
SPECIFICATION Spec
CHECK_DEADLOCK FALSE
INVARIANT
  RPSPerSecond
