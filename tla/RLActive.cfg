CONSTANTS
  t1 = t1
  t2 = t2
  t3 = t3
  Threads <- ThreeThreads
  Max = 3
  RPS = 2
  BlockTimeout = 1
  MaxClock = 2
  MaxArrivals = 4
SPECIFICATION FairSpec
CHECK_DEADLOCK FALSE
INVARIANTS
  TypeOK
  ActiveAccounted
  PlacesBounded
  EpochBounded
PROPERTIES
  AdmissionSpec
  BlockReturns
