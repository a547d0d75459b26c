CONSTANTS
  k1 = k1
  k2 = k2
  k3 = k3
  d1 = d1
  d2 = d2
  Last = Last
  Nothing = Nothing
  Conns <- ThreeConns
  Dialogs <- TwoDialogs
  PoolCap = 2
  QueueCap = 1
  MaxMsgs = 2
SPECIFICATION FewSpec
CHECK_DEADLOCK FALSE
INVARIANTS
  TypeOK
  PoolAccounted
  Reachable
  TransactionsAccounted
PROPERTIES
  ServiceSpec
  CallerReleased
  InviteReaderFreed
