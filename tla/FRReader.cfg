CONSTANTS
  k1 = k1
  k2 = k2
  k3 = k3
  d1 = d1
  d2 = d2
  Last = Last
  Nothing = Nothing
  Conns <- OneConn
  Dialogs <- OneDialog
  PoolCap = 1
  QueueCap = 1
  MaxMsgs = 3
SPECIFICATION FairSpec
CHECK_DEADLOCK FALSE
PROPERTY
  ReaderFreed
