CONSTANTS
  a = a
  b = b
  c = c
  none = none
  text = text
  u1 = u1
  u2 = u2
  Capacity = 3
  Records <- MCRecords
  Messages <- MCMessages
  CallIDs <- MCCallIDs
  NoID <- none
  HeaderText <- text
  Forms <- MCForms
  PageCap = 4
  MaxWrites = 7
SPECIFICATION Spec
CHECK_DEADLOCK FALSE
INVARIANTS
  TypeOK
  RingOrdered
  PageFaithful
  FindFaithful
PROPERTY
  LogSpec
