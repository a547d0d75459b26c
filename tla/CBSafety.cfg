CONSTANTS
  c1 = c1
  c2 = c2
  Calls <- OneCall
  Max = 0
  Fallbacks = 2
  CDREnable = TRUE
  WebrtcOut = TRUE
  Flows = FALSE
SPECIFICATION FairSpec
CHECK_DEADLOCK FALSE
INVARIANTS
  TypeOK
  NobodyWaits
  HuntsInOrder
  RecordsAgree
  OnlyFallbacksAtFault
PROPERTIES
  HangupPropagates
  HandlersEnd
