CONSTANTS
  c1 = c1
  c2 = c2
  Calls <- OneCall
  Max = 0
  Fallbacks = 1
  CDREnable = TRUE
  WebrtcOut = FALSE
  Flows = FALSE
SPECIFICATION Spec
CHECK_DEADLOCK FALSE
INVARIANT
  EveryInviteRecorded
