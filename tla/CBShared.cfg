CONSTANTS
  c1 = c1
  c2 = c2
  Calls <- TwoCalls
  Max = 3
  Fallbacks = 0
  CDREnable = TRUE
  WebrtcOut = FALSE
  Flows = TRUE
SPECIFICATION Spec
SYMMETRY Symmetry
CHECK_DEADLOCK FALSE
INVARIANT
  SharedAccounted
PROPERTY
  ServiceSpec
