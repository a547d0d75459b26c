SPECIFICATION BriefSpec
CONSTANTS
  Nodes = {n1, n2}
  Incoming = {in1}
  Outgoing = {out1}
  n1 = n1
  n2 = n2
  in1 = in1
  out1 = out1
  Nobody = Nobody
  Torn = Torn
  MaxMoves = 1
  MaxDowns = 3
SYMMETRY Symmetry
INVARIANTS
  TypeOK
  FileCurrent
  AnsweredIsCached
  GhostOnlyLate
PROPERTIES
  OrphansAreKept
  
CHECK_DEADLOCK FALSE
