SPECIFICATION Spec
CONSTANTS
  p1 = p1
  p2 = p2
  Main = Main
  User <- MCUser
  Code = {0}
  TID_ERROR = TID_ERROR
  NULL = NULL
  MayFail = TRUE
SYMMETRY UserSymmetry
INVARIANTS
  HandshakeRight
  WaitExact
  
\* Processes may end, or wait for ever.
CHECK_DEADLOCK FALSE
