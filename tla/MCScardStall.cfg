CONSTANTS
  Sessions = {s1}
  Messages = {m1, m2, m3, m4, m5}
  Requests <- OpenRequests
  MaxSessionID = 2
SPECIFICATION Spec
SYMMETRY Symmetry
CHECK_DEADLOCK FALSE
INVARIANT NoStall
