CONSTANTS
  Sockets = {w1, w2}
  SessionIds = {s1}
  Null = Null
  MAX_MESSAGES = 2
  MAX_JOINS = 2
SYMMETRY Symmetry
SPECIFICATION Spec
INVARIANT JoinedIsReachable 
CHECK_DEADLOCK FALSE
