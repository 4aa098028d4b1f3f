CONSTANTS
  Sockets = {w1, w2, w3}
  SessionIds = {s1, s2}
  Null = Null
  MAX_MESSAGES = 2
  MAX_JOINS = 3
SYMMETRY Symmetry
SPECIFICATION Spec
INVARIANT OnlyCounterparty ForwardedInOrder RegisteredIsLive 
CHECK_DEADLOCK FALSE
