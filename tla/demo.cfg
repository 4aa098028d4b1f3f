CONSTANTS
  Sockets = {p, c}
  SessionIds = {s1}
  Null = Null
  pWs = p
  cWs = c
  session = s1
  TICKS = 5
SPECIFICATION FairSpec
INVARIANTS SettlesLastState ReplyIsForwarded
PROPERTIES LatestAdvances LastTickSuffices
CHECK_DEADLOCK FALSE
