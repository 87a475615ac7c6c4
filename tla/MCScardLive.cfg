CONSTANTS
  Sessions = {s1}
  Messages = {m1, m2, m3}
  Requests <- TimedRequests
  MaxSessionID = 4
SPECIFICATION OrderlyTimedSpec
CHECK_DEADLOCK FALSE
PROPERTIES EveryMessageAnswered TimedMessageAnswered
