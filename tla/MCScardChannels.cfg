CONSTANTS
  Sessions = {s1, s2}
  Messages = {m1, m2, m3}
  Requests <- ChannelRequests
  MaxSessionID = 4
SPECIFICATION OrderlySpec
SYMMETRY Symmetry
CHECK_DEADLOCK FALSE
INVARIANTS TypeOK ServerAlive NoStall FirstIsAtReader NoMessageLost OwnAnswer ChannelOwned
PROPERTIES LineSpec CompletedOnce
