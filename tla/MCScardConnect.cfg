SPECIFICATION TimedSpec
CONSTANTS
    Sessions = {s1, s2}
    Limits <- AllLimits
    MaxSessionID = 8
INVARIANTS TypeOK ServerAlive Registered OneAtReader ConnectedMeansOpen
PROPERTY TimedConnectEnds
CHECK_DEADLOCK FALSE
