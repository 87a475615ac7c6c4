SPECIFICATION FairSpec
CONSTANTS
    Sessions = {s1, s2}
    Limits <- PlainLimits
    MaxSessionID = 6
PROPERTY ConnectAnswered
CHECK_DEADLOCK FALSE
