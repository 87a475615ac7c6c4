SPECIFICATION Spec
CONSTANTS
    Sessions = {s1, s2}
    Limits <- PlainLimits
    MaxSessionID = 6
INVARIANT ServerAlive
CHECK_DEADLOCK FALSE
