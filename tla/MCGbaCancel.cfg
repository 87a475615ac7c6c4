CONSTANTS
  Sessions = {s1}
  Impi = {me}
  GbaU = {}
  Runs = {k1}
  NoImpi = NoImpi
  NoRun = NoRun
SPECIFICATION OrderlyFairSpec
CHECK_DEADLOCK FALSE
PROPERTY CancelEnds
