CONSTANTS
  Sessions = {s1}
  Impi = {me, u}
  GbaU = {u}
  Runs = {k1, k2}
  NoImpi = NoImpi
  NoRun = NoRun
SPECIFICATION OrderlyFairSpec
CHECK_DEADLOCK FALSE
PROPERTIES ServiceSpec Answered HeardCancelEnds CachedAreTheCards
