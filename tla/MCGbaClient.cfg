CONSTANTS
  handler = handler
  Impi = {me}
  Runs = {k1, k2}
  NoImpi = NoImpi
  NoRun = NoRun
SPECIFICATION FairSpec
CHECK_DEADLOCK FALSE
INVARIANTS TypeOK AnswerIsAwaited
PROPERTIES Reported
