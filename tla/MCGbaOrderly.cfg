CONSTANTS
  Sessions = {s1, s2}
  Impi = {me, u}
  GbaU = {u}
  Runs = {k1, k2}
  NoImpi = NoImpi
  NoRun = NoRun
SPECIFICATION OrderlySpec
SYMMETRY Symmetry
CHECK_DEADLOCK FALSE
INVARIANTS TypeOK AliveForever RetrieverOwned EventWillCome WaitingIsServed GoodCredentials StoreOfOneRun StopsWithoutSessions
