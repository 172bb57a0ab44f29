CONSTANTS
  g1 = g1
  g2 = g2
  g3 = g3
  r1 = r1
  r2 = r2
  r3 = r3
  None = None
  Groups = {g1, g2, g3}
  Rules = {r1, r2, r3}
  Regimes <- SyncRegimes
SPECIFICATION FairSpec
INVARIANTS
  NoOrphan
  Delivered
  EarnedTracked
PROPERTIES
  PendingServed
CHECK_DEADLOCK FALSE
