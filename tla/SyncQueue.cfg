CONSTANTS
  MaxVersion = 3
  MaxRestarts = 1
  Regimes = {{}, {"late", "overlap", "failure", "restart"}}
SPECIFICATION FairSpec
INVARIANTS
  MainExclusive
  Covered
PROPERTIES
  NeverBack
  Settles
CHECK_DEADLOCK FALSE
