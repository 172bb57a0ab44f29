CONSTANTS
  h1 = h1
  h2 = h2
  h3 = h3
  NoHandler = NoHandler
  Handlers = {h1, h2, h3}
  Mixes <- SaleMixes
  NumRewards = 2
  Orders <- Sales
  MaxFaults = 1
SPECIFICATION Spec
INVARIANTS
  RedeemedOnce
  GuardedUnits
  RewardUncounted
  SkipIsSafe
PROPERTIES
  CreditedOnce
  RedemptionFollows
  TakenIn
CHECK_DEADLOCK FALSE
