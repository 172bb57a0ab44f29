CONSTANTS
  o1 = o1
  o2 = o2
  v1 = v1
  v2 = v2
  u1 = u1
  NoRef = NoRef
  Orders = {o1, o2}
  Items = {v1, v2}
  Qualifying = {v1, v2}
  Refs = {u1}
  Basket <- MCBasket
  Returns <- MCReturns
  ManualEntries <- MCManual
  Required = 3
  Window = 1
  Lag = 1
  MaxDay = 2
SPECIFICATION Spec
INVARIANTS
  EarnedBacked
  LocksHeldByLive
  SplitConserves
  OneInProgress
  IntakeComplete
  SummaryFresh
PROPERTIES
  CommitSettles
  StatusMachine
  KeepsCard
