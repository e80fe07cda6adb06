\* Time unit: the grace period (0.25 s); the budgets are shortened, in order.
CONSTANTS
  MinBoardsNominal = 2
  MinSpread = 20
  Grace = 1
  DegradedBudget = 5
  DeadReckoningBudget = 3
  ClockSteps <- MCClockSteps
  BoardCounts = {1, 2}
  Spreads = {0, 20}
SPECIFICATION FairSpec
INVARIANTS
  TypeOK
  TrustBounded
PROPERTIES
  FaultIsSticky
  UntrustedEnds
  KeepsPromise
