\* The budgets and the grace period of MCLocalizationState.cfg.
CONSTANTS
  MinBoardsNominal = 2
  MinSpread = 20
  Grace = 1
  DegradedBudget = 5
  DeadReckoningBudget = 3
  ClockSteps <- MCClockSteps
  BoardCounts = {1, 2}
  Spreads = {0, 20}
SPECIFICATION FairSpec
PROPERTY GraceHoldsState
