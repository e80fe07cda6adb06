CONSTANTS
  b1 = b1  b2 = b2  b3 = b3
  Board = {b1, b2, b3}
  Angled <- MCAngled
  MaxWindow = 3
  FlagCount = 2
  FlagRatio = 3
  Floor = 5
  Margin = 15
  MaxExcluded = 1
  Residuals = {2, 60}
  MinBoardsNominal = 2
  MinSpread = 20
  Grace = 1
  DegradedBudget = 2
  DeadReckoningBudget = 2
  ClockSteps = {1}
SPECIFICATION LocalizerSpec
SYMMETRY MCSymmetry
INVARIANTS
  FlaggedOnCount
  IsolationFailureStops
  StatusDescribesFix
PROPERTY OnlyAMinorityIsStruck
