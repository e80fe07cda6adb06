CONSTANTS
  Board = {b1, b2, b3}
  FlagCount = 2
  FlagRatio = 3
  Floor = 5
  Margin = 15
  MaxExcluded = 1
  Residuals = {2, 60}
SPECIFICATION StreakSpec
INVARIANT PersistentOutlierIsFlagged
