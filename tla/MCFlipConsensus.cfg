\* Three sightings: every symmetric relation on their six candidates.
CONSTANTS
  MaxSightings = 3
  BoardIds = {1, 2, 3}
  BoardOf <- MCDistinctBoards
SPECIFICATION ConsensusSpec
INVARIANTS
  NothingStronger
  NoGuess
  EverySightingJudged
CHECK_DEADLOCK FALSE
