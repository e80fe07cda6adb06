\* Two of the sightings are of one board.
CONSTANTS
  MaxSightings = 3
  BoardIds = {1, 2}
  BoardOf <- MCRepeatedBoard
SPECIFICATION ConsensusSpec
INVARIANT NoSelfCorroboration
CHECK_DEADLOCK FALSE
