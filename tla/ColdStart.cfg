CONSTANTS
  Consecutive = 3
  Cooldown = 4
  Radius = 1
  MaxSpeed = 1
  Places = {0, 6}
  Home = 0
  AgeCap = 6
SPECIFICATION ColdSpec
INVARIANT ColdTypeOK
PROPERTIES
  FirstPoseIsConfirmed
  ColdStartCompletes
