SPECIFICATION Spec
CONSTANTS
    StepSpeed = 2
    MaxSpeed = 3
    StepSteer = 1
    MaxSteer = 1
    Topics = {"direct", "custom"}
    Direct = "direct"
    MaxKeys = 3
INVARIANTS OneTickBehind DiesOnlyDisturbed
PROPERTIES ObeyedInTheEnd
CHECK_DEADLOCK FALSE
