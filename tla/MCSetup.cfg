SPECIFICATION Spec
CONSTANTS
    Focus = {"autoware-data", "tensorrt-engines"}
    STEPS <- SomeSteps
    Procs = {p1, p2}
    Presets = {"dev", "all"}
    Pickable = {"autoware-data"}
    Editable = {"autoware-data"}
    Calling = {"tensorrt-engines"}
    Markers = {"tensorrt-engines"}
    MaxEdits = 1
    MaxSessions = 2
INVARIANTS TypeOK InstalledWasEarned LastRunIsRecorded RunsOnFirmGround
PROPERTIES MenuResumes
SYMMETRY ProcSymmetry
CHECK_DEADLOCK FALSE
