SPECIFICATION Spec
CHECK_DEADLOCK FALSE
CONSTANTS
    MaxStarts = 1
    MaxLaunches = 1
    MaxFaults = 0
    Prompt = TRUE
INVARIANTS
    StopEndsDaemon
