\* The operator may stop for good, and the launches are bounded.
SPECIFICATION FairSpec
CHECK_DEADLOCK FALSE
CONSTANTS
    MaxStarts = 2
    MaxLaunches = 2
    MaxFaults = 2
    Prompt = FALSE
INVARIANTS
    PidfilesTrue
    StopEndsSupervision
PROPERTIES
    Supervised
    SupervisorsSettle
