SPECIFICATION Spec
CONSTANTS
    MaxLinkEvents = 1
    MaxOwnScans = 1
    MaxFaults = 1
    MaxQueue = 2
    MaxScans = 2
    PromptStart = TRUE
INVARIANTS
    TypeOK
    InSync
    ShownIsRecent
    GenerationFence
PROPERTIES
    MonitorRecovers
CHECK_DEADLOCK FALSE
