SPECIFICATION Spec
CONSTANTS
    MaxLinkEvents = 0
    MaxOwnScans = 0
    MaxFaults = 0
    MaxQueue = 2
    MaxScans = 2
    PromptStart = FALSE
INVARIANTS
    GenerationFence
CHECK_DEADLOCK FALSE
