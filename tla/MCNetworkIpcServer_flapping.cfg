\* The network may return to an earlier state before the observer runs.
SPECIFICATION Spec
CONSTANTS
    hmi = hmi
    tool = tool
    Consumers = {hmi}
    Types = {1}
    MaxPayload = 2
    MaxInbox = 2
    MaxActive = 1
    OutCap = 2
    SockCap = 1
    MaxSeq = 20
    MaxTruth = 1
    Flapping = TRUE
    MaxChanges = 2
    MaxSessions = 1
    MaxStray = 0
INVARIANTS
    Converged
CHECK_DEADLOCK FALSE
