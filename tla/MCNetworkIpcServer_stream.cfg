\* The reactor may come to rest in poll, so deadlock is not an error.
\* Two consumers; queues overflow and writes stall.
SPECIFICATION Spec
CONSTANTS
    hmi = hmi
    tool = tool
    Consumers <- MCConsumers
    Types = {1}
    MaxPayload = 2
    MaxInbox = 2
    MaxActive = 2
    OutCap = 2
    SockCap = 1
    MaxSeq = 20
    MaxTruth = 2
    Flapping = FALSE
    MaxChanges = 2
    MaxSessions = 1
    MaxStray = 0
SYMMETRY ConsumerSymmetry
INVARIANTS
    AnswersConserved
    Converged
PROPERTIES
    StreamPromised
CHECK_DEADLOCK FALSE
