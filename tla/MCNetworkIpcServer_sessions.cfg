\* The reactor may come to rest in poll, so deadlock is not an error.
\* One slot for two consumers that may stop reading; sequence numbers run out.
SPECIFICATION FairSpec
CONSTANTS
    hmi = hmi
    tool = tool
    Consumers <- MCConsumers
    Types = {1}
    MaxPayload = 2
    MaxInbox = 2
    MaxActive = 1
    OutCap = 2
    SockCap = 1
    MaxSeq = 2
    MaxTruth = 1
    Flapping = FALSE
    MaxChanges = 1
    MaxSessions = 2
    MaxStray = 1
INVARIANTS
    TypeOK
    NoArtificialGap
    InboxDecodes
PROPERTIES
    SessionProgress
    HandshakeBounded
CHECK_DEADLOCK FALSE
