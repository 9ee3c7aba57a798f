\* The daemon's own threads: one monitor, one reactor.
SPECIFICATION CmdFairSpec
CONSTANTS
    L2Threads = {monitor}
    ControlThreads = {reactor}
    NoThread = NoThread
    Ssids = {"a"}
    NoSsid = ""
    MaxId = 1
    MaxFaults = 2
    MaxChanges = 1
    Home = "a"
INVARIANTS
    FailureExplained
    NoOrphanClient
    NoTransientProfile
    NoClientWithoutLink
PROPERTIES
    ExitVerdict
    ConnectIsolates
    LinkServed
    DeadClientNoticed
