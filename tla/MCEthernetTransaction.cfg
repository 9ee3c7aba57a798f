SPECIFICATION TxFairSpec
CONSTANTS
    Facts <- MCFacts
    Statics <- MCStatics
    Policies <- MCPolicies
    ForeignRoutes <- MCForeignRoutes
    ForeignDns = "dx"
    NoGw = ""
    NoDns = ""
    NoIface = ""
    MaxFaults = 2
    MaxDrift = 1
INVARIANTS
    TxTypeOK
    NoLeakedRoute
    MarkerTracked
    StaticExcludesDhcp
    NoSplitBrain
PROPERTIES
    PolicyChangeComplete
    ForeignDnsKept
    SelfHealing
    PrimaryResolves
