\* udhcpc becomes visible, or exits, before the start poll gives up.
SPECIFICATION Spec
CONSTANTS
    MaxGen = 3
    MaxCrashes = 2
    PromptLaunch = TRUE
INVARIANTS
    TypeOK
    SingleClient
    NoSelfConflict
    StopComplete
PROPERTIES
    CleanupOnlyStale
    NoRollback
