\* The start poll may give up before a slow udhcpc becomes visible.
SPECIFICATION Spec
CONSTANTS
    MaxGen = 2
    MaxCrashes = 0
    PromptLaunch = FALSE
PROPERTIES
    CleanupOnlyStale
