SPECIFICATION Spec
CONSTANTS
    MaxLaunch = 3
    MaxUnread = 1
    ErrorCodes = {}
    LaunchOutcomes = {"ok"}
    ReadErrors = FALSE
    AsRoot = FALSE
INVARIANTS
    OldStateDestroyed
