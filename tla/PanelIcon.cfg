SPECIFICATION FairSpec
CONSTANTS
    MaxLaunch = 3
    MaxUnread = 2
    ErrorCodes = {1, 2}
    LaunchOutcomes = {"ok", "spawn_fails", "flags_fail"}
    ReadErrors = TRUE
    AsRoot = FALSE
INVARIANTS
    TypeOK
    OldCheckersSilent
    IconHonest
PROPERTIES
    StatusFollows
