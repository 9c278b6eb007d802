SPECIFICATION Spec
CONSTANTS
    MaxLaunch = 2
    MaxUnread = 1
    ErrorCodes = {}
    LaunchOutcomes = {"ok"}
    ReadErrors = FALSE
    AsRoot = FALSE
INVARIANTS
    ShownMeansReported
