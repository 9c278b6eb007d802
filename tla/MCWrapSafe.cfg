SPECIFICATION FairSpec
CONSTANTS
    Retries <- MCRetries
    Shapes <- MCShapes
    MaxConv = 2
    PamErrors <- MCPamErrors
    ProgramStatuses <- MCProgramStatuses
    Killable = {}
    PamHonoursConv = TRUE
INVARIANTS
    StatusAgreed
    NothingUnread
    LockStep
    AnswersMatch
    NoProtocolErrorBeforeRun
PROPERTIES
    KeepsContract
