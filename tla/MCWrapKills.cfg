SPECIFICATION FairSpec
CONSTANTS
    Retries <- MCRetries
    Shapes <- MCShapes
    MaxConv = 2
    PamErrors <- MCOnePamError
    ProgramStatuses <- MCProgramStatuses
    Killable <- MCAnyone
    PamHonoursConv = TRUE
INVARIANTS
    TypeOK
    RunsOnlyAcknowledged
    PrivilegeEarned
PROPERTIES
    CancelStops
    DismissalIsFinal
    HelperSettles
    FrontEndReturns
