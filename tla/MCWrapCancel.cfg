SPECIFICATION Spec
CONSTANTS
    Retries <- MCRetries
    Shapes <- MCShapes
    MaxConv = 2
    PamErrors <- MCPamErrors
    ProgramStatuses <- MCProgramStatuses
    Killable = {}
    PamHonoursConv = FALSE
INVARIANTS
    RunsOnlyAcknowledged
