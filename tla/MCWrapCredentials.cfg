SPECIFICATION Spec
CONSTANTS
    Retries <- MCRetries
    Shapes <- MCShapes
    MaxConv = 2
    PamErrors <- MCCredErrors
    ProgramStatuses <- MCProgramStatuses
    Killable = {}
    PamHonoursConv = TRUE
INVARIANTS
    CanceledIsSaid
