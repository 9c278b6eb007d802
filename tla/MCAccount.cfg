SPECIFICATION Spec
CONSTANTS
    Texts <- MCTexts
    Length <- MCLength
    Helpers = {"h1", "h2"}
    Users <- MCUsers
    Calls <- MCCalls
    Records <- MCRecords
    Repairs <- MCRepairs
    MaxRepairs = 1
    BadTexts <- MCBad
    BadShells <- MCBad
    Shells <- MCShells
    PamErrors <- MCPamErrors
    PamHonoursConv = TRUE
INVARIANTS
    TypeOK
    ChangesEarned
    StatusTruthful
PROPERTIES
    SavesWhatWasAsked
    UndoesNothing
    ShellsStayValid
