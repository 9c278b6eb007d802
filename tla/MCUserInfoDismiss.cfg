SPECIFICATION Spec
CHECK_DEADLOCK FALSE
CONSTANTS
    Texts <- MCTexts
    Length <- MCLength
    MaxRuns = 2
    MaxAsks = 2
    Gecoses <- MCGecoses
    OwnShells <- MCShells
    Shells <- MCShells
    Edits <- MCEdits
    OptionSets <- MCPlain
    Habits <- MCHasty
INVARIANTS
    AnswersGoToAsker
