SPECIFICATION FairSpec
CHECK_DEADLOCK FALSE
CONSTANTS
    Texts <- MCTexts
    Length <- MCLength
    MaxRuns = 2
    MaxAsks = 2
    Gecoses <- MCLongGecos
    OwnShells <- MCSh
    Shells <- MCShells
    Edits <- MCFewEdits
    OptionSets <- MCOptionSets
    Habits <- MCHabits
INVARIANTS
    AnswersArrive
    OutcomeTold
PROPERTIES
    ChangesOnlyEdits
    RunsEnd
