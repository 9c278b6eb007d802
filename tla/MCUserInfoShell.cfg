SPECIFICATION Spec
CONSTANTS
    Texts <- MCTexts
    Length <- MCLength
    MaxRuns = 2
    MaxAsks = 2
    Gecoses <- MCGecoses
    OwnShells <- MCOdd
    Shells <- MCShells
    Edits <- MCEdits
    OptionSets <- MCPlain
    Habits <- MCPatient
INVARIANTS
    FingerChangesAllowed
