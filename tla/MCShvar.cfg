SPECIFICATION Spec
CHECK_DEADLOCK FALSE
CONSTANTS
    Keys <- MCKeys
    Values <- MCValues
    Files <- MCFiles
    Parents <- MCParents
    Included <- MCIncluded
    MaxFds = 4
    MaxLines = 3
    Faults = TRUE
INVARIANTS
    UnmodifiedIsSaved
PROPERTIES
    IsDictionary
    OthersKept
    UnsetHidesParent
