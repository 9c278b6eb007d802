SPECIFICATION Spec
CHECK_DEADLOCK FALSE
CONSTANTS
    Keys <- MCKeys
    Values <- MCPlain
    Files <- MCEmptied
    Parents <- MCNoParent
    Included <- MCIncluded
    MaxFds = 4
    MaxLines = 3
    Faults = FALSE
PROPERTIES
    SetThenGet
