SPECIFICATION Spec
CHECK_DEADLOCK FALSE
CONSTANTS
    Keys <- MCKeys
    Values <- MCValues
    Files <- MCFiles
    Parents <- MCNoParent
    Included <- MCIncluded
    MaxFds = 4
    MaxLines = 3
    Faults = TRUE
PROPERTIES
    SuccessMeansSaved
