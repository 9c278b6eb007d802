SPECIFICATION FairSpec
CONSTANTS
    c1 = c1
    c2 = c2
    Clients = {c1, c2}
    HandlerChoices = {"saves", "interacts", "phase2"}
    Settings <- MCSettings
    InitialProps <- MCInitialProps
    Leavers = {c1}
    Breakable = {c2}
    MaxSaves = 2
    Kinds <- MCKinds
    Sessions <- MCSessions
CHECK_DEADLOCK FALSE
INVARIANTS
    OneAnswerEach
    InteractDoneExpected
    Phase2Alone
    PropertiesInStep
PROPERTIES
    SavesEnd
    AllLeave
