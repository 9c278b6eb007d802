SPECIFICATION Spec
CONSTANTS
    c1 = c1
    c2 = c2
    Clients = {c1, c2}
    HandlerChoices = {"saves", "interacts", "phase2"}
    Settings <- MCSettings
    InitialProps <- MCInitialProps
    Leavers = {c1}
    Breakable = {}
    MaxSaves = 2
    Kinds <- MCKinds
    Sessions <- MCPlain
CHECK_DEADLOCK FALSE
INVARIANTS
    PriorityKept
