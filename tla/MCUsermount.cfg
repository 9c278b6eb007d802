SPECIFICATION FairSpec
CONSTANTS
    Fstabs <- MCFstabs
    Owned = {"sdc"}
    WritableDevs = {"fd0", "sdb"}
    Floppies = {"fd0"}
    Programs <- MCPrograms
    Superusers = {TRUE, FALSE}
    Arguments = {"fd0", "sdb", "none"}
    MaxOthers = 2
INVARIANTS
    ButtonsTruthful
    FormatsUnmounted
PROPERTIES
    WindowComesBack
