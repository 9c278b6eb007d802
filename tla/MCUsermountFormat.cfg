SPECIFICATION Spec
CONSTANTS
    Fstabs <- MCFstabs
    Owned = {"sdc"}
    WritableDevs = {"fd0", "sdb"}
    Floppies = {"fd0"}
    Programs <- MCPrograms
    Superusers = {FALSE}
    Arguments = {"fd0", "sdb", "none"}
    MaxOthers = 2
INVARIANTS
    FormatOffered
