\* One process starts over while its session is live.
SPECIFICATION Spec
CONSTANTS
    Procs = {p1}
    Files = {f1}
    Labels = {l1}
    None = None
    Torn = Torn
    MaxVaults = 2
    MaxCommands = 4
INVARIANT StartingOverWorks
CHECK_DEADLOCK FALSE
