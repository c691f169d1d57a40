\* Two processes, two vault files, one label, five commands.
SPECIFICATION Spec
CONSTANTS
    Procs = {p1, p2}
    Files = {f1, f2}
    Labels = {l1}
    None = None
    Torn = Torn
    MaxVaults = 2
    MaxCommands = 5
INVARIANT TypeOK
INVARIANT EntriesOpen
INVARIANT AcknowledgedIsSaved
CHECK_DEADLOCK FALSE
