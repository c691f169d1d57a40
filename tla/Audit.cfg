\* A tail of two entries, one of them unknown; pages of one record.
SPECIFICATION Spec
CONSTANTS
    k1 = k1
    Keys = {k1}
    None = None
    Emitted = {"proxy.ok", "rotate.complete"}
    Legacy <- MCLegacy
    Reads <- MCReads
    Page = 1
    Retention = 1
    MaxSeq = 3
    MaxTime = 2
    MaxFaults = 1
INVARIANT MigrationIsSafe
INVARIANT WalkReadsWhatMatches
CHECK_DEADLOCK FALSE
