\* Days of two hours, a warm-up of one day, an anomaly from two calls an hour.
SPECIFICATION FindingsSpec
CONSTANTS
    Calls = {c1, c2}
    Prints = {f1}
    Admins = {d1, d2}
    None = None
    Deltas <- MCDeltas
    HourMs = 1
    DayMs = 2
    Window = 2
    HourlyCap = 2
    DailyCap = 2
    Warmup = 2
    Multiplier = 2
    Floor = 2
    CriticalFactor = 4
    MaxTime = 3
    MaxCalls = 3
    MaxPolls = 2
    MaxEdits = 2
    KeyIds = {k1, k2}
    Secrets = {s1}
    Grants = {g1}
    Paths = {p1}
    Absent = Absent
    Day = 1
    Rotation = 1
    Unused = 1
    Zombie = 1
    Slice = 1
    MaxNow = 3
    MaxDismissed = 1
INVARIANT FindingsAreEarned
INVARIANT ReportIsRight
PROPERTY DismissalHolds
PROPERTY TimeNeverClears
SYMMETRY Alike
CHECK_DEADLOCK FALSE
