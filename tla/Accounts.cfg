\* Two requests, two users, one link per window.
SPECIFICATION AccountsSpec
CONSTANTS
    Requests = {r1, r2}
    Emails = {e1, e2}
    Nothing = Nothing
    Max = 1
    Window = 1
    LinkTtl = 2
    SessionTtl = 1
    MaxTime = 2
    MaxLinks = 2
    MaxWrites = 2
    MaxFaults = 1
INVARIANT AccountsTypeOK
 
INVARIANT WritesTraceToALink
 
CHECK_DEADLOCK FALSE
