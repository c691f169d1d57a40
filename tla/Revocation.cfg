\* Serial bumps: two calls, two bumps, one grant that both calls may share.
SPECIFICATION FairSpec
CONSTANTS
    Calls = {c1, c2}
    Grants = {g1}
    NoGrant = NoGrant
    Bumps = {b1, b2}
    Overlap = FALSE
INVARIANT TypeOK
 
INVARIANT InFlightIsAbortable
PROPERTY RevokeEndsTrackedCalls
 
CHECK_DEADLOCK FALSE
