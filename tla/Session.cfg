\* Two requests, one unlock at a time, one worker death; two calls on two entries.
SPECIFICATION SessionSpec
CONSTANTS
    Asks = {a1, a2}
    Unlocks = {u1}
    MaxDeaths = 1
    Calls = {c1, c2}
    Ids = {i1, i2}
    Null = Null
    MaxHeaders = 2
    MaxCalls = 5
INVARIANT TypeOK
INVARIANT AutolockArmed
INVARIANT RevealIsConsented
INVARIANT KeyOpensVault
INVARIANT OnlyOverlapUndoes
PROPERTY EventuallyLocks
PROPERTY OpenAskEnds
CHECK_DEADLOCK FALSE
