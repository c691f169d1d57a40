SPECIFICATION FairSpec
CONSTANTS
    MaxEvents = 2
    Cap = 1
    Batch = 1
    Ingests = {i1}
    Policies = {p1}
    MaxVersion = 1
    MaxDelay = 1
    MaxDeaths = 1
    Rejected = {}
INVARIANT NoEventLost
INVARIANT OutboxIsCapped
 
 
