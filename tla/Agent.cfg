\* Four symbols of output on two streams; two lines of JSON-RPC.
SPECIFICATION AgentSpec
CONSTANTS
    Streams = {out, err}
    Providers = {p1, p2}
    NoLabel = NoLabel
    WorkLabel = WorkLabel
    KeyLength = 1
    SOFT_CAP = 2
    MIN_TAIL = 1
    MaxText = 4
    NoId = NoId
    MaxLines = 2
INVARIANT ShownIsRedacted
INVARIANT AnswersMatch
PROPERTY TimedRunEnds
PROPERTY EveryRequestIsAnswered
CHECK_DEADLOCK FALSE
