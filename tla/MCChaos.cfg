SPECIFICATION ChaosSpec
CONSTANTS
    Keys = {k1}
    Values = {v1}
    Empty = Empty
    Clients = {c1, c2}
    Links <- TwoLinks
    c1 = c1
    c2 = c2
    MaxAttempts = 2
    MaxCalls = 2
    Calls = 2
    MaxTicks = 9
    MaxGap = 2
    RetryDeadline = 2
INVARIANTS
    AtMostOnce
    AnswerIsItsExecution
    Linearizable
    DrainsInTime
    SummaryTrue
PROPERTIES
    CallsResolve
    DrivesRpcFairly
CHECK_DEADLOCK FALSE
