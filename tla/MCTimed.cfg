SPECIFICATION TimedSpec
CONSTANTS
    SegmentSize = 1
    RecvWindowCapacity = 2
    MaxRetries = 2
    FastRetransmitDupAcks = 2
    MaxSackRanges = 1
    U32Max = 100
    MaxBytes <- BothBytes1
    Closers = {"client", "server"}
    MinRto = 1
    MaxRto = 2
    Scale = 8
    MaxBackoff = 64
    MaxRequests = 1
INVARIANTS
    KarnsRule
    PromptFailure
PROPERTIES
    NeverHangs
    TimersAreFair
CHECK_DEADLOCK FALSE
