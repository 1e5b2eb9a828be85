SPECIFICATION Spec
CONSTANTS
    SegmentSize = 1
    RecvWindowCapacity = 2
    MaxRetries = 1
    FastRetransmitDupAcks = 2
    MaxSackRanges = 1
    U32Max = 100
    MaxBytes <- ClientBytes3
    Closers = {}
INVARIANT
    HeldWithinCapacity
CHECK_DEADLOCK FALSE
