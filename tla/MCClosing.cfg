SPECIFICATION FairSpec
CONSTANTS
    SegmentSize = 1
    RecvWindowCapacity = 2
    MaxRetries = 2
    FastRetransmitDupAcks = 2
    MaxSackRanges = 1
    U32Max = 100
    MaxBytes <- NoBytes
    Closers = {"client", "server"}
PROPERTY
    ClosingResolves
CHECK_DEADLOCK FALSE
