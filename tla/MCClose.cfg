SPECIFICATION Spec
CONSTANTS
    SegmentSize = 1
    RecvWindowCapacity = 2
    MaxRetries = 2
    FastRetransmitDupAcks = 2
    MaxSackRanges = 1
    U32Max = 100
    MaxBytes <- ClientBytes1
    Closers = {"client", "server"}
INVARIANTS
    GracefulClose
PROPERTIES
    IsReliableStream
CHECK_DEADLOCK FALSE
