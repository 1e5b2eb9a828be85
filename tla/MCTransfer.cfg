SPECIFICATION Spec
CONSTANTS
    SegmentSize = 2
    RecvWindowCapacity = 3
    MaxRetries = 1
    FastRetransmitDupAcks = 2
    MaxSackRanges = 1
    U32Max = 100
    MaxBytes <- ClientBytes4
    Closers = {}
INVARIANTS
    TypeOK
    QueueNeverStalls
    InFlightWithinCapacity
    PrefixDelivery
    NothingForgotten
    OldestNeverSacked
    NoStrandedEntry
PROPERTIES
    AdmissionWithinWindow
CHECK_DEADLOCK FALSE
