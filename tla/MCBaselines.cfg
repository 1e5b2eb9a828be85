SPECIFICATION Spec
CONSTANTS
    Chunks = 6
    Window = 4
    Rto = 3
    MaxRetries = 2
    MaxTicks = 60
INVARIANTS
    SettledMeansDelivered
    CompletedMeansDelivered
    TimerWatchesFlight
    EndsByItself
CHECK_DEADLOCK FALSE
