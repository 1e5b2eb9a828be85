SPECIFICATION Spec
CONSTANTS
    Keys = {k1}
    Values = {v1}
    Empty = Empty
    Clients = {c1}
    MaxAttempts = 2
    MaxCalls = 3
INVARIANTS
    OneOutcome
    ProgramOrder
    DifferentialAgrees
CHECK_DEADLOCK FALSE
