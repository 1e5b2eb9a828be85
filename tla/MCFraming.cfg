SPECIFICATION Spec
CONSTANTS
    Base = 4
    IdBytes = 2
    KeyLenBytes = 1
    LenPrefix = 2
    Operations <- SomeOperations
    Answers <- SomeAnswers
    MaxMessages = 5
INVARIANTS
    MessagesIntact
    NothingHeldBack
CHECK_DEADLOCK FALSE
