SPECIFICATION Spec
CONSTANTS
    Segments <- SomeSegments
    Frames <- SomeFrames
    ShortFrame = 26
INVARIANTS
    NeverAWrongFrame
    ErrorNamesTheDamage
    SegmentSurvives
CHECK_DEADLOCK FALSE
