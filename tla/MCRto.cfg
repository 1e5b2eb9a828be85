SPECIFICATION Spec
CONSTANTS
    MinRto = 3
    MaxRto = 40
    Scale = 8
    MaxBackoff = 64
    MaxRtt = 12
INVARIANTS
    TimeoutInRange
    EstimateWithinSamples
PROPERTIES
    TimeoutBacksOff
