CONSTANTS
    Profiles <- AllProfiles
    Scripts <- AllScripts
    Sizes = {0, 1}
    MaxSends = 2
    MaxTick = 3
    MaxSwitches = 1
SPECIFICATION Spec
INVARIANTS CopiesAccounted BoundedReordering OnTime PinnedFate
CHECK_DEADLOCK FALSE
