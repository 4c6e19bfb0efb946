CONSTANTS
    Plans <- MCPlans
    MaxMessage = 2
    MaxFragments = 2
    Room = 2
SPECIFICATION Spec
INVARIANT Reassembled
PROPERTY CloseEnds
CHECK_DEADLOCK FALSE
