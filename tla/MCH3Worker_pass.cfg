CONSTANTS
    Script <- MCScript
    Answer <- MCAnswer
    Resets = {2}
    Failures = {1}
    MaxFaults = 1
    Backlog = 1
    TunnelBacklog = 1
    Ceiling = 2
    MaxRequests = 1
    Limit = 1
    HalfCloses = TRUE
SPECIFICATION Spec
INVARIANT Counted
INVARIANT Intact
INVARIANT Owned
PROPERTY WindsDown
CHECK_DEADLOCK FALSE
