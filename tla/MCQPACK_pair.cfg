CONSTANTS
    Names = {"a", "b", "s", "k"}
    Values = {1, 2}
    SizeOf <- MCSizeOf
    Static <- MCStatic
    Sensitive = {"k"}
    Streams = {s1, s2}
    Lists <- MCLists
    PerStream = 2
    Capacity = 2
    Limit = 3
    MaxOutstanding = 2
    MaxBlocked = 1
    MaxInserted = 4
    Retires = FALSE
SPECIFICATION Spec
INVARIANT Sound
INVARIANT WaitsForSomething
SYMMETRY Symmetry
CHECK_DEADLOCK FALSE
