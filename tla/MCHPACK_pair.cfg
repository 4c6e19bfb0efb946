CONSTANTS
    Names = {"a", "b", "s", "k"}
    Values = {1, 2}
    SizeOf <- MCSizeOf
    Static <- MCStatic
    Sensitive = {"k"}
    Default = 2
    Limits = {1, 3}
    Capacities = {0, 2, 3}
    Lists <- MCLists
    MaxBlocks = 4
    MaxSettings = 2
SPECIFICATION Spec
INVARIANT Sound
CHECK_DEADLOCK FALSE
