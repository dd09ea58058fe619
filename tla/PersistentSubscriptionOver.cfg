\* A call that is over, and an application that reads on.
SPECIFICATION Spec
CONSTANTS
    Absent = Absent
    Items <- MCItems
    Target <- MCTarget
    Capacity = 1
    BufferSize = 1
    MaxFaults = 1
CHECK_DEADLOCK FALSE
INVARIANT NeverUnreachable
