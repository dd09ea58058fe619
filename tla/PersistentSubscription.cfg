\* A group of two items, one of them a link to the other.
SPECIFICATION FairSpec
CONSTANTS
    Absent = Absent
    Items <- MCItems
    Target <- MCTarget
    Capacity = 1
    BufferSize = 2
    MaxFaults = 2
CHECK_DEADLOCK FALSE
INVARIANT TypeOK
INVARIANT SettledAsAnswered
INVARIANT NothingFallsBetween
PROPERTY EveryItemIsSettled
