\* A subscription from the end of the stream that loses its stream.
SPECIFICATION Spec
CONSTANTS
    End = End
    Matching <- MCMatching
    Starts <- AtTheEnd
    Policies <- TwoAttempts
    MaxEvents = 4
    MaxFaults = 1
    MaxConnections = 1
CHECK_DEADLOCK FALSE
INVARIANT NoEventIsSkipped
