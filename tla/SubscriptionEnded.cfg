\* A server that ends the stream without an error.
SPECIFICATION FairSpec
CONSTANTS
    End = End
    Matching <- MCMatching
    Starts <- Numbered
    Policies <- TwoAttempts
    MaxEvents = 1
    MaxFaults = 1
    MaxConnections = 1
CHECK_DEADLOCK FALSE
PROPERTY DisconnectionIsFollowed
