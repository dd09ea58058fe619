\* Two clients, two commands of any sort, one fault.
SPECIFICATION FairSpec
CONSTANTS
    c1 = c1
    c2 = c2
    old = old
    new = new
    Clients <- TwoClients
    Node <- TwoNodes
    NoNode = NoNode
    Stream <- MCStreams
    All = "$all"
    Requests <- MCRequests
    Methods <- MCMethods
    MetadataStream <- MCMetadataStream
    Strategies <- MCStrategies
    DefaultDeadline = "none"
    PrefersLeader = TRUE
    WordSize = 256
    InitialServers <- MCServers
    MaxCommands = 2
    MaxFaults = 1
\* No more commands are issued.
CHECK_DEADLOCK FALSE
INVARIANT TypeOK
INVARIANT AppendOutcomeIsTrue
INVARIANT ReadsAreComplete
INVARIANT CreatedProjectionsEmit
INVARIANT ListingsAreTheServers
INVARIANT RedirectedConnectionIsLeft
PROPERTY RegularCommandsEnd
