\* Three callers that race in a cluster of two nodes.
SPECIFICATION FairSpec
CONSTANTS
    c1 = c1
    c2 = c2
    c3 = c3
    n1 = n1
    n2 = n2
    NoNode = NoNode
    NoCaller = NoCaller
    Callers <- ThreeCallers
    Node <- MCNode
    FirstHost = n1
    ClusterMode = TRUE
    MaxDiscoverAttempts = 3
    MaxConnections = 2
INVARIANT TypeOK
INVARIANT HandlesAgree
INVARIANT OnlyRedirectedAreReplaced
INVARIANT RedirectIsFollowed
INVARIANT NoRequestIsLost
PROPERTY EveryRequestIsAnswered
PROPERTY ImplementsService
