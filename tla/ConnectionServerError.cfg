\* Two callers; one is enough to see what a ServerError leads to.
SPECIFICATION Spec
CONSTANTS
    c1 = c1
    c2 = c2
    c3 = c3
    n1 = n1
    n2 = n2
    NoNode = NoNode
    NoCaller = NoCaller
    Callers <- TwoCallers
    Node <- MCNode
    FirstHost = n1
    ClusterMode = TRUE
    MaxDiscoverAttempts = 3
    MaxConnections = 2
INVARIANT ServerErrorStartsSelection
