\* Subscriptions from a numbered place, under failures and cancellations.
SPECIFICATION FairSpec
CONSTANTS
    End = End
    Matching <- MCMatching
    Starts <- Numbered
    Policies <- SomePolicies
    MaxEvents = 4
    MaxFaults = 2
    MaxConnections = 2
\* Nothing more happens once the bounds are reached, or in an ended stream.
CHECK_DEADLOCK FALSE
INVARIANT TypeOK
INVARIANT NoEventIsSkipped
INVARIANT RedirectedReadsElsewhere
PROPERTY ImplementsFeed
PROPERTY EveryEventIsDelivered
