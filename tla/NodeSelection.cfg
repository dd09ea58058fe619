\* Two seeds that answer with gossip of up to three members, or not at all.
SPECIFICATION Spec
CONSTANTS
    s1 = s1
    s2 = s2
    n1 = n1
    n2 = n2
    n3 = n3
    NoNode = NoNode
    Seeds <- TwoSeeds
    Node <- ThreeNodes
    Preferences <- AllPreferences
    Gossip <- MCGossip
\* A selection is one call: it stops when it returns.
CHECK_DEADLOCK FALSE
INVARIANT TypeOK
INVARIANT BestNodeIsSelected
INVARIANT GivesUpLast
