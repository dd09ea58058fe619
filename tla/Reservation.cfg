\* Two workers, one unit, faults at any point.
SPECIFICATION FairSpec
CONSTANTS
    w1 = w1
    w2 = w2
    opA = opA
    opB = opB
    resA = resA
    resB = resB
    Workers <- TwoWorkers
    Commands <- MCCommands
    OpIds <- TwoOps
    Sku = "sku"
    Available = 1
    CreatedId = CreatedId
    Inventory = Inventory
    NoCommand = NoCommand
    MaxAttempts = 2
    MaxDeliveries = 3
    MaxFaults = 1
\* No more deliveries come.
CHECK_DEADLOCK FALSE
INVARIANT TypeOK
INVARIANT OneOutcome
INVARIANT EffectMatchesOutcome
INVARIANT AssertionsHold
PROPERTY ImplementsService
PROPERTY UndisturbedDeliverySucceeds
