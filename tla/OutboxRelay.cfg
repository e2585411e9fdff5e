CONSTANTS
    Events <- MCEvents
    Unroutable <- MCUnroutable
    Excludable <- MCExcludable
    Guarded <- MCGuarded
    FailureKept <- MCFailureKept
    BatchSize = 2
    MaxStarts = 2
    MaxCommands = 2
SPECIFICATION FairSpec
INVARIANTS CreationOrder RecordsFollowXadd
PROPERTIES ExcludedStaysOut DeliverySpec EveryRowHandled CommandEnds
CHECK_DEADLOCK FALSE
