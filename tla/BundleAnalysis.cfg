\* The runner, the worker and the router on an X post and its repository; a process of the assembler may end.
SPECIFICATION FairRoutingSpec
CONSTANTS
    x = x
    r = r
    Order <- XAndRepo
    Kind <- XAndRepoKind
    Primary0 = x
    Procs = {"runner", "worker"}
    Committing = {"runner"}
    MaxUpdates = 3
    MaxDisturbances = 1
INVARIANTS FreshAtRest PrimarySettled HolderNeverWaits CurrentJudgedOrDropped
PROPERTIES ImplementsLedger QueueDrains
CHECK_DEADLOCK FALSE
