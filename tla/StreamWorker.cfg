CONSTANTS
    Jobs <- MCJobs
    Malformed <- MCMalformed
    MaxEntries = 4
    MaxLen = 2
    BatchSize = 2
    MaxStops = 1
SPECIFICATION FairSpec
INVARIANTS NothingSkipped StreamOrder
PROPERTY EveryEntryResolved
CHECK_DEADLOCK FALSE
