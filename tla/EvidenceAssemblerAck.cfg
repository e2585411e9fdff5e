\* The worker as main.py runs it.
SPECIFICATION Spec
CONSTANTS
    x = x
    r = r
    Order <- XAndRepo
    Kind <- XAndRepoKind
    Primary0 = x
    Procs = {"worker"}
    Committing = {}
    MaxUpdates = 2
    MaxDisturbances = 0
INVARIANT AckedIsCommitted
CHECK_DEADLOCK FALSE
