CONSTANTS
    g1 = g1
    g2 = g2
    g3 = g3
    w1 = w1
    w2 = w2
    Groups <- MCGroups
    Contents = {"v1", "gone"}
    Gone = {"gone"}
    NoSnap = "no_snapshot"
    Workers <- MCWorkers
    MaxChanges = 2
    MaxStops = 1
    MaxResends = 1
    MaxFailures = 1
    Filters <- MCGroups
SPECIFICATION Spec
INVARIANTS SnapshotsAnnounced NoLostUpdate AbandonedNeedStops
CHECK_DEADLOCK FALSE
