CONSTANTS
    g1 = g1
    g2 = g2
    g3 = g3
    w1 = w1
    w2 = w2
    Groups = {g1, g2}
    Contents = {"v1", "gone"}
    Gone = {"gone"}
    NoSnap = "no_snapshot"
    Workers = {w1}
    MaxChanges = 1
    MaxStops = 0
    MaxResends = 0
    MaxFailures = 0
    Filters = {}
SPECIFICATION Spec
INVARIANTS SharedArtifactNotMissed
CHECK_DEADLOCK FALSE
