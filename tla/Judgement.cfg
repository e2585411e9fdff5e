SPECIFICATION FairSpec
CONSTANTS
    Runs = {r1}
    NoRun = NoRun
    MaxMoves = 2
    MaxFailures = 1
    MaxAborts = 1
    MaxResends = 2
    MaxStops = 1
INVARIANTS
    OneOutputPerRun
    RequestsBounded
    OneAnalysisPerOutput
    NotifiedStaysSucceeded
PROPERTIES ImplementsOneVerdict OutputsSettle
CHECK_DEADLOCK FALSE
