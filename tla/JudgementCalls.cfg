SPECIFICATION FairSpec
CONSTANTS
    Runs = {r1}
    NoRun = NoRun
    MaxMoves = 2
    MaxFailures = 1
    MaxAborts = 1
    MaxResends = 2
    MaxStops = 1
PROPERTY CallsDecided
CHECK_DEADLOCK FALSE
