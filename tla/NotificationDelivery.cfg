\* Reposts and a second material, with resent messages, a replay, a switch and a crash.
SPECIFICATION FairSpec
CONSTANTS
    a1 = a1
    a2 = a2
    b = b
    none = none
    None = none
    Arrivals <- Reposts
    Material <- RepostMaterial
    AllowEdits = TRUE
    MaxAttempts = 2
    ReplayAllowed = {TRUE, FALSE}
    MaxTroubles = 1
INVARIANTS OnePlanPerMaterial NoSilentDuplicate AttemptsBounded
PROPERTIES ImplementsOneMessage FinalStays FailuresEnd EveryMaterialPlanned
CHECK_DEADLOCK FALSE
