SPECIFICATION FairSpec
CONSTANTS
    Callers = {c1, c2}
    N = 2
    FailureThreshold = 2
    Cooldown = 1
    Lease = 1
    MaxGeneration = 3
    MaxLosses = 2
INVARIANTS
    TypeOK
    LiveCallsFitPhase
PROPERTIES
    ImplementsCircuitSpec
    HalfOpenEnds
