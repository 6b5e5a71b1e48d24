SPECIFICATION FairSpec
CONSTANTS
    Callers = {c1, c2, c3}
    FailureThreshold = 2
    Cooldown = 2
    MaxGeneration = 5
INVARIANTS
    TypeOK
    MInv
    FlagMeansLiveProbe
PROPERTIES
    ImplementsCircuitSpec
    OpenIsLeft
