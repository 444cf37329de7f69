SPECIFICATION Spec
CONSTANTS
    Strict = FALSE
    Latching = FALSE
    DeadMan = TRUE
    Reactuation = 0
    LoopTimeout = 0
    TransportTimeout = 2
    CommandTimeout = 3
    StaleAfter = 0
    NeutralizeOnStale = FALSE
    Inputs <- Presses
    Endings = {}
    ForeignEdges = TRUE
    MaxClock = 2
    MaxObservations = 4
    MaxIngest = 3
INVARIANTS PressBeforeArmIsNoProof
CHECK_DEADLOCK FALSE
