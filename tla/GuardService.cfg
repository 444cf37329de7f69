SPECIFICATION Spec
CONSTANTS
    Strict = FALSE
    Latching = FALSE
    DeadMan = TRUE
    Reactuation = 1
    LoopTimeout = 2
    TransportTimeout = 2
    CommandTimeout = 2
    StaleAfter = 1
    NeutralizeOnStale = FALSE
    Inputs <- Lossy
    Endings = {"failed"}
    ForeignEdges = FALSE
    MaxClock = 2
    MaxObservations = 3
    MaxIngest = 1
INVARIANTS HoldOnlyWhileArmed PermitNeedsFreshPress FaultsLatch
CHECK_DEADLOCK FALSE
