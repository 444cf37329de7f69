SPECIFICATION FairSpec
CONSTANTS
    Strict = TRUE
    Latching = TRUE
    DeadMan = TRUE
    Reactuation = 1
    LoopTimeout = 1
    TransportTimeout = 1
    CommandTimeout = 1
    StaleAfter = 1
    NeutralizeOnStale = TRUE
    Inputs <- Invalid
    Endings = {"lost", "closed"}
    ForeignEdges = FALSE
    MaxClock = 1
    MaxObservations = 2
    MaxIngest = 1
PROPERTY StalledLoopLosesAuthority
CHECK_DEADLOCK FALSE
