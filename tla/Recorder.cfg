SPECIFICATION Spec
CONSTANTS
    a1 = a1
    a2 = a2
    Adapters = {a1, a2}
    Quorum = 2
    Depth = 1
    Faults = {}
    Timeouts = TRUE
    c1 = c1
    Callers = {c1}
    Streams = {"input", "command"}
    MaxStreams = 2
    MaxSequence = 1
    Inputs <- Mixed
    Policies <- Both
    RequireWitness = TRUE
    CheckpointEvery = 0
    Timer = TRUE
    MaxRetries = 1
    MaxCheckpoints = 1
INVARIANTS CrashKeepsDurable WitnessedHeadSurvives CleanCloseIsComplete BarrierCovers EvidenceIsProvable SleepersHaveHope
PROPERTY ImplementsPromise
CHECK_DEADLOCK FALSE
SYMMETRY Interchangeable
