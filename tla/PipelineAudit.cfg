SPECIFICATION Spec
CONSTANTS
    s1 = s1
    s2 = s2
    Sinks = {s1, s2}
    Subscribers = {}
    Lossless = {}
    SynchronousAudit = FALSE
    SourceFaults = FALSE
    SinkFaults = TRUE
    ProcessorFaults = TRUE
    SinkBuffer = 1
    CommandBuffer = 1
    SubBuffer = 1
    Edges = 0
    Derives = {"command"}
    CauseKinds = {"observation"}
    MaxCommands = 1
    MaxObservations = 1
SYMMETRY Interchangeable
INVARIANTS SyncIsBarrier CausePrecedesCommand
CHECK_DEADLOCK FALSE
