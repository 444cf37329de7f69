SPECIFICATION Spec
CONSTANTS
    s1 = s1
    b1 = b1
    b2 = b2
    Sinks = {s1}
    Subscribers = {b1, b2}
    Lossless = {b1}
    SynchronousAudit = TRUE
    SourceFaults = FALSE
    SinkFaults = TRUE
    ProcessorFaults = FALSE
    SinkBuffer = 1
    CommandBuffer = 1
    SubBuffer = 1
    Edges = 1
    Derives = {}
    CauseKinds = {}
    MaxCommands = 0
    MaxObservations = 1
INVARIANTS EvidenceBeforeExposure GapsAreAccountedFor
CHECK_DEADLOCK FALSE
