SPECIFICATION FairSpec
CONSTANTS
    s1 = s1
    Sinks = {s1}
    Subscribers = {}
    Lossless = {}
    SynchronousAudit = FALSE
    SourceFaults = TRUE
    SinkFaults = TRUE
    ProcessorFaults = FALSE
    SinkBuffer = 1
    CommandBuffer = 1
    SubBuffer = 1
    Edges = 0
    Derives = {}
    CauseKinds = {}
    MaxCommands = 2
    MaxObservations = 0
INVARIANT AcceptedIsPublished
PROPERTY EveryoneReturns
CHECK_DEADLOCK FALSE
