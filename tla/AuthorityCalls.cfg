SPECIFICATION Spec
CONSTANTS
    c1 = c1
    c2 = c2
    None = None
    Callers = {c1, c2}
    Ops <- Bound
    Failures = {"evidence", "await", "hang"}
    Latching = TRUE
    LoopWatchdog = TRUE
    HasPolicy = TRUE
    InitiallyBound = TRUE
    MaxCalls = 3
    MaxInputs = 1
SYMMETRY Interchangeable
INVARIANTS StopOutranksArm LiveSendIsEvidenced RestIsAccountedFor
PROPERTIES StopOutlivesEarlierReset NoSendAfterStop StopStands
CHECK_DEADLOCK FALSE
