SPECIFICATION FairSpec
CONSTANTS
    c1 = c1
    c2 = c2
    None = None
    Callers = {c1, c2}
    Ops <- Lifetimes
    Failures = {"evidence", "send", "clock", "hang"}
    Latching = FALSE
    LoopWatchdog = FALSE
    HasPolicy = FALSE
    InitiallyBound = FALSE
    MaxCalls = 3
    MaxInputs = 1
INVARIANT BootstrapBeforeLive
PROPERTY EveryCallReturns
CHECK_DEADLOCK FALSE
