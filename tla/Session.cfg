SPECIFICATION FairSpec
CONSTANTS
    c1 = c1
    m1 = m1
    m2 = m2
    Owner = Owner
    Free = Free
    Worker = Worker
    Callers = {c1}
    Mirrors = {m1, m2}
    Ops = {"rumble", "apply", "disarm"}
    Faults = {"open", "contract", "source", "stuck", "store", "motor", "witness", "timeout"}
    MaxPending = 1
    MaxCalls = 1
    MaxFaults = 1
INVARIANTS CleanCloseIsWhole EvidenceIsHeld ChainsStayLinked RumbleIsAudited NoRumbleAcrossFooter
PROPERTIES SessionFinalizes
CHECK_DEADLOCK FALSE
