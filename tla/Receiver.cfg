SPECIFICATION FairSpec
CONSTANTS
    s1 = s1
    s2 = s2
    None = None
    Sessions = {s1, s2}
    Shapes <- Mixed
    SafeValue = 0
    MaximumLease = 3
    MaximumClockSkew = 1
    MaximumRate = 1
    Elapse = {1, 2}
    MaxClock = 4
    MaxMessages = 3
    MaxEpoch = 2
INVARIANTS NewestWins LiveBelongsToBoot LeaseBoundsOutput
PROPERTIES OwnerMovesOutput OutputExpires
CHECK_DEADLOCK FALSE
