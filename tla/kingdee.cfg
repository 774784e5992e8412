SPECIFICATION FairSpec
CONSTANTS
    c1 = c1
    c2 = c2
    Callers = {c1, c2}
    KeepAlive = KeepAlive
    Nobody = Nobody
    Mixes <- TwoCalls
    Rows <- FewAndMany
    Months = 2
    PageSize = 2
    MaxPages = 2
    Attempts = 2
    Threshold = 2
    MaxFaults = 1
    MaxExpiries = 1
    MaxTicks = 1
INVARIANTS TypeOK ResultExact LoginEconomy OneProbe GateHeld
CHECK_DEADLOCK FALSE
PROPERTY CancelEnds
