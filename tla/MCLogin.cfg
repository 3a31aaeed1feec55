SPECIFICATION Spec
CONSTANTS
    IPs = {ip1}
    Requests = {r1, r2}
    MaxFails = 2
    LockFor = 2
    FailWindow = 1
    MaxAge = 3
    RenewWithin = 1
    MaxDelay = 1
    MaxClock = 7
SYMMETRY Symmetry
INVARIANTS
    TypeOK
    LateOnesRefused
    ActiveStaysIn
PROPERTIES
    LockKept
    IdleLogsOut
