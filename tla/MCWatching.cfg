SPECIFICATION WatchSpec
CONSTANTS
    t1 = t1
    Tokens = {t1}
    Tabs = {p1}
    Chains = {c1}
    Setups <- MCSetups
    TTL = 2
    Window = 1
    MaxClock = 2
INVARIANT
    WatchedStays
