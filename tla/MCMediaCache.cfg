SPECIFICATION FairSpec
CONSTANTS
    k1 = k1
    k2 = k2
    c1 = c1
    c2 = c2
    free = free
    Keys <- MCKeys
    Callers <- MCCallers
    Sizes <- MCSizes
    MaxBytes = 2
    TTL = 1
    MaxClock = 3
    Free = free
    Faults <- AllFaults
INVARIANTS
    TypeOK
    LedgerExact
    WithinLimit
    EntryBacked
    DiskWithinLimit
    RecentStays
PROPERTIES
    NoSpaceJustified
    EvictionNeeded
    StoreReturns
