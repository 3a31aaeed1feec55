SPECIFICATION FairSpec
CONSTANTS
    t1 = t1
    t2 = t2
    w1 = w1
    w2 = w2
    h1 = h1
    nobody = nobody
    Tokens <- MCTokens
    Workers <- MCWorkers
    Handlers <- MCHandlers
    TranscodeConcurrency = 0
    InitModes <- MCModes
    Nobody = nobody
    InDoubt = TRUE
INVARIANTS
    TypeOK
    SingleFlight
    TranscodeBound
    NoHalfFile
    PreparingOwned
    TempReleased
PROPERTIES
    ContractKept
    FinishesOnceDownloaded
