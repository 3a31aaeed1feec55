SPECIFICATION Spec
CONSTANTS
    Players = {p1, p2}
    Downloads = {d1}
    Sizes <- MCSizes
    Headers <- MCHeaders
    Chunk = 2
    Window = 3
    MaxConcurrent = 0
INVARIANTS
    TypeOK
    GateBounded
    BodyExact
    BodyComplete
PROPERTY
    StreamsEnd
