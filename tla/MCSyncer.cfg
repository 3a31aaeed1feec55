SPECIFICATION FairSpec
CONSTANTS
    c1 = c1
    c2 = c2
    r1 = r1
    r2 = r2
    Channels <- MCChannels
    Posts <- MCPosts
    MaxMessage = 2
    Runs <- MCRuns
    Label <- MCLabel
    Healthy <- MCHealthy
INVARIANTS
    TypeOK
    OffsetSafe
PROPERTIES
    SyncKeepsRows
    EventuallySettled
