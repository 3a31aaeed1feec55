SPECIFICATION FairSpec
CONSTANTS
    c1 = c1
    c2 = c2
    r1 = r1
    r2 = r2
    Channels <- MCChannels
    Posts <- MCChannels
    MaxMessage = 2
    Runs <- OneRun
    Label <- MCLabel
    Healthy <- MCHealthy
PROPERTY
    PeriodicRunsSuffice
