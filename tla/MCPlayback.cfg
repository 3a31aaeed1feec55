SPECIFICATION Spec
CONSTANTS
    t1 = t1
    t2 = t2
    Tokens = {t1, t2}
    Tabs = {p1}
    Chains = {c1, c2}
    Setups <- MCSetups
    TTL = 1
    Window = 1
    MaxClock = 2
INVARIANTS
    TypeOK
    PageIsOwn
    PromptPlayWorks
PROPERTY
    PollingEnds
