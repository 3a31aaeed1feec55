SPECIFICATION Spec
CONSTANTS
    Tabs = {p1}
    Wizards = {w1, w2}
    Requests = {r1, r2}
    Tokens = {t1, t2}
    NoToken = NoToken
    NoWizard = NoWizard
    TTL = 1
    MaxClock = 2
    MaxCodes = 2
SYMMETRY Symmetry
INVARIANTS
    TypeOK
    PasswordAsked
    PasswordFormOwn
PROPERTIES
    StepsStayDead
    WizardKept
