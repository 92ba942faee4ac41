SPECIFICATION Spec
CONSTANTS
    Admins = {a1, a2}
    Resetters = {r1}
    Browsers = {b1}
    Timed = TRUE
    Second = 2
    LinkLife = 1
    MaxAttempts = 2
    MaxClock = 3
    MaxRevocations = 2
    NoProc = NoProc
    NoUser = NoUser
    NoReq = NoReq
    NoToken = NoToken
    NoTime = NoTime
    NoJob = NoJob
SYMMETRY Symmetry
INVARIANTS
    SessionsTypeOK
    KillSwitch
PROPERTIES
    FreshSessionWorks
