SPECIFICATION FairSpec
CONSTANTS
    Admins = {a1}
    Resetters = {r1}
    Browsers = {b1}
    Timed = FALSE
    Second = 2
    LinkLife = 1
    MaxAttempts = 1
    MaxClock = 2
    MaxRevocations = 2
    NoProc = NoProc
    NoUser = NoUser
    NoReq = NoReq
    NoToken = NoToken
    NoTime = NoTime
    NoJob = NoJob
PROPERTIES
    EveryResetAnswered
