SPECIFICATION FairSpec
CONSTANTS
    Customers = {c1}
    Jobs = {j1, j2}
    Savers = {s1}
    AutoBlockDays = 1
    OnLimit = {c1}
    Limit = 1
    Promises = {0}
    MaxDay = 2
    MaxDebt = 1
    MaxFaults = 1
    NoDay = NoDay
    NoRow = NoRow
INVARIANTS
    CronTypeOK
    OverdueHadReason
PROPERTIES
    LateIsMarked
    MarkIsLogged
