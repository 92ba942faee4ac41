SPECIFICATION FairSpec
CONSTANTS
    Customers = {1, 2}
    Procs = {p1, p2}
    Keys = {k1}
    BatchKeys = {b1}
    Amounts = {1}
    Limits = {1}
    Percentages = {50}
    MaxCents = 1
    Ops = {"debt", "merge", "inflation", "toggle"}
    NoProc = NoProc
    NoTx = NoTx
    NoRow = NoRow
    NoReq = NoReq
PROPERTIES
    DebtWithinTerms
    EveryRequestAnswered
