SPECIFICATION Spec
CONSTANTS
    Customers = {1}
    Procs = {p1, p2}
    Keys = {k1, k2, k3}
    BatchKeys = {b1}
    Amounts = {1}
    Limits = {3}
    Percentages = {50}
    MaxCents = 4
    Ops = {"debt", "reverse"}
    NoProc = NoProc
    NoTx = NoTx
    NoRow = NoRow
    NoReq = NoReq
INVARIANTS
    ReversedOnce
