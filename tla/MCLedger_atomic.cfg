SPECIFICATION Spec
CONSTANTS
    Customers = {1, 2}
    Procs = {p1, p2}
    Keys = {k1, k2}
    BatchKeys = {b1}
    Amounts = {2}
    Limits = {3}
    Percentages = {50}
    MaxCents = 4
    Ops = {"debt", "payment", "mixed", "forgive", "merge", "inflation", "limit"}
    NoProc = NoProc
    NoTx = NoTx
    NoRow = NoRow
    NoReq = NoReq
SYMMETRY Symmetry
INVARIANTS
    BalanceIsLedgerSum
    NoDeadlock
    BatchIsAllOrNothing
PROPERTIES
    ImplementsAtomic
