SPECIFICATION Spec
CONSTANTS
    Customers = {1}
    Procs = {p1, p2}
    Keys = {k1, k2, k3}
    BatchKeys = {}
    Amounts = {1, 2}
    Limits = {3}
    Percentages = {50}
    MaxCents = 3
    Ops = {"debt", "payment", "reverse"}
    NoProc = NoProc
    NoTx = NoTx
    NoRow = NoRow
    NoReq = NoReq
SYMMETRY Symmetry
INVARIANTS
    TypeOK
    LockedEntityIsCurrent
    BalanceCoversLedger
    ReversalsPaired
PROPERTIES
    RowsAreImmutable
    ImplementsAtomic
