SPECIFICATION Spec
CONSTANTS
    Procs = {p1, p2}
    Shifts = {s1, s2}
    Payments = {i1, i2}
    Amounts = {1}
    Funds = {0}
    Counts = {1}
    MaxCents = 1
    MaxSkew = 1
    MaxClock = 2
    Ops = {"open", "close", "pay", "reverse"}
    NoProc = NoProc
    NoShift = NoShift
    NoPay = NoPay
    NoReq = NoReq
SYMMETRY Symmetry
INVARIANTS
    RegisterTypeOK
    OneOpenShift
    CountedOnce
PROPERTIES
    CloseCountsWhatItFreezes
    ClosedShiftsAreFinal
    OnlyReversalsThaw
