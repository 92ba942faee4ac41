SPECIFICATION Spec
CONSTANTS
    Customers = {c1, c2}
    Handlers = {p1, p2}
    Phones = {x, Blank}
    Blank = Blank
    Keys = {k}
    Limits = {1, 2}
    NoCustomer = NoCustomer
    NoPhone = NoPhone
    NoKey = NoKey
    NoHandler = NoHandler
    NoReq = NoReq
    NoRow = NoRow
    Absent = Absent
SYMMETRY Symmetry
INVARIANTS
    RegistryTypeOK
    OneCustomerPerKey
PROPERTIES
    SerialRequestsKeepPhonesApart
    CommitIsLogged
