SPECIFICATION FairSpec
CONSTANTS
    Handlers = {p1, p2}
    Cron = Cron
    Payments = {i1, i2}
    alias = alias
    currency = currency
    Settings <- MCSettings
    Forms <- MCForms
    Sessions = {s1}
    Period = 1
    Grace = 0
    TokenLife = 1
    MaxTime = 2
    MaxFaults = 1
    NoProc = NoProc
    NoDate = NoDate
    NoTenant = NoTenant
    NoReq = NoReq
    NoToken = NoToken
ACTION_CONSTRAINT StepsApart
INVARIANTS
    SubscriptionTypeOK
    AccessEndsWithToken
PROPERTIES
    OnePeriodPerPayment
    SettingsAreMerged
    PaidIsCredited
