CONSTANTS
    r1 = r1
    r2 = r2
    Requests = {r1, r2}
    RequestKinds <- FaultKinds
    ActualQuotas = {3}
    ReserveTargets = {3}
    InitUserQuota = 3
    InitTokenQuota = 3
    TokenUnlimited = FALSE
    TrustQuota = 0
    RetryTimes = 1
    FirstChunkFailover = TRUE
    ViolationFee = 0
    MaxFaults = 2
    MaxReserves = 1
    MaxPeriods = 0
    Subs <- OneSub
    AmountTotal <- Totals3
SPECIFICATION Spec
PROPERTIES
    LedgersKept
    SettledIsFinal
    RequestsFinish
    RefundsArePaid
