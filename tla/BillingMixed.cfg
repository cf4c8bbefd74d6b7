CONSTANTS
    r1 = r1
    r2 = r2
    Requests = {r1, r2}
    RequestKinds <- MixedKinds
    ActualQuotas = {0, 3}
    ReserveTargets = {3}
    InitUserQuota = 2
    InitTokenQuota = 4
    TokenUnlimited = FALSE
    TrustQuota = 1
    RetryTimes = 0
    FirstChunkFailover = FALSE
    ViolationFee = 1
    MaxFaults = 0
    MaxReserves = 1
    MaxPeriods = 1
    Subs <- TwoSubs
    AmountTotal <- Totals34
SPECIFICATION Spec
SYMMETRY Symmetry
INVARIANTS
    TypeOK
    SessionAccounts
    UsedWithinTotal
    SubscriptionUseExact
    RowsMatchSessions
