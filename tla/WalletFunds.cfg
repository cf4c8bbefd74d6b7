CONSTANTS
    None = None
    Threads = {t1, t2}
    Orders = {o1}
    Mutexes = {m1, m2}
    Users = {u1}
    Withdrawals = {w1, w2}
    Codes = {c1}
    Providers = {"epay", "stripe", "waffo"}
    ApplyQuotas = {1, 2}
    CodeQuotas = {1}
    TopUpQuota = 1
    InitQuota = 1
    LockingReads = TRUE
    MaxSpent = 1
    MaxEdits = 1
    MaxCrashes = 1
SPECIFICATION Spec
SYMMETRY Symmetry
INVARIANTS
    FrozenMatchesOpen
    AccountsExact
    TopUpCreditedOnce
    RedeemedPerEnable
PROPERTIES
    DecisionIsFinal
    MutexPerOrder
