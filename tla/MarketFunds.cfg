CONSTANTS
    None = None
    Orders = {o1, o2}
    ExpiringOrders = {o1}
    Requests = {r1, r2, r3}
    Pages = {p1, p2}
    Purchased = 2
    Estimates = {1}
    Charges = {0, 2}
    InitWallet = 4
    ConcurrencyLimit = 2
    MaxFaults = 1
SPECIFICATION Spec
CHECK_DEADLOCK FALSE
SYMMETRY Symmetry
INVARIANTS
    AccountsExact
    NeverSpentTwice
    CapacityMatchesSessions
