CONSTANTS
    u1 = u1
    u2 = u2
    o1 = o1
    o2 = o2
    w1 = w1
    w2 = w2
    None = None
    Users = {u1, u2}
    Orders = {o1, o2}
    Workers = {w1, w2}
    Quantities = {1, 2}
    StockTotals = {2, 3}
    InitStockTotals = {2, 3}
    PlanPrice = 0
    MaxPurchasePerUser = 2
    AllowBalancePay = FALSE
    LockingReads = TRUE
    InitQuota = 0
    MaxIssued = 4
    MaxOwned = 3
CHECK_DEADLOCK FALSE
SPECIFICATION FairSpec
INVARIANTS
    NoOversell
    PurchaseLimit
PROPERTIES
    PendingOrdersEnd
