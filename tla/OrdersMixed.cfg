CONSTANTS
    u1 = u1
    u2 = u2
    o1 = o1
    o2 = o2
    w1 = w1
    w2 = w2
    None = None
    Users = {u1}
    Orders = {o1, o2}
    Workers = {w1, w2}
    Quantities = {1, 2}
    StockTotals = {0, 1, 2}
    InitStockTotals = {0, 1, 2}
    PlanPrice = 1
    MaxPurchasePerUser = 0
    AllowBalancePay = TRUE
    LockingReads = TRUE
    InitQuota = 2
    MaxIssued = 3
    MaxOwned = 2
CHECK_DEADLOCK FALSE
SPECIFICATION Spec
SYMMETRY Symmetry
INVARIANTS
    StockWithinTotal
    StockMatchesOrders
    OrderFulfilledOnce
PROPERTIES
    PurchaseLeavesNoDebt
