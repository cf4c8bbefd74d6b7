------------------------- MODULE SubscriptionOrders -------------------------
(***************************************************************************)
(* Selling one subscription plan: its stock, the orders that reserve and   *)
(* consume it, and the transactions of model/subscription.go and           *)
(* controller/subscription*.go that create, complete and expire them.      *)
(*                                                                         *)
(* A database transaction is two steps.  The first takes the row locks     *)
(* (SELECT ... FOR UPDATE), reads what the code reads and makes its        *)
(* checks; the second writes and commits.  Any other transaction whose     *)
(* rows are not locked may run in between, so a value that was read        *)
(* without a lock may be stale when it is used.  The stock columns are     *)
(* written as the absolute values the code computed from its copy of the   *)
(* plan.  Between the two steps the transaction may also roll back: a      *)
(* failing statement, a lost connection or a crash.  A transaction whose   *)
(* checks fail changes nothing and is not a step.                          *)
(***************************************************************************)
EXTENDS Integers, FiniteSetsExt

CONSTANTS Users,
          Orders,               \* trade numbers
          Workers,              \* concurrent handlers, one transaction each
          None,                 \* no order, no user
          Quantities,           \* quantities an order may ask for
          StockTotals,          \* values of stock_total an admin may set
          InitStockTotals,      \* ... and those of a fresh plan
          PlanPrice,            \* quota a unit costs from the wallet
          MaxPurchasePerUser,   \* 0 means unlimited
          AllowBalancePay,
          InitQuota,            \* quota of a wallet at the start
          LockingReads,         \* the database sees FOR UPDATE (see Begin)
          MaxIssued,            \* bound on the units issued in one stock cycle
          MaxOwned              \* bound on the subscriptions of one user

ASSUME OrdersAssumption ==
    /\ IsFiniteSet(Orders)
    /\ None \notin Users \cup Orders
    /\ "plan" \notin Users \cup Orders
    /\ Users \cap Orders = {}
    /\ Quantities \subseteq Nat \ {0}
    /\ StockTotals \subseteq Nat
    /\ InitStockTotals \subseteq StockTotals
    /\ PlanPrice \in Nat
    /\ MaxPurchasePerUser \in Nat
    /\ AllowBalancePay \in BOOLEAN
    /\ InitQuota \in Nat
    /\ LockingReads \in BOOLEAN
    /\ MaxIssued \in Nat
    /\ MaxOwned \in Nat

VARIABLES plan,       \* the row of subscription_plans
          orders,     \* the rows of subscription_orders
          owned,      \* per user, the rows of user_subscriptions for the plan
          quota,      \* users.quota
          tx,         \* the transaction each worker is in
          fulfilled,  \* history: subscriptions created per order
          issued      \* history: subscriptions created in this stock cycle

vars == <<plan, orders, owned, quota, tx, fulfilled, issued>>

Row == {"plan"} \cup Users \cup Orders   \* the rows a transaction may lock

PlanType == [total : Nat, locked : Nat, sold : Nat,
             enabled : BOOLEAN, deleted : BOOLEAN]

OrderType == [status   : {"none", "pending", "success", "expired"},
              user     : Users \cup {None},
              quantity : Nat,
              reserved : Nat]

NoPlan == [total |-> 0, locked |-> 0, sold |-> 0, enabled |-> FALSE, deleted |-> FALSE]

NoOrder == [status |-> "none", user |-> None, quantity |-> 0, reserved |-> 0]

\* Which transaction, the rows it has locked, its parameters, and its copies
\* of order.stock_reserved and of the plan row.
Ops == {"idle", "create", "complete", "expire", "wallet", "balance", "bind", "update"}

TxType == [op : Ops, locks : SUBSET Row, order : Orders \cup {None},
           user : Users \cup {None}, quantity : Nat, reserved : Nat,
           plan : PlanType, total : Nat, enabled : BOOLEAN]

Idle == [op |-> "idle", locks |-> {}, order |-> None, user |-> None, quantity |-> 0,
         reserved |-> 0, plan |-> NoPlan, total |-> 0, enabled |-> FALSE]

TypeOK ==
    /\ plan \in PlanType
    /\ orders \in [Orders -> OrderType]
    /\ owned \in [Users -> Nat]
    /\ quota \in [Users -> Int]
    /\ tx \in [Workers -> TxType]
    /\ fulfilled \in [Orders -> Nat]
    /\ issued \in Nat

Init ==
    /\ \E n \in InitStockTotals : plan = [NoPlan EXCEPT !.total = n, !.enabled = TRUE]
    /\ orders = [o \in Orders |-> NoOrder]
    /\ owned = [u \in Users |-> 0]
    /\ quota = [u \in Users |-> InitQuota]
    /\ tx = [w \in Workers |-> Idle]
    /\ fulfilled = [o \in Orders |-> 0]
    /\ issued = 0
-----------------------------------------------------------------------------
(***************************************************************************)
(* Stock.                                                                  *)
(***************************************************************************)

HasStockLimit(p) == p.total > 0

\* The code's clamp at zero does not matter to a comparison with n > 0.
StockAvailable(p) == p.total - p.locked - p.sold

EnoughStock(p, n) == HasStockLimit(p) => StockAvailable(p) >= n

Reserve(p, n) == IF HasStockLimit(p) THEN p.locked + n ELSE p.locked

\* Mutant: an order counts as one unit whatever its quantity.
ConsumeDirect_One(p, n) == IF HasStockLimit(p) THEN p.sold + 1 ELSE p.sold

ConsumeDirect(p, n) == IF HasStockLimit(p) THEN p.sold + n ELSE p.sold

ReservedBy(o) == IF orders[o].status = "pending" THEN orders[o].reserved ELSE 0

\* Mutants: a smaller limit need not cover what is locked; the switch does
\* not ask for reserved orders.
StockUpdateAllowed_SoldOnly(p, nextTotal) ==
    /\ (p.total > 0) # (nextTotal > 0) => \A o \in Orders : ReservedBy(o) = 0
    /\ p.total > 0 /\ nextTotal > 0 => nextTotal >= p.sold

StockUpdateAllowed_Unblocked(p, nextTotal) ==
    p.total > 0 /\ nextTotal > 0 => nextTotal >= p.locked + p.sold

\* PrepareSubscriptionPlanStockUpdateTx: turning the limit on or off starts a
\* new stock cycle and is refused while an order holds a reservation; a
\* smaller limit must still cover what is locked and sold.
StockUpdateAllowed(p, nextTotal) ==
    /\ (p.total > 0) # (nextTotal > 0) => \A o \in Orders : ReservedBy(o) = 0
    /\ p.total > 0 /\ nextTotal > 0 => nextTotal >= p.locked + p.sold

SameCycle(p, nextTotal) == p.total > 0 /\ nextTotal > 0

\* Mutant: the quantity is not added to the count.
LimitAllows_OneLeft(u, n) == MaxPurchasePerUser > 0 => owned[u] < MaxPurchasePerUser

\* The count of CreateUserSubscriptionFromPlanTx, made once per unit of the
\* order, and the count made up front by the purchases: both come to this.
LimitAllows(u, n) == MaxPurchasePerUser > 0 => owned[u] + n <= MaxPurchasePerUser
-----------------------------------------------------------------------------
(***************************************************************************)
(* Transactions.                                                           *)
(***************************************************************************)

RowsFree(rows) == \A w \in Workers : tx[w].locks \cap rows = {}

\* The code asks for row locks with Set("gorm:query_option", "FOR UPDATE").
\* Where the database layer does not turn that into a locking read, the
\* transaction reads the same rows and holds none of them.
Begin(w, t) ==
    /\ tx[w].op = "idle"
    /\ RowsFree(t.locks)
    /\ tx' = [tx EXCEPT ![w] = [t EXCEPT !.locks = IF LockingReads THEN t.locks ELSE {}]]
    /\ UNCHANGED <<plan, orders, owned, quota, fulfilled, issued>>

\* A trade number is used for one order.
Unused(o) == orders[o].status = "none" /\ \A w \in Workers : tx[w].order # o

Issue(w) ==
    /\ issued + tx[w].quantity <= MaxIssued
    /\ owned[tx[w].user] + tx[w].quantity <= MaxOwned
    /\ owned' = [owned EXCEPT ![tx[w].user] = @ + tx[w].quantity]
    /\ issued' = issued + tx[w].quantity

IssueForOrder(w) ==
    /\ Issue(w)
    /\ fulfilled' = [fulfilled EXCEPT ![tx[w].order] = @ + tx[w].quantity]

\* The writes of a purchase that is paid from the wallet: the order is
\* created as a success.
PaidOrder(w) ==
    [status |-> "success", user |-> tx[w].user, quantity |-> tx[w].quantity, reserved |-> 0]

End(w) == tx' = [tx EXCEPT ![w] = Idle]

Rollback(w) ==
    /\ tx[w].op # "idle"
    /\ End(w)
    /\ UNCHANGED <<plan, orders, owned, quota, fulfilled, issued>>
-----------------------------------------------------------------------------
(***************************************************************************)
(* createPendingSubscriptionOrder.  Without a stock limit nothing is       *)
(* reserved and the order's stock_reserved is 0.                           *)
(***************************************************************************)

CreatePendingOrder(w, o, u, n) ==
    /\ Unused(o)
    /\ plan.enabled /\ ~plan.deleted
    /\ LimitAllows(u, n)
    /\ EnoughStock(plan, n)
    /\ Begin(w, [Idle EXCEPT !.op = "create", !.locks = {"plan"}, !.order = o,
                             !.user = u, !.quantity = n, !.plan = plan])

CommitCreate(w) ==
    /\ tx[w].op = "create"
    /\ plan' = [plan EXCEPT !.locked = Reserve(tx[w].plan, tx[w].quantity)]
    /\ orders' = [orders EXCEPT ![tx[w].order] =
                     [status   |-> "pending",
                      user     |-> tx[w].user,
                      quantity |-> tx[w].quantity,
                      reserved |-> IF HasStockLimit(tx[w].plan)
                                   THEN tx[w].quantity ELSE 0]]
    /\ End(w)
    /\ UNCHANGED <<owned, quota, fulfilled, issued>>

(***************************************************************************)
(* The payment provider reports an order as paid, any number of times and  *)
(* at any time.  completeSubscriptionOrderWithValidation locks the order,  *)
(* and the plan only when the order holds a reservation.  For an order     *)
(* that is no longer pending it returns without a write.                   *)
(***************************************************************************)

\* Mutant: the order row is not locked.
OrderLocks_PlanOnly(o) == IF orders[o].reserved > 0 THEN {"plan"} ELSE {}

OrderLocks(o) == {o} \cup (IF orders[o].reserved > 0 THEN {"plan"} ELSE {})

OrderTx(op, o) ==
    [Idle EXCEPT !.op = op, !.locks = OrderLocks(o), !.order = o,
                 !.user = orders[o].user, !.quantity = orders[o].quantity,
                 !.reserved = orders[o].reserved, !.plan = plan]

\* Mutant: the plan is looked up without the soft-deleted ones.
ReservationIsLocked_NotDeleted(o) ==
    orders[o].reserved > 0 => ~plan.deleted /\ plan.locked >= orders[o].reserved

ReservationIsLocked(o) == orders[o].reserved > 0 => plan.locked >= orders[o].reserved

CompleteSubscriptionOrder(w, o) ==
    /\ orders[o].status = "pending"
    /\ ReservationIsLocked(o)
    /\ LimitAllows(orders[o].user, orders[o].quantity)
    /\ Begin(w, OrderTx("complete", o))

\* The read finds a soft-deleted plan too, the UPDATE does not.
ConsumeReserved(p, n) ==
    IF n > 0 /\ ~plan.deleted
    THEN [plan EXCEPT !.locked = p.locked - n, !.sold = p.sold + n]
    ELSE plan

CommitComplete(w) ==
    /\ tx[w].op = "complete"
    /\ plan' = ConsumeReserved(tx[w].plan, tx[w].reserved)
    /\ orders' = [orders EXCEPT ![tx[w].order] =
                     [@ EXCEPT !.status = "success", !.reserved = 0]]
    /\ IssueForOrder(w)
    /\ End(w)
    /\ UNCHANGED quota

(***************************************************************************)
(* expireSubscriptionOrderTx: the sweep of runSubscriptionQuotaResetOnce,  *)
(* a payment page that could not be opened, a session the provider lets    *)
(* expire.                                                                 *)
(***************************************************************************)

ExpireSubscriptionOrder(w, o) ==
    /\ orders[o].status = "pending"
    /\ ReservationIsLocked(o)
    /\ Begin(w, OrderTx("expire", o))

ReleaseReserved(p, n) ==
    IF n > 0 /\ ~plan.deleted THEN [plan EXCEPT !.locked = p.locked - n] ELSE plan

CommitExpire(w) ==
    /\ tx[w].op = "expire"
    /\ plan' = ReleaseReserved(tx[w].plan, tx[w].reserved)
    /\ orders' = [orders EXCEPT ![tx[w].order] =
                     [@ EXCEPT !.status = "expired", !.reserved = 0]]
    /\ End(w)
    /\ UNCHANGED <<owned, quota, fulfilled, issued>>
-----------------------------------------------------------------------------
(***************************************************************************)
(* Purchases from the wallet.  PurchaseSubscriptionWithWallet locks the    *)
(* plan and the user and deducts WHERE quota >= price.                     *)
(***************************************************************************)

WalletLocks(u) == {"plan", u}

PurchaseWithWallet(w, o, u, n) ==
    /\ Unused(o)
    /\ plan.enabled /\ ~plan.deleted
    /\ LimitAllows(u, n)
    /\ quota[u] >= PlanPrice * n
    /\ EnoughStock(plan, n)
    /\ Begin(w, [Idle EXCEPT !.op = "wallet", !.locks = WalletLocks(u), !.order = o,
                             !.user = u, !.quantity = n, !.plan = plan])

CommitWallet(w) ==
    LET cost == PlanPrice * tx[w].quantity
    IN  /\ tx[w].op = "wallet"
        /\ plan' = [plan EXCEPT !.sold = ConsumeDirect(tx[w].plan, tx[w].quantity)]
        /\ quota[tx[w].user] >= cost
        /\ quota' = [quota EXCEPT ![tx[w].user] = @ - cost]
        /\ orders' = [orders EXCEPT ![tx[w].order] = PaidOrder(w)]
        /\ IssueForOrder(w)
        /\ End(w)

(***************************************************************************)
(* PurchaseSubscriptionWithBalance locks the user alone and reads the plan *)
(* through the plan cache.  The cached copy may be as old as its TTL, so   *)
(* whether it shows the plan as enabled and present is left open.  The     *)
(* stock is neither checked nor consumed.                                  *)
(***************************************************************************)

\* Mutant: the user row is read without a lock.
BalanceLocks_None(u) == {}

BalanceLocks(u) == {u}

PurchaseWithBalance(w, o, u) ==
    /\ AllowBalancePay
    /\ Unused(o)
    /\ quota[u] >= PlanPrice
    /\ LimitAllows(u, 1)
    /\ Begin(w, [Idle EXCEPT !.op = "balance", !.locks = BalanceLocks(u), !.order = o,
                             !.user = u, !.quantity = 1])

CommitBalance(w) ==
    /\ tx[w].op = "balance"
    /\ quota' = [quota EXCEPT ![tx[w].user] = @ - PlanPrice]
    /\ orders' = [orders EXCEPT ![tx[w].order] = PaidOrder(w)]
    /\ IssueForOrder(w)
    /\ End(w)
    /\ UNCHANGED plan

\* Relayed requests spend from the same wallet: one UPDATE, which waits for
\* the row lock (see BillingSession for the requests themselves).
RelaySpend(u) ==
    /\ RowsFree({u})
    /\ quota[u] > 0
    /\ quota' = [quota EXCEPT ![u] = @ - 1]
    /\ UNCHANGED <<plan, orders, owned, tx, fulfilled, issued>>
-----------------------------------------------------------------------------
(***************************************************************************)
(* Administration.  AdminBindSubscription gives a unit away: it asks       *)
(* neither for payment nor for an enabled plan, but consumes stock.        *)
(***************************************************************************)

AdminBindSubscription(w, u) ==
    /\ ~plan.deleted
    /\ EnoughStock(plan, 1)
    /\ LimitAllows(u, 1)
    /\ Begin(w, [Idle EXCEPT !.op = "bind", !.locks = {"plan"}, !.user = u,
                             !.quantity = 1, !.plan = plan])

CommitBind(w) ==
    /\ tx[w].op = "bind"
    /\ plan' = [plan EXCEPT !.sold = ConsumeDirect(tx[w].plan, tx[w].quantity)]
    /\ Issue(w)
    /\ End(w)
    /\ UNCHANGED <<orders, quota, fulfilled>>

AdminUpdatePlan(w, nextTotal, enabled) ==
    /\ ~plan.deleted
    /\ StockUpdateAllowed(plan, nextTotal)
    /\ Begin(w, [Idle EXCEPT !.op = "update", !.locks = {"plan"}, !.plan = plan,
                             !.total = nextTotal, !.enabled = enabled])

CommitUpdate(w) ==
    LET p == tx[w].plan
        keep == SameCycle(p, tx[w].total)
    IN  /\ tx[w].op = "update"
        /\ plan' = [plan EXCEPT !.total = tx[w].total,
                                !.locked = IF keep THEN p.locked ELSE 0,
                                !.sold = IF keep THEN p.sold ELSE 0,
                                !.enabled = tx[w].enabled]
        /\ issued' = IF keep THEN issued ELSE 0
        /\ End(w)
        /\ UNCHANGED <<orders, owned, quota, fulfilled>>

\* One UPDATE each; a soft-deleted plan is out of their sight.
AdminUpdatePlanStatus(enabled) ==
    /\ RowsFree({"plan"})
    /\ ~plan.deleted
    /\ plan' = [plan EXCEPT !.enabled = enabled]
    /\ UNCHANGED <<orders, owned, quota, tx, fulfilled, issued>>

AdminDeletePlan ==
    /\ RowsFree({"plan"})
    /\ ~plan.deleted
    /\ plan' = [plan EXCEPT !.deleted = TRUE]
    /\ UNCHANGED <<orders, owned, quota, tx, fulfilled, issued>>

\* A hard delete: the row no longer counts against the purchase limit, and
\* the stock does not get its unit back.
AdminDeleteUserSubscription(u) ==
    /\ owned[u] > 0
    /\ owned' = [owned EXCEPT ![u] = @ - 1]
    /\ UNCHANGED <<plan, orders, quota, tx, fulfilled, issued>>
-----------------------------------------------------------------------------
Commit(w) == \/ CommitCreate(w) \/ CommitComplete(w) \/ CommitExpire(w)
             \/ CommitWallet(w) \/ CommitBalance(w)
             \/ CommitBind(w) \/ CommitUpdate(w)

Next ==
    \/ \E w \in Workers :
          \/ Commit(w)
          \/ Rollback(w)
          \/ \E o \in Orders : \/ CompleteSubscriptionOrder(w, o)
                               \/ ExpireSubscriptionOrder(w, o)
          \/ \E o \in Orders, u \in Users : PurchaseWithBalance(w, o, u)
          \/ \E o \in Orders, u \in Users, n \in Quantities :
                \/ CreatePendingOrder(w, o, u, n)
                \/ PurchaseWithWallet(w, o, u, n)
          \/ \E u \in Users : AdminBindSubscription(w, u)
          \/ \E n \in StockTotals, b \in BOOLEAN : AdminUpdatePlan(w, n, b)
    \/ \E b \in BOOLEAN : AdminUpdatePlanStatus(b)
    \/ AdminDeletePlan
    \/ \E u \in Users : AdminDeleteUserSubscription(u) \/ RelaySpend(u)

Spec == Init /\ [][Next]_vars

\* A transaction ends: it commits or is rolled back.  The sweep runs for
\* ever and its wait for the row locks is queued by the database.
Fairness ==
    /\ \A w \in Workers : WF_vars(Commit(w) \/ Rollback(w))
    /\ \A o \in Orders : SF_vars(\E w \in Workers : ExpireSubscriptionOrder(w, o))
    /\ \A o \in Orders : SF_vars(\E w \in Workers : tx[w].order = o /\ CommitExpire(w))

FairSpec == Spec /\ Fairness
-----------------------------------------------------------------------------
(***************************************************************************)
(* Properties.                                                             *)
(***************************************************************************)

\* stock_locked and stock_sold together never exceed stock_total, whichever
\* purchases, expiries and admin updates of the total race for the last unit
\* (lockSubscriptionPlanForStockTx and the checks made under its lock).
StockWithinTotal ==
    plan.total > 0 => plan.locked + plan.sold <= plan.total

\* An order yields its quantity of subscriptions exactly when it becomes a
\* success, however often the provider repeats the notification and whatever
\* sweep, expiry or rollback it races with
\* (completeSubscriptionOrderWithValidation, expireSubscriptionOrderTx).
OrderFulfilledOnce ==
    \A o \in Orders :
        fulfilled[o] = IF orders[o].status = "success" THEN orders[o].quantity ELSE 0

\* What the pending orders have reserved together.
TotalReserved == SumFunctionOnSet([o \in Orders |-> ReservedBy(o)], Orders)

\* stock_locked is exactly what the pending orders have reserved: no path
\* leaks or releases a reservation twice, also across the changes of
\* stock_total an admin makes (reserve, release and consume in
\* model/subscription.go, PrepareSubscriptionPlanStockUpdateTx).  The counters
\* of a deleted plan are no longer kept.
StockMatchesOrders == ~plan.deleted => plan.locked = TotalReserved

\* While the plan has a stock limit, the units given out in this stock cycle
\* stay within it ("stock limit and purchase limit both take effect",
\* docs/superpowers/specs/2026-04-13-subscription-plan-stock-design.md:58).
\* It is claimed for AllowBalancePay = FALSE and LockingReads = TRUE only: a
\* purchase with the balance, which plans allow by default
\* (model/subscription.go:247), does not look at the stock, and without the
\* locks two buyers take the last unit.
NoOversell == plan.total > 0 => issued <= plan.total

\* A user never owns more subscriptions of the plan than
\* max_purchase_per_user ("Max purchases per user", model/subscription.go:201).
PurchaseLimit == MaxPurchasePerUser > 0 => \A u \in Users : owned[u] <= MaxPurchasePerUser

\* A purchase never takes the wallet below zero although relayed requests
\* spend from it between the check and the deduction
\* (PurchaseSubscriptionWithWallet, PurchaseSubscriptionWithBalance).
PurchaseLeavesNoDebt ==
    [][\A u \in Users : owned'[u] > owned[u] /\ quota'[u] < quota[u] => quota'[u] >= 0]_vars

\* Every pending order ends as a success or is expired: no order keeps its
\* reservation for ever (runSubscriptionQuotaResetOnce).
PendingOrdersEnd ==
    \A o \in Orders : orders[o].status = "pending" ~> orders[o].status # "pending"
=============================================================================
