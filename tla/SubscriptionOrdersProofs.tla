----------------------- MODULE SubscriptionOrdersProofs -----------------------
(***************************************************************************)
(* TLAPS proofs about SubscriptionOrders, for any number of users, orders  *)
(* and concurrent transactions, any quantities, totals and prices, and     *)
(* about SubscriptionGroups, for any plans and numbers of subscriptions.   *)
(***************************************************************************)
EXTENDS SubscriptionOrders, SubscriptionGroups, Sums

(***************************************************************************)
(* The inductive invariant: what the row locks guarantee, given that the   *)
(* reads are locking reads.                                                *)
(***************************************************************************)

\* A row is locked by one transaction at most.
LocksDisjoint ==
    \A v, w \in Workers : v # w => tx[v].locks \cap tx[w].locks = {}

\* Two transactions never work on the same order.
OrdersDistinct ==
    \A v, w \in Workers : v # w /\ tx[v].order # None => tx[v].order # tx[w].order

\* What a transaction has read under its locks is still true.
TxOK(t) ==
    /\ t.op = "idle" => t.locks = {}
    /\ t.op \in {"idle", "bind", "update"} => t.order = None
    /\ "plan" \in t.locks => t.plan = plan
    /\ t.op \in {"create", "wallet", "bind", "update"} => "plan" \in t.locks
    /\ t.op \in {"create", "wallet", "bind"} => EnoughStock(t.plan, t.quantity)
    /\ t.op \in {"create", "wallet", "balance", "bind"} => t.user \in Users
    /\ t.op \in {"create", "wallet", "balance"} =>
          t.order \in Orders /\ orders[t.order].status = "none"
    /\ t.op = "balance" => t.user \in t.locks /\ quota[t.user] >= PlanPrice
    /\ t.op = "wallet" => t.user \in t.locks
    /\ t.op \in {"complete", "expire"} =>
          /\ t.order \in Orders \cap t.locks
          /\ orders[t.order].status = "pending"
          /\ t.user = orders[t.order].user
          /\ t.quantity = orders[t.order].quantity
          /\ t.reserved = orders[t.order].reserved
          /\ t.reserved > 0 => "plan" \in t.locks /\ plan.locked >= t.reserved
    /\ t.op = "update" /\ SameCycle(t.plan, t.total) =>
          t.total >= t.plan.locked + t.plan.sold

PendingHaveUser == \A o \in Orders : orders[o].status = "pending" => orders[o].user \in Users

IInv ==
    /\ LockingReads
    /\ TypeOK
    /\ LocksDisjoint
    /\ OrdersDistinct
    /\ \A w \in Workers : TxOK(tx[w])
    /\ PendingHaveUser
    /\ StockWithinTotal
    /\ OrderFulfilledOnce
------------------------------------------------------------------------------
LEMMA IdleType == Idle \in TxType
BY DEF Idle, TxType, Ops, NoPlan, PlanType

LEMMA InitInvariant == LockingReads /\ Init => IInv
<1> SUFFICES ASSUME LockingReads, Init PROVE IInv
    OBVIOUS
<1> USE OrdersAssumption
<1>1. TypeOK
    <2>1. plan \in PlanType
        <3>1. PICK n \in InitStockTotals : plan = [NoPlan EXCEPT !.total = n, !.enabled = TRUE]
            BY DEF Init
        <3>2. n \in Nat
            OBVIOUS
        <3> QED
            BY <3>1, <3>2 DEF NoPlan, PlanType
    <2>2. orders \in [Orders -> OrderType]
        BY DEF Init, NoOrder, OrderType
    <2>3. tx \in [Workers -> TxType]
        BY IdleType DEF Init
    <2>4. /\ owned \in [Users -> Nat] /\ quota \in [Users -> Int]
          /\ fulfilled \in [Orders -> Nat] /\ issued \in Nat
        BY DEF Init
    <2> QED
        BY <2>1, <2>2, <2>3, <2>4 DEF TypeOK
<1>2. LocksDisjoint /\ OrdersDistinct
    BY DEF Init, Idle, LocksDisjoint, OrdersDistinct
<1>3. \A w \in Workers : TxOK(tx[w])
    BY DEF Init, Idle, TxOK
<1>4. PendingHaveUser
    BY DEF Init, NoOrder, PendingHaveUser
<1>5. StockWithinTotal
    BY DEF Init, NoPlan, StockWithinTotal
<1>6. OrderFulfilledOnce
    BY DEF Init, NoOrder, OrderFulfilledOnce
<1> QED
    BY <1>1, <1>2, <1>3, <1>4, <1>5, <1>6 DEF IInv

------------------------------------------------------------------------------
(* Beginning a transaction.  The new transaction has read what TxOK asks   *)
(* for, its rows were free and no other transaction works on its order.    *)

LEMMA BeginInvariant ==
    ASSUME IInv, NEW w \in Workers, NEW t \in TxType, Begin(w, t), TxOK(t),
           \A v \in Workers : t.order # None => tx[v].order # t.order
    PROVE  IInv'
<1> USE DEF IInv
<1>1. /\ plan' = plan /\ orders' = orders /\ owned' = owned /\ quota' = quota
      /\ fulfilled' = fulfilled /\ issued' = issued
      /\ tx' = [tx EXCEPT ![w] = t]
      /\ \A v \in Workers : tx[v].locks \cap t.locks = {}
    <2>1. t = [t EXCEPT !.locks = t.locks]
        BY DEF TxType
    <2> QED
        BY <2>1 DEF Begin, RowsFree
<1>2. tx \in [Workers -> TxType]
    BY DEF TypeOK
<1>3. TypeOK'
    BY <1>1, <1>2 DEF TypeOK
<1>4. \A v \in Workers : tx'[v] = IF v = w THEN t ELSE tx[v]
    BY <1>1, <1>2
<1>5. LocksDisjoint'
    BY <1>1, <1>4 DEF LocksDisjoint
<1>6. OrdersDistinct'
    BY <1>4 DEF OrdersDistinct
<1>7. ASSUME NEW v \in Workers PROVE TxOK(tx[v])'
    <2>1. TxOK(tx'[v])
        BY <1>4
    <2> QED
        BY <2>1, <1>1 DEF TxOK
<1>8. PendingHaveUser' /\ StockWithinTotal' /\ OrderFulfilledOnce'
    BY <1>1 DEF PendingHaveUser, StockWithinTotal, OrderFulfilledOnce
<1> QED
    BY <1>3, <1>5, <1>6, <1>7, <1>8

LEMMA PlanFields ==
    ASSUME TypeOK
    PROVE  /\ plan.total \in Nat /\ plan.locked \in Nat /\ plan.sold \in Nat
           /\ plan \in PlanType
BY DEF TypeOK, PlanType

\* An order another transaction works on is locked or not yet there.
LEMMA OrderNotInUse ==
    ASSUME IInv, NEW o \in Orders, orders[o].status = "pending",
           NEW v \in Workers, o \notin tx[v].locks
    PROVE  tx[v].order # o
<1>1. TxOK(tx[v]) /\ tx[v] \in TxType
    BY DEF IInv, TypeOK
<1>2. tx[v].op \in Ops
    BY <1>1 DEF TxType
<1> QED
    BY <1>1, <1>2, OrdersAssumption DEF TxOK, Ops

LEMMA CreateBegins ==
    ASSUME IInv, NEW w \in Workers, NEW o \in Orders, NEW u \in Users,
           NEW n \in Quantities, CreatePendingOrder(w, o, u, n)
    PROVE  IInv'
<1> DEFINE t == [Idle EXCEPT !.op = "create", !.locks = {"plan"}, !.order = o,
                             !.user = u, !.quantity = n, !.plan = plan]
<1>1. plan \in PlanType /\ n \in Nat
    BY PlanFields, OrdersAssumption DEF IInv
<1>2. t \in TxType
    BY <1>1 DEF Idle, TxType, Ops, Row
<1>3. TxOK(t)
    BY DEF CreatePendingOrder, Idle, TxOK, Unused
<1>4. Begin(w, t)
    BY DEF CreatePendingOrder
<1>5. \A v \in Workers : tx[v].order # t.order
    BY DEF CreatePendingOrder, Unused, Idle
<1> HIDE DEF t
<1> QED
    BY <1>2, <1>3, <1>4, <1>5, BeginInvariant

LEMMA WalletBegins ==
    ASSUME IInv, NEW w \in Workers, NEW o \in Orders, NEW u \in Users,
           NEW n \in Quantities, PurchaseWithWallet(w, o, u, n)
    PROVE  IInv'
<1> DEFINE t == [Idle EXCEPT !.op = "wallet", !.locks = WalletLocks(u), !.order = o,
                             !.user = u, !.quantity = n, !.plan = plan]
<1>1. plan \in PlanType /\ n \in Nat
    BY PlanFields, OrdersAssumption DEF IInv
<1>2. t \in TxType
    BY <1>1 DEF Idle, TxType, Ops, Row, WalletLocks
<1>3. TxOK(t)
    BY DEF PurchaseWithWallet, Idle, TxOK, Unused, WalletLocks
<1>4. Begin(w, t)
    BY DEF PurchaseWithWallet
<1>5. \A v \in Workers : tx[v].order # t.order
    BY DEF PurchaseWithWallet, Unused, Idle
<1> HIDE DEF t
<1> QED
    BY <1>2, <1>3, <1>4, <1>5, BeginInvariant

LEMMA BalanceBegins ==
    ASSUME IInv, NEW w \in Workers, NEW o \in Orders, NEW u \in Users,
           PurchaseWithBalance(w, o, u)
    PROVE  IInv'
<1> DEFINE t == [Idle EXCEPT !.op = "balance", !.locks = BalanceLocks(u), !.order = o,
                             !.user = u, !.quantity = 1]
<1>1. t \in TxType
    BY DEF Idle, TxType, Ops, Row, BalanceLocks, NoPlan, PlanType
<1>2. TxOK(t)
    BY OrdersAssumption DEF PurchaseWithBalance, Idle, TxOK, Unused, BalanceLocks
<1>3. Begin(w, t)
    BY DEF PurchaseWithBalance
<1>4. \A v \in Workers : tx[v].order # t.order
    BY DEF PurchaseWithBalance, Unused, Idle
<1> HIDE DEF t
<1> QED
    BY <1>1, <1>2, <1>3, <1>4, BeginInvariant

LEMMA BindBegins ==
    ASSUME IInv, NEW w \in Workers, NEW u \in Users, AdminBindSubscription(w, u)
    PROVE  IInv'
<1> DEFINE t == [Idle EXCEPT !.op = "bind", !.locks = {"plan"}, !.user = u,
                             !.quantity = 1, !.plan = plan]
<1>1. plan \in PlanType
    BY PlanFields DEF IInv
<1>2. t \in TxType
    BY <1>1 DEF Idle, TxType, Ops, Row
<1>3. TxOK(t) /\ t.order = None
    BY DEF AdminBindSubscription, Idle, TxOK
<1>4. Begin(w, t)
    BY DEF AdminBindSubscription
<1> HIDE DEF t
<1> QED
    BY <1>2, <1>3, <1>4, BeginInvariant

LEMMA UpdateBegins ==
    ASSUME IInv, NEW w \in Workers, NEW n \in StockTotals, NEW b \in BOOLEAN,
           AdminUpdatePlan(w, n, b)
    PROVE  IInv'
<1> DEFINE t == [Idle EXCEPT !.op = "update", !.locks = {"plan"}, !.plan = plan,
                             !.total = n, !.enabled = b]
<1>1. plan \in PlanType /\ n \in Nat
    BY PlanFields, OrdersAssumption DEF IInv
<1>2. t \in TxType
    BY <1>1 DEF Idle, TxType, Ops, Row
<1>3. TxOK(t) /\ t.order = None
    BY DEF AdminUpdatePlan, StockUpdateAllowed, SameCycle, Idle, TxOK
<1>4. Begin(w, t)
    BY DEF AdminUpdatePlan
<1> HIDE DEF t
<1> QED
    BY <1>2, <1>3, <1>4, BeginInvariant

LEMMA OrderBegins ==
    ASSUME IInv, NEW w \in Workers, NEW o \in Orders,
           NEW op \in {"complete", "expire"},
           orders[o].status = "pending", ReservationIsLocked(o),
           Begin(w, OrderTx(op, o))
    PROVE  IInv'
<1> DEFINE t == OrderTx(op, o)
<1>1. plan \in PlanType
    BY PlanFields DEF IInv
<1>2. /\ orders[o] \in OrderType
      /\ orders[o].user \in Users
    BY DEF IInv, TypeOK, PendingHaveUser
<1>3. /\ orders[o].quantity \in Nat /\ orders[o].reserved \in Nat
      /\ OrderLocks(o) \subseteq Row
    BY <1>2 DEF OrderType, OrderLocks, Row
<1>4. t \in TxType
    BY <1>1, <1>2, <1>3 DEF OrderTx, Idle, TxType, Ops
<1>5. /\ t.op = op /\ t.locks = OrderLocks(o) /\ t.order = o
      /\ t.user = orders[o].user /\ t.quantity = orders[o].quantity
      /\ t.reserved = orders[o].reserved /\ t.plan = plan
    BY DEF OrderTx, Idle
<1>6. o \in OrderLocks(o) /\ (orders[o].reserved > 0 => "plan" \in OrderLocks(o))
    BY DEF OrderLocks
<1>7. TxOK(t)
    BY <1>3, <1>5, <1>6 DEF TxOK, ReservationIsLocked
<1>8. \A v \in Workers : tx[v].order # t.order
    <2>1. \A v \in Workers : o \notin tx[v].locks
        BY <1>5, <1>6 DEF Begin, RowsFree
    <2> QED
        BY <2>1, <1>5, OrderNotInUse
<1>9. Begin(w, t)
    OBVIOUS
<1> HIDE DEF t
<1> QED
    BY <1>4, <1>7, <1>8, <1>9, BeginInvariant

------------------------------------------------------------------------------
(* Ending a transaction.                                                   *)

\* The locks of the transaction that ends protect what the others have read.
LEMMA OthersOK ==
    ASSUME IInv, NEW w \in Workers, End(w),
           plan' = plan \/ "plan" \in tx[w].locks,
           \A o \in Orders : o # tx[w].order => orders'[o] = orders[o],
           \A u \in Users : u \notin tx[w].locks => quota'[u] = quota[u]
    PROVE  /\ tx' \in [Workers -> TxType]
           /\ LocksDisjoint' /\ OrdersDistinct'
           /\ \A v \in Workers : TxOK(tx[v])'
<1>1. tx \in [Workers -> TxType] /\ tx' = [tx EXCEPT ![w] = Idle]
    BY DEF IInv, TypeOK, End
<1>2. tx' \in [Workers -> TxType]
    BY <1>1, IdleType
<1>3. \A v \in Workers : tx'[v] = IF v = w THEN Idle ELSE tx[v]
    BY <1>1
<1>4. LocksDisjoint'
    BY <1>3 DEF IInv, LocksDisjoint, Idle
<1>5. OrdersDistinct'
    BY <1>3 DEF IInv, OrdersDistinct, Idle
<1>6. ASSUME NEW v \in Workers PROVE TxOK(tx[v])'
    <2>1. CASE v = w
        BY <2>1, <1>3 DEF TxOK, Idle
    <2>2. CASE v # w
        <3>1. tx'[v] = tx[v] /\ TxOK(tx[v]) /\ tx[v] \in TxType
            BY <2>2, <1>1, <1>3 DEF IInv
        <3>2. tx[v].locks \cap tx[w].locks = {}
            BY <2>2 DEF IInv, LocksDisjoint
        <3>3. "plan" \in tx[v].locks => plan' = plan
            BY <3>2
        <3>4. tx[v].order \in Orders => orders'[tx[v].order] = orders[tx[v].order]
            BY <2>2, OrdersAssumption DEF IInv, OrdersDistinct
        <3>5. tx[v].user \in Users /\ tx[v].user \in tx[v].locks
                 => quota'[tx[v].user] = quota[tx[v].user]
            BY <3>2
        <3> QED
            BY <3>1, <3>3, <3>4, <3>5 DEF TxOK
    <2> QED
        BY <2>1, <2>2
<1> QED
    BY <1>2, <1>4, <1>5, <1>6

\* The types of what a transaction holds, as the provers need them.
LEMMA TxFields ==
    ASSUME IInv, NEW w \in Workers
    PROVE  /\ TxOK(tx[w]) /\ tx[w].quantity \in Nat /\ tx[w].reserved \in Nat
           /\ tx[w].total \in Nat /\ tx[w].enabled \in BOOLEAN
           /\ tx[w].order \in Orders \cup {None}
           /\ plan \in PlanType
           /\ plan.total \in Nat /\ plan.locked \in Nat /\ plan.sold \in Nat
<1>1. tx[w] \in TxType
    BY DEF IInv, TypeOK
<1> QED
    BY <1>1, PlanFields DEF IInv, TxType

\* One order row changes and the history with it.
LEMMA OrderUpdate ==
    ASSUME IInv, NEW o \in Orders, NEW row \in OrderType,
           orders' = [orders EXCEPT ![o] = row],
           \A x \in Orders : x # o => fulfilled'[x] = fulfilled[x],
           fulfilled'[o] = IF row.status = "success" THEN row.quantity ELSE 0,
           row.user \in Users
    PROVE  /\ orders' \in [Orders -> OrderType]
           /\ \A x \in Orders : x # o => orders'[x] = orders[x]
           /\ PendingHaveUser' /\ OrderFulfilledOnce'
<1>1. orders \in [Orders -> OrderType]
    BY DEF IInv, TypeOK
<1>2. /\ orders' \in [Orders -> OrderType]
      /\ \A x \in Orders : orders'[x] = IF x = o THEN row ELSE orders[x]
    BY <1>1
<1>3. PendingHaveUser'
    BY <1>2 DEF IInv, PendingHaveUser
<1>4. OrderFulfilledOnce'
    BY <1>2 DEF IInv, OrderFulfilledOnce
<1> QED
    BY <1>2, <1>3, <1>4

LEMMA CreateCommits ==
    ASSUME IInv, NEW w \in Workers, CommitCreate(w)
    PROVE  IInv'
<1> DEFINE t == tx[w]
           row == [status |-> "pending", user |-> t.user, quantity |-> t.quantity,
                   reserved |-> IF HasStockLimit(t.plan) THEN t.quantity ELSE 0]
<1>1. /\ TxOK(t) /\ t.quantity \in Nat /\ plan \in PlanType
      /\ plan.total \in Nat /\ plan.locked \in Nat /\ plan.sold \in Nat
    BY TxFields
<1>2. /\ t.op = "create" /\ End(w)
      /\ plan' = [plan EXCEPT !.locked = Reserve(t.plan, t.quantity)]
      /\ orders' = [orders EXCEPT ![t.order] = row]
      /\ owned' = owned /\ quota' = quota /\ fulfilled' = fulfilled /\ issued' = issued
    BY DEF CommitCreate
<1>3. /\ "plan" \in t.locks /\ t.plan = plan /\ t.user \in Users
      /\ t.order \in Orders /\ orders[t.order].status = "none"
      /\ EnoughStock(plan, t.quantity)
    BY <1>1, <1>2 DEF TxOK
<1>4. row \in OrderType /\ row.status = "pending" /\ row.user \in Users
    BY <1>1, <1>3 DEF OrderType
<1>5. Reserve(plan, t.quantity) \in Nat
    BY <1>1 DEF Reserve
<1>6. plan' \in PlanType /\ StockWithinTotal'
    BY <1>1, <1>2, <1>3, <1>5
    DEF PlanType, Reserve, HasStockLimit, EnoughStock, StockAvailable, IInv, StockWithinTotal
<1>7. fulfilled[t.order] = 0
    BY <1>3 DEF IInv, OrderFulfilledOnce
<1> HIDE DEF row
<1>8. /\ orders' \in [Orders -> OrderType]
      /\ \A x \in Orders : x # t.order => orders'[x] = orders[x]
      /\ PendingHaveUser' /\ OrderFulfilledOnce'
    BY <1>2, <1>3, <1>4, <1>7, OrderUpdate
<1>9. /\ tx' \in [Workers -> TxType] /\ LocksDisjoint' /\ OrdersDistinct'
      /\ \A v \in Workers : TxOK(tx[v])'
    BY <1>2, <1>3, <1>8, OthersOK
<1>10. TypeOK'
    BY <1>2, <1>6, <1>8, <1>9 DEF IInv, TypeOK
<1> QED
    BY <1>6, <1>8, <1>9, <1>10 DEF IInv

\* What IssueForOrder does to the counters.
LEMMA IssueTypes ==
    ASSUME IInv, NEW w \in Workers, Issue(w), tx[w].user \in Users
    PROVE  owned' \in [Users -> Nat] /\ issued' \in Nat
<1>1. owned \in [Users -> Nat] /\ issued \in Nat /\ tx[w].quantity \in Nat
    BY TxFields DEF IInv, TypeOK
<1> QED
    BY <1>1 DEF Issue

LEMMA FulfilledUpdate ==
    ASSUME IInv, NEW w \in Workers, IssueForOrder(w), tx[w].order \in Orders,
           fulfilled[tx[w].order] = 0
    PROVE  /\ fulfilled' \in [Orders -> Nat]
           /\ \A x \in Orders : x # tx[w].order => fulfilled'[x] = fulfilled[x]
           /\ fulfilled'[tx[w].order] = tx[w].quantity
<1>1. fulfilled \in [Orders -> Nat] /\ tx[w].quantity \in Nat
    BY TxFields DEF IInv, TypeOK
<1> QED
    BY <1>1 DEF IssueForOrder

LEMMA CompleteCommits ==
    ASSUME IInv, NEW w \in Workers, CommitComplete(w)
    PROVE  IInv'
<1> DEFINE t == tx[w]
           row == [orders[t.order] EXCEPT !.status = "success", !.reserved = 0]
<1>1. /\ TxOK(t) /\ t.quantity \in Nat /\ t.reserved \in Nat /\ plan \in PlanType
      /\ plan.total \in Nat /\ plan.locked \in Nat /\ plan.sold \in Nat
    BY TxFields
<1>2. /\ t.op = "complete" /\ End(w) /\ IssueForOrder(w) /\ Issue(w)
      /\ plan' = ConsumeReserved(t.plan, t.reserved)
      /\ orders' = [orders EXCEPT ![t.order] = row]
      /\ quota' = quota
    BY DEF CommitComplete, IssueForOrder
<1>3. /\ t.order \in Orders /\ orders[t.order].status = "pending"
      /\ t.user = orders[t.order].user /\ t.quantity = orders[t.order].quantity
      /\ t.reserved > 0 => "plan" \in t.locks /\ t.plan = plan /\ plan.locked >= t.reserved
    BY <1>1, <1>2 DEF TxOK
<1>4. orders[t.order] \in OrderType /\ orders[t.order].user \in Users
    BY <1>3 DEF IInv, TypeOK, PendingHaveUser
<1>5. /\ row \in OrderType /\ row.status = "success" /\ row.user \in Users
      /\ row.quantity = t.quantity
    BY <1>3, <1>4 DEF OrderType
<1>6. plan' \in PlanType /\ StockWithinTotal' /\ (plan' = plan \/ "plan" \in t.locks)
    <2>1. CASE t.reserved > 0 /\ ~plan.deleted
        <3>1. plan' = [plan EXCEPT !.locked = plan.locked - t.reserved,
                                   !.sold = plan.sold + t.reserved]
            BY <2>1, <1>2, <1>3 DEF ConsumeReserved
        <3>2. plan.locked - t.reserved \in Nat /\ plan.sold + t.reserved \in Nat
            BY <2>1, <1>1, <1>3
        <3>3. /\ plan' \in PlanType /\ plan'.total = plan.total
              /\ plan'.locked = plan.locked - t.reserved
              /\ plan'.sold = plan.sold + t.reserved
            BY <3>1, <3>2, <1>1 DEF PlanType
        <3> QED
            BY <3>3, <2>1, <1>1, <1>3 DEF IInv, StockWithinTotal
    <2>2. CASE ~(t.reserved > 0 /\ ~plan.deleted)
        <3>1. plan' = plan
            BY <2>2, <1>2 DEF ConsumeReserved
        <3> QED
            BY <3>1, <1>1 DEF IInv, StockWithinTotal
    <2> QED
        BY <2>1, <2>2
<1>7. fulfilled[t.order] = 0
    BY <1>3 DEF IInv, OrderFulfilledOnce
<1>8. /\ fulfilled' \in [Orders -> Nat]
      /\ \A x \in Orders : x # t.order => fulfilled'[x] = fulfilled[x]
      /\ fulfilled'[t.order] = t.quantity
    BY <1>2, <1>3, <1>7, FulfilledUpdate
<1>9. owned' \in [Users -> Nat] /\ issued' \in Nat
    BY <1>2, <1>3, <1>4, IssueTypes
<1> HIDE DEF row
<1>10. /\ orders' \in [Orders -> OrderType]
       /\ \A x \in Orders : x # t.order => orders'[x] = orders[x]
       /\ PendingHaveUser' /\ OrderFulfilledOnce'
    BY <1>2, <1>3, <1>5, <1>8, OrderUpdate
<1>11. /\ tx' \in [Workers -> TxType] /\ LocksDisjoint' /\ OrdersDistinct'
       /\ \A v \in Workers : TxOK(tx[v])'
    BY <1>2, <1>6, <1>10, OthersOK
<1>12. TypeOK'
    BY <1>2, <1>6, <1>8, <1>9, <1>10, <1>11 DEF IInv, TypeOK
<1> QED
    BY <1>6, <1>10, <1>11, <1>12 DEF IInv

LEMMA ExpireCommits ==
    ASSUME IInv, NEW w \in Workers, CommitExpire(w)
    PROVE  IInv'
<1> DEFINE t == tx[w]
           row == [orders[t.order] EXCEPT !.status = "expired", !.reserved = 0]
<1>1. /\ TxOK(t) /\ t.reserved \in Nat /\ plan \in PlanType
      /\ plan.total \in Nat /\ plan.locked \in Nat /\ plan.sold \in Nat
    BY TxFields
<1>2. /\ t.op = "expire" /\ End(w)
      /\ plan' = ReleaseReserved(t.plan, t.reserved)
      /\ orders' = [orders EXCEPT ![t.order] = row]
      /\ owned' = owned /\ quota' = quota /\ fulfilled' = fulfilled /\ issued' = issued
    BY DEF CommitExpire
<1>3. /\ t.order \in Orders /\ orders[t.order].status = "pending"
      /\ t.reserved > 0 => "plan" \in t.locks /\ t.plan = plan /\ plan.locked >= t.reserved
    BY <1>1, <1>2 DEF TxOK
<1>4. orders[t.order] \in OrderType /\ orders[t.order].user \in Users
    BY <1>3 DEF IInv, TypeOK, PendingHaveUser
<1>5. row \in OrderType /\ row.status = "expired" /\ row.user \in Users
    BY <1>3, <1>4 DEF OrderType
<1>6. plan' \in PlanType /\ StockWithinTotal' /\ (plan' = plan \/ "plan" \in t.locks)
    <2>1. CASE t.reserved > 0 /\ ~plan.deleted
        <3>1. plan' = [plan EXCEPT !.locked = plan.locked - t.reserved]
            BY <2>1, <1>2, <1>3 DEF ReleaseReserved
        <3>2. plan.locked - t.reserved \in Nat
            BY <2>1, <1>1, <1>3
        <3>3. /\ plan' \in PlanType /\ plan'.total = plan.total
              /\ plan'.locked = plan.locked - t.reserved /\ plan'.sold = plan.sold
            BY <3>1, <3>2, <1>1 DEF PlanType
        <3> QED
            BY <3>3, <2>1, <1>1, <1>3 DEF IInv, StockWithinTotal
    <2>2. CASE ~(t.reserved > 0 /\ ~plan.deleted)
        <3>1. plan' = plan
            BY <2>2, <1>2 DEF ReleaseReserved
        <3> QED
            BY <3>1, <1>1 DEF IInv, StockWithinTotal
    <2> QED
        BY <2>1, <2>2
<1>7. fulfilled[t.order] = 0
    BY <1>3 DEF IInv, OrderFulfilledOnce
<1> HIDE DEF row
<1>8. /\ orders' \in [Orders -> OrderType]
      /\ \A x \in Orders : x # t.order => orders'[x] = orders[x]
      /\ PendingHaveUser' /\ OrderFulfilledOnce'
    BY <1>2, <1>3, <1>5, <1>7, OrderUpdate
<1>9. /\ tx' \in [Workers -> TxType] /\ LocksDisjoint' /\ OrdersDistinct'
      /\ \A v \in Workers : TxOK(tx[v])'
    BY <1>2, <1>6, <1>8, OthersOK
<1>10. TypeOK'
    BY <1>2, <1>6, <1>8, <1>9 DEF IInv, TypeOK
<1> QED
    BY <1>6, <1>8, <1>9, <1>10 DEF IInv

\* A purchase paid from the wallet creates its order as a success.
LEMMA PaidOrderUpdate ==
    ASSUME IInv, NEW w \in Workers, IssueForOrder(w),
           orders' = [orders EXCEPT ![tx[w].order] = PaidOrder(w)],
           tx[w].order \in Orders, orders[tx[w].order].status = "none",
           tx[w].user \in Users
    PROVE  /\ orders' \in [Orders -> OrderType]
           /\ \A x \in Orders : x # tx[w].order => orders'[x] = orders[x]
           /\ PendingHaveUser' /\ OrderFulfilledOnce'
           /\ fulfilled' \in [Orders -> Nat]
           /\ owned' \in [Users -> Nat] /\ issued' \in Nat
<1> DEFINE row == PaidOrder(w)
<1>1. tx[w].quantity \in Nat
    BY TxFields
<1>2. /\ row \in OrderType /\ row.status = "success" /\ row.user \in Users
      /\ row.quantity = tx[w].quantity
    BY <1>1 DEF PaidOrder, OrderType
<1>3. fulfilled[tx[w].order] = 0
    BY DEF IInv, OrderFulfilledOnce
<1>4. /\ fulfilled' \in [Orders -> Nat]
      /\ \A x \in Orders : x # tx[w].order => fulfilled'[x] = fulfilled[x]
      /\ fulfilled'[tx[w].order] = tx[w].quantity
    BY <1>3, FulfilledUpdate
<1>5. owned' \in [Users -> Nat] /\ issued' \in Nat
    BY IssueTypes DEF IssueForOrder
<1>6. orders' = [orders EXCEPT ![tx[w].order] = row]
    OBVIOUS
<1> HIDE DEF row
<1> QED
    BY <1>2, <1>4, <1>5, <1>6, OrderUpdate

\* Direct consumption stays within what was available under the lock.
LEMMA ConsumeDirectBound ==
    ASSUME IInv, NEW n \in Nat, EnoughStock(plan, n),
           plan' = [plan EXCEPT !.sold = ConsumeDirect(plan, n)]
    PROVE  plan' \in PlanType /\ StockWithinTotal'
<1>1. /\ plan \in PlanType
      /\ plan.total \in Nat /\ plan.locked \in Nat /\ plan.sold \in Nat
    BY PlanFields DEF IInv
<1>2. ConsumeDirect(plan, n) \in Nat
    BY <1>1 DEF ConsumeDirect
<1>3. /\ plan' \in PlanType /\ plan'.total = plan.total /\ plan'.locked = plan.locked
      /\ plan'.sold = ConsumeDirect(plan, n)
    BY <1>1, <1>2 DEF PlanType
<1> QED
    BY <1>1, <1>3
    DEF ConsumeDirect, HasStockLimit, EnoughStock, StockAvailable, IInv, StockWithinTotal

LEMMA WalletCommits ==
    ASSUME IInv, NEW w \in Workers, CommitWallet(w)
    PROVE  IInv'
<1> DEFINE t == tx[w]
<1>1. TxOK(t) /\ t.quantity \in Nat
    BY TxFields
<1>2. /\ t.op = "wallet" /\ End(w) /\ IssueForOrder(w)
      /\ plan' = [plan EXCEPT !.sold = ConsumeDirect(t.plan, t.quantity)]
      /\ orders' = [orders EXCEPT ![t.order] = PaidOrder(w)]
      /\ quota' = [quota EXCEPT ![t.user] = @ - PlanPrice * t.quantity]
    BY DEF CommitWallet
<1>3. /\ "plan" \in t.locks /\ t.plan = plan /\ t.user \in Users /\ t.user \in t.locks
      /\ t.order \in Orders /\ orders[t.order].status = "none"
      /\ EnoughStock(plan, t.quantity)
    BY <1>1, <1>2 DEF TxOK
<1>4. plan' \in PlanType /\ StockWithinTotal'
    BY <1>1, <1>2, <1>3, ConsumeDirectBound
<1>5. /\ orders' \in [Orders -> OrderType]
      /\ \A x \in Orders : x # t.order => orders'[x] = orders[x]
      /\ PendingHaveUser' /\ OrderFulfilledOnce'
      /\ fulfilled' \in [Orders -> Nat]
      /\ owned' \in [Users -> Nat] /\ issued' \in Nat
    BY <1>2, <1>3, PaidOrderUpdate
<1>6. /\ quota' \in [Users -> Int]
      /\ \A u \in Users : u \notin t.locks => quota'[u] = quota[u]
    <2>1. quota \in [Users -> Int]
        BY DEF IInv, TypeOK
    <2>2. PlanPrice * t.quantity \in Int
        BY <1>1, OrdersAssumption
    <2> DEFINE cost == PlanPrice * t.quantity
    <2>3. quota' = [quota EXCEPT ![t.user] = @ - cost] /\ cost \in Int
        BY <1>2, <2>2
    <2> HIDE DEF cost
    <2> QED
        BY <2>1, <2>3, <1>3
<1>7. /\ tx' \in [Workers -> TxType] /\ LocksDisjoint' /\ OrdersDistinct'
      /\ \A v \in Workers : TxOK(tx[v])'
    BY <1>2, <1>3, <1>5, <1>6, OthersOK
<1>8. TypeOK'
    BY <1>4, <1>5, <1>6, <1>7 DEF TypeOK
<1> QED
    BY <1>4, <1>5, <1>7, <1>8 DEF IInv

LEMMA BalanceCommits ==
    ASSUME IInv, NEW w \in Workers, CommitBalance(w)
    PROVE  IInv'
<1> DEFINE t == tx[w]
<1>1. TxOK(t) /\ plan \in PlanType
    BY TxFields
<1>2. /\ t.op = "balance" /\ End(w) /\ IssueForOrder(w) /\ plan' = plan
      /\ orders' = [orders EXCEPT ![t.order] = PaidOrder(w)]
      /\ quota' = [quota EXCEPT ![t.user] = @ - PlanPrice]
    BY DEF CommitBalance
<1>3. /\ t.user \in Users /\ t.user \in t.locks
      /\ t.order \in Orders /\ orders[t.order].status = "none"
    BY <1>1, <1>2 DEF TxOK
<1>4. StockWithinTotal'
    BY <1>2 DEF IInv, StockWithinTotal
<1>5. /\ orders' \in [Orders -> OrderType]
      /\ \A x \in Orders : x # t.order => orders'[x] = orders[x]
      /\ PendingHaveUser' /\ OrderFulfilledOnce'
      /\ fulfilled' \in [Orders -> Nat]
      /\ owned' \in [Users -> Nat] /\ issued' \in Nat
    BY <1>2, <1>3, PaidOrderUpdate
<1>6. /\ quota' \in [Users -> Int]
      /\ \A u \in Users : u \notin t.locks => quota'[u] = quota[u]
    BY <1>2, <1>3, OrdersAssumption DEF IInv, TypeOK
<1>7. /\ tx' \in [Workers -> TxType] /\ LocksDisjoint' /\ OrdersDistinct'
      /\ \A v \in Workers : TxOK(tx[v])'
    BY <1>2, <1>3, <1>5, <1>6, OthersOK
<1>8. TypeOK'
    BY <1>1, <1>2, <1>5, <1>6, <1>7 DEF TypeOK
<1> QED
    BY <1>4, <1>5, <1>7, <1>8 DEF IInv

LEMMA BindCommits ==
    ASSUME IInv, NEW w \in Workers, CommitBind(w)
    PROVE  IInv'
<1> DEFINE t == tx[w]
<1>1. TxOK(t) /\ t.quantity \in Nat
    BY TxFields
<1>2. /\ t.op = "bind" /\ End(w) /\ Issue(w)
      /\ plan' = [plan EXCEPT !.sold = ConsumeDirect(t.plan, t.quantity)]
      /\ orders' = orders /\ quota' = quota /\ fulfilled' = fulfilled
    BY DEF CommitBind
<1>3. /\ "plan" \in t.locks /\ t.plan = plan /\ t.user \in Users
      /\ EnoughStock(plan, t.quantity)
    BY <1>1, <1>2 DEF TxOK
<1>4. plan' \in PlanType /\ StockWithinTotal'
    BY <1>1, <1>2, <1>3, ConsumeDirectBound
<1>5. owned' \in [Users -> Nat] /\ issued' \in Nat
    BY <1>2, <1>3, IssueTypes
<1>6. PendingHaveUser' /\ OrderFulfilledOnce'
    BY <1>2 DEF IInv, PendingHaveUser, OrderFulfilledOnce
<1>7. /\ tx' \in [Workers -> TxType] /\ LocksDisjoint' /\ OrdersDistinct'
      /\ \A v \in Workers : TxOK(tx[v])'
    BY <1>2, <1>3, OthersOK
<1>8. TypeOK'
    BY <1>2, <1>4, <1>5, <1>7 DEF IInv, TypeOK
<1> QED
    BY <1>4, <1>6, <1>7, <1>8 DEF IInv

LEMMA UpdateCommits ==
    ASSUME IInv, NEW w \in Workers, CommitUpdate(w)
    PROVE  IInv'
<1> DEFINE t == tx[w]
           keep == SameCycle(plan, t.total)
           locked == IF keep THEN plan.locked ELSE 0
           sold == IF keep THEN plan.sold ELSE 0
<1>1. /\ TxOK(t) /\ t.total \in Nat /\ t.enabled \in BOOLEAN /\ plan \in PlanType
      /\ plan.total \in Nat /\ plan.locked \in Nat /\ plan.sold \in Nat
    BY TxFields
<1>2. t.op = "update" /\ End(w)
    BY DEF CommitUpdate
<1>3. "plan" \in t.locks /\ t.plan = plan /\ (keep => t.total >= plan.locked + plan.sold)
    BY <1>1, <1>2 DEF TxOK
<1>4. /\ plan' = [plan EXCEPT !.total = t.total, !.locked = locked, !.sold = sold,
                              !.enabled = t.enabled]
      /\ issued' = IF keep THEN issued ELSE 0
      /\ orders' = orders /\ owned' = owned /\ quota' = quota /\ fulfilled' = fulfilled
    BY <1>3 DEF CommitUpdate
<1>5. locked \in Nat /\ sold \in Nat /\ (t.total > 0 => locked + sold <= t.total)
    BY <1>1, <1>3
<1> HIDE DEF locked, sold, keep
<1>6. /\ plan' \in PlanType /\ plan'.total = t.total /\ plan'.locked = locked
      /\ plan'.sold = sold
    BY <1>1, <1>4, <1>5 DEF PlanType
<1>7. StockWithinTotal'
    BY <1>5, <1>6 DEF StockWithinTotal
<1>8. PendingHaveUser' /\ OrderFulfilledOnce'
    BY <1>4 DEF IInv, PendingHaveUser, OrderFulfilledOnce
<1>9. /\ tx' \in [Workers -> TxType] /\ LocksDisjoint' /\ OrdersDistinct'
      /\ \A v \in Workers : TxOK(tx[v])'
    BY <1>2, <1>3, <1>4, OthersOK
<1>10. issued' \in Nat
    BY <1>4 DEF IInv, TypeOK
<1>11. TypeOK'
    BY <1>4, <1>6, <1>9, <1>10 DEF IInv, TypeOK
<1> QED
    BY <1>7, <1>8, <1>9, <1>11 DEF IInv

LEMMA RollbackKeeps ==
    ASSUME IInv, NEW w \in Workers, Rollback(w)
    PROVE  IInv'
<1>1. /\ End(w) /\ plan' = plan /\ orders' = orders /\ owned' = owned /\ quota' = quota
      /\ fulfilled' = fulfilled /\ issued' = issued
    BY DEF Rollback
<1>2. /\ tx' \in [Workers -> TxType] /\ LocksDisjoint' /\ OrdersDistinct'
      /\ \A v \in Workers : TxOK(tx[v])'
    BY <1>1, OthersOK
<1>3. PendingHaveUser' /\ OrderFulfilledOnce' /\ StockWithinTotal'
    BY <1>1 DEF IInv, PendingHaveUser, OrderFulfilledOnce, StockWithinTotal
<1>4. TypeOK'
    BY <1>1, <1>2 DEF IInv, TypeOK
<1> QED
    BY <1>2, <1>3, <1>4 DEF IInv

------------------------------------------------------------------------------
(* The steps of a single statement wait for the row they write.            *)

LEMMA StatementKeeps ==
    ASSUME IInv, tx' = tx, orders' = orders, fulfilled' = fulfilled, issued' = issued,
           plan' \in PlanType, owned' \in [Users -> Nat], quota' \in [Users -> Int],
           plan'.total = plan.total, plan'.locked = plan.locked, plan'.sold = plan.sold,
           plan' = plan \/ RowsFree({"plan"}),
           \A u \in Users : quota'[u] = quota[u] \/ RowsFree({u})
    PROVE  IInv'
<1>1. TypeOK'
    BY DEF IInv, TypeOK
<1>2. LocksDisjoint' /\ OrdersDistinct'
    BY DEF IInv, LocksDisjoint, OrdersDistinct
<1>3. PendingHaveUser' /\ OrderFulfilledOnce' /\ StockWithinTotal'
    BY DEF IInv, PendingHaveUser, OrderFulfilledOnce, StockWithinTotal
<1>4. ASSUME NEW v \in Workers PROVE TxOK(tx[v])'
    <2>1. TxOK(tx[v])
        BY DEF IInv
    <2>2. "plan" \in tx[v].locks => plan' = plan
        BY DEF RowsFree
    <2>3. tx[v].user \in Users /\ tx[v].user \in tx[v].locks
             => quota'[tx[v].user] = quota[tx[v].user]
        BY DEF RowsFree
    <2> QED
        BY <2>1, <2>2, <2>3 DEF TxOK
<1> QED
    BY <1>1, <1>2, <1>3, <1>4 DEF IInv

LEMMA StatusKeeps ==
    ASSUME IInv, NEW b \in BOOLEAN, AdminUpdatePlanStatus(b)
    PROVE  IInv'
<1>1. /\ plan \in PlanType /\ owned \in [Users -> Nat] /\ quota \in [Users -> Int]
    BY DEF IInv, TypeOK
<1>2. /\ plan' \in PlanType /\ plan'.total = plan.total /\ plan'.locked = plan.locked
      /\ plan'.sold = plan.sold
    BY <1>1 DEF AdminUpdatePlanStatus, PlanType
<1> QED
    BY <1>1, <1>2, StatementKeeps DEF AdminUpdatePlanStatus

LEMMA DeletePlanKeeps ==
    ASSUME IInv, AdminDeletePlan
    PROVE  IInv'
<1>1. /\ plan \in PlanType /\ owned \in [Users -> Nat] /\ quota \in [Users -> Int]
    BY DEF IInv, TypeOK
<1>2. /\ plan' \in PlanType /\ plan'.total = plan.total /\ plan'.locked = plan.locked
      /\ plan'.sold = plan.sold
    BY <1>1 DEF AdminDeletePlan, PlanType
<1> QED
    BY <1>1, <1>2, StatementKeeps DEF AdminDeletePlan

LEMMA DeleteSubscriptionKeeps ==
    ASSUME IInv, NEW u \in Users, AdminDeleteUserSubscription(u)
    PROVE  IInv'
<1>1. /\ plan \in PlanType /\ owned \in [Users -> Nat] /\ quota \in [Users -> Int]
    BY DEF IInv, TypeOK
<1>2. owned' \in [Users -> Nat]
    BY <1>1 DEF AdminDeleteUserSubscription
<1> QED
    BY <1>1, <1>2, StatementKeeps DEF AdminDeleteUserSubscription

LEMMA SpendKeeps ==
    ASSUME IInv, NEW u \in Users, RelaySpend(u)
    PROVE  IInv'
<1>1. /\ plan \in PlanType /\ owned \in [Users -> Nat] /\ quota \in [Users -> Int]
    BY DEF IInv, TypeOK
<1>2. quota' = [quota EXCEPT ![u] = @ - 1] /\ RowsFree({u})
    BY DEF RelaySpend
<1>3. quota' \in [Users -> Int] /\ \A x \in Users : x # u => quota'[x] = quota[x]
    BY <1>1, <1>2
<1>4. \A x \in Users : quota'[x] = quota[x] \/ RowsFree({x})
    BY <1>2, <1>3
<1>5. /\ plan' = plan /\ orders' = orders /\ owned' = owned /\ tx' = tx
      /\ fulfilled' = fulfilled /\ issued' = issued
    BY DEF RelaySpend
<1> QED
    BY <1>1, <1>3, <1>4, <1>5, StatementKeeps

------------------------------------------------------------------------------
LEMMA NextInvariant == IInv /\ [Next]_vars => IInv'
<1> SUFFICES ASSUME IInv, [Next]_vars PROVE IInv'
    OBVIOUS
<1>1. CASE UNCHANGED vars
    BY <1>1 DEF vars, IInv, TypeOK, LocksDisjoint, OrdersDistinct, TxOK,
                PendingHaveUser, StockWithinTotal, OrderFulfilledOnce
<1>2. ASSUME NEW w \in Workers, Commit(w) PROVE IInv'
    BY <1>2, CreateCommits, CompleteCommits, ExpireCommits, WalletCommits,
       BalanceCommits, BindCommits, UpdateCommits DEF Commit
<1>3. ASSUME NEW w \in Workers, NEW o \in Orders,
             CompleteSubscriptionOrder(w, o) \/ ExpireSubscriptionOrder(w, o)
      PROVE  IInv'
    BY <1>3, OrderBegins DEF CompleteSubscriptionOrder, ExpireSubscriptionOrder
<1> QED
    BY <1>1, <1>2, <1>3, RollbackKeeps, CreateBegins, WalletBegins, BalanceBegins,
       BindBegins, UpdateBegins, StatusKeeps, DeletePlanKeeps,
       DeleteSubscriptionKeeps, SpendKeeps DEF Next

\* The inductive invariant holds in every reachable state: a row is locked by
\* one transaction at most, and what a transaction of model/subscription.go
\* has read under FOR UPDATE is still true when it writes, provided the
\* database layer issues the locking reads the code asks for.
THEOREM LocksProtectReads == LockingReads /\ Spec => []IInv
<1> QED
    BY InitInvariant, NextInvariant, PTL DEF Spec

\* stock_locked + stock_sold never exceeds a positive stock_total, for any
\* number of concurrent purchases, completions, expiries and admin updates.
THEOREM StockNeverOversold == LockingReads /\ Spec => []StockWithinTotal
<1>1. IInv => StockWithinTotal
    BY DEF IInv
<1> QED
    BY <1>1, LocksProtectReads, PTL

\* However the notifications of the payment provider are repeated and
\* reordered with expiry, an order yields its quantity exactly once.
THEOREM OrdersFulfilledOnce == LockingReads /\ Spec => []OrderFulfilledOnce
<1>1. IInv => OrderFulfilledOnce
    BY DEF IInv
<1> QED
    BY <1>1, LocksProtectReads, PTL

------------------------------------------------------------------------------
(* A purchase never overdraws the wallet.                                  *)

LEMMA StepLeavesNoDebt ==
    ASSUME IInv, [Next]_vars, NEW u \in Users,
           owned'[u] > owned[u], quota'[u] < quota[u]
    PROVE  quota'[u] >= 0
<1>1. /\ owned \in [Users -> Nat] /\ quota \in [Users -> Int]
      /\ owned[u] \in Nat /\ quota[u] \in Int
    BY DEF IInv, TypeOK
<1>2. owned' # owned /\ quota' # quota
    BY <1>1
<1>3. PICK w \in Workers : CommitWallet(w) \/ CommitBalance(w)
    <2>1. ASSUME NEW w \in Workers, Commit(w)
          PROVE  CommitWallet(w) \/ CommitBalance(w)
        BY <1>2, <2>1 DEF Commit, CommitCreate, CommitComplete, CommitExpire,
            CommitBind, CommitUpdate
    <2>2. ASSUME NEW w \in Workers, NEW t, Begin(w, t) PROVE FALSE
        BY <1>2, <2>2 DEF Begin
    <2>3. ASSUME NEW w \in Workers, Rollback(w) PROVE FALSE
        BY <1>2, <2>3 DEF Rollback
    <2>4. ASSUME NEW w \in Workers, NEW o \in Orders,
                 CompleteSubscriptionOrder(w, o) \/ ExpireSubscriptionOrder(w, o)
          PROVE  FALSE
        BY <2>2, <2>4 DEF CompleteSubscriptionOrder, ExpireSubscriptionOrder
    <2>5. ASSUME NEW w \in Workers, NEW o \in Orders, NEW x \in Users,
                 PurchaseWithBalance(w, o, x)
          PROVE  FALSE
        BY <2>2, <2>5 DEF PurchaseWithBalance
    <2>6. ASSUME NEW w \in Workers, NEW o \in Orders, NEW x \in Users, NEW n \in Quantities,
                 CreatePendingOrder(w, o, x, n) \/ PurchaseWithWallet(w, o, x, n)
          PROVE  FALSE
        BY <2>2, <2>6 DEF CreatePendingOrder, PurchaseWithWallet
    <2>7. ASSUME NEW w \in Workers, NEW x \in Users, AdminBindSubscription(w, x) PROVE FALSE
        BY <2>2, <2>7 DEF AdminBindSubscription
    <2>8. ASSUME NEW w \in Workers, NEW n \in StockTotals, NEW b \in BOOLEAN,
                 AdminUpdatePlan(w, n, b)
          PROVE  FALSE
        BY <2>2, <2>8 DEF AdminUpdatePlan
    <2>9. ASSUME NEW b \in BOOLEAN, AdminUpdatePlanStatus(b) PROVE FALSE
        BY <1>2, <2>9 DEF AdminUpdatePlanStatus
    <2>10. ASSUME AdminDeletePlan PROVE FALSE
        BY <1>2, <2>10 DEF AdminDeletePlan
    <2>11. ASSUME NEW x \in Users, AdminDeleteUserSubscription(x) \/ RelaySpend(x) PROVE FALSE
        BY <1>2, <2>11 DEF AdminDeleteUserSubscription, RelaySpend
    <2>12. Next
        BY <1>2 DEF vars
    <2> QED
        BY <2>1, <2>3, <2>4, <2>5, <2>6, <2>7, <2>8, <2>9, <2>10, <2>11, <2>12 DEF Next
<1>4. TxOK(tx[w]) /\ tx[w].quantity \in Nat
    BY TxFields
<1>5. CASE CommitWallet(w)
    <2> DEFINE cost == PlanPrice * tx[w].quantity
    <2>1. quota' = [quota EXCEPT ![tx[w].user] = @ - cost] /\ quota[tx[w].user] >= cost
        BY <1>5 DEF CommitWallet
    <2>2. cost \in Int
        BY <1>4, OrdersAssumption
    <2> HIDE DEF cost
    <2> QED
        BY <1>1, <2>1, <2>2
<1>6. CASE CommitBalance(w)
    <2>1. quota' = [quota EXCEPT ![tx[w].user] = @ - PlanPrice] /\ tx[w].op = "balance"
        BY <1>6 DEF CommitBalance
    <2>2. quota[tx[w].user] >= PlanPrice
        BY <1>4, <2>1 DEF TxOK
    <2> QED
        BY <1>1, <2>1, <2>2, OrdersAssumption
<1> QED
    BY <1>3, <1>5, <1>6

\* A purchase never takes the wallet below zero: the lock on the user row
\* keeps relayed requests from spending between the check and the deduction.
THEOREM PurchasesLeaveNoDebt == LockingReads /\ Spec => PurchaseLeavesNoDebt
<1>1. IInv /\ [Next]_vars =>
        [\A u \in Users : owned'[u] > owned[u] /\ quota'[u] < quota[u] => quota'[u] >= 0]_vars
    BY StepLeavesNoDebt
<1> QED
    BY <1>1, LocksProtectReads, PTL DEF Spec, PurchaseLeavesNoDebt

------------------------------------------------------------------------------
(***************************************************************************)
(* stock_locked is the sum of the reservations.  The invariant adds what   *)
(* makes a change of the regime safe: without a limit nothing is reserved, *)
(* and while a transaction that starts a new stock cycle has the plan      *)
(* locked, nothing becomes reserved.                                       *)
(***************************************************************************)

NothingReserved == \A o \in Orders : ReservedBy(o) = 0

SwitchOK(t) == t.op = "update" /\ ~SameCycle(t.plan, t.total) => NothingReserved

UnlimitedOK == plan.total = 0 /\ ~plan.deleted => NothingReserved

StockInvariant ==
    /\ IInv
    /\ StockMatchesOrders
    /\ UnlimitedOK
    /\ \A w \in Workers : SwitchOK(tx[w])

(***************************************************************************)
(* A plan that always has a limit and is not sold from the balance.  Every *)
(* unit is then issued under the lock of the plan, which keeps both the    *)
(* stock and the count of the user's subscriptions as they were read.      *)
(***************************************************************************)

AlwaysLimited == 0 \notin StockTotals /\ ~AllowBalancePay

PendingReserve ==
    \A o \in Orders : orders[o].status = "pending" =>
        orders[o].reserved = orders[o].quantity /\ orders[o].quantity > 0

LimitedTxOK(t) ==
    /\ t.op # "balance"
    /\ t.op = "update" => t.total > 0
    /\ t.op \in {"create", "wallet", "bind", "update"} => ~plan.deleted
    /\ t.op \in {"create", "wallet", "bind"} => t.quantity > 0
    /\ t.op \in {"complete", "wallet", "bind"} => LimitAllows(t.user, t.quantity)

IssuedOK ==
    /\ ~plan.deleted => issued = plan.sold
    /\ issued + TotalReserved <= plan.total

LimitedInvariant ==
    /\ AlwaysLimited
    /\ StockInvariant
    /\ plan.total > 0
    /\ PendingReserve
    /\ IssuedOK
    /\ PurchaseLimit
    /\ \A w \in Workers : LimitedTxOK(tx[w])

\* What the commit of transaction t takes out of the reservations, and adds to them.
Before(t) == IF t.op \in {"complete", "expire"} THEN t.reserved ELSE 0

After(t) == IF t.op = "create" /\ HasStockLimit(t.plan) THEN t.quantity ELSE 0

LEMMA ReservedTypes ==
    ASSUME TypeOK
    PROVE  TotalReserved \in Nat /\ \A o \in Orders : ReservedBy(o) \in Nat
<1> DEFINE h == [o \in Orders |-> ReservedBy(o)]
<1>1. \A o \in Orders : orders[o] \in OrderType
    BY DEF TypeOK
<1>2. \A o \in Orders : ReservedBy(o) \in Nat
    BY <1>1 DEF ReservedBy, OrderType
<1>3. \A o \in Orders : h[o] \in Nat
    BY <1>2
<1> HIDE DEF h
<1>4. SumFunctionOnSet(h, Orders) \in Nat
    BY <1>3, SumIsNat, OrdersAssumption
<1> QED
    BY <1>2, <1>4 DEF h, TotalReserved

\* One order changes.
LEMMA ReservedChange ==
    ASSUME TypeOK, TypeOK', NEW x \in Orders,
           \A o \in Orders : o # x => ReservedBy(o)' = ReservedBy(o)
    PROVE  TotalReserved' = TotalReserved - ReservedBy(x) + ReservedBy(x)'
<1> DEFINE h == [o \in Orders |-> ReservedBy(o)]
           k == [o \in Orders |-> ReservedBy(o)']
<1>1. \A o \in Orders : ReservedBy(o) \in Nat
    BY ReservedTypes
<1>2. \A o \in Orders : orders'[o] \in OrderType
    BY DEF TypeOK
<1>3. \A o \in Orders : ReservedBy(o)' \in Nat
    BY <1>2 DEF ReservedBy, OrderType
<1>4. \A o \in Orders : h[o] \in Int /\ k[o] \in Int
    BY <1>1, <1>3
<1>5. \A o \in Orders : o # x => k[o] = h[o]
    OBVIOUS
<1>6. h[x] = ReservedBy(x) /\ k[x] = ReservedBy(x)'
    OBVIOUS
<1>7. TotalReserved = SumFunctionOnSet(h, Orders) /\ TotalReserved' = SumFunctionOnSet(k, Orders)
    BY DEF TotalReserved
<1> HIDE DEF h, k
<1>8. SumFunctionOnSet(k, Orders) = SumFunctionOnSet(h, Orders) - h[x] + k[x]
    BY <1>4, <1>5, SumChange, OrdersAssumption
<1> QED
    BY <1>6, <1>7, <1>8

LEMMA ReservedSame ==
    ASSUME orders' = orders
    PROVE  TotalReserved' = TotalReserved /\ \A o \in Orders : ReservedBy(o)' = ReservedBy(o)
BY DEF TotalReserved, ReservedBy

\* What a commit does to the reservations.
LEMMA CommitReserves ==
    ASSUME IInv, IInv', NEW w \in Workers, Commit(w)
    PROVE  /\ TotalReserved' = TotalReserved - Before(tx[w]) + After(tx[w])
           /\ After(tx[w]) = 0 /\ NothingReserved => NothingReserved'
<1> DEFINE t == tx[w]
<1>0. PICK x : x = t.order
    OBVIOUS
<1>1. TxOK(t) /\ t.quantity \in Nat /\ t.reserved \in Nat
    BY TxFields
<1>2. orders \in [Orders -> OrderType] /\ TypeOK /\ TypeOK' /\ TotalReserved \in Nat
    BY ReservedTypes DEF IInv, TypeOK
<1>3. ASSUME x \in Orders, ReservedBy(x) = Before(t), ReservedBy(x)' = After(t),
             \A o \in Orders : o # x => orders'[o] = orders[o]
      PROVE  /\ TotalReserved' = TotalReserved - Before(t) + After(t)
             /\ After(t) = 0 /\ NothingReserved => NothingReserved'
    <2>1. \A o \in Orders : o # x => ReservedBy(o)' = ReservedBy(o)
        BY <1>3 DEF ReservedBy
    <2>2. TotalReserved' = TotalReserved - Before(t) + After(t)
        BY <1>2, <1>3, <2>1, ReservedChange
    <2>3. After(t) = 0 /\ NothingReserved => NothingReserved'
        BY <1>3, <2>1 DEF NothingReserved
    <2> QED
        BY <2>2, <2>3
<1>4. CASE CommitCreate(w)
    <2>1. /\ t.op = "create" /\ x \in Orders /\ orders[x].status = "none"
          /\ orders' = [orders EXCEPT ![x] = [status |-> "pending", user |-> t.user, quantity |-> t.quantity,
                            reserved |-> IF HasStockLimit(t.plan) THEN t.quantity ELSE 0]]
        BY <1>0, <1>1, <1>4 DEF CommitCreate, TxOK
    <2>2. ReservedBy(x) = Before(t) /\ ReservedBy(x)' = After(t)
        BY <1>2, <2>1 DEF ReservedBy, Before, After
    <2> QED
        BY <1>2, <1>3, <2>1, <2>2
<1>5. CASE CommitComplete(w) \/ CommitExpire(w)
    <2>1. /\ t.op \in {"complete", "expire"} /\ x \in Orders /\ orders[x].status = "pending"
          /\ t.reserved = orders[x].reserved
        BY <1>0, <1>1, <1>5 DEF CommitComplete, CommitExpire, TxOK
    <2>2. \E s \in {"success", "expired"} :
              orders' = [orders EXCEPT ![x] = [orders[x] EXCEPT !.status = s, !.reserved = 0]]
        BY <1>0, <1>5 DEF CommitComplete, CommitExpire
    <2>3. ReservedBy(x) = Before(t) /\ ReservedBy(x)' = After(t)
        BY <1>2, <2>1, <2>2 DEF ReservedBy, Before, After
    <2> QED
        BY <1>2, <1>3, <2>1, <2>2, <2>3
<1>6. CASE CommitWallet(w) \/ CommitBalance(w)
    <2>1. /\ t.op \in {"wallet", "balance"} /\ x \in Orders /\ orders[x].status = "none"
          /\ orders' = [orders EXCEPT ![x] = PaidOrder(w)]
        BY <1>0, <1>1, <1>6 DEF CommitWallet, CommitBalance, TxOK
    <2>2. ReservedBy(x) = Before(t) /\ ReservedBy(x)' = After(t)
        BY <1>2, <2>1 DEF ReservedBy, Before, After, PaidOrder
    <2> QED
        BY <1>2, <1>3, <2>1, <2>2
<1>7. CASE CommitBind(w) \/ CommitUpdate(w)
    <2>1. t.op \in {"bind", "update"} /\ orders' = orders
        BY <1>7 DEF CommitBind, CommitUpdate
    <2>2. Before(t) = 0 /\ After(t) = 0
        BY <2>1 DEF Before, After
    <2> QED
        BY <1>2, <2>1, <2>2, ReservedSame DEF NothingReserved
<1> QED
    BY <1>4, <1>5, <1>6, <1>7 DEF Commit

\* A transaction begins, or a statement runs that leaves the orders alone.
LEMMA QuietStock ==
    ASSUME StockInvariant, IInv', orders' = orders, plan'.total = plan.total, plan'.locked = plan.locked,
           plan'.deleted = plan.deleted \/ plan'.deleted,
           \A w \in Workers : tx'[w] = tx[w] \/ SwitchOK(tx'[w])
    PROVE  StockInvariant'
<1>1. TotalReserved' = TotalReserved /\ (NothingReserved' <=> NothingReserved)
    BY ReservedSame DEF NothingReserved
<1>2. ASSUME NEW w \in Workers PROVE SwitchOK(tx[w])'
    <2>1. SwitchOK(tx'[w])
        BY DEF StockInvariant
    <2> QED
        BY <1>1, <2>1 DEF SwitchOK, SameCycle
<1>3. plan.deleted \in BOOLEAN /\ plan'.deleted \in BOOLEAN
    BY DEF StockInvariant, IInv, TypeOK, PlanType
<1>4. ~plan'.deleted => ~plan.deleted
    BY <1>3
<1> QED
    BY <1>1, <1>2, <1>4 DEF StockInvariant, StockMatchesOrders, UnlimitedOK

LEMMA CommitStock ==
    ASSUME StockInvariant, IInv', NEW w \in Workers, Commit(w)
    PROVE  StockInvariant'
<1> DEFINE t == tx[w]
<1>1. /\ TxOK(t) /\ t.quantity \in Nat /\ t.reserved \in Nat /\ t.total \in Nat /\ plan \in PlanType
      /\ plan.total \in Nat /\ plan.locked \in Nat /\ plan.sold \in Nat /\ IInv
    BY TxFields DEF StockInvariant
<1>2. /\ TotalReserved' = TotalReserved - Before(t) + After(t)
      /\ After(t) = 0 /\ NothingReserved => NothingReserved'
    BY <1>1, CommitReserves
<1>3. TotalReserved \in Nat /\ tx \in [Workers -> TxType] /\ End(w)
    BY <1>1, ReservedTypes
    DEF IInv, TypeOK, Commit, CommitCreate, CommitComplete, CommitExpire, CommitWallet, CommitBalance,
        CommitBind, CommitUpdate
<1>4. After(t) # 0 => "plan" \in t.locks
    BY <1>1 DEF After, TxOK
<1>5. ASSUME NEW v \in Workers PROVE SwitchOK(tx[v])'
    <2>1. CASE v = w
        BY <1>3, <2>1 DEF End, Idle, SwitchOK
    <2>2. CASE v # w
        <3> SUFFICES ASSUME tx[v].op = "update", ~SameCycle(tx[v].plan, tx[v].total)
                     PROVE  NothingReserved'
            <4>1. tx'[v] = tx[v]
                BY <1>3, <2>2 DEF End
            <4> QED
                BY <4>1 DEF SwitchOK, SameCycle
        <3>1. NothingReserved
            BY DEF StockInvariant, SwitchOK
        <3>2. "plan" \in tx[v].locks
            BY <1>1 DEF IInv, TxOK
        <3>3. "plan" \notin t.locks
            BY <1>1, <2>2, <3>2 DEF IInv, LocksDisjoint
        <3> QED
            BY <1>2, <1>4, <3>1, <3>3
    <2> QED
        BY <2>1, <2>2
<1>6. (~plan.deleted => plan.locked = TotalReserved) /\ (plan.total = 0 /\ ~plan.deleted => NothingReserved)
    BY DEF StockInvariant, StockMatchesOrders, UnlimitedOK
<1> SUFFICES StockMatchesOrders' /\ UnlimitedOK'
    BY <1>5 DEF StockInvariant
<1>7. CASE CommitCreate(w)
    <2>1. /\ t.op = "create" /\ t.plan = plan
          /\ plan' = [plan EXCEPT !.locked = Reserve(plan, t.quantity)]
        BY <1>1, <1>7 DEF CommitCreate, TxOK
    <2>2. /\ plan'.locked = Reserve(plan, t.quantity) /\ plan'.deleted = plan.deleted
          /\ plan'.total = plan.total
        BY <1>1, <2>1 DEF PlanType
    <2>3. Before(t) = 0 /\ After(t) = IF HasStockLimit(plan) THEN t.quantity ELSE 0
        BY <2>1 DEF Before, After
    <2>4. Reserve(plan, t.quantity) = plan.locked + After(t)
        BY <1>1, <2>3 DEF Reserve
    <2>5. plan.total = 0 => After(t) = 0
        BY <2>3 DEF HasStockLimit
    <2> QED
        BY <1>2, <1>3, <1>6, <2>2, <2>3, <2>4, <2>5 DEF StockMatchesOrders, UnlimitedOK
<1>8. CASE CommitComplete(w) \/ CommitExpire(w)
    <2>1. /\ t.op \in {"complete", "expire"} /\ (t.reserved > 0 => t.plan = plan)
          /\ Before(t) = t.reserved /\ After(t) = 0
        BY <1>1, <1>8 DEF CommitComplete, CommitExpire, TxOK, Before, After
    <2>2. plan'.deleted = plan.deleted /\ plan'.total = plan.total
          /\ (~plan.deleted => plan'.locked = plan.locked - t.reserved)
        <3>1. CASE t.reserved > 0 /\ ~plan.deleted
            <4>1. \/ plan' = [plan EXCEPT !.locked = plan.locked - t.reserved, !.sold = plan.sold + t.reserved]
                  \/ plan' = [plan EXCEPT !.locked = plan.locked - t.reserved]
                BY <1>8, <2>1, <3>1 DEF CommitComplete, CommitExpire, ConsumeReserved, ReleaseReserved
            <4> QED
                BY <1>1, <4>1 DEF PlanType
        <3>2. CASE ~(t.reserved > 0 /\ ~plan.deleted)
            <4>1. plan' = plan
                BY <1>8, <3>2 DEF CommitComplete, CommitExpire, ConsumeReserved, ReleaseReserved
            <4> QED
                BY <1>1, <3>2, <4>1
        <3> QED
            BY <3>1, <3>2
    <2> QED
        BY <1>1, <1>2, <1>3, <1>6, <2>1, <2>2 DEF StockMatchesOrders, UnlimitedOK
<1>9. CASE CommitWallet(w) \/ CommitBalance(w) \/ CommitBind(w)
    <2>1. t.op \in {"wallet", "balance", "bind"} /\ Before(t) = 0 /\ After(t) = 0
        BY <1>9 DEF CommitWallet, CommitBalance, CommitBind, Before, After
    <2>2. plan' = plan \/ plan' = [plan EXCEPT !.sold = ConsumeDirect(t.plan, t.quantity)]
        BY <1>9 DEF CommitWallet, CommitBalance, CommitBind
    <2>3. plan'.deleted = plan.deleted /\ plan'.total = plan.total /\ plan'.locked = plan.locked
        BY <1>1, <2>2 DEF PlanType
    <2> QED
        BY <1>2, <1>3, <1>6, <2>1, <2>3 DEF StockMatchesOrders, UnlimitedOK
<1>10. CASE CommitUpdate(w)
    <2> DEFINE keep == SameCycle(plan, t.total)
    <2>1. /\ t.op = "update" /\ t.plan = plan /\ Before(t) = 0 /\ After(t) = 0
        BY <1>1, <1>10 DEF CommitUpdate, TxOK, Before, After
    <2>2. plan' = [plan EXCEPT !.total = t.total, !.locked = IF keep THEN plan.locked ELSE 0,
                               !.sold = IF keep THEN plan.sold ELSE 0, !.enabled = t.enabled]
        BY <1>10, <2>1 DEF CommitUpdate
    <2>3. /\ plan'.deleted = plan.deleted /\ plan'.total = t.total
          /\ plan'.locked = IF keep THEN plan.locked ELSE 0
        BY <1>1, <2>2 DEF PlanType
    <2>4. ~keep => NothingReserved
        BY <2>1 DEF StockInvariant, SwitchOK
    <2>5. NothingReserved => TotalReserved = 0
        <3> DEFINE h == [o \in Orders |-> ReservedBy(o)]
        <3>1. NothingReserved => \A o \in Orders : h[o] = 0
            BY DEF NothingReserved
        <3>2. TotalReserved = SumFunctionOnSet(h, Orders)
            BY DEF TotalReserved
        <3> HIDE DEF h
        <3> QED
            BY <3>1, <3>2, SumOfZeros, OrdersAssumption
    <2>6. t.total = 0 => ~keep
        BY DEF SameCycle
    <2> QED
        BY <1>2, <1>3, <1>6, <2>1, <2>3, <2>4, <2>5, <2>6 DEF StockMatchesOrders, UnlimitedOK
<1> QED
    BY <1>7, <1>8, <1>9, <1>10 DEF Commit

\* A transaction that has just begun.
NewTxOK(t) == SwitchOK(t) /\ (AlwaysLimited => LimitedTxOK(t))

\* It is the only one that is new, and nothing else has changed.
Begun(w) ==
    /\ plan' = plan /\ orders' = orders /\ owned' = owned /\ issued' = issued
    /\ \A v \in Workers : v # w => tx'[v] = tx[v]

LEMMA BeginFields ==
    ASSUME IInv, NEW w \in Workers, NEW t \in TxType, Begin(w, t)
    PROVE  Begun(w) /\ tx'[w] = t
<1>1. tx \in [Workers -> TxType] /\ LockingReads
    BY DEF IInv, TypeOK
<1>2. t = [t EXCEPT !.locks = t.locks]
    BY DEF TxType
<1> QED
    BY <1>1, <1>2 DEF Begin, Begun

LEMMA PurchaseBegun ==
    ASSUME StockInvariant, NEW w \in Workers, NEW u \in Users,
           \/ \E o \in Orders, n \in Quantities :
                  CreatePendingOrder(w, o, u, n) \/ PurchaseWithWallet(w, o, u, n)
           \/ \E o \in Orders : PurchaseWithBalance(w, o, u)
           \/ AdminBindSubscription(w, u)
    PROVE  Begun(w) /\ NewTxOK(tx'[w])
<1>1. IInv /\ plan \in PlanType
    BY PlanFields DEF IInv, StockInvariant
<1>2. ASSUME NEW o \in Orders, NEW n \in Quantities, CreatePendingOrder(w, o, u, n)
      PROVE  Begun(w) /\ NewTxOK(tx'[w])
    <2> DEFINE t == [Idle EXCEPT !.op = "create", !.locks = {"plan"}, !.order = o,
                                 !.user = u, !.quantity = n, !.plan = plan]
    <2>1. t \in TxType /\ Begin(w, t)
        BY <1>1, <1>2, OrdersAssumption DEF Idle, TxType, Ops, Row, CreatePendingOrder
    <2>2. t.op = "create" /\ t.quantity = n /\ n > 0
        BY OrdersAssumption DEF Idle
    <2>3. NewTxOK(t)
        BY <1>2, <2>2 DEF NewTxOK, SwitchOK, LimitedTxOK, CreatePendingOrder
    <2> HIDE DEF t
    <2> QED
        BY <1>1, <2>1, <2>3, BeginFields
<1>3. ASSUME NEW o \in Orders, NEW n \in Quantities, PurchaseWithWallet(w, o, u, n)
      PROVE  Begun(w) /\ NewTxOK(tx'[w])
    <2> DEFINE t == [Idle EXCEPT !.op = "wallet", !.locks = WalletLocks(u), !.order = o,
                                 !.user = u, !.quantity = n, !.plan = plan]
    <2>1. t \in TxType /\ Begin(w, t)
        BY <1>1, <1>3, OrdersAssumption DEF Idle, TxType, Ops, Row, WalletLocks, PurchaseWithWallet
    <2>2. t.op = "wallet" /\ t.quantity = n /\ n > 0 /\ t.user = u
        BY OrdersAssumption DEF Idle
    <2>3. NewTxOK(t)
        BY <1>3, <2>2 DEF NewTxOK, SwitchOK, LimitedTxOK, PurchaseWithWallet
    <2> HIDE DEF t
    <2> QED
        BY <1>1, <2>1, <2>3, BeginFields
<1>4. ASSUME NEW o \in Orders, PurchaseWithBalance(w, o, u)
      PROVE  Begun(w) /\ NewTxOK(tx'[w])
    <2> DEFINE t == [Idle EXCEPT !.op = "balance", !.locks = BalanceLocks(u), !.order = o,
                                 !.user = u, !.quantity = 1]
    <2>1. t \in TxType /\ Begin(w, t)
        BY <1>4 DEF Idle, TxType, Ops, Row, BalanceLocks, PurchaseWithBalance, NoPlan, PlanType
    <2>2. t.op = "balance"
        BY DEF Idle
    <2>3. NewTxOK(t)
        BY <1>4, <2>2 DEF NewTxOK, SwitchOK, PurchaseWithBalance, AlwaysLimited
    <2> HIDE DEF t
    <2> QED
        BY <1>1, <2>1, <2>3, BeginFields
<1>5. CASE AdminBindSubscription(w, u)
    <2> DEFINE t == [Idle EXCEPT !.op = "bind", !.locks = {"plan"}, !.user = u,
                                 !.quantity = 1, !.plan = plan]
    <2>1. t \in TxType /\ Begin(w, t)
        BY <1>1, <1>5 DEF Idle, TxType, Ops, Row, AdminBindSubscription
    <2>2. t.op = "bind" /\ t.quantity = 1 /\ t.user = u
        BY DEF Idle
    <2>3. NewTxOK(t)
        BY <1>5, <2>2 DEF NewTxOK, SwitchOK, LimitedTxOK, AdminBindSubscription
    <2> HIDE DEF t
    <2> QED
        BY <1>1, <2>1, <2>3, BeginFields
<1> QED
    BY <1>2, <1>3, <1>4, <1>5

LEMMA UpdateBegun ==
    ASSUME StockInvariant, NEW w \in Workers, NEW n \in StockTotals, NEW b \in BOOLEAN,
           AdminUpdatePlan(w, n, b)
    PROVE  Begun(w) /\ NewTxOK(tx'[w])
<1> DEFINE t == [Idle EXCEPT !.op = "update", !.locks = {"plan"}, !.plan = plan,
                             !.total = n, !.enabled = b]
<1>1. IInv /\ plan \in PlanType /\ n \in Nat /\ plan.total \in Nat
    BY PlanFields, OrdersAssumption DEF IInv, StockInvariant
<1>2. t \in TxType /\ Begin(w, t)
    BY <1>1 DEF Idle, TxType, Ops, Row, AdminUpdatePlan
<1>3. t.op = "update" /\ t.total = n /\ t.plan = plan
    BY DEF Idle
<1>4. ~SameCycle(plan, n) => NothingReserved
    <2>1. CASE (plan.total > 0) # (n > 0)
        BY <2>1 DEF AdminUpdatePlan, StockUpdateAllowed, NothingReserved
    <2>2. CASE plan.total = 0
        BY <2>2 DEF AdminUpdatePlan, StockInvariant, UnlimitedOK
    <2> QED
        BY <1>1, <2>1, <2>2 DEF SameCycle
<1>5. AlwaysLimited => n > 0
    BY <1>1 DEF AlwaysLimited
<1>6. NewTxOK(t)
    BY <1>3, <1>4, <1>5 DEF NewTxOK, SwitchOK, LimitedTxOK, AdminUpdatePlan
<1> HIDE DEF t
<1> QED
    BY <1>1, <1>2, <1>6, BeginFields

LEMMA OrderBegun ==
    ASSUME StockInvariant, NEW w \in Workers, NEW o \in Orders,
           CompleteSubscriptionOrder(w, o) \/ ExpireSubscriptionOrder(w, o)
    PROVE  Begun(w) /\ NewTxOK(tx'[w])
<1>1. PICK op \in {"complete", "expire"} :
          /\ Begin(w, OrderTx(op, o)) /\ orders[o].status = "pending"
          /\ op = "complete" => LimitAllows(orders[o].user, orders[o].quantity)
    BY DEF CompleteSubscriptionOrder, ExpireSubscriptionOrder
<1> DEFINE t == OrderTx(op, o)
<1>2. IInv /\ plan \in PlanType /\ orders[o] \in OrderType /\ orders[o].user \in Users
    BY <1>1, PlanFields DEF IInv, StockInvariant, TypeOK, PendingHaveUser
<1>3. /\ orders[o].quantity \in Nat /\ orders[o].reserved \in Nat
      /\ OrderLocks(o) \subseteq Row
    BY <1>2 DEF OrderType, OrderLocks, Row
<1>4. t \in TxType
    BY <1>2, <1>3 DEF OrderTx, Idle, TxType, Ops
<1>5. t.op = op /\ t.user = orders[o].user /\ t.quantity = orders[o].quantity
    BY DEF OrderTx, Idle
<1>6. Begin(w, t)
    BY <1>1
<1>7. NewTxOK(t)
    BY <1>1, <1>5 DEF NewTxOK, SwitchOK, LimitedTxOK
<1> HIDE DEF t
<1> QED
    BY <1>2, <1>4, <1>6, <1>7, BeginFields

\* The transactions of all handlers.
LEMMA BeginsWell ==
    ASSUME StockInvariant, NEW w \in Workers,
           \/ \E o \in Orders : CompleteSubscriptionOrder(w, o) \/ ExpireSubscriptionOrder(w, o)
           \/ \E o \in Orders, u \in Users : PurchaseWithBalance(w, o, u)
           \/ \E o \in Orders, u \in Users, n \in Quantities :
                  CreatePendingOrder(w, o, u, n) \/ PurchaseWithWallet(w, o, u, n)
           \/ \E u \in Users : AdminBindSubscription(w, u)
           \/ \E n \in StockTotals, b \in BOOLEAN : AdminUpdatePlan(w, n, b)
    PROVE  Begun(w) /\ NewTxOK(tx'[w])
BY PurchaseBegun, UpdateBegun, OrderBegun

LEMMA NextStock == StockInvariant /\ [Next]_vars => StockInvariant'
<1> SUFFICES ASSUME StockInvariant, [Next]_vars PROVE StockInvariant'
    OBVIOUS
<1>1. IInv /\ IInv' /\ plan \in PlanType /\ tx \in [Workers -> TxType]
    BY NextInvariant, PlanFields DEF StockInvariant, IInv, TypeOK
<1>2. ASSUME NEW w \in Workers, Begun(w), NewTxOK(tx'[w]) PROVE StockInvariant'
    BY <1>1, <1>2, QuietStock DEF Begun, NewTxOK
<1>3. ASSUME NEW w \in Workers, Rollback(w) PROVE StockInvariant'
    <2>1. \A v \in Workers : tx'[v] = tx[v] \/ SwitchOK(tx'[v])
        BY <1>1, <1>3 DEF Rollback, End, Idle, SwitchOK
    <2> QED
        BY <1>1, <1>3, <2>1, QuietStock DEF Rollback
<1>4. CASE \/ \E b \in BOOLEAN : AdminUpdatePlanStatus(b)
           \/ AdminDeletePlan
           \/ \E u \in Users : AdminDeleteUserSubscription(u) \/ RelaySpend(u)
           \/ UNCHANGED vars
    <2>1. /\ orders' = orders /\ tx' = tx
          /\ \/ plan' = plan
             \/ plan' = [plan EXCEPT !.deleted = TRUE]
             \/ \E b \in BOOLEAN : plan' = [plan EXCEPT !.enabled = b]
        BY <1>4 DEF AdminUpdatePlanStatus, AdminDeletePlan, AdminDeleteUserSubscription, RelaySpend, vars
    <2>2. /\ plan'.total = plan.total /\ plan'.locked = plan.locked
          /\ plan'.deleted = plan.deleted \/ plan'.deleted
        BY <1>1, <2>1 DEF PlanType
    <2> QED
        BY <1>1, <2>1, <2>2, QuietStock
<1>5. ASSUME NEW w \in Workers, Commit(w) PROVE StockInvariant'
    BY <1>1, <1>5, CommitStock
<1> QED
    BY <1>2, <1>3, <1>4, <1>5, BeginsWell DEF Next

LEMMA InitStock == LockingReads /\ Init => StockInvariant /\ TotalReserved = 0
<1> SUFFICES ASSUME LockingReads, Init PROVE StockInvariant /\ TotalReserved = 0
    OBVIOUS
<1> DEFINE h == [o \in Orders |-> ReservedBy(o)]
<1>1. IInv /\ \A o \in Orders : ReservedBy(o) = 0
    BY InitInvariant DEF Init, ReservedBy, NoOrder
<1>2. \A o \in Orders : h[o] = 0
    BY <1>1
<1>3. TotalReserved = SumFunctionOnSet(h, Orders)
    BY DEF TotalReserved
<1> HIDE DEF h
<1>4. TotalReserved = 0
    BY <1>2, <1>3, SumOfZeros, OrdersAssumption
<1>5. plan.locked = 0
    BY DEF Init, NoPlan
<1> QED
    BY <1>1, <1>4, <1>5 DEF StockInvariant, StockMatchesOrders, UnlimitedOK, SwitchOK, NothingReserved

\* stock_locked is exactly what the pending orders have reserved, for any number of orders,
\* whatever purchases, completions, expiries, rollbacks and changes of the limit interleave.
THEOREM StockIsExact == LockingReads /\ Spec => []StockMatchesOrders
<1>1. StockInvariant => StockMatchesOrders
    BY DEF StockInvariant
<1> QED
    BY <1>1, InitStock, NextStock, PTL DEF Spec

------------------------------------------------------------------------------
(* A plan that always has a limit: one transaction at a time.              *)

LEMMA HoldsPlan ==
    ASSUME LimitedInvariant, NEW w \in Workers, tx[w].op # "idle"
    PROVE  /\ "plan" \in tx[w].locks /\ tx[w].plan = plan
           /\ tx[w].op \in {"complete", "expire"} =>
                  tx[w].reserved = tx[w].quantity /\ tx[w].reserved > 0
<1>1. TxOK(tx[w]) /\ tx[w] \in TxType /\ tx[w].op # "balance" /\ tx[w].op \in Ops
    BY DEF LimitedInvariant, StockInvariant, IInv, TypeOK, TxType, LimitedTxOK
<1>2. tx[w].op \in {"complete", "expire"} => tx[w].reserved = tx[w].quantity /\ tx[w].reserved > 0
    BY <1>1 DEF TxOK, LimitedInvariant, PendingReserve
<1> QED
    BY <1>1, <1>2 DEF TxOK, Ops

LEMMA OthersIdle ==
    ASSUME LimitedInvariant, NEW w \in Workers, tx[w].op # "idle", NEW v \in Workers, v # w
    PROVE  tx[v].op = "idle"
BY HoldsPlan DEF LimitedInvariant, StockInvariant, IInv, LocksDisjoint

\* The steps that issue nothing.
LEMMA QuietLimited ==
    ASSUME LimitedInvariant, StockInvariant', orders' = orders, issued' = issued,
           plan'.total = plan.total, plan'.sold = plan.sold,
           \/ plan'.deleted = plan.deleted
           \/ \A v \in Workers : tx[v].op \notin {"create", "wallet", "bind", "update"},
           ~plan'.deleted => ~plan.deleted,
           \A u \in Users : owned'[u] <= owned[u],
           \A v \in Workers : (tx'[v] = tx[v] \/ plan' = plan) /\ LimitedTxOK(tx'[v])
    PROVE  LimitedInvariant'
<1>1. /\ owned \in [Users -> Nat] /\ owned' \in [Users -> Nat] /\ MaxPurchasePerUser \in Nat
      /\ tx' \in [Workers -> TxType]
    BY OrdersAssumption DEF LimitedInvariant, StockInvariant, IInv, TypeOK
<1>2. PurchaseLimit'
    BY <1>1 DEF LimitedInvariant, PurchaseLimit
<1>3. IssuedOK' /\ PendingReserve' /\ plan'.total > 0
    BY ReservedSame DEF LimitedInvariant, IssuedOK, PendingReserve
<1>4. ASSUME NEW v \in Workers PROVE LimitedTxOK(tx[v])'
    <2>1. PICK t : t = tx'[v]
        OBVIOUS
    <2>2. LimitedTxOK(t) /\ t \in TxType /\ t.quantity \in Nat
        BY <1>1, <2>1 DEF TxType
    <2>3. t.op \in {"complete", "wallet", "bind"} => t.user \in Users
        BY <2>1 DEF StockInvariant, IInv, TxOK, PendingHaveUser
    <2>4. t.op \in {"complete", "wallet", "bind"} => LimitAllows(t.user, t.quantity)'
        BY <1>1, <2>1, <2>2, <2>3 DEF LimitedTxOK, LimitAllows
    <2>5. t.op \in {"create", "wallet", "bind", "update"} => ~plan'.deleted
        BY <2>1, <2>2 DEF LimitedTxOK
    <2> QED
        BY <2>1, <2>2, <2>4, <2>5 DEF LimitedTxOK, LimitAllows
<1> QED
    BY <1>2, <1>3, <1>4 DEF LimitedInvariant

\* What the units of a transaction do to the count of its user.
LEMMA IssueLimited ==
    ASSUME LimitedInvariant, NEW w \in Workers, Issue(w), tx[w].user \in Users,
           LimitAllows(tx[w].user, tx[w].quantity)
    PROVE  PurchaseLimit' /\ issued' = issued + tx[w].quantity
<1>1. owned \in [Users -> Nat] /\ MaxPurchasePerUser \in Nat /\ tx[w].quantity \in Nat
    BY TxFields, OrdersAssumption DEF LimitedInvariant, StockInvariant, IInv, TypeOK
<1> QED
    BY <1>1 DEF Issue, LimitAllows, LimitedInvariant, PurchaseLimit

LEMMA CommitLimited ==
    ASSUME LimitedInvariant, StockInvariant', NEW w \in Workers, Commit(w)
    PROVE  LimitedInvariant'
<1> DEFINE t == tx[w]
           S == TotalReserved
           S2 == TotalReserved'
           A == After(t)
           B == Before(t)
           T2 == plan'.total
           sold2 == plan'.sold
           n == t.quantity
<1>0. IInv /\ IInv'
    BY DEF LimitedInvariant, StockInvariant
<1>1. /\ TxOK(t) /\ n \in Nat /\ t.reserved \in Nat /\ t.total \in Nat /\ plan \in PlanType
      /\ plan.total \in Nat /\ plan.locked \in Nat /\ plan.sold \in Nat
      /\ issued \in Nat /\ LimitedTxOK(t)
    BY <1>0, TxFields DEF IInv, TypeOK, LimitedInvariant
<1>2. S2 = S - B + A /\ S \in Nat
    BY <1>0, CommitReserves, ReservedTypes DEF IInv
<1>3. End(w) /\ t.op # "idle" /\ t.op # "balance"
    BY <1>1 DEF Commit, CommitCreate, CommitComplete, CommitExpire, CommitWallet, CommitBalance,
                CommitBind, CommitUpdate, LimitedTxOK
<1>4. /\ "plan" \in t.locks /\ t.plan = plan /\ plan.total > 0
      /\ t.op \in {"complete", "expire"} => t.reserved = n /\ t.reserved > 0
    BY <1>3, HoldsPlan DEF LimitedInvariant
<1>5. ASSUME NEW v \in Workers PROVE LimitedTxOK(tx[v])'
    <2>1. tx'[v].op = "idle"
        BY <1>0, <1>3, OthersIdle DEF End, Idle, IInv, TypeOK
    <2> QED
        BY <2>1 DEF LimitedTxOK
<1>6. /\ ~plan.deleted => issued = plan.sold /\ plan.locked = S
      /\ issued + S <= plan.total /\ PurchaseLimit
    BY DEF LimitedInvariant, IssuedOK, StockInvariant, StockMatchesOrders
<1>7. orders \in [Orders -> OrderType] /\ PendingReserve
    BY <1>0 DEF IInv, TypeOK, LimitedInvariant
<1>8. ASSUME PendingReserve', PurchaseLimit', T2 > 0, ~plan'.deleted => issued' = sold2,
             issued' + S2 <= T2
      PROVE  LimitedInvariant'
    BY <1>5, <1>8 DEF LimitedInvariant, IssuedOK
<1>9. CASE CommitCreate(w)
    <2>1. /\ t.op = "create" /\ issued' = issued /\ owned' = owned /\ t.order \in Orders
          /\ plan' = [plan EXCEPT !.locked = Reserve(plan, n)]
          /\ orders' = [orders EXCEPT ![t.order] = [status |-> "pending", user |-> t.user, quantity |-> n,
                            reserved |-> IF HasStockLimit(plan) THEN n ELSE 0]]
          /\ EnoughStock(plan, n) /\ n > 0 /\ ~plan.deleted
        BY <1>1, <1>4, <1>9 DEF CommitCreate, TxOK, LimitedTxOK
    <2>2. T2 = plan.total /\ sold2 = plan.sold
        BY <1>1, <2>1 DEF PlanType
    <2>3. PendingReserve'
        BY <1>4, <1>7, <2>1 DEF PendingReserve, HasStockLimit
    <2>4. PurchaseLimit'
        BY <1>6, <2>1 DEF PurchaseLimit
    <2>5. A = n /\ B = 0 /\ plan.total - plan.locked - plan.sold >= n
        BY <1>4, <2>1 DEF After, Before, HasStockLimit, EnoughStock, StockAvailable
    <2> HIDE DEF A, B, S, S2, T2, sold2, n
    <2>6. issued' + S2 <= T2 /\ issued' = sold2
        BY <1>1, <1>2, <1>6, <2>1, <2>2, <2>5
    <2> QED
        BY <1>4, <1>8, <2>2, <2>3, <2>4, <2>6
<1>10. CASE CommitComplete(w)
    <2>1. /\ t.op = "complete" /\ Issue(w) /\ t.order \in Orders /\ t.user \in Users
          /\ plan' = ConsumeReserved(plan, n)
          /\ orders' = [orders EXCEPT ![t.order] = [orders[t.order] EXCEPT !.status = "success", !.reserved = 0]]
          /\ n > 0 /\ LimitAllows(t.user, n) /\ t.reserved = n
        BY <1>0, <1>1, <1>4, <1>10
        DEF CommitComplete, TxOK, LimitedTxOK, IssueForOrder, IInv, PendingHaveUser
    <2>2. T2 = plan.total /\ (~plan'.deleted => ~plan.deleted /\ sold2 = plan.sold + n)
        BY <1>1, <2>1 DEF PlanType, ConsumeReserved
    <2>3. PendingReserve'
        BY <1>7, <2>1 DEF PendingReserve
    <2>4. PurchaseLimit' /\ issued' = issued + n
        BY <2>1, IssueLimited
    <2>5. A = 0 /\ B = n
        BY <2>1 DEF After, Before
    <2> HIDE DEF A, B, S, S2, T2, sold2, n
    <2>6. issued' + S2 <= T2 /\ (~plan'.deleted => issued' = sold2)
        BY <1>1, <1>2, <1>6, <2>2, <2>4, <2>5
    <2> QED
        BY <1>4, <1>8, <2>2, <2>3, <2>4, <2>6
<1>11. CASE CommitExpire(w)
    <2>1. /\ t.op = "expire" /\ t.order \in Orders /\ issued' = issued /\ owned' = owned
          /\ plan' = ReleaseReserved(plan, n) /\ t.reserved = n
          /\ orders' = [orders EXCEPT ![t.order] = [orders[t.order] EXCEPT !.status = "expired", !.reserved = 0]]
        BY <1>1, <1>4, <1>11 DEF CommitExpire, TxOK
    <2>2. T2 = plan.total /\ sold2 = plan.sold /\ plan'.deleted = plan.deleted
        BY <1>1, <2>1 DEF PlanType, ReleaseReserved
    <2>3. PendingReserve'
        BY <1>7, <2>1 DEF PendingReserve
    <2>4. PurchaseLimit'
        BY <1>6, <2>1 DEF PurchaseLimit
    <2>5. A = 0 /\ B = n
        BY <2>1 DEF After, Before
    <2> HIDE DEF A, B, S, S2, T2, sold2, n
    <2>6. issued' + S2 <= T2 /\ (~plan'.deleted => issued' = sold2)
        BY <1>1, <1>2, <1>6, <2>1, <2>2, <2>5
    <2> QED
        BY <1>4, <1>8, <2>2, <2>3, <2>4, <2>6
<1>12. CASE CommitWallet(w) \/ CommitBind(w)
    <2>1. /\ t.op \in {"wallet", "bind"} /\ Issue(w) /\ t.user \in Users
          /\ plan' = [plan EXCEPT !.sold = ConsumeDirect(plan, n)]
          /\ EnoughStock(plan, n) /\ LimitAllows(t.user, n) /\ ~plan.deleted
          /\ orders' = orders \/ (t.order \in Orders /\ orders' = [orders EXCEPT ![t.order] = PaidOrder(w)])
        BY <1>1, <1>4, <1>12 DEF CommitWallet, CommitBind, TxOK, LimitedTxOK, IssueForOrder
    <2>2. T2 = plan.total /\ sold2 = plan.sold + n /\ plan'.deleted = plan.deleted
        BY <1>1, <1>4, <2>1 DEF PlanType, ConsumeDirect, HasStockLimit
    <2>3. PendingReserve'
        BY <1>7, <2>1 DEF PendingReserve, PaidOrder
    <2>4. PurchaseLimit' /\ issued' = issued + n
        BY <2>1, IssueLimited
    <2>5. A = 0 /\ B = 0 /\ plan.total - plan.locked - plan.sold >= n
        BY <1>4, <2>1 DEF After, Before, HasStockLimit, EnoughStock, StockAvailable
    <2> HIDE DEF A, B, S, S2, T2, sold2, n
    <2>6. issued' + S2 <= T2 /\ (~plan'.deleted => issued' = sold2)
        BY <1>1, <1>2, <1>6, <2>1, <2>2, <2>4, <2>5
    <2> QED
        BY <1>4, <1>8, <2>2, <2>3, <2>4, <2>6
<1>13. CASE CommitUpdate(w)
    <2>1. t.op = "update" /\ t.total > 0 /\ ~plan.deleted /\ SameCycle(plan, t.total)
        BY <1>1, <1>4, <1>13 DEF CommitUpdate, LimitedTxOK, SameCycle
    <2>2. /\ orders' = orders /\ owned' = owned /\ issued' = issued
          /\ plan' = [plan EXCEPT !.total = t.total, !.locked = plan.locked, !.sold = plan.sold,
                                  !.enabled = t.enabled]
        BY <1>4, <1>13, <2>1 DEF CommitUpdate
    <2>3. T2 = t.total /\ sold2 = plan.sold /\ t.total >= plan.locked + plan.sold
        BY <1>1, <1>4, <2>1, <2>2 DEF PlanType, TxOK
    <2>4. PendingReserve' /\ PurchaseLimit'
        BY <1>6, <1>7, <2>2 DEF PendingReserve, PurchaseLimit
    <2>5. A = 0 /\ B = 0
        BY <2>1 DEF After, Before
    <2> HIDE DEF A, B, S, S2, T2, sold2, n
    <2>6. issued' + S2 <= T2 /\ issued' = sold2
        BY <1>1, <1>2, <1>6, <2>1, <2>2, <2>3, <2>5
    <2> QED
        BY <1>8, <2>1, <2>3, <2>4, <2>6
<1> QED
    BY <1>3, <1>9, <1>10, <1>11, <1>12, <1>13 DEF Commit, CommitBalance

LEMMA NextLimited == LimitedInvariant /\ [Next]_vars => LimitedInvariant'
<1> SUFFICES ASSUME LimitedInvariant, [Next]_vars PROVE LimitedInvariant'
    OBVIOUS
<1>1. /\ StockInvariant /\ StockInvariant' /\ plan \in PlanType /\ tx \in [Workers -> TxType]
      /\ owned \in [Users -> Nat] /\ AlwaysLimited
    BY NextStock, PlanFields DEF LimitedInvariant, StockInvariant, IInv, TypeOK
<1>2. \A u \in Users : owned[u] <= owned[u]
    BY <1>1
<1>3. \A v \in Workers : LimitedTxOK(tx[v])
    BY DEF LimitedInvariant
<1>4. ASSUME NEW w \in Workers, Begun(w), NewTxOK(tx'[w]) PROVE LimitedInvariant'
    <2>1. \A v \in Workers : LimitedTxOK(tx'[v])
        BY <1>1, <1>3, <1>4 DEF Begun, NewTxOK
    <2> QED
        BY <1>1, <1>2, <1>4, <2>1, QuietLimited DEF Begun
<1>5. ASSUME NEW w \in Workers, Rollback(w) PROVE LimitedInvariant'
    <2>1. \A v \in Workers : tx'[v] = tx[v] \/ tx'[v].op = "idle"
        BY <1>1, <1>5 DEF Rollback, End, Idle
    <2>2. \A v \in Workers : LimitedTxOK(tx'[v])
        BY <1>3, <2>1 DEF LimitedTxOK
    <2> QED
        BY <1>1, <1>2, <1>5, <2>2, QuietLimited DEF Rollback
<1>6. CASE \/ \E b \in BOOLEAN : AdminUpdatePlanStatus(b)
           \/ \E u \in Users : AdminDeleteUserSubscription(u) \/ RelaySpend(u)
           \/ UNCHANGED vars
    <2>1. /\ orders' = orders /\ tx' = tx /\ issued' = issued
          /\ plan' = plan \/ \E b \in BOOLEAN : plan' = [plan EXCEPT !.enabled = b]
          /\ owned' = owned \/ \E u \in Users : owned[u] > 0 /\ owned' = [owned EXCEPT ![u] = @ - 1]
        BY <1>6 DEF AdminUpdatePlanStatus, AdminDeleteUserSubscription, RelaySpend, vars
    <2>2. plan'.total = plan.total /\ plan'.sold = plan.sold /\ plan'.deleted = plan.deleted
        BY <1>1, <2>1 DEF PlanType
    <2>3. \A u \in Users : owned'[u] <= owned[u]
        BY <1>1, <2>1
    <2> QED
        BY <1>1, <1>3, <2>1, <2>2, <2>3, QuietLimited
<1>7. CASE AdminDeletePlan
    <2>1. /\ orders' = orders /\ tx' = tx /\ issued' = issued /\ owned' = owned /\ RowsFree({"plan"})
          /\ plan' = [plan EXCEPT !.deleted = TRUE]
        BY <1>7 DEF AdminDeletePlan
    <2>2. plan'.total = plan.total /\ plan'.sold = plan.sold /\ plan'.deleted
        BY <1>1, <2>1 DEF PlanType
    <2>3. \A v \in Workers : tx[v].op \notin {"create", "wallet", "bind", "update"}
        BY <2>1, HoldsPlan DEF RowsFree
    <2> QED
        BY <1>1, <1>2, <1>3, <2>1, <2>2, <2>3, QuietLimited
<1>8. ASSUME NEW w \in Workers, Commit(w) PROVE LimitedInvariant'
    BY <1>1, <1>8, CommitLimited
<1> QED
    BY <1>1, <1>4, <1>5, <1>6, <1>7, <1>8, BeginsWell DEF Next

LEMMA InitLimited == LockingReads /\ AlwaysLimited /\ Init => LimitedInvariant
<1> SUFFICES ASSUME LockingReads, AlwaysLimited, Init PROVE LimitedInvariant
    OBVIOUS
<1>1. StockInvariant /\ TotalReserved = 0
    BY InitStock
<1>2. PICK n \in InitStockTotals : plan = [NoPlan EXCEPT !.total = n, !.enabled = TRUE]
    BY DEF Init
<1>3. n \in Nat /\ n > 0
    BY OrdersAssumption DEF AlwaysLimited
<1>4. plan.total = n /\ plan.sold = 0 /\ issued = 0
    BY <1>2 DEF NoPlan, Init
<1>5. PendingReserve /\ \A w \in Workers : LimitedTxOK(tx[w])
    BY DEF Init, NoOrder, Idle, PendingReserve, LimitedTxOK
<1>6. PurchaseLimit
    BY OrdersAssumption DEF Init, PurchaseLimit
<1> QED
    BY <1>1, <1>3, <1>4, <1>5, <1>6 DEF LimitedInvariant, IssuedOK

\* A plan that always has a stock limit and is not sold from the balance: the units given out in
\* a stock cycle, by any number of racing handlers, stay within the limit, also after the plan
\* was deleted with orders still open.
THEOREM LimitedPlanNotOversold == LockingReads /\ AlwaysLimited /\ Spec => []NoOversell
<1>1. LimitedInvariant => NoOversell
    <2> SUFFICES ASSUME LimitedInvariant PROVE NoOversell
        OBVIOUS
    <2>1. issued + TotalReserved <= plan.total /\ issued \in Nat /\ TotalReserved \in Nat /\ plan.total \in Nat
        BY ReservedTypes, PlanFields DEF LimitedInvariant, IssuedOK, StockInvariant, IInv, TypeOK
    <2> QED
        BY <2>1 DEF NoOversell
<1> QED
    BY <1>1, InitLimited, NextLimited, PTL DEF Spec

\* For such a plan no user ever owns more subscriptions than max_purchase_per_user, although the
\* count is made when the order is read and the subscriptions are written later.
THEOREM PurchaseLimitKept == LockingReads /\ AlwaysLimited /\ Spec => []PurchaseLimit
<1>1. LimitedInvariant => PurchaseLimit
    BY DEF LimitedInvariant
<1> QED
    BY <1>1, InitLimited, NextLimited, PTL DEF Spec

------------------------------------------------------------------------------
(***************************************************************************)
(* SubscriptionGroups with one transaction at a time: the user stays in a  *)
(* group that was paid for.  The invariant says what the open transaction  *)
(* will leave behind, whatever the clock does until it commits.            *)
(***************************************************************************)

\* The group when transaction t has committed.
GroupAfter(t) == IF t.group = NoGroup THEN group ELSE t.group

\* A new subscription to an upgrade group puts the user into it.
CreateOK(t) ==
    /\ \A i \in t.rows : i \in SubIds /\ subs[i].status = "none"
    /\ t.rows # {} /\ t.row.status = "active"
    /\ t.row.upgrade # NoGroup => t.row.upgrade = GroupAfter(t)
    /\ t.row.upgrade = NoGroup => t.group = NoGroup

\* If a live subscription to an upgrade group remains, the user ends up in the
\* group of an active one.
EndOK(t) ==
    /\ t.row.status \in {"expired", "cancelled", "deleted"}
    /\ (\E i \in Live \ t.rows : subs[i].upgrade # NoGroup)
          => \E i \in Active \ t.rows : subs[i].upgrade = GroupAfter(t)

TransactionOK(t) ==
    /\ t.op = "create" => CreateOK(t)
    /\ t.op = "end" => EndOK(t)

OneTransaction == \A v, w \in Handlers : txn[v].op # "idle" /\ txn[w].op # "idle" => v = w

GroupNamed == group # NoGroup

GroupsOK ==
    /\ GroupTypeOK /\ PaidGroupKept /\ GroupNamed /\ OneTransaction
    /\ \A w \in Handlers : TransactionOK(txn[w])

\* EndsAfter orders the rows of user_subscriptions.
LEMMA EndsAfterOrder ==
    ASSUME GroupTypeOK, NEW i \in SubIds, NEW j \in SubIds, NEW k \in SubIds
    PROVE  /\ i # j => EndsAfter(i, j) \/ EndsAfter(j, i)
           /\ EndsAfter(i, j) /\ EndsAfter(j, k) => EndsAfter(i, k)
<1>1. subs[i].end \in Nat /\ subs[j].end \in Nat /\ subs[k].end \in Nat
    BY DEF GroupTypeOK, SubType
<1>2. i \in Nat /\ j \in Nat /\ k \in Nat
    BY GroupsAssumption
<1> QED
    BY <1>1, <1>2 DEF EndsAfter

\* Sets of rows are finite.
LEMMA RowsFinite == ASSUME NEW S \in SUBSET SubIds PROVE IsFiniteSet(S)
BY GroupsAssumption, FS_Subset

\* One of several rows ends last.
LEMMA LatestExists ==
    ASSUME GroupTypeOK, NEW S \in SUBSET SubIds, S # {}
    PROVE  \E i \in S : \A j \in S \ {i} : EndsAfter(i, j)
<1> DEFINE Has(s) == \E i \in s : \A j \in s \ {i} : EndsAfter(i, j)
           C == {s \in SUBSET S : s # {} /\ ~Has(s)}
<1>1. SUFFICES ASSUME C # {} PROVE FALSE
    OBVIOUS
<1>2. \A s \in C : IsFiniteSet(s)
    BY RowsFinite
<1>3. PICK s \in C : \A t \in C : Cardinality(s) <= Cardinality(t)
    BY <1>1, <1>2, SmallestSet
<1>4. PICK x \in s : TRUE
    BY <1>3
<1>5. s \ {x} \notin C
    BY <1>2, <1>3, <1>4, TakenOut
<1>6. s \subseteq SubIds
    BY <1>3
<1>7. CASE s \ {x} = {}
    BY <1>3, <1>4, <1>7
<1>8. CASE s \ {x} # {}
    <2>1. PICK y \in s \ {x} : \A j \in (s \ {x}) \ {y} : EndsAfter(y, j)
        BY <1>3, <1>5, <1>8
    <2>2. EndsAfter(x, y) \/ EndsAfter(y, x)
        BY <1>4, <1>6, <2>1, EndsAfterOrder
    <2>3. CASE EndsAfter(y, x)
        BY <1>3, <2>1, <2>3
    <2>4. CASE EndsAfter(x, y)
        <3>1. ASSUME NEW j \in s \ {x} PROVE EndsAfter(x, j)
            BY <1>4, <1>6, <2>1, <2>4, <3>1, EndsAfterOrder
        <3> QED
            BY <1>3, <1>4, <3>1
    <2> QED
        BY <2>2, <2>3, <2>4
<1> QED
    BY <1>7, <1>8

\* And one ends first.
LEMMA EarliestExists ==
    ASSUME GroupTypeOK, NEW S \in SUBSET SubIds, S # {}
    PROVE  Earliest(S) \in S
<1> DEFINE Has(s) == \E i \in s : \A j \in s \ {i} : EndsAfter(j, i)
           C == {s \in SUBSET S : s # {} /\ ~Has(s)}
<1>1. CASE C = {}
    <2>1. Has(S)
        BY <1>1
    <2> QED
        BY <2>1 DEF Earliest
<1>2. CASE C # {}
    <2>2. \A s \in C : IsFiniteSet(s)
        BY RowsFinite
    <2>3. PICK s \in C : \A t \in C : Cardinality(s) <= Cardinality(t)
        BY <1>2, <2>2, SmallestSet
    <2>4. PICK x \in s : TRUE
        BY <2>3
    <2>5. s \ {x} \notin C
        BY <2>2, <2>3, <2>4, TakenOut
    <2>6. s \subseteq SubIds
        BY <2>3
    <2>7. CASE s \ {x} = {}
        BY <2>3, <2>4, <2>7
    <2>8. CASE s \ {x} # {}
        <3>1. PICK y \in s \ {x} : \A j \in (s \ {x}) \ {y} : EndsAfter(j, y)
            BY <2>3, <2>5, <2>8
        <3>2. EndsAfter(x, y) \/ EndsAfter(y, x)
            BY <2>4, <2>6, <3>1, EndsAfterOrder
        <3>3. CASE EndsAfter(x, y)
            BY <2>3, <3>1, <3>3
        <3>4. CASE EndsAfter(y, x)
            <4>1. ASSUME NEW j \in s \ {x} PROVE EndsAfter(j, x)
                BY <2>4, <2>6, <3>1, <3>4, <4>1, EndsAfterOrder
            <4> QED
                BY <2>3, <2>4, <4>1
        <3> QED
            BY <3>2, <3>3, <3>4
    <2> QED
        BY <2>7, <2>8
<1> QED
    BY <1>1, <1>2

\* findLatestActiveSubscriptionUpgradeGroupTx finds a group if there is one.
LEMMA LatestGroup ==
    ASSUME GroupTypeOK, NEW ids \in SUBSET SubIds
    PROVE  /\ (\E i \in ids : subs[i].upgrade # NoGroup) =>
                  \E i \in ids : subs[i].upgrade = LatestUpgradeGroup(ids)
                                 /\ subs[i].upgrade # NoGroup
           /\ ~(\E i \in ids : subs[i].upgrade # NoGroup) => LatestUpgradeGroup(ids) = NoGroup
           /\ LatestUpgradeGroup(ids) \in Groups \cup {NoGroup}
<1> DEFINE upgrading == {i \in ids : subs[i].upgrade # NoGroup}
           last == CHOOSE i \in upgrading : \A j \in upgrading \ {i} : EndsAfter(i, j)
<1>1. CASE upgrading = {}
    BY <1>1 DEF LatestUpgradeGroup
<1>2. CASE upgrading # {}
    <2>1. \E i \in upgrading : \A j \in upgrading \ {i} : EndsAfter(i, j)
        BY <1>2, LatestExists
    <2>2. last \in upgrading
        BY <2>1
    <2>3. LatestUpgradeGroup(ids) = subs[last].upgrade
        BY <1>2 DEF LatestUpgradeGroup
    <2> HIDE DEF last
    <2>4. subs[last].upgrade \in Groups \cup {NoGroup}
        BY <2>2 DEF GroupTypeOK, SubType
    <2> QED
        BY <2>2, <2>3, <2>4
<1> QED
    BY <1>1, <1>2

\* The end of subscription i: the user stays, and not for the sake of i, or moves
\* to the group of one that remains.
LEMMA DowngradeMoves ==
    ASSUME GroupTypeOK, NEW c \in Groups, c # NoGroup, NEW i \in SubIds,
           NEW others \in SUBSET SubIds
    PROVE  /\ Downgrade(c, i, others) \in Groups /\ Downgrade(c, i, others) # NoGroup
           /\ (\E j \in others : subs[j].upgrade # NoGroup) =>
                 \/ Downgrade(c, i, others) = c /\ subs[i].upgrade # c
                 \/ \E j \in others : subs[j].upgrade = Downgrade(c, i, others)
<1>1. DowngradeTarget(i, others) \in Groups \cup {NoGroup}
    <2>1. subs[i].prev \in Groups \cup {NoGroup}
        BY DEF GroupTypeOK, SubType
    <2> QED
        BY <2>1, LatestGroup DEF DowngradeTarget
<1>2. ASSUME NEW j \in others, subs[j].upgrade # NoGroup
      PROVE  DowngradeTarget(i, others) # NoGroup
             /\ \E l \in others : subs[l].upgrade = DowngradeTarget(i, others)
    BY <1>2, LatestGroup DEF DowngradeTarget
<1> QED
    BY <1>1, <1>2 DEF Downgrade

\* One round of the loop that ends the subscriptions in ids.
Round(before, i, ids) ==
    LET next == Downgrade(before.current, i, Live \ ids)
    IN  [current |-> next,
         written |-> IF next = before.current THEN before.written ELSE next]

Outcome == [current : Groups \ {NoGroup}, written : Groups \cup {NoGroup}]

\* A round leaves the user in a named group.
LEMMA RoundType ==
    ASSUME GroupTypeOK, NEW before \in Outcome, NEW i \in SubIds, NEW ids
    PROVE  Round(before, i, ids) \in Outcome
<1> DEFINE next == Downgrade(before.current, i, Live \ ids)
<1>1. Live \ ids \in SUBSET SubIds
    BY DEF Live, Active
<1>2. before.current \in Groups /\ before.current # NoGroup
    BY DEF Outcome
<1>3. next \in Groups /\ next # NoGroup
    BY <1>1, <1>2, DowngradeMoves
<1> HIDE DEF next
<1>4. Round(before, i, ids) =
        [current |-> next, written |-> IF next = before.current THEN before.written ELSE next]
    BY DEF Round, next
<1> QED
    BY <1>3, <1>4 DEF Outcome

\* A function that runs the loop over the sets of rows in D.
Runs(g, ids, D) ==
    \A s \in D : g[s] = IF s = {} THEN [current |-> group, written |-> NoGroup]
                        ELSE Round(g[s \ {Earliest(s)}], Earliest(s), ids)

\* What is left to the rounds before the last one.
LEMMA SmallerRounds ==
    ASSUME GroupTypeOK, NEW ids \in SUBSET SubIds, NEW n \in Nat,
           NEW s \in Smaller(ids, n + 1), s # {}
    PROVE  s \ {Earliest(s)} \in Smaller(ids, n) /\ Earliest(s) \in SubIds
<1>1. s \in SUBSET SubIds /\ s \in SUBSET ids /\ IsFiniteSet(s) /\ Cardinality(s) <= n + 1
    BY RowsFinite DEF Smaller
<1>2. Earliest(s) \in s
    BY <1>1, EarliestExists
<1>3. Cardinality(s \ {Earliest(s)}) = Cardinality(s) - 1 /\ Cardinality(s) \in Nat
    BY <1>1, <1>2, FS_RemoveElement, FS_CardinalityType
<1> QED
    BY <1>1, <1>2, <1>3 DEF Smaller

\* There is such a function for the sets of any size.
LEMMA RunsUpTo ==
    ASSUME GroupTypeOK, GroupNamed, NEW ids \in SUBSET SubIds, NEW n \in Nat
    PROVE  \E g \in [Smaller(ids, n) -> Outcome] : Runs(g, ids, Smaller(ids, n))
<1> DEFINE start == [current |-> group, written |-> NoGroup]
           Bad == {m \in Nat : ~\E g \in [Smaller(ids, m) -> Outcome] :
                                    Runs(g, ids, Smaller(ids, m))}
<1>0. start \in Outcome
    BY DEF Outcome, GroupTypeOK, GroupNamed
<1>1. SUFFICES ASSUME Bad # {} PROVE FALSE
    OBVIOUS
<1>2. PICK m \in Bad : \A k \in Bad : m <= k
    BY <1>1, SmallestNat
<1> HIDE DEF start
<1>3. CASE m = 0
    <2> DEFINE g == [s \in Smaller(ids, 0) |-> start]
    <2>1. \A s \in Smaller(ids, 0) : s = {}
        BY RowsFinite, FS_CardinalityType, FS_EmptySet DEF Smaller
    <2>2. g \in [Smaller(ids, 0) -> Outcome] /\ Runs(g, ids, Smaller(ids, 0))
        BY <1>0, <2>1 DEF Runs, start
    <2> QED
        BY <1>3, <2>2
<1>4. CASE m # 0
    <2> DEFINE k == m - 1
    <2>1. k \in Nat /\ k \notin Bad /\ m = k + 1
        BY <1>2, <1>4
    <2>2. PICK f \in [Smaller(ids, k) -> Outcome] : Runs(f, ids, Smaller(ids, k))
        BY <2>1
    <2> DEFINE g == [s \in Smaller(ids, m) |->
                        IF s = {} THEN start
                        ELSE Round(f[s \ {Earliest(s)}], Earliest(s), ids)]
    <2> HIDE DEF k
    <2>3. ASSUME NEW s \in Smaller(ids, m), s # {}
          PROVE  s \ {Earliest(s)} \in Smaller(ids, k) /\ Earliest(s) \in SubIds
        BY <2>1, <2>3, SmallerRounds
    <2>4. g \in [Smaller(ids, m) -> Outcome]
        <3>1. ASSUME NEW s \in Smaller(ids, m), s # {}
              PROVE  Round(f[s \ {Earliest(s)}], Earliest(s), ids) \in Outcome
            BY <2>3, <3>1, RoundType
        <3> QED
            BY <1>0, <3>1
    <2>5. Smaller(ids, k) \subseteq Smaller(ids, m)
        BY <2>1, RowsFinite, FS_CardinalityType DEF Smaller
    <2>6. \A s \in Smaller(ids, k) : g[s] = f[s]
        BY <2>2, <2>5 DEF Runs, start
    <2>7. Runs(g, ids, Smaller(ids, m))
        BY <2>3, <2>6 DEF Runs, start
    <2> QED
        BY <2>4, <2>7
<1> QED
    BY <1>3, <1>4

\* AfterEnding is the result of such a function.
LEMMA EndingRuns ==
    ASSUME GroupTypeOK, GroupNamed, NEW ids \in SUBSET SubIds
    PROVE  \E g : Runs(g, ids, SUBSET ids) /\ AfterEnding(ids) = g[ids]
<1> DEFINE Is(g) == g = [done \in SUBSET ids |->
                            IF done = {} THEN [current |-> group, written |-> NoGroup]
                            ELSE Round(g[done \ {Earliest(done)}], Earliest(done), ids)]
           it == CHOOSE g : Is(g)
<1>1. Smaller(ids, Cardinality(ids)) = SUBSET ids /\ Cardinality(ids) \in Nat
    BY RowsFinite, FS_Subset, FS_CardinalityType DEF Smaller
<1>2. \E g \in [Smaller(ids, Cardinality(ids)) -> Outcome] :
          Runs(g, ids, Smaller(ids, Cardinality(ids)))
    BY <1>1, RunsUpTo
<1>3. PICK f \in [SUBSET ids -> Outcome] : Runs(f, ids, SUBSET ids)
    BY <1>1, <1>2
<1>4. Is(f)
    BY <1>3 DEF Runs
<1>5. Is(it)
    BY <1>4
<1>6. AfterEnding(ids) = it[ids]
    BY DEF AfterEnding, Round
<1> HIDE DEF it
<1>7. Runs(it, ids, SUBSET ids)
    BY <1>5 DEF Runs
<1> QED
    BY <1>6, <1>7

\* After the rounds for the rows in s: the group is the one written last, and if
\* a live subscription to an upgrade group remains, it is the group of an
\* active subscription that is not in s.
Rounds(r, s, ids) ==
    /\ r \in Outcome /\ r.current = (IF r.written = NoGroup THEN group ELSE r.written)
    /\ (\E i \in Live \ ids : subs[i].upgrade # NoGroup)
          => \E i \in Active \ s : subs[i].upgrade = r.current

\* One more round keeps that.
LEMMA RoundKeeps ==
    ASSUME GroupTypeOK, NEW ids \in SUBSET SubIds, NEW s \in SUBSET ids, NEW i \in s,
           NEW before, Rounds(before, s \ {i}, ids)
    PROVE  Rounds(Round(before, i, ids), s, ids)
<1> DEFINE next == Downgrade(before.current, i, Live \ ids)
           r == Round(before, i, ids)
<1>1. /\ Live \ ids \in SUBSET SubIds /\ i \in SubIds /\ Live \ ids \subseteq Active \ s
      /\ before \in Outcome /\ before.current \in Groups /\ before.current # NoGroup
    BY DEF Live, Active, Rounds, Outcome
<1>2. r \in Outcome
    BY <1>1, RoundType
<1>3. r.current = next /\ r.written = (IF next = before.current THEN before.written ELSE next)
    BY DEF Round
<1>4. /\ next # NoGroup
      /\ (\E j \in Live \ ids : subs[j].upgrade # NoGroup) =>
            \/ next = before.current /\ subs[i].upgrade # before.current
            \/ \E j \in Live \ ids : subs[j].upgrade = next
    BY <1>1, DowngradeMoves
<1> HIDE DEF next, r
<1>5. r.current = (IF r.written = NoGroup THEN group ELSE r.written)
    BY <1>3, <1>4 DEF Rounds
<1>6. ASSUME NEW l \in Live \ ids, subs[l].upgrade # NoGroup
      PROVE  \E j \in Active \ s : subs[j].upgrade = r.current
    <2>1. PICK j \in Active \ (s \ {i}) : subs[j].upgrade = before.current
        BY <1>6 DEF Rounds
    <2>2. CASE next = before.current /\ subs[i].upgrade # before.current
        BY <1>3, <2>1, <2>2
    <2>3. CASE \E k \in Live \ ids : subs[k].upgrade = next
        BY <1>1, <1>3, <2>3
    <2> QED
        BY <1>4, <1>6, <2>2, <2>3
<1> QED
    BY <1>2, <1>5, <1>6 DEF Rounds, r

\* What a transaction that ends subscriptions leaves behind.
LEMMA EndingKeeps ==
    ASSUME GroupTypeOK, GroupNamed, PaidGroupKept, NEW ids \in SUBSET SubIds
    PROVE  Rounds(AfterEnding(ids), ids, ids)
<1>1. PICK g : Runs(g, ids, SUBSET ids) /\ AfterEnding(ids) = g[ids]
    BY EndingRuns
<1> DEFINE C == {s \in SUBSET ids : ~Rounds(g[s], s, ids)}
<1> SUFFICES ASSUME C # {} PROVE FALSE
    BY <1>1
<1>2. \A s \in C : IsFiniteSet(s)
    BY RowsFinite
<1>3. PICK s \in C : \A t \in C : Cardinality(s) <= Cardinality(t)
    BY <1>2, SmallestSet
<1>4. CASE s = {}
    <2>1. g[s] = [current |-> group, written |-> NoGroup]
        BY <1>1, <1>3, <1>4 DEF Runs
    <2>2. g[s] \in Outcome /\ g[s].current = group /\ g[s].written = NoGroup
        BY <2>1 DEF Outcome, GroupTypeOK, GroupNamed
    <2>3. (\E i \in Live \ ids : subs[i].upgrade # NoGroup)
             => \E i \in Active \ s : subs[i].upgrade = group
        BY <1>4 DEF PaidGroupKept
    <2>4. Rounds(g[s], s, ids)
        BY <2>2, <2>3 DEF Rounds
    <2> QED
        BY <1>3, <2>4
<1>5. CASE s # {}
    <2>1. s \in SUBSET ids /\ s \in SUBSET SubIds
        BY <1>3
    <2>2. Earliest(s) \in s
        BY <1>5, <2>1, EarliestExists
    <2>3. s \ {Earliest(s)} \notin C
        BY <1>2, <1>3, <2>2, TakenOut
    <2>4. Rounds(g[s \ {Earliest(s)}], s \ {Earliest(s)}, ids)
        BY <2>1, <2>3
    <2>5. g[s] = Round(g[s \ {Earliest(s)}], Earliest(s), ids)
        BY <1>1, <1>5, <2>1 DEF Runs
    <2>6. Rounds(g[s], s, ids)
        BY <2>1, <2>2, <2>4, <2>5, RoundKeeps
    <2> QED
        BY <1>3, <2>6
<1> QED
    BY <1>4, <1>5

(***************************************************************************)
(* Every step keeps the invariant.                                         *)
(***************************************************************************)

\* A transaction that begins is the only one.
LEMMA GroupBeginKeeps ==
    ASSUME GroupsOK, Serialized, NEW w \in Handlers, NEW t \in GroupTxType, TransactionOK(t),
           BeginTx(w, t)
    PROVE  GroupsOK'
<1>1. /\ UNCHANGED <<group, subs, now>> /\ txn' = [txn EXCEPT ![w] = t]
      /\ \A v \in Handlers : txn[v].op = "idle"
    BY DEF BeginTx, MayBegin
<1>2. txn \in [Handlers -> GroupTxType]
    BY DEF GroupsOK, GroupTypeOK
<1>3. txn' \in [Handlers -> GroupTxType] /\ txn'[w] = t
      /\ \A v \in Handlers : v # w => txn'[v] = txn[v]
    BY <1>1, <1>2
<1>4. GroupTypeOK' /\ GroupNamed'
    BY <1>1, <1>3 DEF GroupsOK, GroupTypeOK, GroupNamed
<1>5. PaidGroupKept'
    BY <1>1 DEF GroupsOK, PaidGroupKept, Live, Active
<1>6. OneTransaction'
    BY <1>1, <1>3 DEF OneTransaction
<1>7. ASSUME NEW v \in Handlers PROVE TransactionOK(txn[v])'
    <2>1. CASE v = w
        <3>1. TransactionOK(t)'
            BY <1>1 DEF TransactionOK, CreateOK, EndOK, GroupAfter, Live, Active
        <3> QED
            BY <1>3, <2>1, <3>1 DEF TransactionOK, CreateOK, EndOK, GroupAfter
    <2>2. CASE v # w
        <3>1. txn'[v].op = "idle"
            BY <1>1, <1>3, <2>2
        <3> QED
            BY <3>1 DEF TransactionOK
    <2> QED
        BY <2>1, <2>2
<1> QED
    BY <1>4, <1>5, <1>6, <1>7 DEF GroupsOK

\* A purchase.
LEMMA GroupCreateKeeps ==
    ASSUME GroupsOK, Serialized, NEW w \in Handlers, NEW i \in SubIds, NEW p \in Plans,
           CreateUserSubscription(w, i, p)
    PROVE  GroupsOK'
<1> DEFINE moves == p.upgrade # NoGroup /\ p.upgrade # group
           g == IF moves THEN p.upgrade ELSE NoGroup
           row == [status |-> "active", upgrade |-> p.upgrade,
                   prev |-> IF moves THEN group ELSE NoGroup, end |-> PlanEndTime(p)]
<1>1. PICK t : t = [op |-> "create", rows |-> {i}, group |-> g, row |-> row]
    OBVIOUS
<1>2. BeginTx(w, t) /\ subs[i].status = "none"
    BY <1>1 DEF CreateUserSubscription, NextId
<1>3. group \in Groups /\ group # NoGroup /\ now \in Nat
    BY GroupsAssumption DEF GroupsOK, GroupTypeOK, GroupNamed
<1>4. PlanEndTime(p) \in Nat
    BY <1>3, GroupsAssumption DEF PlanEndTime
<1>5. p.upgrade \in Groups
    BY DEF Groups
<1>6. row \in SubType /\ g \in Groups \cup {NoGroup}
    BY <1>3, <1>4, <1>5 DEF SubType
<1>7. t.op = "create" /\ t.rows = {i} /\ t.group = g /\ t.row = row
    BY <1>1
<1>8. row.status = "active" /\ row.upgrade = p.upgrade
    OBVIOUS
<1> HIDE DEF row
<1>9. t \in GroupTxType
    BY <1>1, <1>6 DEF GroupTxType
<1>10. CreateOK(t)
    BY <1>2, <1>7, <1>8 DEF CreateOK, GroupAfter
<1>11. TransactionOK(t)
    BY <1>7, <1>10 DEF TransactionOK
<1> QED
    BY <1>2, <1>9, <1>11, GroupBeginKeeps

\* The end of some subscriptions, for any of the reasons.
LEMMA GroupEndKeeps ==
    ASSUME GroupsOK, Serialized, NEW w \in Handlers, NEW ids \in SUBSET SubIds,
           NEW status \in {"expired", "cancelled", "deleted"}, EndSubscriptions(w, ids, status)
    PROVE  GroupsOK'
<1> DEFINE row == [NoSub EXCEPT !.status = status, !.end = now]
<1>1. PICK t : t = [op |-> "end", rows |-> ids, group |-> AfterEnding(ids).written, row |-> row]
    OBVIOUS
<1>2. BeginTx(w, t)
    BY <1>1 DEF EndSubscriptions
<1>3. now \in Nat
    BY GroupsAssumption DEF GroupsOK, GroupTypeOK
<1>4. row \in SubType /\ row.status = status
    BY <1>3 DEF SubType, NoSub
<1>5. Rounds(AfterEnding(ids), ids, ids)
    BY EndingKeeps DEF GroupsOK
<1>6. AfterEnding(ids).written \in Groups \cup {NoGroup}
    BY <1>5 DEF Rounds, Outcome
<1>7. t.op = "end" /\ t.rows = ids /\ t.group = AfterEnding(ids).written /\ t.row = row
    BY <1>1
<1> HIDE DEF row
<1>8. t \in GroupTxType
    BY <1>1, <1>4, <1>6 DEF GroupTxType
<1>9. EndOK(t)
    BY <1>4, <1>5, <1>7 DEF EndOK, Rounds, GroupAfter
<1>10. TransactionOK(t)
    BY <1>7, <1>9 DEF TransactionOK
<1> QED
    BY <1>2, <1>8, <1>10, GroupBeginKeeps

\* The rows after a commit.
Ended(s, t) ==
    [s EXCEPT !.status = t.row.status,
              !.end = IF t.row.status = "cancelled" THEN t.row.end ELSE @]

\* Rows outside the transaction stay, the others are written.
LEMMA CommitRows ==
    ASSUME GroupTypeOK, NEW w \in Handlers, CommitTx(w), NEW i \in SubIds
    PROVE  /\ i \notin txn[w].rows => subs'[i] = subs[i]
           /\ i \in txn[w].rows /\ txn[w].op = "create" => subs'[i] = txn[w].row
           /\ i \in txn[w].rows /\ txn[w].op = "end" => subs'[i] = Ended(subs[i], txn[w])
BY DEF CommitTx, Ended

\* A commit writes a named group.
LEMMA CommitType ==
    ASSUME GroupTypeOK, GroupNamed, NEW w \in Handlers, CommitTx(w)
    PROVE  /\ GroupTypeOK' /\ GroupNamed' /\ group' = GroupAfter(txn[w])
           /\ txn'[w] = NoTx /\ \A v \in Handlers : v # w => txn'[v] = txn[v]
<1>1. txn[w] \in GroupTxType /\ txn[w].op \in {"create", "end"}
    BY DEF GroupTypeOK, GroupTxType, CommitTx
<1>2. txn[w].row \in SubType /\ txn[w].group \in Groups \cup {NoGroup}
    BY <1>1 DEF GroupTxType
<1>3. group' = GroupAfter(txn[w]) /\ group' \in Groups /\ group' # NoGroup
    BY <1>2 DEF CommitTx, GroupAfter, GroupTypeOK, GroupNamed
<1>4. ASSUME NEW i \in SubIds PROVE subs'[i] \in SubType
    <2>1. subs[i] \in SubType
        BY DEF GroupTypeOK
    <2>2. Ended(subs[i], txn[w]) \in SubType
        BY <1>2, <2>1 DEF Ended, SubType
    <2> QED
        BY <1>1, <1>2, <2>1, <2>2, CommitRows
<1>5. subs' \in [SubIds -> SubType]
    <2>1. DOMAIN subs' = SubIds /\ subs' = [i \in SubIds |-> subs'[i]]
        BY DEF CommitTx
    <2> QED
        BY <1>4, <2>1
<1>6. NoTx \in GroupTxType
    BY DEF NoTx, GroupTxType, NoSub, SubType
<1>7. /\ txn' \in [Handlers -> GroupTxType] /\ txn'[w] = NoTx
      /\ \A v \in Handlers : v # w => txn'[v] = txn[v]
    BY <1>6 DEF CommitTx, GroupTypeOK
<1>8. now' = now
    BY DEF CommitTx
<1> QED
    BY <1>3, <1>5, <1>7, <1>8 DEF GroupTypeOK, GroupNamed

\* A commit leaves the user in a group that was paid for.
LEMMA CommitPaid ==
    ASSUME GroupsOK, NEW w \in Handlers, CommitTx(w)
    PROVE  PaidGroupKept'
<1> SUFFICES ASSUME NEW l \in SubIds, subs'[l].status = "active", subs'[l].end > now',
                    subs'[l].upgrade # NoGroup
             PROVE  \E i \in SubIds : subs'[i].status = "active" /\ subs'[i].upgrade = group'
    BY DEF PaidGroupKept, Live, Active
<1>1. GroupTypeOK /\ GroupNamed /\ PaidGroupKept /\ TransactionOK(txn[w])
    BY DEF GroupsOK
<1>2. txn[w] \in GroupTxType /\ txn[w].op \in {"create", "end"} /\ txn[w].rows \subseteq SubIds
    BY <1>1 DEF GroupTypeOK, GroupTxType, CommitTx
<1>3. group' = GroupAfter(txn[w]) /\ now' = now
    BY <1>1, CommitType DEF CommitTx
<1>4. CASE txn[w].op = "create"
    <2>1. CreateOK(txn[w])
        BY <1>1, <1>4 DEF TransactionOK
    <2>2. PICK i \in txn[w].rows : TRUE
        BY <2>1 DEF CreateOK
    <2>3. i \in SubIds /\ subs'[i] = txn[w].row /\ txn[w].row.status = "active"
        BY <1>1, <1>2, <1>4, <2>1, <2>2, CommitRows DEF CreateOK
    <2>4. CASE txn[w].row.upgrade # NoGroup
        BY <1>3, <2>1, <2>3, <2>4 DEF CreateOK
    <2>5. CASE txn[w].row.upgrade = NoGroup
        <3>1. group' = group
            BY <1>3, <2>1, <2>5 DEF CreateOK, GroupAfter
        <3>2. l \notin txn[w].rows
            BY <1>1, <1>4, <2>5, CommitRows
        <3>3. l \in Live /\ subs[l].upgrade # NoGroup
            BY <1>1, <1>3, <3>2, CommitRows DEF Live, Active
        <3>4. PICK j \in Active : subs[j].upgrade = group
            BY <1>1, <3>3 DEF PaidGroupKept
        <3>5. j \in SubIds /\ j \notin txn[w].rows
            BY <2>1, <3>4 DEF Active, CreateOK
        <3>6. subs'[j] = subs[j]
            BY <1>1, <3>5, CommitRows
        <3> QED
            BY <3>1, <3>4, <3>5, <3>6 DEF Active
    <2> QED
        BY <2>4, <2>5
<1>5. CASE txn[w].op = "end"
    <2>1. EndOK(txn[w])
        BY <1>1, <1>5 DEF TransactionOK
    <2>2. l \notin txn[w].rows
        <3>1. ASSUME l \in txn[w].rows PROVE FALSE
            <4>1. subs'[l] = Ended(subs[l], txn[w]) /\ subs[l] \in SubType
                BY <1>1, <1>5, <3>1, CommitRows DEF GroupTypeOK
            <4>2. subs'[l].status = txn[w].row.status
                BY <4>1 DEF Ended, SubType
            <4> QED
                BY <2>1, <4>2 DEF EndOK
        <3> QED
            BY <3>1
    <2>3. l \in Live \ txn[w].rows /\ subs[l].upgrade # NoGroup
        BY <1>1, <1>3, <2>2, CommitRows DEF Live, Active
    <2>4. PICK j \in Active \ txn[w].rows : subs[j].upgrade = GroupAfter(txn[w])
        BY <2>1, <2>3 DEF EndOK
    <2>5. j \in SubIds /\ subs'[j] = subs[j] /\ subs[j].status = "active"
        BY <1>1, <2>4, CommitRows DEF Active
    <2> QED
        BY <1>3, <2>4, <2>5
<1> QED
    BY <1>2, <1>4, <1>5

\* When the transaction is over there is none.
LEMMA OverKeeps ==
    ASSUME GroupsOK, NEW w \in Handlers, txn[w].op # "idle",
           GroupTypeOK', GroupNamed', PaidGroupKept',
           txn'[w] = NoTx, \A v \in Handlers : v # w => txn'[v] = txn[v]
    PROVE  GroupsOK'
<1>1. \A v \in Handlers : txn'[v].op = "idle"
    BY DEF GroupsOK, OneTransaction, NoTx
<1>2. OneTransaction' /\ \A v \in Handlers : TransactionOK(txn[v])'
    BY <1>1 DEF OneTransaction, TransactionOK
<1> QED
    BY <1>2 DEF GroupsOK

\* A commit.
LEMMA GroupCommitKeeps ==
    ASSUME GroupsOK, NEW w \in Handlers, CommitTx(w)
    PROVE  GroupsOK'
<1>1. GroupTypeOK /\ GroupNamed /\ txn[w].op # "idle"
    BY DEF GroupsOK, CommitTx
<1> QED
    BY <1>1, CommitType, CommitPaid, OverKeeps

\* A rollback.
LEMMA GroupRollbackKeeps ==
    ASSUME GroupsOK, NEW w \in Handlers, RollbackTx(w)
    PROVE  GroupsOK'
<1>1. NoTx \in GroupTxType
    BY DEF NoTx, GroupTxType, NoSub, SubType
<1>2. /\ txn' \in [Handlers -> GroupTxType] /\ txn'[w] = NoTx
      /\ \A v \in Handlers : v # w => txn'[v] = txn[v]
    BY <1>1 DEF GroupsOK, RollbackTx, GroupTypeOK
<1>3. UNCHANGED <<group, subs, now>> /\ txn[w].op # "idle"
    BY DEF RollbackTx
<1>4. GroupTypeOK' /\ GroupNamed' /\ PaidGroupKept'
    BY <1>2, <1>3 DEF GroupsOK, GroupTypeOK, GroupNamed, PaidGroupKept, Live, Active
<1> QED
    BY <1>2, <1>3, <1>4, OverKeeps

\* Time only takes subscriptions out of Live.
LEMMA GroupTickKeeps ==
    ASSUME GroupsOK, Tick
    PROVE  GroupsOK'
<1>1. now \in 0 .. MaxTime /\ now < MaxTime /\ now' = now + 1 /\ UNCHANGED <<group, subs, txn>>
    BY DEF GroupsOK, GroupTypeOK, Tick
<1>2. now' \in 0 .. MaxTime
    BY <1>1, GroupsAssumption
<1>3. GroupTypeOK' /\ GroupNamed' /\ OneTransaction'
    BY <1>1, <1>2 DEF GroupsOK, GroupTypeOK, GroupNamed, OneTransaction
<1>4. Active' = Active /\ Live' \subseteq Live
    <2>1. \A i \in SubIds : subs[i].end \in Nat
        BY DEF GroupsOK, GroupTypeOK, SubType
    <2> QED
        BY <1>1, <2>1 DEF Active, Live
<1>5. PaidGroupKept'
    BY <1>1, <1>4 DEF GroupsOK, PaidGroupKept
<1>6. ASSUME NEW w \in Handlers PROVE TransactionOK(txn[w])'
    BY <1>1, <1>4 DEF GroupsOK, TransactionOK, CreateOK, EndOK, GroupAfter
<1> QED
    BY <1>3, <1>5, <1>6 DEF GroupsOK

\* Every step, case by case.
LEMMA GroupsStep ==
    ASSUME GroupsOK, Serialized, [GroupNext]_groupVars
    PROVE  GroupsOK'
<1>1. CASE Tick
    BY <1>1, GroupTickKeeps
<1>2. ASSUME NEW w \in Handlers, NEW i \in SubIds, NEW p \in Plans,
             CreateUserSubscription(w, i, p)
      PROVE  GroupsOK'
    BY <1>2, GroupCreateKeeps
<1>3. ASSUME NEW w \in Handlers, ExpireDueSubscriptions(w) \/ ExpireQuotaInsufficient(w)
      PROVE  GroupsOK'
    <2>1. PICK ids \in {Due, Live} : EndSubscriptions(w, ids, "expired")
        BY <1>3 DEF ExpireDueSubscriptions, ExpireQuotaInsufficient
    <2>2. ids \in SUBSET SubIds
        BY <2>1 DEF Due, Live, Active
    <2> QED
        BY <2>1, <2>2, GroupEndKeeps
<1>4. ASSUME NEW w \in Handlers, NEW i \in SubIds, AdminInvalidate(w, i) \/ AdminDelete(w, i)
      PROVE  GroupsOK'
    BY <1>4, GroupEndKeeps DEF AdminInvalidate, AdminDelete
<1>5. ASSUME NEW w \in Handlers, CommitTx(w) \/ RollbackTx(w) PROVE GroupsOK'
    BY <1>5, GroupCommitKeeps, GroupRollbackKeeps
<1>6. CASE UNCHANGED groupVars
    BY <1>6 DEF groupVars, GroupsOK, GroupTypeOK, GroupNamed, PaidGroupKept, OneTransaction,
        TransactionOK, CreateOK, EndOK, GroupAfter, Live, Active
<1> QED
    BY <1>1, <1>2, <1>3, <1>4, <1>5, <1>6 DEF GroupNext

\* A user without subscriptions.
LEMMA GroupsInit == GroupInit => GroupsOK
<1> SUFFICES ASSUME GroupInit PROVE GroupsOK
    OBVIOUS
<1>1. NoTx \in GroupTxType /\ NoSub \in SubType /\ NoTx.op = "idle" /\ NoSub.status = "none"
    BY DEF NoTx, GroupTxType, NoSub, SubType
<1>2. GroupTypeOK /\ GroupNamed
    BY <1>1, GroupsAssumption DEF GroupInit, GroupTypeOK, GroupNamed, Groups
<1>3. PaidGroupKept
    BY <1>1 DEF GroupInit, PaidGroupKept, Live, Active
<1>4. OneTransaction /\ \A w \in Handlers : TransactionOK(txn[w])
    BY <1>1 DEF GroupInit, OneTransaction, TransactionOK
<1> QED
    BY <1>2, <1>3, <1>4 DEF GroupsOK

\* With one transaction at a time, a user with a live subscription to an upgrade
\* group is in the group of an active one, for any plans and any number of
\* subscriptions, in whatever order they run out, are exhausted, cancelled or
\* deleted.
THEOREM PaidGroupIsKept == Serialized /\ GroupSpec => []GroupInvariant
<1>1. GroupsOK => GroupInvariant
    BY DEF GroupsOK, GroupInvariant
<1>2. Serialized /\ GroupsOK /\ [GroupNext]_groupVars => (GroupsOK /\ Serialized)'
    BY GroupsStep
<1> QED
    BY <1>1, <1>2, GroupsInit, PTL DEF GroupSpec
==============================================================================
