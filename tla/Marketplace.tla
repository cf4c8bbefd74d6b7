---------------------------- MODULE Marketplace -----------------------------
(***************************************************************************)
(* The marketplace of one seller's credential: fixed orders a buyer pays   *)
(* in advance, their use by requests (service/marketplace_fixed_order_     *)
(* relay.go), their expiry and the refund after a probe (service/          *)
(* marketplace_buyer.go), requests of the pool that are paid from the      *)
(* wallet (service/marketplace_pool_relay.go), and the settlements that    *)
(* credit the seller (service/marketplace_settlement.go).                  *)
(*                                                                         *)
(* A transaction locks the rows it works on and is one step.  What is read *)
(* before it is a step of its own.  The wallet session of a pool request   *)
(* is used by its promise (BillingSession).  Whether the credential is     *)
(* listed, enabled and healthy is left open: a request that finds it       *)
(* otherwise changes nothing.  A charge is the sum of the seller's income  *)
(* and the platform's fee.                                                 *)
(***************************************************************************)
EXTENDS Integers, FiniteSetsExt

CONSTANTS Orders,            \* fixed orders
          ExpiringOrders,    \* those of a credential with a time limit
          Requests,
          Pages,             \* the buyer's calls that are not relayed
          Purchased,         \* quota of a fixed order
          Estimates,         \* charges estimated before the relay
          Charges,           \* charges of the actual usage
          InitWallet,
          ConcurrencyLimit,
          MaxFaults,         \* bound on failing transactions and crashes
          None

ASSUME MarketAssumption ==
    /\ IsFiniteSet(Orders) /\ IsFiniteSet(Requests)
    /\ ExpiringOrders \subseteq Orders
    /\ Orders \cap Requests = {}
    /\ None \notin Orders
    /\ Purchased \in Nat \ {0}
    /\ Estimates \subseteq Nat /\ Charges \subseteq Nat
    /\ InitWallet \in Nat
    /\ ConcurrencyLimit \in Nat \ {0}
    /\ MaxFaults \in Nat

VARIABLES wallet,      \* quota of the buyer
          income,      \* quota credited to the seller
          orders,      \* rows of marketplace_fixed_orders
          due,         \* orders whose time is over
          stats,       \* row of marketplace_credential_stats
          ledger,      \* rows of marketplace_settlements: charge by request id
          sessions,    \* the billing sessions of the requests
          pages,       \* what the buyer's calls have read
          refunds,     \* history: quota given back to the wallet, by order
          rolledBack,  \* history: orders with a settlement that was rolled back
          faults

vars == <<wallet, income, orders, due, stats, ledger, sessions, pages, refunds, rolledBack, faults>>

Row == [status : {"none", "active", "exhausted", "expired", "refunded"},
        remaining : Nat, spent : Nat, expired : Nat, refunded : Nat,
        probe : {"none", "kept", "dropped"}]

NoRow == [status |-> "none", remaining |-> 0, spent |-> 0, expired |-> 0, refunded |-> 0,
          probe |-> "none"]

SessionType == [pc : {"none", "pool", "relay", "charged", "refunding", "ended", "dead"},
                order : Orders \cup {None}, hold : Nat,
                capacity : BOOLEAN]    \* taken and not yet released

NoSession == [pc |-> "none", order |-> None, hold |-> 0, capacity |-> FALSE]

PageType == [op : {"none", "sweep", "release"}, copy : [Orders -> Row]]

NoPage == [op |-> "none", copy |-> [o \in Orders |-> NoRow]]

TypeOK ==
    /\ wallet \in Int
    /\ income \in Nat
    /\ orders \in [Orders -> Row]
    /\ due \subseteq ExpiringOrders
    /\ stats \in [concurrency : Nat, active : Nat]
    /\ ledger \in [Orders \cup Requests -> Nat]
    /\ sessions \in [Requests -> SessionType]
    /\ pages \in [Pages -> PageType]
    /\ refunds \in [Orders -> Nat]
    /\ rolledBack \subseteq Orders
    /\ faults \in 0..MaxFaults

Init ==
    /\ wallet = InitWallet
    /\ income = 0
    /\ orders = [o \in Orders |-> NoRow]
    /\ due = {}
    /\ stats = [concurrency |-> 0, active |-> 0]
    /\ ledger = [id \in Orders \cup Requests |-> 0]
    /\ sessions = [r \in Requests |-> NoSession]
    /\ pages = [p \in Pages |-> NoPage]
    /\ refunds = [o \in Orders |-> 0]
    /\ rolledBack = {}
    /\ faults = 0

Fault == faults < MaxFaults /\ faults' = faults + 1
-----------------------------------------------------------------------------
(***************************************************************************)
(* Rows and counters.                                                      *)
(***************************************************************************)

\* createReleasedMarketplaceSettlementTx: the seller is credited with a new row.
CreateSettlement(id, charge) ==
    IF charge > 0 /\ ledger[id] = 0
    THEN /\ ledger' = [ledger EXCEPT ![id] = charge]
         /\ income' = income + charge
    ELSE UNCHANGED <<ledger, income>>

Reservable(row, delta) == delta > 0 => row.status = "active" /\ delta <= row.remaining

\* reserveDeltaTx and releaseDeltaTx: a negative delta is given back, whatever
\* the status is.
Reserved(row, delta) ==
    [row EXCEPT !.remaining = @ - delta,
                !.spent = IF @ + delta >= 0 THEN @ + delta ELSE 0]

\* Mutant: only an active order gets back what was reserved.
Released_Active(row, quota) == IF row.status = "active" THEN Reserved(row, -quota) ELSE row

Released(row, quota) == Reserved(row, -quota)

Less(n) == IF n > 0 THEN n - 1 ELSE n

\* Mutant: off by one.
CapacityFree_OffByOne == stats.concurrency <= ConcurrencyLimit

CapacityFree == stats.concurrency < ConcurrencyLimit

ReleaseCapacity(r) ==
    IF sessions[r].capacity THEN [stats EXCEPT !.concurrency = Less(@)] ELSE stats
-----------------------------------------------------------------------------
(***************************************************************************)
(* Orders: purchase, expiry, probe and refund.                             *)
(***************************************************************************)

CreateMarketplaceFixedOrder(o) ==
    /\ orders[o] = NoRow
    /\ wallet >= Purchased
    /\ wallet' = wallet - Purchased
    /\ orders' = [orders EXCEPT ![o] = [NoRow EXCEPT !.status = "active", !.remaining = Purchased]]
    /\ stats' = [stats EXCEPT !.active = @ + 1]
    /\ UNCHANGED <<income, due, ledger, sessions, pages, refunds, rolledBack, faults>>

TimeIsOver(o) ==
    /\ o \in ExpiringOrders \ due
    /\ orders[o].status = "active"
    /\ due' = due \cup {o}
    /\ UNCHANGED <<wallet, income, orders, stats, ledger, sessions, pages, refunds, rolledBack, faults>>

\* expireDueBuyerMarketplaceFixedOrders reads the orders that are due, and
\* expires each copy in a transaction that does not read the order again.
SweepReads(p) ==
    LET found == {o \in due : orders[o].status = "active"}
    IN  /\ pages[p].op = "none" /\ found # {}
        /\ pages' = [pages EXCEPT ![p] =
                        [op |-> "sweep",
                         copy |-> [o \in Orders |-> IF o \in found THEN orders[o] ELSE NoRow]]]
        /\ UNCHANGED <<wallet, income, orders, due, stats, ledger, sessions, refunds, rolledBack, faults>>

\* The page without order o; the last one ends it.
Without(p, o) ==
    LET copy == [pages[p].copy EXCEPT ![o] = NoRow]
    IN  IF \A q \in Orders : copy[q] = NoRow THEN NoPage ELSE [pages[p] EXCEPT !.copy = copy]

expireMarketplaceFixedOrder(p, o) ==
    LET row == pages[p].copy[o]
        expired == row.expired + row.remaining
    IN  /\ pages[p].op = "sweep" /\ row # NoRow
        /\ CreateSettlement(o, expired)
        /\ orders' = [orders EXCEPT ![o] =
                        [row EXCEPT !.status = "expired", !.remaining = 0, !.expired = expired]]
        /\ stats' = [stats EXCEPT !.active = Less(@)]
        /\ pages' = [pages EXCEPT ![p] = Without(p, o)]
        /\ UNCHANGED <<wallet, due, sessions, refunds, rolledBack, faults>>

SweepFails(p) ==
    /\ pages[p].op = "sweep"
    /\ Fault
    /\ pages' = [pages EXCEPT ![p] = NoPage]
    /\ UNCHANGED <<wallet, income, orders, due, stats, ledger, sessions, refunds, rolledBack>>

\* ProbeBuyerMarketplaceFixedOrder looks at the order, runs a probe that takes
\* long, and records its score if the order is still active.
ProbeFixedOrder(o, score) ==
    /\ orders[o].status = "active"
    /\ orders' = [orders EXCEPT ![o].probe = score]
    /\ UNCHANGED <<wallet, income, due, stats, ledger, sessions, pages, refunds, rolledBack, faults>>

Refundable(o) ==
    /\ orders[o].status = "active" /\ orders[o].remaining > 0 /\ orders[o].probe = "dropped"
    /\ o \notin due

\* ReleaseBuyerMarketplaceFixedOrderAfterProbe reads the order and the time.
ReleaseReads(p, o) ==
    /\ pages[p].op = "none"
    /\ Refundable(o)
    /\ pages' = [pages EXCEPT ![p] = [op |-> "release", copy |-> [NoPage.copy EXCEPT ![o] = orders[o]]]]
    /\ UNCHANGED <<wallet, income, orders, due, stats, ledger, sessions, refunds, rolledBack, faults>>

\* Mutant: what was read before the transaction is refunded.
RefundedQuota_Stale(p, o) == pages[p].copy[o].remaining

RefundedQuota(p, o) == orders[o].remaining

\* refundBuyerMarketplaceFixedOrderRemainingQuota locks and checks it again.
refundRemainingQuota(p, o) ==
    LET quota == RefundedQuota(p, o)
    IN  /\ pages[p].op = "release" /\ pages[p].copy[o] # NoRow
        /\ Refundable(o)
        /\ orders' = [orders EXCEPT ![o].status = "refunded", ![o].remaining = 0,
                                    ![o].refunded = @ + quota]
        /\ stats' = [stats EXCEPT !.active = Less(@)]
        /\ wallet' = wallet + quota
        /\ refunds' = [refunds EXCEPT ![o] = @ + quota]
        /\ pages' = [pages EXCEPT ![p] = NoPage]
        /\ UNCHANGED <<income, due, ledger, sessions, rolledBack, faults>>

ReleaseRejected(p, o) ==
    /\ pages[p].op = "release" /\ pages[p].copy[o] # NoRow
    /\ ~Refundable(o)
    /\ pages' = [pages EXCEPT ![p] = NoPage]
    /\ UNCHANGED <<wallet, income, orders, due, stats, ledger, sessions, refunds, rolledBack, faults>>
-----------------------------------------------------------------------------
(***************************************************************************)
(* Requests that use a fixed order.                                        *)
(***************************************************************************)

\* The expiry of an order that is due is rolled back by the error it returns.
PrepareFixedOrder(r, o, estimate) ==
    /\ sessions[r].pc = "none"
    /\ orders[o].status = "active" /\ o \notin due
    /\ CapacityFree
    /\ Reservable(orders[o], estimate)
    /\ stats' = [stats EXCEPT !.concurrency = @ + 1]
    /\ orders' = [orders EXCEPT ![o] = Reserved(@, estimate)]
    /\ sessions' = [sessions EXCEPT ![r] = [pc |-> "relay", order |-> o, hold |-> estimate,
                                            capacity |-> TRUE]]
    /\ UNCHANGED <<wallet, income, due, ledger, pages, refunds, rolledBack, faults>>

Fixed(r) == sessions[r].order # None

\* marketplaceCapActualFixedOrderBuyerCharge: at most what is left is charged.
Capped(r, charge) ==
    LET most == sessions[r].hold + orders[sessions[r].order].remaining
    IN  IF charge <= sessions[r].hold \/ charge <= most THEN charge ELSE most

DeltaOf(r, charge) == Capped(r, charge) - sessions[r].hold

Settle(r, charge) ==
    LET s == sessions[r]
        row == Reserved(orders[s.order], DeltaOf(r, charge))
        exhausted == row.remaining = 0 /\ row.status = "active"
    IN  /\ s.pc = "relay" /\ Fixed(r)
        /\ Reservable(orders[s.order], DeltaOf(r, charge))
        /\ orders' = [orders EXCEPT ![s.order] =
                        IF exhausted THEN [row EXCEPT !.status = "exhausted"] ELSE row]
        /\ stats' = [concurrency |-> Less(stats.concurrency),
                     active |-> IF exhausted THEN Less(stats.active) ELSE stats.active]
        /\ CreateSettlement(r, Capped(r, charge))
        /\ sessions' = [sessions EXCEPT ![r].pc = "ended", ![r].hold = Capped(r, charge),
                                        ![r].capacity = FALSE]
        /\ UNCHANGED <<wallet, due, pages, refunds, rolledBack, faults>>

\* The order has ended and the charge is higher than what was reserved.
SettleRejected(r, charge) ==
    /\ sessions[r].pc = "relay" /\ Fixed(r)
    /\ ~Reservable(orders[sessions[r].order], DeltaOf(r, charge))
    /\ sessions' = [sessions EXCEPT ![r].pc = "refunding"]
    /\ UNCHANGED <<wallet, income, orders, due, stats, ledger, pages, refunds, rolledBack, faults>>

\* The transaction fails; preConsumedQuota may already have its new value.
SettleFails(r, charge) ==
    /\ sessions[r].pc = "relay" /\ Fixed(r)
    /\ Reservable(orders[sessions[r].order], DeltaOf(r, charge))
    /\ Fault
    /\ \/ /\ sessions' = [sessions EXCEPT ![r].pc = "refunding"]
          /\ UNCHANGED rolledBack
       \/ /\ DeltaOf(r, charge) # 0
          /\ sessions' = [sessions EXCEPT ![r].pc = "refunding", ![r].hold = Capped(r, charge)]
          /\ rolledBack' = rolledBack \cup {sessions[r].order}
    /\ UNCHANGED <<wallet, income, orders, due, stats, ledger, pages, refunds>>

\* The relay answers with an error.
RelayFails(r) ==
    /\ sessions[r].pc = "relay"
    /\ sessions' = [sessions EXCEPT ![r].pc = "refunding"]
    /\ UNCHANGED <<wallet, income, orders, due, stats, ledger, pages, refunds, rolledBack, faults>>

Ended(r) == [sessions EXCEPT ![r].pc = "ended", ![r].hold = 0, ![r].capacity = FALSE]

Refund(r) ==
    /\ sessions[r].pc = "refunding" /\ Fixed(r)
    /\ orders' = [orders EXCEPT ![sessions[r].order] = Released(@, sessions[r].hold)]
    /\ stats' = ReleaseCapacity(r)
    /\ sessions' = Ended(r)
    /\ UNCHANGED <<wallet, income, due, ledger, pages, refunds, rolledBack, faults>>

\* The error is logged and nothing tries again.
RefundFails(r) ==
    /\ sessions[r].pc = "refunding" /\ Fixed(r)
    /\ Fault
    /\ sessions' = [sessions EXCEPT ![r].pc = "ended"]
    /\ UNCHANGED <<wallet, income, orders, due, stats, ledger, pages, refunds, rolledBack>>
-----------------------------------------------------------------------------
(***************************************************************************)
(* Requests of the pool.                                                   *)
(***************************************************************************)

PreparePool(r) ==
    /\ sessions[r].pc = "none"
    /\ CapacityFree
    /\ stats' = [stats EXCEPT !.concurrency = @ + 1]
    /\ sessions' = [sessions EXCEPT ![r].pc = "pool", ![r].capacity = TRUE]
    /\ UNCHANGED <<wallet, income, orders, due, ledger, pages, refunds, rolledBack, faults>>

PreConsumeBilling(r, estimate) ==
    /\ sessions[r].pc = "pool"
    /\ wallet >= estimate
    /\ wallet' = wallet - estimate
    /\ sessions' = [sessions EXCEPT ![r].pc = "relay", ![r].hold = estimate]
    /\ UNCHANGED <<income, orders, due, stats, ledger, pages, refunds, rolledBack, faults>>

PreConsumeFails(r) ==
    /\ sessions[r].pc = "pool"
    /\ sessions' = [sessions EXCEPT ![r].pc = "refunding"]
    /\ UNCHANGED <<wallet, income, orders, due, stats, ledger, pages, refunds, rolledBack, faults>>

FundingDelta(r, charge) == charge - sessions[r].hold

\* MarketplacePoolBillingSession.Settle: first the wallet is settled.
SettleFunding(r, charge) ==
    /\ sessions[r].pc = "relay" /\ ~Fixed(r)
    /\ wallet' = wallet - FundingDelta(r, charge)
    /\ sessions' = [sessions EXCEPT ![r].pc = "charged", ![r].hold = charge]
    /\ UNCHANGED <<income, orders, due, stats, ledger, pages, refunds, rolledBack, faults>>

\* The wallet is not settled: the capacity is released, unless that fails too,
\* and the caller finds a session that needs a refund.
SettleFundingFails(r) ==
    /\ sessions[r].pc = "relay" /\ ~Fixed(r)
    /\ Fault
    /\ \/ /\ stats' = ReleaseCapacity(r)
          /\ sessions' = [sessions EXCEPT ![r].pc = "refunding", ![r].capacity = FALSE]
       \/ /\ sessions' = [sessions EXCEPT ![r].pc = "refunding"]
          /\ UNCHANGED stats
    /\ UNCHANGED <<wallet, income, orders, due, ledger, pages, refunds, rolledBack>>

\* Then the seller is credited and the capacity released.
SettlePool(r) ==
    /\ sessions[r].pc = "charged"
    /\ CreateSettlement(r, sessions[r].hold)
    /\ stats' = ReleaseCapacity(r)
    /\ sessions' = [sessions EXCEPT ![r].pc = "ended", ![r].capacity = FALSE]
    /\ UNCHANGED <<wallet, orders, due, pages, refunds, rolledBack, faults>>

\* The seller is not credited; the capacity is released unless that fails too.
\* Either the transaction of the settlement fails, or the wallet session has
\* settled the wallet and returns the error of the token, after which the pool
\* is released without a settlement; nothing refunds a settled session.
SettlePoolFails(r) ==
    /\ sessions[r].pc = "charged"
    /\ Fault
    /\ \/ /\ stats' = ReleaseCapacity(r)
          /\ sessions' = [sessions EXCEPT ![r].pc = "ended", ![r].capacity = FALSE]
       \/ /\ sessions' = [sessions EXCEPT ![r].pc = "ended"]
          /\ UNCHANGED stats
    /\ UNCHANGED <<wallet, income, orders, due, ledger, pages, refunds, rolledBack>>

\* MarketplacePoolBillingSession.Refund: the wallet and then the capacity.
RefundPool(r) ==
    /\ sessions[r].pc = "refunding" /\ ~Fixed(r)
    /\ wallet' = wallet + sessions[r].hold
    /\ \/ /\ stats' = ReleaseCapacity(r)
          /\ sessions' = Ended(r)
          /\ UNCHANGED faults
       \/ /\ Fault /\ sessions[r].capacity
          /\ sessions' = [Ended(r) EXCEPT ![r].capacity = TRUE]
          /\ UNCHANGED stats
    /\ UNCHANGED <<income, orders, due, ledger, pages, refunds, rolledBack>>

\* The process dies: its sessions and pages are gone, what they took is not.
Crash ==
    /\ Fault
    /\ \E r \in Requests : sessions[r].pc \notin {"none", "ended", "dead"}
    /\ sessions' = [r \in Requests |-> IF sessions[r].pc \in {"none", "ended"} THEN sessions[r]
                                       ELSE [sessions[r] EXCEPT !.pc = "dead"]]
    /\ pages' = [p \in Pages |-> NoPage]
    /\ UNCHANGED <<wallet, income, orders, due, stats, ledger, refunds, rolledBack>>
-----------------------------------------------------------------------------
OrderStep(o) ==
    \/ CreateMarketplaceFixedOrder(o)
    \/ TimeIsOver(o)
    \/ \E score \in {"kept", "dropped"} : ProbeFixedOrder(o, score)

PageStep(p) ==
    \/ SweepReads(p)
    \/ SweepFails(p)
    \/ \E o \in Orders : \/ expireMarketplaceFixedOrder(p, o)
                         \/ ReleaseReads(p, o)
                         \/ refundRemainingQuota(p, o)
                         \/ ReleaseRejected(p, o)

FixedStep(r) ==
    \/ \E o \in Orders, e \in Estimates : PrepareFixedOrder(r, o, e)
    \/ \E c \in Charges : Settle(r, c) \/ SettleRejected(r, c) \/ SettleFails(r, c)
    \/ RelayFails(r)
    \/ Refund(r)
    \/ RefundFails(r)

PoolStep(r) ==
    \/ PreparePool(r)
    \/ \E e \in Estimates : PreConsumeBilling(r, e)
    \/ PreConsumeFails(r)
    \/ \E c \in Charges : SettleFunding(r, c)
    \/ SettleFundingFails(r)
    \/ SettlePool(r)
    \/ SettlePoolFails(r)
    \/ RefundPool(r)

Next ==
    \/ \E o \in Orders : OrderStep(o)
    \/ \E p \in Pages : PageStep(p)
    \/ \E r \in Requests : FixedStep(r) \/ PoolStep(r)
    \/ Crash

Spec == Init /\ [][Next]_vars
-----------------------------------------------------------------------------
(***************************************************************************)
(* Properties.                                                             *)
(***************************************************************************)

\* What the requests that use order o hold of it or have been charged; those
\* of the pool use None.
UsedIn(s, o) == [r \in Requests |-> IF s[r].order = o THEN s[r].hold ELSE 0]

HeldIn(s, o) == SumFunctionOnSet(UsedIn(s, o), Requests)

HeldBy(o) == HeldIn(sessions, o)

\* What a buyer paid for an order that does not expire is there at any time:
\* it is left, reserved or charged by requests, or refunded (reserveDeltaTx,
\* releaseDeltaTx, the refund after a probe), although a request may return or
\* take quota after the order has ended.  Only the settlement that is rolled
\* back after it has changed preConsumedQuota breaks it.
EscrowConserved ==
    \A o \in Orders \ (ExpiringOrders \cup rolledBack) :
        orders[o] # NoRow =>
            /\ orders[o].remaining + orders[o].spent + refunds[o] = Purchased
            /\ orders[o].spent = HeldBy(o)

\* Quota that was refunded to the wallet, charged by a request or reserved for
\* one is not left in the order as well, also if the buyer asks twice for the
\* refund, a request is settled meanwhile, or the order expires.
NeverSpentTwice ==
    \A o \in Orders \ rolledBack : orders[o].remaining + HeldBy(o) + refunds[o] <= Purchased

\* The seller has been credited exactly what the settlements say, although two
\* of the buyer's calls may expire one order (createReleasedMarketplaceSettlementTx).
IncomeMatchesLedger == income = SumFunctionOnSet(ledger, Orders \cup Requests)

\* current_concurrency is the number of requests that have taken capacity and
\* not returned it, over every path of the two kinds of sessions, and the
\* limit of the seller holds.
CapacityMatchesSessions ==
    /\ stats.concurrency = Cardinality({r \in Requests : sessions[r].capacity})
    /\ stats.concurrency <= ConcurrencyLimit

\* The wallet of the buyer has paid for the orders and for the requests of
\* the pool, and got back the refunds: nothing is paid or refunded twice.
WalletConserved ==
    wallet + Purchased * Cardinality({o \in Orders : orders[o] # NoRow})
           + HeldBy(None)
    = InitWallet + SumFunctionOnSet(refunds, Orders)

\* The accounts of both sides: nothing an order was bought for is lost, the
\* buyer's wallet has paid once for everything, and the seller's income is what
\* the settlements add up to.
AccountsExact == TypeOK /\ EscrowConserved /\ WalletConserved /\ IncomeMatchesLedger
=============================================================================
