-------------------------- MODULE MarketplaceProofs -------------------------
(***************************************************************************)
(* TLAPS proofs about Marketplace, for any finite sets of orders and       *)
(* requests, any amounts and any number of faults.                         *)
(***************************************************************************)
EXTENDS Marketplace, Sums

(***************************************************************************)
(* The inductive invariant.  An order that was not bought has no user, no  *)
(* copy and no refund, so that the first write of its row starts an empty  *)
(* account; a request that is relayed has its capacity, which its          *)
(* settlement gives back without looking; and a sweep holds copies of      *)
(* orders that expire only.                                                *)
(***************************************************************************)

OrderOK(o) ==
    orders[o].status = "none" =>
        /\ orders[o] = NoRow
        /\ refunds[o] = 0
        /\ \A r \in Requests : sessions[r].order # o
        /\ \A p \in Pages : pages[p].copy[o] = NoRow

SessionOK(r) ==
    /\ (sessions[r].pc = "none" => sessions[r] = NoSession)
    /\ (sessions[r].pc = "pool" => sessions[r].order = None /\ sessions[r].hold = 0)
    /\ (sessions[r].pc \in {"pool", "relay"} => sessions[r].capacity)

PageOK(p) ==
    \A o \in Orders : pages[p].op = "sweep" /\ pages[p].copy[o] # NoRow => o \in ExpiringOrders

\* The account of one order.
BookOK(o) ==
    /\ (o \notin rolledBack => orders[o].remaining + HeldBy(o) + refunds[o] <= Purchased)
    /\ (/\ o \notin rolledBack /\ o \notin ExpiringOrders /\ orders[o].status # "none"
        => /\ orders[o].remaining + orders[o].spent + refunds[o] = Purchased
           /\ orders[o].spent = HeldBy(o))

MarketInvariant ==
    /\ TypeOK
    /\ \A o \in Orders : OrderOK(o)
    /\ \A r \in Requests : SessionOK(r)
    /\ \A p \in Pages : PageOK(p)
    /\ \A o \in Orders : BookOK(o)
    /\ CapacityMatchesSessions
    /\ WalletConserved
    /\ IncomeMatchesLedger
-----------------------------------------------------------------------------
(***************************************************************************)
(* What requests hold.                                                     *)
(***************************************************************************)

\* What requests hold of an order, and what each of them holds, are naturals.
LEMMA HeldTypes ==
    ASSUME NEW S \in [Requests -> SessionType], NEW q
    PROVE  /\ \A r \in Requests : UsedIn(S, q)[r] \in Nat
           /\ HeldIn(S, q) \in Nat
           /\ \A r \in Requests : S[r].order = q => S[r].hold <= HeldIn(S, q)
<1>1. \A r \in Requests : UsedIn(S, q)[r] = IF S[r].order = q THEN S[r].hold ELSE 0
    BY DEF UsedIn
<1>2. \A r \in Requests : S[r].hold \in Nat
    BY DEF SessionType
<1>3. \A r \in Requests : UsedIn(S, q)[r] \in Nat
    BY <1>1, <1>2
<1>4. HeldIn(S, q) \in Nat
    BY <1>3, SumIsNat, MarketAssumption DEF HeldIn
<1>5. \A r \in Requests : UsedIn(S, q)[r] <= HeldIn(S, q)
    BY <1>3, SumBounds, MarketAssumption DEF HeldIn
<1> QED
    BY <1>1, <1>3, <1>4, <1>5

\* One request changes what it holds.
LEMMA HeldChange ==
    ASSUME NEW S \in [Requests -> SessionType], NEW T \in [Requests -> SessionType],
           NEW r \in Requests, \A t \in Requests : t # r => T[t] = S[t], NEW q
    PROVE  HeldIn(T, q) = HeldIn(S, q) - (IF S[r].order = q THEN S[r].hold ELSE 0)
                                       + (IF T[r].order = q THEN T[r].hold ELSE 0)
<1>1. \A t \in Requests : UsedIn(S, q)[t] = IF S[t].order = q THEN S[t].hold ELSE 0
    BY DEF UsedIn
<1>2. \A t \in Requests : UsedIn(T, q)[t] = IF T[t].order = q THEN T[t].hold ELSE 0
    BY DEF UsedIn
<1>3. \A t \in Requests : UsedIn(S, q)[t] \in Int /\ UsedIn(T, q)[t] \in Int
    BY HeldTypes
<1>4. \A t \in Requests : t # r => UsedIn(T, q)[t] = UsedIn(S, q)[t]
    BY <1>1, <1>2
<1>5. SumFunctionOnSet(UsedIn(T, q), Requests)
          = SumFunctionOnSet(UsedIn(S, q), Requests) - UsedIn(S, q)[r] + UsedIn(T, q)[r]
    BY <1>3, <1>4, SumChange, MarketAssumption
<1> QED
    BY <1>1, <1>2, <1>5 DEF HeldIn

\* No request changes what it holds.
LEMMA HeldKept ==
    ASSUME NEW S, NEW T, NEW q,
           \A r \in Requests : T[r].order = S[r].order /\ T[r].hold = S[r].hold
    PROVE  HeldIn(T, q) = HeldIn(S, q)
<1>1. UsedIn(T, q) = UsedIn(S, q)
    BY DEF UsedIn
<1> QED
    BY <1>1 DEF HeldIn

\* An order without users is not held.
LEMMA HeldByNobody ==
    ASSUME NEW S, NEW q, \A r \in Requests : S[r].order # q
    PROVE  HeldIn(S, q) = 0
<1>1. \A r \in Requests : UsedIn(S, q)[r] = 0
    BY DEF UsedIn
<1> QED
    BY <1>1, SumOfZeros, MarketAssumption DEF HeldIn
-----------------------------------------------------------------------------
(***************************************************************************)
(* How a request's session moves.                                          *)
(***************************************************************************)

Pcs == {"none", "pool", "relay", "charged", "refunding", "ended", "dead"}

HasFields(s, pc, o, h, c) == s.pc = pc /\ s.order = o /\ s.hold = h /\ s.capacity = c

\* Request r moves to pc, holds h and has the capacity c.
Moved(r, pc, h, c) ==
    /\ sessions' \in [Requests -> SessionType]
    /\ HasFields(sessions'[r], pc, sessions[r].order, h, c)
    /\ \A t \in Requests : t # r => sessions'[t] = sessions[t]
    /\ \A q : HeldIn(sessions', q) =
                  IF sessions[r].order = q THEN HeldIn(sessions, q) - sessions[r].hold + h
                  ELSE HeldIn(sessions, q)

\* The updates of a record with the fields of a session.
Records(P, O, H, C) == [pc : P, order : O, hold : H, capacity : C]

Updated(s, R, pc, h, c) ==
    LET p == [s EXCEPT !.pc = pc]
        ph == [s EXCEPT !.pc = pc, !.hold = h]
        pt == [s EXCEPT !.pc = pc, !.capacity = c]
        pht == [s EXCEPT !.pc = pc, !.hold = h, !.capacity = c]
    IN  /\ p \in R /\ HasFields(p, pc, s.order, s.hold, s.capacity)
        /\ ph \in R /\ HasFields(ph, pc, s.order, h, s.capacity)
        /\ pt \in R /\ HasFields(pt, pc, s.order, s.hold, c)
        /\ pht \in R /\ HasFields(pht, pc, s.order, h, c)

LEMMA RecordUpdates ==
    ASSUME NEW P, NEW O, NEW H, NEW C, NEW s \in Records(P, O, H, C),
           NEW pc \in P, NEW h \in H, NEW c \in C
    PROVE  Updated(s, Records(P, O, H, C), pc, h, c)
BY DEF HasFields, Records, Updated

\* The session of one request is replaced by another one.
LEMMA SessionReplaced ==
    ASSUME TypeOK, NEW r \in Requests, NEW s \in SessionType,
           sessions' = [sessions EXCEPT ![r] = s]
    PROVE  /\ sessions' \in [Requests -> SessionType]
           /\ sessions'[r] = s
           /\ \A t \in Requests : t # r => sessions'[t] = sessions[t]
           /\ \A q : HeldIn(sessions', q) = HeldIn(sessions, q)
                         - (IF sessions[r].order = q THEN sessions[r].hold ELSE 0)
                         + (IF s.order = q THEN s.hold ELSE 0)
<1>1. sessions \in [Requests -> SessionType]
    BY DEF TypeOK
<1>2. /\ sessions' \in [Requests -> SessionType]
      /\ sessions'[r] = s
      /\ \A t \in Requests : t # r => sessions'[t] = sessions[t]
    BY <1>1
<1>3. \A q : HeldIn(sessions', q) = HeldIn(sessions, q)
                  - (IF sessions[r].order = q THEN sessions[r].hold ELSE 0)
                  + (IF sessions'[r].order = q THEN sessions'[r].hold ELSE 0)
    BY <1>1, <1>2, HeldChange, Zenon
<1> QED
    BY <1>2, <1>3, Zenon

-----------------------------------------------------------------------------
\* The same for a session that keeps its order.
LEMMA ReplacedIsMoved ==
    ASSUME TypeOK, NEW r \in Requests, NEW s \in SessionType,
           sessions' = [sessions EXCEPT ![r] = s],
           NEW pc, NEW h, NEW c, HasFields(s, pc, sessions[r].order, h, c)
    PROVE  Moved(r, pc, h, c)
<1>1. /\ sessions' \in [Requests -> SessionType]
      /\ sessions'[r] = s
      /\ \A t \in Requests : t # r => sessions'[t] = sessions[t]
      /\ \A q : HeldIn(sessions', q) = HeldIn(sessions, q)
                    - (IF sessions[r].order = q THEN sessions[r].hold ELSE 0)
                    + (IF s.order = q THEN s.hold ELSE 0)
    BY SessionReplaced
<1>2. \A q : HeldIn(sessions, q) \in Nat
    BY HeldTypes DEF TypeOK
<1>3. sessions[r].hold \in Nat /\ s.hold \in Nat
    BY DEF TypeOK, SessionType
<1>4. s.order = sessions[r].order /\ s.hold = h
    BY Zenon DEF HasFields
<1>5. \A q : HeldIn(sessions', q) =
                 IF sessions[r].order = q THEN HeldIn(sessions, q) - sessions[r].hold + h
                 ELSE HeldIn(sessions, q)
    <2> SUFFICES ASSUME NEW q
                 PROVE  HeldIn(sessions', q) =
                            IF sessions[r].order = q THEN HeldIn(sessions, q) - sessions[r].hold + h
                            ELSE HeldIn(sessions, q)
        OBVIOUS
    <2>1. HeldIn(sessions', q) = HeldIn(sessions, q)
                    - (IF sessions[r].order = q THEN sessions[r].hold ELSE 0)
                    + (IF s.order = q THEN s.hold ELSE 0)
        BY <1>1, Zenon
    <2> DEFINE held == HeldIn(sessions, q)  new == HeldIn(sessions', q)
    <2>2. held \in Nat /\ new = held - (IF sessions[r].order = q THEN sessions[r].hold ELSE 0)
                                     + (IF s.order = q THEN s.hold ELSE 0)
        BY <1>2, <2>1
    <2> HIDE DEF held, new
    <2>3. new = IF sessions[r].order = q THEN held - sessions[r].hold + h ELSE held
        BY <1>3, <1>4, <2>2
    <2> QED
        BY <2>3 DEF held, new
<1>6. HasFields(sessions'[r], pc, sessions[r].order, h, c)
    BY <1>1, Zenon
<1> QED
    BY <1>1, <1>5, <1>6, Zenon DEF Moved

\* The assignments the actions make.
LEMMA SessionUpdates ==
    ASSUME TypeOK, NEW r \in Requests, NEW pc \in Pcs, NEW h \in Nat, NEW c \in BOOLEAN
    PROVE  /\ (sessions' = [sessions EXCEPT ![r].pc = pc]
               => Moved(r, pc, sessions[r].hold, sessions[r].capacity))
           /\ (sessions' = [sessions EXCEPT ![r].pc = pc, ![r].hold = h]
               => Moved(r, pc, h, sessions[r].capacity))
           /\ (sessions' = [sessions EXCEPT ![r].pc = pc, ![r].capacity = c]
               => Moved(r, pc, sessions[r].hold, c))
           /\ (sessions' = [sessions EXCEPT ![r].pc = pc, ![r].hold = h, ![r].capacity = c]
               => Moved(r, pc, h, c))
<1>1. sessions \in [Requests -> SessionType] /\ sessions[r] \in SessionType
    BY DEF TypeOK
<1>2. Updated(sessions[r], SessionType, pc, h, c)
    <2> DEFINE B == BOOLEAN  O == Orders \cup {None}
    <2>1. SessionType = Records(Pcs, O, Nat, B)
        BY Zenon DEF SessionType, Pcs, Records
    <2>2. c \in B
        OBVIOUS
    <2> HIDE DEF B, O
    <2>3. sessions[r] \in Records(Pcs, O, Nat, B)
        BY <1>1, <2>1
    <2>4. Updated(sessions[r], Records(Pcs, O, Nat, B), pc, h, c)
        BY <2>2, <2>3, RecordUpdates
    <2> QED
        BY <2>1, <2>4
<1>3. /\ [sessions EXCEPT ![r].pc = pc] = [sessions EXCEPT ![r] = [sessions[r] EXCEPT !.pc = pc]]
      /\ [sessions EXCEPT ![r].pc = pc, ![r].hold = h]
         = [sessions EXCEPT ![r] = [sessions[r] EXCEPT !.pc = pc, !.hold = h]]
      /\ [sessions EXCEPT ![r].pc = pc, ![r].capacity = c]
         = [sessions EXCEPT ![r] = [sessions[r] EXCEPT !.pc = pc, !.capacity = c]]
      /\ [sessions EXCEPT ![r].pc = pc, ![r].hold = h, ![r].capacity = c]
         = [sessions EXCEPT ![r] = [sessions[r] EXCEPT !.pc = pc, !.hold = h, !.capacity = c]]
    BY <1>1
<1>4. ASSUME sessions' = [sessions EXCEPT ![r].pc = pc]
      PROVE  Moved(r, pc, sessions[r].hold, sessions[r].capacity)
    BY <1>2, <1>3, <1>4, ReplacedIsMoved, Zenon DEF Updated
<1>5. ASSUME sessions' = [sessions EXCEPT ![r].pc = pc, ![r].hold = h]
      PROVE  Moved(r, pc, h, sessions[r].capacity)
    BY <1>2, <1>3, <1>5, ReplacedIsMoved, Zenon DEF Updated
<1>6. ASSUME sessions' = [sessions EXCEPT ![r].pc = pc, ![r].capacity = c]
      PROVE  Moved(r, pc, sessions[r].hold, c)
    BY <1>2, <1>3, <1>6, ReplacedIsMoved, Zenon DEF Updated
<1>7. ASSUME sessions' = [sessions EXCEPT ![r].pc = pc, ![r].hold = h, ![r].capacity = c]
      PROVE  Moved(r, pc, h, c)
    BY <1>2, <1>3, <1>7, ReplacedIsMoved, Zenon DEF Updated
<1> QED
    BY <1>4, <1>5, <1>6, <1>7, Zenon

\* What a settlement charges is a natural, and no more than the request holds
\* and the order has left.
LEMMA CappedFacts ==
    ASSUME TypeOK, NEW r \in Requests, NEW charge \in Charges, sessions[r].order \in Orders
    PROVE  /\ Capped(r, charge) \in Nat
           /\ DeltaOf(r, charge) = Capped(r, charge) - sessions[r].hold
           /\ DeltaOf(r, charge) \in Int
           /\ DeltaOf(r, charge) <= orders[sessions[r].order].remaining
<1>1. charge \in Nat
    BY MarketAssumption
<1>2. sessions[r].hold \in Nat
    BY DEF TypeOK, SessionType
<1>3. orders[sessions[r].order].remaining \in Nat
    BY DEF TypeOK, Row
<1> QED
    BY <1>1, <1>2, <1>3 DEF Capped, DeltaOf

\* The session after each action of a fixed order's request.
LEMMA FixedMoves ==
    ASSUME TypeOK, NEW r \in Requests
    PROVE  /\ \A charge \in Charges : Settle(r, charge) => Moved(r, "ended", Capped(r, charge), FALSE)
           /\ \A charge \in Charges : SettleRejected(r, charge) =>
                  Moved(r, "refunding", sessions[r].hold, sessions[r].capacity)
           /\ \A charge \in Charges : SettleFails(r, charge) =>
                  \/ /\ Moved(r, "refunding", sessions[r].hold, sessions[r].capacity)
                     /\ UNCHANGED rolledBack
                  \/ /\ Moved(r, "refunding", Capped(r, charge), sessions[r].capacity)
                     /\ rolledBack' = rolledBack \cup {sessions[r].order}
           /\ (RelayFails(r) => Moved(r, "refunding", sessions[r].hold, sessions[r].capacity))
           /\ (Refund(r) => Moved(r, "ended", 0, FALSE))
           /\ (RefundFails(r) => Moved(r, "ended", sessions[r].hold, sessions[r].capacity))
<1>1. \A pc \in Pcs : sessions' = [sessions EXCEPT ![r].pc = pc]
          => Moved(r, pc, sessions[r].hold, sessions[r].capacity)
    BY SessionUpdates, Zenon
<1>2. \A pc \in Pcs : \A h \in Nat : sessions' = [sessions EXCEPT ![r].pc = pc, ![r].hold = h]
          => Moved(r, pc, h, sessions[r].capacity)
    BY SessionUpdates, Zenon
<1>3. \A pc \in Pcs : \A h \in Nat : \A c \in BOOLEAN :
          sessions' = [sessions EXCEPT ![r].pc = pc, ![r].hold = h, ![r].capacity = c]
          => Moved(r, pc, h, c)
    BY SessionUpdates, Zenon
<1>4. {"ended", "refunding"} \subseteq Pcs
    BY DEF Pcs
<1>5. Fixed(r) => \A charge \in Charges : Capped(r, charge) \in Nat
    <2>1. sessions[r].order \in Orders \cup {None}
        BY DEF TypeOK, SessionType
    <2> QED
        BY <2>1, CappedFacts DEF Fixed
<1>6. \A charge \in Charges : Settle(r, charge) => Moved(r, "ended", Capped(r, charge), FALSE)
    BY <1>3, <1>4, <1>5, Zenon DEF Settle
<1>7. \A charge \in Charges : SettleRejected(r, charge) =>
          Moved(r, "refunding", sessions[r].hold, sessions[r].capacity)
    BY <1>1, <1>4, Zenon DEF SettleRejected
<1>8. \A charge \in Charges : SettleFails(r, charge) =>
          \/ /\ Moved(r, "refunding", sessions[r].hold, sessions[r].capacity)
             /\ UNCHANGED rolledBack
          \/ /\ Moved(r, "refunding", Capped(r, charge), sessions[r].capacity)
             /\ rolledBack' = rolledBack \cup {sessions[r].order}
    BY <1>1, <1>2, <1>4, <1>5, Zenon DEF SettleFails
<1>9. RelayFails(r) => Moved(r, "refunding", sessions[r].hold, sessions[r].capacity)
    BY <1>1, <1>4, Zenon DEF RelayFails
<1>10. Refund(r) => Moved(r, "ended", 0, FALSE)
    BY <1>3, <1>4, Zenon DEF Refund, Ended
<1>11. RefundFails(r) => Moved(r, "ended", sessions[r].hold, sessions[r].capacity)
    BY <1>1, <1>4, Zenon DEF RefundFails
<1> QED
    BY <1>6, <1>7, <1>8, <1>9, <1>10, <1>11, Zenon

\* The session after each action of a request of the pool.
LEMMA PoolMoves ==
    ASSUME TypeOK, NEW r \in Requests
    PROVE  /\ (PreparePool(r) => Moved(r, "pool", sessions[r].hold, TRUE))
           /\ \A e \in Estimates : PreConsumeBilling(r, e) => Moved(r, "relay", e, sessions[r].capacity)
           /\ (PreConsumeFails(r) => Moved(r, "refunding", sessions[r].hold, sessions[r].capacity))
           /\ \A c \in Charges : SettleFunding(r, c) => Moved(r, "charged", c, sessions[r].capacity)
           /\ (SettleFundingFails(r) =>
                  \/ /\ Moved(r, "refunding", sessions[r].hold, FALSE)
                     /\ stats' = ReleaseCapacity(r)
                  \/ /\ Moved(r, "refunding", sessions[r].hold, sessions[r].capacity)
                     /\ UNCHANGED stats)
           /\ (SettlePool(r) => Moved(r, "ended", sessions[r].hold, FALSE))
           /\ (SettlePoolFails(r) =>
                  \/ /\ Moved(r, "ended", sessions[r].hold, FALSE)
                     /\ stats' = ReleaseCapacity(r)
                  \/ /\ Moved(r, "ended", sessions[r].hold, sessions[r].capacity)
                     /\ UNCHANGED stats)
           /\ (RefundPool(r) =>
                  \/ /\ Moved(r, "ended", 0, FALSE)
                     /\ stats' = ReleaseCapacity(r)
                  \/ /\ Moved(r, "ended", 0, sessions[r].capacity)
                     /\ UNCHANGED stats)
<1>1. \A pc \in Pcs : sessions' = [sessions EXCEPT ![r].pc = pc]
          => Moved(r, pc, sessions[r].hold, sessions[r].capacity)
    BY SessionUpdates, Zenon
<1>2. \A pc \in Pcs : \A h \in Nat : sessions' = [sessions EXCEPT ![r].pc = pc, ![r].hold = h]
          => Moved(r, pc, h, sessions[r].capacity)
    BY SessionUpdates, Zenon
<1>3. \A pc \in Pcs : \A c \in BOOLEAN :
          sessions' = [sessions EXCEPT ![r].pc = pc, ![r].capacity = c]
          => Moved(r, pc, sessions[r].hold, c)
    BY SessionUpdates, Zenon
<1>4. \A pc \in Pcs : \A h \in Nat : \A c \in BOOLEAN :
          sessions' = [sessions EXCEPT ![r].pc = pc, ![r].hold = h, ![r].capacity = c]
          => Moved(r, pc, h, c)
    BY SessionUpdates, Zenon
<1>5. {"pool", "relay", "charged", "ended", "refunding"} \subseteq Pcs
    BY DEF Pcs
<1>6. (\A e \in Estimates : e \in Nat) /\ (\A c \in Charges : c \in Nat)
    BY MarketAssumption
<1>7. PreparePool(r) => Moved(r, "pool", sessions[r].hold, TRUE)
    BY <1>3, <1>5, Zenon DEF PreparePool
<1>8. \A e \in Estimates : PreConsumeBilling(r, e) => Moved(r, "relay", e, sessions[r].capacity)
    BY <1>2, <1>5, <1>6, Zenon DEF PreConsumeBilling
<1>9. PreConsumeFails(r) => Moved(r, "refunding", sessions[r].hold, sessions[r].capacity)
    BY <1>1, <1>5, Zenon DEF PreConsumeFails
<1>10. \A c \in Charges : SettleFunding(r, c) => Moved(r, "charged", c, sessions[r].capacity)
    BY <1>2, <1>5, <1>6, Zenon DEF SettleFunding
<1>11. SettleFundingFails(r) =>
          \/ /\ Moved(r, "refunding", sessions[r].hold, FALSE)
             /\ stats' = ReleaseCapacity(r)
          \/ /\ Moved(r, "refunding", sessions[r].hold, sessions[r].capacity)
             /\ UNCHANGED stats
    BY <1>1, <1>3, <1>5, Zenon DEF SettleFundingFails
<1>12. SettlePool(r) => Moved(r, "ended", sessions[r].hold, FALSE)
    BY <1>3, <1>5, Zenon DEF SettlePool
<1>13. SettlePoolFails(r) =>
          \/ /\ Moved(r, "ended", sessions[r].hold, FALSE)
             /\ stats' = ReleaseCapacity(r)
          \/ /\ Moved(r, "ended", sessions[r].hold, sessions[r].capacity)
             /\ UNCHANGED stats
    BY <1>1, <1>3, <1>5, Zenon DEF SettlePoolFails
<1>14. RefundPool(r) =>
          \/ /\ Moved(r, "ended", 0, FALSE)
             /\ stats' = ReleaseCapacity(r)
          \/ /\ Moved(r, "ended", 0, sessions[r].capacity)
             /\ UNCHANGED stats
    <2>1. [Ended(r) EXCEPT ![r].capacity = TRUE]
          = [sessions EXCEPT ![r].pc = "ended", ![r].hold = 0, ![r].capacity = TRUE]
        BY DEF Ended, TypeOK, SessionType
    <2>2. sessions[r].capacity \in BOOLEAN
        BY DEF TypeOK, SessionType
    <2>3. sessions[r].capacity => sessions[r].capacity = TRUE
        BY <2>2, Zenon
    <2> QED
        BY <1>4, <1>5, <2>1, <2>3, Zenon DEF RefundPool, Ended
<1> QED
    BY <1>7, <1>8, <1>9, <1>10, <1>11, <1>12, <1>13, <1>14, Zenon
-----------------------------------------------------------------------------
(***************************************************************************)
(* Type correctness.                                                       *)
(***************************************************************************)

\* The row after a reservation that is not larger than what is left.
LEMMA ReservedRow ==
    ASSUME NEW row \in Row, NEW delta \in Int, delta <= row.remaining
    PROVE  LET new == Reserved(row, delta)
           IN  /\ new \in Row
               /\ new.status = row.status /\ new.probe = row.probe
               /\ new.remaining = row.remaining - delta
               /\ new.spent = IF row.spent + delta >= 0 THEN row.spent + delta ELSE 0
               /\ new.expired = row.expired /\ new.refunded = row.refunded
<1>1. row.remaining \in Nat /\ row.spent \in Nat
    BY DEF Row
<1> DEFINE left == row.remaining - delta
           paid == IF row.spent + delta >= 0 THEN row.spent + delta ELSE 0
<1>2. left \in Nat /\ paid \in Nat
    BY <1>1
<1>3. Reserved(row, delta) = [row EXCEPT !.remaining = left, !.spent = paid]
    BY DEF Reserved
<1> HIDE DEF left, paid
<1>4. LET new == [row EXCEPT !.remaining = left, !.spent = paid]
      IN  /\ new \in Row
          /\ new.status = row.status /\ new.probe = row.probe
          /\ new.remaining = left /\ new.spent = paid
          /\ new.expired = row.expired /\ new.refunded = row.refunded
    BY <1>2 DEF Row
<1> QED
    BY <1>3, <1>4 DEF left, paid

\* The counters of the credential.
LEMMA StatsTypes ==
    ASSUME TypeOK
    PROVE  /\ stats.concurrency \in Nat /\ stats.active \in Nat
           /\ Less(stats.concurrency) \in Nat /\ Less(stats.active) \in Nat
           /\ \A r \in Requests : ReleaseCapacity(r) \in [concurrency : Nat, active : Nat]
           /\ \A n \in Nat : [stats EXCEPT !.active = n] \in [concurrency : Nat, active : Nat]
           /\ \A n \in Nat : [stats EXCEPT !.concurrency = n] \in [concurrency : Nat, active : Nat]
<1>1. stats \in [concurrency : Nat, active : Nat] /\ stats.concurrency \in Nat /\ stats.active \in Nat
    BY DEF TypeOK
<1>2. Less(stats.concurrency) \in Nat /\ Less(stats.active) \in Nat
    BY <1>1 DEF Less
<1>3. /\ \A n \in Nat : [stats EXCEPT !.active = n] \in [concurrency : Nat, active : Nat]
      /\ \A n \in Nat : [stats EXCEPT !.concurrency = n] \in [concurrency : Nat, active : Nat]
    BY <1>1
<1>4. \A r \in Requests : ReleaseCapacity(r) \in [concurrency : Nat, active : Nat]
    BY <1>1, <1>2, <1>3, Zenon DEF ReleaseCapacity
<1> QED
    BY <1>1, <1>2, <1>3, <1>4

\* A settlement keeps the types of the ledger and of the income.
LEMMA SettlementTypes ==
    ASSUME TypeOK, NEW id \in Orders \cup Requests, NEW charge \in Nat, CreateSettlement(id, charge)
    PROVE  ledger' \in [Orders \cup Requests -> Nat] /\ income' \in Nat
BY DEF TypeOK, CreateSettlement

\* The copies of pages are rows.
LEMMA CopyTypes ==
    ASSUME TypeOK, NEW p \in Pages, NEW o \in Orders
    PROVE  /\ pages[p].copy \in [Orders -> Row] /\ pages[p].copy[o] \in Row
           /\ NoRow \in Row /\ NoPage \in PageType
           /\ Without(p, o) \in PageType
<1>1. NoRow \in Row
    BY DEF NoRow, Row
<1>2. NoPage \in PageType
    BY <1>1 DEF NoPage, PageType
<1>3. pages[p] \in PageType /\ pages[p].copy \in [Orders -> Row]
    BY DEF TypeOK, PageType
<1>4. [pages[p].copy EXCEPT ![o] = NoRow] \in [Orders -> Row]
    BY <1>1, <1>3
<1>5. [pages[p] EXCEPT !.copy = [pages[p].copy EXCEPT ![o] = NoRow]] \in PageType
    BY <1>3, <1>4 DEF PageType
<1>6. Without(p, o) \in PageType
    BY <1>2, <1>5 DEF Without
<1> QED
    BY <1>1, <1>2, <1>3, <1>6

LEMMA OrderStepTypes == ASSUME TypeOK, NEW o \in Orders, OrderStep(o) PROVE TypeOK'
<1> USE DEF TypeOK
<1>1. CASE CreateMarketplaceFixedOrder(o)
    <2>1. [NoRow EXCEPT !.status = "active", !.remaining = Purchased] \in Row
        BY MarketAssumption DEF NoRow, Row
    <2>2. orders' \in [Orders -> Row]
        BY <1>1, <2>1 DEF CreateMarketplaceFixedOrder
    <2>3. stats.active + 1 \in Nat
        BY StatsTypes
    <2>4. stats' \in [concurrency : Nat, active : Nat]
        BY <1>1, <2>3, StatsTypes DEF CreateMarketplaceFixedOrder
    <2>5. wallet' \in Int
        BY <1>1, MarketAssumption DEF CreateMarketplaceFixedOrder
    <2> QED
        BY <1>1, <2>2, <2>4, <2>5 DEF CreateMarketplaceFixedOrder
<1>2. CASE TimeIsOver(o)
    BY <1>2 DEF TimeIsOver
<1>3. ASSUME NEW score \in {"kept", "dropped"}, ProbeFixedOrder(o, score) PROVE TypeOK'
    <2>1. [orders[o] EXCEPT !.probe = score] \in Row
        BY DEF Row
    <2>2. orders' \in [Orders -> Row]
        BY <1>3, <2>1 DEF ProbeFixedOrder
    <2> QED
        BY <1>3, <2>2 DEF ProbeFixedOrder
<1> QED
    BY <1>1, <1>2, <1>3 DEF OrderStep

LEMMA PageStepTypes == ASSUME TypeOK, NEW p \in Pages, PageStep(p) PROVE TypeOK'
<1> USE DEF TypeOK
<1>1. CASE SweepReads(p)
    <2> DEFINE found == {o \in due : orders[o].status = "active"}
               page == [op |-> "sweep",
                        copy |-> [o \in Orders |-> IF o \in found THEN orders[o] ELSE NoRow]]
    <2>1. NoRow \in Row
        BY DEF NoRow, Row
    <2>2. page \in PageType
        BY <2>1 DEF PageType
    <2>3. pages' = [pages EXCEPT ![p] = page]
        BY <1>1 DEF SweepReads
    <2> HIDE DEF page
    <2>4. pages' \in [Pages -> PageType]
        BY <2>2, <2>3
    <2> QED
        BY <1>1, <2>4 DEF SweepReads
<1>2. CASE SweepFails(p)
    <2>1. NoPage \in PageType
        BY DEF NoPage, PageType, NoRow, Row
    <2>2. pages' \in [Pages -> PageType] /\ faults' \in 0..MaxFaults
        BY <1>2, <2>1, MarketAssumption DEF SweepFails, Fault
    <2> QED
        BY <1>2, <2>2 DEF SweepFails
<1>3. ASSUME NEW o \in Orders, expireMarketplaceFixedOrder(p, o) PROVE TypeOK'
    <2> DEFINE row == pages[p].copy[o]
               expired == row.expired + row.remaining
               new == [row EXCEPT !.status = "expired", !.remaining = 0, !.expired = expired]
    <2>1. row \in Row /\ Without(p, o) \in PageType
        BY CopyTypes
    <2>2. expired \in Nat /\ new \in Row
        <3>1. expired \in Nat
            BY <2>1 DEF Row
        <3> HIDE DEF expired, row
        <3> QED
            BY <2>1, <3>1 DEF Row
    <2>3. CreateSettlement(o, expired) /\ orders' = [orders EXCEPT ![o] = new]
        BY <1>3 DEF expireMarketplaceFixedOrder
    <2> HIDE DEF expired, new
    <2>4. ledger' \in [Orders \cup Requests -> Nat] /\ income' \in Nat
        BY <2>2, <2>3, SettlementTypes
    <2>5. orders' \in [Orders -> Row]
        BY <2>2, <2>3
    <2>6. stats' \in [concurrency : Nat, active : Nat]
        BY <1>3, StatsTypes DEF expireMarketplaceFixedOrder
    <2>7. pages' \in [Pages -> PageType]
        BY <1>3, <2>1 DEF expireMarketplaceFixedOrder
    <2> QED
        BY <1>3, <2>4, <2>5, <2>6, <2>7 DEF expireMarketplaceFixedOrder
<1>4. ASSUME NEW o \in Orders, ReleaseReads(p, o) PROVE TypeOK'
    <2> DEFINE page == [op |-> "release", copy |-> [NoPage.copy EXCEPT ![o] = orders[o]]]
    <2>1. NoPage.copy \in [Orders -> Row]
        BY DEF NoPage, NoRow, Row
    <2>2. page \in PageType
        BY <2>1 DEF PageType
    <2>3. pages' = [pages EXCEPT ![p] = page]
        BY <1>4 DEF ReleaseReads
    <2> HIDE DEF page
    <2>4. pages' \in [Pages -> PageType]
        BY <2>2, <2>3
    <2> QED
        BY <1>4, <2>4 DEF ReleaseReads
<1>5. ASSUME NEW o \in Orders, refundRemainingQuota(p, o) PROVE TypeOK'
    <2> DEFINE row == orders[o]
               quota == RefundedQuota(p, o)
               total == row.refunded + quota
               new == [row EXCEPT !.status = "refunded", !.remaining = 0, !.refunded = total]
    <2>1. row \in Row /\ quota \in Nat /\ total \in Nat
        BY DEF RefundedQuota, Row
    <2>2. new \in Row
        <3> HIDE DEF row, total
        <3> QED
            BY <2>1 DEF Row
    <2>3. orders' = [orders EXCEPT ![o] = new]
        BY <1>5, <2>1 DEF refundRemainingQuota, Row
    <2> HIDE DEF quota, new
    <2>4. orders' \in [Orders -> Row]
        BY <2>2, <2>3
    <2>5. stats' \in [concurrency : Nat, active : Nat]
        BY <1>5, StatsTypes DEF refundRemainingQuota
    <2>6. NoPage \in PageType
        BY CopyTypes
    <2>7. pages' \in [Pages -> PageType]
        BY <1>5, <2>6 DEF refundRemainingQuota
    <2>8. wallet' \in Int /\ refunds' \in [Orders -> Nat]
        BY <1>5, <2>1 DEF refundRemainingQuota, quota
    <2> QED
        BY <1>5, <2>4, <2>5, <2>7, <2>8 DEF refundRemainingQuota
<1>6. ASSUME NEW o \in Orders, ReleaseRejected(p, o) PROVE TypeOK'
    <2>1. NoPage \in PageType
        BY CopyTypes
    <2>2. pages' \in [Pages -> PageType]
        BY <1>6, <2>1 DEF ReleaseRejected
    <2> QED
        BY <1>6, <2>2 DEF ReleaseRejected
<1> QED
    BY <1>1, <1>2, <1>3, <1>4, <1>5, <1>6 DEF PageStep

\* A move of a session keeps the types of the sessions.
LEMMA MovedTypes ==
    ASSUME NEW r, NEW pc, NEW h, NEW c, Moved(r, pc, h, c)
    PROVE  sessions' \in [Requests -> SessionType]
BY Zenon DEF Moved

\* The row of an order after a request has reserved, been settled or been refunded.
LEMMA PreparedRow ==
    ASSUME TypeOK, NEW r \in Requests, NEW o \in Orders, NEW e \in Estimates,
           PrepareFixedOrder(r, o, e)
    PROVE  /\ orders' \in [Orders -> Row]
           /\ \A q \in Orders : q # o => orders'[q] = orders[q]
           /\ orders'[o].status = "active" /\ orders[o].status = "active"
           /\ orders'[o].remaining = orders[o].remaining - e
           /\ orders'[o].spent = orders[o].spent + e
<1>1. orders[o] \in Row /\ orders[o].remaining \in Nat /\ orders[o].spent \in Nat /\ e \in Nat
    BY MarketAssumption DEF TypeOK, Row
<1>2. e <= orders[o].remaining
    BY <1>1 DEF PrepareFixedOrder, Reservable
<1> DEFINE new == Reserved(orders[o], e)
<1>3. /\ new \in Row /\ new.status = orders[o].status
      /\ new.remaining = orders[o].remaining - e
      /\ new.spent = IF orders[o].spent + e >= 0 THEN orders[o].spent + e ELSE 0
    BY <1>1, <1>2, ReservedRow
<1>4. orders' = [orders EXCEPT ![o] = new] /\ orders[o].status = "active"
    BY DEF PrepareFixedOrder
<1> HIDE DEF new
<1>5. orders \in [Orders -> Row]
    BY DEF TypeOK
<1> QED
    BY <1>1, <1>3, <1>4, <1>5

LEMMA SettledRow ==
    ASSUME TypeOK, NEW r \in Requests, NEW charge \in Charges, Settle(r, charge)
    PROVE  LET o == sessions[r].order
               delta == Capped(r, charge) - sessions[r].hold
           IN  /\ o \in Orders
               /\ Capped(r, charge) \in Nat
               /\ orders' \in [Orders -> Row]
               /\ \A q \in Orders : q # o => orders'[q] = orders[q]
               /\ (orders'[o].status = "none" <=> orders[o].status = "none")
               /\ orders'[o].remaining = orders[o].remaining - delta
               /\ orders'[o].spent = IF orders[o].spent + delta >= 0 THEN orders[o].spent + delta ELSE 0
<1> DEFINE o == sessions[r].order
           delta == DeltaOf(r, charge)
           row == Reserved(orders[o], delta)
           last == row.remaining = 0 /\ row.status = "active"
           new == IF last THEN [row EXCEPT !.status = "exhausted"] ELSE row
<1>1. o \in Orders
    <2>1. o \in Orders \cup {None}
        BY DEF TypeOK, SessionType
    <2> QED
        BY <2>1 DEF Settle, Fixed
<1>2. /\ Capped(r, charge) \in Nat /\ delta = Capped(r, charge) - sessions[r].hold
      /\ delta \in Int /\ delta <= orders[o].remaining
    BY <1>1, CappedFacts
<1>3. orders \in [Orders -> Row] /\ orders[o] \in Row
    BY <1>1 DEF TypeOK
<1>4. orders' = [orders EXCEPT ![o] = new]
    BY DEF Settle
<1> HIDE DEF delta
<1>5. /\ row \in Row /\ row.status = orders[o].status
      /\ row.remaining = orders[o].remaining - delta
      /\ row.spent = IF orders[o].spent + delta >= 0 THEN orders[o].spent + delta ELSE 0
    BY <1>2, <1>3, ReservedRow
<1> HIDE DEF row
<1>6. /\ new \in Row /\ new.remaining = row.remaining /\ new.spent = row.spent
      /\ (new.status = "none" <=> row.status = "none")
    BY <1>5 DEF Row
<1> HIDE DEF new
<1>7. orders'[o] = new /\ orders' \in [Orders -> Row] /\ \A q \in Orders : q # o => orders'[q] = orders[q]
    BY <1>1, <1>3, <1>4, <1>6
<1> QED
    BY <1>1, <1>2, <1>5, <1>6, <1>7

LEMMA RefundedRow ==
    ASSUME TypeOK, NEW r \in Requests, Refund(r)
    PROVE  LET o == sessions[r].order
           IN  /\ o \in Orders
               /\ orders' \in [Orders -> Row]
               /\ \A q \in Orders : q # o => orders'[q] = orders[q]
               /\ orders'[o].status = orders[o].status
               /\ orders'[o].remaining = orders[o].remaining + sessions[r].hold
               /\ orders'[o].spent = IF orders[o].spent - sessions[r].hold >= 0
                                     THEN orders[o].spent - sessions[r].hold ELSE 0
<1> DEFINE o == sessions[r].order
           hold == sessions[r].hold
           new == Reserved(orders[o], -hold)
<1>1. o \in Orders /\ hold \in Nat
    <2>1. o \in Orders \cup {None} /\ hold \in Nat
        BY DEF TypeOK, SessionType
    <2> QED
        BY <2>1 DEF Refund, Fixed
<1>2. orders \in [Orders -> Row] /\ orders[o] \in Row /\ orders[o].remaining \in Nat /\ orders[o].spent \in Nat
    BY <1>1 DEF TypeOK, Row
<1>3. orders' = [orders EXCEPT ![o] = new]
    BY DEF Refund, Released
<1>4. /\ new \in Row /\ new.status = orders[o].status
      /\ new.remaining = orders[o].remaining - (-hold)
      /\ new.spent = IF orders[o].spent + (-hold) >= 0 THEN orders[o].spent + (-hold) ELSE 0
    <2>1. -hold \in Int /\ -hold <= orders[o].remaining
        BY <1>1, <1>2
    <2> QED
        BY <1>2, <2>1, ReservedRow
<1> HIDE DEF new
<1>5. orders'[o] = new /\ orders' \in [Orders -> Row] /\ \A q \in Orders : q # o => orders'[q] = orders[q]
    BY <1>1, <1>2, <1>3, <1>4
<1> QED
    BY <1>1, <1>2, <1>4, <1>5

\* The session of a request that has reserved quota of an order.
LEMMA PreparedSession ==
    ASSUME TypeOK, NEW r \in Requests, SessionOK(r), NEW o \in Orders, NEW e \in Estimates,
           PrepareFixedOrder(r, o, e)
    PROVE  /\ sessions' \in [Requests -> SessionType]
           /\ HasFields(sessions'[r], "relay", o, e, TRUE)
           /\ sessions[r].order = None /\ sessions[r].hold = 0 /\ ~sessions[r].capacity
           /\ \A t \in Requests : t # r => sessions'[t] = sessions[t]
           /\ \A q : HeldIn(sessions', q) = IF q = o THEN HeldIn(sessions, q) + e
                                            ELSE HeldIn(sessions, q)
<1> DEFINE s == [pc |-> "relay", order |-> o, hold |-> e, capacity |-> TRUE]
<1>1. e \in Nat
    BY MarketAssumption
<1>2. s \in SessionType /\ HasFields(s, "relay", o, e, TRUE)
    BY <1>1 DEF SessionType, HasFields
<1>3. sessions' = [sessions EXCEPT ![r] = s]
    BY DEF PrepareFixedOrder
<1>4. sessions[r] = NoSession
    BY DEF PrepareFixedOrder, SessionOK
<1>5. sessions[r].order = None /\ sessions[r].hold = 0 /\ ~sessions[r].capacity
    BY <1>4 DEF NoSession
<1> HIDE DEF s
<1>6. s.order = o /\ s.hold = e
    BY <1>2, Zenon DEF HasFields
<1>7. /\ sessions' \in [Requests -> SessionType]
      /\ sessions'[r] = s
      /\ \A t \in Requests : t # r => sessions'[t] = sessions[t]
      /\ \A q : HeldIn(sessions', q) = HeldIn(sessions, q)
                    - (IF sessions[r].order = q THEN sessions[r].hold ELSE 0)
                    + (IF s.order = q THEN s.hold ELSE 0)
    BY <1>2, <1>3, SessionReplaced
<1>8. \A q : HeldIn(sessions, q) \in Nat
    BY HeldTypes DEF TypeOK
<1>9. ASSUME NEW q
      PROVE  HeldIn(sessions', q) = IF q = o THEN HeldIn(sessions, q) + e ELSE HeldIn(sessions, q)
    <2> DEFINE held == HeldIn(sessions, q)  new == HeldIn(sessions', q)
    <2>1. new = held - (IF sessions[r].order = q THEN sessions[r].hold ELSE 0)
                     + (IF s.order = q THEN s.hold ELSE 0)
        BY <1>7, Zenon
    <2>2. held \in Nat
        BY <1>8
    <2> HIDE DEF held, new
    <2>3. new = IF q = o THEN held + e ELSE held
        BY <1>1, <1>5, <1>6, <2>1, <2>2
    <2> QED
        BY <2>3 DEF held, new
<1> QED
    BY <1>2, <1>5, <1>7, <1>9, Zenon

LEMMA FixedStepTypes ==
    ASSUME TypeOK, NEW r \in Requests, SessionOK(r), FixedStep(r) PROVE TypeOK'
<1> USE DEF TypeOK
<1>1. ASSUME NEW o \in Orders, NEW e \in Estimates, PrepareFixedOrder(r, o, e) PROVE TypeOK'
    <2>1. sessions' \in [Requests -> SessionType]
        BY <1>1, PreparedSession
    <2>2. orders' \in [Orders -> Row]
        BY <1>1, PreparedRow
    <2>3. stats.concurrency + 1 \in Nat
        BY StatsTypes
    <2>4. stats' \in [concurrency : Nat, active : Nat]
        BY <1>1, <2>3, StatsTypes DEF PrepareFixedOrder
    <2> QED
        BY <1>1, <2>1, <2>2, <2>4 DEF PrepareFixedOrder
<1>2. ASSUME NEW c \in Charges, Settle(r, c) PROVE TypeOK'
    <2>1. sessions' \in [Requests -> SessionType]
        BY <1>2, FixedMoves, MovedTypes, Zenon
    <2>2. orders' \in [Orders -> Row] /\ Capped(r, c) \in Nat
        BY <1>2, SettledRow
    <2>3. ledger' \in [Orders \cup Requests -> Nat] /\ income' \in Nat
        BY <1>2, <2>2, SettlementTypes DEF Settle
    <2>4. stats' \in [concurrency : Nat, active : Nat]
        BY <1>2, StatsTypes DEF Settle
    <2> QED
        BY <1>2, <2>1, <2>2, <2>3, <2>4 DEF Settle
<1>3. ASSUME NEW c \in Charges, SettleRejected(r, c) PROVE TypeOK'
    <2>1. sessions' \in [Requests -> SessionType]
        BY <1>3, FixedMoves, MovedTypes, Zenon
    <2> QED
        BY <1>3, <2>1 DEF SettleRejected
<1>4. ASSUME NEW c \in Charges, SettleFails(r, c) PROVE TypeOK'
    <2>1. sessions' \in [Requests -> SessionType]
        BY <1>4, FixedMoves, MovedTypes, Zenon
    <2>2. sessions[r].order \in Orders
        <3>1. sessions[r].order \in Orders \cup {None}
            BY DEF SessionType
        <3> QED
            BY <1>4, <3>1 DEF SettleFails, Fixed
    <2>3. rolledBack' \subseteq Orders
        BY <1>4, <2>2 DEF SettleFails
    <2>4. faults' \in 0..MaxFaults
        BY <1>4, MarketAssumption DEF SettleFails, Fault
    <2> QED
        BY <1>4, <2>1, <2>3, <2>4 DEF SettleFails
<1>5. CASE RelayFails(r)
    <2>1. sessions' \in [Requests -> SessionType]
        BY <1>5, FixedMoves, MovedTypes, Zenon
    <2> QED
        BY <1>5, <2>1 DEF RelayFails
<1>6. CASE Refund(r)
    <2>1. sessions' \in [Requests -> SessionType]
        BY <1>6, FixedMoves, MovedTypes, Zenon
    <2>2. orders' \in [Orders -> Row]
        BY <1>6, RefundedRow
    <2>3. stats' \in [concurrency : Nat, active : Nat]
        BY <1>6, StatsTypes DEF Refund
    <2> QED
        BY <1>6, <2>1, <2>2, <2>3 DEF Refund
<1>7. CASE RefundFails(r)
    <2>1. sessions' \in [Requests -> SessionType]
        BY <1>7, FixedMoves, MovedTypes, Zenon
    <2>2. faults' \in 0..MaxFaults
        BY <1>7, MarketAssumption DEF RefundFails, Fault
    <2> QED
        BY <1>7, <2>1, <2>2 DEF RefundFails
<1> QED
    BY <1>1, <1>2, <1>3, <1>4, <1>5, <1>6, <1>7, Zenon DEF FixedStep

LEMMA PoolStepTypes == ASSUME TypeOK, NEW r \in Requests, PoolStep(r) PROVE TypeOK'
<1>1. sessions' \in [Requests -> SessionType]
    BY PoolMoves, MovedTypes, Zenon DEF PoolStep
<1>2. sessions[r].hold \in Nat
    BY DEF TypeOK, SessionType
<1>3. /\ Estimates \subseteq Nat /\ Charges \subseteq Nat /\ MaxFaults \in Nat
    BY MarketAssumption
<1> USE DEF TypeOK
<1>4. CASE PreparePool(r)
    <2>1. stats.concurrency + 1 \in Nat
        BY StatsTypes
    <2>2. stats' \in [concurrency : Nat, active : Nat]
        BY <1>4, <2>1, StatsTypes DEF PreparePool
    <2> QED
        BY <1>1, <1>4, <2>2 DEF PreparePool
<1>5. ASSUME NEW e \in Estimates, PreConsumeBilling(r, e) PROVE TypeOK'
    BY <1>1, <1>3, <1>5 DEF PreConsumeBilling
<1>6. CASE PreConsumeFails(r)
    BY <1>1, <1>6 DEF PreConsumeFails
<1>7. ASSUME NEW c \in Charges, SettleFunding(r, c) PROVE TypeOK'
    BY <1>1, <1>2, <1>3, <1>7 DEF SettleFunding, FundingDelta
<1>8. CASE SettleFundingFails(r)
    <2>1. stats' \in [concurrency : Nat, active : Nat] /\ faults' \in 0..MaxFaults
        BY <1>3, <1>8, StatsTypes DEF SettleFundingFails, Fault
    <2> QED
        BY <1>1, <1>8, <2>1 DEF SettleFundingFails
<1>9. CASE SettlePool(r)
    <2>1. stats' \in [concurrency : Nat, active : Nat]
        BY <1>9, StatsTypes DEF SettlePool
    <2>2. ledger' \in [Orders \cup Requests -> Nat] /\ income' \in Nat
        BY <1>2, <1>9, SettlementTypes DEF SettlePool
    <2> QED
        BY <1>1, <1>9, <2>1, <2>2 DEF SettlePool
<1>10. CASE SettlePoolFails(r)
    <2>1. stats' \in [concurrency : Nat, active : Nat] /\ faults' \in 0..MaxFaults
        BY <1>3, <1>10, StatsTypes DEF SettlePoolFails, Fault
    <2> QED
        BY <1>1, <1>10, <2>1 DEF SettlePoolFails
<1>11. CASE RefundPool(r)
    <2>1. stats' \in [concurrency : Nat, active : Nat] /\ faults' \in 0..MaxFaults
        BY <1>3, <1>11, StatsTypes DEF RefundPool, Fault
    <2> QED
        BY <1>1, <1>2, <1>11, <2>1 DEF RefundPool
<1> QED
    BY <1>4, <1>5, <1>6, <1>7, <1>8, <1>9, <1>10, <1>11, Zenon DEF PoolStep

\* A crash leaves what every request holds.
LEMMA CrashMoves ==
    ASSUME TypeOK, Crash
    PROVE  /\ sessions' \in [Requests -> SessionType]
           /\ \A r \in Requests : /\ sessions'[r].order = sessions[r].order
                                  /\ sessions'[r].hold = sessions[r].hold
                                  /\ sessions'[r].capacity = sessions[r].capacity
                                  /\ \/ sessions'[r] = sessions[r] /\ sessions[r].pc \in {"none", "ended"}
                                     \/ sessions'[r].pc = "dead"
           /\ \A q : HeldIn(sessions', q) = HeldIn(sessions, q)
<1>1. \A r \in Requests : sessions[r] \in SessionType
    BY DEF TypeOK
<1>2. \A r \in Requests : /\ [sessions[r] EXCEPT !.pc = "dead"] \in SessionType
                          /\ HasFields([sessions[r] EXCEPT !.pc = "dead"], "dead", sessions[r].order,
                                       sessions[r].hold, sessions[r].capacity)
    <2> SUFFICES ASSUME NEW r \in Requests
                 PROVE  /\ [sessions[r] EXCEPT !.pc = "dead"] \in SessionType
                        /\ HasFields([sessions[r] EXCEPT !.pc = "dead"], "dead", sessions[r].order,
                                     sessions[r].hold, sessions[r].capacity)
        OBVIOUS
    <2> DEFINE B == BOOLEAN  O == Orders \cup {None}
    <2>1. SessionType = Records(Pcs, O, Nat, B)
        BY Zenon DEF SessionType, Pcs, Records
    <2> HIDE DEF B, O
    <2>2. sessions[r] \in Records(Pcs, O, Nat, B) /\ "dead" \in Pcs
        BY <1>1, <2>1 DEF Pcs
    <2>3. sessions[r].hold \in Nat /\ sessions[r].capacity \in B
        BY <2>2 DEF Records
    <2>4. Updated(sessions[r], Records(Pcs, O, Nat, B), "dead", sessions[r].hold, sessions[r].capacity)
        BY <2>2, <2>3, RecordUpdates
    <2> QED
        BY <2>1, <2>4, Zenon DEF Updated
<1>3. sessions' = [r \in Requests |-> IF sessions[r].pc \in {"none", "ended"} THEN sessions[r]
                                      ELSE [sessions[r] EXCEPT !.pc = "dead"]]
    BY DEF Crash
<1>4. \A r \in Requests :
          sessions'[r] = IF sessions[r].pc \in {"none", "ended"} THEN sessions[r]
                         ELSE [sessions[r] EXCEPT !.pc = "dead"]
    BY <1>3, Zenon
<1>5. \A r \in Requests : /\ sessions'[r].order = sessions[r].order
                          /\ sessions'[r].hold = sessions[r].hold
                          /\ sessions'[r].capacity = sessions[r].capacity
                          /\ \/ sessions'[r] = sessions[r] /\ sessions[r].pc \in {"none", "ended"}
                             \/ sessions'[r].pc = "dead"
    BY <1>2, <1>4, Zenon DEF HasFields
<1>6. \A r \in Requests : sessions'[r] \in SessionType
    BY <1>1, <1>2, <1>4, Zenon
<1>7. sessions' \in [Requests -> SessionType]
    BY <1>3, <1>6, Zenon
<1>8. \A r \in Requests : sessions'[r].order = sessions[r].order /\ sessions'[r].hold = sessions[r].hold
    BY <1>5, Zenon
<1>9. \A q : HeldIn(sessions', q) = HeldIn(sessions, q)
    BY <1>8, HeldKept, Zenon
<1> QED
    BY <1>5, <1>7, <1>9, Zenon

LEMMA CrashTypes == ASSUME TypeOK, Crash PROVE TypeOK'
<1>1. sessions' \in [Requests -> SessionType]
    BY CrashMoves, Zenon
<1>2. NoPage \in PageType
    BY DEF NoPage, PageType, NoRow, Row
<1>3. pages' \in [Pages -> PageType] /\ faults' \in 0..MaxFaults
    BY <1>2, MarketAssumption DEF TypeOK, Crash, Fault
<1> QED
    BY <1>1, <1>3 DEF TypeOK, Crash

LEMMA TypeStep == MarketInvariant /\ [Next]_vars => TypeOK'
<1> SUFFICES ASSUME MarketInvariant, [Next]_vars PROVE TypeOK'
    OBVIOUS
<1>1. TypeOK /\ \A r \in Requests : SessionOK(r)
    BY Zenon DEF MarketInvariant
<1>2. CASE \E o \in Orders : OrderStep(o)
    BY <1>1, <1>2, OrderStepTypes
<1>3. CASE \E p \in Pages : PageStep(p)
    BY <1>1, <1>3, PageStepTypes
<1>4. CASE \E r \in Requests : FixedStep(r) \/ PoolStep(r)
    BY <1>1, <1>4, FixedStepTypes, PoolStepTypes
<1>5. CASE Crash
    BY <1>1, <1>5, CrashTypes
<1>6. CASE UNCHANGED vars
    BY <1>1, <1>6 DEF vars, TypeOK
<1> QED
    BY <1>2, <1>3, <1>4, <1>5, <1>6, Zenon DEF Next
-----------------------------------------------------------------------------
(***************************************************************************)
(* The control of the sessions, the orders and the pages.                  *)
(***************************************************************************)

\* A session that moves on to a point where nothing is asked of it.
LEMMA MovedOn ==
    ASSUME NEW r \in Requests, \A t \in Requests : SessionOK(t),
           NEW pc \in {"charged", "refunding", "ended"}, NEW h, NEW c, Moved(r, pc, h, c)
    PROVE  \A t \in Requests : SessionOK(t)'
<1>1. sessions'[r].pc \notin {"none", "pool", "relay"}
    <2>1. sessions'[r].pc = pc
        BY Zenon DEF Moved, HasFields
    <2> QED
        BY <2>1
<1>2. \A t \in Requests : t # r => sessions'[t] = sessions[t]
    BY Zenon DEF Moved
<1>3. SessionOK(r)'
    BY <1>1, Zenon DEF SessionOK
<1>4. ASSUME NEW t \in Requests, t # r PROVE SessionOK(t)'
    BY <1>2, <1>4, Zenon DEF SessionOK
<1> QED
    BY <1>3, <1>4, Zenon

LEMMA SessionsStep ==
    MarketInvariant /\ [Next]_vars => \A t \in Requests : SessionOK(t)'
<1> SUFFICES ASSUME MarketInvariant, [Next]_vars PROVE \A t \in Requests : SessionOK(t)'
    OBVIOUS
<1>1. TypeOK /\ \A t \in Requests : SessionOK(t)
    BY Zenon DEF MarketInvariant
<1>2. CASE UNCHANGED sessions
    BY <1>1, <1>2, Zenon DEF SessionOK
<1>3. ASSUME NEW r \in Requests, FixedStep(r) PROVE \A t \in Requests : SessionOK(t)'
    <2>1. ASSUME NEW o \in Orders, NEW e \in Estimates, PrepareFixedOrder(r, o, e)
          PROVE  \A t \in Requests : SessionOK(t)'
        <3>1. HasFields(sessions'[r], "relay", o, e, TRUE)
            BY <1>1, <2>1, PreparedSession, Zenon
        <3>2. \A t \in Requests : t # r => sessions'[t] = sessions[t]
            BY <1>1, <2>1, PreparedSession, Zenon
        <3>3. sessions'[r].pc = "relay" /\ sessions'[r].capacity
            BY <3>1, Zenon DEF HasFields
        <3>4. SessionOK(r)'
            BY <3>3, Zenon DEF SessionOK
        <3>5. ASSUME NEW t \in Requests, t # r PROVE SessionOK(t)'
            BY <1>1, <3>2, <3>5, Zenon DEF SessionOK
        <3> QED
            BY <3>4, <3>5, Zenon
    <2>2. CASE \E c \in Charges : Settle(r, c) \/ SettleRejected(r, c) \/ SettleFails(r, c)
        BY <1>1, <2>2, FixedMoves, MovedOn, Zenon
    <2>3. CASE RelayFails(r) \/ Refund(r) \/ RefundFails(r)
        BY <1>1, <2>3, FixedMoves, MovedOn, Zenon
    <2> QED
        BY <1>3, <2>1, <2>2, <2>3, Zenon DEF FixedStep
<1>4. ASSUME NEW r \in Requests, PoolStep(r) PROVE \A t \in Requests : SessionOK(t)'
    <2>1. CASE PreparePool(r)
        <3>1. Moved(r, "pool", sessions[r].hold, TRUE)
            BY <1>1, <2>1, PoolMoves, Zenon
        <3>2. sessions[r] = NoSession
            BY <1>1, <2>1, Zenon DEF PreparePool, SessionOK
        <3>3. sessions[r].order = None /\ sessions[r].hold = 0
            BY <3>2 DEF NoSession
        <3>4. /\ sessions'[r].pc = "pool" /\ sessions'[r].order = None
              /\ sessions'[r].hold = 0 /\ sessions'[r].capacity
            BY <3>1, <3>3, Zenon DEF Moved, HasFields
        <3>5. SessionOK(r)'
            BY <3>4, Zenon DEF SessionOK
        <3>6. \A t \in Requests : t # r => sessions'[t] = sessions[t]
            BY <3>1, Zenon DEF Moved
        <3>7. ASSUME NEW t \in Requests, t # r PROVE SessionOK(t)'
            BY <1>1, <3>6, <3>7, Zenon DEF SessionOK
        <3> QED
            BY <3>5, <3>7, Zenon
    <2>2. ASSUME NEW e \in Estimates, PreConsumeBilling(r, e) PROVE \A t \in Requests : SessionOK(t)'
        <3>1. Moved(r, "relay", e, sessions[r].capacity)
            BY <1>1, <2>2, PoolMoves, Zenon
        <3>2. sessions[r].capacity
            BY <1>1, <2>2, Zenon DEF PreConsumeBilling, SessionOK
        <3>3. sessions'[r].pc = "relay" /\ sessions'[r].capacity
            BY <3>1, <3>2, Zenon DEF Moved, HasFields
        <3>4. SessionOK(r)'
            BY <3>3, Zenon DEF SessionOK
        <3>5. \A t \in Requests : t # r => sessions'[t] = sessions[t]
            BY <3>1, Zenon DEF Moved
        <3>6. ASSUME NEW t \in Requests, t # r PROVE SessionOK(t)'
            BY <1>1, <3>5, <3>6, Zenon DEF SessionOK
        <3> QED
            BY <3>4, <3>6, Zenon
    <2>3. CASE PreConsumeFails(r) \/ (\E c \in Charges : SettleFunding(r, c)) \/ SettleFundingFails(r)
        BY <1>1, <2>3, PoolMoves, MovedOn, Zenon
    <2>4. CASE SettlePool(r) \/ SettlePoolFails(r) \/ RefundPool(r)
        BY <1>1, <2>4, PoolMoves, MovedOn, Zenon
    <2> QED
        BY <1>4, <2>1, <2>2, <2>3, <2>4, Zenon DEF PoolStep
<1>5. CASE Crash
    <2>1. ASSUME NEW t \in Requests PROVE SessionOK(t)'
        <3>1. \/ sessions'[t] = sessions[t]
              \/ sessions'[t].pc = "dead"
            BY <1>1, <1>5, CrashMoves, Zenon
        <3>2. CASE sessions'[t] = sessions[t]
            BY <1>1, <3>2, Zenon DEF SessionOK
        <3>3. CASE sessions'[t].pc = "dead"
            BY <3>3, Zenon DEF SessionOK
        <3> QED
            BY <3>1, <3>2, <3>3
    <2> QED
        BY <2>1, Zenon
<1>6. CASE \E o \in Orders : OrderStep(o)
    <2>1. UNCHANGED sessions
        BY <1>6 DEF OrderStep, CreateMarketplaceFixedOrder, TimeIsOver, ProbeFixedOrder
    <2> QED
        BY <1>2, <2>1
<1>7. CASE \E p \in Pages : PageStep(p)
    <2>1. UNCHANGED sessions
        BY <1>7 DEF PageStep, SweepReads, SweepFails, expireMarketplaceFixedOrder, ReleaseReads,
                    refundRemainingQuota, ReleaseRejected
    <2> QED
        BY <1>2, <2>1
<1>8. CASE UNCHANGED vars
    BY <1>2, <1>8 DEF vars
<1> QED
    BY <1>3, <1>4, <1>5, <1>6, <1>7, <1>8, Zenon DEF Next

\* An order stays as it is until it is bought, and only an order that was
\* bought is used or copied.
Bought(q) ==
    /\ (orders'[q].status = "none" => orders'[q] = orders[q] /\ refunds'[q] = refunds[q])
    /\ \A r \in Requests : sessions'[r].order = q => sessions[r].order = q \/ orders[q].status # "none"
    /\ \A p \in Pages : pages'[p].copy[q] # NoRow => pages[p].copy[q] # NoRow \/ orders[q].status # "none"

LEMMA BoughtKeepsOrder ==
    ASSUME NEW q \in Orders, OrderOK(q), Bought(q)
    PROVE  OrderOK(q)'
BY Zenon DEF OrderOK, Bought

\* A move of a session keeps its order.
LEMMA MovedKeepsOrder ==
    ASSUME NEW r \in Requests, NEW pc, NEW h, NEW c, Moved(r, pc, h, c)
    PROVE  \A t \in Requests : sessions'[t].order = sessions[t].order
BY Zenon DEF Moved, HasFields

LEMMA NoRowStatus == NoRow.status = "none"
BY DEF NoRow

LEMMA OrdersOrderStep ==
    ASSUME MarketInvariant, NEW o \in Orders, OrderStep(o), NEW q \in Orders
    PROVE  Bought(q)
<1>1. orders \in [Orders -> Row]
    BY DEF MarketInvariant, TypeOK
<1>2. UNCHANGED <<refunds, sessions, pages>>
    BY DEF OrderStep, CreateMarketplaceFixedOrder, TimeIsOver, ProbeFixedOrder
<1>3. orders'[q].status = "none" => orders'[q] = orders[q]
    <2>1. CASE CreateMarketplaceFixedOrder(o)
        <3>1. orders'[o].status = "active"
            BY <1>1, <2>1 DEF CreateMarketplaceFixedOrder, NoRow
        <3>2. q # o => orders'[q] = orders[q]
            BY <1>1, <2>1 DEF CreateMarketplaceFixedOrder
        <3> QED
            BY <3>1, <3>2
    <2>2. CASE TimeIsOver(o)
        BY <2>2 DEF TimeIsOver
    <2>3. ASSUME NEW score \in {"kept", "dropped"}, ProbeFixedOrder(o, score)
          PROVE  orders'[q].status = "none" => orders'[q] = orders[q]
        <3>1. orders'[o].status = "active"
            BY <1>1, <2>3 DEF ProbeFixedOrder, Row
        <3>2. q # o => orders'[q] = orders[q]
            BY <1>1, <2>3 DEF ProbeFixedOrder
        <3> QED
            BY <3>1, <3>2
    <2> QED
        BY <2>1, <2>2, <2>3 DEF OrderStep
<1> QED
    BY <1>2, <1>3, Zenon DEF Bought

\* What is left of a page.
LEMMA WithoutCopies ==
    ASSUME TypeOK, NEW p \in Pages, NEW o \in Orders
    PROVE  /\ \A q \in Orders : Without(p, o).copy[q] # NoRow => Without(p, o).copy[q] = pages[p].copy[q]
           /\ Without(p, o).op \in {"none", pages[p].op}
           /\ \A q \in Orders : NoPage.copy[q] = NoRow
           /\ NoPage.op = "none"
<1>1. pages[p] \in PageType /\ pages[p].copy \in [Orders -> Row]
    BY DEF TypeOK, PageType
<1>2. NoPage.op = "none" /\ \A q \in Orders : NoPage.copy[q] = NoRow
    BY DEF NoPage
<1> DEFINE copy == [pages[p].copy EXCEPT ![o] = NoRow]
           page == [pages[p] EXCEPT !.copy = copy]
<1>3. \A q \in Orders : copy[q] # NoRow => copy[q] = pages[p].copy[q]
    BY <1>1
<1> HIDE DEF copy
<1>4. page.copy = copy /\ page.op = pages[p].op
    BY <1>1 DEF PageType
<1>5. Without(p, o) = NoPage \/ Without(p, o) = page
    BY DEF Without, copy
<1> HIDE DEF page
<1> QED
    BY <1>2, <1>3, <1>4, <1>5

LEMMA OrdersPageStep ==
    ASSUME MarketInvariant, NEW p \in Pages, PageStep(p)
    PROVE  /\ \A q \in Orders : Bought(q)
           /\ \A t \in Pages : PageOK(t)'
<1>1. /\ TypeOK /\ orders \in [Orders -> Row] /\ pages \in [Pages -> PageType]
      /\ (\A q \in Orders : OrderOK(q)) /\ (\A t \in Pages : PageOK(t))
      /\ due \subseteq ExpiringOrders
    BY DEF MarketInvariant, TypeOK
<1>2. UNCHANGED sessions
    BY DEF PageStep, SweepReads, SweepFails, expireMarketplaceFixedOrder, ReleaseReads,
           refundRemainingQuota, ReleaseRejected
\* A page that is replaced.
<1>3. ASSUME NEW page, pages' = [pages EXCEPT ![p] = page],
             \A q \in Orders : page.copy[q] # NoRow =>
                 pages[p].copy[q] # NoRow \/ orders[q].status # "none",
             \A q \in Orders : page.op = "sweep" /\ page.copy[q] # NoRow => q \in ExpiringOrders,
             \A q \in Orders : orders'[q].status = "none" =>
                 orders'[q] = orders[q] /\ refunds'[q] = refunds[q]
      PROVE  (\A q \in Orders : Bought(q)) /\ (\A t \in Pages : PageOK(t)')
    <2>1. pages'[p] = page /\ \A t \in Pages : t # p => pages'[t] = pages[t]
        BY <1>1, <1>3
    <2>2. ASSUME NEW q \in Orders PROVE Bought(q)
        <3>1. \A t \in Pages : pages'[t].copy[q] # NoRow =>
                  pages[t].copy[q] # NoRow \/ orders[q].status # "none"
            BY <1>3, <2>1
        <3>2. \A r \in Requests : sessions'[r].order = q => sessions[r].order = q
            BY <1>2
        <3> QED
            BY <1>3, <3>1, <3>2, Zenon DEF Bought
    <2>3. ASSUME NEW t \in Pages PROVE PageOK(t)'
        BY <1>1, <1>3, <2>1, Zenon DEF PageOK
    <2> QED
        BY <2>2, <2>3
<1>4. \A q \in Orders : NoPage.copy[q] = NoRow
    BY DEF NoPage
<1>5. NoPage.op = "none"
    BY DEF NoPage
<1>6. CASE SweepReads(p)
    <2> DEFINE found == {o \in due : orders[o].status = "active"}
               page == [op |-> "sweep",
                        copy |-> [o \in Orders |-> IF o \in found THEN orders[o] ELSE NoRow]]
    <2>1. pages' = [pages EXCEPT ![p] = page] /\ UNCHANGED <<orders, refunds>>
        BY <1>6 DEF SweepReads
    <2>2. \A q \in Orders : page.copy[q] # NoRow => q \in due /\ orders[q].status = "active"
        OBVIOUS
    <2> HIDE DEF page
    <2> QED
        BY <1>1, <1>3, <2>1, <2>2
<1>7. CASE SweepFails(p)
    BY <1>3, <1>4, <1>5, <1>7 DEF SweepFails
<1>8. ASSUME NEW o \in Orders, expireMarketplaceFixedOrder(p, o)
      PROVE  (\A q \in Orders : Bought(q)) /\ (\A t \in Pages : PageOK(t)')
    <2> DEFINE row == pages[p].copy[o]
               new == [row EXCEPT !.status = "expired", !.remaining = 0,
                                  !.expired = row.expired + row.remaining]
    <2>1. row \in Row
        BY <1>1, CopyTypes
    <2>2. new.status = "expired"
        <3> HIDE DEF row
        <3> QED
            BY <2>1 DEF Row
    <2>3. orders' = [orders EXCEPT ![o] = new] /\ UNCHANGED refunds
        BY <1>8 DEF expireMarketplaceFixedOrder
    <2> HIDE DEF new
    <2>4. orders'[o].status = "expired" /\ \A q \in Orders : q # o => orders'[q] = orders[q]
        BY <1>1, <2>2, <2>3
    <2>5. \A q \in Orders : orders'[q].status = "none" => orders'[q] = orders[q] /\ refunds'[q] = refunds[q]
        BY <2>3, <2>4
    <2>6. /\ \A q \in Orders : Without(p, o).copy[q] # NoRow => Without(p, o).copy[q] = pages[p].copy[q]
          /\ Without(p, o).op \in {"none", pages[p].op}
        BY <1>1, WithoutCopies
    <2>7. pages' = [pages EXCEPT ![p] = Without(p, o)]
        BY <1>8 DEF expireMarketplaceFixedOrder
    <2>8. \A q \in Orders : Without(p, o).op = "sweep" /\ Without(p, o).copy[q] # NoRow => q \in ExpiringOrders
        BY <1>1, <2>6 DEF PageOK
    <2> QED
        BY <1>3, <2>5, <2>6, <2>7, <2>8
<1>9. ASSUME NEW o \in Orders, ReleaseReads(p, o)
      PROVE  (\A q \in Orders : Bought(q)) /\ (\A t \in Pages : PageOK(t)')
    <2> DEFINE page == [op |-> "release", copy |-> [NoPage.copy EXCEPT ![o] = orders[o]]]
    <2>1. pages' = [pages EXCEPT ![p] = page] /\ UNCHANGED <<orders, refunds>> /\ orders[o].status = "active"
        BY <1>9 DEF ReleaseReads, Refundable
    <2>2. page.op = "release" /\ \A q \in Orders : page.copy[q] # NoRow => q = o
        <3>1. NoPage.copy = [q \in Orders |-> NoRow]
            BY DEF NoPage
        <3> QED
            BY <3>1
    <2> HIDE DEF page
    <2> QED
        BY <1>3, <2>1, <2>2
<1>10. ASSUME NEW o \in Orders, refundRemainingQuota(p, o)
       PROVE  (\A q \in Orders : Bought(q)) /\ (\A t \in Pages : PageOK(t)')
    <2>1. orders'[o].status = "refunded" /\ \A q \in Orders : q # o => orders'[q] = orders[q]
        BY <1>1, <1>10 DEF refundRemainingQuota, Row
    <2>2. \A q \in Orders : q # o => refunds'[q] = refunds[q]
        BY <1>1, <1>10 DEF refundRemainingQuota, TypeOK
    <2>3. pages' = [pages EXCEPT ![p] = NoPage]
        BY <1>10 DEF refundRemainingQuota
    <2> QED
        BY <1>3, <1>4, <1>5, <2>1, <2>2, <2>3
<1>11. ASSUME NEW o \in Orders, ReleaseRejected(p, o)
       PROVE  (\A q \in Orders : Bought(q)) /\ (\A t \in Pages : PageOK(t)')
    BY <1>3, <1>4, <1>5, <1>11 DEF ReleaseRejected
<1> QED
    BY <1>6, <1>7, <1>8, <1>9, <1>10, <1>11, Zenon DEF PageStep

LEMMA OrdersFixedStep ==
    ASSUME MarketInvariant, NEW r \in Requests, FixedStep(r), NEW q \in Orders
    PROVE  Bought(q)
<1>1. TypeOK /\ SessionOK(r)
    BY Zenon DEF MarketInvariant
<1>2. UNCHANGED <<pages, refunds>>
    BY DEF FixedStep, PrepareFixedOrder, Settle, SettleRejected, SettleFails, RelayFails, Refund,
           RefundFails
<1>3. ASSUME orders'[q].status = "none" => orders'[q] = orders[q],
             \A t \in Requests : sessions'[t].order = sessions[t].order
      PROVE  Bought(q)
    BY <1>2, <1>3, Zenon DEF Bought
<1>4. ASSUME NEW o \in Orders, NEW e \in Estimates, PrepareFixedOrder(r, o, e) PROVE Bought(q)
    <2>1. /\ \A p \in Orders : p # o => orders'[p] = orders[p]
          /\ orders'[o].status = "active" /\ orders[o].status = "active"
        BY <1>1, <1>4, PreparedRow
    <2>2. /\ HasFields(sessions'[r], "relay", o, e, TRUE)
          /\ \A t \in Requests : t # r => sessions'[t] = sessions[t]
        BY <1>1, <1>4, PreparedSession, Zenon
    <2>3. sessions'[r].order = o
        BY <2>2, Zenon DEF HasFields
    <2>4. orders'[q].status = "none" => orders'[q] = orders[q]
        BY <2>1
    <2>5. orders[o].status # "none"
        BY <2>1
    <2>6. \A t \in Requests : sessions'[t].order = q => sessions[t].order = q \/ orders[q].status # "none"
        BY <2>2, <2>3, <2>5, Zenon
    <2> QED
        BY <1>2, <2>4, <2>6, Zenon DEF Bought
<1>5. ASSUME NEW c \in Charges, Settle(r, c) PROVE Bought(q)
    <2>1. LET o == sessions[r].order
          IN  /\ (orders'[o].status = "none" <=> orders[o].status = "none")
              /\ o \in Orders
              /\ \A p \in Orders : p # o => orders'[p] = orders[p]
        BY <1>1, <1>5, SettledRow
    <2>2. OrderOK(sessions[r].order)
        BY <2>1, Zenon DEF MarketInvariant
    <2>3. orders[sessions[r].order].status # "none"
        BY <2>2, Zenon DEF OrderOK
    <2>4. orders'[q].status = "none" => orders'[q] = orders[q]
        BY <2>1, <2>3
    <2>5. \A t \in Requests : sessions'[t].order = sessions[t].order
        BY <1>1, <1>5, FixedMoves, MovedKeepsOrder, Zenon
    <2> QED
        BY <1>3, <2>4, <2>5
<1>6. ASSUME NEW c \in Charges, SettleRejected(r, c) \/ SettleFails(r, c) PROVE Bought(q)
    <2>1. \A t \in Requests : sessions'[t].order = sessions[t].order
        BY <1>1, <1>6, FixedMoves, MovedKeepsOrder, Zenon
    <2>2. UNCHANGED orders
        BY <1>6 DEF SettleRejected, SettleFails
    <2> QED
        BY <1>3, <2>1, <2>2
<1>7. CASE RelayFails(r) \/ RefundFails(r)
    <2>1. \A t \in Requests : sessions'[t].order = sessions[t].order
        BY <1>1, <1>7, FixedMoves, MovedKeepsOrder, Zenon
    <2>2. UNCHANGED orders
        BY <1>7 DEF RelayFails, RefundFails
    <2> QED
        BY <1>3, <2>1, <2>2
<1>8. CASE Refund(r)
    <2>1. LET o == sessions[r].order
          IN  /\ orders'[o].status = orders[o].status
              /\ o \in Orders
              /\ \A p \in Orders : p # o => orders'[p] = orders[p]
        BY <1>1, <1>8, RefundedRow
    <2>2. OrderOK(sessions[r].order)
        BY <2>1, Zenon DEF MarketInvariant
    <2>3. orders[sessions[r].order].status # "none"
        BY <2>2, Zenon DEF OrderOK
    <2>4. orders'[q].status = "none" => orders'[q] = orders[q]
        BY <2>1, <2>3
    <2>5. \A t \in Requests : sessions'[t].order = sessions[t].order
        BY <1>1, <1>8, FixedMoves, MovedKeepsOrder, Zenon
    <2> QED
        BY <1>3, <2>4, <2>5
<1> QED
    BY <1>4, <1>5, <1>6, <1>7, <1>8, Zenon DEF FixedStep

LEMMA OrdersPoolStep ==
    ASSUME MarketInvariant, NEW r \in Requests, PoolStep(r), NEW q \in Orders
    PROVE  Bought(q)
<1>1. TypeOK
    BY Zenon DEF MarketInvariant
<1>2. UNCHANGED <<orders, pages, refunds>>
    BY DEF PoolStep, PreparePool, PreConsumeBilling, PreConsumeFails, SettleFunding,
           SettleFundingFails, SettlePool, SettlePoolFails, RefundPool
<1>3. \A t \in Requests : sessions'[t].order = sessions[t].order
    BY <1>1, PoolMoves, MovedKeepsOrder, Zenon DEF PoolStep
<1> QED
    BY <1>2, <1>3, Zenon DEF Bought

LEMMA LinksStep ==
    ASSUME MarketInvariant, [Next]_vars
    PROVE  /\ \A q \in Orders : OrderOK(q)'
           /\ \A p \in Pages : PageOK(p)'
<1>1. TypeOK /\ (\A q \in Orders : OrderOK(q)) /\ (\A p \in Pages : PageOK(p))
    BY Zenon DEF MarketInvariant
<1>2. (\A q \in Orders : Bought(q)) => \A q \in Orders : OrderOK(q)'
    <2> SUFFICES ASSUME \A q \in Orders : Bought(q), NEW q \in Orders PROVE OrderOK(q)'
        OBVIOUS
    <2> QED
        BY <1>1, BoughtKeepsOrder, Zenon
<1>3. UNCHANGED pages => \A p \in Pages : PageOK(p)'
    BY <1>1 DEF PageOK
<1>4. CASE \E o \in Orders : OrderStep(o)
    <2>1. UNCHANGED pages
        BY <1>4 DEF OrderStep, CreateMarketplaceFixedOrder, TimeIsOver, ProbeFixedOrder
    <2>2. \A q \in Orders : Bought(q)
        BY <1>4, OrdersOrderStep
    <2> QED
        BY <1>2, <1>3, <2>1, <2>2
<1>5. CASE \E p \in Pages : PageStep(p)
    BY <1>2, <1>5, OrdersPageStep, Zenon
<1>6. CASE \E r \in Requests : FixedStep(r)
    <2>1. UNCHANGED pages
        BY <1>6 DEF FixedStep, PrepareFixedOrder, Settle, SettleRejected, SettleFails, RelayFails,
                    Refund, RefundFails
    <2>2. \A q \in Orders : Bought(q)
        BY <1>6, OrdersFixedStep
    <2> QED
        BY <1>2, <1>3, <2>1, <2>2
<1>7. CASE \E r \in Requests : PoolStep(r)
    <2>1. UNCHANGED pages
        BY <1>7 DEF PoolStep, PreparePool, PreConsumeBilling, PreConsumeFails, SettleFunding,
                    SettleFundingFails, SettlePool, SettlePoolFails, RefundPool
    <2>2. \A q \in Orders : Bought(q)
        BY <1>7, OrdersPoolStep
    <2> QED
        BY <1>2, <1>3, <2>1, <2>2
<1>8. CASE Crash
    <2>1. \A r \in Requests : sessions'[r].order = sessions[r].order
        BY <1>1, <1>8, CrashMoves, Zenon
    <2>2. UNCHANGED <<orders, refunds>> /\ \A p \in Pages : pages'[p] = NoPage
        BY <1>8 DEF Crash
    <2>3. NoPage.op = "none" /\ \A q \in Orders : NoPage.copy[q] = NoRow
        BY DEF NoPage
    <2>4. ASSUME NEW q \in Orders PROVE Bought(q)
        BY <2>1, <2>2, <2>3, Zenon DEF Bought
    <2>5. ASSUME NEW p \in Pages PROVE PageOK(p)'
        BY <2>2, <2>3 DEF PageOK
    <2> QED
        BY <1>2, <2>4, <2>5
<1>9. CASE UNCHANGED vars
    BY <1>1, <1>9 DEF vars, OrderOK, PageOK
<1> QED
    BY <1>4, <1>5, <1>6, <1>7, <1>8, <1>9, Zenon DEF Next
-----------------------------------------------------------------------------
(***************************************************************************)
(* The seller's income.                                                    *)
(***************************************************************************)

\* A settlement adds to the ledger what it adds to the income, or nothing.
LEMMA SettlementAdds ==
    ASSUME TypeOK, IncomeMatchesLedger, NEW id \in Orders \cup Requests, NEW charge \in Nat,
           CreateSettlement(id, charge)
    PROVE  IncomeMatchesLedger'
<1> DEFINE D == Orders \cup Requests
<1>1. IsFiniteSet(D)
    BY MarketAssumption, FS_Union
<1>2. CASE UNCHANGED <<ledger, income>>
    BY <1>2 DEF IncomeMatchesLedger
<1>3. CASE ledger[id] = 0 /\ ledger' = [ledger EXCEPT ![id] = charge] /\ income' = income + charge
    <2>1. ledger \in [D -> Nat]
        BY DEF TypeOK
    <2>2. ledger' \in [D -> Nat] /\ ledger'[id] = charge /\ \A x \in D : x # id => ledger'[x] = ledger[x]
        BY <1>3, <2>1
    <2>3. \A x \in D : ledger[x] \in Int /\ ledger'[x] \in Int
        BY <2>1, <2>2
    <2> HIDE DEF D
    <2>4. id \in D
        BY DEF D
    <2>5. SumFunctionOnSet(ledger', D) = SumFunctionOnSet(ledger, D) - ledger[id] + ledger'[id]
        <3> DEFINE new == ledger'
        <3>1. (\A x \in D : ledger[x] \in Int /\ new[x] \in Int) /\ \A x \in D : x # id => new[x] = ledger[x]
            BY <2>2, <2>3
        <3> HIDE DEF new
        <3>2. SumFunctionOnSet(new, D) = SumFunctionOnSet(ledger, D) - ledger[id] + new[id]
            BY <1>1, <2>4, <3>1, SumChange
        <3> QED
            BY <3>2 DEF new
    <2>6. income = SumFunctionOnSet(ledger, D) /\ income \in Nat
        BY DEF D, IncomeMatchesLedger, TypeOK
    <2>7. income' = SumFunctionOnSet(ledger', D)
        BY <1>3, <2>2, <2>5, <2>6
    <2> QED
        BY <2>7 DEF D, IncomeMatchesLedger
<1> QED
    BY <1>2, <1>3 DEF CreateSettlement

LEMMA IncomeStep == ASSUME MarketInvariant, [Next]_vars PROVE IncomeMatchesLedger'
<1>1. TypeOK /\ IncomeMatchesLedger
    BY Zenon DEF MarketInvariant
<1>2. CASE UNCHANGED <<ledger, income>>
    BY <1>1, <1>2 DEF IncomeMatchesLedger
<1>3. ASSUME NEW p \in Pages, NEW o \in Orders, expireMarketplaceFixedOrder(p, o)
      PROVE  IncomeMatchesLedger'
    <2> DEFINE expired == pages[p].copy[o].expired + pages[p].copy[o].remaining
    <2>1. pages[p].copy[o] \in Row
        BY <1>1, CopyTypes
    <2>2. expired \in Nat
        BY <2>1 DEF Row
    <2>3. CreateSettlement(o, expired)
        BY <1>3 DEF expireMarketplaceFixedOrder
    <2> HIDE DEF expired
    <2> QED
        BY <1>1, <2>2, <2>3, SettlementAdds
<1>4. ASSUME NEW r \in Requests, NEW c \in Charges, Settle(r, c) PROVE IncomeMatchesLedger'
    <2>1. Capped(r, c) \in Nat
        BY <1>1, <1>4, SettledRow
    <2>2. CreateSettlement(r, Capped(r, c))
        BY <1>4 DEF Settle
    <2> QED
        BY <1>1, <2>1, <2>2, SettlementAdds
<1>5. ASSUME NEW r \in Requests, SettlePool(r) PROVE IncomeMatchesLedger'
    <2>1. sessions[r].hold \in Nat
        BY <1>1 DEF TypeOK, SessionType
    <2>2. CreateSettlement(r, sessions[r].hold)
        BY <1>5 DEF SettlePool
    <2> QED
        BY <1>1, <2>1, <2>2, SettlementAdds
<1>6. CASE \E o \in Orders : OrderStep(o)
    BY <1>2, <1>6 DEF OrderStep, CreateMarketplaceFixedOrder, TimeIsOver, ProbeFixedOrder
<1>7. ASSUME NEW p \in Pages, PageStep(p) PROVE IncomeMatchesLedger'
    <2>1. CASE \E o \in Orders : expireMarketplaceFixedOrder(p, o)
        BY <1>3, <2>1
    <2>2. CASE ~\E o \in Orders : expireMarketplaceFixedOrder(p, o)
        BY <1>2, <1>7, <2>2 DEF PageStep, SweepReads, SweepFails, ReleaseReads,
                                refundRemainingQuota, ReleaseRejected
    <2> QED
        BY <2>1, <2>2
<1>8. ASSUME NEW r \in Requests, FixedStep(r) PROVE IncomeMatchesLedger'
    <2>1. CASE \E c \in Charges : Settle(r, c)
        BY <1>4, <2>1
    <2>2. CASE ~\E c \in Charges : Settle(r, c)
        BY <1>2, <1>8, <2>2 DEF FixedStep, PrepareFixedOrder, SettleRejected, SettleFails,
                                RelayFails, Refund, RefundFails
    <2> QED
        BY <2>1, <2>2
<1>9. ASSUME NEW r \in Requests, PoolStep(r) PROVE IncomeMatchesLedger'
    <2>1. CASE SettlePool(r)
        BY <1>5, <2>1
    <2>2. CASE ~SettlePool(r)
        BY <1>2, <1>9, <2>2 DEF PoolStep, PreparePool, PreConsumeBilling, PreConsumeFails,
                                SettleFunding, SettleFundingFails, SettlePoolFails, RefundPool
    <2> QED
        BY <2>1, <2>2
<1>10. CASE Crash
    BY <1>2, <1>10 DEF Crash
<1>11. CASE UNCHANGED vars
    BY <1>2, <1>11 DEF vars
<1> QED
    BY <1>6, <1>7, <1>8, <1>9, <1>10, <1>11, Zenon DEF Next
-----------------------------------------------------------------------------
(***************************************************************************)
(* The seller's capacity.                                                  *)
(***************************************************************************)

Takers(S) == {r \in Requests : S[r].capacity}

LEMMA TakersFinite ==
    ASSUME NEW S PROVE IsFiniteSet(Takers(S)) /\ Cardinality(Takers(S)) \in Nat
<1>1. Takers(S) \subseteq Requests
    BY DEF Takers
<1> QED
    BY <1>1, FS_Subset, FS_CardinalityType, MarketAssumption

\* No request takes or releases capacity.
LEMMA CapacityKept ==
    ASSUME CapacityMatchesSessions, stats'.concurrency = stats.concurrency,
           \A r \in Requests : sessions'[r].capacity = sessions[r].capacity
    PROVE  CapacityMatchesSessions'
<1>1. Takers(sessions') = Takers(sessions)
    BY Zenon DEF Takers
<1> QED
    BY <1>1 DEF CapacityMatchesSessions, Takers

\* One request takes capacity.
LEMMA CapacityTaken ==
    ASSUME TypeOK, CapacityMatchesSessions, NEW r \in Requests, CapacityFree,
           stats'.concurrency = stats.concurrency + 1,
           ~sessions[r].capacity, sessions'[r].capacity,
           \A t \in Requests : t # r => sessions'[t] = sessions[t]
    PROVE  CapacityMatchesSessions'
<1>1. Takers(sessions') = Takers(sessions) \cup {r} /\ r \notin Takers(sessions)
    BY Zenon DEF Takers
<1>2. Cardinality(Takers(sessions')) = Cardinality(Takers(sessions)) + 1
    BY <1>1, TakersFinite, FS_AddElement
<1>3. stats.concurrency = Cardinality(Takers(sessions)) /\ stats.concurrency \in Nat
    BY DEF CapacityMatchesSessions, Takers, TypeOK
<1>4. stats.concurrency < ConcurrencyLimit /\ ConcurrencyLimit \in Nat
    BY MarketAssumption DEF CapacityFree
<1>5. stats'.concurrency = Cardinality(Takers(sessions')) /\ stats'.concurrency <= ConcurrencyLimit
    BY <1>2, <1>3, <1>4
<1> QED
    BY <1>5 DEF CapacityMatchesSessions, Takers

\* One request releases its capacity, if it has any.
LEMMA CapacityReleased ==
    ASSUME TypeOK, CapacityMatchesSessions, NEW r \in Requests,
           stats'.concurrency = IF sessions[r].capacity THEN Less(stats.concurrency)
                                ELSE stats.concurrency,
           ~sessions'[r].capacity,
           \A t \in Requests : t # r => sessions'[t] = sessions[t]
    PROVE  CapacityMatchesSessions'
<1>1. Takers(sessions') = Takers(sessions) \ {r}
    BY Zenon DEF Takers
<1>2. Cardinality(Takers(sessions')) = IF r \in Takers(sessions) THEN Cardinality(Takers(sessions)) - 1
                                       ELSE Cardinality(Takers(sessions))
    BY <1>1, TakersFinite, FS_RemoveElement
<1>3. stats.concurrency = Cardinality(Takers(sessions)) /\ stats.concurrency \in Nat
    BY DEF CapacityMatchesSessions, Takers, TypeOK
<1>4. stats.concurrency <= ConcurrencyLimit /\ ConcurrencyLimit \in Nat
    BY MarketAssumption DEF CapacityMatchesSessions
<1>5. Cardinality(Takers(sessions')) \in Nat
    BY TakersFinite
<1>6. CASE r \in Takers(sessions)
    <2>1. stats'.concurrency = Less(stats.concurrency)
        BY <1>6, Zenon DEF Takers
    <2>2. stats'.concurrency = Cardinality(Takers(sessions')) /\ stats'.concurrency <= ConcurrencyLimit
        BY <1>2, <1>3, <1>4, <1>5, <1>6, <2>1 DEF Less
    <2> QED
        BY <2>2 DEF CapacityMatchesSessions, Takers
<1>7. CASE r \notin Takers(sessions)
    <2>1. stats'.concurrency = stats.concurrency
        BY <1>7, Zenon DEF Takers
    <2>2. stats'.concurrency = Cardinality(Takers(sessions')) /\ stats'.concurrency <= ConcurrencyLimit
        BY <1>2, <1>3, <1>4, <1>7, <2>1
    <2> QED
        BY <2>2 DEF CapacityMatchesSessions, Takers
<1> QED
    BY <1>6, <1>7

\* A move that releases the capacity, and one that keeps it.
LEMMA MovedReleases ==
    ASSUME TypeOK, CapacityMatchesSessions, NEW r \in Requests, NEW pc, NEW h,
           Moved(r, pc, h, FALSE), stats' = ReleaseCapacity(r)
    PROVE  CapacityMatchesSessions'
<1>1. ~sessions'[r].capacity /\ \A t \in Requests : t # r => sessions'[t] = sessions[t]
    BY Zenon DEF Moved, HasFields
<1>2. [stats EXCEPT !.concurrency = Less(stats.concurrency)].concurrency = Less(stats.concurrency)
    BY DEF TypeOK
<1>3. stats'.concurrency = IF sessions[r].capacity THEN Less(stats.concurrency) ELSE stats.concurrency
    BY <1>2, Zenon DEF ReleaseCapacity
<1> QED
    BY <1>1, <1>3, CapacityReleased, Zenon

LEMMA MovedKeeps ==
    ASSUME CapacityMatchesSessions, NEW r \in Requests, NEW pc, NEW h,
           Moved(r, pc, h, sessions[r].capacity), stats'.concurrency = stats.concurrency
    PROVE  CapacityMatchesSessions'
<1>1. \A t \in Requests : sessions'[t].capacity = sessions[t].capacity
    BY Zenon DEF Moved, HasFields
<1> QED
    BY <1>1, CapacityKept, Zenon

LEMMA CapacityStep == ASSUME MarketInvariant, [Next]_vars PROVE CapacityMatchesSessions'
<1>1. TypeOK /\ CapacityMatchesSessions /\ \A r \in Requests : SessionOK(r)
    BY Zenon DEF MarketInvariant
<1>2. CASE UNCHANGED sessions /\ stats'.concurrency = stats.concurrency
    BY <1>1, <1>2, CapacityKept, Zenon
<1>3. stats \in [concurrency : Nat, active : Nat]
    BY <1>1 DEF TypeOK
<1>4. ASSUME NEW o \in Orders, OrderStep(o) PROVE CapacityMatchesSessions'
    <2>1. UNCHANGED sessions /\ stats'.concurrency = stats.concurrency
        BY <1>3, <1>4 DEF OrderStep, CreateMarketplaceFixedOrder, TimeIsOver, ProbeFixedOrder
    <2> QED
        BY <1>2, <2>1
<1>5. ASSUME NEW p \in Pages, PageStep(p) PROVE CapacityMatchesSessions'
    <2>1. UNCHANGED sessions /\ stats'.concurrency = stats.concurrency
        BY <1>3, <1>5 DEF PageStep, SweepReads, SweepFails, expireMarketplaceFixedOrder,
                          ReleaseReads, refundRemainingQuota, ReleaseRejected
    <2> QED
        BY <1>2, <2>1
<1>6. ASSUME NEW r \in Requests, FixedStep(r) PROVE CapacityMatchesSessions'
    <2>1. ASSUME NEW o \in Orders, NEW e \in Estimates, PrepareFixedOrder(r, o, e)
          PROVE  CapacityMatchesSessions'
        <3>1. CapacityFree /\ stats'.concurrency = stats.concurrency + 1
            BY <1>3, <2>1 DEF PrepareFixedOrder
        <3>2. /\ HasFields(sessions'[r], "relay", o, e, TRUE) /\ ~sessions[r].capacity
              /\ \A t \in Requests : t # r => sessions'[t] = sessions[t]
            BY <1>1, <2>1, PreparedSession, Zenon
        <3>3. sessions'[r].capacity
            BY <3>2, Zenon DEF HasFields
        <3> QED
            BY <1>1, <3>1, <3>2, <3>3, CapacityTaken, Zenon
    <2>2. ASSUME NEW c \in Charges, Settle(r, c) PROVE CapacityMatchesSessions'
        <3>1. Moved(r, "ended", Capped(r, c), FALSE)
            BY <1>1, <2>2, FixedMoves, Zenon
        <3>2. ~sessions'[r].capacity /\ \A t \in Requests : t # r => sessions'[t] = sessions[t]
            BY <3>1, Zenon DEF Moved, HasFields
        <3>3. stats'.concurrency = Less(stats.concurrency)
            BY <2>2 DEF Settle
        <3>4. sessions[r].capacity
            <4>1. sessions[r].pc = "relay"
                BY <2>2 DEF Settle
            <4> QED
                BY <1>1, <4>1, Zenon DEF SessionOK
        <3>5. stats'.concurrency = IF sessions[r].capacity THEN Less(stats.concurrency)
                                   ELSE stats.concurrency
            BY <3>3, <3>4, Zenon
        <3> QED
            BY <1>1, <3>2, <3>5, CapacityReleased, Zenon
    <2>3. ASSUME NEW c \in Charges, SettleRejected(r, c) \/ SettleFails(r, c)
          PROVE  CapacityMatchesSessions'
        <3>1. stats'.concurrency = stats.concurrency
            BY <2>3 DEF SettleRejected, SettleFails
        <3> QED
            BY <1>1, <2>3, <3>1, FixedMoves, MovedKeeps, Zenon
    <2>4. CASE RelayFails(r) \/ RefundFails(r)
        <3>1. stats'.concurrency = stats.concurrency
            BY <2>4 DEF RelayFails, RefundFails
        <3> QED
            BY <1>1, <2>4, <3>1, FixedMoves, MovedKeeps, Zenon
    <2>5. CASE Refund(r)
        <3>1. stats' = ReleaseCapacity(r)
            BY <2>5 DEF Refund
        <3> QED
            BY <1>1, <2>5, <3>1, FixedMoves, MovedReleases, Zenon
    <2> QED
        BY <1>6, <2>1, <2>2, <2>3, <2>4, <2>5, Zenon DEF FixedStep
<1>7. ASSUME NEW r \in Requests, PoolStep(r) PROVE CapacityMatchesSessions'
    <2>1. CASE PreparePool(r)
        <3>1. CapacityFree /\ stats'.concurrency = stats.concurrency + 1
            BY <1>3, <2>1 DEF PreparePool
        <3>2. Moved(r, "pool", sessions[r].hold, TRUE)
            BY <1>1, <2>1, PoolMoves, Zenon
        <3>3. sessions'[r].capacity /\ \A t \in Requests : t # r => sessions'[t] = sessions[t]
            BY <3>2, Zenon DEF Moved, HasFields
        <3>4. sessions[r] = NoSession
            BY <1>1, <2>1, Zenon DEF PreparePool, SessionOK
        <3>5. ~sessions[r].capacity
            BY <3>4 DEF NoSession
        <3> QED
            BY <1>1, <3>1, <3>3, <3>5, CapacityTaken, Zenon
    <2>2. ASSUME NEW e \in Estimates, PreConsumeBilling(r, e) PROVE CapacityMatchesSessions'
        <3>1. stats'.concurrency = stats.concurrency
            BY <2>2 DEF PreConsumeBilling
        <3> QED
            BY <1>1, <2>2, <3>1, PoolMoves, MovedKeeps, Zenon
    <2>3. ASSUME NEW c \in Charges, SettleFunding(r, c) PROVE CapacityMatchesSessions'
        <3>1. stats'.concurrency = stats.concurrency
            BY <2>3 DEF SettleFunding
        <3> QED
            BY <1>1, <2>3, <3>1, PoolMoves, MovedKeeps, Zenon
    <2>4. CASE PreConsumeFails(r)
        <3>1. stats'.concurrency = stats.concurrency
            BY <2>4 DEF PreConsumeFails
        <3> QED
            BY <1>1, <2>4, <3>1, PoolMoves, MovedKeeps, Zenon
    <2>5. CASE SettlePool(r)
        <3>1. stats' = ReleaseCapacity(r)
            BY <2>5 DEF SettlePool
        <3> QED
            BY <1>1, <2>5, <3>1, PoolMoves, MovedReleases, Zenon
    <2>6. CASE SettleFundingFails(r) \/ SettlePoolFails(r) \/ RefundPool(r)
        <3>1. UNCHANGED stats => stats'.concurrency = stats.concurrency
            OBVIOUS
        <3> QED
            BY <1>1, <2>6, <3>1, PoolMoves, MovedReleases, MovedKeeps, Zenon
    <2> QED
        BY <1>7, <2>1, <2>2, <2>3, <2>4, <2>5, <2>6, Zenon DEF PoolStep
<1>8. CASE Crash
    <2>1. stats'.concurrency = stats.concurrency
        BY <1>8 DEF Crash
    <2>2. \A r \in Requests : sessions'[r].capacity = sessions[r].capacity
        BY <1>1, <1>8, CrashMoves, Zenon
    <2> QED
        BY <1>1, <2>1, <2>2, CapacityKept, Zenon
<1>9. CASE UNCHANGED vars
    BY <1>2, <1>9 DEF vars
<1> QED
    BY <1>4, <1>5, <1>6, <1>7, <1>8, <1>9, Zenon DEF Next
-----------------------------------------------------------------------------
(***************************************************************************)
(* The account of an order.                                                *)
(***************************************************************************)

\* A request that keeps what it holds.
LEMMA MovedHoldsSame ==
    ASSUME TypeOK, NEW r \in Requests, NEW pc, NEW c, Moved(r, pc, sessions[r].hold, c)
    PROVE  \A q : HeldIn(sessions', q) = HeldIn(sessions, q)
<1>1. \A q : HeldIn(sessions, q) \in Nat
    BY HeldTypes DEF TypeOK
<1>2. sessions[r].hold \in Nat
    BY DEF TypeOK, SessionType
<1>3. ASSUME NEW q PROVE HeldIn(sessions', q) = HeldIn(sessions, q)
    <2>1. HeldIn(sessions', q) = IF sessions[r].order = q
                                 THEN HeldIn(sessions, q) - sessions[r].hold + sessions[r].hold
                                 ELSE HeldIn(sessions, q)
        BY Zenon DEF Moved
    <2> DEFINE new == HeldIn(sessions', q)  held == HeldIn(sessions, q)
    <2>2. held \in Nat /\ new = IF sessions[r].order = q
                                THEN held - sessions[r].hold + sessions[r].hold ELSE held
        BY <1>1, <2>1
    <2> HIDE DEF new, held
    <2>3. new = held
        BY <1>2, <2>2
    <2> QED
        BY <2>3 DEF new, held
<1> QED
    BY <1>3

\* A move changes only what is held of the session's order.
LEMMA MovedHolds ==
    ASSUME NEW r \in Requests, NEW pc, NEW h, NEW c, Moved(r, pc, h, c)
    PROVE  \A q : HeldIn(sessions', q) =
                      IF sessions[r].order = q THEN HeldIn(sessions, q) - sessions[r].hold + h
                      ELSE HeldIn(sessions, q)
BY Zenon DEF Moved

\* The account of an order that a step does not touch.
LEMMA BookKept ==
    ASSUME NEW q \in Orders, BookOK(q), HeldIn(sessions', q) = HeldIn(sessions, q),
           orders'[q].remaining = orders[q].remaining, orders'[q].spent = orders[q].spent,
           orders'[q].status # "none" => orders[q].status # "none",
           refunds'[q] = refunds[q], rolledBack \subseteq rolledBack'
    PROVE  BookOK(q)'
BY DEF BookOK, HeldBy

\* The types that the arithmetic of an account needs.
LEMMA BookTypes ==
    ASSUME TypeOK, NEW q \in Orders
    PROVE  /\ orders[q].remaining \in Nat /\ orders[q].spent \in Nat
           /\ refunds[q] \in Nat /\ HeldIn(sessions, q) \in Nat /\ Purchased \in Nat
<1>1. sessions \in [Requests -> SessionType]
    BY DEF TypeOK
<1> QED
    BY <1>1, HeldTypes, MarketAssumption DEF TypeOK, Row

LEMMA BooksOrderStep ==
    ASSUME MarketInvariant, NEW o \in Orders, OrderStep(o), NEW q \in Orders
    PROVE  BookOK(q)'
<1>1. TypeOK /\ BookOK(q) /\ OrderOK(q) /\ orders \in [Orders -> Row]
    BY DEF MarketInvariant, TypeOK
<1>2. UNCHANGED <<sessions, refunds, rolledBack>>
    BY DEF OrderStep, CreateMarketplaceFixedOrder, TimeIsOver, ProbeFixedOrder
<1>3. HeldIn(sessions', q) = HeldIn(sessions, q)
    BY <1>2
<1>4. CASE CreateMarketplaceFixedOrder(o)
    <2>1. CASE q # o
        <3>1. orders'[q] = orders[q]
            BY <1>1, <1>4, <2>1 DEF CreateMarketplaceFixedOrder
        <3> QED
            BY <1>1, <1>2, <1>3, <3>1, BookKept
    <2>2. CASE q = o
        <3>1. orders[q].status = "none"
            BY <1>4, <2>2 DEF CreateMarketplaceFixedOrder, NoRow
        <3>2. refunds[q] = 0 /\ \A r \in Requests : sessions[r].order # q
            BY <1>1, <3>1, Zenon DEF OrderOK
        <3>3. HeldIn(sessions, q) = 0
            BY <3>2, HeldByNobody
        <3>4. orders'[q].remaining = Purchased /\ orders'[q].spent = 0
            BY <1>1, <1>4, <2>2 DEF CreateMarketplaceFixedOrder, NoRow
        <3>5. HeldIn(sessions', q) = 0 /\ refunds'[q] = 0 /\ Purchased \in Nat
            BY <1>2, <1>3, <3>2, <3>3, MarketAssumption
        <3> QED
            BY <3>4, <3>5 DEF BookOK, HeldBy
    <2> QED
        BY <2>1, <2>2
<1>5. CASE TimeIsOver(o)
    <2>1. UNCHANGED orders
        BY <1>5 DEF TimeIsOver
    <2> QED
        BY <1>1, <1>2, <1>3, <2>1, BookKept
<1>6. ASSUME NEW score \in {"kept", "dropped"}, ProbeFixedOrder(o, score) PROVE BookOK(q)'
    <2>1. /\ orders'[q].remaining = orders[q].remaining /\ orders'[q].spent = orders[q].spent
          /\ orders'[q].status = orders[q].status
        BY <1>1, <1>6 DEF ProbeFixedOrder, Row
    <2> QED
        BY <1>1, <1>2, <1>3, <2>1, BookKept
<1> QED
    BY <1>4, <1>5, <1>6 DEF OrderStep

LEMMA BooksPageStep ==
    ASSUME MarketInvariant, NEW p \in Pages, PageStep(p), NEW q \in Orders
    PROVE  BookOK(q)'
<1>1. TypeOK /\ BookOK(q) /\ PageOK(p) /\ orders \in [Orders -> Row]
    BY DEF MarketInvariant, TypeOK
<1>2. UNCHANGED <<sessions, rolledBack>>
    BY DEF PageStep, SweepReads, SweepFails, expireMarketplaceFixedOrder, ReleaseReads,
           refundRemainingQuota, ReleaseRejected
<1>3. HeldIn(sessions', q) = HeldIn(sessions, q)
    BY <1>2
<1>4. CASE UNCHANGED <<orders, refunds>>
    BY <1>1, <1>2, <1>3, <1>4, BookKept
<1>5. ASSUME NEW o \in Orders, expireMarketplaceFixedOrder(p, o) PROVE BookOK(q)'
    <2> DEFINE row == pages[p].copy[o]
               new == [row EXCEPT !.status = "expired", !.remaining = 0,
                                  !.expired = row.expired + row.remaining]
    <2>1. row \in Row
        BY <1>1, CopyTypes
    <2>2. new.remaining = 0
        <3> HIDE DEF row
        <3> QED
            BY <2>1 DEF Row
    <2>3. orders' = [orders EXCEPT ![o] = new] /\ UNCHANGED refunds
        BY <1>5 DEF expireMarketplaceFixedOrder
    <2> HIDE DEF new
    <2>4. CASE q # o
        <3>1. orders'[q] = orders[q]
            BY <1>1, <2>3, <2>4
        <3> QED
            BY <1>1, <1>2, <1>3, <2>3, <3>1, BookKept
    <2>5. CASE q = o
        <3>1. q \in ExpiringOrders
            BY <1>1, <1>5, <2>5 DEF expireMarketplaceFixedOrder, PageOK
        <3>2. orders'[q].remaining = 0
            BY <1>1, <2>2, <2>3, <2>5
        <3>3. q \notin rolledBack => 0 + HeldIn(sessions, q) + refunds[q] <= Purchased
            BY <1>1, BookTypes DEF BookOK, HeldBy
        <3> QED
            BY <1>2, <1>3, <2>3, <3>1, <3>2, <3>3 DEF BookOK, HeldBy
    <2> QED
        BY <2>4, <2>5
<1>6. ASSUME NEW o \in Orders, refundRemainingQuota(p, o) PROVE BookOK(q)'
    <2>1. refunds \in [Orders -> Nat]
        BY <1>1 DEF TypeOK
    <2>2. CASE q # o
        <3>1. orders'[q] = orders[q] /\ refunds'[q] = refunds[q]
            BY <1>1, <1>6, <2>1, <2>2 DEF refundRemainingQuota
        <3> QED
            BY <1>1, <1>2, <1>3, <3>1, BookKept
    <2>3. CASE q = o
        <3>1. orders[q].status # "none"
            BY <1>6, <2>3 DEF refundRemainingQuota, Refundable
        <3>2. orders'[q].remaining = 0 /\ orders'[q].spent = orders[q].spent
            BY <1>1, <1>6, <2>3 DEF refundRemainingQuota, Row
        <3>3. refunds'[q] = refunds[q] + orders[q].remaining
            BY <1>6, <2>1, <2>3 DEF refundRemainingQuota, RefundedQuota
        <3> QED
            BY <1>1, <1>2, <1>3, <3>1, <3>2, <3>3, BookTypes DEF BookOK, HeldBy
    <2> QED
        BY <2>2, <2>3
<1>7. CASE SweepReads(p) \/ SweepFails(p)
    BY <1>4, <1>7 DEF SweepReads, SweepFails
<1>8. ASSUME NEW o \in Orders, ReleaseReads(p, o) \/ ReleaseRejected(p, o) PROVE BookOK(q)'
    BY <1>4, <1>8 DEF ReleaseReads, ReleaseRejected
<1> QED
    BY <1>5, <1>6, <1>7, <1>8, Zenon DEF PageStep

LEMMA BooksFixedStep ==
    ASSUME MarketInvariant, NEW r \in Requests, FixedStep(r), NEW q \in Orders
    PROVE  BookOK(q)'
<1>1. TypeOK /\ BookOK(q) /\ SessionOK(r) /\ \A o \in Orders : OrderOK(o)
    BY Zenon DEF MarketInvariant
<1>2. /\ orders[q].remaining \in Nat /\ orders[q].spent \in Nat
      /\ refunds[q] \in Nat /\ HeldIn(sessions, q) \in Nat /\ Purchased \in Nat
    BY <1>1, BookTypes
<1>3. UNCHANGED refunds
    BY DEF FixedStep, PrepareFixedOrder, Settle, SettleRejected, SettleFails, RelayFails, Refund,
           RefundFails
<1>4. ASSUME UNCHANGED <<orders, rolledBack>>,
             \A o : HeldIn(sessions', o) = HeldIn(sessions, o)
      PROVE  BookOK(q)'
    BY <1>1, <1>3, <1>4, BookKept
<1>5. sessions[r].hold \in Nat /\ (sessions[r].order = q => sessions[r].hold <= HeldIn(sessions, q))
    BY <1>1, HeldTypes DEF TypeOK, SessionType
<1>6. ASSUME NEW o \in Orders, NEW e \in Estimates, PrepareFixedOrder(r, o, e) PROVE BookOK(q)'
    <2>1. /\ \A x \in Orders : x # o => orders'[x] = orders[x]
          /\ orders'[o].status = "active" /\ orders[o].status = "active"
          /\ orders'[o].remaining = orders[o].remaining - e
          /\ orders'[o].spent = orders[o].spent + e
        BY <1>1, <1>6, PreparedRow
    <2>2. HeldIn(sessions', q) = IF q = o THEN HeldIn(sessions, q) + e ELSE HeldIn(sessions, q)
        BY <1>1, <1>6, PreparedSession, Zenon
    <2>3. UNCHANGED rolledBack
        BY <1>6 DEF PrepareFixedOrder
    <2>4. CASE q # o
        <3>1. HeldIn(sessions', q) = HeldIn(sessions, q)
            BY <2>2, <2>4
        <3> QED
            BY <1>1, <1>3, <2>1, <2>3, <2>4, <3>1, BookKept
    <2>5. CASE q = o
        <3>1. HeldIn(sessions', q) = HeldIn(sessions, q) + e /\ e \in Nat
            BY <2>2, <2>5, MarketAssumption
        <3> QED
            BY <1>1, <1>2, <1>3, <2>1, <2>3, <2>5, <3>1 DEF BookOK, HeldBy
    <2> QED
        BY <2>4, <2>5
<1>7. ASSUME NEW c \in Charges, Settle(r, c) PROVE BookOK(q)'
    <2> DEFINE o == sessions[r].order
               new == Capped(r, c)
               delta == new - sessions[r].hold
    <2>1. /\ o \in Orders /\ new \in Nat
          /\ \A x \in Orders : x # o => orders'[x] = orders[x]
          /\ (orders'[o].status = "none" <=> orders[o].status = "none")
          /\ orders'[o].remaining = orders[o].remaining - delta
          /\ orders'[o].spent = IF orders[o].spent + delta >= 0 THEN orders[o].spent + delta ELSE 0
        BY <1>1, <1>7, SettledRow
    <2>2. HeldIn(sessions', q) = IF o = q THEN HeldIn(sessions, q) - sessions[r].hold + new
                                 ELSE HeldIn(sessions, q)
        BY <1>1, <1>7, FixedMoves, MovedHolds, Zenon
    <2>3. UNCHANGED rolledBack
        BY <1>7 DEF Settle
    <2> HIDE DEF o, new
    <2>4. CASE q # o
        <3>1. HeldIn(sessions', q) = HeldIn(sessions, q)
            BY <2>2, <2>4
        <3> QED
            BY <1>1, <1>3, <2>1, <2>3, <2>4, <3>1, BookKept
    <2>5. CASE q = o
        <3>1. HeldIn(sessions', q) = HeldIn(sessions, q) + delta /\ delta \in Int /\ delta >= -sessions[r].hold
            BY <1>2, <1>5, <2>1, <2>2, <2>5
        <3>2. sessions[r].hold <= HeldIn(sessions, q)
            BY <1>5, <2>5 DEF o
        <3> HIDE DEF delta
        <3>3. orders'[q].spent = orders[q].spent + delta \/ orders[q].spent < HeldIn(sessions, q)
            BY <1>2, <1>5, <2>1, <2>5, <3>1, <3>2
        <3>4. /\ orders'[q].remaining = orders[q].remaining - delta
              /\ (orders'[q].status = "none" <=> orders[q].status = "none")
            BY <2>1, <2>5
        <3> QED
            BY <1>1, <1>2, <1>3, <2>3, <3>1, <3>3, <3>4 DEF BookOK, HeldBy
    <2> QED
        BY <2>4, <2>5
<1>8. ASSUME NEW c \in Charges, SettleRejected(r, c) PROVE BookOK(q)'
    <2>1. UNCHANGED <<orders, rolledBack>>
        BY <1>8 DEF SettleRejected
    <2>2. \A o : HeldIn(sessions', o) = HeldIn(sessions, o)
        BY <1>1, <1>8, FixedMoves, MovedHoldsSame, Zenon
    <2> QED
        BY <1>4, <2>1, <2>2
<1>9. ASSUME NEW c \in Charges, SettleFails(r, c) PROVE BookOK(q)'
    <2>1. UNCHANGED orders
        BY <1>9 DEF SettleFails
    <2>2. \/ (\A o : HeldIn(sessions', o) = HeldIn(sessions, o)) /\ UNCHANGED rolledBack
          \/ /\ Moved(r, "refunding", Capped(r, c), sessions[r].capacity)
             /\ rolledBack' = rolledBack \cup {sessions[r].order}
        BY <1>1, <1>9, FixedMoves, MovedHoldsSame, Zenon
    <2>3. CASE (\A o : HeldIn(sessions', o) = HeldIn(sessions, o)) /\ UNCHANGED rolledBack
        BY <1>4, <2>1, <2>3
    <2>4. CASE /\ Moved(r, "refunding", Capped(r, c), sessions[r].capacity)
               /\ rolledBack' = rolledBack \cup {sessions[r].order}
        <3>1. CASE q = sessions[r].order
            <4>1. q \in rolledBack'
                BY <2>4, <3>1
            <4> QED
                BY <4>1 DEF BookOK
        <3>2. CASE q # sessions[r].order
            <4>1. HeldIn(sessions', q) = HeldIn(sessions, q)
                BY <2>4, <3>2, MovedHolds, Zenon
            <4>2. rolledBack \subseteq rolledBack'
                BY <2>4
            <4> QED
                BY <1>1, <1>3, <2>1, <4>1, <4>2, BookKept
        <3> QED
            BY <3>1, <3>2
    <2> QED
        BY <2>2, <2>3, <2>4
<1>10. CASE RelayFails(r) \/ RefundFails(r)
    <2>1. UNCHANGED <<orders, rolledBack>>
        BY <1>10 DEF RelayFails, RefundFails
    <2>2. \A o : HeldIn(sessions', o) = HeldIn(sessions, o)
        BY <1>1, <1>10, FixedMoves, MovedHoldsSame, Zenon
    <2> QED
        BY <1>4, <2>1, <2>2
<1>11. CASE Refund(r)
    <2> DEFINE o == sessions[r].order
               hold == sessions[r].hold
    <2>1. /\ o \in Orders
          /\ \A x \in Orders : x # o => orders'[x] = orders[x]
          /\ orders'[o].status = orders[o].status
          /\ orders'[o].remaining = orders[o].remaining + hold
          /\ orders'[o].spent = IF orders[o].spent - hold >= 0 THEN orders[o].spent - hold ELSE 0
        BY <1>1, <1>11, RefundedRow
    <2>2. HeldIn(sessions', q) = IF o = q THEN HeldIn(sessions, q) - hold + 0 ELSE HeldIn(sessions, q)
        BY <1>1, <1>11, FixedMoves, MovedHolds, Zenon
    <2>3. UNCHANGED rolledBack
        BY <1>11 DEF Refund
    <2>4. hold \in Nat /\ (o = q => hold <= HeldIn(sessions, q))
        BY <1>5
    <2> HIDE DEF o, hold
    <2>5. CASE q # o
        <3>1. HeldIn(sessions', q) = HeldIn(sessions, q)
            BY <2>2, <2>5
        <3> QED
            BY <1>1, <1>3, <2>1, <2>3, <2>5, <3>1, BookKept
    <2>6. CASE q = o
        <3>1. HeldIn(sessions', q) = HeldIn(sessions, q) - hold
            BY <1>2, <2>2, <2>4, <2>6
        <3>2. orders'[q].spent = orders[q].spent - hold \/ orders[q].spent < HeldIn(sessions, q)
            BY <1>2, <2>1, <2>4, <2>6
        <3>3. orders'[q].remaining = orders[q].remaining + hold /\ orders'[q].status = orders[q].status
            BY <2>1, <2>6
        <3> QED
            BY <1>1, <1>2, <1>3, <2>3, <2>4, <3>1, <3>2, <3>3 DEF BookOK, HeldBy
    <2> QED
        BY <2>5, <2>6
<1> QED
    BY <1>6, <1>7, <1>8, <1>9, <1>10, <1>11, Zenon DEF FixedStep

\* A request of the pool uses no order: what it holds is counted for None.
LEMMA PoolHolds ==
    ASSUME MarketInvariant, NEW r \in Requests, PoolStep(r)
    PROVE  /\ \A q \in Orders : HeldIn(sessions', q) = HeldIn(sessions, q)
           /\ HeldIn(sessions', None) + wallet' = HeldIn(sessions, None) + wallet
<1>1. TypeOK /\ SessionOK(r)
    BY Zenon DEF MarketInvariant
<1>2. None \notin Orders /\ Estimates \subseteq Nat /\ Charges \subseteq Nat
    BY MarketAssumption
<1>3. sessions[r].hold \in Nat /\ HeldIn(sessions, None) \in Nat /\ wallet \in Int
    BY <1>1, HeldTypes DEF TypeOK, SessionType
<1>4. ASSUME \A q : HeldIn(sessions', q) = HeldIn(sessions, q), UNCHANGED wallet
      PROVE  /\ \A q \in Orders : HeldIn(sessions', q) = HeldIn(sessions, q)
             /\ HeldIn(sessions', None) + wallet' = HeldIn(sessions, None) + wallet
    BY <1>4
<1>5. ASSUME sessions[r].order = None, NEW h \in Nat, wallet' = wallet + sessions[r].hold - h,
             NEW pc, NEW c, Moved(r, pc, h, c)
      PROVE  /\ \A q \in Orders : HeldIn(sessions', q) = HeldIn(sessions, q)
             /\ HeldIn(sessions', None) + wallet' = HeldIn(sessions, None) + wallet
    <2>1. \A q : HeldIn(sessions', q) = IF sessions[r].order = q
                                        THEN HeldIn(sessions, q) - sessions[r].hold + h
                                        ELSE HeldIn(sessions, q)
        BY <1>5, MovedHolds, Zenon
    <2>2. HeldIn(sessions', None) = HeldIn(sessions, None) - sessions[r].hold + h
        BY <1>5, <2>1, Zenon
    <2>3. \A q \in Orders : HeldIn(sessions', q) = HeldIn(sessions, q)
        BY <1>2, <1>5, <2>1, Zenon
    <2> QED
        BY <1>3, <1>5, <2>2, <2>3
<1>6. CASE PreparePool(r) \/ PreConsumeFails(r) \/ SettleFundingFails(r) \/ SettlePool(r) \/ SettlePoolFails(r)
    <2>1. UNCHANGED wallet
        BY <1>6 DEF PreparePool, PreConsumeFails, SettleFundingFails, SettlePool, SettlePoolFails
    <2>2. \A q : HeldIn(sessions', q) = HeldIn(sessions, q)
        BY <1>1, <1>6, PoolMoves, MovedHoldsSame, Zenon
    <2> QED
        BY <1>4, <2>1, <2>2
<1>7. ASSUME NEW e \in Estimates, PreConsumeBilling(r, e)
      PROVE  /\ \A q \in Orders : HeldIn(sessions', q) = HeldIn(sessions, q)
             /\ HeldIn(sessions', None) + wallet' = HeldIn(sessions, None) + wallet
    <2>1. sessions[r].order = None /\ sessions[r].hold = 0
        BY <1>1, <1>7, Zenon DEF PreConsumeBilling, SessionOK
    <2>2. wallet' = wallet + sessions[r].hold - e /\ e \in Nat
        BY <1>2, <1>3, <1>7, <2>1 DEF PreConsumeBilling
    <2>3. Moved(r, "relay", e, sessions[r].capacity)
        BY <1>1, <1>7, PoolMoves, Zenon
    <2> QED
        BY <1>5, <2>1, <2>2, <2>3, Zenon
<1>8. ASSUME NEW c \in Charges, SettleFunding(r, c)
      PROVE  /\ \A q \in Orders : HeldIn(sessions', q) = HeldIn(sessions, q)
             /\ HeldIn(sessions', None) + wallet' = HeldIn(sessions, None) + wallet
    <2>1. sessions[r].order = None
        BY <1>8 DEF SettleFunding, Fixed
    <2>2. wallet' = wallet + sessions[r].hold - c /\ c \in Nat
        BY <1>2, <1>3, <1>8 DEF SettleFunding, FundingDelta
    <2>3. Moved(r, "charged", c, sessions[r].capacity)
        BY <1>1, <1>8, PoolMoves, Zenon
    <2> QED
        BY <1>5, <2>1, <2>2, <2>3, Zenon
<1>9. CASE RefundPool(r)
    <2>1. sessions[r].order = None
        BY <1>9 DEF RefundPool, Fixed
    <2>2. wallet' = wallet + sessions[r].hold - 0 /\ 0 \in Nat
        BY <1>3, <1>9 DEF RefundPool
    <2>3. \E c : Moved(r, "ended", 0, c)
        BY <1>1, <1>9, PoolMoves, Zenon
    <2> QED
        BY <1>5, <2>1, <2>2, <2>3, Zenon
<1> QED
    BY <1>6, <1>7, <1>8, <1>9, Zenon DEF PoolStep

LEMMA BooksStep ==
    ASSUME MarketInvariant, [Next]_vars PROVE \A q \in Orders : BookOK(q)'
<1> SUFFICES ASSUME NEW q \in Orders PROVE BookOK(q)'
    OBVIOUS
<1>1. TypeOK /\ BookOK(q)
    BY Zenon DEF MarketInvariant
<1>2. ASSUME UNCHANGED <<orders, refunds, rolledBack>>, HeldIn(sessions', q) = HeldIn(sessions, q)
      PROVE  BookOK(q)'
    BY <1>1, <1>2, BookKept
<1>3. CASE \E o \in Orders : OrderStep(o)
    BY <1>3, BooksOrderStep
<1>4. CASE \E p \in Pages : PageStep(p)
    BY <1>4, BooksPageStep
<1>5. CASE \E r \in Requests : FixedStep(r)
    BY <1>5, BooksFixedStep
<1>6. ASSUME NEW r \in Requests, PoolStep(r) PROVE BookOK(q)'
    <2>1. UNCHANGED <<orders, refunds, rolledBack>>
        BY <1>6 DEF PoolStep, PreparePool, PreConsumeBilling, PreConsumeFails, SettleFunding,
                    SettleFundingFails, SettlePool, SettlePoolFails, RefundPool
    <2>2. HeldIn(sessions', q) = HeldIn(sessions, q)
        BY <1>6, PoolHolds, Zenon
    <2> QED
        BY <1>2, <2>1, <2>2
<1>7. CASE Crash
    <2>1. UNCHANGED <<orders, refunds, rolledBack>>
        BY <1>7 DEF Crash
    <2>2. HeldIn(sessions', q) = HeldIn(sessions, q)
        BY <1>1, <1>7, CrashMoves, Zenon
    <2> QED
        BY <1>2, <2>1, <2>2
<1>8. CASE UNCHANGED vars
    BY <1>2, <1>8 DEF vars
<1> QED
    BY <1>3, <1>4, <1>5, <1>6, <1>7, <1>8, Zenon DEF Next
-----------------------------------------------------------------------------
(***************************************************************************)
(* The buyer's wallet.                                                     *)
(***************************************************************************)

BoughtIn(rows) == {o \in Orders : rows[o] # NoRow}

\* The equation of WalletConserved, with its parts as parameters.
Balanced(w, rows, held, back) ==
    w + Purchased * Cardinality(BoughtIn(rows)) + held = InitWallet + back

LEMMA WalletIsBalanced ==
    /\ WalletConserved <=> Balanced(wallet, orders, HeldIn(sessions, None), SumFunctionOnSet(refunds, Orders))
    /\ WalletConserved' <=>
           Balanced(wallet', orders', HeldIn(sessions', None), SumFunctionOnSet(refunds', Orders))
BY Zenon DEF WalletConserved, Balanced, BoughtIn, HeldBy

\* What leaves one account and enters the other keeps their sum.
LEMMA Exchanged ==
    ASSUME NEW w \in Int, NEW v \in Int, NEW p \in Int, NEW h \in Int, NEW k \in Int, NEW b,
           w + p + h = b, k + v = h + w
    PROVE  v + p + k = b
OBVIOUS

\* A step that buys and refunds nothing.
LEMMA WalletKept ==
    ASSUME TypeOK, WalletConserved, \A q \in Orders : orders'[q] = NoRow <=> orders[q] = NoRow,
           HeldIn(sessions', None) + wallet' = HeldIn(sessions, None) + wallet, UNCHANGED refunds,
           HeldIn(sessions', None) \in Nat, wallet' \in Int
    PROVE  WalletConserved'
<1>1. BoughtIn(orders') = BoughtIn(orders)
    BY DEF BoughtIn
<1>2. IsFiniteSet(BoughtIn(orders))
    <2>1. BoughtIn(orders) \in SUBSET Orders
        BY DEF BoughtIn
    <2> QED
        BY <2>1, FS_Subset, MarketAssumption
<1>3. Cardinality(BoughtIn(orders)) \in Nat
    BY <1>2, FS_CardinalityType
<1>4. Purchased * Cardinality(BoughtIn(orders)) \in Int
    BY <1>3, MarketAssumption
<1>5. wallet \in Int /\ HeldIn(sessions, None) \in Nat
    BY HeldTypes DEF TypeOK
<1> DEFINE paid == Purchased * Cardinality(BoughtIn(orders))
           held == HeldIn(sessions, None)
           held2 == HeldIn(sessions', None)
           back == InitWallet + SumFunctionOnSet(refunds, Orders)
           w == wallet
           v == wallet'
<1>6. w + paid + held = back
    BY WalletIsBalanced DEF Balanced
<1>7. paid \in Int /\ held \in Int /\ held2 \in Int /\ w \in Int /\ v \in Int
    BY <1>4, <1>5
<1>8. held2 + v = held + w
    OBVIOUS
<1> HIDE DEF paid, held, held2, back, w, v
<1>9. v + paid + held2 = back
    BY <1>6, <1>7, <1>8, Exchanged
<1>10. Balanced(wallet', orders', HeldIn(sessions', None), SumFunctionOnSet(refunds', Orders))
    BY <1>1, <1>9 DEF Balanced, paid, held2, back, v
<1> QED
    BY <1>10, WalletIsBalanced, Zenon

\* A purchase.
LEMMA WalletPays ==
    ASSUME MarketInvariant, NEW o \in Orders, CreateMarketplaceFixedOrder(o)
    PROVE  WalletConserved'
<1>1. WalletConserved /\ orders \in [Orders -> Row] /\ wallet \in Int
    BY DEF MarketInvariant, TypeOK
<1> DEFINE B == BoughtIn(orders)
<1>2. IsFiniteSet(B) /\ Cardinality(B) \in Nat
    <2>1. B \in SUBSET Orders
        BY DEF BoughtIn
    <2> QED
        BY <2>1, FS_Subset, FS_CardinalityType, MarketAssumption
<1>3. BoughtIn(orders') = B \cup {o} /\ o \notin B
    <2>1. orders[o] = NoRow /\ orders'[o].status = "active" /\ \A q \in Orders : q # o => orders'[q] = orders[q]
        BY <1>1 DEF CreateMarketplaceFixedOrder, NoRow
    <2>2. orders'[o] # NoRow
        BY <2>1, NoRowStatus
    <2> QED
        BY <2>1, <2>2 DEF BoughtIn
<1> HIDE DEF B
<1>4. Cardinality(BoughtIn(orders')) = Cardinality(B) + 1
    BY <1>2, <1>3, FS_AddElement
<1>5. wallet' = wallet - Purchased /\ UNCHANGED <<sessions, refunds>>
    BY DEF CreateMarketplaceFixedOrder
<1> DEFINE n == Cardinality(B)
           held == HeldIn(sessions, None)
           back == InitWallet + SumFunctionOnSet(refunds, Orders)
<1>6. wallet + Purchased * n + held = back
    BY <1>1, WalletIsBalanced DEF Balanced, B
<1>7. held \in Nat /\ n \in Nat /\ Purchased \in Nat
    BY <1>2, HeldTypes, MarketAssumption DEF MarketInvariant, TypeOK
<1> HIDE DEF n, held, back
<1>8. Purchased * (n + 1) = Purchased * n + Purchased /\ Purchased * n \in Int
    BY <1>7
<1> DEFINE paid == Purchased * n  more == Purchased * (n + 1)
<1>9. more = paid + Purchased /\ paid \in Int /\ wallet + paid + held = back
    BY <1>6, <1>8
<1> HIDE DEF paid, more
<1>10. (wallet - Purchased) + more + held = back
    BY <1>1, <1>7, <1>9
<1>11. Balanced(wallet', orders', HeldIn(sessions', None), SumFunctionOnSet(refunds', Orders))
    BY <1>4, <1>5, <1>10 DEF Balanced, more, n, held, back
<1> QED
    BY <1>11, WalletIsBalanced, Zenon

\* Only orders that were bought are written, except by a purchase.
LEMMA RowsStay ==
    ASSUME MarketInvariant, [Next]_vars, ~\E o \in Orders : CreateMarketplaceFixedOrder(o),
           NEW q \in Orders, orders[q] = NoRow
    PROVE  orders'[q] = orders[q]
<1>1. /\ TypeOK /\ orders \in [Orders -> Row] /\ (\A o \in Orders : OrderOK(o))
      /\ \A r \in Requests : SessionOK(r)
    BY DEF MarketInvariant, TypeOK
<1>2. orders[q].status = "none"
    BY NoRowStatus
<1>3. /\ \A r \in Requests : sessions[r].order # q
      /\ \A p \in Pages : pages[p].copy[q] = NoRow
    BY <1>1, <1>2, Zenon DEF OrderOK
<1>4. ASSUME NEW o \in Orders, OrderStep(o) PROVE orders'[q] = orders[q]
    BY <1>1, <1>2, <1>4 DEF OrderStep, TimeIsOver, ProbeFixedOrder
<1>5. ASSUME NEW p \in Pages, PageStep(p) PROVE orders'[q] = orders[q]
    <2>1. ASSUME NEW o \in Orders, expireMarketplaceFixedOrder(p, o) PROVE orders'[q] = orders[q]
        <3>1. q # o
            BY <1>3, <2>1 DEF expireMarketplaceFixedOrder
        <3> QED
            BY <1>1, <2>1, <3>1 DEF expireMarketplaceFixedOrder
    <2>2. ASSUME NEW o \in Orders, refundRemainingQuota(p, o) PROVE orders'[q] = orders[q]
        <3>1. q # o
            BY <1>2, <2>2 DEF refundRemainingQuota, Refundable
        <3> QED
            BY <1>1, <2>2, <3>1 DEF refundRemainingQuota
    <2>3. CASE SweepReads(p) \/ SweepFails(p) \/ \E o \in Orders : ReleaseReads(p, o) \/ ReleaseRejected(p, o)
        BY <2>3 DEF SweepReads, SweepFails, ReleaseReads, ReleaseRejected
    <2> QED
        BY <1>5, <2>1, <2>2, <2>3, Zenon DEF PageStep
<1>6. ASSUME NEW r \in Requests, FixedStep(r) PROVE orders'[q] = orders[q]
    <2>1. ASSUME NEW o \in Orders, NEW e \in Estimates, PrepareFixedOrder(r, o, e)
          PROVE  orders'[q] = orders[q]
        <3>1. orders[o].status = "active" /\ \A x \in Orders : x # o => orders'[x] = orders[x]
            BY <1>1, <2>1, PreparedRow
        <3> QED
            BY <1>2, <3>1
    <2>2. ASSUME NEW c \in Charges, Settle(r, c) PROVE orders'[q] = orders[q]
        <3>1. \A x \in Orders : x # sessions[r].order => orders'[x] = orders[x]
            BY <1>1, <2>2, SettledRow
        <3> QED
            BY <1>3, <3>1
    <2>3. CASE Refund(r)
        <3>1. \A x \in Orders : x # sessions[r].order => orders'[x] = orders[x]
            BY <1>1, <2>3, RefundedRow
        <3> QED
            BY <1>3, <3>1
    <2>4. CASE (\E c \in Charges : SettleRejected(r, c) \/ SettleFails(r, c)) \/ RelayFails(r) \/ RefundFails(r)
        BY <2>4 DEF SettleRejected, SettleFails, RelayFails, RefundFails
    <2> QED
        BY <1>6, <2>1, <2>2, <2>3, <2>4, Zenon DEF FixedStep
<1>7. CASE \E r \in Requests : PoolStep(r)
    BY <1>7 DEF PoolStep, PreparePool, PreConsumeBilling, PreConsumeFails, SettleFunding,
                SettleFundingFails, SettlePool, SettlePoolFails, RefundPool
<1>8. CASE Crash
    BY <1>8 DEF Crash
<1>9. CASE UNCHANGED vars
    BY <1>9 DEF vars
<1> QED
    BY <1>4, <1>5, <1>6, <1>7, <1>8, <1>9, Zenon DEF Next

\* No step takes a row away.
LEMMA RowsRemain ==
    ASSUME MarketInvariant, [Next]_vars, NEW q \in Orders, orders'[q] = NoRow
    PROVE  orders[q] = NoRow
<1>1. orders'[q].status = "none"
    BY NoRowStatus
<1>2. CASE Bought(q)
    BY <1>1, <1>2, Zenon DEF Bought
<1>3. CASE UNCHANGED orders
    BY <1>3
<1>4. CASE Crash \/ UNCHANGED vars
    BY <1>3, <1>4 DEF Crash, vars
<1> QED
    BY <1>2, <1>4, OrdersOrderStep, OrdersPageStep, OrdersFixedStep, OrdersPoolStep, Zenon DEF Next

\* A refund.
LEMMA WalletRefunds ==
    ASSUME MarketInvariant, [Next]_vars, NEW p \in Pages, NEW o \in Orders, refundRemainingQuota(p, o)
    PROVE  WalletConserved'
<1>1. /\ WalletConserved /\ orders \in [Orders -> Row] /\ wallet \in Int /\ refunds \in [Orders -> Nat]
      /\ sessions \in [Requests -> SessionType]
    BY DEF MarketInvariant, TypeOK
<1>2. BoughtIn(orders') = BoughtIn(orders)
    <2>1. orders[o] # NoRow
        BY NoRowStatus DEF refundRemainingQuota, Refundable
    <2>2. orders'[o] # NoRow
        BY <2>1, RowsRemain
    <2>3. \A q \in Orders : q # o => orders'[q] = orders[q]
        BY <1>1 DEF refundRemainingQuota
    <2> QED
        BY <2>1, <2>2, <2>3 DEF BoughtIn
<1> DEFINE quota == orders[o].remaining
           back == SumFunctionOnSet(refunds, Orders)
           back2 == SumFunctionOnSet(refunds', Orders)
           held == HeldIn(sessions, None)
           n == Cardinality(BoughtIn(orders))
           paid == Purchased * n
           w == wallet
<1>3. wallet' = w + quota /\ UNCHANGED sessions /\ refunds' = [refunds EXCEPT ![o] = @ + quota]
    BY DEF refundRemainingQuota, RefundedQuota
<1>4. quota \in Nat
    BY <1>1 DEF Row
<1> HIDE DEF quota
<1>5. refunds' \in [Orders -> Nat] /\ refunds'[o] = refunds[o] + quota /\ refunds[o] \in Nat
      /\ \A q \in Orders : q # o => refunds'[q] = refunds[q]
    BY <1>1, <1>3, <1>4
<1>6. (\A q \in Orders : refunds[q] \in Int /\ refunds'[q] \in Int) /\ IsFiniteSet(Orders)
    BY <1>1, <1>5, MarketAssumption
<1>7. back2 = back - refunds[o] + refunds'[o]
    BY <1>5, <1>6, SumChange
<1>8. back \in Int
    BY <1>6, SumIsInt
<1>9. held \in Int
    BY <1>1, HeldTypes
<1>10. paid \in Int
    <2>1. BoughtIn(orders) \in SUBSET Orders
        BY DEF BoughtIn
    <2>2. n \in Nat
        BY <2>1, FS_Subset, FS_CardinalityType, MarketAssumption
    <2> QED
        BY <2>2, MarketAssumption
<1>11. w + paid + held = InitWallet + back
    BY <1>1, WalletIsBalanced DEF Balanced
<1>12. w \in Int /\ InitWallet \in Int
    BY <1>1, MarketAssumption
<1>13. back2 = back + quota
    <2> HIDE DEF back, back2
    <2> QED
        BY <1>4, <1>5, <1>7, <1>8
<1> HIDE DEF back, back2, held, paid, n, w
<1>14. (w + quota) + paid + held = InitWallet + back2
    BY <1>4, <1>8, <1>9, <1>10, <1>11, <1>12, <1>13
<1>15. Balanced(wallet', orders', HeldIn(sessions', None), SumFunctionOnSet(refunds', Orders))
    BY <1>2, <1>3, <1>14 DEF Balanced, back2, held, paid, n, w
<1> QED
    BY <1>15, WalletIsBalanced, Zenon

LEMMA WalletStep == ASSUME MarketInvariant, [Next]_vars PROVE WalletConserved'
<1>1. /\ TypeOK /\ WalletConserved /\ sessions \in [Requests -> SessionType]
      /\ \A r \in Requests : SessionOK(r)
    BY DEF MarketInvariant, TypeOK
<1>2. TypeOK'
    BY TypeStep
<1>3. HeldIn(sessions', None) \in Nat /\ wallet' \in Int
    BY <1>2, HeldTypes DEF TypeOK
<1>4. CASE \E o \in Orders : CreateMarketplaceFixedOrder(o)
    BY <1>4, WalletPays
<1>5. CASE \E p \in Pages, o \in Orders : refundRemainingQuota(p, o)
    BY <1>5, WalletRefunds
<1>6. ASSUME ~\E o \in Orders : CreateMarketplaceFixedOrder(o), UNCHANGED refunds,
             HeldIn(sessions', None) + wallet' = HeldIn(sessions, None) + wallet
      PROVE  WalletConserved'
    <2>1. \A q \in Orders : orders'[q] = NoRow <=> orders[q] = NoRow
        BY <1>6, RowsRemain, RowsStay
    <2> QED
        BY <1>1, <1>3, <1>6, <2>1, WalletKept
<1>7. ASSUME ~\E o \in Orders : CreateMarketplaceFixedOrder(o), UNCHANGED <<refunds, wallet>>,
             HeldIn(sessions', None) = HeldIn(sessions, None)
      PROVE  WalletConserved'
    BY <1>6, <1>7
<1> SUFFICES ASSUME ~\E o \in Orders : CreateMarketplaceFixedOrder(o),
                    ~\E p \in Pages, o \in Orders : refundRemainingQuota(p, o)
             PROVE  WalletConserved'
    BY <1>4, <1>5
<1>8. CASE (\E o \in Orders : OrderStep(o)) \/ (\E p \in Pages : PageStep(p)) \/ UNCHANGED vars
    <2>1. UNCHANGED <<refunds, wallet, sessions>>
        BY <1>8 DEF OrderStep, TimeIsOver, ProbeFixedOrder, PageStep, SweepReads, SweepFails,
                    expireMarketplaceFixedOrder, ReleaseReads, ReleaseRejected, vars
    <2>2. HeldIn(sessions', None) = HeldIn(sessions, None)
        BY <2>1
    <2> QED
        BY <1>7, <2>1, <2>2
<1>9. ASSUME NEW r \in Requests, FixedStep(r) PROVE WalletConserved'
    <2>1. UNCHANGED <<refunds, wallet>>
        BY <1>9 DEF FixedStep, PrepareFixedOrder, Settle, SettleRejected, SettleFails, RelayFails,
                    Refund, RefundFails
    <2>2. ASSUME NEW o \in Orders, NEW e \in Estimates, PrepareFixedOrder(r, o, e)
          PROVE  HeldIn(sessions', None) = HeldIn(sessions, None)
        <3>1. None # o
            BY MarketAssumption
        <3> QED
            BY <1>1, <2>2, <3>1, PreparedSession, Zenon
    <2>3. ASSUME sessions[r].order # None, NEW pc, NEW h, NEW c, Moved(r, pc, h, c)
          PROVE  HeldIn(sessions', None) = HeldIn(sessions, None)
        BY <2>3, MovedHolds, Zenon
    <2>4. ASSUME NEW c \in Charges, Settle(r, c) \/ SettleRejected(r, c) \/ SettleFails(r, c)
          PROVE  HeldIn(sessions', None) = HeldIn(sessions, None)
        <3>1. sessions[r].order # None
            BY <2>4 DEF Settle, SettleRejected, SettleFails, Fixed
        <3> QED
            BY <1>1, <2>3, <2>4, <3>1, FixedMoves, Zenon
    <2>5. CASE Refund(r) \/ RefundFails(r)
        <3>1. sessions[r].order # None
            BY <2>5 DEF Refund, RefundFails, Fixed
        <3>2. HeldIn(sessions', None) = HeldIn(sessions, None)
            BY <1>1, <2>3, <2>5, <3>1, FixedMoves, Zenon
        <3> QED
            BY <1>7, <2>1, <3>2
    <2>6. CASE RelayFails(r)
        <3>1. HeldIn(sessions', None) = HeldIn(sessions, None)
            BY <1>1, <2>6, FixedMoves, MovedHoldsSame, Zenon
        <3> QED
            BY <1>7, <2>1, <3>1
    <2> QED
        BY <1>7, <1>9, <2>1, <2>2, <2>4, <2>5, <2>6, Zenon DEF FixedStep
<1>10. ASSUME NEW r \in Requests, PoolStep(r) PROVE WalletConserved'
    <2>1. UNCHANGED refunds
        BY <1>10 DEF PoolStep, PreparePool, PreConsumeBilling, PreConsumeFails, SettleFunding,
                     SettleFundingFails, SettlePool, SettlePoolFails, RefundPool
    <2>2. HeldIn(sessions', None) + wallet' = HeldIn(sessions, None) + wallet
        BY <1>10, PoolHolds, Zenon
    <2> QED
        BY <1>6, <2>1, <2>2
<1>11. CASE Crash
    <2>1. UNCHANGED <<refunds, wallet>>
        BY <1>11 DEF Crash
    <2>2. HeldIn(sessions', None) = HeldIn(sessions, None)
        BY <1>1, <1>11, CrashMoves, Zenon
    <2> QED
        BY <1>7, <2>1, <2>2
<1> QED
    BY <1>8, <1>9, <1>10, <1>11, Zenon DEF Next
-----------------------------------------------------------------------------
(***************************************************************************)
(* The theorems.                                                           *)
(***************************************************************************)

LEMMA InitMarket == Init => MarketInvariant
<1> SUFFICES ASSUME Init PROVE MarketInvariant
    OBVIOUS
<1>1. /\ NoRow \in Row /\ NoRow.status = "none" /\ NoRow.remaining = 0 /\ NoRow.spent = 0
      /\ NoPage \in PageType /\ NoPage.op = "none" /\ \A o \in Orders : NoPage.copy[o] = NoRow
    BY DEF NoRow, Row, NoPage, PageType
<1>2. NoSession \in SessionType /\ HasFields(NoSession, "none", None, 0, FALSE)
    BY DEF NoSession, SessionType, HasFields
<1>3. /\ IsFiniteSet(Orders) /\ IsFiniteSet(Requests) /\ None \notin Orders
      /\ Purchased \in Nat /\ InitWallet \in Nat /\ MaxFaults \in Nat /\ ConcurrencyLimit \in Nat
    BY MarketAssumption
<1>4. /\ \A o \in Orders : orders[o] = NoRow /\ refunds[o] = 0
      /\ \A r \in Requests : sessions[r] = NoSession
      /\ \A p \in Pages : pages[p] = NoPage
    BY DEF Init
<1>5. TypeOK
    BY <1>1, <1>2, <1>3 DEF Init, TypeOK
<1>6. \A r \in Requests : sessions[r].order = None /\ sessions[r].hold = 0 /\ ~sessions[r].capacity
                          /\ sessions[r].pc = "none"
    BY <1>2, <1>4, Zenon DEF HasFields
<1>7. \A q : HeldIn(sessions, q) = 0
    <2> SUFFICES ASSUME NEW q PROVE HeldIn(sessions, q) = 0
        OBVIOUS
    <2>1. \A r \in Requests : UsedIn(sessions, q)[r] = 0
        BY <1>6 DEF UsedIn
    <2> QED
        BY <1>3, <2>1, SumOfZeros DEF HeldIn
<1>8. ASSUME NEW o \in Orders PROVE OrderOK(o) /\ BookOK(o)
    <2>1. OrderOK(o)
        <3>1. \A r \in Requests : sessions[r].order # o
            BY <1>3, <1>6
        <3> QED
            BY <1>1, <1>4, <3>1 DEF OrderOK
    <2>2. BookOK(o)
        BY <1>1, <1>3, <1>4, <1>7 DEF BookOK, HeldBy
    <2> QED
        BY <2>1, <2>2
<1>9. \A r \in Requests : SessionOK(r)
    BY <1>4, <1>6 DEF SessionOK
<1>10. \A p \in Pages : PageOK(p)
    BY <1>1, <1>4 DEF PageOK
<1>11. CapacityMatchesSessions
    <2>1. {r \in Requests : sessions[r].capacity} = {}
        BY <1>6
    <2>2. stats.concurrency = 0
        BY DEF Init
    <2>3. Cardinality({r \in Requests : sessions[r].capacity}) = 0
        BY <2>1, FS_EmptySet, Zenon
    <2>4. 0 <= ConcurrencyLimit
        BY <1>3
    <2> QED
        BY <2>2, <2>3, <2>4, Zenon DEF CapacityMatchesSessions
<1>12. WalletConserved
    <2>1. {o \in Orders : orders[o] # NoRow} = {}
        BY <1>4
    <2>2. SumFunctionOnSet(refunds, Orders) = 0
        BY <1>3, <1>4, SumOfZeros
    <2>3. wallet = InitWallet
        BY DEF Init
    <2>4. Purchased * 0 = 0
        BY <1>3
    <2> QED
        BY <1>3, <1>7, <2>1, <2>2, <2>3, <2>4, FS_EmptySet DEF WalletConserved, HeldBy
<1>13. IncomeMatchesLedger
    <2>1. IsFiniteSet(Orders \cup Requests)
        BY <1>3, FS_Union
    <2>2. \A x \in Orders \cup Requests : ledger[x] = 0
        BY DEF Init
    <2>3. income = 0
        BY DEF Init
    <2> QED
        BY <2>1, <2>2, <2>3, SumOfZeros DEF IncomeMatchesLedger
<1> QED
    BY <1>5, <1>8, <1>9, <1>10, <1>11, <1>12, <1>13, Zenon DEF MarketInvariant

LEMMA NextMarket == MarketInvariant /\ [Next]_vars => MarketInvariant'
<1> SUFFICES ASSUME MarketInvariant, [Next]_vars PROVE MarketInvariant'
    OBVIOUS
<1> QED
    BY TypeStep, SessionsStep, LinksStep, IncomeStep, CapacityStep, BooksStep, WalletStep, Zenon
    DEF MarketInvariant

\* The invariant holds in every reachable state.
THEOREM MarketIsConsistent == Spec => []MarketInvariant
BY InitMarket, NextMarket, PTL DEF Spec

\* The accounts of buyer and seller are exact over every interleaving of
\* purchases, sweeps, refunds after a probe and requests of both kinds, with
\* crashes and failed transactions: Marketplace.tla's AccountsExact.
THEOREM MarketAccountsExact == Spec => []AccountsExact
<1>1. MarketInvariant => AccountsExact
    <2> SUFFICES ASSUME MarketInvariant PROVE AccountsExact
        OBVIOUS
    <2>1. TypeOK /\ WalletConserved /\ IncomeMatchesLedger
        BY DEF MarketInvariant
    <2>2. \A o \in Orders : OrderOK(o) /\ BookOK(o)
        BY DEF MarketInvariant
    <2>3. EscrowConserved
        BY <2>2 DEF EscrowConserved, OrderOK, BookOK
    <2> QED
        BY <2>1, <2>3 DEF AccountsExact
<1> QED
    BY <1>1, MarketIsConsistent, PTL

\* Quota that was refunded, charged or reserved is never left in its order as
\* well (refundBuyerMarketplaceFixedOrderRemainingQuota against the requests
\* and the sweeps that use the same order).
THEOREM QuotaNeverSpentTwice == Spec => []NeverSpentTwice
<1>1. MarketInvariant => NeverSpentTwice
    BY DEF MarketInvariant, NeverSpentTwice, BookOK
<1> QED
    BY <1>1, MarketIsConsistent, PTL

\* current_concurrency counts the requests that have capacity, and never
\* passes the seller's limit, on every path of a session.
THEOREM CapacityIsExact == Spec => []CapacityMatchesSessions
<1>1. MarketInvariant => CapacityMatchesSessions
    BY DEF MarketInvariant
<1> QED
    BY <1>1, MarketIsConsistent, PTL
=============================================================================
