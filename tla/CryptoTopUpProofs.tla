------------------------- MODULE CryptoTopUpProofs --------------------------
(***************************************************************************)
(* Proofs about CryptoTopUp, for any orders, transfers, scanners,          *)
(* administrators and readers, any length of the chain, and with scans     *)
(* that fail, processes that crash and a lock that runs out at any time.   *)
(* CryptoInvariant needs no row locks; LockInvariant is what they add.     *)
(***************************************************************************)
EXTENDS CryptoTopUp, TLAPS

(***************************************************************************)
(* The inductive invariant.                                                *)
(***************************************************************************)

\* The rows of the order have been inserted.
Past(o) == orders[o].status \notin {"none", "creating"}

\* A copy of an order agrees with its row on what the buyer was told.
SameTerms(row, o) == row.amount = orders[o].amount /\ row.expires = orders[o].expires

\* A transfer on the chain that pays the order in time.
PaysInTime(o, x) ==
    /\ transfers[x].block > 0
    /\ transfers[x].amount = orders[o].amount /\ transfers[x].block <= orders[o].expires

\* The scanners hold x for the payment of o: matched, read as ready, being
\* completed or credited.
AutoPair(o, x) ==
    \/ orders[o].status = "detected" /\ orders[o].matched = x
    \/ \E s \in Scanners : <<o, x>> \in scanner[s].ready
    \/ \E s \in Scanners : tx[s].order = o /\ tx[s].transfer = x
    \/ credits[o].count > 0 /\ credits[o].auto /\ credits[o].transfer = x

ChainOK == \A x \in Transfers : transfers[x] = NoTransfer \/ transfers[x].block > 0

TopUpsOK == \A o \in Orders : ~Past(o) => topups[o] = "none"

MatchesOK == \A x \in Transfers : txs[x].order # None => txs[x].recorded

\* A credit names its transfer.
CreditsNamed == \A o \in Orders : credits[o].count > 0 => credits[o].transfer # None

ViewOK(r) == view[r].order # None =>
    Past(view[r].order) /\ SameTerms(view[r].row, view[r].order)

ViewsOK == \A r \in Readers : ViewOK(r)

TxOK(w) == tx[w].order # None =>
    /\ tx[w].transfer # None
    /\ Past(tx[w].order) /\ SameTerms(tx[w].row, tx[w].order)

TxsOK == \A w \in Workers : TxOK(w)

PairsOK == \A o \in Orders, x \in Transfers : AutoPair(o, x) =>
    /\ Past(o) /\ PaysInTime(o, x) /\ txs[x].order # None
    /\ \A p \in Orders : AutoPair(p, x) => p = o

\* Only an order whose rows are inserted is read as ready.
ReadyOK == \A s \in Scanners, o \in Orders, x \in Transfers :
    <<o, x>> \in scanner[s].ready => Past(o)

\* A recording is for a transfer of its scan, and its copies have the orders' terms.
RecOK(s) ==
    /\ rec[s].at = None => rec[s].found = {}
    /\ rec[s].at # None => scanner[s].pc = "scan" /\ rec[s].at \in scanner[s].todo
    /\ \A o \in rec[s].found : Past(o) /\ SameTerms(rec[s].copy[o], o)

RecsOK == \A s \in Scanners : RecOK(s)

\* A scan knows every transfer up to its last block, which the chain has reached,
\* but for the gaps.
ScanOK(s) == scanner[s].pc = "scan" =>
    /\ scanner[s].to \in 0 .. height
    /\ \A x \in scanner[s].todo : transfers[x].block > 0
    /\ \A x \in Transfers : transfers[x].block \in 1 .. scanner[s].to =>
          \/ txs[x].recorded \/ x \in scanner[s].todo
          \/ transfers[x].block \in gaps \cup scanner[s].gap

ScansOK == \A s \in Scanners : ScanOK(s)

\* A completion holds its order alone, and what it has read of it is still true.
LocksOK == \A w \in Workers : tx[w].order # None =>
    /\ tx[w].paid => topups[tx[w].order] = "success"
    /\ ~tx[w].paid => topups[tx[w].order] # "success"
    /\ \A v \in Workers : tx[v].order = tx[w].order => v = w

\* A recording holds its transfer and the orders it has found alone, and its
\* copies are still true.
RecHolds(s) ==
    /\ rec[s].at # None => /\ rec[s].row = txs[rec[s].at]
                           /\ \A t \in Scanners : rec[t].at = rec[s].at => t = s
    /\ rec[s].matching => rec[s].at # None /\ rec[s].row.order = None
    /\ \A o \in rec[s].found :
          /\ rec[s].copy[o] = orders[o] /\ orders[o].amount = transfers[rec[s].at].amount
          /\ \A t \in Scanners : o \in rec[t].found => t = s
          /\ \A w \in Workers : tx[w].order # o

RecsHold == \A s \in Scanners : RecHolds(s)

CryptoInvariant ==
    /\ TypeOK /\ ChainOK /\ TopUpsOK /\ MatchesOK /\ ViewsOK /\ TxsOK /\ ReadyOK /\ RecsOK
    /\ ScansOK
    /\ CreditsNamed /\ ScannedIsRecorded

LockInvariant == LocksOK /\ CreditedOnce /\ PairsOK /\ RecsHold
-----------------------------------------------------------------------------
(***************************************************************************)
(* Who writes what.                                                        *)
(***************************************************************************)

\* The steps that write anything but the state of a scanner or of the lock.
LEMMA Steps ==
    ASSUME [Next]_vars
    PROVE  \/ NewBlock
           \/ \E x \in Transfers, o \in Orders : Pay(x, o)
           \/ \E o \in Orders : CreateCryptoTopUpOrder(o)
           \/ \E o \in Orders, a \in Amounts : ChooseAmount(o, a)
           \/ \E r \in Readers, o \in Orders : GetCryptoTopUpOrder(r, o)
           \/ \E r \in Readers : ExpireCryptoPaymentOrder(r)
           \/ \E s \in Scanners : RecordCryptoTransfer(s)
           \/ \E s \in Scanners, x \in Transfers : ReadTransfer(s, x)
           \/ \E s \in Scanners : FindOrders(s)
           \/ \E s \in Scanners : UpsertCryptoScannerState(s)
           \/ \E s \in Scanners : \/ ScanOnce(s) \/ ScanFails(s) \/ TickEnds(s)
                                  \/ \E o \in Orders, x \in Transfers : SkipReady(s, o, x)
           \/ \E s \in Scanners : Crash(s)
           \/ \E s \in Scanners, o \in Orders, x \in Transfers : CompleteReady(s, o, x)
           \/ \E a \in Admins, o \in Orders, x \in Transfers : AdminCompleteCryptoTopUp(a, o, x)
           \/ \E w \in Workers : CompleteCommit(w)
           \/ \E w \in Workers : CompleteFails(w)
           \/ LockExpires \/ UNCHANGED vars
BY Zenon DEF Next, ScannerStep, Workers

\* The order, transfer and credit rows change in six steps only.
LEMMA Writers ==
    ASSUME [Next]_vars
    PROVE  \/ \E x \in Transfers, o \in Orders : Pay(x, o)
           \/ \E o \in Orders : CreateCryptoTopUpOrder(o)
           \/ \E o \in Orders, a \in Amounts : ChooseAmount(o, a)
           \/ \E r \in Readers : ExpireCryptoPaymentOrder(r)
           \/ \E s \in Scanners : RecordCryptoTransfer(s)
           \/ \E w \in Workers : CompleteCommit(w)
           \/ UNCHANGED <<transfers, orders, topups, txs, credits>>
<1>1. ASSUME NEW s \in Scanners,
             \/ ScanOnce(s) \/ ScanFails(s) \/ TickEnds(s) \/ Crash(s)
             \/ UpsertCryptoScannerState(s) \/ FindOrders(s)
             \/ \E x \in Transfers : ReadTransfer(s, x)
             \/ \E o \in Orders, x \in Transfers : SkipReady(s, o, x) \/ CompleteReady(s, o, x)
      PROVE  UNCHANGED <<transfers, orders, topups, txs, credits>>
    BY <1>1 DEF FindOrders, ReadTransfer, ScanOnce, ScanFails, TickEnds, Crash, UpsertCryptoScannerState, SkipReady,
                CompleteReady, CompleteBegin
<1>2. ASSUME \/ NewBlock \/ LockExpires \/ UNCHANGED vars
             \/ \E r \in Readers, o \in Orders : GetCryptoTopUpOrder(r, o)
             \/ \E a \in Admins, o \in Orders, x \in Transfers : AdminCompleteCryptoTopUp(a, o, x)
             \/ \E w \in Workers : CompleteFails(w)
      PROVE  UNCHANGED <<transfers, orders, topups, txs, credits>>
    BY <1>2 DEF NewBlock, LockExpires, vars, GetCryptoTopUpOrder, AdminCompleteCryptoTopUp,
                CompleteBegin, CompleteFails
<1> QED
    BY <1>1, <1>2, Steps, Zenon
-----------------------------------------------------------------------------
(***************************************************************************)
(* Types.                                                                  *)
(***************************************************************************)

LEMMA Constants ==
    /\ NoOrder \in OrderType /\ NoTx \in TxType /\ IdleScanner \in ScannerType
    /\ NoTransfer \in [amount : Amounts \cup {None}, block : Nat]
    /\ NoTxRow \in [recorded : BOOLEAN, order : Orders \cup {None}]
    /\ NoOrder.status = "none" /\ NoTx.order = None /\ NoTxRow.order = None
    /\ NoTransfer.block = 0
    /\ IdleScanner.pc = "idle" /\ IdleScanner.ready = {}
    /\ NoRec \in RecType /\ NoRec.at = None /\ NoRec.found = {} /\ ~NoRec.matching
<1>1. NoOrder \in OrderType
    BY DEF NoOrder, OrderType, OrderStatus
<1>2. NoTx \in TxType
    BY <1>1 DEF NoTx, TxType
<1>3. /\ NoRec \in RecType /\ NoRec.at = None /\ NoRec.found = {} /\ ~NoRec.matching
    <2>1. [o \in Orders |-> NoOrder] \in [Orders -> OrderType]
        BY <1>1
    <2>2. NoTxRow \in TxRowType
        BY DEF NoTxRow, TxRowType
    <2> QED
        BY <2>1, <2>2 DEF NoRec, RecType
<1> QED
    BY <1>1, <1>2, <1>3 DEF NoOrder, NoTx, IdleScanner, ScannerType, NoTransfer, NoTxRow

LEMMA InitCrypto == Init => CryptoInvariant /\ LockInvariant
<1> SUFFICES ASSUME Init PROVE CryptoInvariant /\ LockInvariant
    OBVIOUS
<1>1. TypeOK
    BY CryptoAssumption, Constants DEF Init, TypeOK, TxRowType
<1>2. /\ \A o \in Orders : orders[o] = NoOrder /\ topups[o] = "none" /\ credits[o].count = 0
      /\ \A w \in Workers : tx[w].order = None
      /\ \A r \in Readers : view[r].order = None
      /\ \A s \in Scanners : scanner[s].pc = "idle" /\ scanner[s].ready = {}
      /\ \A s \in Scanners : rec[s].at = None /\ rec[s].found = {} /\ ~rec[s].matching
      /\ \A x \in Transfers : transfers[x].block = 0
    BY Constants DEF Init
<1>3. TopUpsOK /\ MatchesOK /\ ViewsOK /\ TxsOK /\ ScansOK /\ ScannedIsRecorded /\ LocksOK /\ CreditedOnce
      /\ CreditsNamed /\ ReadyOK /\ RecsOK /\ RecsHold /\ ChainOK
    BY <1>2, Constants DEF Init, ChainOK, ReadyOK, RecsOK, RecOK, RecsHold, RecHolds, ScanOK, CreditsNamed, TopUpsOK, MatchesOK, ViewsOK, ViewOK, TxsOK, TxOK, ScansOK, ScannedIsRecorded, LocksOK, CreditedOnce
<1>4. PairsOK
    <2>1. ASSUME NEW o \in Orders, NEW x \in Transfers PROVE ~AutoPair(o, x)
        BY <1>2, Constants, CryptoAssumption DEF AutoPair, Workers
    <2> QED
        BY <2>1 DEF PairsOK
<1> QED
    BY <1>1, <1>3, <1>4 DEF CryptoInvariant, LockInvariant
-----------------------------------------------------------------------------
(***************************************************************************)
(* What stays: an order once inserted keeps its terms, whatever old copy   *)
(* is saved; a transfer on the chain is final; a recorded row stays.       *)
(***************************************************************************)

RowsTyped ==
    /\ transfers \in [Transfers -> [amount : Amounts \cup {None}, block : Nat]]
    /\ orders \in [Orders -> OrderType]
    /\ topups \in [Orders -> {"none", "pending", "success"}]
    /\ txs \in [Transfers -> [recorded : BOOLEAN, order : Orders \cup {None}]]
    /\ credits \in [Orders -> [count : Nat, transfer : Transfers \cup {None}, auto : BOOLEAN]]

TermsStay == \A o \in Orders : Past(o) =>
    Past(o)' /\ orders'[o].amount = orders[o].amount /\ orders'[o].expires = orders[o].expires

ChainStays == \A x \in Transfers : transfers[x].block > 0 => transfers'[x] = transfers[x]

RecordsStay == \A x \in Transfers : txs[x].recorded => txs'[x].recorded

Stable == TermsStay /\ ChainStays /\ RecordsStay

LEMMA PayStable ==
    ASSUME CryptoInvariant, NEW x \in Transfers, NEW o \in Orders, Pay(x, o)
    PROVE  RowsTyped' /\ Stable
<1>1. RowsTyped /\ height \in Nat
    BY DEF CryptoInvariant, TypeOK, RowsTyped, TxRowType
<1>2. /\ transfers[x] = NoTransfer /\ UNCHANGED <<orders, topups, txs, credits>>
      /\ transfers' = [transfers EXCEPT ![x] = [amount |-> orders[o].amount, block |-> height + 1]]
    BY DEF Pay
<1>3. orders[o].amount \in Amounts \cup {None}
    BY <1>1 DEF RowsTyped, OrderType
<1>4. RowsTyped'
    BY <1>1, <1>2, <1>3 DEF RowsTyped
<1>5. ChainStays
    BY <1>1, <1>2, Constants DEF RowsTyped, ChainStays
<1> QED
    BY <1>2, <1>4, <1>5 DEF Stable, TermsStay, RecordsStay, Past

LEMMA CreateStable ==
    ASSUME CryptoInvariant, NEW o \in Orders,
           CreateCryptoTopUpOrder(o) \/ \E a \in Amounts : ChooseAmount(o, a)
    PROVE  RowsTyped' /\ Stable
<1>1. RowsTyped /\ height \in Nat
    BY DEF CryptoInvariant, TypeOK, RowsTyped, TxRowType
<1>2. ~Past(o) /\ UNCHANGED <<transfers, txs, credits>>
    BY DEF CreateCryptoTopUpOrder, ChooseAmount, Past
<1>3. PICK row \in OrderType : orders' = [orders EXCEPT ![o] = row]
    <2>1. CASE CreateCryptoTopUpOrder(o)
        <3>a. orders[o] \in OrderType
            BY <1>1 DEF RowsTyped
        <3>b. height + Window \in Nat
            BY <1>1, CryptoAssumption
        <3>1. [orders[o] EXCEPT !.status = "pending", !.expires = height + Window] \in OrderType
            BY <3>a, <3>b DEF OrderType, OrderStatus
        <3> QED
            BY <2>1, <3>1 DEF CreateCryptoTopUpOrder
    <2>2. CASE \E a \in Amounts : ChooseAmount(o, a)
        <3>1. PICK a \in Amounts : ChooseAmount(o, a)
            BY <2>2
        <3>2. [NoOrder EXCEPT !.status = "creating", !.amount = a] \in OrderType
            BY Constants DEF OrderType, OrderStatus
        <3> QED
            BY <3>1, <3>2 DEF ChooseAmount
    <2> QED
        BY <2>1, <2>2
<1>4. topups' \in [Orders -> {"none", "pending", "success"}]
    BY <1>1 DEF CreateCryptoTopUpOrder, ChooseAmount, RowsTyped
<1>5. RowsTyped'
    BY <1>1, <1>2, <1>3, <1>4 DEF RowsTyped
<1>6. TermsStay
    BY <1>1, <1>2, <1>3 DEF TermsStay, RowsTyped, Past
<1> QED
    BY <1>2, <1>5, <1>6 DEF Stable, ChainStays, RecordsStay

LEMMA ExpireStable ==
    ASSUME CryptoInvariant, NEW r \in Readers, ExpireCryptoPaymentOrder(r)
    PROVE  RowsTyped' /\ Stable
<1> DEFINE o == view[r].order
<1>1. RowsTyped /\ view[r].row \in OrderType /\ o \in Orders
    BY DEF CryptoInvariant, TypeOK, RowsTyped, TxRowType, ExpireCryptoPaymentOrder
<1>2. SameTerms(view[r].row, o)
    BY <1>1, CryptoAssumption DEF CryptoInvariant, ViewsOK, ViewOK, ExpireCryptoPaymentOrder
<1> DEFINE row == [view[r].row EXCEPT !.status = "expired"]
<1>3. /\ row \in OrderType /\ row.status = "expired"
      /\ row.amount = orders[o].amount /\ row.expires = orders[o].expires
    BY <1>1, <1>2 DEF OrderType, OrderStatus, SameTerms
<1>4. orders' = [orders EXCEPT ![o] = row] /\ UNCHANGED <<transfers, topups, txs, credits>>
    BY DEF ExpireCryptoPaymentOrder
<1> HIDE DEF row, o
<1>5. RowsTyped'
    BY <1>1, <1>3, <1>4 DEF RowsTyped
<1>6. TermsStay
    BY <1>1, <1>3, <1>4 DEF TermsStay, RowsTyped, Past
<1> QED
    BY <1>4, <1>5, <1>6 DEF Stable, ChainStays, RecordsStay

LEMMA CreditTyped ==
    ASSUME NEW n \in Nat, NEW t \in Transfers \cup {None}, NEW b \in BOOLEAN
    PROVE  [count |-> n, transfer |-> t, auto |-> b]
              \in [count : Nat, transfer : Transfers \cup {None}, auto : BOOLEAN]
OBVIOUS

LEMMA CommitStable ==
    ASSUME CryptoInvariant, NEW w \in Workers, CompleteCommit(w)
    PROVE  RowsTyped' /\ Stable
<1> DEFINE o == tx[w].order
<1> DEFINE x == tx[w].transfer
<1>1. RowsTyped /\ tx[w] \in TxType /\ o # None
    BY DEF CryptoInvariant, TypeOK, RowsTyped, TxRowType, CompleteCommit
<1>2. o \in Orders /\ x \in Transfers /\ SameTerms(tx[w].row, o) /\ tx[w].row \in OrderType
    BY <1>1 DEF CryptoInvariant, TxsOK, TxOK, TxType
<1>3. PICK row \in OrderType : /\ orders' = [orders EXCEPT ![o] = row]
                               /\ row.status = "success" /\ row.amount = orders[o].amount
                               /\ row.expires = orders[o].expires
    <2> DEFINE r1 == [tx[w].row EXCEPT !.status = "success"]
    <2> DEFINE r2 == [tx[w].row EXCEPT !.status = "success", !.matched = x]
    <2>1. /\ r1 \in OrderType /\ r1.status = "success" /\ r1.amount = tx[w].row.amount
          /\ r1.expires = tx[w].row.expires
        BY <1>2 DEF OrderType, OrderStatus
    <2>2. /\ r2 \in OrderType /\ r2.status = "success" /\ r2.amount = tx[w].row.amount
          /\ r2.expires = tx[w].row.expires
        BY <1>2 DEF OrderType, OrderStatus
    <2>3. orders' = [orders EXCEPT ![o] = r1] \/ orders' = [orders EXCEPT ![o] = r2]
        BY Zenon DEF CompleteCommit
    <2> HIDE DEF r1, r2
    <2> QED
        BY <1>2, <2>1, <2>2, <2>3 DEF SameTerms
<1>4. PICK b \in BOOLEAN : b = (w \in Scanners)
    <2>1. (w \in Scanners) \in BOOLEAN
        OBVIOUS
    <2> QED
        BY <2>1, Zenon
<1> DEFINE matched == [recorded |-> TRUE, order |-> o]
<1> DEFINE credit == [count |-> credits[o].count + 1, transfer |-> x, auto |-> b]
<1>5. \/ UNCHANGED <<topups, txs, credits>>
      \/ /\ topups' = [topups EXCEPT ![o] = "success"]
         /\ txs' = [txs EXCEPT ![x] = matched]
         /\ credits' = [credits EXCEPT ![o] = credit]
    BY <1>4, Zenon DEF CompleteCommit
<1>6. transfers' = transfers
    BY DEF CompleteCommit
<1> HIDE DEF o, x
<1>m. /\ matched \in [recorded : BOOLEAN, order : Orders \cup {None}]
      /\ matched.recorded /\ matched.order # None
    BY <1>1, <1>2
<1>c. credit \in [count : Nat, transfer : Transfers \cup {None}, auto : BOOLEAN]
    <2>1. credits[o].count + 1 \in Nat
        BY <1>1, <1>2 DEF RowsTyped
    <2>2. x \in Transfers \cup {None} /\ b \in BOOLEAN
        BY <1>2
    <2> QED
        BY <2>1, <2>2, CreditTyped, Zenon
<1> HIDE DEF matched, credit
<1>7. /\ topups' \in [Orders -> {"none", "pending", "success"}]
      /\ txs' \in [Transfers -> [recorded : BOOLEAN, order : Orders \cup {None}]]
      /\ RecordsStay
    <2>1. topups' \in [Orders -> {"none", "pending", "success"}]
        BY <1>1, <1>2, <1>5 DEF RowsTyped
    <2>2. txs' \in [Transfers -> [recorded : BOOLEAN, order : Orders \cup {None}]]
        BY <1>1, <1>2, <1>5, <1>m DEF RowsTyped
    <2>3. \A y \in Transfers : txs'[y] = txs[y] \/ txs'[y] = matched
        BY <1>1, <1>5 DEF RowsTyped
    <2>4. RecordsStay
        BY <1>m, <2>3 DEF RecordsStay
    <2> QED
        BY <2>1, <2>2, <2>4
<1>8. credits' \in [Orders -> [count : Nat, transfer : Transfers \cup {None}, auto : BOOLEAN]]
    BY <1>1, <1>2, <1>5, <1>c DEF RowsTyped
<1>9. RowsTyped'
    BY <1>1, <1>3, <1>6, <1>7, <1>8 DEF RowsTyped
<1>10. TermsStay
    BY <1>1, <1>2, <1>3 DEF TermsStay, RowsTyped, Past
<1> QED
    BY <1>6, <1>7, <1>9, <1>10 DEF Stable, ChainStays

\* The transfer a recording is for, and its row.
LEMMA RecordAt ==
    ASSUME CryptoInvariant, NEW s \in Scanners, rec[s].at # None
    PROVE  /\ rec[s] \in RecType /\ rec[s].at \in Transfers
           /\ scanner[s].pc = "scan" /\ rec[s].at \in scanner[s].todo
           /\ transfers[rec[s].at].block > 0
           /\ InTime(s) \subseteq rec[s].found /\ TooLate(s) \subseteq rec[s].found
           /\ rec[s].found \subseteq Orders
<1>1. rec[s] \in RecType
    BY DEF CryptoInvariant, TypeOK
<1> QED
    BY <1>1 DEF RecType, CryptoInvariant, RecsOK, RecOK, ScansOK, ScanOK, InTime, TooLate

\* A recording writes the row of its transfer and orders it has found.
LEMMA RecordFields ==
    ASSUME CryptoInvariant, NEW s \in Scanners, RecordCryptoTransfer(s)
    PROVE  /\ rec[s].at # None
           /\ \E row \in TxRowType : /\ txs' = [txs EXCEPT ![rec[s].at] = row] /\ row.recorded
                                     /\ row.order = rec[s].row.order \/ row.order # None
           /\ orders' \in [Orders -> OrderType]
           /\ \A o \in Orders : o \notin rec[s].found => orders'[o] = orders[o]
           /\ \A o \in rec[s].found :
                /\ orders'[o].amount = orders[o].amount /\ orders'[o].expires = orders[o].expires
                /\ Past(o)'
           /\ UNCHANGED <<transfers, topups, credits>>
<1>1. RowsTyped /\ rec[s].at # None
    BY DEF CryptoInvariant, TypeOK, RowsTyped, TxRowType, RecordCryptoTransfer
<1>2. /\ rec[s] \in RecType /\ rec[s].at \in Transfers
      /\ InTime(s) \subseteq rec[s].found /\ TooLate(s) \subseteq rec[s].found
      /\ rec[s].found \subseteq Orders
    BY <1>1, RecordAt
<1>3. \A o \in rec[s].found : Past(o) /\ SameTerms(rec[s].copy[o], o)
    BY DEF CryptoInvariant, RecsOK, RecOK
<1>4. UNCHANGED <<transfers, topups, credits>>
    BY DEF RecordCryptoTransfer
<1> DEFINE saved == [recorded |-> TRUE, order |-> rec[s].row.order]
<1>5. saved \in TxRowType /\ saved.recorded /\ saved.order = rec[s].row.order
    BY <1>2 DEF RecType, TxRowType
<1>6. CASE UNCHANGED orders /\ SaveRow(s)
    BY <1>1, <1>3, <1>4, <1>5, <1>6 DEF SaveRow, RowsTyped, Past
<1>7. ASSUME NEW o \in rec[s].found, NEW status \in {"detected", "late_paid"},
             MatchWith(s, o, status)
      PROVE  /\ \E row \in TxRowType : /\ txs' = [txs EXCEPT ![rec[s].at] = row] /\ row.recorded
                                       /\ row.order = rec[s].row.order \/ row.order # None
             /\ orders' \in [Orders -> OrderType]
             /\ \A q \in Orders : q \notin rec[s].found => orders'[q] = orders[q]
             /\ \A q \in rec[s].found :
                   /\ orders'[q].amount = orders[q].amount /\ orders'[q].expires = orders[q].expires
                   /\ Past(q)'
    <2> DEFINE row == [rec[s].copy[o] EXCEPT !.status = status, !.matched = rec[s].at]
    <2> DEFINE matched == [recorded |-> TRUE, order |-> o]
    <2>1. orders' = [orders EXCEPT ![o] = row] /\ txs' = [txs EXCEPT ![rec[s].at] = matched]
        BY <1>7 DEF MatchWith
    <2>2. o \in Orders /\ rec[s].copy[o] \in OrderType /\ SameTerms(rec[s].copy[o], o)
        BY <1>2, <1>3 DEF RecType
    <2>3. /\ row \in OrderType /\ row.status = status /\ row.amount = orders[o].amount
          /\ row.expires = orders[o].expires
        BY <1>2, <2>2 DEF OrderType, OrderStatus, SameTerms
    <2>4. matched \in TxRowType /\ matched.recorded /\ matched.order # None
        BY <2>2, CryptoAssumption DEF TxRowType
    <2> HIDE DEF row, matched
    <2>5. orders' \in [Orders -> OrderType] /\ orders'[o] = row
          /\ \A q \in Orders : q # o => orders'[q] = orders[q]
        BY <1>1, <2>1, <2>2, <2>3 DEF RowsTyped
    <2>6. \A q \in rec[s].found :
             /\ orders'[q].amount = orders[q].amount /\ orders'[q].expires = orders[q].expires
             /\ Past(q)'
        BY <1>2, <1>3, <2>3, <2>5 DEF Past
    <2> QED
        BY <2>1, <2>4, <2>5, <2>6
<1>8. CASE \E o \in InTime(s) : MatchWith(s, o, "detected")
    BY <1>1, <1>2, <1>4, <1>7, <1>8
<1>9. CASE \E o \in TooLate(s) : MatchWith(s, o, "late_paid")
    BY <1>1, <1>2, <1>4, <1>7, <1>9
<1>10. CASE /\ orders' = [o \in Orders |-> IF o \in InTime(s)
                                           THEN [orders[o] EXCEPT !.status = "ambiguous"]
                                           ELSE orders[o]]
            /\ SaveRow(s)
    <2>1. ASSUME NEW o \in Orders
          PROVE  /\ orders'[o] \in OrderType
                 /\ orders'[o].status \in {"ambiguous", orders[o].status}
                 /\ orders'[o].amount = orders[o].amount
                 /\ orders'[o].expires = orders[o].expires
        <3>1. orders[o] \in OrderType
            BY <1>1 DEF RowsTyped
        <3>2. orders'[o] = orders[o] \/ orders'[o] = [orders[o] EXCEPT !.status = "ambiguous"]
            BY <1>10
        <3> QED
            BY <3>1, <3>2 DEF OrderType, OrderStatus
    <2>2. orders' \in [Orders -> OrderType]
        BY <1>10, <2>1
    <2>3. \A o \in Orders : o \notin rec[s].found => orders'[o] = orders[o]
        BY <1>2, <1>10
    <2>4. \A o \in rec[s].found : Past(o)'
        BY <1>2, <1>3, <2>1 DEF Past
    <2>5. txs' = [txs EXCEPT ![rec[s].at] = saved]
        BY <1>10 DEF SaveRow
    <2> HIDE DEF saved
    <2> QED
        BY <1>1, <1>2, <1>4, <1>5, <2>1, <2>2, <2>3, <2>4, <2>5
<1> QED
    BY <1>6, <1>8, <1>9, <1>10 DEF RecordCryptoTransfer

LEMMA RecordStable ==
    ASSUME CryptoInvariant, NEW s \in Scanners, RecordCryptoTransfer(s)
    PROVE  RowsTyped' /\ Stable
<1>1. RowsTyped /\ rec[s].at # None
    BY RecordFields DEF CryptoInvariant, TypeOK, RowsTyped, TxRowType
<1>2. rec[s].at \in Transfers /\ rec[s].found \subseteq Orders
    BY <1>1, RecordAt
<1>3. PICK row \in TxRowType : txs' = [txs EXCEPT ![rec[s].at] = row] /\ row.recorded
    BY RecordFields
<1>4. /\ orders' \in [Orders -> OrderType] /\ UNCHANGED <<transfers, topups, credits>>
      /\ \A o \in Orders : o \notin rec[s].found => orders'[o] = orders[o]
      /\ \A o \in rec[s].found :
            /\ orders'[o].amount = orders[o].amount /\ orders'[o].expires = orders[o].expires
            /\ Past(o)'
    BY RecordFields
<1>5. RecordsStay /\ RowsTyped'
    BY <1>1, <1>2, <1>3, <1>4 DEF RowsTyped, RecordsStay, TxRowType
<1>6. TermsStay
    BY <1>4 DEF TermsStay, Past
<1> QED
    BY <1>4, <1>5, <1>6 DEF Stable, ChainStays

LEMMA AllStable ==
    ASSUME CryptoInvariant, [Next]_vars
    PROVE  RowsTyped' /\ Stable
<1>1. CASE UNCHANGED <<transfers, orders, topups, txs, credits>>
    BY <1>1 DEF CryptoInvariant, TypeOK, RowsTyped, TxRowType, Stable, TermsStay, ChainStays, RecordsStay, Past
<1> QED
    BY <1>1, Writers, PayStable, CreateStable, ExpireStable, RecordStable, CommitStable
-----------------------------------------------------------------------------
(***************************************************************************)
(* What a scanner has in hand.                                             *)
(***************************************************************************)

FreshFrom(t, from) ==
    /\ ToBlock(from) >= from /\ scanner'[t].to = ToBlock(from)
    /\ scanner'[t].gap = lastScanned + 1 .. from - 1
    /\ scanner'[t].todo = InBlocks(from, ToBlock(from))

Fresh(t) ==
    /\ \E from \in Nat : FreshFrom(t, from)
    /\ UNCHANGED <<height, transfers, txs, gaps>>

Goes(t) ==
    /\ scanner[t].pc = "scan" /\ scanner'[t].to = scanner[t].to
    /\ scanner'[t].gap = scanner[t].gap /\ scanner'[t].todo \subseteq scanner[t].todo
    /\ \A x \in scanner[t].todo : x \in scanner'[t].todo \/ txs'[x].recorded

\* Ready pairs come from the orders, a scan from the saved position.
Sound(t) ==
    /\ scanner'[t] \in ScannerType
    /\ scanner'[t].ready \subseteq scanner[t].ready \cup Ready
    /\ scanner'[t].pc = "scan" => Goes(t) \/ Fresh(t)

AllSound == scanner' \in [Scanners -> ScannerType] /\ \A t \in Scanners : Sound(t)

LEMMA OneScanner ==
    ASSUME scanner \in [Scanners -> ScannerType], NEW s \in Scanners, NEW y \in ScannerType,
           scanner' = [scanner EXCEPT ![s] = y],
           y.ready \subseteq scanner[s].ready \cup Ready,
           y.pc = "scan" => Goes(s) \/ Fresh(s)
    PROVE  AllSound
<1>0. scanner' \in [Scanners -> ScannerType]
    OBVIOUS
<1> SUFFICES ASSUME NEW t \in Scanners PROVE Sound(t)
    BY <1>0 DEF AllSound
<1>1. CASE t = s
    BY <1>1 DEF Sound
<1>2. CASE t # s
    <2>1. scanner'[t] = scanner[t] /\ scanner[t] \in ScannerType
        BY <1>2
    <2> QED
        BY <2>1 DEF Sound, Goes
<1> QED
    BY <1>1, <1>2

LEMMA ScanOnceSound ==
    ASSUME CryptoInvariant, NEW s \in Scanners, ScanOnce(s)
    PROVE  AllSound
<1>1. /\ scanner \in [Scanners -> ScannerType]
      /\ height \in Nat /\ lastScanned \in Nat
    BY DEF CryptoInvariant, TypeOK
<1>2. PICK known \in BOOLEAN :
        scanner' = [scanner EXCEPT ![s] =
                       IF ToBlock(FromBlock(known)) >= FromBlock(known)
                       THEN ScanFrom(FromBlock(known))
                       ELSE [IdleScanner EXCEPT !.pc = "complete", !.ready = Ready]]
    BY Zenon DEF ScanOnce
<1> DEFINE from == FromBlock(known)
<1>3. from \in Nat
    BY <1>1, CryptoAssumption DEF FromBlock
<1>4. UNCHANGED <<height, transfers, txs, gaps>>
    BY DEF ScanOnce
<1> HIDE DEF from
<1>5. /\ ToBlock(from) \in Int /\ InBlocks(from, ToBlock(from)) \subseteq Transfers
      /\ lastScanned + 1 .. from - 1 \subseteq Nat
    BY <1>1, <1>3, CryptoAssumption DEF ToBlock, MaxSafe, InBlocks
<1>6. Ready \subseteq Orders \X Transfers
    BY DEF Ready
<1>7. CASE ToBlock(from) >= from
    <2> DEFINE y == ScanFrom(from)
    <2>1. /\ y \in ScannerType /\ y.ready = {} /\ y.to = ToBlock(from)
          /\ y.gap = lastScanned + 1 .. from - 1
          /\ y.todo = InBlocks(from, ToBlock(from))
        BY <1>5, Constants DEF ScannerType, ScanFrom
    <2>2. scanner' = [scanner EXCEPT ![s] = y]
        BY <1>2, <1>7 DEF from
    <2> HIDE DEF y
    <2>3. scanner'[s] = y
        BY <1>1, <2>2
    <2>4. FreshFrom(s, from)
        BY <1>7, <2>1, <2>3 DEF FreshFrom
    <2>5. Fresh(s)
        BY <1>3, <1>4, <2>4 DEF Fresh
    <2> QED
        BY <1>1, <2>1, <2>2, <2>5, OneScanner
<1>8. CASE ~(ToBlock(from) >= from)
    <2> DEFINE y == [IdleScanner EXCEPT !.pc = "complete", !.ready = Ready]
    <2>1. y \in ScannerType /\ y.ready = Ready /\ y.pc = "complete"
        BY <1>6, Constants DEF ScannerType
    <2>2. scanner' = [scanner EXCEPT ![s] = y]
        BY <1>2, <1>8 DEF from
    <2> HIDE DEF y
    <2> QED
        BY <1>1, <2>1, <2>2, OneScanner
<1> QED
    BY <1>7, <1>8

LEMMA RecordSound ==
    ASSUME CryptoInvariant, NEW s \in Scanners, RecordCryptoTransfer(s)
    PROVE  AllSound /\ txs'[rec[s].at].recorded
<1>1. scanner \in [Scanners -> ScannerType] /\ RowsTyped
    BY DEF CryptoInvariant, TypeOK, RowsTyped, TxRowType
<1>2. rec[s].at # None /\ rec[s].at \in Transfers
    BY RecordAt, RecordFields
<1>3. txs'[rec[s].at].recorded
    BY <1>1, <1>2, RecordFields DEF RowsTyped
<1> DEFINE y == [scanner[s] EXCEPT !.todo = @ \ {rec[s].at}]
<1>4. scanner' = [scanner EXCEPT ![s] = y] /\ scanner[s].pc = "scan"
    BY <1>2, RecordAt DEF RecordCryptoTransfer
<1>5. scanner[s] \in ScannerType
    BY <1>1
<1>6. /\ y \in ScannerType /\ y.ready = scanner[s].ready /\ y.to = scanner[s].to
      /\ y.todo = scanner[s].todo \ {rec[s].at} /\ y.gap = scanner[s].gap
    BY <1>5 DEF ScannerType
<1> HIDE DEF y
<1>7. Goes(s)
    BY <1>1, <1>3, <1>4, <1>6 DEF Goes
<1> QED
    BY <1>1, <1>3, <1>4, <1>6, <1>7, OneScanner

LEMMA ScannersSound ==
    ASSUME CryptoInvariant, [Next]_vars
    PROVE  AllSound
<1>1. scanner \in [Scanners -> ScannerType] /\ tx \in [Workers -> TxType]
    BY DEF CryptoInvariant, TypeOK
<1>2. Ready \subseteq Orders \X Transfers
    BY DEF Ready
<1>3. ASSUME scanner' = scanner PROVE AllSound
    BY <1>1, <1>3 DEF AllSound, Sound, Goes
<1>5. ASSUME NEW s \in Scanners,
             UpsertCryptoScannerState(s) \/ ScanFails(s) \/ TickEnds(s) \/ Crash(s)
      PROVE  AllSound
    <2>1. CASE scanner' = [scanner EXCEPT ![s] = [IdleScanner EXCEPT !.pc = "complete", !.ready = Ready]]
        <3> DEFINE y == [IdleScanner EXCEPT !.pc = "complete", !.ready = Ready]
        <3>1. y \in ScannerType /\ y.ready = Ready /\ y.pc = "complete"
            BY <1>2, Constants DEF ScannerType
        <3>2. scanner' = [scanner EXCEPT ![s] = y]
            BY <2>1
        <3> HIDE DEF y
        <3> QED
            BY <1>1, <3>1, <3>2, OneScanner
    <2>2. CASE scanner' = [scanner EXCEPT ![s] = IdleScanner]
        BY <1>1, <2>2, Constants, OneScanner
    <2> QED
        BY <1>5, <2>1, <2>2, Zenon DEF UpsertCryptoScannerState, ScanFails, TickEnds, Crash
<1>6. ASSUME NEW s \in Scanners, NEW gone,
             scanner' = [scanner EXCEPT ![s].ready = @ \ gone]
      PROVE  AllSound
    <2> DEFINE y == [scanner[s] EXCEPT !.ready = @ \ gone]
    <2>0. scanner[s] \in ScannerType
        BY <1>1
    <2>1. /\ y \in ScannerType /\ y.ready = scanner[s].ready \ gone /\ y.pc = scanner[s].pc
          /\ y.to = scanner[s].to /\ y.todo = scanner[s].todo /\ y.gap = scanner[s].gap
        BY <2>0 DEF ScannerType
    <2>2. scanner' = [scanner EXCEPT ![s] = y]
        BY <1>6
    <2> HIDE DEF y
    <2>3. y.pc = "scan" => Goes(s)
        BY <1>1, <2>1, <2>2 DEF Goes
    <2> QED
        BY <1>1, <2>1, <2>2, <2>3, OneScanner
<1>7. ASSUME NEW s \in Scanners, NEW o \in Orders, NEW x \in Transfers, SkipReady(s, o, x)
      PROVE  AllSound
    BY <1>6, <1>7 DEF SkipReady
<1>8. ASSUME NEW w \in Workers, CompleteCommit(w)
      PROVE  AllSound
    BY <1>3, <1>6, <1>8 DEF CompleteCommit, Done
<1>9. ASSUME NEW w \in Workers, CompleteFails(w)
      PROVE  AllSound
    <2>1. CASE w \in Scanners
        <3>1. scanner' = [scanner EXCEPT ![w].ready = {}]
            BY <1>9, <2>1 DEF CompleteFails
        <3>2. scanner' = [scanner EXCEPT ![w].ready = @ \ scanner[w].ready]
            BY <3>1
        <3> QED
            BY <1>6, <2>1, <3>2
    <2> QED
        BY <1>3, <1>9, <2>1 DEF CompleteFails
<1>10. ASSUME \/ NewBlock \/ LockExpires \/ UNCHANGED vars
              \/ \E x \in Transfers, o \in Orders : Pay(x, o)
              \/ \E o \in Orders : CreateCryptoTopUpOrder(o)
              \/ \E o \in Orders, a \in Amounts : ChooseAmount(o, a)
              \/ \E r \in Readers, o \in Orders : GetCryptoTopUpOrder(r, o)
              \/ \E r \in Readers : ExpireCryptoPaymentOrder(r)
              \/ \E s \in Scanners, x \in Transfers : ReadTransfer(s, x)
              \/ \E s \in Scanners : FindOrders(s)
              \/ \E s \in Scanners, o \in Orders, x \in Transfers : CompleteReady(s, o, x)
              \/ \E a \in Admins, o \in Orders, x \in Transfers : AdminCompleteCryptoTopUp(a, o, x)
       PROVE  scanner' = scanner
    BY <1>10 DEF ReadTransfer, FindOrders, NewBlock, LockExpires, vars, Pay, CreateCryptoTopUpOrder, ChooseAmount,
        GetCryptoTopUpOrder, ExpireCryptoPaymentOrder, CompleteReady, CompleteBegin,
        AdminCompleteCryptoTopUp
<1> QED
    BY <1>3, <1>5, <1>7, <1>8, <1>9, <1>10, Steps, ScanOnceSound, RecordSound, Zenon
-----------------------------------------------------------------------------
(***************************************************************************)
(* Completions.                                                            *)
(***************************************************************************)

\* A completion begins on an order that exists; a scanner has read it as ready.
Begun(w, o, x) ==
    /\ Past(o)
    /\ w \in Scanners => <<o, x>> \in scanner[w].ready
    /\ CompleteBegin(w, o, x)

LEMMA TxSteps ==
    ASSUME CryptoInvariant, [Next]_vars
    PROVE  \/ tx' = tx
           \/ \E w \in Workers : tx' = [tx EXCEPT ![w] = NoTx]
           \/ \E w \in Workers, o \in Orders, x \in Transfers : Begun(w, o, x)
<1>1. ASSUME \/ NewBlock \/ LockExpires \/ UNCHANGED vars
             \/ \E x \in Transfers, o \in Orders : Pay(x, o)
             \/ \E o \in Orders : CreateCryptoTopUpOrder(o)
             \/ \E o \in Orders, a \in Amounts : ChooseAmount(o, a)
             \/ \E r \in Readers, o \in Orders : GetCryptoTopUpOrder(r, o)
             \/ \E r \in Readers : ExpireCryptoPaymentOrder(r)
             \/ \E s \in Scanners : RecordCryptoTransfer(s) \/ FindOrders(s)
             \/ \E s \in Scanners, x \in Transfers : ReadTransfer(s, x)
             \/ \E s \in Scanners : UpsertCryptoScannerState(s)
             \/ \E s \in Scanners : \/ ScanOnce(s) \/ ScanFails(s) \/ TickEnds(s)
                                    \/ \E o \in Orders, x \in Transfers : SkipReady(s, o, x)
      PROVE  tx' = tx
    BY <1>1 DEF NewBlock, LockExpires, vars, Pay, CreateCryptoTopUpOrder, ChooseAmount,
        GetCryptoTopUpOrder, ExpireCryptoPaymentOrder, RecordCryptoTransfer, FindOrders,
        ReadTransfer, UpsertCryptoScannerState, ScanOnce, ScanFails, TickEnds, SkipReady
<1>2. ASSUME NEW w \in Workers, CompleteCommit(w) \/ CompleteFails(w) \/ Crash(w)
      PROVE  tx' = [tx EXCEPT ![w] = NoTx]
    BY <1>2, Zenon DEF CompleteCommit, Done, CompleteFails, Crash
<1>3. ASSUME NEW s \in Scanners, NEW o \in Orders, NEW x \in Transfers, CompleteReady(s, o, x)
      PROVE  Begun(s, o, x)
    BY <1>3 DEF Begun, CompleteReady, CryptoInvariant, ReadyOK
<1>4. ASSUME NEW a \in Admins, NEW o \in Orders, NEW x \in Transfers,
             AdminCompleteCryptoTopUp(a, o, x)
      PROVE  Begun(a, o, x)
    BY <1>4, CryptoAssumption DEF Begun, AdminCompleteCryptoTopUp, Past
<1>5. Scanners \subseteq Workers /\ Admins \subseteq Workers
    BY DEF Workers
<1> QED
    BY <1>1, <1>2, <1>3, <1>4, <1>5, Steps, Zenon

LEMMA BeginFields ==
    ASSUME CryptoInvariant, NEW w \in Workers, NEW o \in Orders, NEW x \in Transfers,
           CompleteBegin(w, o, x)
    PROVE  /\ tx' \in [Workers -> TxType]
           /\ \A v \in Workers : v # w => tx'[v] = tx[v]
           /\ tx'[w].order = o /\ tx'[w].transfer = x /\ tx'[w].row = orders[o]
           /\ tx'[w].paid => topups[o] = "success"
           /\ ~tx'[w].paid => topups[o] # "success"
           /\ UNCHANGED <<transfers, orders, topups, txs, scanner, rec, credits>>
<1>1. tx \in [Workers -> TxType] /\ orders[o] \in OrderType /\ txs[x].recorded \in BOOLEAN
    BY DEF CryptoInvariant, TypeOK, TxRowType
<1>2. (topups[o] = "success") \in BOOLEAN
    OBVIOUS
<1>3. PICK p \in BOOLEAN : p = (topups[o] = "success")
    BY <1>2, Zenon
<1>4. (p => topups[o] = "success") /\ (~p => topups[o] # "success")
    BY <1>3, Zenon
<1>5. PICK k \in BOOLEAN : k = txs[x].recorded
    BY <1>1, Zenon
<1> DEFINE y == [order |-> o, transfer |-> x, row |-> orders[o], paid |-> p, known |-> k]
<1>6. tx' = [tx EXCEPT ![w] = y]
    BY <1>3, <1>5, Zenon DEF CompleteBegin
<1>7. y \in TxType /\ y.order = o /\ y.transfer = x /\ y.row = orders[o] /\ y.paid = p
    BY <1>1 DEF TxType
<1> HIDE DEF y
<1>8. /\ tx' \in [Workers -> TxType] /\ tx'[w] = y
      /\ \A v \in Workers : v # w => tx'[v] = tx[v]
    BY <1>1, <1>6, <1>7
<1>9. (tx'[w].paid => topups[o] = "success") /\ (~tx'[w].paid => topups[o] # "success")
    BY <1>4, <1>7, <1>8, Zenon
<1>10. UNCHANGED <<transfers, orders, topups, txs, scanner, rec, credits>>
    BY DEF CompleteBegin
<1> QED
    BY <1>7, <1>8, <1>9, <1>10

LEMMA TxsKeep ==
    ASSUME CryptoInvariant, [Next]_vars
    PROVE  tx' \in [Workers -> TxType] /\ TxsOK'
<1>1. tx \in [Workers -> TxType] /\ Stable
    BY AllStable DEF CryptoInvariant, TypeOK
<1>2. ASSUME NEW v \in Workers, tx'[v] = tx[v]
      PROVE  TxOK(v)'
    <2>0. SUFFICES ASSUME tx[v].order # None PROVE TxOK(v)'
        BY <1>2 DEF TxOK
    <2>1. tx[v].order \in Orders
        BY <1>1, <2>0 DEF TxType
    <2>2. /\ tx[v].transfer # None /\ Past(tx[v].order)
          /\ tx[v].row.amount = orders[tx[v].order].amount
          /\ tx[v].row.expires = orders[tx[v].order].expires
        BY <2>0 DEF CryptoInvariant, TxsOK, TxOK, SameTerms
    <2> QED
        BY <1>1, <1>2, <2>1, <2>2 DEF Stable, TermsStay, TxOK, SameTerms, Past
<1>3. CASE tx' = tx
    BY <1>1, <1>2, <1>3 DEF TxsOK
<1>4. CASE \E w \in Workers : tx' = [tx EXCEPT ![w] = NoTx]
    <2>1. PICK w \in Workers : tx' = [tx EXCEPT ![w] = NoTx]
        BY <1>4
    <2>2. /\ tx' \in [Workers -> TxType] /\ tx'[w].order = None
          /\ \A v \in Workers : v # w => tx'[v] = tx[v]
        BY <1>1, <2>1, Constants
    <2>3. TxOK(w)'
        BY <2>2 DEF TxOK
    <2> QED
        BY <1>2, <2>2, <2>3 DEF TxsOK
<1>5. CASE \E w \in Workers, o \in Orders, x \in Transfers : Begun(w, o, x)
    <2>1. PICK w \in Workers, o \in Orders, x \in Transfers : Begun(w, o, x)
        BY <1>5
    <2>2. CompleteBegin(w, o, x) /\ Past(o)
        BY <2>1 DEF Begun
    <2>3. /\ tx' \in [Workers -> TxType]
          /\ \A v \in Workers : v # w => tx'[v] = tx[v]
          /\ tx'[w].order = o /\ tx'[w].transfer = x /\ tx'[w].row = orders[o]
          /\ orders' = orders
        BY <2>2, BeginFields
    <2>4. TxOK(w)'
        BY <2>2, <2>3, CryptoAssumption DEF TxOK, SameTerms, Past
    <2> QED
        BY <1>2, <2>3, <2>4 DEF TxsOK
<1> QED
    BY <1>3, <1>4, <1>5, TxSteps
-----------------------------------------------------------------------------
(***************************************************************************)
(* The status page.                                                        *)
(***************************************************************************)

ViewType == [order : Orders \cup {None}, row : OrderType, done : BOOLEAN]

LEMMA ViewsKeep ==
    ASSUME CryptoInvariant, [Next]_vars
    PROVE  view' \in [Readers -> ViewType] /\ ViewsOK'
<1>1. view \in [Readers -> ViewType] /\ Stable
    BY AllStable DEF CryptoInvariant, TypeOK, ViewType
<1>2. ASSUME NEW q \in Readers, view'[q] = view[q]
      PROVE  ViewOK(q)'
    <2>0. SUFFICES ASSUME view[q].order # None PROVE ViewOK(q)'
        BY <1>2 DEF ViewOK
    <2>1. view[q].order \in Orders
        BY <1>1, <2>0 DEF ViewType
    <2>2. /\ Past(view[q].order)
          /\ view[q].row.amount = orders[view[q].order].amount
          /\ view[q].row.expires = orders[view[q].order].expires
        BY <2>0 DEF CryptoInvariant, ViewsOK, ViewOK, SameTerms
    <2> QED
        BY <1>1, <1>2, <2>1, <2>2 DEF Stable, TermsStay, ViewOK, SameTerms, Past
<1>3. CASE \E r \in Readers, o \in Orders : GetCryptoTopUpOrder(r, o)
    <2>1. PICK r \in Readers, o \in Orders : GetCryptoTopUpOrder(r, o)
        BY <1>3
    <2> DEFINE y == [order |-> o, row |-> orders[o], done |-> FALSE]
    <2>2. /\ view' = [view EXCEPT ![r] = y] /\ orders' = orders /\ Past(o)
        BY <2>1 DEF GetCryptoTopUpOrder, Past
    <2>3. orders[o] \in OrderType
        BY DEF CryptoInvariant, TypeOK
    <2>4. y \in ViewType /\ y.order = o /\ y.row = orders[o]
        BY <2>3 DEF ViewType
    <2> HIDE DEF y
    <2>5. /\ view' \in [Readers -> ViewType] /\ view'[r] = y
          /\ \A q \in Readers : q # r => view'[q] = view[q]
        BY <1>1, <2>2, <2>4
    <2>6. ViewOK(r)'
        BY <2>2, <2>4, <2>5 DEF ViewOK, SameTerms, Past
    <2> QED
        BY <1>2, <2>5, <2>6 DEF ViewsOK
<1>4. CASE \E r \in Readers : ExpireCryptoPaymentOrder(r)
    <2>1. PICK r \in Readers : ExpireCryptoPaymentOrder(r)
        BY <1>4
    <2> DEFINE y == [order |-> None, row |-> NoOrder, done |-> TRUE]
    <2>2. view' = [view EXCEPT ![r] = y]
        BY <2>1 DEF ExpireCryptoPaymentOrder
    <2>3. y \in ViewType /\ y.order = None
        BY Constants DEF ViewType
    <2> HIDE DEF y
    <2>4. /\ view' \in [Readers -> ViewType] /\ view'[r] = y
          /\ \A q \in Readers : q # r => view'[q] = view[q]
        BY <1>1, <2>2, <2>3
    <2>5. ViewOK(r)'
        BY <2>3, <2>4 DEF ViewOK
    <2> QED
        BY <1>2, <2>4, <2>5 DEF ViewsOK
<1>5. CASE view' = view
    BY <1>1, <1>2, <1>5 DEF ViewsOK
<1>6. ASSUME NEW s \in Scanners,
             \/ ScanOnce(s) \/ ScanFails(s) \/ TickEnds(s) \/ Crash(s)
             \/ UpsertCryptoScannerState(s) \/ RecordCryptoTransfer(s) \/ FindOrders(s)
             \/ \E x \in Transfers : ReadTransfer(s, x)
             \/ \E o \in Orders, x \in Transfers : SkipReady(s, o, x) \/ CompleteReady(s, o, x)
      PROVE  view' = view
    BY <1>6 DEF ScanOnce, ScanFails, TickEnds, Crash, UpsertCryptoScannerState, SkipReady,
                ReadTransfer, FindOrders, RecordCryptoTransfer, CompleteReady, CompleteBegin
<1>7. ASSUME \/ NewBlock \/ LockExpires \/ UNCHANGED vars
             \/ \E x \in Transfers, o \in Orders : Pay(x, o)
             \/ \E o \in Orders : CreateCryptoTopUpOrder(o)
             \/ \E o \in Orders, a \in Amounts : ChooseAmount(o, a)
             \/ \E a \in Admins, o \in Orders, x \in Transfers : AdminCompleteCryptoTopUp(a, o, x)
             \/ \E w \in Workers : CompleteFails(w)
             \/ \E w \in Workers : CompleteCommit(w)
      PROVE  view' = view
    BY <1>7 DEF NewBlock, LockExpires, vars, Pay, CreateCryptoTopUpOrder, ChooseAmount,
                AdminCompleteCryptoTopUp, CompleteBegin, CompleteFails, CompleteCommit
<1> QED
    BY <1>3, <1>4, <1>5, <1>6, <1>7, Steps, Zenon
-----------------------------------------------------------------------------
(***************************************************************************)
(* The position and the scans.                                             *)
(***************************************************************************)

\* A new block gets its transfers before it is there to be scanned.
LEMMA NewTransfers ==
    ASSUME CryptoInvariant, [Next]_vars, NEW x \in Transfers, transfers'[x] # transfers[x]
    PROVE  transfers'[x].block > height /\ height' = height /\ lastScanned' = lastScanned
           /\ UNCHANGED <<scanner, gaps>>
<1>1. transfers \in [Transfers -> [amount : Amounts \cup {None}, block : Nat]] /\ height \in Nat
    BY DEF CryptoInvariant, TypeOK
<1>2. ASSUME NEW y \in Transfers, NEW o \in Orders, Pay(y, o)
      PROVE  transfers'[x].block > height /\ height' = height /\ lastScanned' = lastScanned
             /\ UNCHANGED <<scanner, gaps>>
    BY <1>1, <1>2 DEF Pay
<1>3. ASSUME \/ \E o \in Orders : CreateCryptoTopUpOrder(o)
             \/ \E o \in Orders, a \in Amounts : ChooseAmount(o, a)
             \/ \E r \in Readers : ExpireCryptoPaymentOrder(r)
             \/ \E s \in Scanners : RecordCryptoTransfer(s)
             \/ \E w \in Workers : CompleteCommit(w)
      PROVE  transfers' = transfers
    BY <1>3 DEF CreateCryptoTopUpOrder, ChooseAmount, ExpireCryptoPaymentOrder,
                RecordCryptoTransfer, CompleteCommit
<1> QED
    BY <1>2, <1>3, Writers, Zenon

LEMMA PositionSteps ==
    ASSUME CryptoInvariant, [Next]_vars
    PROVE  /\ \/ height' = height /\ lastScanned' = lastScanned /\ gaps' = gaps
              \/ NewBlock
              \/ \E s \in Scanners : UpsertCryptoScannerState(s)
           /\ lock' \in Scanners \cup {None}
<1>1. lock \in Scanners \cup {None}
    BY DEF CryptoInvariant, TypeOK
<1>2. ASSUME NEW s \in Scanners,
             \/ ScanOnce(s) \/ ScanFails(s) \/ TickEnds(s) \/ Crash(s)
             \/ RecordCryptoTransfer(s) \/ FindOrders(s)
             \/ \E x \in Transfers : ReadTransfer(s, x)
             \/ \E o \in Orders, x \in Transfers : SkipReady(s, o, x) \/ CompleteReady(s, o, x)
      PROVE  /\ height' = height /\ lastScanned' = lastScanned /\ gaps' = gaps
             /\ lock' \in Scanners \cup {None}
    BY <1>1, <1>2 DEF ScanOnce, ScanFails, TickEnds, Crash, SkipReady,
                ReadTransfer, FindOrders, RecordCryptoTransfer, CompleteReady, CompleteBegin
<1>3. ASSUME \/ LockExpires \/ UNCHANGED vars
             \/ \E x \in Transfers, o \in Orders : Pay(x, o)
             \/ \E o \in Orders : CreateCryptoTopUpOrder(o)
             \/ \E o \in Orders, a \in Amounts : ChooseAmount(o, a)
             \/ \E r \in Readers, o \in Orders : GetCryptoTopUpOrder(r, o)
             \/ \E r \in Readers : ExpireCryptoPaymentOrder(r)
             \/ \E a \in Admins, o \in Orders, x \in Transfers : AdminCompleteCryptoTopUp(a, o, x)
             \/ \E w \in Workers : CompleteFails(w)
             \/ \E w \in Workers : CompleteCommit(w)
      PROVE  /\ height' = height /\ lastScanned' = lastScanned /\ gaps' = gaps
             /\ lock' \in Scanners \cup {None}
    BY <1>1, <1>3 DEF LockExpires, vars, Pay, CreateCryptoTopUpOrder, ChooseAmount,
                GetCryptoTopUpOrder, ExpireCryptoPaymentOrder,
                AdminCompleteCryptoTopUp, CompleteBegin, CompleteFails, CompleteCommit
<1>4. ASSUME NewBlock \/ \E s \in Scanners : UpsertCryptoScannerState(s)
      PROVE  lock' \in Scanners \cup {None}
    BY <1>1, <1>4 DEF NewBlock, UpsertCryptoScannerState
<1> QED
    BY <1>2, <1>3, <1>4, Steps, Zenon

\* The saved position is behind the chain, and everything up to it is recorded.
LEMMA PositionKeeps ==
    ASSUME CryptoInvariant, [Next]_vars
    PROVE  /\ height' \in 0 .. MaxHeight /\ lastScanned' \in 0 .. height'
           /\ height <= height' /\ ScannedIsRecorded'
           /\ gaps' \subseteq Nat /\ gaps \subseteq gaps'
<1>1. /\ height \in 0 .. MaxHeight /\ lastScanned \in 0 .. height /\ MaxHeight \in Nat
      /\ transfers \in [Transfers -> [amount : Amounts \cup {None}, block : Nat]]
      /\ gaps \subseteq Nat
    BY CryptoAssumption DEF CryptoInvariant, TypeOK
<1>2. Stable /\ RowsTyped'
    BY AllStable
<1>3. ASSUME lastScanned' = lastScanned, gaps' = gaps PROVE ScannedIsRecorded'
    <2>1. SUFFICES ASSUME NEW x \in Transfers, transfers'[x].block \in 1 .. lastScanned \ gaps
                   PROVE  txs'[x].recorded
        BY <1>3 DEF ScannedIsRecorded
    <2>2. transfers'[x] = transfers[x]
        BY <1>1, <2>1, NewTransfers
    <2>3. txs[x].recorded
        BY <2>1, <2>2 DEF CryptoInvariant, ScannedIsRecorded
    <2> QED
        BY <1>2, <2>3 DEF Stable, RecordsStay
<1>4. CASE height' = height /\ lastScanned' = lastScanned /\ gaps' = gaps
    BY <1>1, <1>3, <1>4
<1>5. CASE NewBlock
    BY <1>1, <1>3, <1>5 DEF NewBlock
<1>6. CASE \E s \in Scanners : UpsertCryptoScannerState(s)
    <2>1. PICK s \in Scanners : UpsertCryptoScannerState(s)
        BY <1>6
    <2>2. /\ scanner[s].pc = "scan" /\ scanner[s].todo = {} /\ lastScanned' = scanner[s].to
          /\ gaps' = gaps \cup scanner[s].gap
          /\ UNCHANGED <<height, transfers, txs>>
        BY <2>1 DEF UpsertCryptoScannerState, ScanEnds
    <2>3. /\ scanner[s].to \in 0 .. height
          /\ \A x \in Transfers : transfers[x].block \in 1 .. scanner[s].to =>
                txs[x].recorded \/ transfers[x].block \in gaps'
        BY <2>2 DEF CryptoInvariant, ScansOK, ScanOK
    <2>4. scanner[s].gap \subseteq Nat
        BY DEF CryptoInvariant, TypeOK, ScannerType
    <2>5. ScannedIsRecorded'
        BY <2>2, <2>3 DEF ScannedIsRecorded
    <2>6. gaps' \subseteq Nat /\ gaps \subseteq gaps'
        BY <1>1, <2>2, <2>4
    <2> QED
        BY <1>1, <2>2, <2>3, <2>5, <2>6
<1> QED
    BY <1>4, <1>5, <1>6, PositionSteps

LEMMA ScansKeep ==
    ASSUME CryptoInvariant, [Next]_vars
    PROVE  scanner' \in [Scanners -> ScannerType] /\ ScansOK'
<1>1. /\ height \in Nat /\ lastScanned \in 0 .. height
      /\ transfers \in [Transfers -> [amount : Amounts \cup {None}, block : Nat]]
      /\ scanner \in [Scanners -> ScannerType]
    BY DEF CryptoInvariant, TypeOK
<1>2. Stable /\ height' \in Nat /\ height <= height' /\ gaps \subseteq gaps'
    BY AllStable, PositionKeeps, CryptoAssumption
<1>3. \A t \in Scanners : Sound(t)
    BY ScannersSound DEF AllSound
<1>4. scanner' \in [Scanners -> ScannerType]
    BY ScannersSound DEF AllSound
<1>5. ASSUME NEW t \in Scanners, scanner'[t].pc = "scan"
      PROVE  /\ scanner'[t].to \in 0 .. height'
             /\ \A x \in scanner'[t].todo : transfers'[x].block > 0
             /\ \A x \in Transfers : transfers'[x].block \in 1 .. scanner'[t].to =>
                   \/ txs'[x].recorded \/ x \in scanner'[t].todo
                   \/ transfers'[x].block \in gaps' \cup scanner'[t].gap
    <2>1. CASE Fresh(t)
        <3>0. PICK from \in Nat : FreshFrom(t, from)
            BY <2>1 DEF Fresh
        <3>1. ToBlock(from) \in 0 .. height
            BY <1>1, <3>0, CryptoAssumption DEF FreshFrom, ToBlock, MaxSafe
        <3>2. /\ scanner'[t].to = ToBlock(from) /\ scanner'[t].todo = InBlocks(from, ToBlock(from))
              /\ scanner'[t].gap = lastScanned + 1 .. from - 1
              /\ UNCHANGED <<height, transfers, txs, gaps>>
            BY <2>1, <3>0 DEF Fresh, FreshFrom
        <3>3. ASSUME NEW x \in Transfers, transfers[x].block \in 1 .. ToBlock(from)
              PROVE  \/ txs[x].recorded \/ x \in InBlocks(from, ToBlock(from))
                     \/ transfers[x].block \in gaps \cup (lastScanned + 1 .. from - 1)
            <4>1. transfers[x] # NoTransfer
                BY <1>1, <3>1, <3>3, Constants
            <4>2. CASE transfers[x].block <= lastScanned
                BY <1>1, <3>1, <3>3, <4>2 DEF CryptoInvariant, ScannedIsRecorded
            <4>3. CASE transfers[x].block > lastScanned
                BY <1>1, <3>1, <3>3, <4>1, <4>3 DEF InBlocks
            <4> QED
                BY <1>1, <4>2, <4>3
        <3>4. ASSUME NEW x \in InBlocks(from, ToBlock(from)) PROVE transfers[x].block > 0
            BY <3>4 DEF InBlocks, CryptoInvariant, ChainOK
        <3> QED
            BY <3>1, <3>2, <3>3, <3>4
    <2>2. CASE Goes(t)
        <3>1. /\ scanner[t].pc = "scan" /\ scanner'[t].to = scanner[t].to
              /\ scanner'[t].gap = scanner[t].gap /\ scanner'[t].todo \subseteq scanner[t].todo
              /\ \A x \in scanner[t].todo : x \in scanner'[t].todo \/ txs'[x].recorded
            BY <2>2 DEF Goes
        <3>2. /\ scanner[t].to \in 0 .. height
              /\ \A x \in scanner[t].todo : transfers[x].block > 0
              /\ \A x \in Transfers : transfers[x].block \in 1 .. scanner[t].to =>
                    \/ txs[x].recorded \/ x \in scanner[t].todo
                    \/ transfers[x].block \in gaps \cup scanner[t].gap
            BY <3>1 DEF CryptoInvariant, ScansOK, ScanOK
        <3>3. scanner[t].todo \subseteq Transfers
            BY <1>1 DEF ScannerType
        <3>4. \A x \in scanner'[t].todo : transfers'[x].block > 0
            BY <1>2, <3>1, <3>2, <3>3 DEF Stable, ChainStays
        <3>5. ASSUME NEW x \in Transfers, transfers'[x].block \in 1 .. scanner'[t].to
              PROVE  \/ txs'[x].recorded \/ x \in scanner'[t].todo
                     \/ transfers'[x].block \in gaps' \cup scanner'[t].gap
            <4>1. transfers'[x] = transfers[x]
                BY <1>1, <3>1, <3>2, <3>5, NewTransfers
            <4> QED
                BY <1>2, <3>1, <3>2, <3>5, <4>1 DEF Stable, RecordsStay
        <3>6. scanner'[t].to \in 0 .. height'
            BY <1>1, <1>2, <3>1, <3>2
        <3> QED
            BY <3>4, <3>5, <3>6
    <2> QED
        BY <1>3, <1>5, <2>1, <2>2 DEF Sound
<1> QED
    BY <1>4, <1>5 DEF ScansOK, ScanOK
-----------------------------------------------------------------------------
(***************************************************************************)
(* The rows of top_ups and of the transfers.                               *)
(***************************************************************************)

\* What a commit writes, in one place.
LEMMA CommitFields ==
    ASSUME CryptoInvariant, NEW w \in Workers, CompleteCommit(w)
    PROVE  /\ tx[w].order \in Orders /\ tx[w].transfer \in Transfers /\ Past(tx[w].order)
           /\ \A o \in Orders : o # tx[w].order => orders'[o] = orders[o]
           /\ orders'[tx[w].order].status = "success"
           /\ \/ tx[w].paid /\ UNCHANGED <<topups, txs, credits>>
              \/ /\ ~tx[w].paid
                 /\ topups' = [topups EXCEPT ![tx[w].order] = "success"]
                 /\ txs' = [txs EXCEPT ![tx[w].transfer] =
                              [recorded |-> TRUE, order |-> tx[w].order]]
                 /\ \A o \in Orders : o # tx[w].order => credits'[o] = credits[o]
                 /\ credits'[tx[w].order].count = credits[tx[w].order].count + 1
                 /\ credits'[tx[w].order].transfer = tx[w].transfer
                 /\ credits'[tx[w].order].auto => w \in Scanners
<1> DEFINE o == tx[w].order
<1> DEFINE x == tx[w].transfer
<1>1. RowsTyped /\ tx[w] \in TxType /\ o # None
    BY DEF CryptoInvariant, TypeOK, RowsTyped, TxRowType, CompleteCommit
<1>2. o \in Orders /\ x \in Transfers /\ Past(o) /\ tx[w].row \in OrderType
    BY <1>1 DEF CryptoInvariant, TxsOK, TxOK, TxType
<1>3. PICK row \in OrderType : orders' = [orders EXCEPT ![o] = row] /\ row.status = "success"
    <2> DEFINE r1 == [tx[w].row EXCEPT !.status = "success"]
    <2> DEFINE r2 == [tx[w].row EXCEPT !.status = "success", !.matched = x]
    <2>1. r1 \in OrderType /\ r1.status = "success" /\ r2 \in OrderType /\ r2.status = "success"
        BY <1>2 DEF OrderType, OrderStatus
    <2>2. orders' = [orders EXCEPT ![o] = r1] \/ orders' = [orders EXCEPT ![o] = r2]
        BY Zenon DEF CompleteCommit
    <2> HIDE DEF r1, r2
    <2> QED
        BY <2>1, <2>2
<1>4. /\ \A q \in Orders : q # o => orders'[q] = orders[q]
      /\ orders'[o].status = "success"
    BY <1>1, <1>2, <1>3 DEF RowsTyped
<1>5. PICK b \in BOOLEAN : b = (w \in Scanners)
    <2>1. (w \in Scanners) \in BOOLEAN
        OBVIOUS
    <2> QED
        BY <2>1, Zenon
<1>6. b => w \in Scanners
    BY <1>5, Zenon
<1> DEFINE credit == [count |-> credits[o].count + 1, transfer |-> x, auto |-> b]
<1>7. \/ tx[w].paid /\ UNCHANGED <<topups, txs, credits>>
      \/ /\ ~tx[w].paid
         /\ topups' = [topups EXCEPT ![o] = "success"]
         /\ txs' = [txs EXCEPT ![x] = [recorded |-> TRUE, order |-> o]]
         /\ credits' = [credits EXCEPT ![o] = credit]
    BY <1>5, Zenon DEF CompleteCommit
<1>8. credit.count = credits[o].count + 1 /\ credit.transfer = x /\ credit.auto = b
    OBVIOUS
<1> HIDE DEF credit
<1>9. ASSUME credits' = [credits EXCEPT ![o] = credit]
      PROVE  /\ \A q \in Orders : q # o => credits'[q] = credits[q]
             /\ credits'[o] = credit
    BY <1>1, <1>2, <1>9 DEF RowsTyped
<1>10. credit.auto => w \in Scanners
    BY <1>6, <1>8, Zenon
<1> QED
    BY <1>2, <1>4, <1>7, <1>8, <1>9, <1>10, Zenon

LEMMA TopUpsKeep ==
    ASSUME CryptoInvariant, [Next]_vars
    PROVE  TopUpsOK'
<1>1. RowsTyped /\ TermsStay /\ RowsTyped'
    BY AllStable DEF CryptoInvariant, TypeOK, RowsTyped, TxRowType, Stable
<1>2. ASSUME topups' = topups PROVE TopUpsOK'
    BY <1>1, <1>2 DEF TopUpsOK, TermsStay, CryptoInvariant
<1>3. ASSUME NEW o \in Orders, CreateCryptoTopUpOrder(o) PROVE TopUpsOK'
    <2>1. /\ \A q \in Orders : q # o => topups'[q] = topups[q]
          /\ orders'[o].status = "pending"
        BY <1>1, <1>3 DEF CreateCryptoTopUpOrder, RowsTyped, OrderType
    <2>2. Past(o)'
        BY <2>1 DEF Past
    <2> QED
        BY <1>1, <2>1, <2>2 DEF TopUpsOK, TermsStay, CryptoInvariant
<1>4. ASSUME NEW w \in Workers, CompleteCommit(w) PROVE TopUpsOK'
    <2>1. /\ tx[w].order \in Orders /\ Past(tx[w].order)
          /\ topups' = topups \/ topups' = [topups EXCEPT ![tx[w].order] = "success"]
        BY <1>4, CommitFields
    <2>2. \A q \in Orders : q # tx[w].order => topups'[q] = topups[q]
        BY <1>1, <2>1 DEF RowsTyped
    <2> QED
        BY <1>1, <2>1, <2>2 DEF TopUpsOK, TermsStay, CryptoInvariant
<1>5. ASSUME \/ \E x \in Transfers, o \in Orders : Pay(x, o)
             \/ \E o \in Orders, a \in Amounts : ChooseAmount(o, a)
             \/ \E r \in Readers : ExpireCryptoPaymentOrder(r)
             \/ \E s \in Scanners : RecordCryptoTransfer(s)
      PROVE  topups' = topups
    BY <1>5 DEF Pay, ChooseAmount, ExpireCryptoPaymentOrder, RecordCryptoTransfer
<1> QED
    BY <1>2, <1>3, <1>4, <1>5, Writers, Zenon

LEMMA ChainKeeps ==
    ASSUME CryptoInvariant, [Next]_vars
    PROVE  ChainOK'
<1>1. ASSUME NEW x \in Transfers PROVE transfers'[x] = NoTransfer \/ transfers'[x].block > 0
    <2>1. height \in Nat /\ RowsTyped'
        BY AllStable DEF CryptoInvariant, TypeOK
    <2> QED
        BY <2>1, NewTransfers DEF CryptoInvariant, ChainOK, RowsTyped
<1> QED
    BY <1>1 DEF ChainOK

LEMMA MatchesKeep ==
    ASSUME CryptoInvariant, [Next]_vars
    PROVE  MatchesOK'
<1>1. RowsTyped
    BY DEF CryptoInvariant, TypeOK, RowsTyped, TxRowType
<1>2. ASSUME txs' = txs PROVE MatchesOK'
    BY <1>2 DEF MatchesOK, CryptoInvariant
<1>3. ASSUME NEW s \in Scanners, RecordCryptoTransfer(s)
      PROVE  MatchesOK'
    <2>1. PICK row : txs' = [txs EXCEPT ![rec[s].at] = row]
        BY <1>3, RecordFields
    <2>2. \A y \in Transfers : y # rec[s].at => txs'[y] = txs[y]
        BY <1>1, <2>1 DEF RowsTyped
    <2> QED
        BY <1>3, <2>2, RecordSound DEF MatchesOK, CryptoInvariant
<1>4. ASSUME NEW w \in Workers, CompleteCommit(w) PROVE MatchesOK'
    <2> DEFINE x == tx[w].transfer
    <2> DEFINE matched == [recorded |-> TRUE, order |-> tx[w].order]
    <2>1. x \in Transfers /\ (txs' = txs \/ txs' = [txs EXCEPT ![x] = matched])
        BY <1>4, CommitFields
    <2>2. matched.recorded
        OBVIOUS
    <2> HIDE DEF matched, x
    <2>3. \A y \in Transfers : txs'[y] = txs[y] \/ txs'[y] = matched
        BY <1>1, <2>1 DEF RowsTyped
    <2> QED
        BY <2>2, <2>3 DEF MatchesOK, CryptoInvariant
<1>5. ASSUME \/ \E x \in Transfers, o \in Orders : Pay(x, o)
             \/ \E o \in Orders : CreateCryptoTopUpOrder(o)
             \/ \E o \in Orders, a \in Amounts : ChooseAmount(o, a)
             \/ \E r \in Readers : ExpireCryptoPaymentOrder(r)
      PROVE  txs' = txs
    BY <1>5 DEF Pay, ChooseAmount, ExpireCryptoPaymentOrder, CreateCryptoTopUpOrder
<1> QED
    BY <1>2, <1>3, <1>4, <1>5, Writers, Zenon
-----------------------------------------------------------------------------
(***************************************************************************)
(* Ready orders and recordings.                                            *)
(***************************************************************************)

LEMMA ReadyKeeps ==
    ASSUME CryptoInvariant, [Next]_vars
    PROVE  ReadyOK'
<1>1. Stable
    BY AllStable
<1>2. ASSUME NEW s \in Scanners, NEW o \in Orders, NEW x \in Transfers,
             <<o, x>> \in scanner'[s].ready
      PROVE  Past(o)
    <2>1. <<o, x>> \in scanner[s].ready \cup Ready
        BY <1>2, ScannersSound DEF AllSound, Sound
    <2> QED
        BY <2>1 DEF Ready, Past, CryptoInvariant, ReadyOK
<1> QED
    BY <1>1, <1>2 DEF ReadyOK, Stable, TermsStay

LEMMA RecSteps ==
    ASSUME CryptoInvariant, [Next]_vars
    PROVE  \/ rec' = rec
           \/ \E s \in Scanners : rec' = [rec EXCEPT ![s] = NoRec]
           \/ \E s \in Scanners, x \in Transfers : ReadTransfer(s, x)
           \/ \E s \in Scanners : FindOrders(s)
<1>1. ASSUME \/ NewBlock \/ LockExpires \/ UNCHANGED vars
             \/ \E x \in Transfers, o \in Orders : Pay(x, o)
             \/ \E o \in Orders : CreateCryptoTopUpOrder(o)
             \/ \E o \in Orders, a \in Amounts : ChooseAmount(o, a)
             \/ \E r \in Readers, o \in Orders : GetCryptoTopUpOrder(r, o)
             \/ \E r \in Readers : ExpireCryptoPaymentOrder(r)
             \/ \E s \in Scanners : UpsertCryptoScannerState(s)
             \/ \E s \in Scanners, o \in Orders, x \in Transfers :
                   SkipReady(s, o, x) \/ CompleteReady(s, o, x)
             \/ \E s \in Scanners : ScanOnce(s) \/ TickEnds(s)
             \/ \E a \in Admins, o \in Orders, x \in Transfers : AdminCompleteCryptoTopUp(a, o, x)
             \/ \E w \in Workers : CompleteCommit(w) \/ CompleteFails(w)
      PROVE  rec' = rec
    BY <1>1 DEF NewBlock, LockExpires, vars, Pay, CreateCryptoTopUpOrder, ChooseAmount,
        GetCryptoTopUpOrder, ExpireCryptoPaymentOrder, UpsertCryptoScannerState, SkipReady,
        CompleteReady, CompleteBegin, ScanOnce, TickEnds, AdminCompleteCryptoTopUp,
        CompleteCommit, CompleteFails
<1>2. ASSUME NEW s \in Scanners, RecordCryptoTransfer(s) \/ ScanFails(s) \/ Crash(s)
      PROVE  rec' = [rec EXCEPT ![s] = NoRec]
    BY <1>2 DEF RecordCryptoTransfer, ScanFails, Crash
<1> QED
    BY <1>1, <1>2, Steps, Zenon

\* What the two reads of a recording copy.
LEMMA ReadFields ==
    ASSUME CryptoInvariant, NEW s \in Scanners, NEW x \in Transfers, ReadTransfer(s, x)
    PROVE  /\ rec' \in [Scanners -> RecType]
           /\ \A t \in Scanners : t # s => rec'[t] = rec[t]
           /\ rec'[s].at = x /\ rec'[s].row = txs[x] /\ rec'[s].found = {}
           /\ rec'[s].matching = rec[s].matching
           /\ scanner[s].pc = "scan" /\ x \in scanner[s].todo /\ rec[s].at = None /\ RowFree(x)
           /\ UNCHANGED <<transfers, orders, txs, scanner, tx>>
<1>1. rec \in [Scanners -> RecType] /\ txs[x] \in TxRowType
    BY DEF CryptoInvariant, TypeOK
<1>2. rec[s] \in RecType
    BY <1>1
<1> DEFINE y == [rec[s] EXCEPT !.at = x, !.row = txs[x]]
<1>3. rec' = [rec EXCEPT ![s] = y]
    BY DEF ReadTransfer
<1>4. /\ y \in RecType /\ y.at = x /\ y.row = txs[x] /\ y.found = rec[s].found
      /\ y.matching = rec[s].matching
    BY <1>1, <1>2 DEF RecType
<1> HIDE DEF y
<1>5. /\ rec' \in [Scanners -> RecType] /\ rec'[s] = y
      /\ \A t \in Scanners : t # s => rec'[t] = rec[t]
    BY <1>1, <1>3, <1>4
<1>6. rec[s].found = {}
    BY DEF ReadTransfer, CryptoInvariant, RecsOK, RecOK
<1> QED
    BY <1>4, <1>5, <1>6 DEF ReadTransfer

LEMMA FindFields ==
    ASSUME CryptoInvariant, NEW s \in Scanners, FindOrders(s)
    PROVE  /\ rec' \in [Scanners -> RecType]
           /\ \A t \in Scanners : t # s => rec'[t] = rec[t]
           /\ rec'[s].at = rec[s].at /\ rec'[s].row = rec[s].row
           /\ rec'[s].found = Candidates(rec[s].at) /\ rec'[s].matching
           /\ rec[s].at # None /\ rec[s].row.order = None
           /\ \A o \in Candidates(rec[s].at) : /\ rec'[s].copy[o] = orders[o]
                                               /\ o \in Orders /\ Past(o) /\ Unlocked(o)
           /\ UNCHANGED <<transfers, orders, txs, scanner, tx>>
<1>1. rec \in [Scanners -> RecType] /\ orders \in [Orders -> OrderType]
    BY DEF CryptoInvariant, TypeOK
<1>2. rec[s] \in RecType
    BY <1>1
<1> DEFINE c == [o \in Orders |-> IF o \in Candidates(rec[s].at) THEN orders[o] ELSE NoOrder]
<1> DEFINE y == [rec[s] EXCEPT !.matching = TRUE, !.found = Candidates(rec[s].at), !.copy = c]
<1>3. rec' = [rec EXCEPT ![s] = y]
    BY DEF FindOrders
<1>4. c \in [Orders -> OrderType]
    BY <1>1, Constants
<1>5. Candidates(rec[s].at) \subseteq Orders
    BY DEF Candidates
<1>6. \A o \in Candidates(rec[s].at) : c[o] = orders[o] /\ Past(o)
    BY <1>5 DEF Candidates, Past
<1> HIDE DEF c
<1>7. /\ y \in RecType /\ y.at = rec[s].at /\ y.row = rec[s].row /\ y.copy = c
      /\ y.found = Candidates(rec[s].at) /\ y.matching
    BY <1>2, <1>4, <1>5 DEF RecType
<1> HIDE DEF y
<1>8. /\ rec' \in [Scanners -> RecType] /\ rec'[s] = y
      /\ \A t \in Scanners : t # s => rec'[t] = rec[t]
    BY <1>1, <1>3, <1>7
<1> QED
    BY <1>5, <1>6, <1>7, <1>8 DEF FindOrders, AlreadyMatched

\* The state of a scanner changes under a recording only when that ends.
LEMMA RecGoesOn ==
    ASSUME CryptoInvariant, [Next]_vars, NEW s \in Scanners, rec[s].at # None,
           rec'[s].at = rec[s].at
    PROVE  scanner'[s].pc = "scan" /\ rec[s].at \in scanner'[s].todo
<1>0. /\ scanner \in [Scanners -> ScannerType] /\ rec \in [Scanners -> RecType]
      /\ tx \in [Workers -> TxType]
    BY DEF CryptoInvariant, TypeOK
<1>1. scanner[s].pc = "scan" /\ rec[s].at \in scanner[s].todo
    BY RecordAt
<1>2. ASSUME scanner'[s].pc = scanner[s].pc, scanner'[s].todo = scanner[s].todo
      PROVE  scanner'[s].pc = "scan" /\ rec[s].at \in scanner'[s].todo
    BY <1>1, <1>2
<1>3. ASSUME NEW u \in Scanners, RecordCryptoTransfer(u) \/ ScanFails(u) \/ Crash(u)
      PROVE  scanner'[s] = scanner[s]
    <2>1. rec' = [rec EXCEPT ![u] = NoRec]
        BY <1>3 DEF RecordCryptoTransfer, ScanFails, Crash
    <2>2. u # s
        BY <1>0, <2>1, Constants
    <2> QED
        BY <1>0, <1>3, <2>2 DEF RecordCryptoTransfer, ScanFails, Crash
<1>4. ASSUME NEW u \in Scanners, UpsertCryptoScannerState(u) \/ ScanOnce(u) \/ TickEnds(u)
      PROVE  scanner'[s] = scanner[s]
    <2>1. u # s
        BY <1>1, <1>4 DEF UpsertCryptoScannerState, ScanEnds, ScanOnce, TickEnds
    <2> QED
        BY <1>0, <1>4, <2>1 DEF UpsertCryptoScannerState, ScanOnce, TickEnds
<1>5. ASSUME NEW u \in Scanners, NEW gone, scanner' = [scanner EXCEPT ![u].ready = gone]
      PROVE  scanner'[s].pc = scanner[s].pc /\ scanner'[s].todo = scanner[s].todo
    BY <1>0, <1>5 DEF ScannerType
<1>6. ASSUME NEW u \in Scanners, NEW o \in Orders, NEW x \in Transfers, SkipReady(u, o, x)
      PROVE  scanner'[s].pc = scanner[s].pc /\ scanner'[s].todo = scanner[s].todo
    BY <1>5, <1>6 DEF SkipReady
<1>7. ASSUME NEW w \in Workers, CompleteCommit(w) \/ CompleteFails(w)
      PROVE  scanner'[s].pc = scanner[s].pc /\ scanner'[s].todo = scanner[s].todo
    <2>1. CASE scanner' = scanner
        BY <2>1
    <2>2. CASE w \in Scanners
        <3>1. \E gone : scanner' = [scanner EXCEPT ![w].ready = gone]
            BY <1>7, <2>2, Zenon DEF CompleteCommit, CompleteFails, Done
        <3> QED
            BY <1>5, <2>2, <3>1
    <2> QED
        BY <1>7, <2>1, <2>2, Zenon DEF CompleteCommit, CompleteFails, Done
<1>8. ASSUME \/ NewBlock \/ LockExpires \/ UNCHANGED vars
             \/ \E x \in Transfers, o \in Orders : Pay(x, o)
             \/ \E o \in Orders : CreateCryptoTopUpOrder(o)
             \/ \E o \in Orders, a \in Amounts : ChooseAmount(o, a)
             \/ \E r \in Readers, o \in Orders : GetCryptoTopUpOrder(r, o)
             \/ \E r \in Readers : ExpireCryptoPaymentOrder(r)
             \/ \E u \in Scanners, x \in Transfers : ReadTransfer(u, x)
             \/ \E u \in Scanners : FindOrders(u)
             \/ \E u \in Scanners, o \in Orders, x \in Transfers : CompleteReady(u, o, x)
             \/ \E a \in Admins, o \in Orders, x \in Transfers : AdminCompleteCryptoTopUp(a, o, x)
      PROVE  scanner' = scanner
    BY <1>8 DEF ReadTransfer, FindOrders, NewBlock, LockExpires, vars, Pay,
        CreateCryptoTopUpOrder, ChooseAmount, GetCryptoTopUpOrder, ExpireCryptoPaymentOrder,
        CompleteReady, CompleteBegin, AdminCompleteCryptoTopUp
<1> QED
    BY <1>2, <1>3, <1>4, <1>6, <1>7, <1>8, Steps, Zenon

LEMMA RecsKeep ==
    ASSUME CryptoInvariant, [Next]_vars
    PROVE  rec' \in [Scanners -> RecType] /\ RecsOK'
<1>1. rec \in [Scanners -> RecType] /\ Stable
    BY AllStable DEF CryptoInvariant, TypeOK
<1>2. ASSUME NEW t \in Scanners, rec'[t] = rec[t]
      PROVE  RecOK(t)'
    <2>1. rec[t] \in RecType
        BY <1>1
    <2>2. rec'[t].at # None => scanner'[t].pc = "scan" /\ rec'[t].at \in scanner'[t].todo
        BY <1>2, RecGoesOn
    <2>3. \A o \in rec[t].found : o \in Orders /\ Past(o) /\ SameTerms(rec[t].copy[o], o)
        BY <2>1 DEF RecType, CryptoInvariant, RecsOK, RecOK
    <2>4. \A o \in rec[t].found : Past(o)' /\ SameTerms(rec[t].copy[o], o)'
        BY <1>1, <1>2, <2>3 DEF Stable, TermsStay, SameTerms
    <2>5. rec[t].at = None => rec[t].found = {}
        BY DEF CryptoInvariant, RecsOK, RecOK
    <2> QED
        BY <1>2, <2>2, <2>4, <2>5 DEF RecOK, SameTerms
<1>3. CASE rec' = rec
    BY <1>1, <1>2, <1>3 DEF RecsOK
<1>4. ASSUME NEW s \in Scanners, rec' = [rec EXCEPT ![s] = NoRec]
      PROVE  rec' \in [Scanners -> RecType] /\ RecsOK'
    <2>1. /\ rec' \in [Scanners -> RecType] /\ rec'[s].at = None /\ rec'[s].found = {}
          /\ \A t \in Scanners : t # s => rec'[t] = rec[t]
        BY <1>1, <1>4, Constants
    <2>2. RecOK(s)'
        BY <2>1 DEF RecOK
    <2> QED
        BY <1>2, <2>1, <2>2 DEF RecsOK
<1>5. ASSUME NEW s \in Scanners, NEW x \in Transfers, ReadTransfer(s, x)
      PROVE  rec' \in [Scanners -> RecType] /\ RecsOK'
    <2>1. RecOK(s)'
        BY <1>5, ReadFields, CryptoAssumption DEF RecOK
    <2> QED
        BY <1>2, <1>5, <2>1, ReadFields DEF RecsOK
<1>6. ASSUME NEW s \in Scanners, FindOrders(s)
      PROVE  rec' \in [Scanners -> RecType] /\ RecsOK'
    <2>1. rec'[s].at # None /\ scanner'[s].pc = "scan" /\ rec'[s].at \in scanner'[s].todo
        BY <1>6, FindFields, RecordAt
    <2>2. ASSUME NEW o \in rec'[s].found
          PROVE  Past(o)' /\ SameTerms(rec[s].copy[o], o)'
        <3>1. orders' = orders /\ rec'[s].copy[o] = orders[o] /\ Past(o)
            BY <1>6, <2>2, FindFields
        <3> QED
            BY <3>1 DEF Past, SameTerms
    <2>3. RecOK(s)'
        BY <2>1, <2>2 DEF RecOK, SameTerms
    <2> QED
        BY <1>2, <1>6, <2>3, FindFields DEF RecsOK
<1> QED
    BY <1>3, <1>4, <1>5, <1>6, RecSteps
-----------------------------------------------------------------------------
LEMMA CreditsKeep ==
    ASSUME CryptoInvariant, [Next]_vars
    PROVE  CreditsNamed'
<1>1. ASSUME NEW w \in Workers, CompleteCommit(w) PROVE CreditsNamed'
    BY <1>1, CommitFields, CryptoAssumption DEF CreditsNamed, CryptoInvariant
<1>2. ASSUME credits' = credits PROVE CreditsNamed'
    BY <1>2 DEF CreditsNamed, CryptoInvariant
<1>3. ASSUME \/ \E y \in Transfers, q \in Orders : Pay(y, q)
             \/ \E q \in Orders : CreateCryptoTopUpOrder(q)
             \/ \E q \in Orders, a \in Amounts : ChooseAmount(q, a)
             \/ \E r \in Readers : ExpireCryptoPaymentOrder(r)
             \/ \E s \in Scanners : RecordCryptoTransfer(s)
      PROVE  credits' = credits
    BY <1>3 DEF Pay, ChooseAmount, ExpireCryptoPaymentOrder, CreateCryptoTopUpOrder,
                RecordCryptoTransfer
<1> QED
    BY <1>1, <1>2, <1>3, Writers, Zenon

LEMMA NextCrypto == CryptoInvariant /\ [Next]_vars => CryptoInvariant'
<1> SUFFICES ASSUME CryptoInvariant, [Next]_vars PROVE CryptoInvariant'
    OBVIOUS
<1>1. RowsTyped'
    BY AllStable
<1>2. tx' \in [Workers -> TxType] /\ TxsOK'
    BY TxsKeep
<1>3. view' \in [Readers -> ViewType] /\ ViewsOK'
    BY ViewsKeep
<1>4. scanner' \in [Scanners -> ScannerType] /\ ScansOK'
    BY ScansKeep
<1>5. /\ height' \in 0 .. MaxHeight /\ lastScanned' \in 0 .. height'
      /\ ScannedIsRecorded' /\ lock' \in Scanners \cup {None}
    BY PositionKeeps, PositionSteps
<1>6. rec' \in [Scanners -> RecType] /\ RecsOK' /\ gaps' \subseteq Nat
    BY RecsKeep, PositionKeeps
<1>7. TypeOK'
    BY <1>1, <1>2, <1>3, <1>4, <1>5, <1>6 DEF TypeOK, RowsTyped, TxRowType, ViewType
<1> QED
    BY <1>2, <1>3, <1>4, <1>5, <1>6, <1>7, ChainKeeps, TopUpsKeep, MatchesKeep, ReadyKeeps,
       CreditsKeep DEF CryptoInvariant

\* No transfer in a block up to the saved position is missing from the rows, with
\* overlapping, failing and crashing scans and without any row lock, unless a scan
\* that found no position passed its block over.
THEOREM NoTransferIsSkipped == Spec => []ScannedIsRecorded
<1>1. CryptoInvariant => ScannedIsRecorded
    BY DEF CryptoInvariant
<1> QED
    BY <1>1, InitCrypto, NextCrypto, PTL DEF Spec

-----------------------------------------------------------------------------
(***************************************************************************)
(* With reads that lock, an order is credited once.                        *)
(***************************************************************************)

\* Only a creation and a commit write to top_ups, and only a commit makes a credit.
LEMMA TopUpWriters ==
    ASSUME [Next]_vars
    PROVE  \/ UNCHANGED <<topups, credits>>
           \/ \E o \in Orders : CreateCryptoTopUpOrder(o)
           \/ \E w \in Workers : CompleteCommit(w)
<1>1. ASSUME \/ \E x \in Transfers, o \in Orders : Pay(x, o)
             \/ \E o \in Orders, a \in Amounts : ChooseAmount(o, a)
             \/ \E r \in Readers : ExpireCryptoPaymentOrder(r)
             \/ \E s \in Scanners : RecordCryptoTransfer(s)
      PROVE  UNCHANGED <<topups, credits>>
    BY <1>1 DEF Pay, ChooseAmount, ExpireCryptoPaymentOrder, RecordCryptoTransfer
<1>2. ASSUME UNCHANGED <<transfers, orders, topups, txs, credits>>
      PROVE  UNCHANGED <<topups, credits>>
    BY <1>2
<1> QED
    BY <1>1, <1>2, Writers, Zenon

LEMMA CreditedKeeps ==
    ASSUME CryptoInvariant, LockInvariant, [Next]_vars
    PROVE  CreditedOnce'
<1>1. RowsTyped
    BY DEF CryptoInvariant, TypeOK, RowsTyped, TxRowType
<1>2. CASE UNCHANGED <<topups, credits>>
    BY <1>2 DEF LockInvariant, CreditedOnce
<1>3. ASSUME NEW o \in Orders, CreateCryptoTopUpOrder(o) PROVE CreditedOnce'
    <2>1. topups[o] = "none"
        BY <1>3 DEF CreateCryptoTopUpOrder, CryptoInvariant, TopUpsOK, Past
    <2>2. topups' = [topups EXCEPT ![o] = "pending"] /\ credits' = credits
        BY <1>3 DEF CreateCryptoTopUpOrder
    <2> QED
        BY <1>1, <2>1, <2>2 DEF RowsTyped, LockInvariant, CreditedOnce
<1>4. ASSUME NEW w \in Workers, CompleteCommit(w) PROVE CreditedOnce'
    <2>1. CASE UNCHANGED <<topups, credits>>
        BY <2>1, <1>2
    <2>2. CASE ~tx[w].paid
        <3>1. /\ tx[w].order \in Orders
              /\ topups' = [topups EXCEPT ![tx[w].order] = "success"]
              /\ \A o \in Orders : o # tx[w].order => credits'[o] = credits[o]
              /\ credits'[tx[w].order].count = credits[tx[w].order].count + 1
            BY <1>4, <2>2, CommitFields
        <3>2. topups[tx[w].order] # "success"
            BY <2>2, <3>1, CryptoAssumption DEF LockInvariant, LocksOK
        <3>3. credits[tx[w].order].count = 0
            BY <3>1, <3>2 DEF LockInvariant, CreditedOnce
        <3> QED
            BY <1>1, <3>1, <3>3 DEF RowsTyped, LockInvariant, CreditedOnce
    <2> QED
        BY <1>4, <2>1, <2>2, CommitFields
<1> QED
    BY <1>2, <1>3, <1>4, TopUpWriters

\* A completion that goes on finds the order's top-up as it has read it.
LEMMA TopUpStays ==
    ASSUME CryptoInvariant, LockInvariant, [Next]_vars, NEW v \in Workers,
           tx'[v] = tx[v], tx[v].order # None
    PROVE  topups'[tx[v].order] = topups[tx[v].order]
<1>1. RowsTyped /\ tx \in [Workers -> TxType]
    BY DEF CryptoInvariant, TypeOK, RowsTyped, TxRowType
<1>2. tx[v].order \in Orders /\ Past(tx[v].order)
    BY <1>1 DEF TxType, CryptoInvariant, TxsOK, TxOK
<1>3. ASSUME NEW o \in Orders, CreateCryptoTopUpOrder(o)
      PROVE  topups'[tx[v].order] = topups[tx[v].order]
    BY <1>1, <1>2, <1>3 DEF CreateCryptoTopUpOrder, Past, RowsTyped
<1>4. ASSUME NEW w \in Workers, CompleteCommit(w)
      PROVE  topups'[tx[v].order] = topups[tx[v].order]
    <2>1. /\ tx[w].order \in Orders
          /\ topups' = topups \/ topups' = [topups EXCEPT ![tx[w].order] = "success"]
        BY <1>4, CommitFields
    <2>2. tx' = [tx EXCEPT ![w] = NoTx]
        BY <1>4, Zenon DEF CompleteCommit, Done
    <2>3. v # w
        BY <1>1, <1>2, <2>2, Constants, CryptoAssumption
    <2>4. tx[v].order # tx[w].order
        BY <2>1, <2>3, CryptoAssumption DEF LockInvariant, LocksOK
    <2> QED
        BY <1>1, <1>2, <2>1, <2>4 DEF RowsTyped
<1> QED
    BY <1>3, <1>4, TopUpWriters

LEMMA LocksKeep ==
    ASSUME LockingReads, CryptoInvariant, LockInvariant, [Next]_vars
    PROVE  LocksOK'
<1>1. tx \in [Workers -> TxType]
    BY DEF CryptoInvariant, TypeOK
<1>2. ASSUME NEW v \in Workers, tx'[v] = tx[v], tx'[v].order # None
      PROVE  /\ tx'[v].paid => topups'[tx'[v].order] = "success"
             /\ ~tx'[v].paid => topups'[tx'[v].order] # "success"
    BY <1>2, TopUpStays DEF LockInvariant, LocksOK
<1>3. ASSUME \A v \in Workers : tx'[v] = tx[v] \/ tx'[v].order = None
      PROVE  LocksOK'
    BY <1>2, <1>3 DEF LockInvariant, LocksOK
<1>4. CASE tx' = tx
    BY <1>3, <1>4
<1>5. ASSUME NEW w \in Workers, tx' = [tx EXCEPT ![w] = NoTx] PROVE LocksOK'
    BY <1>1, <1>3, <1>5, Constants
<1>6. ASSUME NEW w \in Workers, NEW o \in Orders, NEW x \in Transfers, Begun(w, o, x)
      PROVE  LocksOK'
    <2>1. CompleteBegin(w, o, x)
        BY <1>6 DEF Begun
    <2>2. /\ \A v \in Workers : v # w => tx'[v] = tx[v]
          /\ tx'[w].order = o
          /\ tx'[w].paid => topups[o] = "success"
          /\ ~tx'[w].paid => topups[o] # "success"
          /\ topups' = topups
        BY <2>1, BeginFields
    <2>3. \A v \in Workers : tx[v].order # o
        BY <2>1 DEF CompleteBegin, CanLock, Unlocked
    <2> QED
        BY <1>2, <2>2, <2>3 DEF LockInvariant, LocksOK
<1> QED
    BY <1>4, <1>5, <1>6, TxSteps

-----------------------------------------------------------------------------
(***************************************************************************)
(* Matches of the scanners.                                                *)
(***************************************************************************)

\* A row that is matched stays matched.
LEMMA MatchesStay ==
    ASSUME CryptoInvariant, LockInvariant, [Next]_vars, NEW x \in Transfers, txs[x].order # None
    PROVE  txs'[x].order # None
<1>1. RowsTyped
    BY DEF CryptoInvariant, TypeOK, RowsTyped, TxRowType
<1>2. ASSUME NEW s \in Scanners, RecordCryptoTransfer(s) PROVE txs'[x].order # None
    <2>1. PICK row : /\ txs' = [txs EXCEPT ![rec[s].at] = row] /\ rec[s].at # None
                     /\ row.order = rec[s].row.order \/ row.order # None
        BY <1>2, RecordFields
    <2>2. rec[s].row = txs[rec[s].at]
        BY <2>1 DEF LockInvariant, RecsHold, RecHolds
    <2>3. CASE x = rec[s].at
        BY <1>1, <2>1, <2>2, <2>3 DEF RowsTyped
    <2>4. CASE x # rec[s].at
        BY <1>1, <2>1, <2>4 DEF RowsTyped
    <2> QED
        BY <2>3, <2>4
<1>3. ASSUME NEW w \in Workers, CompleteCommit(w) PROVE txs'[x].order # None
    <2>1. /\ tx[w].order \in Orders /\ tx[w].transfer \in Transfers
          /\ \/ txs' = txs
             \/ txs' = [txs EXCEPT ![tx[w].transfer] = [recorded |-> TRUE, order |-> tx[w].order]]
        BY <1>3, CommitFields
    <2> QED
        BY <1>1, <2>1, CryptoAssumption DEF RowsTyped
<1>4. ASSUME \/ \E y \in Transfers, o \in Orders : Pay(y, o)
             \/ \E o \in Orders : CreateCryptoTopUpOrder(o)
             \/ \E o \in Orders, a \in Amounts : ChooseAmount(o, a)
             \/ \E r \in Readers : ExpireCryptoPaymentOrder(r)
      PROVE  txs' = txs
    BY <1>4 DEF Pay, ChooseAmount, ExpireCryptoPaymentOrder, CreateCryptoTopUpOrder
<1> QED
    BY <1>2, <1>3, <1>4, Writers, Zenon

\* The one step that gives a transfer to an order.
NewPair(o, x) ==
    /\ \E s \in Scanners : rec[s].at = x /\ rec[s].matching /\ InTime(s) = {o}
    /\ txs'[x].order # None

\* What a recording gives away is free, and in time for the order.
LEMMA NewPairs ==
    ASSUME CryptoInvariant, LockInvariant, NEW o \in Orders, NEW x \in Transfers, NewPair(o, x)
    PROVE  /\ txs[x].order = None /\ txs'[x].order # None
           /\ Past(o) /\ PaysInTime(o, x)
           /\ \A p \in Orders : NewPair(p, x) => p = o
<1>1. PICK s \in Scanners : rec[s].at = x /\ rec[s].matching /\ InTime(s) = {o}
    BY DEF NewPair
<1>2. x # None /\ txs'[x].order # None
    BY CryptoAssumption DEF NewPair
<1>3. txs[x].order = None
    BY <1>1, <1>2 DEF LockInvariant, RecsHold, RecHolds
<1>4. o \in InTime(s) /\ o \in rec[s].found
    BY <1>1 DEF InTime
<1>5. Past(o)
    BY <1>4 DEF CryptoInvariant, RecsOK, RecOK
<1>6. rec[s].copy[o] = orders[o] /\ orders[o].amount = transfers[x].amount
    BY <1>1, <1>4 DEF LockInvariant, RecsHold, RecHolds
<1>7. transfers[x].block > 0
    BY <1>1, <1>2, RecordAt
<1>8. orders[o].expires \in Nat /\ transfers[x].block \in Nat
    BY DEF CryptoInvariant, TypeOK, OrderType
<1>9. orders[o].expires >= transfers[x].block
    BY <1>1, <1>4, <1>6 DEF InTime
<1>10. PaysInTime(o, x)
    BY <1>6, <1>7, <1>8, <1>9 DEF PaysInTime
<1>11. ASSUME NEW p \in Orders, NewPair(p, x) PROVE p = o
    <2>1. PICK u \in Scanners : rec[u].at = x /\ rec[u].matching /\ InTime(u) = {p}
        BY <1>11 DEF NewPair
    <2>2. u = s
        BY <1>1, <1>2, <2>1 DEF LockInvariant, RecsHold, RecHolds
    <2> QED
        BY <1>1, <2>1, <2>2
<1> QED
    BY <1>2, <1>3, <1>5, <1>10, <1>11

LEMMA DetectedFrom ==
    ASSUME CryptoInvariant, LockInvariant, [Next]_vars, NEW o \in Orders, NEW x \in Transfers,
           orders'[o].status = "detected", orders'[o].matched = x
    PROVE  orders'[o] = orders[o] \/ NewPair(o, x)
<1>1. RowsTyped /\ orders[o] \in OrderType
    BY DEF CryptoInvariant, TypeOK, RowsTyped, TxRowType
<1>2. ASSUME NEW q \in Orders, NEW row \in OrderType, row.status # "detected",
             orders' = [orders EXCEPT ![q] = row]
      PROVE  orders'[o] = orders[o]
    BY <1>1, <1>2 DEF RowsTyped
<1>3. ASSUME NEW q \in Orders, CreateCryptoTopUpOrder(q) PROVE orders'[o] = orders[o]
    <2>1. orders[q] \in OrderType
        BY <1>1 DEF RowsTyped
    <2>2. orders'[q].status = "pending" /\ (o # q => orders'[o] = orders[o])
        BY <1>1, <1>3, <2>1 DEF CreateCryptoTopUpOrder, RowsTyped, OrderType
    <2> QED
        BY <2>2
<1>4. ASSUME NEW q \in Orders, NEW a \in Amounts, ChooseAmount(q, a)
      PROVE  orders'[o] = orders[o]
    <2>1. [NoOrder EXCEPT !.status = "creating", !.amount = a].status = "creating"
        BY Constants DEF OrderType
    <2>2. /\ orders'[q] = [NoOrder EXCEPT !.status = "creating", !.amount = a]
          /\ o # q => orders'[o] = orders[o]
        BY <1>1, <1>4 DEF ChooseAmount, RowsTyped
    <2> QED
        BY <2>1, <2>2
<1>5. ASSUME NEW r \in Readers, ExpireCryptoPaymentOrder(r) PROVE orders'[o] = orders[o]
    <2>1. view[r].row \in OrderType
        BY DEF CryptoInvariant, TypeOK
    <2>2. /\ orders' = [orders EXCEPT ![view[r].order] = [view[r].row EXCEPT !.status = "expired"]]
          /\ [view[r].row EXCEPT !.status = "expired"].status = "expired"
        BY <1>5, <2>1 DEF ExpireCryptoPaymentOrder, OrderType
    <2> QED
        BY <1>1, <2>2 DEF RowsTyped
<1>6. ASSUME NEW w \in Workers, CompleteCommit(w) PROVE orders'[o] = orders[o]
    BY <1>6, CommitFields
<1>7. ASSUME NEW s \in Scanners, RecordCryptoTransfer(s)
      PROVE  orders'[o] = orders[o] \/ NewPair(o, x)
    <2>1. rec[s].at # None
        BY <1>7 DEF RecordCryptoTransfer
    <2>2. /\ rec[s] \in RecType /\ rec[s].at \in Transfers
          /\ InTime(s) \subseteq Orders /\ TooLate(s) \subseteq Orders
        BY <2>1, RecordAt
    <2>3. CASE orders' = orders
        BY <2>3
    <2>4. CASE /\ rec[s].matching
               /\ \E q \in InTime(s) : InTime(s) = {q} /\ MatchWith(s, q, "detected")
        <3>1. PICK q \in InTime(s) : InTime(s) = {q} /\ MatchWith(s, q, "detected")
            BY <2>4
        <3>2. q \in Orders /\ rec[s].copy[q] \in OrderType
            BY <2>2 DEF RecType
        <3> DEFINE row == [rec[s].copy[q] EXCEPT !.status = "detected", !.matched = rec[s].at]
        <3>3. orders' = [orders EXCEPT ![q] = row] /\ row.matched = rec[s].at
            BY <3>1, <3>2 DEF MatchWith, OrderType
        <3>4. txs'[rec[s].at].order = q
            BY <1>1, <2>2, <3>1 DEF MatchWith, RowsTyped
        <3> HIDE DEF row
        <3>5. CASE o # q
            BY <1>1, <3>3, <3>5 DEF RowsTyped
        <3>6. CASE o = q
            <4>1. x = rec[s].at
                BY <1>1, <3>2, <3>3, <3>6 DEF RowsTyped
            <4> QED
                BY <2>4, <3>1, <3>2, <3>4, <3>6, <4>1, CryptoAssumption DEF NewPair
        <3> QED
            BY <3>5, <3>6
    <2>5. CASE orders' = [q \in Orders |-> IF q \in InTime(s)
                                           THEN [orders[q] EXCEPT !.status = "ambiguous"]
                                           ELSE orders[q]]
        <3>1. [orders[o] EXCEPT !.status = "ambiguous"].status = "ambiguous"
            BY <1>1 DEF OrderType
        <3> QED
            BY <2>5, <3>1
    <2>6. CASE \E q \in TooLate(s) : MatchWith(s, q, "late_paid")
        <3>1. PICK q \in TooLate(s) : MatchWith(s, q, "late_paid")
            BY <2>6
        <3>2. q \in Orders /\ rec[s].copy[q] \in OrderType
            BY <2>2 DEF RecType
        <3> DEFINE row == [rec[s].copy[q] EXCEPT !.status = "late_paid", !.matched = rec[s].at]
        <3>3. row \in OrderType /\ row.status = "late_paid"
            BY <2>2, <3>2 DEF OrderType, OrderStatus
        <3>4. orders' = [orders EXCEPT ![q] = row]
            BY <3>1 DEF MatchWith
        <3> HIDE DEF row
        <3> QED
            BY <1>2, <3>2, <3>3, <3>4
    <2> QED
        BY <1>7, <2>3, <2>4, <2>5, <2>6, Zenon DEF RecordCryptoTransfer
<1>8. ASSUME NEW y \in Transfers, NEW q \in Orders, Pay(y, q) PROVE orders'[o] = orders[o]
    BY <1>8 DEF Pay
<1> QED
    BY <1>3, <1>4, <1>5, <1>6, <1>7, <1>8, Writers, Zenon

LEMMA PairsFrom ==
    ASSUME CryptoInvariant, LockInvariant, [Next]_vars, NEW o \in Orders, NEW x \in Transfers,
           AutoPair(o, x)'
    PROVE  AutoPair(o, x) \/ NewPair(o, x)
<1>1. Scanners \subseteq Workers /\ None \notin Orders
    BY CryptoAssumption DEF Workers
<1>2. CASE orders'[o].status = "detected" /\ orders'[o].matched = x
    BY <1>2, DetectedFrom DEF AutoPair
<1>3. CASE \E s \in Scanners : <<o, x>> \in scanner'[s].ready
    <2>1. PICK s \in Scanners : <<o, x>> \in scanner[s].ready \cup Ready
        BY <1>3, ScannersSound DEF AllSound, Sound
    <2>2. CASE <<o, x>> \in Ready
        BY <2>2 DEF Ready, AutoPair
    <2> QED
        BY <2>1, <2>2 DEF AutoPair
<1>4. CASE \E s \in Scanners : tx'[s].order = o /\ tx'[s].transfer = x
    <2>1. PICK s \in Scanners : tx'[s].order = o /\ tx'[s].transfer = x
        BY <1>4
    <2>2. tx \in [Workers -> TxType] /\ s \in Workers
        BY <1>1 DEF CryptoInvariant, TypeOK
    <2>3. CASE tx'[s] = tx[s]
        BY <2>1, <2>3 DEF AutoPair
    <2>4. CASE tx'[s] # tx[s]
        <3>1. CASE \E w \in Workers : tx' = [tx EXCEPT ![w] = NoTx]
            <4>1. tx'[s] = NoTx
                BY <2>2, <2>4, <3>1
            <4> QED
                BY <1>1, <2>1, <4>1, Constants
        <3>2. CASE \E w \in Workers, q \in Orders, y \in Transfers : Begun(w, q, y)
            <4>1. PICK w \in Workers, q \in Orders, y \in Transfers : Begun(w, q, y)
                BY <3>2
            <4>2. /\ \A v \in Workers : v # w => tx'[v] = tx[v]
                  /\ tx'[w].order = q /\ tx'[w].transfer = y
                BY <4>1, BeginFields DEF Begun
            <4>3. w = s /\ q = o /\ y = x
                BY <2>1, <2>2, <2>4, <4>2
            <4> QED
                BY <4>1, <4>3 DEF Begun, AutoPair
        <3> QED
            BY <2>4, <3>1, <3>2, TxSteps
    <2> QED
        BY <2>3, <2>4
<1>5. CASE credits'[o].count > 0 /\ credits'[o].auto /\ credits'[o].transfer = x
    <2>1. ASSUME credits'[o] = credits[o] PROVE AutoPair(o, x)
        BY <1>5, <2>1 DEF AutoPair
    <2>2. ASSUME NEW w \in Workers, CompleteCommit(w) PROVE AutoPair(o, x)
        <3>1. CASE credits'[o] = credits[o]
            BY <2>1, <3>1
        <3>2. CASE credits'[o] # credits[o]
            <4>1. /\ o = tx[w].order /\ credits'[o].transfer = tx[w].transfer
                  /\ credits'[o].auto => w \in Scanners
                BY <2>2, <3>2, CommitFields
            <4> QED
                BY <1>5, <4>1 DEF AutoPair
        <3> QED
            BY <3>1, <3>2
    <2>3. ASSUME \/ \E y \in Transfers, q \in Orders : Pay(y, q)
                 \/ \E q \in Orders : CreateCryptoTopUpOrder(q)
                 \/ \E q \in Orders, a \in Amounts : ChooseAmount(q, a)
                 \/ \E r \in Readers : ExpireCryptoPaymentOrder(r)
                 \/ \E s \in Scanners : RecordCryptoTransfer(s)
          PROVE  credits' = credits
        BY <2>3 DEF Pay, ChooseAmount, ExpireCryptoPaymentOrder, CreateCryptoTopUpOrder,
                    RecordCryptoTransfer
    <2> QED
        BY <2>1, <2>2, <2>3, Writers, Zenon
<1> QED
    BY <1>2, <1>3, <1>4, <1>5 DEF AutoPair

LEMMA PairsKeep ==
    ASSUME CryptoInvariant, LockInvariant, [Next]_vars
    PROVE  PairsOK'
<1>1. Stable /\ RowsTyped /\ PairsOK
    BY AllStable DEF CryptoInvariant, TypeOK, RowsTyped, TxRowType, LockInvariant
<1>2. ASSUME NEW o \in Orders, NEW x \in Transfers, AutoPair(o, x) \/ NewPair(o, x)
      PROVE  /\ Past(o) /\ PaysInTime(o, x)
             /\ txs'[x].order # None
    <2>1. CASE AutoPair(o, x)
        BY <1>1, <2>1, MatchesStay DEF PairsOK
    <2>2. CASE NewPair(o, x)
        BY <2>2, NewPairs
    <2> QED
        BY <1>2, <2>1, <2>2
<1>3. ASSUME NEW o \in Orders, NEW x \in Transfers, AutoPair(o, x)'
      PROVE  Past(o)' /\ PaysInTime(o, x)' /\ txs'[x].order # None
    <2>1. Past(o) /\ PaysInTime(o, x) /\ txs'[x].order # None
        BY <1>2, <1>3, PairsFrom
    <2> QED
        BY <1>1, <2>1 DEF Stable, TermsStay, ChainStays, PaysInTime
<1>4. ASSUME NEW o \in Orders, NEW p \in Orders, NEW x \in Transfers,
             AutoPair(o, x)', AutoPair(p, x)'
      PROVE  p = o
    <2>1. AutoPair(o, x) \/ NewPair(o, x)
        BY <1>4, PairsFrom
    <2>2. AutoPair(p, x) \/ NewPair(p, x)
        BY <1>4, PairsFrom
    <2>3. CASE AutoPair(o, x) /\ AutoPair(p, x)
        BY <1>1, <2>3 DEF PairsOK
    <2>4. CASE NewPair(o, x) /\ NewPair(p, x)
        BY <2>4, NewPairs
    <2>5. ~(AutoPair(o, x) /\ NewPair(p, x)) /\ ~(AutoPair(p, x) /\ NewPair(o, x))
        BY <1>1, NewPairs DEF PairsOK
    <2> QED
        BY <2>1, <2>2, <2>3, <2>4, <2>5
<1> QED
    BY <1>3, <1>4 DEF PairsOK

\* What a recording holds does not change under it.
LEMMA HeldStays ==
    ASSUME LockingReads, CryptoInvariant, LockInvariant, [Next]_vars, NEW s \in Scanners,
           rec'[s] = rec[s]
    PROVE  /\ rec[s].at # None => txs'[rec[s].at] = txs[rec[s].at]
           /\ \A o \in rec[s].found : orders'[o] = orders[o]
<1>1. RowsTyped /\ rec[s] \in RecType
    BY DEF CryptoInvariant, TypeOK, RowsTyped, TxRowType
<1>2. /\ rec[s].at # None => rec[s].at \in Transfers
      /\ rec[s].found \subseteq Orders /\ \A o \in rec[s].found : Past(o)
    BY <1>1 DEF RecType, CryptoInvariant, RecsOK, RecOK
<1>3. ASSUME NEW u \in Scanners, RecordCryptoTransfer(u)
      PROVE  /\ rec[s].at # None => txs'[rec[s].at] = txs[rec[s].at]
             /\ \A o \in rec[s].found : orders'[o] = orders[o]
    <2>1. rec' = [rec EXCEPT ![u] = NoRec] /\ rec[u].at # None
        BY <1>3 DEF RecordCryptoTransfer
    <2>2. u # s
        BY <2>1, Constants DEF CryptoInvariant, TypeOK
    <2>3. PICK row : txs' = [txs EXCEPT ![rec[u].at] = row]
        BY <1>3, RecordFields
    <2>4. rec[s].at # None => rec[s].at # rec[u].at
        BY <2>2 DEF LockInvariant, RecsHold, RecHolds
    <2>5. \A o \in rec[s].found : o \notin rec[u].found
        BY <2>2 DEF LockInvariant, RecsHold, RecHolds
    <2>6. \A o \in rec[s].found : orders'[o] = orders[o]
        BY <1>2, <1>3, <2>5, RecordFields
    <2> QED
        BY <1>1, <1>2, <2>3, <2>4, <2>6 DEF RowsTyped
<1>4. ASSUME NEW w \in Workers, CompleteCommit(w)
      PROVE  /\ rec[s].at # None => txs'[rec[s].at] = txs[rec[s].at]
             /\ \A o \in rec[s].found : orders'[o] = orders[o]
    <2>1. /\ \A o \in Orders : o # tx[w].order => orders'[o] = orders[o]
          /\ tx[w].paid => txs' = txs
          /\ ~tx[w].paid => txs' = [txs EXCEPT ![tx[w].transfer] =
                                       [recorded |-> TRUE, order |-> tx[w].order]]
        BY <1>4, CommitFields
    <2>2. \A o \in rec[s].found : o # tx[w].order
        BY DEF LockInvariant, RecsHold, RecHolds
    <2>3. ~tx[w].paid => rec[s].at # tx[w].transfer
        BY <1>4, Zenon DEF CompleteCommit, RowFree
    <2>4. rec[s].at # None => txs'[rec[s].at] = txs[rec[s].at]
        BY <1>1, <1>2, <2>1, <2>3 DEF RowsTyped
    <2> QED
        BY <1>2, <2>1, <2>2, <2>4
<1>5. ASSUME NEW r \in Readers, ExpireCryptoPaymentOrder(r)
      PROVE  /\ rec[s].at # None => txs'[rec[s].at] = txs[rec[s].at]
             /\ \A o \in rec[s].found : orders'[o] = orders[o]
    <2>1. /\ txs' = txs /\ Unlocked(view[r].order)
          /\ \A o \in Orders : o # view[r].order => orders'[o] = orders[o]
        BY <1>1, <1>5 DEF ExpireCryptoPaymentOrder, RowsTyped
    <2>2. \A o \in rec[s].found : o # view[r].order
        BY <2>1 DEF Unlocked
    <2> QED
        BY <1>2, <2>1, <2>2
<1>6. ASSUME NEW q \in Orders, CreateCryptoTopUpOrder(q) \/ \E a \in Amounts : ChooseAmount(q, a)
      PROVE  /\ rec[s].at # None => txs'[rec[s].at] = txs[rec[s].at]
             /\ \A o \in rec[s].found : orders'[o] = orders[o]
    <2>1. /\ txs' = txs /\ ~Past(q) /\ \A o \in Orders : o # q => orders'[o] = orders[o]
        BY <1>1, <1>6 DEF CreateCryptoTopUpOrder, ChooseAmount, Past, RowsTyped
    <2> QED
        BY <1>2, <2>1
<1>7. ASSUME NEW y \in Transfers, NEW q \in Orders, Pay(y, q)
      PROVE  UNCHANGED <<orders, txs>>
    BY <1>7 DEF Pay
<1> QED
    BY <1>3, <1>4, <1>5, <1>6, <1>7, Writers

LEMMA RecsHoldKeep ==
    ASSUME LockingReads, CryptoInvariant, LockInvariant, [Next]_vars
    PROVE  RecsHold'
<1>1. /\ rec \in [Scanners -> RecType] /\ rec' \in [Scanners -> RecType]
      /\ tx \in [Workers -> TxType] /\ Stable /\ RecsHold
    BY RecsKeep, AllStable DEF CryptoInvariant, TypeOK, LockInvariant
\* What one recording sees of its own copies.
<1> DEFINE Own(s) ==
        /\ rec[s].at # None => rec[s].row = txs[rec[s].at]
        /\ rec[s].matching => rec[s].at # None /\ rec[s].row.order = None
        /\ \A o \in rec[s].found :
              rec[s].copy[o] = orders[o] /\ orders[o].amount = transfers[rec[s].at].amount
<1> DEFINE Apart ==
        \A s \in Scanners :
        /\ rec[s].at # None => \A t \in Scanners : rec[t].at = rec[s].at => t = s
        /\ \A o \in rec[s].found : /\ \A t \in Scanners : o \in rec[t].found => t = s
                                   /\ \A w \in Workers : tx[w].order # o
<1>2. (\A s \in Scanners : Own(s)) /\ Apart
    BY <1>1 DEF RecsHold, RecHolds
<1>3. SUFFICES (\A s \in Scanners : Own(s)') /\ Apart'
    BY DEF RecsHold, RecHolds
<1>4. ASSUME NEW s \in Scanners, rec'[s] = rec[s] PROVE Own(s)'
    <2>1. /\ rec[s].at # None => txs'[rec[s].at] = txs[rec[s].at]
          /\ \A o \in rec[s].found : orders'[o] = orders[o]
        BY <1>4, HeldStays
    <2>2. rec[s].at # None => transfers'[rec[s].at] = transfers[rec[s].at]
        BY <1>1, RecordAt DEF Stable, ChainStays
    <2>3. rec[s].at = None => rec[s].found = {}
        BY DEF CryptoInvariant, RecsOK, RecOK
    <2> QED
        BY <1>2, <1>4, <2>1, <2>2, <2>3
<1>5. ASSUME NEW s \in Scanners, rec'[s].at = None, rec'[s].found = {}, ~rec'[s].matching
      PROVE  Own(s)'
    BY <1>5
\* Recordings that go on or end stay apart when no completion begins.
<1>6. ASSUME \A t \in Scanners : rec'[t] = rec[t] \/ (rec'[t].at = None /\ rec'[t].found = {}),
             \A w \in Workers : tx'[w] = tx[w] \/ tx'[w].order = None
      PROVE  Apart'
    <2>1. ASSUME NEW s \in Scanners, NEW o \in rec'[s].found, NEW w \in Workers
          PROVE  tx'[w].order # o
        <3>1. o \in Orders
            BY <1>1, <2>1 DEF RecType
        <3> QED
            BY <1>2, <1>6, <2>1, <3>1, CryptoAssumption
    <2> QED
        BY <1>2, <1>6, <2>1
<1>7. ASSUME \A w \in Workers : tx'[w] = tx[w] \/ tx'[w].order = None,
             \/ rec' = rec
             \/ \E s \in Scanners : rec' = [rec EXCEPT ![s] = NoRec]
      PROVE  (\A s \in Scanners : Own(s)') /\ Apart'
    <2>1. \A t \in Scanners : \/ rec'[t] = rec[t]
                              \/ rec'[t].at = None /\ rec'[t].found = {} /\ ~rec'[t].matching
        BY <1>1, <1>7, Constants
    <2> QED
        BY <1>4, <1>5, <1>6, <1>7, <2>1
<1>8. ASSUME NEW w \in Workers, NEW q \in Orders, NEW x \in Transfers, Begun(w, q, x)
      PROVE  (\A s \in Scanners : Own(s)') /\ Apart'
    <2>1. CompleteBegin(w, q, x)
        BY <1>8 DEF Begun
    <2>2. rec' = rec /\ tx'[w].order = q /\ \A v \in Workers : v # w => tx'[v] = tx[v]
        BY <2>1, BeginFields
    <2>3. \A s \in Scanners : q \notin rec[s].found
        BY <2>1 DEF CompleteBegin, CanLock, Unlocked
    <2> QED
        BY <1>2, <1>4, <2>2, <2>3
<1>9. ASSUME NEW s \in Scanners, NEW x \in Transfers, ReadTransfer(s, x)
      PROVE  (\A t \in Scanners : Own(t)') /\ Apart'
    <2>1. /\ \A t \in Scanners : t # s => rec'[t] = rec[t]
          /\ rec'[s].at = x /\ rec'[s].row = txs[x] /\ rec'[s].found = {}
          /\ rec'[s].matching = rec[s].matching /\ rec[s].at = None /\ RowFree(x)
          /\ UNCHANGED <<transfers, orders, txs, scanner, tx>>
        BY <1>9, ReadFields
    <2>2. ~rec[s].matching
        BY <1>2, <2>1
    <2>3. Own(s)'
        BY <2>1, <2>2
    <2>4. \A t \in Scanners : rec[t].at # x
        BY <2>1 DEF RowFree
    <2>5. Apart'
        BY <1>2, <2>1, <2>4
    <2> QED
        BY <1>4, <2>1, <2>3, <2>5
<1>10. ASSUME NEW s \in Scanners, FindOrders(s)
       PROVE  (\A t \in Scanners : Own(t)') /\ Apart'
    <2> DEFINE found == Candidates(rec[s].at)
    <2>1. /\ \A t \in Scanners : t # s => rec'[t] = rec[t]
          /\ rec'[s].at = rec[s].at /\ rec'[s].row = rec[s].row /\ rec'[s].found = found
          /\ rec[s].at # None /\ rec[s].row.order = None
          /\ \A o \in found : rec'[s].copy[o] = orders[o] /\ Unlocked(o)
          /\ UNCHANGED <<transfers, orders, txs, scanner, tx>>
        BY <1>10, FindFields
    <2>2. \A o \in found : orders[o].amount = transfers[rec[s].at].amount
        BY DEF Candidates
    <2> HIDE DEF found
    <2>3. Own(s)'
        BY <1>2, <2>1, <2>2
    <2>4. \A o \in found : /\ \A w \in Workers : tx[w].order # o
                           /\ \A t \in Scanners : o \notin rec[t].found
        BY <2>1 DEF Unlocked
    <2>5. Apart'
        BY <1>2, <2>1, <2>4
    <2> QED
        BY <1>4, <2>1, <2>3, <2>5
<1>11. ASSUME NEW s \in Scanners, (\E x \in Transfers : ReadTransfer(s, x)) \/ FindOrders(s)
       PROVE  tx' = tx
    BY <1>11 DEF ReadTransfer, FindOrders
<1>12. ASSUME NEW w \in Workers, tx' = [tx EXCEPT ![w] = NoTx]
       PROVE  \A v \in Workers : tx'[v] = tx[v] \/ tx'[v].order = None
    BY <1>1, <1>12, Constants
<1> QED
    BY <1>7, <1>8, <1>9, <1>10, <1>12, RecSteps, TxSteps

LEMMA NextLocked ==
    ASSUME LockingReads
    PROVE  CryptoInvariant /\ LockInvariant /\ [Next]_vars => (CryptoInvariant /\ LockInvariant)'
BY NextCrypto, CreditedKeeps, LocksKeep, PairsKeep, RecsHoldKeep DEF LockInvariant

\* On a database that locks the rows it reads FOR UPDATE, an order is credited
\* exactly when its top-up becomes a success, once, by whoever completes it.
THEOREM OrdersCreditedOnce == LockingReads /\ Spec => []CreditsExact
<1> SUFFICES ASSUME LockingReads PROVE Spec => []CreditsExact
    OBVIOUS
<1>1. Init => CryptoInvariant /\ LockInvariant
    BY InitCrypto
<1>2. CryptoInvariant /\ LockInvariant /\ [Next]_vars => (CryptoInvariant /\ LockInvariant)'
    BY NextLocked
<1>3. CryptoInvariant /\ LockInvariant => CreditsExact
    BY DEF CryptoInvariant, LockInvariant, CreditsExact
<1> QED
    BY <1>1, <1>2, <1>3, PTL DEF Spec

\* The credits that CompleteReadyCryptoOrders makes are each backed by a transfer
\* of its own, of the exact amount and in time, where a recording holds the rows
\* it has read (RecordCryptoTransfer).
THEOREM AutoCreditsAreBacked == LockingReads /\ Spec => []AutoCreditBacked
<1> SUFFICES ASSUME LockingReads PROVE Spec => []AutoCreditBacked
    OBVIOUS
<1>1. CryptoInvariant /\ LockInvariant => AutoCreditBacked
    <2> SUFFICES ASSUME CryptoInvariant, LockInvariant PROVE AutoCreditBacked
        OBVIOUS
    <2>1. ASSUME NEW o \in Orders, credits[o].count > 0, credits[o].auto
          PROVE  credits[o].transfer \in Transfers /\ AutoPair(o, credits[o].transfer)
        <3>1. credits[o].transfer \in Transfers \cup {None} /\ credits[o].transfer # None
            BY <2>1 DEF CryptoInvariant, TypeOK, CreditsNamed
        <3> QED
            BY <2>1, <3>1 DEF AutoPair
    <2>2. TransferUsedOnce
        BY <2>1 DEF TransferUsedOnce, LockInvariant, PairsOK
    <2>3. AutoCreditInTime
        BY <2>1 DEF AutoCreditInTime, LockInvariant, PairsOK, PaysInTime
    <2> QED
        BY <2>2, <2>3 DEF AutoCreditBacked
<1> QED
    BY <1>1, InitCrypto, NextLocked, PTL DEF Spec
=============================================================================
