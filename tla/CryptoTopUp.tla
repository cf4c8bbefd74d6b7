----------------------------- MODULE CryptoTopUp -----------------------------
(***************************************************************************)
(* Topping up the wallet with a stablecoin transfer: orders told apart by  *)
(* their exact amount, the scanners that record the transfers of confirmed *)
(* blocks and match them to orders, the completion that credits a wallet,  *)
(* the administrator who completes an order by hand, and the status page   *)
(* that expires an order (model/topup_crypto.go, controller/               *)
(* topup_crypto.go, service/crypto_payment/).                              *)
(*                                                                         *)
(* Block number and block timestamp are one number, so the chain is also   *)
(* the clock.  CompleteCryptoTopUp is one transaction and two steps: it    *)
(* reads, then writes.  RecordCryptoTransfer is one transaction and three: *)
(* it reads the row of the transfer, reads the orders, then writes.  What  *)
(* a transaction has not locked may change in between, and it saves whole  *)
(* copies.                                                                 *)
(*                                                                         *)
(* LockingReads is TRUE where a transaction holds the rows it is going to  *)
(* save: SQLite, which has one writer.  FALSE is PostgreSQL and MySQL:     *)
(* GORM 2 drops gorm:query_option "FOR UPDATE", and the row of the         *)
(* transfer is read without asking for a lock at all.                      *)
(***************************************************************************)
EXTENDS Integers

CONSTANTS Orders,         \* trade numbers
          Transfers,      \* token transfers to the receiving address
          Scanners,       \* processes that scan
          Admins,         \* administrators at work, one completion each
          Readers,        \* requests for the status page, each made once
          None,
          Amounts,        \* amounts a random suffix can make
          Window,         \* lifetime of an order
          Confirmations,  \* blocks until a transfer counts as confirmed
          Batch,          \* blocks a scan reads beyond the first
          Rewind,         \* blocks before the confirmed ones where a first scan starts
          MaxHeight,      \* bound on the chain
          LockingReads,   \* a transaction locks what it has read to save it
          Failures        \* scans and transactions fail and processes crash

Workers == Scanners \cup Admins

ASSUME CryptoAssumption ==
    /\ None \notin Orders \cup Transfers \cup Workers \cup Readers
    /\ Scanners \cap Admins = {}
    /\ Window \in Nat /\ Confirmations \in Nat \ {0} /\ Batch \in Nat
    /\ Rewind \in Nat /\ MaxHeight \in Nat
    /\ LockingReads \in BOOLEAN /\ Failures \in BOOLEAN

VARIABLES height,       \* last block of the chain, and the time
          transfers,    \* the chain: amount and block of each transfer
          orders,       \* the rows of crypto_payment_orders
          topups,       \* the status of their rows in top_ups
          txs,          \* the rows of crypto_payment_transactions
          lastScanned,  \* crypto_scanner_states.last_scanned_block
          lock,         \* owner of the Redis lock of the network
          scanner,      \* the state of each scanner
          rec,          \* the recording of a transfer each scanner is in
          tx,           \* the completion each worker is in
          view,         \* the copy of an order each reader holds
          credits,      \* history: credits made, with order, transfer and worker
          gaps          \* history: blocks passed over by scans that found no position

vars == <<height, transfers, orders, topups, txs, lastScanned, lock, scanner, rec, tx, view,
          credits, gaps>>

OrderStatus == {"none", "creating", "pending", "detected", "success",
                "expired", "late_paid", "ambiguous"}

OrderType == [status : OrderStatus, amount : Amounts \cup {None}, expires : Nat,
              matched : Transfers \cup {None}]

NoOrder == [status |-> "none", amount |-> None, expires |-> 0, matched |-> None]

NoTransfer == [amount |-> None, block |-> 0]

NoTxRow == [recorded |-> FALSE, order |-> None]

ScannerType == [pc : {"idle", "scan", "complete"}, to : Int,
                gap : SUBSET Nat, todo : SUBSET Transfers,
                ready : SUBSET (Orders \X Transfers)]

IdleScanner == [pc |-> "idle", to |-> 0, gap |-> {}, todo |-> {}, ready |-> {}]

TxRowType == [recorded : BOOLEAN, order : Orders \cup {None}]

\* The transfer, the copy of its row, the orders found, and their copies.
RecType == [at : Transfers \cup {None}, row : TxRowType, matching : BOOLEAN,
            found : SUBSET Orders, copy : [Orders -> OrderType]]

NoRec == [at |-> None, row |-> NoTxRow, matching |-> FALSE, found |-> {},
          copy |-> [o \in Orders |-> NoOrder]]

TxType == [order : Orders \cup {None}, transfer : Transfers \cup {None}, row : OrderType,
           paid : BOOLEAN, known : BOOLEAN]

NoTx == [order |-> None, transfer |-> None, row |-> NoOrder, paid |-> FALSE, known |-> FALSE]

TypeOK ==
    /\ height \in 0..MaxHeight
    /\ transfers \in [Transfers -> [amount : Amounts \cup {None}, block : Nat]]
    /\ orders \in [Orders -> OrderType]
    /\ topups \in [Orders -> {"none", "pending", "success"}]
    /\ txs \in [Transfers -> TxRowType]
    /\ lastScanned \in 0..height
    /\ lock \in Scanners \cup {None}
    /\ scanner \in [Scanners -> ScannerType]
    /\ rec \in [Scanners -> RecType]
    /\ tx \in [Workers -> TxType]
    /\ view \in [Readers -> [order : Orders \cup {None}, row : OrderType, done : BOOLEAN]]
    /\ credits \in [Orders -> [count : Nat, transfer : Transfers \cup {None},
                               auto : BOOLEAN]]
    /\ gaps \subseteq Nat

Init ==
    /\ height = 0
    /\ transfers = [x \in Transfers |-> NoTransfer]
    /\ orders = [o \in Orders |-> NoOrder]
    /\ topups = [o \in Orders |-> "none"]
    /\ txs = [x \in Transfers |-> NoTxRow]
    /\ lastScanned = 0
    /\ lock = None
    /\ scanner = [s \in Scanners |-> IdleScanner]
    /\ rec = [s \in Scanners |-> NoRec]
    /\ tx = [w \in Workers |-> NoTx]
    /\ view = [r \in Readers |-> [order |-> None, row |-> NoOrder, done |-> FALSE]]
    /\ credits = [o \in Orders |-> [count |-> 0, transfer |-> None, auto |-> FALSE]]
    /\ gaps = {}
-----------------------------------------------------------------------------
(***************************************************************************)
(* The chain.  A transfer goes into the next block; it is paid by someone  *)
(* who was shown the amount, perhaps too late.                             *)
(***************************************************************************)

NewBlock ==
    /\ height < MaxHeight
    /\ height' = height + 1
    /\ UNCHANGED <<transfers, orders, topups, txs, lastScanned, lock, scanner, rec, tx, view,
                   credits, gaps>>

Pay(x, o) ==
    /\ transfers[x] = NoTransfer
    /\ height < MaxHeight
    /\ orders[o].status \notin {"none", "creating"}
    /\ transfers' = [transfers EXCEPT ![x] = [amount |-> orders[o].amount, block |-> height + 1]]
    /\ UNCHANGED <<height, orders, topups, txs, lastScanned, lock, scanner, rec, tx, view,
                   credits, gaps>>
-----------------------------------------------------------------------------
(***************************************************************************)
(* CreateCryptoTopUpOrder: the amount is free, then the rows are inserted. *)
(* Nothing is locked, so two orders may choose the same amount at once.    *)
(***************************************************************************)

Active == {"pending", "detected"}

AmountFree(a) ==
    \A o \in Orders : ~(/\ orders[o].amount = a
                        /\ orders[o].status \in Active
                        /\ orders[o].expires >= height)

ChooseAmount(o, a) ==
    /\ orders[o].status = "none"
    /\ AmountFree(a)
    /\ orders' = [orders EXCEPT ![o] = [NoOrder EXCEPT !.status = "creating", !.amount = a]]
    /\ UNCHANGED <<height, transfers, topups, txs, lastScanned, lock, scanner, rec, tx, view,
                   credits, gaps>>

CreateCryptoTopUpOrder(o) ==
    /\ orders[o].status = "creating"
    /\ orders' = [orders EXCEPT ![o] = [@ EXCEPT !.status = "pending",
                                                 !.expires = height + Window]]
    /\ topups' = [topups EXCEPT ![o] = "pending"]
    /\ UNCHANGED <<height, transfers, txs, lastScanned, lock, scanner, rec, tx, view, credits,
                   gaps>>

Unlocked(o) == LockingReads => /\ \A w \in Workers : tx[w].order # o
                               /\ \A s \in Scanners : o \notin rec[s].found

\* No scanner is between its read and its save of the transfer's row.
RowFree(x) == LockingReads => \A s \in Scanners : rec[s].at # x

\* GetCryptoTopUpOrder reads the order; ExpireCryptoPaymentOrderIfNeeded then
\* saves the whole copy with the status changed.
GetCryptoTopUpOrder(r, o) ==
    /\ view[r].order = None /\ ~view[r].done
    /\ orders[o].status = "pending" /\ height > orders[o].expires
    /\ view' = [view EXCEPT ![r] = [order |-> o, row |-> orders[o], done |-> FALSE]]
    /\ UNCHANGED <<height, transfers, orders, topups, txs, lastScanned, lock, scanner, rec,
                   tx, credits, gaps>>

ExpireCryptoPaymentOrder(r) ==
    LET o == view[r].order
    IN  /\ o # None /\ Unlocked(o)
        /\ orders' = [orders EXCEPT ![o] = [view[r].row EXCEPT !.status = "expired"]]
        /\ view' = [view EXCEPT ![r] = [order |-> None, row |-> NoOrder, done |-> TRUE]]
        /\ UNCHANGED <<height, transfers, topups, txs, lastScanned, lock, scanner, rec, tx,
                       credits, gaps>>
-----------------------------------------------------------------------------
(***************************************************************************)
(* One tick of runScannerLoop: take or renew the lock, read the blocks     *)
(* after the last scanned one up to the last confirmed one, record each    *)
(* transfer, save the position if all of that succeeded, then complete the *)
(* orders that are ready.  Without a position, or when it cannot be read,  *)
(* the scan starts a fixed distance behind the head of the chain.  The     *)
(* lock has a time to live and may run out at any time, also in the middle *)
(* of a scan, which goes on.                                               *)
(***************************************************************************)

LockExpires ==
    /\ Failures
    /\ lock # None
    /\ lock' = None
    /\ UNCHANGED <<height, transfers, orders, topups, txs, lastScanned, scanner, rec, tx,
                   view, credits, gaps>>

MaxSafe == height - Confirmations + 1

FromBlock(known) == IF known THEN lastScanned + 1
                    ELSE IF height - Confirmations - Rewind > 0
                         THEN height - Confirmations - Rewind ELSE 0

ToBlock(from) == IF from + Batch > MaxSafe THEN MaxSafe ELSE from + Batch

InBlocks(from, to) == {x \in Transfers : /\ transfers[x] # NoTransfer
                                         /\ transfers[x].block \in from..to}

\* The orders CompleteReadyCryptoOrders reads, with the transfer of each.
Ready == {p \in Orders \X Transfers : /\ orders[p[1]].status = "detected"
                                       /\ orders[p[1]].matched = p[2]}

\* The position is found, or there is none, or the read fails.
PositionRead(known) ==
    /\ known => lastScanned > 0
    /\ ~known /\ lastScanned > 0 => Failures

ScanFrom(from) ==
    [IdleScanner EXCEPT !.pc = "scan", !.to = ToBlock(from),
                        !.gap = lastScanned + 1 .. from - 1,
                        !.todo = InBlocks(from, ToBlock(from))]

ScanOnce(s) ==
    /\ scanner[s].pc = "idle"
    /\ lock \in {s, None}
    /\ lock' = s
    /\ \E known \in BOOLEAN :
          /\ PositionRead(known)
          /\ scanner' = [scanner EXCEPT ![s] =
                            IF ToBlock(FromBlock(known)) >= FromBlock(known)
                            THEN ScanFrom(FromBlock(known))
                            ELSE [IdleScanner EXCEPT !.pc = "complete", !.ready = Ready]]
    /\ UNCHANGED <<height, transfers, orders, topups, txs, lastScanned, rec, tx, view,
                   credits, gaps>>

\* RecordCryptoTransfer begins with a plain read of the transfer's row.
ReadTransfer(s, x) ==
    /\ scanner[s].pc = "scan" /\ x \in scanner[s].todo
    /\ rec[s].at = None
    /\ RowFree(x)
    /\ rec' = [rec EXCEPT ![s].at = x, ![s].row = txs[x]]
    /\ UNCHANGED <<height, transfers, orders, topups, txs, lastScanned, lock, scanner, tx,
                   view, credits, gaps>>

\* Mutant: a transfer that is already matched is matched again.
AlreadyMatched_Never(s) == FALSE

AlreadyMatched(s) == rec[s].row.order # None

\* The orders a transfer may belong to, in time or too late.
Candidates(x) == {o \in Orders : /\ orders[o].amount = transfers[x].amount
                                 /\ orders[o].status \in {"pending", "expired"}}

FindOrders(s) ==
    /\ rec[s].at # None /\ ~rec[s].matching
    /\ ~AlreadyMatched(s)
    /\ \A o \in Candidates(rec[s].at) : Unlocked(o)
    /\ rec' = [rec EXCEPT ![s].matching = TRUE, ![s].found = Candidates(rec[s].at),
                          ![s].copy = [o \in Orders |-> IF o \in Candidates(rec[s].at)
                                                        THEN orders[o] ELSE NoOrder]]
    /\ UNCHANGED <<height, transfers, orders, topups, txs, lastScanned, lock, scanner, tx,
                   view, credits, gaps>>

InTime(s) == {o \in rec[s].found : rec[s].copy[o].expires >= transfers[rec[s].at].block}

TooLate(s) == {o \in rec[s].found : rec[s].copy[o].expires < transfers[rec[s].at].block}

\* The whole copy of the order is saved, then that of the transfer's row.
MatchWith(s, o, status) ==
    /\ orders' = [orders EXCEPT ![o] = [rec[s].copy[o] EXCEPT !.status = status,
                                                             !.matched = rec[s].at]]
    /\ txs' = [txs EXCEPT ![rec[s].at] = [recorded |-> TRUE, order |-> o]]

\* The copy of the row is saved; without a row one is inserted.
SaveRow(s) == txs' = [txs EXCEPT ![rec[s].at] = [recorded |-> TRUE, order |-> rec[s].row.order]]

\* The insert fails: the transfer has got a row since it was looked for.
Conflict(s) == rec[s].at # None /\ ~rec[s].row.recorded /\ txs[rec[s].at].recorded

RecordCryptoTransfer(s) ==
    /\ rec[s].at # None /\ ~Conflict(s)
    /\ \/ /\ ~rec[s].matching /\ AlreadyMatched(s)
          /\ SaveRow(s) /\ UNCHANGED orders
       \/ /\ rec[s].matching
          /\ \E o \in InTime(s) : InTime(s) = {o} /\ MatchWith(s, o, "detected")
       \/ /\ rec[s].matching
          /\ \E o1, o2 \in InTime(s) : o1 # o2
          /\ orders' = [o \in Orders |-> IF o \in InTime(s)
                                         THEN [orders[o] EXCEPT !.status = "ambiguous"]
                                         ELSE orders[o]]
          /\ SaveRow(s)
       \/ /\ rec[s].matching /\ InTime(s) = {}
          /\ \E o \in TooLate(s) :
                /\ \A p \in TooLate(s) : rec[s].copy[p].expires <= rec[s].copy[o].expires
                /\ MatchWith(s, o, "late_paid")
       \/ /\ rec[s].matching /\ InTime(s) = {} /\ TooLate(s) = {}
          /\ SaveRow(s) /\ UNCHANGED orders
    /\ scanner' = [scanner EXCEPT ![s].todo = @ \ {rec[s].at}]
    /\ rec' = [rec EXCEPT ![s] = NoRec]
    /\ UNCHANGED <<height, transfers, topups, lastScanned, lock, tx, view, credits, gaps>>

\* Mutant: the position is saved although a transfer could not be recorded.
ScanEnds_Always(s) == scanner[s].pc = "scan"

ScanEnds(s) == scanner[s].pc = "scan" /\ scanner[s].todo = {}

\* The position is an absolute value: a slow scanner may move it back.
UpsertCryptoScannerState(s) ==
    /\ ScanEnds(s)
    /\ lastScanned' = scanner[s].to
    /\ gaps' = gaps \cup scanner[s].gap
    /\ scanner' = [scanner EXCEPT ![s] = [IdleScanner EXCEPT !.pc = "complete", !.ready = Ready]]
    /\ UNCHANGED <<height, transfers, orders, topups, txs, lock, rec, tx, view, credits>>

\* A request to the node or a statement fails: the position is not saved, the
\* ready orders are completed all the same.
ScanFails(s) ==
    /\ ~Conflict(s) => Failures
    /\ scanner[s].pc = "scan"
    /\ scanner' = [scanner EXCEPT ![s] = [IdleScanner EXCEPT !.pc = "complete", !.ready = Ready]]
    /\ rec' = [rec EXCEPT ![s] = NoRec]
    /\ UNCHANGED <<height, transfers, orders, topups, txs, lastScanned, lock, tx, view,
                   credits, gaps>>

TickEnds(s) ==
    /\ scanner[s].pc = "complete" /\ scanner[s].ready = {} /\ tx[s] = NoTx
    /\ scanner' = [scanner EXCEPT ![s] = IdleScanner]
    /\ UNCHANGED <<height, transfers, orders, topups, txs, lastScanned, lock, rec, tx, view,
                   credits, gaps>>

Crash(s) ==
    /\ Failures
    /\ scanner[s] # IdleScanner
    /\ scanner' = [scanner EXCEPT ![s] = IdleScanner]
    /\ rec' = [rec EXCEPT ![s] = NoRec]
    /\ tx' = [tx EXCEPT ![s] = NoTx]
    /\ UNCHANGED <<height, transfers, orders, topups, txs, lastScanned, lock, view, credits,
                   gaps>>
-----------------------------------------------------------------------------
(***************************************************************************)
(* CompleteCryptoTopUp.  The scanner completes with the transfer its order *)
(* is matched with; an administrator names any transfer of the right       *)
(* amount, whatever the status of the order.                               *)
(***************************************************************************)

\* Mutant: the order is not locked.
CanLock_Always(o) == TRUE

CanLock(o) == Unlocked(o)

CompleteBegin(w, o, x) ==
    /\ tx[w] = NoTx
    /\ CanLock(o)
    /\ orders[o].status # "success"
    /\ transfers[x].amount = orders[o].amount
    /\ topups[o] = "success" \/ txs[x].order \in {None, o}
    /\ tx' = [tx EXCEPT ![w] = [order |-> o, transfer |-> x, row |-> orders[o],
                                paid |-> topups[o] = "success",
                                known |-> txs[x].recorded]]
    /\ UNCHANGED <<height, transfers, orders, topups, txs, lastScanned, lock, scanner, rec,
                   view, credits, gaps>>

CompleteReady(s, o, x) ==
    /\ scanner[s].pc = "complete" /\ <<o, x>> \in scanner[s].ready
    /\ txs[x].order = o
    /\ CompleteBegin(s, o, x)

\* The transfer is no longer matched with the order, or the order has become a
\* success since it was read.
SkipReady(s, o, x) ==
    /\ scanner[s].pc = "complete" /\ <<o, x>> \in scanner[s].ready /\ tx[s] = NoTx
    /\ Unlocked(o)
    /\ txs[x].order # o \/ orders[o].status = "success"
    /\ scanner' = [scanner EXCEPT ![s].ready = @ \ {<<o, x>>}]
    /\ UNCHANGED <<height, transfers, orders, topups, txs, lastScanned, lock, rec, tx, view,
                   credits, gaps>>

AdminCompleteCryptoTopUp(a, o, x) ==
    /\ orders[o].status \notin {"none", "creating"}
    /\ height - transfers[x].block + 1 >= Confirmations
    /\ CompleteBegin(a, o, x)

Done(w) ==
    /\ tx' = [tx EXCEPT ![w] = NoTx]
    /\ scanner' = IF w \in Scanners
                  THEN [scanner EXCEPT ![w].ready = @ \ {<<tx[w].order, tx[w].transfer>>}]
                  ELSE scanner

\* The top-up is marked as paid and the wallet credited once; where that has
\* happened before, only the order is brought up to date.  A transfer that had
\* no row is inserted, which fails if it has got one in the meantime.
CompleteCommit(w) ==
    LET o == tx[w].order
        x == tx[w].transfer
    IN  /\ o # None
        /\ IF tx[w].paid
           THEN /\ orders' = [orders EXCEPT ![o] = [tx[w].row EXCEPT !.status = "success"]]
                /\ UNCHANGED <<topups, txs, credits>>
           ELSE /\ ~tx[w].known => ~txs[x].recorded
                /\ RowFree(x)
                /\ orders' = [orders EXCEPT ![o] = [tx[w].row EXCEPT !.status = "success",
                                                                     !.matched = x]]
                /\ topups' = [topups EXCEPT ![o] = "success"]
                /\ txs' = [txs EXCEPT ![x] = [recorded |-> TRUE, order |-> o]]
                /\ credits' = [credits EXCEPT ![o] = [count |-> @.count + 1, transfer |-> x,
                                                      auto |-> w \in Scanners]]
        /\ Done(w)
        /\ UNCHANGED <<height, transfers, lastScanned, lock, rec, view, gaps>>

\* The first error ends the completions of this tick.
CompleteFails(w) ==
    /\ Failures
    /\ tx[w] # NoTx
    /\ tx' = [tx EXCEPT ![w] = NoTx]
    /\ scanner' = IF w \in Scanners THEN [scanner EXCEPT ![w].ready = {}] ELSE scanner
    /\ UNCHANGED <<height, transfers, orders, topups, txs, lastScanned, lock, rec, view,
                   credits, gaps>>
-----------------------------------------------------------------------------
ScannerStep(s) ==
    \/ ScanOnce(s)
    \/ \E x \in Transfers : ReadTransfer(s, x)
    \/ FindOrders(s)
    \/ RecordCryptoTransfer(s)
    \/ UpsertCryptoScannerState(s)
    \/ \E o \in Orders, x \in Transfers : CompleteReady(s, o, x) \/ SkipReady(s, o, x)
    \/ CompleteCommit(s)
    \/ TickEnds(s)

Next ==
    \/ NewBlock
    \/ LockExpires
    \/ \E x \in Transfers, o \in Orders : Pay(x, o)
    \/ \E o \in Orders : CreateCryptoTopUpOrder(o)
    \/ \E o \in Orders, a \in Amounts : ChooseAmount(o, a)
    \/ \E r \in Readers, o \in Orders : GetCryptoTopUpOrder(r, o)
    \/ \E r \in Readers : ExpireCryptoPaymentOrder(r)
    \/ \E s \in Scanners : ScannerStep(s) \/ ScanFails(s) \/ Crash(s)
    \/ \E a \in Admins, o \in Orders, x \in Transfers : AdminCompleteCryptoTopUp(a, o, x)
    \/ \E a \in Admins : CompleteCommit(a)
    \/ \E w \in Workers : CompleteFails(w)

Spec == Init /\ [][Next]_vars
-----------------------------------------------------------------------------
(***************************************************************************)
(* Properties.                                                             *)
(***************************************************************************)

\* An order is credited at most once, and exactly when its top-up becomes a
\* success, under repeated scans by two processes, crashes, a status page that
\* writes an old copy and an administrator's completion (CompleteCryptoTopUp).
CreditedOnce ==
    \A o \in Orders : credits[o].count = IF topups[o] = "success" THEN 1 ELSE 0

\* The scanners never use one transfer for two orders, whatever they record
\* twice, match again after an old copy was saved, or find in the hands of an
\* administrator (matched_order_id of the transfer's row).
TransferUsedOnce ==
    \A o, p \in Orders :
        /\ o # p
        /\ credits[o].count > 0 /\ credits[o].auto
        /\ credits[p].count > 0 /\ credits[p].auto
        => credits[o].transfer # credits[p].transfer

\* Without an administrator only a transfer of the exact amount that was made
\* before the order expired is credited, although scans come much later and
\* orders share amounts (RecordCryptoTransfer, CompleteReadyCryptoOrders).
AutoCreditInTime ==
    \A o \in Orders : credits[o].count > 0 /\ credits[o].auto =>
        LET t == transfers[credits[o].transfer]
        IN  t.amount = orders[o].amount /\ t.block <= orders[o].expires

\* No transfer is skipped: every one in a block up to the saved position has
\* been recorded, also when scans fail half way, overlap because the lock ran
\* out, or are saved in the wrong order.  The blocks between the position and
\* the start of a scan that had no position are the exception: there is none at
\* the first start, and a failed read of it counts as none (ScanOnce).
ScannedIsRecorded ==
    \A x \in Transfers : transfers[x].block \in 1..lastScanned \ gaps => txs[x].recorded

\* The rows are well formed, the saved position never runs ahead of the chain, and
\* the credits of a user are those of the orders shown as paid.
CreditsExact == TypeOK /\ CreditedOnce

\* A credit that no administrator made is backed by a transfer of its own, of the
\* exact amount and made in time.
AutoCreditBacked == TransferUsedOnce /\ AutoCreditInTime
=============================================================================
