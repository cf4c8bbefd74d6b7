------------------------------- MODULE Wallet -------------------------------
(***************************************************************************)
(* Money into and out of the wallet: top-ups completed by the callbacks of *)
(* payment providers or by an administrator (model/topup.go, controller/   *)
(* topup.go), redemption codes (model/redemption.go), withdrawals          *)
(* (model/user_withdrawal.go), and the batch updater that writes what      *)
(* requests spend (model/utils.go).                                        *)
(*                                                                         *)
(* A transaction is two steps of a thread: it locks and reads its row, and *)
(* later writes everything and commits.  A row of users is written in one  *)
(* statement; only a new withdrawal keeps it locked before.                *)
(***************************************************************************)
EXTENDS OrderLocks, FiniteSetsExt

CONSTANTS Users,
          Withdrawals,    \* rows of user_withdrawals
          Codes,          \* redemption codes
          Providers,      \* payment providers of the top-ups
          ApplyQuotas,    \* quotas of withdrawals
          CodeQuotas,     \* quotas of codes
          TopUpQuota,     \* quota of a top-up
          InitQuota,
          LockingReads,   \* the database sees FOR UPDATE
          MaxSpent,       \* bound on what requests of a user spend
          MaxEdits,       \* bound on edits of codes
          MaxCrashes      \* bound on crashes

ASSUME WalletAssumption ==
    /\ None \notin Users \cup Withdrawals \cup Codes \cup Providers
    /\ IsFiniteSet(Withdrawals) /\ IsFiniteSet(Codes) /\ IsFiniteSet(Orders)
    /\ Providers \subseteq {"epay", "stripe", "waffo"}
    /\ ApplyQuotas \subseteq Nat \ {0} /\ CodeQuotas \subseteq Nat \ {0}
    /\ TopUpQuota \in Nat /\ InitQuota \in Nat
    /\ LockingReads \in BOOLEAN
    /\ MaxSpent \in Nat /\ MaxEdits \in Nat /\ MaxCrashes \in Nat

VARIABLES quota,        \* users.quota
          frozen,       \* users.withdraw_frozen_quota
          batch,        \* pending deltas of users.quota in memory
          flush,        \* deltas the updater has taken and not yet written
          withdrawals,  \* rows of user_withdrawals
          codes,        \* rows of redemptions
          topups,       \* rows of top_ups
          wtx,          \* the withdrawal each thread works on
          ctx,          \* the code each thread works on
          ttx,          \* the top-up each thread works on
          spent,        \* history: quota spent, and the part of it that was lost
          redeemed,     \* history: quota from codes
          credits,      \* history: how often each top-up was credited
          enables,      \* history: how often each code became usable, and was used
          edits,        \* history: edits of codes, and whether one was used before
          crashes

walletVars == <<quota, frozen, batch, flush>>
histories == <<spent, redeemed, credits, enables, edits, crashes>>
vars == <<lockVars, walletVars, withdrawals, codes, topups, wtx, ctx, ttx, histories>>

Open == {"pending", "approved"}

WithdrawalType == [status : {"none", "pending", "approved", "rejected", "paid"},
                   user : Users \cup {None}, apply : Nat]

NoWithdrawal == [status |-> "none", user |-> None, apply |-> 0]

CodeType == [status : {"enabled", "disabled", "used"}, quota : Nat,
             user : Users \cup {None}, deleted : BOOLEAN]

TopUpType == [status : {"none", "pending", "success", "failed"},
              user : Users \cup {None}, provider : Providers \cup {None}]

NoTopUp == [status |-> "none", user |-> None, provider |-> None]

NoWtx == [op |-> "none", id |-> None, row |-> NoWithdrawal]
NoCode == [status |-> "disabled", quota |-> 0, user |-> None, deleted |-> FALSE]
NoCtx == [op |-> "none", id |-> None, row |-> NoCode]
NoTtx == [pc |-> "none", id |-> None, row |-> NoTopUp]

TypeOK ==
    /\ LockTypeOK
    /\ quota \in [Users -> Int]
    /\ frozen \in [Users -> Nat]
    /\ batch \in [Users -> Int]
    /\ flush \in [Users -> Int]
    /\ withdrawals \in [Withdrawals -> WithdrawalType]
    /\ codes \in [Codes -> CodeType]
    /\ topups \in [Orders -> TopUpType]
    /\ wtx \in [Threads -> [op : {"none", "create", "approve", "reject", "pay"},
                            id : Withdrawals \cup {None}, row : WithdrawalType]]
    /\ ctx \in [Threads -> [op : {"none", "redeem", "edit"}, id : Codes \cup {None},
                            row : CodeType]]
    /\ ttx \in [Threads -> [pc : {"none", "epay", "credit", "complete", "mark", "done"},
                            id : Orders \cup {None}, row : TopUpType]]
    /\ spent \in [Users -> [all : Nat, lost : Nat]]
    /\ redeemed \in [Users -> Nat]
    /\ credits \in [Orders -> Nat]
    /\ enables \in [Codes -> [count : Nat, used : Nat]]
    /\ edits \in [count : 0..MaxEdits, afterUse : BOOLEAN]
    /\ crashes \in 0..MaxCrashes

Init ==
    /\ LockInit
    /\ quota = [u \in Users |-> InitQuota]
    /\ frozen = [u \in Users |-> 0]
    /\ batch = [u \in Users |-> 0]
    /\ flush = [u \in Users |-> 0]
    /\ withdrawals = [w \in Withdrawals |-> NoWithdrawal]
    /\ \E q \in CodeQuotas :
           codes = [c \in Codes |-> [NoCode EXCEPT !.status = "enabled", !.quota = q]]
    /\ topups = [o \in Orders |-> NoTopUp]
    /\ wtx = [t \in Threads |-> NoWtx]
    /\ ctx = [t \in Threads |-> NoCtx]
    /\ ttx = [t \in Threads |-> NoTtx]
    /\ spent = [u \in Users |-> [all |-> 0, lost |-> 0]]
    /\ redeemed = [u \in Users |-> 0]
    /\ credits = [o \in Orders |-> 0]
    /\ enables = [c \in Codes |-> [count |-> 1, used |-> 0]]
    /\ edits = [count |-> 0, afterUse |-> FALSE]
    /\ crashes = 0
-----------------------------------------------------------------------------
(***************************************************************************)
(* Row locks, held from the locking read to the commit.                    *)
(***************************************************************************)

Idle(t) == wtx[t] = NoWtx /\ ctx[t] = NoCtx /\ ttx[t] = NoTtx /\ lk[t].pc = "none"

UserUnlocked(u) ==
    LockingReads => \A t \in Threads : ~(wtx[t].op = "create" /\ wtx[t].row.user = u)

WithdrawalUnlocked(w) ==
    LockingReads => \A t \in Threads : ~(wtx[t].op # "create" /\ wtx[t].id = w)

CodeUnlocked(c) == LockingReads => \A t \in Threads : ~(ctx[t].op = "redeem" /\ ctx[t].id = c)

TopUpUnlocked(o) ==
    LockingReads => \A t \in Threads : ~(ttx[t].pc \in {"complete", "mark"} /\ ttx[t].id = o)
-----------------------------------------------------------------------------
(***************************************************************************)
(* Requests spend through the batch updater (DecreaseUserQuota with        *)
(* BatchUpdateEnabled, batchUpdate).                                       *)
(***************************************************************************)

DecreaseUserQuota(u) ==
    /\ spent[u].all < MaxSpent
    /\ batch' = [batch EXCEPT ![u] = @ - 1]
    /\ spent' = [spent EXCEPT ![u].all = @ + 1]
    /\ UNCHANGED <<lockVars, quota, frozen, flush, withdrawals, codes, topups, wtx, ctx, ttx,
                   redeemed, credits, enables, edits, crashes>>

\* Mutant: the maps are read and not replaced.
TakeBatch_Kept == flush' = batch /\ UNCHANGED batch

\* The maps are taken out of memory under their locks and replaced.
TakeBatch == flush' = batch /\ batch' = [u \in Users |-> 0]

batchUpdate ==
    /\ \A u \in Users : flush[u] = 0
    /\ \E u \in Users : batch[u] # 0
    /\ TakeBatch
    /\ UNCHANGED <<lockVars, quota, frozen, withdrawals, codes, topups, wtx, ctx, ttx, histories>>

updateUserQuota(u) ==
    /\ flush[u] # 0
    /\ UserUnlocked(u)
    /\ quota' = [quota EXCEPT ![u] = @ + flush[u]]
    /\ flush' = [flush EXCEPT ![u] = 0]
    /\ UNCHANGED <<lockVars, frozen, batch, withdrawals, codes, topups, wtx, ctx, ttx, histories>>

\* The error is logged and the delta forgotten.
updateUserQuotaFails(u) ==
    /\ flush[u] # 0
    /\ flush' = [flush EXCEPT ![u] = 0]
    /\ spent' = [spent EXCEPT ![u].lost = @ - flush[u]]
    /\ UNCHANGED <<lockVars, quota, frozen, batch, withdrawals, codes, topups, wtx, ctx, ttx,
                   redeemed, credits, enables, edits, crashes>>
-----------------------------------------------------------------------------
(***************************************************************************)
(* Withdrawals.                                                            *)
(***************************************************************************)

Of(u) == {w \in Withdrawals : withdrawals[w].user = u}

\* Mutant: an approved withdrawal no longer counts.
OpenOf_Pending(u) == {w \in Of(u) : withdrawals[w].status = "pending"}

OpenOf(u) == {w \in Of(u) : withdrawals[w].status \in Open}

\* Used codes count, deleted or not.
FromCode(u) ==
    [c \in Codes |->
        IF codes[c].user = u /\ codes[c].status = "used" THEN codes[c].quota ELSE 0]

RedeemedQuota(u) == SumFunctionOnSet(FromCode(u), Codes)

RechargeQuota(u) ==
    LET total == IF quota[u] < 0 THEN 0 ELSE quota[u]
    IN  IF RedeemedQuota(u) > total THEN 0 ELSE total - RedeemedQuota(u)

\* The user is locked; there is no open withdrawal and enough to withdraw.
CreateBegin(t, w, u, a) ==
    /\ Idle(t)
    /\ withdrawals[w] = NoWithdrawal
    /\ \A s \in Threads : wtx[s].id # w
    /\ UserUnlocked(u)
    /\ OpenOf(u) = {}
    /\ RechargeQuota(u) >= a
    /\ wtx' = [wtx EXCEPT ![t] = [op |-> "create", id |-> w,
                                  row |-> [status |-> "pending", user |-> u, apply |-> a]]]
    /\ UNCHANGED <<lockVars, walletVars, withdrawals, codes, topups, ctx, ttx, histories>>

CreateUserWithdrawal(t) ==
    LET r == wtx[t].row
    IN  /\ wtx[t].op = "create"
        /\ withdrawals' = [withdrawals EXCEPT ![wtx[t].id] = r]
        /\ quota' = [quota EXCEPT ![r.user] = @ - r.apply]
        /\ frozen' = [frozen EXCEPT ![r.user] = @ + r.apply]
        /\ wtx' = [wtx EXCEPT ![t] = NoWtx]
        /\ UNCHANGED <<lockVars, batch, flush, codes, topups, ctx, ttx, histories>>

\* Mutant: an approved withdrawal may be approved again, a paid one rejected.
From_Lax == [approve |-> {"pending"}, reject |-> {"pending", "approved", "paid"},
             pay |-> {"approved"}]

\* The states in which each decision is allowed.
From == [approve |-> {"pending"}, reject |-> {"pending", "approved"}, pay |-> {"approved"}]

\* An administrator's decision: the withdrawal is locked and read.
DecideBegin(t, w, op) ==
    /\ Idle(t)
    /\ WithdrawalUnlocked(w)
    /\ withdrawals[w].status \in From[op]
    /\ wtx' = [wtx EXCEPT ![t] = [op |-> op, id |-> w, row |-> withdrawals[w]]]
    /\ UNCHANGED <<lockVars, walletVars, withdrawals, codes, topups, ctx, ttx, histories>>

\* The copy is saved as a whole.
Decided(t, status) ==
    /\ withdrawals' = [withdrawals EXCEPT ![wtx[t].id] = [wtx[t].row EXCEPT !.status = status]]
    /\ wtx' = [wtx EXCEPT ![t] = NoWtx]

ApproveUserWithdrawal(t) ==
    /\ wtx[t].op = "approve"
    /\ Decided(t, "approved")
    /\ UNCHANGED <<lockVars, walletVars, codes, topups, ctx, ttx, histories>>

RejectUserWithdrawal(t) ==
    LET r == wtx[t].row
    IN  /\ wtx[t].op = "reject"
        /\ UserUnlocked(r.user)
        /\ quota' = [quota EXCEPT ![r.user] = @ + r.apply]
        /\ frozen' = [frozen EXCEPT ![r.user] = @ - r.apply]
        /\ Decided(t, "rejected")
        /\ UNCHANGED <<lockVars, batch, flush, codes, topups, ctx, ttx, histories>>

MarkUserWithdrawalPaid(t) ==
    LET r == wtx[t].row
    IN  /\ wtx[t].op = "pay"
        /\ UserUnlocked(r.user)
        /\ frozen' = [frozen EXCEPT ![r.user] = @ - r.apply]
        /\ Decided(t, "paid")
        /\ UNCHANGED <<lockVars, quota, batch, flush, codes, topups, ctx, ttx, histories>>
-----------------------------------------------------------------------------
(***************************************************************************)
(* Redemption codes.  An administrator's edit reads the code and later     *)
(* writes the status it read, or the new one if only that is changed.      *)
(***************************************************************************)

\* Mutant: the code is read without a lock.
CanRedeem_Unlocked(c) == TRUE

CanRedeem(c) == CodeUnlocked(c)

RedeemBegin(t, c, u) ==
    /\ Idle(t)
    /\ CanRedeem(c)
    /\ codes[c].status = "enabled" /\ ~codes[c].deleted
    /\ ctx' = [ctx EXCEPT ![t] = [op |-> "redeem", id |-> c, row |-> [codes[c] EXCEPT !.user = u]]]
    /\ UNCHANGED <<lockVars, walletVars, withdrawals, codes, topups, wtx, ttx, histories>>

Redeem(t) ==
    LET r == ctx[t].row
    IN  /\ ctx[t].op = "redeem"
        /\ UserUnlocked(r.user)
        /\ quota' = [quota EXCEPT ![r.user] = @ + r.quota]
        /\ codes' = [codes EXCEPT ![ctx[t].id] = [r EXCEPT !.status = "used"]]
        /\ redeemed' = [redeemed EXCEPT ![r.user] = @ + r.quota]
        /\ enables' = [enables EXCEPT ![ctx[t].id].used = @ + 1]
        /\ ctx' = [ctx EXCEPT ![t] = NoCtx]
        /\ UNCHANGED <<lockVars, frozen, batch, flush, withdrawals, topups, wtx, ttx,
                       spent, credits, edits, crashes>>

UpdateRedemptionBegin(t, c) ==
    /\ Idle(t)
    /\ edits.count < MaxEdits
    /\ ~codes[c].deleted
    /\ \/ \E q \in CodeQuotas :
              ctx' = [ctx EXCEPT ![t] = [op |-> "edit", id |-> c, row |-> [codes[c] EXCEPT !.quota = q]]]
       \/ \E s \in {"enabled", "disabled"} :
              ctx' = [ctx EXCEPT ![t] = [op |-> "edit", id |-> c, row |-> [codes[c] EXCEPT !.status = s]]]
    /\ edits' = [edits EXCEPT !.count = @ + 1]
    /\ UNCHANGED <<lockVars, walletVars, withdrawals, codes, topups, wtx, ttx,
                   spent, redeemed, credits, enables, crashes>>

\* Only the columns of the form are written, and only if the code is still there.
UpdateRedemption(t) ==
    LET c == ctx[t].id
        r == ctx[t].row
    IN  /\ ctx[t].op = "edit"
        /\ CodeUnlocked(c)
        /\ codes' = IF codes[c].deleted THEN codes
                    ELSE [codes EXCEPT ![c].status = r.status, ![c].quota = r.quota]
        /\ enables' = IF r.status = "enabled" /\ codes[c].status # "enabled"
                      THEN [enables EXCEPT ![c].count = @ + 1] ELSE enables
        /\ edits' = [edits EXCEPT !.afterUse = @ \/ codes[c].user # None]
        /\ ctx' = [ctx EXCEPT ![t] = NoCtx]
        /\ UNCHANGED <<lockVars, walletVars, withdrawals, topups, wtx, ttx,
                       spent, redeemed, credits, crashes>>

DeleteRedemption(c) ==
    /\ ~codes[c].deleted
    /\ CodeUnlocked(c)
    /\ codes' = [codes EXCEPT ![c].deleted = TRUE]
    /\ UNCHANGED <<lockVars, walletVars, withdrawals, topups, wtx, ctx, ttx, histories>>
-----------------------------------------------------------------------------
(***************************************************************************)
(* Top-ups.  Handlers own the order in their process.  The Epay callback   *)
(* works without a transaction; the others lock the row.  Waffo's callback *)
(* for a failed payment does not own the order.                            *)
(***************************************************************************)

RequestPay(o, u, p) ==
    /\ topups[o] = NoTopUp
    /\ topups' = [topups EXCEPT ![o] = [status |-> "pending", user |-> u, provider |-> p]]
    /\ UNCHANGED <<lockVars, walletVars, withdrawals, codes, wtx, ctx, ttx, histories>>

HandlerLocks(t, o) ==
    /\ Idle(t)
    /\ topups[o] # NoTopUp
    /\ LockOrder(t, o)
    /\ UNCHANGED <<walletVars, withdrawals, codes, topups, wtx, ctx, ttx, histories>>

HandlerWaits(t) ==
    /\ MuLock(t)
    /\ UNCHANGED <<walletVars, withdrawals, codes, topups, wtx, ctx, ttx, histories>>

HandlerUnlocks(t) ==
    /\ ttx[t].pc = "done"
    /\ UnlockOrder(t)
    /\ ttx' = [ttx EXCEPT ![t] = NoTtx]
    /\ UNCHANGED <<walletVars, withdrawals, codes, topups, wtx, ctx, histories>>

HandlerEnds(t) ==
    /\ DropReference(t)
    /\ UNCHANGED <<walletVars, withdrawals, codes, topups, wtx, ctx, ttx, histories>>

\* Mutant: a handler does not wait for the others of its order.
OwnsOrder_Any(t, o) == lk[t].pc \in {"waiting", "locked"} /\ lk[t].order = o /\ ttx[t].pc = "none"

OwnsOrder(t, o) == lk[t].pc = "locked" /\ lk[t].order = o /\ ttx[t].pc = "none"

\* The order is read; only a pending one is worked on.
HandlerReads(t, o, pc) ==
    /\ ttx' = [ttx EXCEPT ![t] = IF topups[o].status = "pending"
                                 THEN [pc |-> pc, id |-> o, row |-> topups[o]]
                                 ELSE [NoTtx EXCEPT !.pc = "done"]]
    /\ UNCHANGED <<lockVars, walletVars, withdrawals, codes, topups, wtx, ctx, histories>>

\* EpayNotify and EpayReturn: GetTopUpByTradeNo of completeEpayTopUp.
EpayNotify(t, o) ==
    /\ OwnsOrder(t, o) /\ topups[o].provider = "epay"
    /\ HandlerReads(t, o, "epay")

\* Recharge, RechargeCreem, RechargeWaffo and ManualCompleteTopUp; an
\* administrator may complete the orders of every provider.
RechargeBegin(t, o) ==
    /\ OwnsOrder(t, o) /\ TopUpUnlocked(o)
    /\ HandlerReads(t, o, "complete")

\* Stripe says that the payment failed or the session expired.
MarkBegin(t, o) ==
    /\ OwnsOrder(t, o) /\ topups[o].provider = "stripe" /\ TopUpUnlocked(o)
    /\ HandlerReads(t, o, "mark")

WaffoFailed(t, o) ==
    /\ Idle(t)
    /\ topups[o].provider = "waffo" /\ topups[o].status = "pending" /\ TopUpUnlocked(o)
    /\ HandlerReads(t, o, "mark")

AfterTopUp(t) == IF lk[t].pc = "locked" THEN [NoTtx EXCEPT !.pc = "done"] ELSE NoTtx

SaveTopUp(t, status) ==
    topups' = [topups EXCEPT ![ttx[t].id] = [ttx[t].row EXCEPT !.status = status]]

Credit(t) ==
    /\ UserUnlocked(ttx[t].row.user)
    /\ quota' = [quota EXCEPT ![ttx[t].row.user] = @ + TopUpQuota]
    /\ credits' = [credits EXCEPT ![ttx[t].id] = @ + 1]

\* completeEpayTopUp saves the order, then credits the wallet.
EpaySave(t) ==
    /\ ttx[t].pc = "epay" /\ TopUpUnlocked(ttx[t].id)
    /\ SaveTopUp(t, "success")
    /\ ttx' = [ttx EXCEPT ![t].pc = "credit"]
    /\ UNCHANGED <<lockVars, walletVars, withdrawals, codes, wtx, ctx, histories>>

EpayCredit(t) ==
    /\ ttx[t].pc = "credit"
    /\ Credit(t)
    /\ ttx' = [ttx EXCEPT ![t] = AfterTopUp(t)]
    /\ UNCHANGED <<lockVars, frozen, batch, flush, withdrawals, codes, topups, wtx, ctx,
                   spent, redeemed, enables, edits, crashes>>

Recharge(t) ==
    /\ ttx[t].pc = "complete"
    /\ SaveTopUp(t, "success")
    /\ Credit(t)
    /\ ttx' = [ttx EXCEPT ![t] = AfterTopUp(t)]
    /\ UNCHANGED <<lockVars, frozen, batch, flush, withdrawals, codes, wtx, ctx,
                   spent, redeemed, enables, edits, crashes>>

UpdatePendingTopUpStatus(t) ==
    /\ ttx[t].pc = "mark"
    /\ SaveTopUp(t, "failed")
    /\ ttx' = [ttx EXCEPT ![t] = AfterTopUp(t)]
    /\ UNCHANGED <<lockVars, walletVars, withdrawals, codes, wtx, ctx, histories>>
-----------------------------------------------------------------------------
(***************************************************************************)
(* A transaction or statement fails; the process dies.                     *)
(***************************************************************************)

Rollback(t) ==
    /\ \/ wtx[t] # NoWtx \/ ctx[t] # NoCtx
       \/ ttx[t].pc \notin {"none", "done"}
    /\ wtx' = [wtx EXCEPT ![t] = NoWtx]
    /\ ctx' = [ctx EXCEPT ![t] = NoCtx]
    /\ ttx' = [ttx EXCEPT ![t] = AfterTopUp(t)]
    /\ UNCHANGED <<lockVars, walletVars, withdrawals, codes, topups, histories>>

Crash ==
    /\ crashes < MaxCrashes
    /\ crashes' = crashes + 1
    /\ LocksLost
    /\ wtx' = [t \in Threads |-> NoWtx]
    /\ ctx' = [t \in Threads |-> NoCtx]
    /\ ttx' = [t \in Threads |-> NoTtx]
    /\ spent' = [u \in Users |-> [spent[u] EXCEPT !.lost = @ - batch[u] - flush[u]]]
    /\ batch' = [u \in Users |-> 0]
    /\ flush' = [u \in Users |-> 0]
    /\ UNCHANGED <<quota, frozen, withdrawals, codes, topups,
                   redeemed, credits, enables, edits>>
-----------------------------------------------------------------------------
WithdrawalStep(t) ==
    \/ \E w \in Withdrawals, u \in Users, a \in ApplyQuotas : CreateBegin(t, w, u, a)
    \/ CreateUserWithdrawal(t)
    \/ \E w \in Withdrawals, op \in {"approve", "reject", "pay"} : DecideBegin(t, w, op)
    \/ ApproveUserWithdrawal(t)
    \/ RejectUserWithdrawal(t)
    \/ MarkUserWithdrawalPaid(t)

CodeStep(t) ==
    \/ \E c \in Codes, u \in Users : RedeemBegin(t, c, u)
    \/ Redeem(t)
    \/ \E c \in Codes : UpdateRedemptionBegin(t, c)
    \/ UpdateRedemption(t)

TopUpStep(t) ==
    \/ \E o \in Orders : \/ HandlerLocks(t, o)
                         \/ EpayNotify(t, o)
                         \/ RechargeBegin(t, o)
                         \/ MarkBegin(t, o)
                         \/ WaffoFailed(t, o)
    \/ HandlerWaits(t)
    \/ EpaySave(t)
    \/ EpayCredit(t)
    \/ Recharge(t)
    \/ UpdatePendingTopUpStatus(t)
    \/ HandlerUnlocks(t)
    \/ HandlerEnds(t)

Next ==
    \/ \E u \in Users : \/ DecreaseUserQuota(u)
                       \/ updateUserQuota(u)
                       \/ updateUserQuotaFails(u)
    \/ batchUpdate
    \/ \E t \in Threads : WithdrawalStep(t) \/ CodeStep(t) \/ TopUpStep(t) \/ Rollback(t)
    \/ \E c \in Codes : DeleteRedemption(c)
    \/ \E o \in Orders, u \in Users, p \in Providers : RequestPay(o, u, p)
    \/ Crash

Spec == Init /\ [][Next]_vars
-----------------------------------------------------------------------------
(***************************************************************************)
(* Properties.                                                             *)
(***************************************************************************)

\* What the withdrawals of u in the states S are about, and their sum.
Applied(u, S) ==
    [w \in Withdrawals |->
        IF withdrawals[w].user = u /\ withdrawals[w].status \in S THEN withdrawals[w].apply ELSE 0]

ApplyOf(u, S) == SumFunctionOnSet(Applied(u, S), Withdrawals)

\* "At any time a user has at most one withdrawal that is not finished"
\* (docs/superpowers/specs/2026-04-19-wallet-withdrawal-design.md), also when
\* two requests are made at once, and the frozen quota is exactly its quota:
\* no decision returns or clears it twice or not at all.
FrozenMatchesOpen ==
    \A u \in Users :
        LET open == {w \in Of(u) : withdrawals[w].status \in Open}
        IN  \/ open = {} /\ frozen[u] = 0
            \/ \E w \in open : open = {w} /\ frozen[u] = withdrawals[w].apply

\* A withdrawal that was paid or rejected stays so, whatever administrators
\* decide at the same time with the copy they have read.
DecisionIsFinal ==
    [][\A w \in Withdrawals : withdrawals[w].status \in {"paid", "rejected"} =>
                              withdrawals'[w] = withdrawals[w]]_vars

FromTopUp(u) ==
    [o \in Orders |-> IF topups[o].user = u THEN credits[o] * TopUpQuota ELSE 0]

CreditedTo(u) == SumFunctionOnSet(FromTopUp(u), Orders)

\* No quota appears or is lost: what a user has, has frozen, has been paid and
\* has spent is what came in by top-ups and codes.  Spending the batch updater
\* has not written yet is counted; only what a crash or a failed write took from
\* it is missing.
QuotaConserved ==
    \A u \in Users :
        quota[u] + frozen[u] + ApplyOf(u, {"paid"})
            + batch[u] + flush[u] + spent[u].all - spent[u].lost
        = InitQuota + CreditedTo(u) + redeemed[u]

\* What codes gave a user is never paid out, although requests spend, codes are
\* deleted and the balance is behind by what the batch updater holds
\* (getUserWithdrawalQuotaBreakdownTx), unless an administrator changes a code
\* after its use.
RedeemedStaysInside ==
    ~edits.afterUse =>
        \A u \in Users :
            ApplyOf(u, Open \cup {"paid"}) <= InitQuota + CreditedTo(u)

\* However often a provider repeats its callback, on both of its addresses,
\* and an administrator completes the order besides, it is credited at most
\* once, and then it is a success for good (completeEpayTopUp, Recharge,
\* ManualCompleteTopUp).
TopUpCreditedOnce ==
    \A o \in Orders : /\ credits[o] <= 1
                      /\ credits[o] = 1 => topups[o].status = "success"

\* A code is redeemed once for every time it was made usable, also when an
\* edit writes back the status it read before the redemption.
RedeemedPerEnable == \A c \in Codes : enables[c].used <= enables[c].count

\* The accounts of every user: balances are well formed (frozen quota is never
\* negative), no unit of quota is lost or made by the batch updater, withdrawals,
\* codes and top-ups together, and quota from codes is never paid out.
AccountsExact == TypeOK /\ QuotaConserved /\ RedeemedStaysInside
=============================================================================
