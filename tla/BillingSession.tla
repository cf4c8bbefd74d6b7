---------------------------- MODULE BillingSession ----------------------------
(***************************************************************************)
(* The billing of relayed requests: controller.Relay (controller/relay.go) *)
(* driving a BillingSession (service/billing_session.go) over the wallet   *)
(* and subscription funding sources (service/funding_source.go).           *)
(*                                                                         *)
(* Several requests of one user run concurrently, all with the same API    *)
(* token.  One action is one database statement or transaction together    *)
(* with the control flow up to the next one, so requests interleave        *)
(* wherever the code reads a balance in one statement and writes it in a   *)
(* later one.  Every statement that writes may fail (at most MaxFaults     *)
(* times in a behaviour); a failed statement has no effect.                *)
(***************************************************************************)
EXTENDS SubscriptionQuota, FiniteSetsExt

CONSTANTS
    Requests,            \* request ids
    RequestKinds,        \* [pref, quota, playground, force] a request may have
    ActualQuotas,        \* quotas an upstream answer may cost
    ReserveTargets,      \* arguments of Reserve
    InitUserQuota,       \* users.quota at the start
    InitTokenQuota,      \* tokens.remain_quota at the start
    TokenUnlimited,      \* tokens.unlimited_quota
    TrustQuota,          \* common.GetTrustQuota(), 0 = no trust bypass
    RetryTimes,          \* common.RetryTimes
    FirstChunkFailover,  \* general_setting.first_chunk_timeout_enabled
    ViolationFee,        \* fee of a violating request, 0 = disabled
    MaxFaults,           \* bound: failing statements in a behaviour
    MaxReserves,         \* bound: Reserve calls of one request
    MaxPeriods           \* bound: reset or end dates passed in a behaviour

Preferences == {"subscription_only", "wallet_only", "wallet_first",
                "subscription_first"}

ASSUME BillingAssumption ==
    /\ IsFiniteSet(Requests)
    /\ RequestKinds \subseteq [pref : Preferences, quota : Nat,
                               playground : BOOLEAN, force : BOOLEAN]
    /\ ActualQuotas \subseteq Nat
    /\ ReserveTargets \subseteq Nat
    /\ InitUserQuota \in Int
    /\ InitTokenQuota \in Int
    /\ TokenUnlimited \in BOOLEAN
    /\ TrustQuota \in Nat
    /\ RetryTimes \in Nat
    /\ FirstChunkFailover \in BOOLEAN
    /\ ViolationFee \in Nat
    /\ MaxFaults \in Nat
    /\ MaxReserves \in Nat
    /\ MaxPeriods \in Nat

VARIABLES
    userQuota,   \* users.quota
    tokenQuota,  \* tokens.remain_quota
    sub,         \* user_subscriptions rows (see SubscriptionQuota)
    record,      \* subscription_pre_consume_records.status, per request id
    pc,          \* the next statement of each request
    info,        \* RelayInfo and the locals of controller.Relay
    sess,        \* the BillingSession and its FundingSource
    fee,         \* progress of ChargeViolationFeeIfNeeded
    moved,       \* history: net quota each session took from each balance
    faults,      \* history: statements that failed so far
    periods      \* history: reset or end dates passed so far

vars == <<userQuota, tokenQuota, sub, record, pc, info, sess, fee, moved,
          faults, periods>>

balances == <<userQuota, tokenQuota, sub, moved>>

Locations == {"idle", "tryWallet", "trySubscription", "tokenRead", "tokenWrite",
              "fundingPreConsume", "tokenRollback", "reserveRollback",
              "relaying", "settleFunding", "settleToken", "answered",
              "refundFunding", "refundMark", "refundExtra", "refundToken",
              "done", "rejected"}

NoSub == 0

NoKind == [pref |-> "wallet_only", quota |-> 0, playground |-> FALSE,
           force |-> FALSE]

NoInfo == [kind |-> NoKind, tokenSeen |-> 0, retry |-> 0, reserves |-> 0,
           actual |-> 0, late |-> FALSE, served |-> 0, noActive |-> FALSE,
           tries |-> 0]

NewSession == [source |-> "none", effective |-> 0, reserving |-> FALSE,
               preConsumed |-> 0, tokenConsumed |-> 0, extraReserved |-> 0,
               trusted |-> FALSE, fundingSettled |-> FALSE,
               settled |-> FALSE, refunded |-> FALSE,
               consumed |-> 0, subPre |-> 0, subId |-> NoSub]

NothingMoved == [wallet |-> 0, token |-> 0, sub |-> 0]

------------------------------------------------------------------------------
(* Statements on the balances.  Each records in moved what the session of  *)
(* r took (n > 0) or gave back (n < 0).                                    *)

\* DecreaseUserQuota / IncreaseUserQuota: quota = quota - n.
ChargeWallet(r, n) ==
    /\ userQuota' = userQuota - n
    /\ moved' = [moved EXCEPT ![r].wallet = @ + n]
    /\ UNCHANGED <<tokenQuota, sub>>

\* Mutant: writes back the remain_quota read at authentication.
ChargeToken_Stale(r, n) ==
    /\ tokenQuota' = info[r].tokenSeen - n
    /\ moved' = [moved EXCEPT ![r].token = @ + n]
    /\ UNCHANGED <<userQuota, sub>>

\* DecreaseTokenQuota / IncreaseTokenQuota: remain_quota = remain_quota - n.
ChargeToken(r, n) ==
    /\ tokenQuota' = tokenQuota - n
    /\ moved' = [moved EXCEPT ![r].token = @ + n]
    /\ UNCHANGED <<userQuota, sub>>

\* PostConsumeUserSubscriptionDelta on the row the session holds.
ChargeSubscription(r, n) ==
    /\ sub' = RowsAfterDelta(sub, sess[r].subId, n)
    /\ moved' = [moved EXCEPT ![r].sub = @ + n]
    /\ UNCHANGED <<userQuota, tokenQuota>>

\* Adjust the session's funding source; a subscription may refuse.
FundingAccepts(r, n) ==
    sess[r].source = "subscription" => DeltaAllowed(sub, sess[r].subId, n)

ChargeFunding(r, n) ==
    \/ sess[r].source = "wallet" /\ ChargeWallet(r, n)
    \/ sess[r].source = "subscription" /\ ChargeSubscription(r, n)

\* A statement returns an error and leaves the database as it was.
StatementFails ==
    /\ faults < MaxFaults
    /\ faults' = faults + 1
    /\ UNCHANGED balances

Goto(r, l) == pc' = [pc EXCEPT ![r] = l]

------------------------------------------------------------------------------
Init ==
    /\ userQuota = InitUserQuota
    /\ tokenQuota = InitTokenQuota
    /\ sub = [i \in Subs |-> [used |-> 0, status |-> "active",
                              resetDue |-> FALSE]]
    /\ record = [r \in Requests |-> "none"]
    /\ pc = [r \in Requests |-> "idle"]
    /\ info = [r \in Requests |-> NoInfo]
    /\ sess = [r \in Requests |-> NewSession]
    /\ fee = [r \in Requests |-> "none"]
    /\ moved = [r \in Requests |-> NothingMoved]
    /\ faults = 0
    /\ periods = 0

------------------------------------------------------------------------------
(* NewBillingSession                                                       *)

\* The switch on the billing preference; token_quota was read by the
\* authentication middleware.
NewBillingSession(r) ==
    /\ pc[r] = "idle"
    /\ \E kind \in RequestKinds :
         /\ info' = [info EXCEPT ![r] = [@ EXCEPT !.kind = kind,
                                                  !.tokenSeen = tokenQuota]]
         /\ \/ /\ \/ kind.pref = "subscription_only"
                  \/ kind.pref = "subscription_first" /\ ActiveSubs(sub) # {}
               /\ Goto(r, "trySubscription")
            \/ /\ \/ kind.pref \in {"wallet_only", "wallet_first"}
                  \/ kind.pref = "subscription_first" /\ ActiveSubs(sub) = {}
               /\ Goto(r, "tryWallet")
    /\ UNCHANGED <<balances, record, sess, fee, faults, periods>>

\* shouldTrust, for a wallet session that saw userQuota in tryWallet.
ShouldTrust(r) ==
    /\ ~info[r].kind.force
    /\ TrustQuota > 0
    /\ TokenUnlimited \/ info[r].tokenSeen > TrustQuota
    /\ userQuota > TrustQuota

TryWallet(r) ==
    /\ pc[r] = "tryWallet"
    /\ IF userQuota <= 0 \/ userQuota - info[r].kind.quota < 0
       THEN /\ Goto(r, IF info[r].kind.pref = "wallet_first"
                       THEN "trySubscription" ELSE "rejected")
            /\ UNCHANGED sess
       ELSE LET effective == IF ShouldTrust(r) THEN 0 ELSE info[r].kind.quota
            IN  /\ sess' = [sess EXCEPT ![r] =
                              [NewSession EXCEPT !.source = "wallet",
                                                 !.trusted = ShouldTrust(r),
                                                 !.effective = effective]]
                /\ Goto(r, IF effective > 0 THEN "tokenRead" ELSE "relaying")
    /\ UNCHANGED <<balances, record, info, fee, faults, periods>>

TrySubscription(r) ==
    /\ pc[r] = "trySubscription"
    /\ sess' = [sess EXCEPT ![r] =
                  [NewSession EXCEPT !.source = "subscription",
                                     !.effective = IF info[r].kind.quota <= 0
                                                   THEN 1
                                                   ELSE info[r].kind.quota]]
    /\ Goto(r, "tokenRead")
    /\ UNCHANGED <<balances, record, info, fee, faults, periods>>

------------------------------------------------------------------------------
(* PreConsumeTokenQuota: first the read and the check, then the write.     *)
(* Called by preConsume for a new session and by reserveToken.             *)

TokenPreConsumed(r) ==
    IF sess[r].reserving
    THEN /\ sess' = [sess EXCEPT ![r] =
                       [@ EXCEPT
                          !.preConsumed = sess[r].preConsumed + sess[r].effective,
                          !.tokenConsumed = sess[r].tokenConsumed + sess[r].effective,
                          !.extraReserved = sess[r].extraReserved + sess[r].effective,
                          !.reserving = FALSE]]
         /\ Goto(r, "relaying")
    ELSE /\ sess' = [sess EXCEPT ![r].tokenConsumed = sess[r].effective]
         /\ Goto(r, "fundingPreConsume")

TokenRefused(r) ==
    /\ Goto(r, IF sess[r].reserving THEN "reserveRollback" ELSE "rejected")
    /\ UNCHANGED sess

PreConsumeTokenRead(r) ==
    /\ pc[r] = "tokenRead"
    /\ \/ info[r].kind.playground /\ TokenPreConsumed(r)
       \/ /\ ~info[r].kind.playground
          /\ ~TokenUnlimited /\ tokenQuota < sess[r].effective
          /\ TokenRefused(r)
       \/ /\ ~info[r].kind.playground
          /\ TokenUnlimited \/ tokenQuota >= sess[r].effective
          /\ Goto(r, "tokenWrite")
          /\ UNCHANGED sess
    /\ UNCHANGED <<balances, record, info, fee, faults, periods>>

PreConsumeTokenWrite(r) ==
    /\ pc[r] = "tokenWrite"
    /\ \/ /\ ChargeToken(r, sess[r].effective)
          /\ TokenPreConsumed(r)
          /\ UNCHANGED faults
       \/ StatementFails /\ TokenRefused(r)
    /\ UNCHANGED <<record, info, fee, periods>>

------------------------------------------------------------------------------
(* funding.PreConsume and the rollback of the token when it fails          *)

WalletPreConsume(r) ==
    /\ pc[r] = "fundingPreConsume" /\ sess[r].source = "wallet"
    /\ \/ /\ ChargeWallet(r, sess[r].effective)
          /\ sess' = [sess EXCEPT ![r] =
                        [@ EXCEPT !.consumed = sess[r].effective,
                                  !.preConsumed = sess[r].effective]]
          /\ Goto(r, "relaying")
          /\ UNCHANGED faults
       \/ /\ StatementFails
          /\ Goto(r, "tokenRollback")
          /\ UNCHANGED sess
    /\ UNCHANGED <<record, info, fee, periods>>

\* The transaction of PreConsumeUserSubscription.  A request id has no record
\* yet: the session is the only caller and calls once.  A query of the
\* subscriptions that fails is reported as "no active subscription" too.
SubscriptionPreConsume(r) ==
    LET amount == sess[r].effective
        chosen == ChosenSub(sub, amount)
    IN
    /\ pc[r] = "fundingPreConsume" /\ sess[r].source = "subscription"
    /\ \/ /\ SufficientSubs(sub, amount) # {}
          /\ sub' = RowsAfterPreConsume(sub, amount)
          /\ record' = [record EXCEPT ![r] = "consumed"]
          /\ moved' = [moved EXCEPT ![r].sub = @ + amount]
          /\ sess' = [sess EXCEPT ![r] =
                        [@ EXCEPT !.subId = chosen, !.subPre = amount,
                                  !.preConsumed = amount]]
          /\ Goto(r, "relaying")
          /\ UNCHANGED <<userQuota, tokenQuota, info, faults>>
       \/ /\ ActiveSubs(sub) # {} /\ SufficientSubs(sub, amount) = {}
          /\ sub' = RowsAfterInsufficient(sub)
          /\ Goto(r, "tokenRollback")
          /\ UNCHANGED <<userQuota, tokenQuota, moved, record, info, sess, faults>>
       \/ /\ \/ ActiveSubs(sub) = {} /\ UNCHANGED <<balances, faults>>
             \/ StatementFails
          /\ info' = [info EXCEPT ![r].noActive = TRUE]
          /\ Goto(r, "tokenRollback")
          /\ UNCHANGED <<record, sess>>
       \/ /\ StatementFails
          /\ Goto(r, "tokenRollback")
          /\ UNCHANGED <<record, info, sess>>
    /\ UNCHANGED <<fee, periods>>

\* shouldFallbackToWalletAfterSubscriptionError: only the error "no active
\* subscription" of a subscription_first request falls back to the wallet.
FallsBackToWallet(r) ==
    sess[r].source = "subscription" /\ info[r].noActive
    /\ info[r].kind.pref = "subscription_first"

TokenRollback(r) ==
    /\ pc[r] = "tokenRollback"
    /\ \/ info[r].kind.playground /\ UNCHANGED <<balances, faults>>
       \/ /\ ~info[r].kind.playground
          /\ ChargeToken(r, -sess[r].tokenConsumed)
          /\ UNCHANGED faults
       \/ ~info[r].kind.playground /\ StatementFails
    /\ sess' = [sess EXCEPT ![r] = NewSession]
    /\ Goto(r, IF FallsBackToWallet(r) THEN "tryWallet" ELSE "rejected")
    /\ UNCHANGED <<record, info, fee, periods>>

------------------------------------------------------------------------------
(* Reserve: raise the hold.  reserveFunding first, then reserveToken (the   *)
(* actions above), rollback if that fails.  It is part of BillingSettler,  *)
(* but no handler calls it at present; the model lets it come before any   *)
(* attempt, and its caller go on after an error.                           *)

\* WalletFunding keeps count of what it took, SubscriptionFunding does not.
WalletPart(r, n) == IF sess[r].source = "wallet" THEN n ELSE 0

ReserveFunding(r) ==
    /\ pc[r] = "relaying" /\ info[r].reserves < MaxReserves
    /\ ~sess[r].settled /\ ~sess[r].refunded /\ ~sess[r].trusted
    /\ \E target \in ReserveTargets :
         LET delta == target - sess[r].preConsumed IN
         /\ delta > 0
         /\ info' = [info EXCEPT ![r].reserves = @ + 1]
         /\ \/ /\ FundingAccepts(r, delta)
               /\ ChargeFunding(r, delta)
               /\ sess' = [sess EXCEPT ![r] =
                     [@ EXCEPT !.consumed = sess[r].consumed + WalletPart(r, delta),
                               !.effective = delta,
                               !.reserving = TRUE]]
               /\ Goto(r, "tokenRead")
               /\ UNCHANGED faults
            \/ /\ ~FundingAccepts(r, delta)
               /\ UNCHANGED <<balances, sess, pc, faults>>
            \/ /\ StatementFails
               /\ UNCHANGED <<sess, pc>>
    /\ UNCHANGED <<record, fee, periods>>

\* Mutant: a rollback that leaves funding.consumed raised.
ReserveRollback_StillCounted(r) ==
    /\ pc[r] = "reserveRollback"
    /\ FundingAccepts(r, -sess[r].effective)
    /\ ChargeFunding(r, -sess[r].effective)
    /\ sess' = [sess EXCEPT ![r].reserving = FALSE]
    /\ Goto(r, "relaying")
    /\ UNCHANGED <<record, info, fee, faults, periods>>

\* rollbackFundingReserve; a failed wallet rollback stays in funding.consumed.
ReserveRollback(r) ==
    /\ pc[r] = "reserveRollback"
    /\ \/ /\ FundingAccepts(r, -sess[r].effective)
          /\ ChargeFunding(r, -sess[r].effective)
          /\ sess' = [sess EXCEPT ![r] =
                [@ EXCEPT !.consumed = sess[r].consumed
                                         - WalletPart(r, sess[r].effective),
                          !.reserving = FALSE]]
          /\ UNCHANGED faults
       \/ /\ StatementFails
          /\ sess' = [sess EXCEPT ![r].reserving = FALSE]
    /\ Goto(r, "relaying")
    /\ UNCHANGED <<record, info, fee, periods>>

------------------------------------------------------------------------------
(* BillingSession.Refund                                                   *)

\* Mutant: a settled session is refunded again.
NeedsRefund_EvenSettled(r) == ~sess[r].refunded /\ sess[r].tokenConsumed > 0

NeedsRefund(r) ==
    /\ ~sess[r].settled /\ ~sess[r].refunded /\ ~sess[r].fundingSettled
    /\ \/ sess[r].tokenConsumed > 0
       \/ sess[r].source = "subscription" /\ sess[r].subPre > 0

\* The deferred error path of controller.Relay: Refund hands the work to a
\* goroutine, and ChargeViolationFeeIfNeeded runs without waiting for it.
RelayFails(r) ==
    /\ IF NeedsRefund(r)
       THEN /\ sess' = [sess EXCEPT ![r].refunded = TRUE]
            /\ Goto(r, "refundFunding")
       ELSE Goto(r, "done") /\ UNCHANGED sess
    /\ \/ UNCHANGED fee
       \/ ViolationFee > 0 /\ fee' = [fee EXCEPT ![r] = "funding"]

\* Mutant: the retry loop does not count.
RetryOrFail_Uncounted(r) ==
    \/ info[r].retry < RetryTimes /\ Goto(r, "relaying")
       /\ UNCHANGED <<info, sess, fee>>
    \/ RelayFails(r) /\ UNCHANGED info

\* An attempt failed: the loop tries another channel or gives up.
RetryOrFail(r) ==
    \/ /\ info[r].retry < RetryTimes
       /\ info' = [info EXCEPT ![r].retry = @ + 1]
       /\ Goto(r, "relaying")
       /\ UNCHANGED <<sess, fee>>
    \/ RelayFails(r) /\ UNCHANGED info

\* Mutant: the refund goroutine returns after the funding source.
RefundWallet_Only(r) ==
    /\ pc[r] = "refundFunding" /\ sess[r].source = "wallet"
    /\ ChargeWallet(r, -sess[r].consumed)
    /\ Goto(r, "done")
    /\ UNCHANGED <<record, info, sess, fee, faults, periods>>

RefundWallet(r) ==
    /\ pc[r] = "refundFunding" /\ sess[r].source = "wallet"
    /\ \/ ChargeWallet(r, -sess[r].consumed) /\ UNCHANGED faults
       \/ StatementFails
    /\ Goto(r, "refundToken")
    /\ UNCHANGED <<record, info, sess, fee, periods>>

\* refundWithRetry makes three attempts.
RefundAttempts == 3

RefundAttemptFailed(r) ==
    /\ info' = [info EXCEPT ![r].tries = @ + 1]
    /\ Goto(r, IF info[r].tries + 1 < RefundAttempts
               THEN "refundFunding" ELSE "refundExtra")

\* RefundSubscriptionPreConsume: PostConsumeUserSubscriptionDelta commits in
\* a transaction of its own (it uses DB, not tx) ...
RefundSubscription(r) ==
    /\ pc[r] = "refundFunding" /\ sess[r].source = "subscription"
    /\ \/ /\ record[r] = "consumed"
          /\ DeltaAllowed(sub, sess[r].subId, -sess[r].subPre)
          /\ ChargeSubscription(r, -sess[r].subPre)
          /\ Goto(r, "refundMark")
          /\ UNCHANGED <<info, faults>>
       \/ StatementFails /\ RefundAttemptFailed(r)
    /\ UNCHANGED <<record, sess, fee, periods>>

\* ... and the enclosing one then marks the record.
RefundMarkRecord(r) ==
    /\ pc[r] = "refundMark"
    /\ \/ /\ record' = [record EXCEPT ![r] = "refunded"]
          /\ Goto(r, "refundExtra")
          /\ UNCHANGED <<balances, info, faults>>
       \/ StatementFails /\ RefundAttemptFailed(r) /\ UNCHANGED record
    /\ UNCHANGED <<sess, fee, periods>>

RefundExtraReserved(r) ==
    /\ pc[r] = "refundExtra"
    /\ \/ sess[r].extraReserved = 0 /\ UNCHANGED <<balances, faults>>
       \/ /\ sess[r].extraReserved > 0
          /\ DeltaAllowed(sub, sess[r].subId, -sess[r].extraReserved)
          /\ ChargeSubscription(r, -sess[r].extraReserved)
          /\ UNCHANGED faults
       \/ sess[r].extraReserved > 0 /\ StatementFails
    /\ Goto(r, "refundToken")
    /\ UNCHANGED <<record, info, sess, fee, periods>>

RefundToken(r) ==
    LET due == sess[r].tokenConsumed > 0 /\ ~info[r].kind.playground IN
    /\ pc[r] = "refundToken"
    /\ \/ ~due /\ UNCHANGED <<balances, faults>>
       \/ due /\ ChargeToken(r, -sess[r].tokenConsumed) /\ UNCHANGED faults
       \/ due /\ StatementFails
    /\ Goto(r, "done")
    /\ UNCHANGED <<record, info, sess, fee, periods>>

------------------------------------------------------------------------------
(* The attempts of controller.Relay and BillingSession.Settle              *)

\* The upstream attempt returns an error before any usage is known.
AttemptFails(r) ==
    /\ pc[r] = "relaying"
    /\ RetryOrFail(r)
    /\ UNCHANGED <<balances, record, faults, periods>>

\* The handler returns normally and has called SettleBilling(actual).  A
\* stream that timed out before its first chunk (late) returns normally too.
AttemptAnswers(r) ==
    /\ pc[r] = "relaying"
    /\ \E actual \in ActualQuotas, late \in {FALSE, FirstChunkFailover} :
         /\ info' = [info EXCEPT ![r] =
                       [@ EXCEPT !.actual = actual, !.late = late,
                                 !.served = IF late THEN info[r].served
                                                     ELSE actual]]
         /\ IF sess[r].settled \/ actual = sess[r].preConsumed
            THEN /\ sess' = [sess EXCEPT ![r].settled = TRUE]
                 /\ Goto(r, "answered")
            ELSE /\ Goto(r, "settleFunding")
                 /\ UNCHANGED sess
    /\ UNCHANGED <<balances, record, fee, faults, periods>>

\* Mutant: settle against the hold before Reserve.

SettleDelta_FirstHold(r) ==
    info[r].actual - (sess[r].preConsumed - sess[r].extraReserved)

SettleDelta(r) == info[r].actual - sess[r].preConsumed

\* Step 1 of Settle.  When it fails Settle returns and the error is logged.
SettleFunding(r) ==
    /\ pc[r] = "settleFunding"
    /\ \/ /\ FundingAccepts(r, SettleDelta(r))
          /\ ChargeFunding(r, SettleDelta(r))
          /\ sess' = [sess EXCEPT ![r].fundingSettled = TRUE]
          /\ Goto(r, "settleToken")
          /\ UNCHANGED faults
       \/ /\ ~FundingAccepts(r, SettleDelta(r))
          /\ Goto(r, "answered")
          /\ UNCHANGED <<balances, sess, faults>>
       \/ /\ StatementFails
          /\ Goto(r, "answered")
          /\ UNCHANGED sess
    /\ UNCHANGED <<record, info, fee, periods>>

\* Step 2 of Settle: a failed token adjustment is logged, the session settled.
SettleToken(r) ==
    /\ pc[r] = "settleToken"
    /\ \/ info[r].kind.playground /\ UNCHANGED <<balances, faults>>
       \/ /\ ~info[r].kind.playground
          /\ ChargeToken(r, SettleDelta(r))
          /\ UNCHANGED faults
       \/ ~info[r].kind.playground /\ StatementFails
    /\ sess' = [sess EXCEPT ![r].settled = TRUE]
    /\ Goto(r, "answered")
    /\ UNCHANGED <<record, info, fee, periods>>

\* A first-chunk timeout becomes a retryable 503, any other answer is final.
AttemptEnds(r) ==
    /\ pc[r] = "answered"
    /\ \/ ~info[r].late /\ Goto(r, "done") /\ UNCHANGED <<info, sess, fee>>
       \/ info[r].late /\ RetryOrFail(r)
    /\ UNCHANGED <<balances, record, faults, periods>>

------------------------------------------------------------------------------
(* ChargeViolationFeeIfNeeded: PostConsumeQuota(fee), concurrent with the  *)
(* refund goroutine.  The fee is not part of moved.                        *)

FeeFunding(r) ==
    /\ fee[r] = "funding"
    /\ \/ /\ sess[r].source = "wallet"
          /\ userQuota' = userQuota - ViolationFee
          /\ fee' = [fee EXCEPT ![r] = "token"]
          /\ UNCHANGED <<sub, faults>>
       \/ /\ sess[r].source = "subscription"
          /\ DeltaAllowed(sub, sess[r].subId, ViolationFee)
          /\ sub' = RowsAfterDelta(sub, sess[r].subId, ViolationFee)
          /\ fee' = [fee EXCEPT ![r] = "token"]
          /\ UNCHANGED <<userQuota, faults>>
       \/ /\ sess[r].source = "subscription"
          /\ ~DeltaAllowed(sub, sess[r].subId, ViolationFee)
          /\ fee' = [fee EXCEPT ![r] = "failed"]
          /\ UNCHANGED <<userQuota, sub, faults>>
       \/ /\ StatementFails
          /\ fee' = [fee EXCEPT ![r] = "failed"]
    /\ UNCHANGED <<tokenQuota, moved, record, pc, info, sess, periods>>

FeeToken(r) ==
    /\ fee[r] = "token"
    /\ \/ /\ tokenQuota' = tokenQuota -
                IF info[r].kind.playground THEN 0 ELSE ViolationFee
          /\ fee' = [fee EXCEPT ![r] = "charged"]
          /\ UNCHANGED <<userQuota, sub, moved, faults>>
       \/ /\ ~info[r].kind.playground /\ StatementFails
          /\ fee' = [fee EXCEPT ![r] = "failed"]
    /\ UNCHANGED <<record, pc, info, sess, periods>>

------------------------------------------------------------------------------
(* The clock, and the reset task (ResetDueSubscriptions)                   *)

PeriodEnds(i) ==
    /\ periods < MaxPeriods
    /\ periods' = periods + 1
    /\ sub[i].status = "active"
    /\ \/ sub' = [sub EXCEPT ![i].resetDue = TRUE]
       \/ sub' = [sub EXCEPT ![i].status = "expired"]
    /\ UNCHANGED <<userQuota, tokenQuota, moved, record, pc, info, sess, fee,
                   faults>>

ResetDueSubscription(i) ==
    /\ sub[i].resetDue /\ sub[i].status = "active"
    /\ sub' = [sub EXCEPT ![i] = ResetRow(@)]
    /\ UNCHANGED <<userQuota, tokenQuota, moved, record, pc, info, sess, fee,
                   faults, periods>>

------------------------------------------------------------------------------
PreConsumeStep(r) ==
    \/ NewBillingSession(r) \/ TryWallet(r) \/ TrySubscription(r)
    \/ PreConsumeTokenRead(r) \/ PreConsumeTokenWrite(r)
    \/ WalletPreConsume(r) \/ SubscriptionPreConsume(r) \/ TokenRollback(r)
    \/ ReserveRollback(r)

RelayStep(r) ==
    \/ AttemptFails(r) \/ AttemptAnswers(r) \/ AttemptEnds(r)
    \/ SettleFunding(r) \/ SettleToken(r)

RefundStep(r) ==
    \/ RefundWallet(r) \/ RefundSubscription(r) \/ RefundMarkRecord(r)
    \/ RefundExtraReserved(r) \/ RefundToken(r)

FeeStep(r) == FeeFunding(r) \/ FeeToken(r)

Finished(r) == pc[r] \in {"done", "rejected"} /\ fee[r] \notin {"funding", "token"}

Terminating == (\A r \in Requests : Finished(r)) /\ UNCHANGED vars

Next ==
    \/ \E r \in Requests :
         \/ PreConsumeStep(r) \/ ReserveFunding(r) \/ RelayStep(r)
         \/ RefundStep(r) \/ FeeStep(r)
    \/ \E i \in Subs : PeriodEnds(i) \/ ResetDueSubscription(i)
    \/ Terminating

\* Every goroutine keeps running: statements return, upstream attempts end by
\* an answer, an error or the client's timeout, the goroutine pool starts the
\* refund.  Nobody is obliged to start a request or to call Reserve.
Fairness ==
    \A r \in Requests :
        WF_vars(pc[r] # "idle" /\ (PreConsumeStep(r) \/ RelayStep(r)
                                   \/ RefundStep(r)))

Spec == Init /\ [][Next]_vars /\ Fairness

------------------------------------------------------------------------------
(* Properties                                                              *)

\* What the session of r took from its funding source so far.
FundingMoved(r) ==
    IF sess[r].source = "subscription" THEN moved[r].sub ELSE moved[r].wallet

TokenShare(r, n) == IF info[r].kind.playground THEN 0 ELSE n

\* The violation fee of r that its wallet and its token have paid.
FeeFromWallet(r) ==
    IF sess[r].source = "wallet" /\ fee[r] \in {"token", "charged"} THEN ViolationFee ELSE 0

FeeFromToken(r) == IF fee[r] = "charged" THEN TokenShare(r, ViolationFee) ELSE 0

\* What r, its fee included, has taken from the wallet, the token and subscription i.
FromWallet == [r \in Requests |-> moved[r].wallet + FeeFromWallet(r)]

FromToken == [r \in Requests |-> moved[r].token + FeeFromToken(r)]

FromSub(i) ==
    [r \in Requests |->
        IF sess[r].subId # i THEN 0
        ELSE moved[r].sub + (IF fee[r] \in {"token", "charged"} THEN ViolationFee ELSE 0)]

SettledOn(i) ==
    [r \in Requests |-> IF sess[r].subId = i /\ sess[r].settled THEN moved[r].sub ELSE 0]

InfoType ==
    [kind : RequestKinds \cup {NoKind}, tokenSeen : Int, retry : Nat,
     reserves : Nat, actual : Nat, late : BOOLEAN, served : Nat,
     noActive : BOOLEAN, tries : Nat]

SessionType ==
    [source : {"none", "wallet", "subscription"}, effective : Nat,
     reserving : BOOLEAN, preConsumed : Nat, tokenConsumed : Nat,
     extraReserved : Nat, trusted : BOOLEAN, fundingSettled : BOOLEAN,
     settled : BOOLEAN, refunded : BOOLEAN, consumed : Int, subPre : Nat,
     subId : Subs \cup {NoSub}]

\* Every balance, row, session field and program location keeps its type; in
\* particular amount_used never becomes negative.
TypeOK ==
    /\ userQuota \in Int
    /\ tokenQuota \in Int
    /\ sub \in SubscriptionRows
    /\ record \in [Requests -> {"none", "consumed", "refunded"}]
    /\ pc \in [Requests -> Locations]
    /\ info \in [Requests -> InfoType]
    /\ sess \in [Requests -> SessionType]
    /\ fee \in [Requests -> {"none", "funding", "token", "charged", "failed"}]
    /\ moved \in [Requests -> [wallet : Int, token : Int, sub : Int]]
    /\ faults \in Nat
    /\ periods \in Nat

\* A settled request has paid exactly the quota of the answer the client got,
\* from one funding source and from the token (Settle, whatever was held,
\* reserved or trusted before), provided no statement failed.
SettledChargesServed ==
    \A r \in Requests :
        faults = 0 /\ pc[r] = "done" /\ sess[r].settled =>
            /\ FundingMoved(r) = info[r].served
            /\ moved[r].wallet = 0 \/ moved[r].sub = 0
            /\ moved[r].token = TokenShare(r, info[r].served)

\* A request that was turned away, or that failed and was refunded, has cost
\* nothing: holds, reserved extras and the token are all returned.
FailureCostsNothing ==
    \A r \in Requests :
        (/\ faults = 0
         /\ pc[r] = "rejected" \/ (pc[r] = "done" /\ sess[r].refunded))
            => moved[r] = NothingMoved

\* A served request that could not be settled (its subscription refused the
\* excess) still pays its hold: nothing is served for free.
UnsettledKeepsHold ==
    \A r \in Requests :
        faults = 0 /\ pc[r] = "done" /\ ~sess[r].settled /\ ~sess[r].refunded =>
            /\ FundingMoved(r) = sess[r].preConsumed
            /\ moved[r].token = TokenShare(r, sess[r].preConsumed)

\* Whatever statements fail, no wallet and no token gets back more than the
\* session took: the wallet refund is not retried, rollbacks and refunds never
\* return the same hold twice.
NeverOverRefunded ==
    \A r \in Requests : moved[r].wallet >= 0 /\ moved[r].token >= 0

\* No interleaving of holds, settlements, refunds, fees and resets drives
\* amount_used of a limited subscription above amount_total.
UsedWithinTotal ==
    \A i \in Subs : AmountTotal[i] > 0 => sub[i].used <= AmountTotal[i]

\* Once a session is settled its balances never move again, in particular not
\* by a Refund that comes later.
SettledIsFinal ==
    [][\A r \in Requests : sess[r].settled => moved'[r] = moved[r]]_vars

\* A request that started is answered, refunded or turned away in the end.
RequestsFinish ==
    \A r \in Requests : pc[r] # "idle" ~> pc[r] \in {"done", "rejected"}

\* When no statement fails, a refund that was promised is paid in the end,
\* although a detached goroutine pays it.
RefundsArePaid ==
    \A r \in Requests :
        sess[r].refunded /\ faults = 0 ~> faults > 0 \/ moved[r] = NothingMoved

\* Every request that is over has cost what it should: the served quota, nothing,
\* or its hold (the three outcomes of Settle and Refund above).
SessionAccounts == SettledChargesServed /\ FailureCostsNothing /\ UnsettledKeepsHold

\* Every unit missing from the wallet and the token is accounted for by one
\* session or one violation fee: no update of a shared row is lost, as long as
\* no statement has failed.
RowsMatchSessions ==
    faults = 0 =>
        /\ InitUserQuota - userQuota = SumFunctionOnSet(FromWallet, Requests)
        /\ InitTokenQuota - tokenQuota = SumFunctionOnSet(FromToken, Requests)

\* An active subscription never shows more use than the sessions on it took:
\* resets, expiry and the clamp at zero only ever favour the user.
UseIsAccountedFor ==
    \A i \in Subs :
        sub[i].status = "active" => sub[i].used <= SumFunctionOnSet(FromSub(i), Requests)

\* Within a period the refund of one request never gives back what the settled
\* ones used (RefundSubscriptionPreConsume, model/subscription.go:2084).
SubscriptionRefundIdempotent ==
    \A i \in Subs :
        sub[i].status = "active" /\ periods = 0 =>
            sub[i].used >= SumFunctionOnSet(SettledOn(i), Requests)

\* amount_used of a subscription lies between what its settled requests used and
\* what all its sessions took: no reset, expiry or refund takes it out of these
\* bounds, as long as no statement has failed.
SubscriptionUseExact == faults = 0 => UseIsAccountedFor /\ SubscriptionRefundIdempotent

------------------------------------------------------------------------------
(* The wallet and the token, each as a HoldLedger.  The wallet is captured  *)
(* by the first step of Settle, the token by the second.                   *)

Phase(r, captured) ==
    IF captured THEN "captured" ELSE IF sess[r].refunded THEN "released" ELSE "open"

Fine(r, pending) ==
    IF fee[r] = "none" THEN "none" ELSE IF fee[r] \in pending THEN "due" ELSE "over"

WalletTaken == [r \in Requests |-> moved[r].wallet]

WalletPhase ==
    [r \in Requests |-> Phase(r, sess[r].settled \/ sess[r].fundingSettled)]

WalletFine == [r \in Requests |-> Fine(r, {"funding"})]

TokenTaken == [r \in Requests |-> moved[r].token]

TokenPhase == [r \in Requests |-> Phase(r, sess[r].settled)]

TokenFine == [r \in Requests |-> Fine(r, {"funding", "token"})]

WalletLedger ==
    INSTANCE HoldLedger WITH InitBalance <- InitUserQuota, Fee <- ViolationFee,
        balance <- userQuota, taken <- WalletTaken, phase <- WalletPhase, fine <- WalletFine

TokenLedger ==
    INSTANCE HoldLedger WITH InitBalance <- InitTokenQuota, Fee <- ViolationFee,
        balance <- tokenQuota, taken <- TokenTaken, phase <- TokenPhase, fine <- TokenFine

\* Whatever statements fail and however requests, refunds and fees interleave,
\* the wallet and the token are both ledgers of holds: after Settle or Refund
\* no later attempt, Reserve or second Refund takes or returns anything else.
LedgersKept == WalletLedger!Spec /\ TokenLedger!Spec
==============================================================================
