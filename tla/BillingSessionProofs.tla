------------------------- MODULE BillingSessionProofs -------------------------
(***************************************************************************)
(* TLAPS proofs about BillingSession, for every set of requests, every     *)
(* kind of request and every value of the other constants.                 *)
(***************************************************************************)
EXTENDS BillingSession, Sums

------------------------------------------------------------------------------
(* The loop of PreConsumeUserSubscription finds a first sufficient row.    *)

LEMMA ChosenSubIsSufficient ==
    ASSUME NEW rows, NEW amount, SufficientSubs(rows, amount) # {}
    PROVE  /\ ChosenSub(rows, amount) \in SufficientSubs(rows, amount)
           /\ ChosenSub(rows, amount) \in Subs
<1>1. SufficientSubs(rows, amount) \subseteq Nat
    BY SubsAssumption DEF SufficientSubs, ActiveSubs
<1>2. \E i \in SufficientSubs(rows, amount) :
         \A j \in SufficientSubs(rows, amount) : i <= j
    BY <1>1, SmallestNat
<1>3. ChosenSub(rows, amount) \in SufficientSubs(rows, amount)
    BY <1>2 DEF ChosenSub
<1> QED
    BY <1>3 DEF SufficientSubs, ActiveSubs

------------------------------------------------------------------------------
(* The operators of SubscriptionQuota map tables of rows to tables of rows *)

LEMMA DeltaType ==
    ASSUME NEW rows \in SubscriptionRows, NEW i, NEW delta \in Int
    PROVE  RowsAfterDelta(rows, i, delta) \in SubscriptionRows
<1>1. CASE i \in Subs
    BY <1>1 DEF RowsAfterDelta, UsedAfterDelta, SubscriptionRows
<1>2. CASE i \notin Subs
    <2>1. RowsAfterDelta(rows, i, delta) = rows
        BY <1>2 DEF RowsAfterDelta, SubscriptionRows
    <2> QED
        BY <2>1
<1> QED
    BY <1>1, <1>2

LEMMA PreConsumeType ==
    ASSUME NEW rows \in SubscriptionRows, NEW amount \in Nat
    PROVE  RowsAfterPreConsume(rows, amount) \in SubscriptionRows
<1> DEFINE row(i) == RowsAfterPreConsume(rows, amount)[i]
           RowType == [used : Nat, status : {"active", "expired"},
                       resetDue : BOOLEAN]
<1>1. ASSUME NEW i \in Subs
      PROVE  /\ rows[i] \in RowType
             /\ ResetRow(rows[i]) \in RowType
             /\ [ResetRow(rows[i]) EXCEPT !.used = @ + amount] \in RowType
    <2>1. rows[i] \in RowType
        BY DEF SubscriptionRows
    <2>2. ResetRow(rows[i]) \in RowType
        BY <2>1 DEF ResetRow, UsedAfterReset
    <2> QED
        BY <2>1, <2>2
<1>2. ASSUME NEW i \in Subs
      PROVE  row(i) \in RowType
    BY <1>1 DEF RowsAfterPreConsume
<1> QED
    BY <1>2 DEF RowsAfterPreConsume, SubscriptionRows

LEMMA InsufficientType ==
    ASSUME NEW rows \in SubscriptionRows
    PROVE  RowsAfterInsufficient(rows) \in SubscriptionRows
BY SubsAssumption DEF RowsAfterInsufficient, UsedAfterReset, SubscriptionRows

------------------------------------------------------------------------------
(* Type correctness                                                        *)

LEMMA InitType == Init => TypeOK
BY BillingAssumption, SubsAssumption
DEF Init, TypeOK, SubscriptionRows, InfoType, SessionType, NoInfo, NewSession,
    NothingMoved, Locations

\* The balances keep their types whatever statement runs.
LEMMA ChargeType ==
    ASSUME TypeOK, NEW r \in Requests, NEW n \in Int,
           \/ ChargeWallet(r, n) \/ ChargeToken(r, n)
           \/ ChargeSubscription(r, n) \/ UNCHANGED balances
    PROVE  /\ userQuota' \in Int /\ tokenQuota' \in Int
           /\ sub' \in SubscriptionRows
           /\ moved' \in [Requests -> [wallet : Int, token : Int, sub : Int]]
<1> USE DEF TypeOK
<1>1. CASE ChargeWallet(r, n)
    BY <1>1 DEF ChargeWallet
<1>2. CASE ChargeToken(r, n)
    BY <1>2 DEF ChargeToken
<1>3. CASE ChargeSubscription(r, n)
    BY <1>3, DeltaType DEF ChargeSubscription
<1>4. CASE UNCHANGED balances
    BY <1>4 DEF balances
<1> QED
    BY <1>1, <1>2, <1>3, <1>4

\* The fields of one session, as the provers need them.
LEMMA FieldTypes ==
    ASSUME TypeOK, NEW r \in Requests
    PROVE  /\ sess[r] \in SessionType
           /\ info[r] \in InfoType
           /\ sess[r].effective \in Nat /\ sess[r].preConsumed \in Nat
           /\ sess[r].tokenConsumed \in Nat /\ sess[r].extraReserved \in Nat
           /\ sess[r].consumed \in Int /\ sess[r].subPre \in Nat
           /\ info[r].kind.quota \in Nat /\ info[r].actual \in Nat
           /\ info[r].served \in Nat /\ info[r].reserves \in Nat
           /\ info[r].retry \in Nat /\ info[r].tries \in Nat
           /\ SettleDelta(r) \in Int
<1>1. sess[r] \in SessionType /\ info[r] \in InfoType
    BY DEF TypeOK
<1>2. info[r].kind.quota \in Nat
    BY <1>1, BillingAssumption DEF InfoType, NoKind
<1> QED
    BY <1>1, <1>2 DEF SessionType, InfoType, SettleDelta

LEMMA NewSessionType == NewSession \in SessionType
BY DEF NewSession, SessionType

\* A step that writes one session, one RelayInfo and one location.
LEMMA SessionUpdate ==
    ASSUME TypeOK, NEW r \in Requests, NEW s \in SessionType,
           sess' = [sess EXCEPT ![r] = s]
    PROVE  sess' \in [Requests -> SessionType]
BY DEF TypeOK

LEMMA InfoUpdate ==
    ASSUME TypeOK, NEW r \in Requests, NEW i \in InfoType,
           info' = [info EXCEPT ![r] = i]
    PROVE  info' \in [Requests -> InfoType]
BY DEF TypeOK

LEMMA GotoType ==
    ASSUME TypeOK, NEW r \in Requests, NEW l \in Locations, Goto(r, l)
    PROVE  pc' \in [Requests -> Locations]
BY DEF TypeOK, Goto

\* A statement either charges a balance or fails.
LEMMA StatementType ==
    ASSUME TypeOK, NEW r \in Requests, NEW n \in Int,
           \/ /\ \/ ChargeWallet(r, n) \/ ChargeToken(r, n)
                 \/ ChargeSubscription(r, n) \/ UNCHANGED balances
              /\ UNCHANGED faults
           \/ StatementFails
    PROVE  /\ userQuota' \in Int /\ tokenQuota' \in Int
           /\ sub' \in SubscriptionRows
           /\ moved' \in [Requests -> [wallet : Int, token : Int, sub : Int]]
           /\ faults' \in Nat
<1>1. CASE StatementFails
    BY <1>1, ChargeType DEF StatementFails, TypeOK
<1>2. CASE ~StatementFails
    BY <1>2, ChargeType DEF TypeOK
<1> QED
    BY <1>1, <1>2

\* What PreConsumeTokenQuota does to the session.
LEMMA TokenOutcomeType ==
    ASSUME TypeOK, NEW r \in Requests, TokenPreConsumed(r) \/ TokenRefused(r)
    PROVE  /\ sess' \in [Requests -> SessionType]
           /\ pc' \in [Requests -> Locations]
<1>0. /\ sess[r].preConsumed + sess[r].effective \in Nat
      /\ sess[r].tokenConsumed + sess[r].effective \in Nat
      /\ sess[r].extraReserved + sess[r].effective \in Nat
      /\ sess[r].effective \in Nat
      /\ sess[r] \in SessionType
    BY FieldTypes
<1>1. [sess[r] EXCEPT !.preConsumed = @ + sess[r].effective,
                      !.tokenConsumed = @ + sess[r].effective,
                      !.extraReserved = @ + sess[r].effective,
                      !.reserving = FALSE] \in SessionType
    BY <1>0 DEF SessionType
<1>2. [sess[r] EXCEPT !.tokenConsumed = sess[r].effective] \in SessionType
    BY <1>0 DEF SessionType
<1>3. sess' \in [Requests -> SessionType]
    <2>1. CASE TokenPreConsumed(r) /\ sess[r].reserving
        BY <1>1, <2>1, SessionUpdate DEF TokenPreConsumed
    <2>2. CASE TokenPreConsumed(r) /\ ~sess[r].reserving
        <3>1. sess' = [sess EXCEPT ![r] =
                         [sess[r] EXCEPT !.tokenConsumed = sess[r].effective]]
            BY <2>2 DEF TokenPreConsumed
        <3> QED
            BY <1>2, <3>1, SessionUpdate
    <2>3. CASE TokenRefused(r)
        BY <2>3 DEF TokenRefused, TypeOK
    <2> QED
        BY <2>1, <2>2, <2>3
<1>4. pc' \in [Requests -> Locations]
    BY DEF TokenPreConsumed, TokenRefused, TypeOK, Goto, Locations
<1> QED
    BY <1>3, <1>4

LEMMA NewBillingSessionType ==
    ASSUME TypeOK, NEW r \in Requests, NewBillingSession(r)
    PROVE  TypeOK'
<1>1. PICK kind \in RequestKinds :
        info' = [info EXCEPT ![r] = [@ EXCEPT !.kind = kind,
                                              !.tokenSeen = tokenQuota]]
    BY DEF NewBillingSession
<1>2. tokenQuota \in Int /\ info[r] \in InfoType
    BY DEF TypeOK
<1>3. [info[r] EXCEPT !.kind = kind, !.tokenSeen = tokenQuota] \in InfoType
    BY <1>2 DEF InfoType
<1>4. info' \in [Requests -> InfoType]
    BY <1>1, <1>3, InfoUpdate
<1>5. pc' \in [Requests -> Locations]
    BY DEF NewBillingSession, TypeOK, Goto, Locations
<1> QED
    BY <1>4, <1>5 DEF NewBillingSession, TypeOK, balances

LEMMA TryWalletType ==
    ASSUME TypeOK, NEW r \in Requests, TryWallet(r)
    PROVE  TypeOK'
<1>1. PICK n \in Nat, b \in BOOLEAN :
         \/ UNCHANGED sess
         \/ sess' = [sess EXCEPT ![r] = [NewSession EXCEPT
                      !.source = "wallet", !.trusted = b, !.effective = n]]
    BY FieldTypes DEF TryWallet, ShouldTrust
<1>2. /\ [NewSession EXCEPT !.source = "wallet", !.trusted = TRUE,
                            !.effective = n] \in SessionType
      /\ [NewSession EXCEPT !.source = "wallet", !.trusted = FALSE,
                            !.effective = n] \in SessionType
    BY NewSessionType DEF SessionType
<1>3. sess' \in [Requests -> SessionType]
    <2>1. CASE b = TRUE
        BY <1>1, <1>2, <2>1 DEF TypeOK
    <2>2. CASE b = FALSE
        BY <1>1, <1>2, <2>2 DEF TypeOK
    <2> QED
        BY <2>1, <2>2
<1>4. pc' \in [Requests -> Locations]
    BY DEF TryWallet, TypeOK, Goto, Locations
<1> QED
    BY <1>3, <1>4 DEF TryWallet, TypeOK, balances

LEMMA TrySubscriptionType ==
    ASSUME TypeOK, NEW r \in Requests, TrySubscription(r)
    PROVE  TypeOK'
<1>1. PICK n \in Nat :
         sess' = [sess EXCEPT ![r] = [NewSession EXCEPT
                    !.source = "subscription", !.effective = n]]
    BY FieldTypes DEF TrySubscription
<1>2. sess' \in [Requests -> SessionType]
    BY <1>1, NewSessionType DEF TypeOK, SessionType
<1>3. pc' \in [Requests -> Locations]
    BY DEF TrySubscription, TypeOK, Goto, Locations
<1> QED
    BY <1>2, <1>3 DEF TrySubscription, TypeOK, balances

LEMMA PreConsumeTokenType ==
    ASSUME TypeOK, NEW r \in Requests,
           PreConsumeTokenRead(r) \/ PreConsumeTokenWrite(r)
    PROVE  TypeOK'
<1>1. CASE PreConsumeTokenRead(r)
    <2>1. sess' \in [Requests -> SessionType] /\ pc' \in [Requests -> Locations]
        BY <1>1, TokenOutcomeType
        DEF PreConsumeTokenRead, TypeOK, Goto, Locations
    <2> QED
        BY <1>1, <2>1 DEF PreConsumeTokenRead, TypeOK, balances
<1>2. CASE PreConsumeTokenWrite(r)
    <2>1. sess' \in [Requests -> SessionType] /\ pc' \in [Requests -> Locations]
        BY <1>2, TokenOutcomeType DEF PreConsumeTokenWrite
    <2>2. sess[r].effective \in Int
        BY FieldTypes
    <2> QED
        BY <1>2, <2>1, <2>2, StatementType DEF PreConsumeTokenWrite, TypeOK
<1> QED
    BY <1>1, <1>2

LEMMA WalletPreConsumeType ==
    ASSUME TypeOK, NEW r \in Requests, WalletPreConsume(r)
    PROVE  TypeOK'
<1>1. /\ sess[r] \in SessionType
      /\ sess[r].effective \in Nat /\ sess[r].effective \in Int
    BY FieldTypes
<1>2. [sess[r] EXCEPT !.consumed = sess[r].effective,
                      !.preConsumed = sess[r].effective] \in SessionType
    BY <1>1 DEF SessionType
<1>3. sess' \in [Requests -> SessionType]
    BY <1>2 DEF WalletPreConsume, TypeOK
<1>4. pc' \in [Requests -> Locations]
    BY DEF WalletPreConsume, TypeOK, Goto, Locations
<1> QED
    BY <1>1, <1>3, <1>4, StatementType DEF WalletPreConsume, TypeOK

LEMMA SubscriptionPreConsumeType ==
    ASSUME TypeOK, NEW r \in Requests, SubscriptionPreConsume(r)
    PROVE  TypeOK'
<1> DEFINE amount == sess[r].effective
           chosen == ChosenSub(sub, amount)
<1>1. sess[r] \in SessionType /\ info[r] \in InfoType /\ amount \in Nat
    BY FieldTypes
<1>2. sess' \in [Requests -> SessionType]
    <2>1. CASE SufficientSubs(sub, amount) # {}
        <3>1. chosen \in Subs
            BY <2>1, ChosenSubIsSufficient
        <3>2. [sess[r] EXCEPT !.subId = chosen, !.subPre = amount,
                              !.preConsumed = amount] \in SessionType
            BY <1>1, <3>1 DEF SessionType
        <3> QED
            BY <3>2 DEF SubscriptionPreConsume, TypeOK
    <2>2. CASE SufficientSubs(sub, amount) = {}
        BY <2>2 DEF SubscriptionPreConsume, TypeOK
    <2> QED
        BY <2>1, <2>2
<1>3. pc' \in [Requests -> Locations]
    BY DEF SubscriptionPreConsume, TypeOK, Goto, Locations
<1>4. info' \in [Requests -> InfoType]
    <2>1. [info[r] EXCEPT !.noActive = TRUE] \in InfoType
        BY <1>1 DEF InfoType
    <2>2. info' = info \/ info' = [info EXCEPT ![r] =
                                     [info[r] EXCEPT !.noActive = TRUE]]
        BY DEF SubscriptionPreConsume
    <2> QED
        BY <2>1, <2>2 DEF TypeOK
<1>5. sub' \in SubscriptionRows
    BY <1>1, PreConsumeType, InsufficientType
    DEF SubscriptionPreConsume, StatementFails, TypeOK, balances
<1>6. moved' \in [Requests -> [wallet : Int, token : Int, sub : Int]]
    <2>1. moved \in [Requests -> [wallet : Int, token : Int, sub : Int]]
        BY DEF TypeOK
    <2>2. moved' = moved \/ moved' = [moved EXCEPT ![r].sub = @ + amount]
        BY DEF SubscriptionPreConsume, StatementFails, balances
    <2> QED
        BY <1>1, <2>1, <2>2
<1>7. record' \in [Requests -> {"none", "consumed", "refunded"}]
    BY DEF SubscriptionPreConsume, TypeOK
<1> QED
    BY <1>2, <1>3, <1>4, <1>5, <1>6, <1>7
    DEF SubscriptionPreConsume, StatementFails, TypeOK, balances

LEMMA TokenRollbackType ==
    ASSUME TypeOK, NEW r \in Requests, TokenRollback(r)
    PROVE  TypeOK'
<1>1. sess' \in [Requests -> SessionType]
    BY NewSessionType DEF TokenRollback, TypeOK
<1>2. pc' \in [Requests -> Locations]
    BY DEF TokenRollback, TypeOK, Goto, Locations
<1>3. -sess[r].tokenConsumed \in Int
    BY FieldTypes
<1> QED
    BY <1>1, <1>2, <1>3, StatementType DEF TokenRollback, TypeOK

LEMMA ReserveRollbackType ==
    ASSUME TypeOK, NEW r \in Requests, ReserveRollback(r)
    PROVE  TypeOK'
<1>1. sess[r] \in SessionType /\ -sess[r].effective \in Int
    BY FieldTypes
<1>2. sess[r].consumed - WalletPart(r, sess[r].effective) \in Int
    BY FieldTypes DEF WalletPart
<1>3. /\ [sess[r] EXCEPT !.consumed = @ - WalletPart(r, sess[r].effective),
                         !.reserving = FALSE] \in SessionType
      /\ [sess[r] EXCEPT !.reserving = FALSE] \in SessionType
    BY <1>1, <1>2 DEF SessionType
<1>4. sess' \in [Requests -> SessionType]
    <2>1. CASE StatementFails
        <3>1. \/ sess' = [sess EXCEPT ![r] =
                   [@ EXCEPT !.consumed = sess[r].consumed
                                            - WalletPart(r, sess[r].effective),
                             !.reserving = FALSE]]
              \/ sess' = [sess EXCEPT ![r] = [@ EXCEPT !.reserving = FALSE]]
            BY <2>1 DEF ReserveRollback
        <3> QED
            BY <1>3, <3>1, SessionUpdate
    <2>2. CASE ~StatementFails
        BY <1>3, <2>2, SessionUpdate DEF ReserveRollback
    <2> QED
        BY <2>1, <2>2
<1>5. pc' \in [Requests -> Locations]
    BY DEF ReserveRollback, TypeOK, Goto, Locations
<1> QED
    BY <1>1, <1>4, <1>5, StatementType DEF ReserveRollback, ChargeFunding, TypeOK

LEMMA ReserveFundingType ==
    ASSUME TypeOK, NEW r \in Requests, ReserveFunding(r)
    PROVE  TypeOK'
<1> DEFINE Held(delta) ==
        [sess[r] EXCEPT !.consumed = @ + WalletPart(r, delta),
                        !.effective = delta, !.reserving = TRUE]
<1>1. PICK target \in ReserveTargets :
         LET delta == target - sess[r].preConsumed IN
         /\ delta > 0
         /\ info' = [info EXCEPT ![r].reserves = @ + 1]
         /\ \/ /\ FundingAccepts(r, delta)
               /\ ChargeFunding(r, delta)
               /\ sess' = [sess EXCEPT ![r] =
                     [@ EXCEPT !.consumed = sess[r].consumed + WalletPart(r, delta),
                               !.effective = delta,
                               !.reserving = TRUE]]
               /\ Goto(r, "tokenRead")
               /\ UNCHANGED faults
            \/ /\ ~FundingAccepts(r, delta)
               /\ UNCHANGED <<balances, sess, pc, faults>>
            \/ /\ StatementFails
               /\ UNCHANGED <<sess, pc>>
    BY Zenon DEF ReserveFunding
<1> DEFINE delta == target - sess[r].preConsumed
<1>2. delta \in Nat
    BY <1>1, FieldTypes, BillingAssumption
<1>3. sess[r].consumed + WalletPart(r, delta) \in Int
    BY <1>2, FieldTypes DEF WalletPart
<1>4. sess[r] \in SessionType
    BY FieldTypes
<1> HIDE DEF delta
<1>5. Held(delta) \in SessionType
    BY <1>2, <1>3, <1>4 DEF SessionType
<1> HIDE DEF Held
<1>6. \/ sess' = [sess EXCEPT ![r] = Held(delta)] /\ Goto(r, "tokenRead")
      \/ UNCHANGED <<sess, pc>>
    BY <1>1 DEF delta, Held
<1>7. sess' \in [Requests -> SessionType]
    BY <1>5, <1>6 DEF TypeOK
<1>8. pc' \in [Requests -> Locations]
    BY <1>6 DEF TypeOK, Goto, Locations
<1>9. info' \in [Requests -> InfoType]
    <2>1. [info[r] EXCEPT !.reserves = @ + 1] \in InfoType
        BY FieldTypes DEF InfoType
    <2>2. info' = [info EXCEPT ![r] = [info[r] EXCEPT !.reserves = @ + 1]]
        BY <1>1
    <2> QED
        BY <2>1, <2>2, InfoUpdate
<1>10. \/ ChargeFunding(r, delta) /\ UNCHANGED faults
       \/ UNCHANGED balances /\ UNCHANGED faults
       \/ StatementFails
    BY <1>1 DEF delta
<1>11. /\ userQuota' \in Int /\ tokenQuota' \in Int
       /\ sub' \in SubscriptionRows
       /\ moved' \in [Requests -> [wallet : Int, token : Int, sub : Int]]
       /\ faults' \in Nat
    BY <1>2, <1>10, StatementType DEF ChargeFunding
<1> QED
    BY <1>7, <1>8, <1>9, <1>11 DEF ReserveFunding, TypeOK

LEMMA RetryOrFailType ==
    ASSUME TypeOK, NEW r \in Requests, RetryOrFail(r)
    PROVE  /\ info' \in [Requests -> InfoType]
           /\ sess' \in [Requests -> SessionType]
           /\ pc' \in [Requests -> Locations]
           /\ fee' \in [Requests -> {"none", "funding", "token", "charged",
                                     "failed"}]
<1>0. /\ info[r] \in InfoType /\ sess[r] \in SessionType
      /\ info[r].retry + 1 \in Nat
    BY FieldTypes
<1>1. /\ [info[r] EXCEPT !.retry = info[r].retry + 1] \in InfoType
      /\ [sess[r] EXCEPT !.refunded = TRUE] \in SessionType
    BY <1>0 DEF InfoType, SessionType
<1>2. CASE info' = [info EXCEPT ![r].retry = @ + 1] /\ UNCHANGED <<sess, fee>>
           /\ Goto(r, "relaying")
    <2>1. info' \in [Requests -> InfoType]
        BY <1>1, <1>2, InfoUpdate
    <2> QED
        BY <1>2, <2>1 DEF TypeOK, Goto, Locations
<1>3. CASE RelayFails(r) /\ UNCHANGED info
    <2>1. sess' = sess \/ sess' = [sess EXCEPT ![r] =
                                     [sess[r] EXCEPT !.refunded = TRUE]]
        BY <1>3 DEF RelayFails
    <2>2. sess' \in [Requests -> SessionType]
        BY <1>1, <2>1 DEF TypeOK
    <2>3. pc' \in [Requests -> Locations]
        BY <1>3 DEF RelayFails, TypeOK, Goto, Locations
    <2>4. fee' = fee \/ fee' = [fee EXCEPT ![r] = "funding"]
        BY <1>3 DEF RelayFails
    <2>5. fee' \in [Requests -> {"none", "funding", "token", "charged",
                                 "failed"}]
        BY <2>4 DEF TypeOK
    <2> QED
        BY <1>3, <2>2, <2>3, <2>5 DEF TypeOK
<1> QED
    BY <1>2, <1>3 DEF RetryOrFail

LEMMA AttemptType ==
    ASSUME TypeOK, NEW r \in Requests,
           AttemptFails(r) \/ AttemptAnswers(r) \/ AttemptEnds(r)
    PROVE  TypeOK'
<1>1. CASE AttemptFails(r)
    BY <1>1, RetryOrFailType DEF AttemptFails, TypeOK, balances
<1>2. CASE AttemptAnswers(r)
    <2>1. PICK actual \in ActualQuotas, late \in {FALSE, FirstChunkFailover} :
             info' = [info EXCEPT ![r] =
                        [@ EXCEPT !.actual = actual, !.late = late,
                                  !.served = IF late THEN info[r].served
                                                     ELSE actual]]
        BY <1>2 DEF AttemptAnswers
    <2>2. actual \in Nat /\ late \in BOOLEAN
        BY BillingAssumption
    <2>3. info' \in [Requests -> InfoType]
        <3>1. PICK served \in Nat : served = IF late THEN info[r].served
                                                     ELSE actual
            BY <2>2, FieldTypes
        <3>2. info[r] \in InfoType
            BY FieldTypes
        <3>3. [info[r] EXCEPT !.actual = actual, !.late = late,
                              !.served = served] \in InfoType
            BY <2>2, <3>2, Zenon DEF InfoType
        <3>4. info' = [info EXCEPT ![r] =
                        [info[r] EXCEPT !.actual = actual, !.late = late,
                                        !.served = served]]
            BY <2>1, <3>1
        <3> QED
            BY <3>3, <3>4, InfoUpdate
    <2>4. sess' \in [Requests -> SessionType]
        <3>1. [sess[r] EXCEPT !.settled = TRUE] \in SessionType
            BY FieldTypes DEF SessionType
        <3>2. sess' = sess \/ sess' = [sess EXCEPT ![r] =
                                         [sess[r] EXCEPT !.settled = TRUE]]
            BY <1>2 DEF AttemptAnswers
        <3> QED
            BY <3>1, <3>2 DEF TypeOK
    <2>5. pc' \in [Requests -> Locations]
        BY <1>2 DEF AttemptAnswers, TypeOK, Goto, Locations
    <2> QED
        BY <1>2, <2>3, <2>4, <2>5 DEF AttemptAnswers, TypeOK, balances
<1>3. CASE AttemptEnds(r)
    <2>1. CASE RetryOrFail(r)
        BY <1>3, <2>1, RetryOrFailType DEF AttemptEnds, TypeOK, balances
    <2>2. CASE Goto(r, "done") /\ UNCHANGED <<info, sess, fee>>
        BY <1>3, <2>2 DEF AttemptEnds, TypeOK, balances, Goto, Locations
    <2> QED
        BY <1>3, <2>1, <2>2 DEF AttemptEnds
<1> QED
    BY <1>1, <1>2, <1>3

LEMMA SettleType ==
    ASSUME TypeOK, NEW r \in Requests, SettleFunding(r) \/ SettleToken(r)
    PROVE  TypeOK'
<1>1. /\ [sess[r] EXCEPT !.settled = TRUE] \in SessionType
      /\ [sess[r] EXCEPT !.fundingSettled = TRUE] \in SessionType
      /\ SettleDelta(r) \in Int
    BY FieldTypes DEF SessionType
<1>2. sess' \in [Requests -> SessionType]
    <2>1. \/ sess' = sess
          \/ sess' = [sess EXCEPT ![r] = [sess[r] EXCEPT !.settled = TRUE]]
          \/ sess' = [sess EXCEPT ![r] = [sess[r] EXCEPT !.fundingSettled = TRUE]]
        BY DEF SettleFunding, SettleToken
    <2> QED
        BY <1>1, <2>1 DEF TypeOK
<1>3. pc' \in [Requests -> Locations]
    BY DEF SettleFunding, SettleToken, TypeOK, Goto, Locations
<1>4. CASE SettleFunding(r)
    BY <1>1, <1>2, <1>3, <1>4, StatementType
    DEF SettleFunding, ChargeFunding, TypeOK
<1>5. CASE SettleToken(r)
    BY <1>1, <1>2, <1>3, <1>5, StatementType DEF SettleToken, TypeOK
<1> QED
    BY <1>4, <1>5

LEMMA RefundStepType ==
    ASSUME TypeOK, NEW r \in Requests, RefundStep(r)
    PROVE  TypeOK'
<1>1. /\ -sess[r].consumed \in Int /\ -sess[r].subPre \in Int
      /\ -sess[r].extraReserved \in Int /\ -sess[r].tokenConsumed \in Int
    BY FieldTypes
<1>2. ASSUME RefundAttemptFailed(r)
      PROVE  info' \in [Requests -> InfoType] /\ pc' \in [Requests -> Locations]
    <2>1. [info[r] EXCEPT !.tries = info[r].tries + 1] \in InfoType
        BY FieldTypes DEF InfoType
    <2>2. info' = [info EXCEPT ![r] = [info[r] EXCEPT
                                         !.tries = info[r].tries + 1]]
        BY <1>2 DEF RefundAttemptFailed
    <2>3. info' \in [Requests -> InfoType]
        BY <2>1, <2>2, InfoUpdate
    <2>4. pc' \in [Requests -> Locations]
        BY <1>2 DEF RefundAttemptFailed, TypeOK, Goto, Locations
    <2> QED
        BY <2>3, <2>4
<1>3. CASE RefundWallet(r)
    BY <1>1, <1>3, StatementType DEF RefundWallet, TypeOK, Goto, Locations
<1>4. CASE RefundSubscription(r)
    <2>1. info' \in [Requests -> InfoType] /\ pc' \in [Requests -> Locations]
        BY <1>2, <1>4 DEF RefundSubscription, TypeOK, Goto, Locations
    <2> QED
        BY <1>1, <1>4, <2>1, StatementType DEF RefundSubscription, TypeOK
<1>5. CASE RefundMarkRecord(r)
    <2>1. info' \in [Requests -> InfoType] /\ pc' \in [Requests -> Locations]
        BY <1>2, <1>5 DEF RefundMarkRecord, TypeOK, Goto, Locations
    <2>2. record' \in [Requests -> {"none", "consumed", "refunded"}]
        BY <1>5 DEF RefundMarkRecord, TypeOK
    <2> QED
        BY <1>1, <1>5, <2>1, <2>2, StatementType DEF RefundMarkRecord, TypeOK
<1>6. CASE RefundExtraReserved(r)
    BY <1>1, <1>6, StatementType DEF RefundExtraReserved, TypeOK, Goto, Locations
<1>7. CASE RefundToken(r)
    BY <1>1, <1>7, StatementType DEF RefundToken, TypeOK, Goto, Locations
<1> QED
    BY <1>3, <1>4, <1>5, <1>6, <1>7 DEF RefundStep

LEMMA FeeStepType ==
    ASSUME TypeOK, NEW r \in Requests, FeeStep(r)
    PROVE  TypeOK'
<1>1. ViolationFee \in Int
    BY BillingAssumption
<1>2. fee' \in [Requests -> {"none", "funding", "token", "charged", "failed"}]
    BY DEF FeeStep, FeeFunding, FeeToken, TypeOK
<1>3. faults' \in Nat
    BY DEF FeeStep, FeeFunding, FeeToken, StatementFails, TypeOK
<1>4. userQuota' \in Int /\ tokenQuota' \in Int
    BY <1>1 DEF FeeStep, FeeFunding, FeeToken, StatementFails, TypeOK, balances
<1>5. sub' \in SubscriptionRows
    BY <1>1, DeltaType
    DEF FeeStep, FeeFunding, FeeToken, StatementFails, TypeOK, balances
<1> QED
    BY <1>2, <1>3, <1>4, <1>5
    DEF FeeStep, FeeFunding, FeeToken, StatementFails, TypeOK, balances

LEMMA PeriodType ==
    ASSUME TypeOK, NEW i \in Subs, PeriodEnds(i) \/ ResetDueSubscription(i)
    PROVE  TypeOK'
<1>1. sub \in SubscriptionRows
    BY DEF TypeOK
<1>2. CASE PeriodEnds(i)
    <2>1. sub' \in SubscriptionRows
        BY <1>1, <1>2 DEF PeriodEnds, SubscriptionRows
    <2> QED
        BY <1>2, <2>1 DEF PeriodEnds, TypeOK
<1>3. CASE ResetDueSubscription(i)
    <2>1. sub' \in SubscriptionRows
        BY <1>1, <1>3
        DEF ResetDueSubscription, ResetRow, UsedAfterReset, SubscriptionRows
    <2> QED
        BY <1>3, <2>1 DEF ResetDueSubscription, TypeOK
<1> QED
    BY <1>2, <1>3

LEMMA NextType == TypeOK /\ [Next]_vars => TypeOK'
<1> SUFFICES ASSUME TypeOK, [Next]_vars
             PROVE  TypeOK'
    OBVIOUS
<1>1. ASSUME NEW r \in Requests, PreConsumeStep(r)
      PROVE  TypeOK'
    BY <1>1, NewBillingSessionType, TryWalletType, TrySubscriptionType,
       PreConsumeTokenType, WalletPreConsumeType, SubscriptionPreConsumeType,
       TokenRollbackType, ReserveRollbackType
    DEF PreConsumeStep
<1>2. ASSUME NEW r \in Requests, RelayStep(r)
      PROVE  TypeOK'
    BY <1>2, AttemptType, SettleType DEF RelayStep
<1>3. CASE UNCHANGED vars
    BY <1>3 DEF vars, TypeOK
<1> QED
    BY <1>1, <1>2, <1>3, ReserveFundingType, RefundStepType, FeeStepType,
       PeriodType
    DEF Next, Terminating

\* Every balance, row, session and location keeps its type, for any number of
\* requests and whatever statements fail; amount_used is never negative.
THEOREM TypeCorrect == Spec => []TypeOK
BY InitType, NextType, PTL DEF Spec

------------------------------------------------------------------------------
(* amount_used never exceeds amount_total.  Row by row: a table within its *)
(* totals stays within them through each transaction on it.                *)

Within(rows) ==
    \A i \in Subs : AmountTotal[i] > 0 => rows[i].used <= AmountTotal[i]

LEMMA DeltaWithin ==
    ASSUME NEW rows \in SubscriptionRows, Within(rows), NEW i, NEW delta \in Int,
           DeltaAllowed(rows, i, delta)
    PROVE  Within(RowsAfterDelta(rows, i, delta))
BY SubsAssumption DEF Within, DeltaAllowed, RowsAfterDelta, SubscriptionRows

LEMMA PreConsumeWithin ==
    ASSUME NEW rows \in SubscriptionRows, Within(rows), NEW amount \in Nat,
           SufficientSubs(rows, amount) # {}
    PROVE  Within(RowsAfterPreConsume(rows, amount))
<1> DEFINE chosen == ChosenSub(rows, amount)
           after == RowsAfterPreConsume(rows, amount)
<1>1. EnoughRemain(rows, chosen, amount) /\ chosen \in Subs
    BY ChosenSubIsSufficient DEF SufficientSubs
<1> SUFFICES ASSUME NEW i \in Subs, AmountTotal[i] > 0
             PROVE  after[i].used <= AmountTotal[i]
    BY DEF Within
<1>2. /\ rows[i].used <= AmountTotal[i]
      /\ rows[i] \in [used : Nat, status : {"active", "expired"},
                      resetDue : BOOLEAN]
      /\ AmountTotal[i] \in Nat
    BY SubsAssumption DEF Within, SubscriptionRows
<1>3. /\ UsedAfterReset(rows[i]) \in Nat
      /\ UsedAfterReset(rows[i]) <= AmountTotal[i]
      /\ ResetRow(rows[i]).used = UsedAfterReset(rows[i])
      /\ [ResetRow(rows[i]) EXCEPT !.used = @ + amount].used
            = UsedAfterReset(rows[i]) + amount
    BY <1>2 DEF UsedAfterReset, ResetRow
<1>4. i = chosen => UsedAfterReset(rows[i]) + amount <= AmountTotal[i]
    BY <1>1, <1>2, <1>3 DEF EnoughRemain
<1>5. \/ after[i] = rows[i]
      \/ after[i] = ResetRow(rows[i])
      \/ i = chosen /\ after[i] = [ResetRow(rows[i]) EXCEPT !.used = @ + amount]
    BY <1>1, SubsAssumption DEF RowsAfterPreConsume
<1> QED
    BY <1>2, <1>3, <1>4, <1>5

LEMMA InsufficientWithin ==
    ASSUME NEW rows \in SubscriptionRows, Within(rows)
    PROVE  Within(RowsAfterInsufficient(rows))
BY SubsAssumption DEF Within, RowsAfterInsufficient, UsedAfterReset, SubscriptionRows

LEMMA ResetWithin ==
    ASSUME NEW rows \in SubscriptionRows, Within(rows), NEW i \in Subs
    PROVE  Within([rows EXCEPT ![i] = ResetRow(rows[i])])
BY SubsAssumption DEF Within, ResetRow, UsedAfterReset, SubscriptionRows

\* The statements of a session change rows only by an allowed delta.
LEMMA ChargeWithin ==
    ASSUME TypeOK, Within(sub), NEW r \in Requests, NEW n \in Int,
           \/ ChargeWallet(r, n)
           \/ ChargeToken(r, n)
           \/ ChargeSubscription(r, n) /\ DeltaAllowed(sub, sess[r].subId, n)
           \/ ChargeFunding(r, n) /\ FundingAccepts(r, n)
           \/ UNCHANGED balances
           \/ StatementFails
    PROVE  Within(sub')
<1>1. sub \in SubscriptionRows
    BY DEF TypeOK
<1>2. sub' = sub \/ (/\ DeltaAllowed(sub, sess[r].subId, n)
                     /\ sub' = RowsAfterDelta(sub, sess[r].subId, n))
    BY DEF ChargeWallet, ChargeToken, ChargeSubscription, ChargeFunding,
           FundingAccepts, StatementFails, balances
<1> QED
    BY <1>1, <1>2, DeltaWithin

LEMMA PreConsumeStepWithin ==
    ASSUME TypeOK, Within(sub), NEW r \in Requests, PreConsumeStep(r)
    PROVE  Within(sub')
<1>1. /\ sess[r].effective \in Nat /\ sess[r].effective \in Int
      /\ -sess[r].effective \in Int /\ -sess[r].tokenConsumed \in Int
      /\ sub \in SubscriptionRows
    BY FieldTypes DEF TypeOK
<1>2. CASE NewBillingSession(r) \/ TryWallet(r) \/ TrySubscription(r)
           \/ PreConsumeTokenRead(r)
    BY <1>2 DEF NewBillingSession, TryWallet, TrySubscription,
                PreConsumeTokenRead, balances
<1>3. CASE PreConsumeTokenWrite(r)
    BY <1>1, <1>3, ChargeWithin DEF PreConsumeTokenWrite
<1>4. CASE WalletPreConsume(r)
    BY <1>1, <1>4, ChargeWithin DEF WalletPreConsume
<1>5. CASE SubscriptionPreConsume(r)
    BY <1>1, <1>5, PreConsumeWithin, InsufficientWithin
    DEF SubscriptionPreConsume, StatementFails, balances
<1>6. CASE TokenRollback(r)
    BY <1>1, <1>6, ChargeWithin DEF TokenRollback
<1>7. CASE ReserveRollback(r)
    BY <1>1, <1>7, ChargeWithin DEF ReserveRollback
<1> QED
    BY <1>2, <1>3, <1>4, <1>5, <1>6, <1>7 DEF PreConsumeStep

LEMMA ReserveFundingWithin ==
    ASSUME TypeOK, Within(sub), NEW r \in Requests, ReserveFunding(r)
    PROVE  Within(sub')
<1>1. PICK target \in ReserveTargets :
         LET delta == target - sess[r].preConsumed IN
            \/ FundingAccepts(r, delta) /\ ChargeFunding(r, delta)
            \/ UNCHANGED balances
            \/ StatementFails
    BY DEF ReserveFunding, balances
<1>2. target - sess[r].preConsumed \in Int
    BY FieldTypes, BillingAssumption
<1> QED
    BY <1>1, <1>2, ChargeWithin

LEMMA RelayStepWithin ==
    ASSUME TypeOK, Within(sub), NEW r \in Requests,
           RelayStep(r) \/ RefundStep(r)
    PROVE  Within(sub')
<1>1. /\ SettleDelta(r) \in Int /\ -sess[r].consumed \in Int
      /\ -sess[r].subPre \in Int /\ -sess[r].extraReserved \in Int
      /\ -sess[r].tokenConsumed \in Int
    BY FieldTypes
<1>2. CASE AttemptFails(r) \/ AttemptAnswers(r) \/ AttemptEnds(r)
    BY <1>2 DEF AttemptFails, AttemptAnswers, AttemptEnds, balances
<1>3. CASE SettleFunding(r)
    BY <1>1, <1>3, ChargeWithin DEF SettleFunding
<1>4. CASE SettleToken(r)
    BY <1>1, <1>4, ChargeWithin DEF SettleToken
<1>5. CASE RefundWallet(r)
    BY <1>1, <1>5, ChargeWithin DEF RefundWallet
<1>6. CASE RefundSubscription(r)
    BY <1>1, <1>6, ChargeWithin DEF RefundSubscription
<1>7. CASE RefundMarkRecord(r)
    BY <1>1, <1>7, ChargeWithin DEF RefundMarkRecord
<1>8. CASE RefundExtraReserved(r)
    BY <1>1, <1>8, ChargeWithin DEF RefundExtraReserved
<1>9. CASE RefundToken(r)
    BY <1>1, <1>9, ChargeWithin DEF RefundToken
<1> QED
    BY <1>2, <1>3, <1>4, <1>5, <1>6, <1>7, <1>8, <1>9 DEF RelayStep, RefundStep

LEMMA FeeStepWithin ==
    ASSUME TypeOK, Within(sub), NEW r \in Requests, FeeStep(r)
    PROVE  Within(sub')
<1>1. ViolationFee \in Int /\ sub \in SubscriptionRows
    BY BillingAssumption DEF TypeOK
<1>2. \/ sub' = sub
      \/ /\ DeltaAllowed(sub, sess[r].subId, ViolationFee)
         /\ sub' = RowsAfterDelta(sub, sess[r].subId, ViolationFee)
    BY DEF FeeStep, FeeFunding, FeeToken, StatementFails, balances
<1> QED
    BY <1>1, <1>2, DeltaWithin

LEMMA PeriodWithin ==
    ASSUME TypeOK, Within(sub), NEW i \in Subs,
           PeriodEnds(i) \/ ResetDueSubscription(i)
    PROVE  Within(sub')
<1>1. sub \in SubscriptionRows
    BY DEF TypeOK
<1>2. CASE PeriodEnds(i)
    BY <1>1, <1>2 DEF PeriodEnds, Within, SubscriptionRows
<1>3. CASE ResetDueSubscription(i)
    BY <1>1, <1>3, ResetWithin DEF ResetDueSubscription
<1> QED
    BY <1>2, <1>3

LEMMA NextWithin == TypeOK /\ Within(sub) /\ [Next]_vars => Within(sub')
<1> SUFFICES ASSUME TypeOK, Within(sub), [Next]_vars
             PROVE  Within(sub')
    OBVIOUS
<1>1. CASE UNCHANGED vars
    BY <1>1 DEF vars
<1> QED
    BY <1>1, PreConsumeStepWithin, ReserveFundingWithin, RelayStepWithin,
       FeeStepWithin, PeriodWithin
    DEF Next, Terminating

\* However holds, settlements, refunds, violation fees, resets and expiries
\* interleave and whatever statements fail, amount_used of a limited
\* subscription never exceeds amount_total.
THEOREM QuotaNeverExceeded == Spec => []UsedWithinTotal
<1>1. Init => Within(sub)
    BY SubsAssumption DEF Init, Within
<1>2. Within(sub) <=> UsedWithinTotal
    BY DEF Within, UsedWithinTotal
<1>3. Within(sub') <=> Within(sub)'
    OBVIOUS
<1> QED
    BY <1>1, <1>2, <1>3, NextWithin, TypeCorrect, PTL DEF Spec

------------------------------------------------------------------------------
(* What a session has taken.  NeverOverRefunded alone is not inductive: a  *)
(* refund gives back what the fields of the session say, so they have to   *)
(* agree with what was taken, at every location and after every failure.   *)

Fresh == {"idle", "tryWallet", "trySubscription"}

Opening == {"tokenRead", "tokenWrite", "fundingPreConsume", "tokenRollback"}

Refunding == {"refundFunding", "refundMark", "refundExtra", "refundToken"}

\* The refund has been paid, or has failed for good.
RefundOver(r) == sess[r].refunded /\ pc[r] = "done"

\* What Reserve has taken from the funding source and not yet from the token.
Pending(r) == IF sess[r].reserving THEN sess[r].effective ELSE 0

\* Which flags a session has where.
FlagsOK(r) ==
    /\ pc[r] \in Fresh => sess[r] = NewSession
    /\ pc[r] = "tokenWrite" => ~info[r].kind.playground
    /\ sess[r].settled => pc[r] \in {"relaying", "answered", "done"}
    /\ sess[r].reserving => pc[r] \in {"tokenRead", "tokenWrite", "reserveRollback"}
    /\ pc[r] = "reserveRollback" => sess[r].reserving
    /\ sess[r].fundingSettled => sess[r].settled \/ pc[r] = "settleToken"
    /\ pc[r] = "settleToken" => sess[r].fundingSettled
    /\ sess[r].refunded => /\ pc[r] \in Refunding \cup {"done"}
                           /\ ~sess[r].settled /\ ~sess[r].fundingSettled
    /\ pc[r] \in Refunding => sess[r].refunded

\* The token has given at least what the session will give back.
TokenOK(r) ==
    /\ pc[r] \in {"fundingPreConsume", "tokenRollback"} =>
           sess[r].preConsumed = 0 /\ sess[r].tokenConsumed = sess[r].effective
    /\ pc[r] \in {"tokenRead", "tokenWrite"} /\ ~sess[r].reserving =>
           sess[r].preConsumed = 0
    /\ pc[r] \notin {"fundingPreConsume", "tokenRollback"} =>
           sess[r].preConsumed = sess[r].tokenConsumed
    /\ moved[r].token >= 0
    /\ ~sess[r].settled /\ ~RefundOver(r) =>
           moved[r].token >= TokenShare(r, sess[r].tokenConsumed)

\* The wallet has given what funding.consumed says, which covers the hold.
WalletOK(r) ==
    /\ moved[r].wallet >= 0
    /\ sess[r].source # "wallet" => moved[r].wallet = 0
    /\ sess[r].source = "wallet" => sess[r].consumed >= sess[r].preConsumed + Pending(r)
    /\ pc[r] \in Opening /\ ~sess[r].reserving => sess[r].consumed = 0
    /\ (/\ sess[r].source = "wallet" /\ ~sess[r].fundingSettled
        /\ pc[r] # "refundToken" /\ ~RefundOver(r)) => moved[r].wallet = sess[r].consumed

HoldOK(r) == FlagsOK(r) /\ TokenOK(r) /\ WalletOK(r)


\* What the session has taken from its funding source if no statement failed.
Due(r) ==
    IF sess[r].settled THEN info[r].served
    ELSE IF pc[r] = "settleToken" THEN info[r].actual
    ELSE IF pc[r] \in {"refundMark", "refundExtra"} THEN sess[r].extraReserved
    ELSE IF pc[r] = "refundToken" \/ RefundOver(r) THEN 0
    ELSE sess[r].preConsumed + Pending(r)

\* And from the token.
TokenDue(r) ==
    IF sess[r].settled THEN info[r].served
    ELSE IF RefundOver(r) THEN 0 ELSE sess[r].tokenConsumed

\* An answer that is not late is the last.
AnswerOK(r) ==
    /\ ~info[r].late
    /\ pc[r] \in {"settleFunding", "settleToken", "answered"} => info[r].served = info[r].actual
    /\ sess[r].settled => pc[r] \in {"answered", "done"}

SourceOK(r) ==
    /\ sess[r].source = "none" => pc[r] \in Fresh \cup {"rejected"} /\ sess[r].preConsumed = 0
    /\ pc[r] \in {"refundMark", "refundExtra"} => sess[r].source = "subscription"
    /\ sess[r].source = "subscription" =>
           sess[r].preConsumed = sess[r].subPre + sess[r].extraReserved
    /\ pc[r] = "rejected" => sess[r].preConsumed = 0

ExactOK(r) ==
    faults = 0 =>
        /\ moved[r].token = TokenShare(r, TokenDue(r))
        /\ sess[r].source # "subscription" => moved[r].sub = 0
        /\ FundingMoved(r) = Due(r)

AccountOK(r) == AnswerOK(r) /\ SourceOK(r) /\ ExactOK(r)

\* Both parts of the invariant of a request; the second one without first-chunk failovers.
RequestOK(r) == HoldOK(r) /\ (~FirstChunkFailover => AccountOK(r))

SessionInvariant == TypeOK /\ \A r \in Requests : RequestOK(r)

\* A request that a step does not touch.
LEMMA RequestKept ==
    ASSUME NEW q \in Requests, RequestOK(q), sess'[q] = sess[q], pc'[q] = pc[q],
           info'[q] = info[q], moved'[q] = moved[q], faults' = 0 => faults = 0
    PROVE  RequestOK(q)'
BY DEF RequestOK, HoldOK, FlagsOK, TokenOK, WalletOK, RefundOver, Pending, TokenShare, AccountOK,
       AnswerOK, SourceOK, ExactOK, Due, TokenDue, FundingMoved

\* What the statements of request r do to moved.
LEMMA ChargeMoves ==
    ASSUME TypeOK, NEW r \in Requests, NEW n \in Int
    PROVE  /\ moved[r].wallet \in Int /\ moved[r].token \in Int /\ moved[r].sub \in Int
           /\ ChargeWallet(r, n) =>
                /\ moved'[r].wallet = moved[r].wallet + n /\ moved'[r].token = moved[r].token
                /\ moved'[r].sub = moved[r].sub
                /\ \A q \in Requests : q # r => moved'[q] = moved[q]
           /\ ChargeToken(r, n) =>
                /\ moved'[r].token = moved[r].token + n /\ moved'[r].wallet = moved[r].wallet
                /\ moved'[r].sub = moved[r].sub
                /\ \A q \in Requests : q # r => moved'[q] = moved[q]
           /\ ChargeSubscription(r, n) =>
                /\ moved'[r].sub = moved[r].sub + n /\ moved'[r].wallet = moved[r].wallet
                /\ moved'[r].token = moved[r].token
                /\ \A q \in Requests : q # r => moved'[q] = moved[q]
           /\ UNCHANGED balances \/ StatementFails => moved' = moved
BY DEF TypeOK, ChargeWallet, ChargeToken, ChargeSubscription, StatementFails, balances


LEMMA ReserveRollbackOK ==
    ASSUME TypeOK, NEW r \in Requests, RequestOK(r), ReserveRollback(r)
    PROVE  RequestOK(r)'
<1> USE DEF RequestOK, HoldOK, FlagsOK, TokenOK, WalletOK, RefundOver, Pending, TokenShare, AccountOK,
            AnswerOK, SourceOK, ExactOK, Due, TokenDue, FundingMoved, Fresh, Opening, Refunding
<1>1. /\ sess[r] \in SessionType /\ sess \in [Requests -> SessionType] /\ pc \in [Requests -> Locations]
      /\ sess[r].effective \in Nat /\ sess[r].preConsumed \in Nat /\ sess[r].tokenConsumed \in Nat
      /\ sess[r].consumed \in Int
    BY FieldTypes DEF TypeOK
<1>2. pc[r] = "reserveRollback" /\ pc'[r] = "relaying" /\ info' = info
    BY <1>1 DEF ReserveRollback, Goto
<1>3. CASE /\ ChargeFunding(r, -sess[r].effective) /\ UNCHANGED faults
           /\ sess' = [sess EXCEPT ![r] =
                [@ EXCEPT !.consumed = sess[r].consumed - WalletPart(r, sess[r].effective),
                          !.reserving = FALSE]]
    <2>1. /\ sess'[r].source = sess[r].source /\ sess'[r].reserving = FALSE
          /\ sess'[r].consumed = sess[r].consumed - WalletPart(r, sess[r].effective)
          /\ sess'[r].preConsumed = sess[r].preConsumed /\ sess'[r].tokenConsumed = sess[r].tokenConsumed
          /\ sess'[r].settled = sess[r].settled /\ sess'[r].fundingSettled = sess[r].fundingSettled
          /\ sess'[r].refunded = sess[r].refunded /\ sess'[r].subPre = sess[r].subPre
          /\ sess'[r].extraReserved = sess[r].extraReserved
        BY <1>1, <1>3 DEF SessionType
    <2>2. CASE sess[r].source = "wallet" /\ ChargeWallet(r, -sess[r].effective)
        <3>1. /\ moved'[r].wallet = moved[r].wallet - sess[r].effective /\ moved[r].wallet \in Int
              /\ moved'[r].token = moved[r].token /\ moved'[r].sub = moved[r].sub
            BY <1>1, <2>2, ChargeMoves
        <3> QED
            BY <1>1, <1>2, <1>3, <2>1, <2>2, <3>1 DEF WalletPart
    <2>3. CASE sess[r].source = "subscription" /\ ChargeSubscription(r, -sess[r].effective)
        <3>1. /\ moved'[r].sub = moved[r].sub - sess[r].effective /\ moved[r].sub \in Int
              /\ moved'[r].token = moved[r].token /\ moved'[r].wallet = moved[r].wallet
            BY <1>1, <2>3, ChargeMoves
        <3> QED
            BY <1>1, <1>2, <1>3, <2>1, <2>3, <3>1 DEF WalletPart
    <2> QED
        BY <1>3, <2>2, <2>3 DEF ChargeFunding
<1>4. CASE StatementFails /\ sess' = [sess EXCEPT ![r].reserving = FALSE]
    <2>1. /\ sess'[r].source = sess[r].source /\ sess'[r].reserving = FALSE
          /\ sess'[r].consumed = sess[r].consumed
          /\ sess'[r].preConsumed = sess[r].preConsumed /\ sess'[r].tokenConsumed = sess[r].tokenConsumed
          /\ sess'[r].settled = sess[r].settled /\ sess'[r].fundingSettled = sess[r].fundingSettled
          /\ sess'[r].refunded = sess[r].refunded /\ sess'[r].subPre = sess[r].subPre
          /\ sess'[r].extraReserved = sess[r].extraReserved
        BY <1>1, <1>4 DEF SessionType
    <2>2. moved' = moved /\ faults' # 0
        BY <1>4 DEF StatementFails, balances, TypeOK
    <2> QED
        BY <1>1, <1>2, <2>1, <2>2
<1> QED
    BY <1>3, <1>4 DEF ReserveRollback

LEMMA NewBillingSessionOK ==
    ASSUME TypeOK, NEW r \in Requests, RequestOK(r), NewBillingSession(r)
    PROVE  RequestOK(r)'
<1> USE DEF RequestOK, HoldOK, FlagsOK, TokenOK, WalletOK, RefundOver, Pending, TokenShare, AccountOK,
            AnswerOK, SourceOK, ExactOK, Due, TokenDue, FundingMoved, Fresh, Opening, Refunding
<1>1. info \in [Requests -> InfoType] /\ pc \in [Requests -> Locations]
    BY DEF TypeOK
<1>2. pc[r] = "idle" /\ pc'[r] \in {"tryWallet", "trySubscription"} /\ sess' = sess /\ moved' = moved
      /\ faults' = faults
    BY <1>1 DEF NewBillingSession, Goto, balances
<1>3. info'[r].late = info[r].late
    BY <1>1 DEF NewBillingSession, InfoType
<1>4. /\ sess[r] = NewSession /\ NewSession.tokenConsumed = 0 /\ NewSession.settled = FALSE
      /\ NewSession.refunded = FALSE
    BY <1>2 DEF NewSession
<1> QED
    BY <1>1, <1>2, <1>3, <1>4

LEMMA TryOK ==
    ASSUME TypeOK, NEW r \in Requests, RequestOK(r), TryWallet(r) \/ TrySubscription(r)
    PROVE  RequestOK(r)'
<1> USE DEF RequestOK, HoldOK, FlagsOK, TokenOK, WalletOK, RefundOver, Pending, TokenShare, AccountOK,
            AnswerOK, SourceOK, ExactOK, Due, TokenDue, FundingMoved, Fresh, Opening, Refunding
<1>1. sess \in [Requests -> SessionType] /\ pc \in [Requests -> Locations] /\ info[r].kind.quota \in Nat
    BY FieldTypes DEF TypeOK
<1>2. pc[r] \in Fresh /\ moved' = moved /\ faults' = faults /\ info' = info
    BY DEF TryWallet, TrySubscription, balances
<1>3. sess[r] = NewSession
    BY <1>2
<1>4. /\ NewSession.source = "none" /\ NewSession.tokenConsumed = 0 /\ NewSession.settled = FALSE
      /\ NewSession.refunded = FALSE /\ NewSession.preConsumed = 0
    BY DEF NewSession
<1>5. CASE UNCHANGED sess /\ pc'[r] \in {"trySubscription", "rejected"}
    BY <1>2, <1>3, <1>4, <1>5 DEF NewSession
<1>6. ASSUME NEW n \in Nat, NEW x \in {"wallet", "subscription"},
             /\ sess'[r].source = x /\ sess'[r].tokenConsumed = 0 /\ sess'[r].settled = FALSE
             /\ sess'[r].refunded = FALSE /\ sess'[r].preConsumed = 0 /\ sess'[r].reserving = FALSE
             /\ sess'[r].fundingSettled = FALSE /\ sess'[r].consumed = 0 /\ sess'[r].effective = n
             /\ sess'[r].subPre = 0 /\ sess'[r].extraReserved = 0,
             pc'[r] = "tokenRead" \/ (n = 0 /\ x = "wallet" /\ pc'[r] = "relaying")
      PROVE  RequestOK(r)'
    BY <1>2, <1>3, <1>4, <1>6
<1>7. CASE TryWallet(r)
    <2> DEFINE trust == ShouldTrust(r)
               n == IF trust THEN 0 ELSE info[r].kind.quota
               new == [NewSession EXCEPT !.source = "wallet", !.trusted = trust, !.effective = n]
    <2>1. n \in Nat
        BY <1>1
    <2>2. \/ UNCHANGED sess /\ pc'[r] \in {"trySubscription", "rejected"}
          \/ sess'[r] = new /\ (pc'[r] = "tokenRead" \/ (~(n > 0) /\ pc'[r] = "relaying"))
        <3> HIDE DEF n
        <3>1. \/ UNCHANGED sess /\ Goto(r, IF info[r].kind.pref = "wallet_first"
                                          THEN "trySubscription" ELSE "rejected")
              \/ sess' = [sess EXCEPT ![r] = new] /\ Goto(r, IF n > 0 THEN "tokenRead" ELSE "relaying")
            BY <1>7, Zenon DEF TryWallet, n
        <3> HIDE DEF new
        <3> QED
            BY <1>1, <3>1 DEF Goto
    <2>3. /\ new.source = "wallet" /\ new.tokenConsumed = 0 /\ new.settled = FALSE
          /\ new.refunded = FALSE /\ new.preConsumed = 0 /\ new.reserving = FALSE
          /\ new.fundingSettled = FALSE /\ new.consumed = 0 /\ new.effective = n
          /\ new.subPre = 0 /\ new.extraReserved = 0
        <3> HIDE DEF n, trust
        <3> QED
            BY DEF NewSession
    <2>4. ~(n > 0) => n = 0
        BY <2>1
    <2> HIDE DEF new, n, RequestOK
    <2>5. CASE sess'[r] = new /\ (pc'[r] = "tokenRead" \/ (n = 0 /\ pc'[r] = "relaying"))
        BY <1>6, <2>1, <2>3, <2>5
    <2> QED
        BY <1>5, <2>2, <2>4, <2>5, Zenon
<1>8. CASE TrySubscription(r)
    <2> DEFINE n == IF info[r].kind.quota <= 0 THEN 1 ELSE info[r].kind.quota
    <2>1. n \in Nat /\ sess' = [sess EXCEPT ![r] = [NewSession EXCEPT !.source = "subscription",
                                                                     !.effective = n]]
          /\ pc'[r] = "tokenRead"
        BY <1>1, <1>8 DEF TrySubscription, Goto
    <2> HIDE DEF n
    <2>2. /\ sess'[r].source = "subscription" /\ sess'[r].tokenConsumed = 0 /\ sess'[r].settled = FALSE
          /\ sess'[r].refunded = FALSE /\ sess'[r].preConsumed = 0 /\ sess'[r].reserving = FALSE
          /\ sess'[r].fundingSettled = FALSE /\ sess'[r].consumed = 0 /\ sess'[r].effective = n
          /\ sess'[r].subPre = 0 /\ sess'[r].extraReserved = 0
        BY <1>1, <2>1 DEF NewSession
    <2> QED
        BY <1>6, <2>1, <2>2
<1> QED
    BY <1>7, <1>8

\* PreConsumeTokenQuota succeeds: the token has given what is pending.
LEMMA TokenPreConsumedOK ==
    ASSUME TypeOK, NEW r \in Requests, RequestOK(r), pc[r] \in {"tokenRead", "tokenWrite"},
           TokenPreConsumed(r), info' = info, UNCHANGED faults,
           moved'[r].token = moved[r].token + TokenShare(r, sess[r].effective),
           moved'[r].wallet = moved[r].wallet, moved'[r].sub = moved[r].sub
    PROVE  RequestOK(r)'
<1> USE DEF RequestOK, HoldOK, FlagsOK, TokenOK, WalletOK, RefundOver, Pending, TokenShare, AccountOK,
            AnswerOK, SourceOK, ExactOK, Due, TokenDue, FundingMoved, Fresh, Opening, Refunding
<1>1. /\ sess[r] \in SessionType /\ sess \in [Requests -> SessionType] /\ pc \in [Requests -> Locations]
      /\ sess[r].effective \in Nat /\ sess[r].preConsumed \in Nat /\ sess[r].tokenConsumed \in Nat
      /\ sess[r].consumed \in Int /\ sess[r].extraReserved \in Nat /\ sess[r].subPre \in Nat
      /\ moved[r].token \in Int
    BY FieldTypes DEF TypeOK
<1>2. CASE sess[r].reserving
    <2>1. /\ sess'[r].source = sess[r].source /\ sess'[r].reserving = FALSE
          /\ sess'[r].consumed = sess[r].consumed
          /\ sess'[r].preConsumed = sess[r].preConsumed + sess[r].effective
          /\ sess'[r].tokenConsumed = sess[r].tokenConsumed + sess[r].effective
          /\ sess'[r].extraReserved = sess[r].extraReserved + sess[r].effective
          /\ sess'[r].settled = sess[r].settled /\ sess'[r].fundingSettled = sess[r].fundingSettled
          /\ sess'[r].refunded = sess[r].refunded /\ sess'[r].subPre = sess[r].subPre
          /\ pc'[r] = "relaying"
        <3>1. /\ sess' = [sess EXCEPT ![r] =
                   [@ EXCEPT !.preConsumed = sess[r].preConsumed + sess[r].effective,
                             !.tokenConsumed = sess[r].tokenConsumed + sess[r].effective,
                             !.extraReserved = sess[r].extraReserved + sess[r].effective,
                             !.reserving = FALSE]]
              /\ Goto(r, "relaying")
            BY <1>2, Zenon DEF TokenPreConsumed
        <3> QED
            BY <1>1, <3>1 DEF SessionType, Goto
    <2> QED
        BY <1>1, <1>2, <2>1
<1>3. CASE ~sess[r].reserving
    <2>1. /\ sess'[r].source = sess[r].source /\ sess'[r].reserving = sess[r].reserving
          /\ sess'[r].consumed = sess[r].consumed /\ sess'[r].effective = sess[r].effective
          /\ sess'[r].preConsumed = sess[r].preConsumed
          /\ sess'[r].tokenConsumed = sess[r].effective
          /\ sess'[r].extraReserved = sess[r].extraReserved
          /\ sess'[r].settled = sess[r].settled /\ sess'[r].fundingSettled = sess[r].fundingSettled
          /\ sess'[r].refunded = sess[r].refunded /\ sess'[r].subPre = sess[r].subPre
          /\ pc'[r] = "fundingPreConsume"
        BY <1>1, <1>3 DEF SessionType, TokenPreConsumed, Goto
    <2> QED
        BY <1>1, <1>3, <2>1
<1> QED
    BY <1>2, <1>3

LEMMA PreConsumeTokenOK ==
    ASSUME TypeOK, NEW r \in Requests, RequestOK(r), PreConsumeTokenRead(r) \/ PreConsumeTokenWrite(r)
    PROVE  RequestOK(r)'
<1>1. /\ sess[r].effective \in Nat /\ sess[r].preConsumed \in Nat /\ moved[r].token \in Int
      /\ pc \in [Requests -> Locations]
    BY FieldTypes DEF TypeOK
<1>2. pc[r] \in {"tokenRead", "tokenWrite"} /\ info' = info
    BY DEF PreConsumeTokenRead, PreConsumeTokenWrite
<1>3. ASSUME UNCHANGED sess, moved' = moved, faults' = 0 => faults = 0,
             \/ pc'[r] = "tokenWrite" /\ ~info[r].kind.playground
             \/ pc'[r] = IF sess[r].reserving THEN "reserveRollback" ELSE "rejected"
      PROVE  RequestOK(r)'
    BY <1>1, <1>2, <1>3 DEF RequestOK, HoldOK, FlagsOK, TokenOK, WalletOK, RefundOver, Pending,
       TokenShare, AccountOK, AnswerOK, SourceOK, ExactOK, Due, TokenDue, FundingMoved, Fresh, Opening,
       Refunding
<1>4. CASE PreConsumeTokenRead(r)
    <2>1. UNCHANGED faults /\ moved' = moved
        BY <1>4 DEF PreConsumeTokenRead, balances
    <2>2. CASE info[r].kind.playground /\ TokenPreConsumed(r)
        <3>1. moved'[r].token = moved[r].token + TokenShare(r, sess[r].effective)
            BY <1>1, <2>1, <2>2 DEF TokenShare
        <3> QED
            BY <1>2, <2>1, <2>2, <3>1, TokenPreConsumedOK
    <2>3. CASE TokenRefused(r)
        BY <1>1, <1>3, <2>1, <2>3 DEF TokenRefused, Goto
    <2>4. CASE Goto(r, "tokenWrite") /\ UNCHANGED sess /\ ~info[r].kind.playground
        BY <1>1, <1>3, <2>1, <2>4 DEF Goto
    <2> QED
        BY <1>4, <2>2, <2>3, <2>4 DEF PreConsumeTokenRead
<1>5. CASE PreConsumeTokenWrite(r)
    <2>1. CASE ChargeToken(r, sess[r].effective) /\ TokenPreConsumed(r) /\ UNCHANGED faults
        <3>1. ~info[r].kind.playground
            BY <1>5 DEF PreConsumeTokenWrite, RequestOK, HoldOK, FlagsOK
        <3>2. moved'[r].token = moved[r].token + TokenShare(r, sess[r].effective)
              /\ moved'[r].wallet = moved[r].wallet /\ moved'[r].sub = moved[r].sub
            BY <1>1, <2>1, <3>1, ChargeMoves DEF TokenShare
        <3> QED
            BY <1>2, <2>1, <3>2, TokenPreConsumedOK
    <2>2. CASE StatementFails /\ TokenRefused(r)
        <3>1. moved' = moved /\ faults' # 0
            BY <2>2 DEF StatementFails, balances, TypeOK
        <3> QED
            BY <1>1, <1>3, <2>2, <3>1 DEF TokenRefused, Goto
    <2> QED
        BY <1>5, <2>1, <2>2 DEF PreConsumeTokenWrite
<1> QED
    BY <1>4, <1>5

LEMMA WalletPreConsumeOK ==
    ASSUME TypeOK, NEW r \in Requests, RequestOK(r), WalletPreConsume(r)
    PROVE  RequestOK(r)'
<1> USE DEF RequestOK, HoldOK, FlagsOK, TokenOK, WalletOK, RefundOver, Pending, TokenShare, AccountOK,
            AnswerOK, SourceOK, ExactOK, Due, TokenDue, FundingMoved, Fresh, Opening, Refunding
<1>1. /\ sess[r] \in SessionType /\ sess \in [Requests -> SessionType] /\ pc \in [Requests -> Locations]
      /\ sess[r].effective \in Nat
    BY FieldTypes DEF TypeOK
<1>2. pc[r] = "fundingPreConsume" /\ sess[r].source = "wallet" /\ info' = info
    BY DEF WalletPreConsume
<1>3. CASE /\ ChargeWallet(r, sess[r].effective) /\ UNCHANGED faults /\ Goto(r, "relaying")
           /\ sess' = [sess EXCEPT ![r] = [@ EXCEPT !.consumed = sess[r].effective,
                                                    !.preConsumed = sess[r].effective]]
    <2>1. /\ sess'[r].source = sess[r].source /\ sess'[r].reserving = sess[r].reserving
          /\ sess'[r].consumed = sess[r].effective /\ sess'[r].preConsumed = sess[r].effective
          /\ sess'[r].tokenConsumed = sess[r].tokenConsumed
          /\ sess'[r].settled = sess[r].settled /\ sess'[r].fundingSettled = sess[r].fundingSettled
          /\ sess'[r].refunded = sess[r].refunded /\ pc'[r] = "relaying"
        BY <1>1, <1>3 DEF SessionType, Goto
    <2>2. /\ moved'[r].wallet = moved[r].wallet + sess[r].effective
          /\ moved'[r].token = moved[r].token /\ moved'[r].sub = moved[r].sub
        BY <1>1, <1>3, ChargeMoves
    <2> QED
        BY <1>1, <1>2, <1>3, <2>1, <2>2
<1>4. CASE StatementFails /\ Goto(r, "tokenRollback") /\ UNCHANGED sess
    <2>1. moved' = moved /\ faults' # 0 /\ pc'[r] = "tokenRollback"
        BY <1>1, <1>4 DEF StatementFails, balances, TypeOK, Goto
    <2> QED
        BY <1>1, <1>2, <1>4, <2>1
<1> QED
    BY <1>3, <1>4 DEF WalletPreConsume

LEMMA SubscriptionPreConsumeOK ==
    ASSUME TypeOK, NEW r \in Requests, RequestOK(r), SubscriptionPreConsume(r)
    PROVE  RequestOK(r)'
<1> USE DEF RequestOK, HoldOK, FlagsOK, TokenOK, WalletOK, RefundOver, Pending, TokenShare, AccountOK,
            AnswerOK, SourceOK, ExactOK, Due, TokenDue, FundingMoved, Fresh, Opening, Refunding
<1>1. /\ sess[r] \in SessionType /\ sess \in [Requests -> SessionType] /\ pc \in [Requests -> Locations]
      /\ sess[r].effective \in Nat /\ info \in [Requests -> InfoType]
      /\ moved \in [Requests -> [wallet : Int, token : Int, sub : Int]]
    BY FieldTypes DEF TypeOK
<1>2. pc[r] = "fundingPreConsume" /\ sess[r].source = "subscription"
    BY DEF SubscriptionPreConsume
<1>3. CASE /\ moved' = [moved EXCEPT ![r].sub = @ + sess[r].effective]
           /\ sess' = [sess EXCEPT ![r] = [@ EXCEPT !.subId = ChosenSub(sub, sess[r].effective),
                                                    !.subPre = sess[r].effective,
                                                    !.preConsumed = sess[r].effective]]
           /\ Goto(r, "relaying") /\ UNCHANGED <<info, faults>>
    <2>1. /\ sess'[r].source = sess[r].source /\ sess'[r].reserving = sess[r].reserving
          /\ sess'[r].consumed = sess[r].consumed /\ sess'[r].preConsumed = sess[r].effective
          /\ sess'[r].tokenConsumed = sess[r].tokenConsumed /\ sess'[r].subPre = sess[r].effective
          /\ sess'[r].settled = sess[r].settled /\ sess'[r].fundingSettled = sess[r].fundingSettled
          /\ sess'[r].refunded = sess[r].refunded /\ pc'[r] = "relaying"
          /\ sess'[r].extraReserved = sess[r].extraReserved
        BY <1>1, <1>3 DEF SessionType, Goto
    <2>2. /\ moved'[r].wallet = moved[r].wallet /\ moved'[r].token = moved[r].token
          /\ moved'[r].sub = moved[r].sub + sess[r].effective
        BY <1>1, <1>3
    <2>3. sess[r].preConsumed = sess[r].subPre + sess[r].extraReserved /\ sess[r].preConsumed = 0
          /\ sess[r].subPre \in Nat /\ sess[r].extraReserved \in Nat
          => sess[r].extraReserved = 0
        OBVIOUS
    <2>4. sess[r].subPre \in Nat /\ sess[r].extraReserved \in Nat
        BY FieldTypes
    <2> QED
        BY <1>1, <1>2, <1>3, <2>1, <2>2, <2>3, <2>4
<1>4. ASSUME moved' = moved, sess' = sess, Goto(r, "tokenRollback"), faults' = 0 => faults = 0,
             info'[r].kind = info[r].kind, info'[r].late = info[r].late
      PROVE  RequestOK(r)'
    <2>1. pc'[r] = "tokenRollback"
        BY <1>1, <1>4 DEF Goto
    <2> QED
        BY <1>1, <1>2, <1>4, <2>1
<1>5. CASE UNCHANGED <<moved, info, sess, faults>> /\ Goto(r, "tokenRollback")
    BY <1>4, <1>5
<1>6. CASE /\ info' = [info EXCEPT ![r].noActive = TRUE] /\ Goto(r, "tokenRollback")
           /\ UNCHANGED <<moved, sess, faults>>
    <2>1. info'[r].kind = info[r].kind /\ info'[r].late = info[r].late
        BY <1>1, <1>6 DEF InfoType
    <2> QED
        BY <1>4, <1>6, <2>1
<1>7. CASE /\ StatementFails /\ Goto(r, "tokenRollback") /\ UNCHANGED sess
           /\ UNCHANGED info \/ info' = [info EXCEPT ![r].noActive = TRUE]
    <2>1. moved' = moved /\ faults' # 0
        BY <1>7 DEF StatementFails, balances, TypeOK
    <2>2. info'[r].kind = info[r].kind /\ info'[r].late = info[r].late
        BY <1>1, <1>7 DEF InfoType
    <2> QED
        BY <1>4, <1>7, <2>1, <2>2
<1> QED
    BY <1>3, <1>5, <1>6, <1>7, Zenon DEF SubscriptionPreConsume, balances

LEMMA TokenRollbackOK ==
    ASSUME TypeOK, NEW r \in Requests, RequestOK(r), TokenRollback(r)
    PROVE  RequestOK(r)'
<1> USE DEF RequestOK, HoldOK, FlagsOK, TokenOK, WalletOK, RefundOver, Pending, TokenShare, AccountOK,
            AnswerOK, SourceOK, ExactOK, Due, TokenDue, FundingMoved, Fresh, Opening, Refunding
<1>1. /\ sess \in [Requests -> SessionType] /\ pc \in [Requests -> Locations]
      /\ sess[r].tokenConsumed \in Nat /\ moved[r].token \in Int
    BY FieldTypes DEF TypeOK
<1>2. pc[r] = "tokenRollback" /\ info' = info /\ sess'[r] = NewSession
      /\ pc'[r] \in {"tryWallet", "rejected"}
    BY <1>1 DEF TokenRollback, Goto
<1>3. /\ NewSession.source = "none" /\ NewSession.tokenConsumed = 0 /\ NewSession.settled = FALSE
      /\ NewSession.refunded = FALSE /\ NewSession.preConsumed = 0 /\ NewSession.reserving = FALSE
      /\ NewSession.fundingSettled = FALSE
    BY DEF NewSession
<1>4. ASSUME moved'[r].wallet = moved[r].wallet, moved'[r].sub = moved[r].sub,
             moved'[r].token = moved[r].token - TokenShare(r, sess[r].tokenConsumed),
             UNCHANGED faults
      PROVE  RequestOK(r)'
    BY <1>1, <1>2, <1>3, <1>4
<1>5. CASE info[r].kind.playground /\ UNCHANGED <<balances, faults>>
    BY <1>1, <1>4, <1>5 DEF balances
<1>6. CASE ~info[r].kind.playground /\ ChargeToken(r, -sess[r].tokenConsumed) /\ UNCHANGED faults
    <2>1. /\ moved'[r].wallet = moved[r].wallet /\ moved'[r].sub = moved[r].sub
          /\ moved'[r].token = moved[r].token - sess[r].tokenConsumed
        BY <1>1, <1>6, ChargeMoves
    <2> QED
        BY <1>4, <1>6, <2>1
<1>7. CASE StatementFails
    <2>1. moved' = moved /\ faults' # 0
        BY <1>7 DEF StatementFails, balances, TypeOK
    <2> QED
        BY <1>1, <1>2, <1>3, <2>1
<1> QED
    BY <1>5, <1>6, <1>7, Zenon DEF TokenRollback

LEMMA ReserveFundingOK ==
    ASSUME TypeOK, NEW r \in Requests, RequestOK(r), ReserveFunding(r)
    PROVE  RequestOK(r)'
<1> USE DEF RequestOK, HoldOK, FlagsOK, TokenOK, WalletOK, RefundOver, Pending, TokenShare, AccountOK,
            AnswerOK, SourceOK, ExactOK, Due, TokenDue, FundingMoved, Fresh, Opening, Refunding
<1>1. /\ sess[r] \in SessionType /\ sess \in [Requests -> SessionType] /\ pc \in [Requests -> Locations]
      /\ sess[r].preConsumed \in Nat /\ sess[r].tokenConsumed \in Nat /\ sess[r].consumed \in Int
      /\ info \in [Requests -> InfoType]
    BY FieldTypes DEF TypeOK
<1>2. pc[r] = "relaying" /\ ~sess[r].settled /\ ~sess[r].refunded
    BY DEF ReserveFunding
<1>3. PICK target \in ReserveTargets :
         LET delta == target - sess[r].preConsumed IN
         /\ delta > 0
         /\ info' = [info EXCEPT ![r].reserves = @ + 1]
         /\ \/ /\ FundingAccepts(r, delta)
               /\ ChargeFunding(r, delta)
               /\ sess' = [sess EXCEPT ![r] =
                     [@ EXCEPT !.consumed = sess[r].consumed + WalletPart(r, delta),
                               !.effective = delta,
                               !.reserving = TRUE]]
               /\ Goto(r, "tokenRead")
               /\ UNCHANGED faults
            \/ /\ ~FundingAccepts(r, delta)
               /\ UNCHANGED <<balances, sess, pc, faults>>
            \/ /\ StatementFails
               /\ UNCHANGED <<sess, pc>>
    BY Zenon DEF ReserveFunding
<1> DEFINE delta == target - sess[r].preConsumed
<1>4. delta \in Nat
    BY <1>1, <1>3, BillingAssumption
<1>5. /\ info'[r].kind = info[r].kind /\ info'[r].late = info[r].late
      /\ info'[r].served = info[r].served /\ info'[r].actual = info[r].actual
    BY <1>1, <1>3 DEF InfoType
<1>6. \/ /\ ChargeFunding(r, delta) /\ Goto(r, "tokenRead") /\ UNCHANGED faults
         /\ sess' = [sess EXCEPT ![r] =
                     [@ EXCEPT !.consumed = sess[r].consumed + WalletPart(r, delta),
                               !.effective = delta, !.reserving = TRUE]]
      \/ UNCHANGED <<balances, sess, pc, faults>>
      \/ StatementFails /\ UNCHANGED <<sess, pc>>
    BY <1>3, Zenon
<1> HIDE DEF delta
<1>7. CASE /\ ChargeFunding(r, delta) /\ Goto(r, "tokenRead") /\ UNCHANGED faults
           /\ sess' = [sess EXCEPT ![r] =
                     [@ EXCEPT !.consumed = sess[r].consumed + WalletPart(r, delta),
                               !.effective = delta, !.reserving = TRUE]]
    <2>1. /\ sess'[r].source = sess[r].source /\ sess'[r].reserving = TRUE
          /\ sess'[r].consumed = sess[r].consumed + WalletPart(r, delta)
          /\ sess'[r].effective = delta /\ sess'[r].preConsumed = sess[r].preConsumed
          /\ sess'[r].tokenConsumed = sess[r].tokenConsumed /\ sess'[r].subPre = sess[r].subPre
          /\ sess'[r].settled = sess[r].settled /\ sess'[r].fundingSettled = sess[r].fundingSettled
          /\ sess'[r].refunded = sess[r].refunded /\ sess'[r].extraReserved = sess[r].extraReserved
          /\ pc'[r] = "tokenRead"
        BY <1>1, <1>7 DEF SessionType, Goto
    <2>2. CASE sess[r].source = "wallet" /\ ChargeWallet(r, delta)
        <3>1. /\ moved'[r].wallet = moved[r].wallet + delta /\ moved[r].wallet \in Int
              /\ moved'[r].token = moved[r].token /\ moved'[r].sub = moved[r].sub
            BY <1>4, <2>2, ChargeMoves
        <3> QED
            BY <1>1, <1>2, <1>4, <1>5, <1>7, <2>1, <2>2, <3>1 DEF WalletPart
    <2>3. CASE sess[r].source = "subscription" /\ ChargeSubscription(r, delta)
        <3>1. /\ moved'[r].sub = moved[r].sub + delta /\ moved[r].sub \in Int
              /\ moved'[r].token = moved[r].token /\ moved'[r].wallet = moved[r].wallet
            BY <1>4, <2>3, ChargeMoves
        <3> QED
            BY <1>1, <1>2, <1>4, <1>5, <1>7, <2>1, <2>3, <3>1 DEF WalletPart
    <2> QED
        BY <1>7, <2>2, <2>3 DEF ChargeFunding
<1>8. CASE UNCHANGED <<balances, sess, pc, faults>>
    BY <1>2, <1>5, <1>8 DEF balances
<1>9. CASE StatementFails /\ UNCHANGED <<sess, pc>>
    <2>1. moved' = moved /\ faults' # 0
        BY <1>9 DEF StatementFails, balances, TypeOK
    <2> QED
        BY <1>2, <1>5, <1>9, <2>1
<1> QED
    BY <1>6, <1>7, <1>8, <1>9

\* A failed attempt is repeated, refunded or over.
LEMMA RetryOrFailOK ==
    ASSUME TypeOK, NEW r \in Requests, RequestOK(r), pc[r] \in {"relaying", "answered"},
           pc[r] = "relaying" \/ info[r].late, RetryOrFail(r), moved' = moved, UNCHANGED faults
    PROVE  RequestOK(r)'
<1> USE DEF RequestOK, HoldOK, FlagsOK, TokenOK, WalletOK, RefundOver, Pending, TokenShare, AccountOK,
            AnswerOK, SourceOK, ExactOK, Due, TokenDue, FundingMoved, Fresh, Opening, Refunding
<1>1. /\ sess[r] \in SessionType /\ sess \in [Requests -> SessionType] /\ pc \in [Requests -> Locations]
      /\ info \in [Requests -> InfoType] /\ sess[r].preConsumed \in Nat
    BY FieldTypes DEF TypeOK
<1>2. CASE /\ info' = [info EXCEPT ![r].retry = @ + 1] /\ Goto(r, "relaying") /\ UNCHANGED <<sess, fee>>
    <2>1. /\ info'[r].kind = info[r].kind /\ info'[r].late = info[r].late
          /\ info'[r].served = info[r].served /\ info'[r].actual = info[r].actual
          /\ pc'[r] = "relaying"
        BY <1>1, <1>2 DEF InfoType, Goto
    <2> QED
        BY <1>1, <1>2, <2>1
<1>3. CASE NeedsRefund(r) /\ sess' = [sess EXCEPT ![r].refunded = TRUE] /\ Goto(r, "refundFunding")
           /\ UNCHANGED info
    <2>1. /\ sess'[r].source = sess[r].source /\ sess'[r].reserving = sess[r].reserving
          /\ sess'[r].consumed = sess[r].consumed
          /\ sess'[r].effective = sess[r].effective /\ sess'[r].preConsumed = sess[r].preConsumed
          /\ sess'[r].tokenConsumed = sess[r].tokenConsumed /\ sess'[r].subPre = sess[r].subPre
          /\ sess'[r].settled = sess[r].settled /\ sess'[r].fundingSettled = sess[r].fundingSettled
          /\ sess'[r].refunded = TRUE /\ sess'[r].extraReserved = sess[r].extraReserved
          /\ pc'[r] = "refundFunding"
        BY <1>1, <1>3 DEF SessionType, Goto
    <2>2. ~sess[r].settled /\ ~sess[r].fundingSettled
        BY <1>3 DEF NeedsRefund
    <2> QED
        BY <1>1, <1>3, <2>1, <2>2
<1>4. CASE Goto(r, "done") /\ UNCHANGED <<sess, info>>
    <2>1. pc'[r] = "done"
        BY <1>1, <1>4 DEF Goto
    <2> QED
        BY <1>1, <1>4, <2>1
<1> QED
    BY <1>2, <1>3, <1>4, Zenon DEF RetryOrFail, RelayFails

LEMMA AttemptOK ==
    ASSUME TypeOK, NEW r \in Requests, RequestOK(r), AttemptFails(r) \/ AttemptEnds(r)
    PROVE  RequestOK(r)'
<1>1. moved' = moved /\ UNCHANGED faults /\ pc \in [Requests -> Locations]
    BY DEF AttemptFails, AttemptEnds, balances, TypeOK
<1>2. CASE AttemptFails(r)
    BY <1>1, <1>2, RetryOrFailOK DEF AttemptFails
<1>3. CASE AttemptEnds(r)
    <2>1. CASE info[r].late /\ RetryOrFail(r)
        BY <1>1, <1>3, <2>1, RetryOrFailOK DEF AttemptEnds
    <2>2. CASE Goto(r, "done") /\ UNCHANGED <<info, sess, fee>>
        <3>1. pc'[r] = "done" /\ pc[r] = "answered"
            BY <1>1, <1>3, <2>2 DEF AttemptEnds, Goto
        <3> QED
            BY <1>1, <2>2, <3>1 DEF RequestOK, HoldOK, FlagsOK, TokenOK, WalletOK, RefundOver, Pending,
               TokenShare, AccountOK, AnswerOK, SourceOK, ExactOK, Due, TokenDue, FundingMoved, Fresh,
               Opening, Refunding
    <2> QED
        BY <1>3, <2>1, <2>2 DEF AttemptEnds
<1> QED
    BY <1>2, <1>3

LEMMA AttemptAnswersOK ==
    ASSUME TypeOK, NEW r \in Requests, RequestOK(r), AttemptAnswers(r)
    PROVE  RequestOK(r)'
<1> USE DEF RequestOK, HoldOK, FlagsOK, TokenOK, WalletOK, RefundOver, Pending, TokenShare, AccountOK,
            AnswerOK, SourceOK, ExactOK, Due, TokenDue, FundingMoved, Fresh, Opening, Refunding
<1>1. /\ sess[r] \in SessionType /\ sess \in [Requests -> SessionType] /\ pc \in [Requests -> Locations]
      /\ info \in [Requests -> InfoType] /\ sess[r].preConsumed \in Nat
    BY FieldTypes DEF TypeOK
<1>2. pc[r] = "relaying" /\ moved' = moved /\ UNCHANGED faults
    BY DEF AttemptAnswers, balances
<1>3. PICK actual \in ActualQuotas, late \in {FALSE, FirstChunkFailover} :
         /\ info' = [info EXCEPT ![r] =
                       [@ EXCEPT !.actual = actual, !.late = late,
                                 !.served = IF late THEN info[r].served ELSE actual]]
         /\ IF sess[r].settled \/ actual = sess[r].preConsumed
            THEN /\ sess' = [sess EXCEPT ![r].settled = TRUE]
                 /\ Goto(r, "answered")
            ELSE /\ Goto(r, "settleFunding")
                 /\ UNCHANGED sess
    BY Zenon DEF AttemptAnswers
<1> DEFINE served == IF late THEN info[r].served ELSE actual
<1>4. /\ info'[r].kind = info[r].kind /\ info'[r].late = late
      /\ info'[r].served = served /\ info'[r].actual = actual
    <2>1. info' = [info EXCEPT ![r] = [@ EXCEPT !.actual = actual, !.late = late, !.served = served]]
        BY <1>3, Zenon
    <2> HIDE DEF served
    <2> QED
        BY <1>1, <2>1 DEF InfoType
<1>5. ~FirstChunkFailover => ~late /\ served = actual
    <2>1. FirstChunkFailover \in BOOLEAN
        BY BillingAssumption
    <2>2. ~FirstChunkFailover => late = FALSE
        BY <2>1, Zenon
    <2> QED
        BY <2>2, Zenon
<1> HIDE DEF served
<1>6. CASE /\ sess[r].settled \/ actual = sess[r].preConsumed
           /\ sess' = [sess EXCEPT ![r].settled = TRUE] /\ Goto(r, "answered")
    <2>1. /\ sess'[r].source = sess[r].source /\ sess'[r].reserving = sess[r].reserving
          /\ sess'[r].consumed = sess[r].consumed
          /\ sess'[r].effective = sess[r].effective /\ sess'[r].preConsumed = sess[r].preConsumed
          /\ sess'[r].tokenConsumed = sess[r].tokenConsumed /\ sess'[r].subPre = sess[r].subPre
          /\ sess'[r].settled = TRUE /\ sess'[r].fundingSettled = sess[r].fundingSettled
          /\ sess'[r].refunded = sess[r].refunded /\ sess'[r].extraReserved = sess[r].extraReserved
          /\ pc'[r] = "answered"
        BY <1>1, <1>6 DEF SessionType, Goto
    <2> QED
        BY <1>1, <1>2, <1>4, <1>5, <1>6, <2>1
<1>7. CASE ~sess[r].settled /\ Goto(r, "settleFunding") /\ UNCHANGED sess
    <2>1. pc'[r] = "settleFunding"
        BY <1>1, <1>7 DEF Goto
    <2> QED
        BY <1>1, <1>2, <1>4, <1>5, <1>7, <2>1
<1> QED
    BY <1>3, <1>6, <1>7, Zenon

LEMMA SettleFundingOK ==
    ASSUME TypeOK, NEW r \in Requests, RequestOK(r), SettleFunding(r)
    PROVE  RequestOK(r)'
<1> USE DEF RequestOK, HoldOK, FlagsOK, TokenOK, WalletOK, RefundOver, Pending, TokenShare, AccountOK,
            AnswerOK, SourceOK, ExactOK, Due, TokenDue, FundingMoved, Fresh, Opening, Refunding
<1>1. /\ sess[r] \in SessionType /\ sess \in [Requests -> SessionType] /\ pc \in [Requests -> Locations]
      /\ sess[r].preConsumed \in Nat /\ sess[r].consumed \in Int /\ info[r].actual \in Nat
      /\ SettleDelta(r) \in Int
    BY FieldTypes DEF TypeOK
<1>2. pc[r] = "settleFunding" /\ info' = info /\ SettleDelta(r) = info[r].actual - sess[r].preConsumed
    BY DEF SettleFunding, SettleDelta
<1>3. CASE /\ ChargeFunding(r, SettleDelta(r)) /\ sess' = [sess EXCEPT ![r].fundingSettled = TRUE]
           /\ Goto(r, "settleToken") /\ UNCHANGED faults
    <2>1. /\ sess'[r].source = sess[r].source /\ sess'[r].reserving = sess[r].reserving
          /\ sess'[r].consumed = sess[r].consumed
          /\ sess'[r].effective = sess[r].effective /\ sess'[r].preConsumed = sess[r].preConsumed
          /\ sess'[r].tokenConsumed = sess[r].tokenConsumed /\ sess'[r].subPre = sess[r].subPre
          /\ sess'[r].settled = sess[r].settled /\ sess'[r].fundingSettled = TRUE
          /\ sess'[r].refunded = sess[r].refunded /\ sess'[r].extraReserved = sess[r].extraReserved
          /\ pc'[r] = "settleToken"
        BY <1>1, <1>3 DEF SessionType, Goto
    <2>2. CASE sess[r].source = "wallet" /\ ChargeWallet(r, SettleDelta(r))
        <3>1. /\ moved'[r].wallet = moved[r].wallet + SettleDelta(r) /\ moved[r].wallet \in Int
              /\ moved'[r].token = moved[r].token /\ moved'[r].sub = moved[r].sub
            BY <1>1, <2>2, ChargeMoves
        <3> QED
            BY <1>1, <1>2, <1>3, <2>1, <2>2, <3>1
    <2>3. CASE sess[r].source = "subscription" /\ ChargeSubscription(r, SettleDelta(r))
        <3>1. /\ moved'[r].sub = moved[r].sub + SettleDelta(r) /\ moved[r].sub \in Int
              /\ moved'[r].token = moved[r].token /\ moved'[r].wallet = moved[r].wallet
            BY <1>1, <2>3, ChargeMoves
        <3> QED
            BY <1>1, <1>2, <1>3, <2>1, <2>3, <3>1
    <2> QED
        BY <1>3, <2>2, <2>3 DEF ChargeFunding
<1>4. ASSUME Goto(r, "answered"), UNCHANGED sess, moved' = moved, faults' = 0 => faults = 0
      PROVE  RequestOK(r)'
    <2>1. pc'[r] = "answered"
        BY <1>1, <1>4 DEF Goto
    <2> QED
        BY <1>1, <1>2, <1>4, <2>1
<1>5. CASE Goto(r, "answered") /\ UNCHANGED <<balances, sess, faults>>
    <2> HIDE DEF RequestOK
    <2> QED
        BY <1>4, <1>5 DEF balances
<1>6. CASE StatementFails /\ Goto(r, "answered") /\ UNCHANGED sess
    <2>1. moved' = moved /\ faults' # 0
        BY <1>6 DEF StatementFails, balances, TypeOK
    <2> HIDE DEF RequestOK
    <2> QED
        BY <1>4, <1>6, <2>1
<1> QED
    BY <1>3, <1>5, <1>6, Zenon DEF SettleFunding

LEMMA SettleTokenOK ==
    ASSUME TypeOK, NEW r \in Requests, RequestOK(r), SettleToken(r)
    PROVE  RequestOK(r)'
<1> USE DEF RequestOK, HoldOK, FlagsOK, TokenOK, WalletOK, RefundOver, Pending, TokenShare, AccountOK,
            AnswerOK, SourceOK, ExactOK, Due, TokenDue, FundingMoved, Fresh, Opening, Refunding
<1>1. /\ sess[r] \in SessionType /\ sess \in [Requests -> SessionType] /\ pc \in [Requests -> Locations]
      /\ sess[r].preConsumed \in Nat /\ sess[r].tokenConsumed \in Nat /\ info[r].actual \in Nat
      /\ SettleDelta(r) \in Int /\ moved[r].token \in Int
    BY FieldTypes DEF TypeOK
<1>2. pc[r] = "settleToken" /\ info' = info /\ SettleDelta(r) = info[r].actual - sess[r].preConsumed
    BY DEF SettleToken, SettleDelta
<1>3. /\ sess'[r].source = sess[r].source /\ sess'[r].reserving = sess[r].reserving
      /\ sess'[r].consumed = sess[r].consumed
      /\ sess'[r].effective = sess[r].effective /\ sess'[r].preConsumed = sess[r].preConsumed
      /\ sess'[r].tokenConsumed = sess[r].tokenConsumed /\ sess'[r].subPre = sess[r].subPre
      /\ sess'[r].settled = TRUE /\ sess'[r].fundingSettled = sess[r].fundingSettled
      /\ sess'[r].refunded = sess[r].refunded /\ sess'[r].extraReserved = sess[r].extraReserved
      /\ pc'[r] = "answered"
    <2>1. sess' = [sess EXCEPT ![r].settled = TRUE] /\ Goto(r, "answered")
        BY DEF SettleToken
    <2> QED
        BY <1>1, <2>1 DEF SessionType, Goto
<1>4. ASSUME moved'[r].wallet = moved[r].wallet, moved'[r].sub = moved[r].sub,
             moved'[r].token = moved[r].token + TokenShare(r, SettleDelta(r)), UNCHANGED faults
      PROVE  RequestOK(r)'
    BY <1>1, <1>2, <1>3, <1>4
<1>5. CASE info[r].kind.playground /\ UNCHANGED <<balances, faults>>
    <2>1. moved' = moved /\ TokenShare(r, SettleDelta(r)) = 0
        BY <1>5 DEF balances
    <2> HIDE DEF RequestOK, TokenShare
    <2> QED
        BY <1>1, <1>4, <1>5, <2>1
<1>6. CASE ~info[r].kind.playground /\ ChargeToken(r, SettleDelta(r)) /\ UNCHANGED faults
    <2>1. /\ moved'[r].wallet = moved[r].wallet /\ moved'[r].sub = moved[r].sub
          /\ moved'[r].token = moved[r].token + SettleDelta(r)
        BY <1>1, <1>6, ChargeMoves
    <2>2. TokenShare(r, SettleDelta(r)) = SettleDelta(r)
        BY <1>6
    <2> HIDE DEF RequestOK, TokenShare
    <2> QED
        BY <1>4, <1>6, <2>1, <2>2
<1>7. CASE StatementFails
    <2>1. moved' = moved /\ faults' # 0
        BY <1>7 DEF StatementFails, balances, TypeOK
    <2> QED
        BY <1>1, <1>2, <1>3, <2>1
<1> QED
    BY <1>5, <1>6, <1>7, Zenon DEF SettleToken

LEMMA RefundFundingOK ==
    ASSUME TypeOK, NEW r \in Requests, RequestOK(r), RefundWallet(r) \/ RefundSubscription(r)
    PROVE  RequestOK(r)'
<1> USE DEF RequestOK, HoldOK, FlagsOK, TokenOK, WalletOK, RefundOver, Pending, TokenShare, AccountOK,
            AnswerOK, SourceOK, ExactOK, Due, TokenDue, FundingMoved, Fresh, Opening, Refunding
<1>1. /\ sess[r] \in SessionType /\ pc \in [Requests -> Locations] /\ info \in [Requests -> InfoType]
      /\ sess[r].preConsumed \in Nat /\ sess[r].consumed \in Int /\ sess[r].subPre \in Nat
      /\ sess[r].extraReserved \in Nat
    BY FieldTypes DEF TypeOK
<1>2. pc[r] = "refundFunding" /\ sess' = sess
    BY DEF RefundWallet, RefundSubscription
<1>3. CASE RefundWallet(r)
    <2>1. sess[r].source = "wallet" /\ info' = info /\ pc'[r] = "refundToken"
        BY <1>1, <1>3 DEF RefundWallet, Goto
    <2>2. CASE ChargeWallet(r, -sess[r].consumed) /\ UNCHANGED faults
        <3>1. /\ moved'[r].wallet = moved[r].wallet - sess[r].consumed
              /\ moved'[r].token = moved[r].token /\ moved'[r].sub = moved[r].sub
            BY <1>1, <2>2, ChargeMoves
        <3> QED
            BY <1>1, <1>2, <2>1, <2>2, <3>1
    <2>3. CASE StatementFails
        <3>1. moved' = moved /\ faults' # 0
            BY <2>3 DEF StatementFails, balances, TypeOK
        <3> QED
            BY <1>1, <1>2, <2>1, <3>1
    <2> QED
        BY <1>3, <2>2, <2>3, Zenon DEF RefundWallet
<1>4. CASE RefundSubscription(r)
    <2>1. sess[r].source = "subscription"
        BY <1>4 DEF RefundSubscription
    <2>2. CASE ChargeSubscription(r, -sess[r].subPre) /\ Goto(r, "refundMark") /\ UNCHANGED <<info, faults>>
        <3>1. /\ moved'[r].sub = moved[r].sub - sess[r].subPre /\ pc'[r] = "refundMark"
              /\ moved'[r].token = moved[r].token /\ moved'[r].wallet = moved[r].wallet
            BY <1>1, <2>2, ChargeMoves DEF Goto
        <3> QED
            BY <1>1, <1>2, <2>1, <2>2, <3>1
    <2>3. CASE StatementFails /\ RefundAttemptFailed(r)
        <3>1. moved' = moved /\ faults' # 0
            BY <2>3 DEF StatementFails, balances, TypeOK
        <3>2. /\ info'[r].kind = info[r].kind /\ info'[r].late = info[r].late
              /\ pc'[r] \in {"refundFunding", "refundExtra"}
            BY <1>1, <2>3 DEF RefundAttemptFailed, InfoType, Goto
        <3> QED
            BY <1>1, <1>2, <2>1, <3>1, <3>2
    <2> QED
        BY <1>4, <2>2, <2>3, Zenon DEF RefundSubscription
<1> QED
    BY <1>3, <1>4

LEMMA RefundRestOK ==
    ASSUME TypeOK, NEW r \in Requests, RequestOK(r),
           RefundMarkRecord(r) \/ RefundExtraReserved(r) \/ RefundToken(r)
    PROVE  RequestOK(r)'
<1> USE DEF RequestOK, HoldOK, FlagsOK, TokenOK, WalletOK, RefundOver, Pending, TokenShare, AccountOK,
            AnswerOK, SourceOK, ExactOK, Due, TokenDue, FundingMoved, Fresh, Opening, Refunding
<1>1. /\ sess[r] \in SessionType /\ pc \in [Requests -> Locations] /\ info \in [Requests -> InfoType]
      /\ sess[r].preConsumed \in Nat /\ sess[r].tokenConsumed \in Nat /\ sess[r].extraReserved \in Nat
      /\ moved[r].token \in Int /\ moved[r].sub \in Int
    BY FieldTypes DEF TypeOK
<1>2. sess' = sess
    BY DEF RefundMarkRecord, RefundExtraReserved, RefundToken
<1>3. StatementFails => moved' = moved /\ faults' # 0
    BY DEF StatementFails, balances, TypeOK
<1>4. CASE RefundMarkRecord(r)
    <2>1. pc[r] = "refundMark"
        BY <1>4 DEF RefundMarkRecord
    <2>2. CASE Goto(r, "refundExtra") /\ UNCHANGED <<balances, info, faults>>
        <3>1. pc'[r] = "refundExtra" /\ moved' = moved
            BY <1>1, <2>2 DEF Goto, balances
        <3> QED
            BY <1>1, <1>2, <2>1, <2>2, <3>1
    <2>3. CASE StatementFails /\ RefundAttemptFailed(r)
        <3>1. /\ info'[r].kind = info[r].kind /\ info'[r].late = info[r].late
              /\ pc'[r] \in {"refundFunding", "refundExtra"}
            BY <1>1, <2>3 DEF RefundAttemptFailed, InfoType, Goto
        <3> QED
            BY <1>1, <1>2, <1>3, <2>1, <2>3, <3>1
    <2> QED
        BY <1>4, <2>2, <2>3, Zenon DEF RefundMarkRecord
<1>5. CASE RefundExtraReserved(r)
    <2>1. pc[r] = "refundExtra" /\ pc'[r] = "refundToken" /\ info' = info
        BY <1>1, <1>5 DEF RefundExtraReserved, Goto
    <2>2. CASE sess[r].extraReserved = 0 /\ UNCHANGED <<balances, faults>>
        <3>1. moved' = moved
            BY <2>2 DEF balances
        <3> QED
            BY <1>1, <1>2, <2>1, <2>2, <3>1
    <2>3. CASE ChargeSubscription(r, -sess[r].extraReserved) /\ UNCHANGED faults
        <3>1. /\ moved'[r].sub = moved[r].sub - sess[r].extraReserved
              /\ moved'[r].token = moved[r].token /\ moved'[r].wallet = moved[r].wallet
            BY <1>1, <2>3, ChargeMoves
        <3> QED
            BY <1>1, <1>2, <2>1, <2>3, <3>1
    <2>4. CASE StatementFails
        BY <1>1, <1>2, <1>3, <2>1, <2>4
    <2> QED
        BY <1>5, <2>2, <2>3, <2>4, Zenon DEF RefundExtraReserved
<1>6. CASE RefundToken(r)
    <2>1. pc[r] = "refundToken" /\ pc'[r] = "done" /\ info' = info
        BY <1>1, <1>6 DEF RefundToken, Goto
    <2>2. CASE ~(sess[r].tokenConsumed > 0 /\ ~info[r].kind.playground) /\ UNCHANGED <<balances, faults>>
        <3>1. moved' = moved
            BY <2>2 DEF balances
        <3> QED
            BY <1>1, <1>2, <2>1, <2>2, <3>1
    <2>3. CASE ~info[r].kind.playground /\ ChargeToken(r, -sess[r].tokenConsumed) /\ UNCHANGED faults
        <3>1. /\ moved'[r].token = moved[r].token - sess[r].tokenConsumed
              /\ moved'[r].sub = moved[r].sub /\ moved'[r].wallet = moved[r].wallet
            BY <1>1, <2>3, ChargeMoves
        <3> QED
            BY <1>1, <1>2, <2>1, <2>3, <3>1
    <2>4. CASE StatementFails
        BY <1>1, <1>2, <1>3, <2>1, <2>4
    <2> QED
        BY <1>6, <2>2, <2>3, <2>4, Zenon DEF RefundToken
<1> QED
    BY <1>4, <1>5, <1>6

------------------------------------------------------------------------------
(* A step of one request leaves the sessions of the others alone.          *)

Untouched(q) ==
    /\ sess'[q] = sess[q] /\ pc'[q] = pc[q] /\ info'[q] = info[q] /\ moved'[q] = moved[q]
    /\ faults' = 0 => faults = 0

LEMMA ChargesOthers ==
    ASSUME TypeOK, NEW r \in Requests, NEW q \in Requests, q # r, NEW n,
           \/ ChargeWallet(r, n) \/ ChargeToken(r, n) \/ ChargeSubscription(r, n)
           \/ ChargeFunding(r, n) \/ StatementFails \/ UNCHANGED balances
    PROVE  moved'[q] = moved[q]
BY DEF TypeOK, ChargeWallet, ChargeToken, ChargeSubscription, ChargeFunding, StatementFails, balances

LEMMA FaultsStay ==
    ASSUME TypeOK, StatementFails \/ UNCHANGED faults
    PROVE  faults' = 0 => faults = 0
BY DEF TypeOK, StatementFails

LEMMA PreConsumeOthers ==
    ASSUME TypeOK, NEW r \in Requests, NEW q \in Requests, q # r, PreConsumeStep(r)
    PROVE  Untouched(q)
<1> USE DEF Goto
<1>1. sess \in [Requests -> SessionType] /\ pc \in [Requests -> Locations] /\ info \in [Requests -> InfoType]
      /\ moved \in [Requests -> [wallet : Int, token : Int, sub : Int]]
    BY DEF TypeOK
<1>2. CASE NewBillingSession(r)
    <2>1. UNCHANGED balances /\ UNCHANGED faults
        BY <1>2 DEF NewBillingSession
    <2> QED
        BY <1>1, <1>2, <2>1, ChargesOthers, FaultsStay DEF NewBillingSession, Untouched
<1>3. CASE TryWallet(r) \/ TrySubscription(r)
    <2>1. UNCHANGED balances /\ UNCHANGED faults
        BY <1>3 DEF TryWallet, TrySubscription
    <2>2. moved'[q] = moved[q] /\ (faults' = 0 => faults = 0)
        BY <2>1, ChargesOthers, FaultsStay
    <2> QED
        BY <1>1, <1>3, <2>2 DEF TryWallet, TrySubscription, Untouched
<1>4. CASE PreConsumeTokenRead(r) \/ PreConsumeTokenWrite(r)
    <2>1. moved'[q] = moved[q] /\ (faults' = 0 => faults = 0)
        BY <1>4, ChargesOthers, FaultsStay DEF PreConsumeTokenRead, PreConsumeTokenWrite
    <2>2. TokenPreConsumed(r) \/ TokenRefused(r) => sess'[q] = sess[q] /\ pc'[q] = pc[q]
        BY <1>1 DEF TokenPreConsumed, TokenRefused
    <2> QED
        BY <1>1, <1>4, <2>1, <2>2 DEF PreConsumeTokenRead, PreConsumeTokenWrite, Untouched
<1>5. CASE WalletPreConsume(r)
    <2>1. moved'[q] = moved[q] /\ (faults' = 0 => faults = 0)
        BY <1>5, ChargesOthers, FaultsStay DEF WalletPreConsume
    <2> QED
        BY <1>1, <1>5, <2>1 DEF WalletPreConsume, Untouched
<1>6. CASE SubscriptionPreConsume(r)
    <2>1. faults' = 0 => faults = 0
        BY <1>6, FaultsStay DEF SubscriptionPreConsume
    <2>2. moved'[q] = moved[q]
        BY <1>1, <1>6 DEF SubscriptionPreConsume, StatementFails, balances
    <2> QED
        BY <1>1, <1>6, <2>1, <2>2 DEF SubscriptionPreConsume, Untouched
<1>7. CASE TokenRollback(r)
    <2>1. moved'[q] = moved[q] /\ (faults' = 0 => faults = 0)
        BY <1>7, ChargesOthers, FaultsStay DEF TokenRollback
    <2> QED
        BY <1>1, <1>7, <2>1 DEF TokenRollback, Untouched
<1>8. CASE ReserveRollback(r)
    <2>1. moved'[q] = moved[q] /\ (faults' = 0 => faults = 0)
        BY <1>8, ChargesOthers, FaultsStay DEF ReserveRollback
    <2> QED
        BY <1>1, <1>8, <2>1 DEF ReserveRollback, Untouched
<1> QED
    BY <1>2, <1>3, <1>4, <1>5, <1>6, <1>7, <1>8 DEF PreConsumeStep

LEMMA RelayOthers ==
    ASSUME TypeOK, NEW r \in Requests, NEW q \in Requests, q # r,
           ReserveFunding(r) \/ RelayStep(r) \/ RefundStep(r)
    PROVE  Untouched(q)
<1> USE DEF Goto
<1>1. sess \in [Requests -> SessionType] /\ pc \in [Requests -> Locations] /\ info \in [Requests -> InfoType]
      /\ moved \in [Requests -> [wallet : Int, token : Int, sub : Int]]
    BY DEF TypeOK
<1>2. CASE ReserveFunding(r)
    <2>1. moved'[q] = moved[q] /\ (faults' = 0 => faults = 0)
        BY <1>2, ChargesOthers, FaultsStay DEF ReserveFunding
    <2> QED
        BY <1>1, <1>2, <2>1 DEF ReserveFunding, Untouched
<1>3. CASE AttemptFails(r) \/ AttemptEnds(r)
    <2>1. moved'[q] = moved[q] /\ (faults' = 0 => faults = 0)
        BY <1>3, ChargesOthers, FaultsStay DEF AttemptFails, AttemptEnds
    <2>2. RetryOrFail(r) => sess'[q] = sess[q] /\ pc'[q] = pc[q] /\ info'[q] = info[q]
        BY <1>1 DEF RetryOrFail, RelayFails
    <2> QED
        BY <1>1, <1>3, <2>1, <2>2 DEF AttemptFails, AttemptEnds, Untouched
<1>4. CASE AttemptAnswers(r)
    <2>1. moved'[q] = moved[q] /\ (faults' = 0 => faults = 0)
        BY <1>4, ChargesOthers, FaultsStay DEF AttemptAnswers
    <2> QED
        BY <1>1, <1>4, <2>1 DEF AttemptAnswers, Untouched
<1>5. CASE SettleFunding(r)
    <2>1. moved'[q] = moved[q] /\ (faults' = 0 => faults = 0)
        BY <1>5, ChargesOthers, FaultsStay DEF SettleFunding
    <2> QED
        BY <1>1, <1>5, <2>1 DEF SettleFunding, Untouched
<1>6. CASE SettleToken(r)
    <2>1. moved'[q] = moved[q] /\ (faults' = 0 => faults = 0)
        BY <1>6, ChargesOthers, FaultsStay DEF SettleToken
    <2> QED
        BY <1>1, <1>6, <2>1 DEF SettleToken, Untouched
<1>7. CASE RefundWallet(r) \/ RefundExtraReserved(r) \/ RefundToken(r)
    <2>1. moved'[q] = moved[q] /\ (faults' = 0 => faults = 0)
        BY <1>7, ChargesOthers, FaultsStay DEF RefundWallet, RefundExtraReserved, RefundToken
    <2> QED
        BY <1>1, <1>7, <2>1 DEF RefundWallet, RefundExtraReserved, RefundToken, Untouched
<1>8. CASE RefundSubscription(r) \/ RefundMarkRecord(r)
    <2>1. moved'[q] = moved[q] /\ (faults' = 0 => faults = 0)
        BY <1>8, ChargesOthers, FaultsStay DEF RefundSubscription, RefundMarkRecord
    <2> QED
        BY <1>1, <1>8, <2>1 DEF RefundSubscription, RefundMarkRecord, RefundAttemptFailed, Untouched
<1> QED
    BY <1>2, <1>3, <1>4, <1>5, <1>6, <1>7, <1>8 DEF RelayStep, RefundStep

\* Fees, dates and resets move no quota of a session.
LEMMA BystandersUntouched ==
    ASSUME TypeOK, NEW q \in Requests,
           \/ \E r \in Requests : FeeStep(r)
           \/ \E i \in Subs : PeriodEnds(i) \/ ResetDueSubscription(i)
           \/ UNCHANGED vars
    PROVE  Untouched(q)
<1>1. faults' = faults \/ StatementFails
    BY Zenon DEF FeeStep, FeeFunding, FeeToken, PeriodEnds, ResetDueSubscription, vars
<1>2. pc' = pc /\ info' = info /\ sess' = sess /\ moved' = moved
    BY Zenon DEF FeeStep, FeeFunding, FeeToken, PeriodEnds, ResetDueSubscription, vars, StatementFails,
                 balances
<1> QED
    BY <1>1, <1>2, FaultsStay DEF Untouched

LEMMA InitSessions == Init => SessionInvariant
<1> SUFFICES ASSUME Init PROVE SessionInvariant
    OBVIOUS
<1>1. ASSUME NEW r \in Requests PROVE RequestOK(r)
    <2>1. /\ pc[r] = "idle" /\ info[r] = NoInfo /\ sess[r] = NewSession /\ moved[r] = NothingMoved
        BY DEF Init
    <2> QED
        BY <2>1 DEF RequestOK, HoldOK, FlagsOK, TokenOK, WalletOK, RefundOver, Pending, TokenShare, AccountOK,
                    AnswerOK, SourceOK, ExactOK, Due, TokenDue, FundingMoved, Fresh, Opening, Refunding,
                    NoInfo, NoKind, NewSession, NothingMoved
<1> QED
    BY <1>1, InitType DEF SessionInvariant

\* A step of r keeps the invariant of r.
LEMMA OwnStepOK ==
    ASSUME TypeOK, NEW r \in Requests, RequestOK(r),
           PreConsumeStep(r) \/ ReserveFunding(r) \/ RelayStep(r) \/ RefundStep(r)
    PROVE  RequestOK(r)'
<1>1. CASE PreConsumeStep(r)
    BY <1>1, NewBillingSessionOK, TryOK, PreConsumeTokenOK, WalletPreConsumeOK, SubscriptionPreConsumeOK,
       TokenRollbackOK, ReserveRollbackOK DEF PreConsumeStep
<1>2. CASE RelayStep(r)
    BY <1>2, AttemptOK, AttemptAnswersOK, SettleFundingOK, SettleTokenOK DEF RelayStep
<1>3. CASE RefundStep(r)
    BY <1>3, RefundFundingOK, RefundRestOK DEF RefundStep
<1> QED
    BY <1>1, <1>2, <1>3, ReserveFundingOK

LEMMA NextSessions == SessionInvariant /\ [Next]_vars => SessionInvariant'
<1> SUFFICES ASSUME SessionInvariant, [Next]_vars PROVE SessionInvariant'
    OBVIOUS
<1>1. TypeOK /\ TypeOK'
    BY NextType DEF SessionInvariant
<1>2. ASSUME NEW q \in Requests PROVE RequestOK(q)'
    <2>1. RequestOK(q)
        BY DEF SessionInvariant
    <2>2. Untouched(q) => RequestOK(q)'
        BY <2>1, RequestKept DEF Untouched
    <2>3. ASSUME NEW r \in Requests,
                 PreConsumeStep(r) \/ ReserveFunding(r) \/ RelayStep(r) \/ RefundStep(r)
          PROVE  RequestOK(q)'
        <3>1. CASE q = r
            BY <1>1, <2>1, <2>3, <3>1, OwnStepOK
        <3>2. CASE q # r
            BY <1>1, <2>2, <2>3, <3>2, PreConsumeOthers, RelayOthers
        <3> QED
            BY <3>1, <3>2
    <2>4. CASE \/ \E r \in Requests : FeeStep(r)
               \/ \E i \in Subs : PeriodEnds(i) \/ ResetDueSubscription(i)
               \/ UNCHANGED vars
        BY <1>1, <2>2, <2>4, BystandersUntouched
    <2> QED
        BY <2>3, <2>4, Zenon DEF Next, Terminating
<1> QED
    BY <1>1, <1>2 DEF SessionInvariant

\* Whatever fails and however requests interleave, the fields of every session (hold, reserved
\* extra, funding.consumed, flags) agree with what its statements took; without first-chunk
\* failovers the amounts are exact as long as no statement failed.
THEOREM SessionsConsistent == Spec => []SessionInvariant
BY InitSessions, NextSessions, PTL DEF Spec

\* No wallet and no token ever gets back more than its session took, whatever statements fail:
\* the rollbacks of preConsume and Reserve, Refund and Settle never return a hold twice.
THEOREM NothingOverRefunded == Spec => []NeverOverRefunded
<1>1. SessionInvariant => NeverOverRefunded
    BY DEF SessionInvariant, RequestOK, HoldOK, TokenOK, WalletOK, NeverOverRefunded
<1> QED
    BY <1>1, SessionsConsistent, PTL

\* Of the own steps of a settled session none is a statement on a balance.
LEMMA SettledStaysStill ==
    ASSUME TypeOK, NEW r \in Requests, RequestOK(r), sess[r].settled,
           PreConsumeStep(r) \/ ReserveFunding(r) \/ RelayStep(r) \/ RefundStep(r)
    PROVE  moved'[r] = moved[r]
<1>1. pc[r] \in {"relaying", "answered", "done"}
    BY DEF RequestOK, HoldOK, FlagsOK
<1>2. ~PreConsumeStep(r)
    BY <1>1 DEF PreConsumeStep, FlagsOK, NewBillingSession, TryWallet, TrySubscription, PreConsumeTokenRead,
                PreConsumeTokenWrite, WalletPreConsume, SubscriptionPreConsume, TokenRollback, ReserveRollback
<1>3. ~RefundStep(r)
    BY <1>1 DEF RefundStep, RefundWallet, RefundSubscription, RefundMarkRecord, RefundExtraReserved, RefundToken
<1>4. ~ReserveFunding(r)
    BY Zenon DEF ReserveFunding
<1>5. AttemptFails(r) \/ AttemptAnswers(r) \/ AttemptEnds(r)
    BY <1>1, <1>2, <1>3, <1>4 DEF RelayStep, SettleFunding, SettleToken
<1> QED
    BY <1>5 DEF AttemptFails, AttemptAnswers, AttemptEnds, balances

\* A session that Settle has finished never moves a balance again: not by a later attempt of the
\* retry loop, a second Settle, a Reserve or the deferred Refund.
THEOREM SettlementIsFinal == Spec => SettledIsFinal
<1>1. ASSUME SessionInvariant, [Next]_vars
      PROVE  [\A r \in Requests : sess[r].settled => moved'[r] = moved[r]]_vars
    <2>1. ASSUME NEW q \in Requests, sess[q].settled PROVE moved'[q] = moved[q]
        <3>1. TypeOK /\ RequestOK(q)
            BY <1>1 DEF SessionInvariant
        <3>2. ASSUME NEW r \in Requests,
                     PreConsumeStep(r) \/ ReserveFunding(r) \/ RelayStep(r) \/ RefundStep(r)
              PROVE  moved'[q] = moved[q]
            <4>1. CASE q = r
                BY <2>1, <3>1, <3>2, <4>1, SettledStaysStill
            <4>2. CASE q # r
                BY <3>1, <3>2, <4>2, PreConsumeOthers, RelayOthers DEF Untouched
            <4> QED
                BY <4>1, <4>2
        <3>3. CASE \/ \E r \in Requests : FeeStep(r)
                   \/ \E i \in Subs : PeriodEnds(i) \/ ResetDueSubscription(i)
                   \/ UNCHANGED vars
            BY <3>1, <3>3, BystandersUntouched DEF Untouched
        <3> QED
            BY <1>1, <3>2, <3>3, Zenon DEF Next, Terminating
    <2> QED
        BY <2>1
<1> QED
    BY <1>1, SessionsConsistent, PTL DEF Spec, SettledIsFinal

\* What the exact amounts say of a request that is over.
LEMMA SessionIsCharged ==
    ASSUME TypeOK, NEW r \in Requests, HoldOK(r), AccountOK(r), faults = 0
    PROVE  /\ pc[r] = "done" /\ sess[r].settled =>
                /\ FundingMoved(r) = info[r].served
                /\ moved[r].wallet = 0 \/ moved[r].sub = 0
                /\ moved[r].token = TokenShare(r, info[r].served)
           /\ pc[r] = "rejected" \/ (pc[r] = "done" /\ sess[r].refunded) => moved[r] = NothingMoved
           /\ pc[r] = "done" /\ ~sess[r].settled /\ ~sess[r].refunded =>
                /\ FundingMoved(r) = sess[r].preConsumed
                /\ moved[r].token = TokenShare(r, sess[r].preConsumed)
<1> USE DEF AccountOK, ExactOK, HoldOK
<1>1. /\ moved[r].token = TokenShare(r, TokenDue(r)) /\ FundingMoved(r) = Due(r)
      /\ sess[r].source # "subscription" => moved[r].sub = 0
      /\ sess[r].source # "wallet" => moved[r].wallet = 0
    BY DEF WalletOK
<1>2. moved[r].wallet = 0 \/ moved[r].sub = 0
    BY <1>1
<1>3. /\ sess[r].settled \in BOOLEAN /\ sess[r].refunded \in BOOLEAN /\ sess[r].preConsumed \in Nat
      /\ moved[r] \in [wallet : Int, token : Int, sub : Int]
    BY FieldTypes DEF TypeOK, SessionType
<1>4. pc[r] = "done" /\ sess[r].settled => Due(r) = info[r].served /\ TokenDue(r) = info[r].served
    BY DEF Due, TokenDue
<1>5. pc[r] = "done" /\ sess[r].refunded => Due(r) = 0 /\ TokenDue(r) = 0
    BY DEF Due, TokenDue, RefundOver, FlagsOK
<1>6. pc[r] \in {"rejected", "done"} => ~sess[r].reserving /\ sess[r].preConsumed = sess[r].tokenConsumed
    BY DEF FlagsOK, TokenOK
<1>7. pc[r] = "rejected" => Due(r) = 0 /\ TokenDue(r) = 0
    BY <1>3, <1>6 DEF Due, TokenDue, RefundOver, FlagsOK, SourceOK, Pending
<1>8. pc[r] = "done" /\ ~sess[r].settled /\ ~sess[r].refunded =>
          Due(r) = sess[r].preConsumed /\ TokenDue(r) = sess[r].preConsumed
    BY <1>3, <1>6 DEF Due, TokenDue, RefundOver, Pending
<1>9. Due(r) = 0 /\ TokenDue(r) = 0 => moved[r] = NothingMoved
    <2> SUFFICES ASSUME Due(r) = 0, TokenDue(r) = 0 PROVE moved[r] = NothingMoved
        OBVIOUS
    <2>1. moved[r].token = 0 /\ moved[r].wallet = 0 /\ moved[r].sub = 0
        BY <1>1 DEF TokenShare, FundingMoved
    <2> QED
        BY <1>3, <2>1 DEF NothingMoved
<1> QED
    BY <1>1, <1>2, <1>4, <1>5, <1>7, <1>8, <1>9

\* Without first-chunk failovers every request that is over has cost what it should: the quota
\* of its answer from one funding source and the token, nothing when it was refused or refunded,
\* its hold when it could not be settled.
THEOREM SessionsAreCharged == ~FirstChunkFailover /\ Spec => []SessionAccounts
<1> SUFFICES ASSUME ~FirstChunkFailover PROVE Spec => []SessionAccounts
    OBVIOUS
<1>1. SessionInvariant => SessionAccounts
    <2> SUFFICES ASSUME SessionInvariant PROVE SessionAccounts
        OBVIOUS
    <2>1. TypeOK /\ \A r \in Requests : HoldOK(r) /\ AccountOK(r)
        BY DEF SessionInvariant, RequestOK
    <2> QED
        BY <2>1, SessionIsCharged
        DEF SessionAccounts, SettledChargesServed, FailureCostsNothing, UnsettledKeepsHold
<1> QED
    BY <1>1, SessionsConsistent, PTL

------------------------------------------------------------------------------
(***************************************************************************)
(* The rows of the wallet and the token.  A fee is charged only when the   *)
(* request is over or being refunded, so neither the funding source nor    *)
(* the kind of the request changes under it.                               *)
(***************************************************************************)

FeesOK == \A r \in Requests : fee[r] # "none" => pc[r] \in Refunding \cup {"done"}

\* What a step of r takes from the balances is what it adds to moved.
BalancesMove(r) ==
    /\ userQuota - userQuota' = moved'[r].wallet - moved[r].wallet
    /\ tokenQuota - tokenQuota' = moved'[r].token - moved[r].token

LEMMA ChargeBalances ==
    ASSUME TypeOK, NEW r \in Requests, NEW n \in Int,
           \/ ChargeWallet(r, n) \/ ChargeToken(r, n) \/ ChargeSubscription(r, n)
           \/ ChargeFunding(r, n) \/ StatementFails \/ UNCHANGED balances
    PROVE  BalancesMove(r)
<1>1. /\ moved[r].wallet \in Int /\ moved[r].token \in Int /\ userQuota \in Int /\ tokenQuota \in Int
      /\ moved \in [Requests -> [wallet : Int, token : Int, sub : Int]]
    BY DEF TypeOK
<1>2. CASE ChargeWallet(r, n)
    <2>1. userQuota' = userQuota - n /\ tokenQuota' = tokenQuota
          /\ moved'[r].wallet = moved[r].wallet + n /\ moved'[r].token = moved[r].token
        BY <1>1, <1>2 DEF ChargeWallet
    <2> QED
        BY <1>1, <2>1 DEF BalancesMove
<1>3. CASE ChargeToken(r, n)
    <2>1. userQuota' = userQuota /\ tokenQuota' = tokenQuota - n
          /\ moved'[r].wallet = moved[r].wallet /\ moved'[r].token = moved[r].token + n
        BY <1>1, <1>3 DEF ChargeToken
    <2> QED
        BY <1>1, <2>1 DEF BalancesMove
<1>4. CASE ChargeSubscription(r, n)
    <2>1. userQuota' = userQuota /\ tokenQuota' = tokenQuota
          /\ moved'[r].wallet = moved[r].wallet /\ moved'[r].token = moved[r].token
        BY <1>1, <1>4 DEF ChargeSubscription
    <2> QED
        BY <1>1, <2>1 DEF BalancesMove
<1>5. CASE StatementFails \/ UNCHANGED balances
    <2>1. userQuota' = userQuota /\ tokenQuota' = tokenQuota /\ moved' = moved
        BY <1>5 DEF StatementFails, balances
    <2> QED
        BY <1>1, <2>1 DEF BalancesMove
<1> QED
    BY <1>2, <1>3, <1>4, <1>5 DEF ChargeFunding

LEMMA OwnStepBalances ==
    ASSUME TypeOK, NEW r \in Requests,
           PreConsumeStep(r) \/ ReserveFunding(r) \/ RelayStep(r) \/ RefundStep(r)
    PROVE  BalancesMove(r)
<1>1. /\ sess[r].effective \in Int /\ -sess[r].effective \in Int /\ -sess[r].tokenConsumed \in Int
      /\ -sess[r].consumed \in Int /\ -sess[r].subPre \in Int /\ -sess[r].extraReserved \in Int
      /\ SettleDelta(r) \in Int
    BY FieldTypes
<1>2. ASSUME UNCHANGED balances PROVE BalancesMove(r)
    BY <1>2, ChargeBalances
<1>3. CASE NewBillingSession(r) \/ TryWallet(r) \/ TrySubscription(r) \/ PreConsumeTokenRead(r)
    BY <1>2, <1>3 DEF NewBillingSession, TryWallet, TrySubscription, PreConsumeTokenRead
<1>4. CASE PreConsumeTokenWrite(r) \/ WalletPreConsume(r)
    BY <1>1, <1>4, ChargeBalances DEF PreConsumeTokenWrite, WalletPreConsume
<1>5. CASE SubscriptionPreConsume(r)
    <2>1. /\ userQuota' = userQuota /\ tokenQuota' = tokenQuota
          /\ moved'[r].wallet = moved[r].wallet /\ moved'[r].token = moved[r].token
        BY <1>5 DEF SubscriptionPreConsume, StatementFails, balances, TypeOK
    <2> QED
        BY <2>1 DEF BalancesMove, TypeOK
<1>6. CASE TokenRollback(r) \/ ReserveRollback(r)
    BY <1>1, <1>6, ChargeBalances DEF TokenRollback, ReserveRollback
<1>7. CASE ReserveFunding(r)
    <2>1. PICK target \in ReserveTargets :
              \/ ChargeFunding(r, target - sess[r].preConsumed)
              \/ StatementFails \/ UNCHANGED balances
        BY <1>7 DEF ReserveFunding
    <2>2. target - sess[r].preConsumed \in Int
        BY FieldTypes, BillingAssumption
    <2> QED
        BY <2>1, <2>2, ChargeBalances
<1>8. CASE RelayStep(r)
    BY <1>1, <1>8, ChargeBalances DEF RelayStep, AttemptFails, AttemptAnswers, AttemptEnds, SettleFunding,
                                      SettleToken
<1>9. CASE RefundStep(r)
    BY <1>1, <1>9, ChargeBalances DEF RefundStep, RefundWallet, RefundSubscription, RefundMarkRecord,
                                      RefundExtraReserved, RefundToken
<1> QED
    BY <1>3, <1>4, <1>5, <1>6, <1>7, <1>8, <1>9 DEF PreConsumeStep

\* What a step of r does to its fee and to what the fee depends on.
LEMMA OwnStepFee ==
    ASSUME TypeOK, FeesOK, NEW r \in Requests,
           PreConsumeStep(r) \/ ReserveFunding(r) \/ RelayStep(r) \/ RefundStep(r)
    PROVE  /\ \A q \in Requests : q # r => fee'[q] = fee[q]
           /\ fee[r] = "none" => \/ fee'[r] = "none"
                                 \/ fee'[r] = "funding" /\ pc'[r] \in Refunding \cup {"done"}
           /\ fee[r] # "none" => /\ fee'[r] = fee[r] /\ sess'[r] = sess[r] /\ info'[r].kind = info[r].kind
                                 /\ pc'[r] \in Refunding \cup {"done"}
<1>1. /\ fee \in [Requests -> {"none", "funding", "token", "charged", "failed"}]
      /\ pc \in [Requests -> Locations] /\ info \in [Requests -> InfoType]
    BY DEF TypeOK
<1>2. CASE PreConsumeStep(r) \/ ReserveFunding(r) \/ SettleFunding(r) \/ SettleToken(r) \/ AttemptAnswers(r)
    <2>1. pc[r] \notin Refunding \cup {"done"}
        BY <1>2 DEF PreConsumeStep, NewBillingSession, TryWallet, TrySubscription, PreConsumeTokenRead,
                    PreConsumeTokenWrite, WalletPreConsume, SubscriptionPreConsume, TokenRollback,
                    ReserveRollback, ReserveFunding, SettleFunding, SettleToken, AttemptAnswers, Refunding
    <2>2. fee[r] = "none"
        BY <2>1 DEF FeesOK
    <2>3. fee' = fee
        BY <1>2, Zenon
        DEF PreConsumeStep, NewBillingSession, TryWallet, TrySubscription, PreConsumeTokenRead,
            PreConsumeTokenWrite, WalletPreConsume, SubscriptionPreConsume, TokenRollback,
            ReserveRollback, ReserveFunding, SettleFunding, SettleToken, AttemptAnswers
    <2> QED
        BY <2>2, <2>3
<1>3. CASE AttemptFails(r) \/ AttemptEnds(r)
    <2>1. fee[r] = "none"
        BY <1>3 DEF FeesOK, AttemptFails, AttemptEnds, Refunding
    <2>2. ASSUME RetryOrFail(r)
          PROVE  fee' = fee \/ (/\ fee' = [fee EXCEPT ![r] = "funding"]
                                /\ pc'[r] \in Refunding \cup {"done"})
        <3>1. fee' = fee \/ (fee' = [fee EXCEPT ![r] = "funding"] /\ (Goto(r, "refundFunding") \/ Goto(r, "done")))
            BY <2>2 DEF RetryOrFail, RelayFails
        <3> QED
            BY <1>1, <3>1 DEF Goto, Refunding
    <2>3. fee' = fee \/ (fee' = [fee EXCEPT ![r] = "funding"] /\ pc'[r] \in Refunding \cup {"done"})
        BY <1>3, <2>2 DEF AttemptFails, AttemptEnds
    <2> QED
        BY <1>1, <2>1, <2>3
<1>4. CASE RefundStep(r)
    <2>1. fee' = fee /\ sess' = sess
        BY <1>4 DEF RefundStep, RefundWallet, RefundSubscription, RefundMarkRecord, RefundExtraReserved,
                    RefundToken
    <2>2. \E l \in Refunding \cup {"done"} : Goto(r, l)
        BY <1>4 DEF RefundStep, RefundWallet, RefundSubscription, RefundMarkRecord, RefundExtraReserved,
                    RefundToken, RefundAttemptFailed, Refunding
    <2>3. info' = info \/ info' = [info EXCEPT ![r].tries = @ + 1]
        BY <1>4 DEF RefundStep, RefundWallet, RefundSubscription, RefundMarkRecord, RefundExtraReserved,
                    RefundToken, RefundAttemptFailed
    <2>4. info'[r].kind = info[r].kind
        BY <1>1, <2>3 DEF InfoType
    <2> QED
        BY <1>1, <2>1, <2>2, <2>4 DEF Goto
<1> QED
    BY <1>2, <1>3, <1>4 DEF RelayStep

LEMMA FeeFields ==
    ASSUME TypeOK, NEW r \in Requests
    PROVE  /\ FeeFromWallet(r) \in Int /\ FeeFromToken(r) \in Int
           /\ moved[r].wallet \in Int /\ moved[r].token \in Int /\ moved[r].sub \in Int
           /\ FromWallet[r] = moved[r].wallet + FeeFromWallet(r)
           /\ FromToken[r] = moved[r].token + FeeFromToken(r)
BY BillingAssumption DEF TypeOK, FeeFromWallet, FeeFromToken, TokenShare, FromWallet, FromToken

\* A step takes from the rows what r took more.
TakesOnly(r) ==
    /\ \A q \in Requests : q # r => FromWallet'[q] = FromWallet[q] /\ FromToken'[q] = FromToken[q]
    /\ userQuota - userQuota' = FromWallet'[r] - FromWallet[r]
    /\ tokenQuota - tokenQuota' = FromToken'[r] - FromToken[r]

\* The sums follow the balances when one request takes a step.
LEMMA RowsChange ==
    ASSUME TypeOK, TypeOK', NEW r \in Requests,
           TakesOnly(r), faults' = 0 => faults = 0, RowsMatchSessions
    PROVE  RowsMatchSessions'
<1> DEFINE h == FromWallet
           k == FromWallet'
           m == FromToken
           n == FromToken'
<1>1. \A q \in Requests : FromWallet[q] \in Int /\ FromToken[q] \in Int
    BY FeeFields
<1>2. \A q \in Requests : FromWallet'[q] \in Int /\ FromToken'[q] \in Int
    <2> TAKE q \in Requests
    <2>1. /\ FeeFromWallet(q)' \in Int /\ FeeFromToken(q)' \in Int
          /\ moved'[q].wallet \in Int /\ moved'[q].token \in Int
        BY BillingAssumption DEF TypeOK, FeeFromWallet, FeeFromToken, TokenShare
    <2> QED
        BY <2>1 DEF FromWallet, FromToken
<1>3. /\ InitUserQuota \in Int /\ InitTokenQuota \in Int /\ IsFiniteSet(Requests)
      /\ userQuota \in Int /\ userQuota' \in Int /\ tokenQuota \in Int /\ tokenQuota' \in Int
    BY BillingAssumption DEF TypeOK
<1> HIDE DEF h, k, m, n
<1>4. ASSUME InitUserQuota - userQuota = SumFunctionOnSet(h, Requests)
      PROVE  InitUserQuota - userQuota' = SumFunctionOnSet(k, Requests)
    <2>1. /\ \A q \in Requests : h[q] \in Int /\ k[q] \in Int
          /\ \A q \in Requests : q # r => k[q] = h[q]
          /\ userQuota - userQuota' = k[r] - h[r]
        BY <1>1, <1>2 DEF TakesOnly, h, k
    <2>2. /\ SumFunctionOnSet(k, Requests) = SumFunctionOnSet(h, Requests) - h[r] + k[r]
          /\ SumFunctionOnSet(h, Requests) \in Int /\ h[r] \in Int /\ k[r] \in Int
        BY <1>3, <2>1, SumChange, SumIsInt
    <2> DEFINE s == SumFunctionOnSet(h, Requests)
               x == h[r]
               y == k[r]
    <2>3. PICK i \in Int, a \in Int, b \in Int : i = InitUserQuota /\ a = userQuota /\ b = userQuota'
        BY <1>3
    <2>4. s \in Int /\ x \in Int /\ y \in Int /\ i - a = s /\ a - b = y - x
        BY <1>4, <2>1, <2>2, <2>3
    <2> HIDE DEF s, x, y
    <2>5. i - b = s - x + y
        BY <2>4
    <2> QED
        BY <2>2, <2>3, <2>5 DEF s, x, y
<1>5. ASSUME InitTokenQuota - tokenQuota = SumFunctionOnSet(m, Requests)
      PROVE  InitTokenQuota - tokenQuota' = SumFunctionOnSet(n, Requests)
    <2>1. /\ \A q \in Requests : m[q] \in Int /\ n[q] \in Int
          /\ \A q \in Requests : q # r => n[q] = m[q]
          /\ tokenQuota - tokenQuota' = n[r] - m[r]
        BY <1>1, <1>2 DEF TakesOnly, m, n
    <2>2. /\ SumFunctionOnSet(n, Requests) = SumFunctionOnSet(m, Requests) - m[r] + n[r]
          /\ SumFunctionOnSet(m, Requests) \in Int /\ m[r] \in Int /\ n[r] \in Int
        BY <1>3, <2>1, SumChange, SumIsInt
    <2> DEFINE s == SumFunctionOnSet(m, Requests)
               x == m[r]
               y == n[r]
    <2>3. PICK i \in Int, a \in Int, b \in Int : i = InitTokenQuota /\ a = tokenQuota /\ b = tokenQuota'
        BY <1>3
    <2>4. s \in Int /\ x \in Int /\ y \in Int /\ i - a = s /\ a - b = y - x
        BY <1>5, <2>1, <2>2, <2>3
    <2> HIDE DEF s, x, y
    <2>5. i - b = s - x + y
        BY <2>4
    <2> QED
        BY <2>2, <2>3, <2>5 DEF s, x, y
<1> QED
    BY <1>4, <1>5 DEF RowsMatchSessions, h, k, m, n

\* Steps that charge no fee.
LEMMA OwnStepRows ==
    ASSUME TypeOK, TypeOK', FeesOK, RowsMatchSessions, NEW r \in Requests,
           PreConsumeStep(r) \/ ReserveFunding(r) \/ RelayStep(r) \/ RefundStep(r)
    PROVE  RowsMatchSessions' /\ FeesOK'
<1>1. /\ \A q \in Requests : q # r => fee'[q] = fee[q]
      /\ fee[r] = "none" => \/ fee'[r] = "none"
                            \/ fee'[r] = "funding" /\ pc'[r] \in Refunding \cup {"done"}
      /\ fee[r] # "none" => /\ fee'[r] = fee[r] /\ sess'[r] = sess[r] /\ info'[r].kind = info[r].kind
                            /\ pc'[r] \in Refunding \cup {"done"}
    BY OwnStepFee
<1>2. BalancesMove(r)
    BY OwnStepBalances
<1>3. \A q \in Requests : q # r => Untouched(q)
    BY PreConsumeOthers, RelayOthers
<1>4. FeesOK'
    BY <1>1, <1>3 DEF FeesOK, Untouched
<1>5. FeeFromWallet(r)' = FeeFromWallet(r) /\ FeeFromToken(r)' = FeeFromToken(r)
    BY <1>1 DEF FeeFromWallet, FeeFromToken, TokenShare
<1>6. \A q \in Requests : q # r => FromWallet'[q] = FromWallet[q] /\ FromToken'[q] = FromToken[q]
    BY <1>1, <1>3 DEF FromWallet, FromToken, FeeFromWallet, FeeFromToken, TokenShare, Untouched
<1>7. /\ FromWallet'[r] = moved'[r].wallet + FeeFromWallet(r)
      /\ FromToken'[r] = moved'[r].token + FeeFromToken(r)
    BY <1>5 DEF FromWallet, FromToken
<1>8. /\ FeeFromWallet(r) \in Int /\ FeeFromToken(r) \in Int
      /\ moved[r].wallet \in Int /\ moved[r].token \in Int
      /\ moved'[r].wallet \in Int /\ moved'[r].token \in Int
      /\ FromWallet[r] = moved[r].wallet + FeeFromWallet(r)
      /\ FromToken[r] = moved[r].token + FeeFromToken(r)
    BY FeeFields DEF TypeOK
<1>9. /\ FromWallet'[r] - FromWallet[r] = moved'[r].wallet - moved[r].wallet
      /\ FromToken'[r] - FromToken[r] = moved'[r].token - moved[r].token
    BY <1>7, <1>8
<1>10. faults' = 0 => faults = 0
    <2>1. StatementFails \/ UNCHANGED faults
        BY Zenon
        DEF PreConsumeStep, NewBillingSession, TryWallet, TrySubscription, PreConsumeTokenRead,
            PreConsumeTokenWrite, WalletPreConsume, SubscriptionPreConsume, TokenRollback,
            ReserveRollback, ReserveFunding, RelayStep, SettleFunding, SettleToken, AttemptAnswers,
            AttemptFails, AttemptEnds, RefundStep, RefundWallet, RefundSubscription, RefundMarkRecord,
            RefundExtraReserved, RefundToken
    <2> QED
        BY <2>1, FaultsStay
<1> QED
    BY <1>2, <1>4, <1>6, <1>9, <1>10, RowsChange DEF BalancesMove, TakesOnly

\* The fee is taken from the wallet or the subscription, then from the token.
LEMMA FeeStepRows ==
    ASSUME TypeOK, TypeOK', FeesOK, RowsMatchSessions, NEW r \in Requests, FeeStep(r)
    PROVE  RowsMatchSessions' /\ FeesOK'
<1>1. /\ fee \in [Requests -> {"none", "funding", "token", "charged", "failed"}]
      /\ userQuota \in Int /\ tokenQuota \in Int /\ ViolationFee \in Nat /\ faults \in Nat
    BY BillingAssumption DEF TypeOK
<1>2. pc' = pc /\ sess' = sess /\ info' = info /\ moved' = moved
    BY DEF FeeStep, FeeFunding, FeeToken, StatementFails, balances
<1>3. \A q \in Requests : q # r => fee'[q] = fee[q]
    BY <1>1 DEF FeeStep, FeeFunding, FeeToken
<1>4. fee[r] # "none"
    BY DEF FeeStep, FeeFunding, FeeToken
<1>5. FeesOK'
    BY <1>2, <1>3, <1>4 DEF FeesOK
<1>6. CASE StatementFails
    <2>1. faults' # 0
        BY <1>1, <1>6 DEF StatementFails
    <2> QED
        BY <1>5, <2>1 DEF RowsMatchSessions
<1>7. CASE ~StatementFails
    <2>1. faults' = faults
        BY <1>7 DEF FeeStep, FeeFunding, FeeToken
    <2>2. /\ FeeFromWallet(r)' - FeeFromWallet(r) = userQuota - userQuota'
          /\ FeeFromToken(r)' - FeeFromToken(r) = tokenQuota - tokenQuota'
        <3>1. CASE FeeFunding(r)
            <4>1. fee[r] = "funding" /\ tokenQuota' = tokenQuota
                BY <3>1 DEF FeeFunding
            <4>2. \/ /\ sess[r].source = "wallet" /\ userQuota' = userQuota - ViolationFee /\ fee'[r] = "token"
                  \/ /\ sess[r].source = "subscription" /\ userQuota' = userQuota
                     /\ fee'[r] \in {"token", "failed"}
                BY <1>1, <1>7, <3>1 DEF FeeFunding
            <4>3. FeeFromToken(r) = 0 /\ FeeFromToken(r)' = 0 /\ FeeFromWallet(r) = 0
                BY <4>1, <4>2 DEF FeeFromToken, FeeFromWallet
            <4>4. FeeFromWallet(r)' = userQuota - userQuota'
                BY <1>1, <1>2, <4>2 DEF FeeFromWallet
            <4>5. tokenQuota - tokenQuota' = 0
                BY <1>1, <4>1
            <4>6. userQuota - userQuota' \in Int
                BY <1>1, <4>2
            <4>7. FeeFromToken(r)' - FeeFromToken(r) = tokenQuota - tokenQuota'
                BY <4>3, <4>5
            <4>8. FeeFromWallet(r)' - FeeFromWallet(r) = userQuota - userQuota'
                BY <4>3, <4>4, <4>6
            <4> QED
                BY <4>7, <4>8
        <3>2. CASE FeeToken(r)
            <4>1. /\ fee[r] = "token" /\ fee'[r] = "charged" /\ userQuota' = userQuota
                  /\ tokenQuota' = tokenQuota - IF info[r].kind.playground THEN 0 ELSE ViolationFee
                BY <1>1, <1>7, <3>2 DEF FeeToken
            <4>2. FeeFromToken(r) = 0 /\ FeeFromToken(r)' = TokenShare(r, ViolationFee)
                  /\ FeeFromWallet(r)' = FeeFromWallet(r) /\ FeeFromWallet(r) \in Int
                BY <1>1, <1>2, <4>1 DEF FeeFromToken, FeeFromWallet, TokenShare
            <4> QED
                BY <1>1, <4>1, <4>2 DEF TokenShare
        <3> QED
            BY <3>1, <3>2 DEF FeeStep
    <2>3. \A q \in Requests : q # r => FromWallet'[q] = FromWallet[q] /\ FromToken'[q] = FromToken[q]
        BY <1>2, <1>3 DEF FromWallet, FromToken, FeeFromWallet, FeeFromToken, TokenShare
    <2>4. /\ FromWallet'[r] = moved[r].wallet + FeeFromWallet(r)'
          /\ FromToken'[r] = moved[r].token + FeeFromToken(r)'
        BY <1>2 DEF FromWallet, FromToken
    <2>5. /\ FeeFromWallet(r) \in Int /\ FeeFromToken(r) \in Int
          /\ moved[r].wallet \in Int /\ moved[r].token \in Int
          /\ FromWallet[r] = moved[r].wallet + FeeFromWallet(r)
          /\ FromToken[r] = moved[r].token + FeeFromToken(r)
        BY FeeFields
    <2>6. FeeFromWallet(r)' \in Int /\ FeeFromToken(r)' \in Int
        BY <1>1 DEF FeeFromWallet, FeeFromToken, TokenShare
    <2>7. FromWallet'[r] - FromWallet[r] = FeeFromWallet(r)' - FeeFromWallet(r)
          /\ FromToken'[r] - FromToken[r] = FeeFromToken(r)' - FeeFromToken(r)
        BY <2>4, <2>5, <2>6
    <2> QED
        BY <1>5, <2>1, <2>2, <2>3, <2>7, RowsChange DEF TakesOnly
<1> QED
    BY <1>6, <1>7

RowsInvariant == TypeOK /\ FeesOK /\ RowsMatchSessions

LEMMA NextRows == RowsInvariant /\ [Next]_vars => RowsInvariant'
<1> SUFFICES ASSUME RowsInvariant, [Next]_vars PROVE RowsInvariant'
    OBVIOUS
<1>1. TypeOK /\ TypeOK' /\ FeesOK /\ RowsMatchSessions
    BY NextType DEF RowsInvariant
<1>2. ASSUME NEW r \in Requests,
             PreConsumeStep(r) \/ ReserveFunding(r) \/ RelayStep(r) \/ RefundStep(r)
      PROVE  RowsInvariant'
    BY <1>1, <1>2, OwnStepRows DEF RowsInvariant
<1>3. ASSUME NEW r \in Requests, FeeStep(r) PROVE RowsInvariant'
    BY <1>1, <1>3, FeeStepRows DEF RowsInvariant
<1>4. CASE UNCHANGED vars \/ \E i \in Subs : PeriodEnds(i) \/ ResetDueSubscription(i)
    <2>1. /\ userQuota' = userQuota /\ tokenQuota' = tokenQuota /\ moved' = moved /\ pc' = pc
          /\ info' = info /\ sess' = sess /\ fee' = fee /\ faults' = faults
        BY <1>4 DEF vars, PeriodEnds, ResetDueSubscription
    <2>2. FromWallet' = FromWallet /\ FromToken' = FromToken
        BY <2>1 DEF FromWallet, FromToken, FeeFromWallet, FeeFromToken, TokenShare
    <2>3. RowsMatchSessions' /\ FeesOK'
        BY <1>1, <2>1, <2>2 DEF RowsMatchSessions, FeesOK
    <2> QED
        BY <1>1, <2>3 DEF RowsInvariant
<1> QED
    BY <1>2, <1>3, <1>4, Zenon DEF Next, Terminating

LEMMA InitRows == Init => RowsInvariant
<1> SUFFICES ASSUME Init PROVE RowsInvariant
    OBVIOUS
<1>1. \A r \in Requests : FromWallet[r] = 0 /\ FromToken[r] = 0
    BY DEF Init, FromWallet, FromToken, FeeFromWallet, FeeFromToken, NothingMoved
<1>2. SumFunctionOnSet(FromWallet, Requests) = 0 /\ SumFunctionOnSet(FromToken, Requests) = 0
    BY <1>1, SumOfZeros, BillingAssumption
<1>3. RowsMatchSessions
    BY <1>2, BillingAssumption DEF Init, RowsMatchSessions
<1> QED
    BY <1>3, InitType DEF Init, RowsInvariant, FeesOK

\* For any number of concurrent requests every unit missing from the wallet and the token is what
\* one session or one violation fee took, as long as no statement failed: no read-check-write of
\* the billing code loses the update of another request.
THEOREM NoUpdateIsLost == Spec => []RowsMatchSessions
<1>1. RowsInvariant => RowsMatchSessions
    BY DEF RowsInvariant
<1> QED
    BY <1>1, InitRows, NextRows, PTL DEF Spec

------------------------------------------------------------------------------
(* amount_used of a subscription against what the sessions on it took.     *)

\* Only a subscription session that has made its first hold knows its row.
SubIdOK(r) ==
    sess[r].subId # NoSub =>
        sess[r].source = "subscription" /\ (pc[r] \in Opening => sess[r].reserving)

\* What a step of r does to the rows, to moved[r].sub and to the row r knows.
ChargesNothing(r) ==
    sub' = sub /\ moved'[r].sub = moved[r].sub /\ sess'[r].subId = sess[r].subId

ChargesRow(r) ==
    \E n \in Int : /\ sub' = RowsAfterDelta(sub, sess[r].subId, n)
                   /\ moved'[r].sub = moved[r].sub + n /\ sess'[r].subId = sess[r].subId

ExpiresRows(r) ==
    /\ sub' = RowsAfterInsufficient(sub)
    /\ moved'[r].sub = moved[r].sub /\ sess'[r].subId = sess[r].subId

TakesHold(r) ==
    /\ pc[r] = "fundingPreConsume" /\ sess[r].source = "subscription"
    /\ SufficientSubs(sub, sess[r].effective) # {}
    /\ sub' = RowsAfterPreConsume(sub, sess[r].effective)
    /\ moved'[r].sub = moved[r].sub + sess[r].effective
    /\ sess[r].subId = NoSub /\ sess'[r].subId = ChosenSub(sub, sess[r].effective)

UseMoves(r) == ChargesNothing(r) \/ ChargesRow(r) \/ ExpiresRows(r) \/ TakesHold(r)

\* The statements of r, seen from its subscription.
LEMMA ChargeUse ==
    ASSUME TypeOK, NEW r \in Requests, NEW n \in Int, sess'[r].subId = sess[r].subId,
           \/ ChargeWallet(r, n) \/ ChargeToken(r, n) \/ ChargeSubscription(r, n)
           \/ ChargeFunding(r, n) \/ StatementFails \/ UNCHANGED balances
    PROVE  UseMoves(r)
<1>1. CASE ChargeWallet(r, n) \/ ChargeToken(r, n) \/ StatementFails \/ UNCHANGED balances
    <2>1. sub' = sub /\ moved'[r].sub = moved[r].sub
        BY <1>1, ChargeMoves DEF ChargeWallet, ChargeToken, StatementFails, balances
    <2> QED
        BY <2>1 DEF UseMoves, ChargesNothing
<1>2. CASE ChargeSubscription(r, n)
    <2>1. sub' = RowsAfterDelta(sub, sess[r].subId, n) /\ moved'[r].sub = moved[r].sub + n
        BY <1>2, ChargeMoves DEF ChargeSubscription
    <2> QED
        BY <2>1 DEF UseMoves, ChargesRow
<1> QED
    BY <1>1, <1>2 DEF ChargeFunding

\* The first hold and the refusals of PreConsumeUserSubscription.
LEMMA FirstHoldUse ==
    ASSUME TypeOK, NEW r \in Requests, RequestOK(r), SubIdOK(r), SubscriptionPreConsume(r)
    PROVE  UseMoves(r) /\ SubIdOK(r)'
<1>1. /\ sess \in [Requests -> SessionType] /\ pc \in [Requests -> Locations]
      /\ moved \in [Requests -> [wallet : Int, token : Int, sub : Int]]
    BY DEF TypeOK
<1>2. /\ pc[r] = "fundingPreConsume" /\ sess[r].source = "subscription" /\ sess[r].subId = NoSub
    BY DEF SubscriptionPreConsume, SubIdOK, Opening, RequestOK, HoldOK, FlagsOK
<1>3. CASE /\ SufficientSubs(sub, sess[r].effective) # {}
           /\ sub' = RowsAfterPreConsume(sub, sess[r].effective)
           /\ moved' = [moved EXCEPT ![r].sub = @ + sess[r].effective]
           /\ sess' = [sess EXCEPT ![r] =
                         [@ EXCEPT !.subId = ChosenSub(sub, sess[r].effective), !.subPre = sess[r].effective,
                                   !.preConsumed = sess[r].effective]]
           /\ Goto(r, "relaying")
    <2>1. /\ moved'[r].sub = moved[r].sub + sess[r].effective
        BY <1>1, <1>3
    <2>2. sess'[r].subId = ChosenSub(sub, sess[r].effective) /\ sess'[r].source = sess[r].source
        BY <1>1, <1>3 DEF SessionType
    <2>3. pc'[r] = "relaying"
        BY <1>1, <1>3 DEF Goto
    <2> QED
        BY <1>2, <1>3, <2>1, <2>2, <2>3 DEF UseMoves, TakesHold, SubIdOK, Opening
<1>4. CASE sess' = sess /\ moved' = moved /\ (sub' = sub \/ sub' = RowsAfterInsufficient(sub))
    BY <1>2, <1>4 DEF UseMoves, ChargesNothing, ExpiresRows, SubIdOK
<1> QED
    BY <1>3, <1>4 DEF SubscriptionPreConsume, StatementFails, balances

LEMMA OpeningUse ==
    ASSUME TypeOK, NEW r \in Requests, RequestOK(r), SubIdOK(r),
           NewBillingSession(r) \/ TryWallet(r) \/ TrySubscription(r) \/ TokenRollback(r)
    PROVE  UseMoves(r) /\ SubIdOK(r)'
<1>1. /\ sess \in [Requests -> SessionType] /\ pc \in [Requests -> Locations]
      /\ -sess[r].tokenConsumed \in Int
    BY FieldTypes DEF TypeOK
<1>2. sess[r].subId = NoSub
    <2>1. pc[r] \in Fresh \/ pc[r] = "tokenRollback"
        BY DEF NewBillingSession, TryWallet, TrySubscription, TokenRollback, Fresh
    <2>2. /\ pc[r] \in Fresh => sess[r] = NewSession
          /\ sess[r].reserving => pc[r] \in {"tokenRead", "tokenWrite", "reserveRollback"}
        BY DEF RequestOK, HoldOK, FlagsOK
    <2>3. CASE pc[r] \in Fresh
        BY <2>2, <2>3 DEF NewSession
    <2>4. CASE pc[r] = "tokenRollback"
        BY <2>2, <2>4 DEF SubIdOK, Opening
    <2> QED
        BY <2>1, <2>3, <2>4
<1>3. sess'[r].subId = NoSub
    <2>1. CASE NewBillingSession(r)
        BY <1>2, <2>1 DEF NewBillingSession
    <2>2. CASE TryWallet(r)
        <3> DEFINE new(e) == [NewSession EXCEPT !.source = "wallet", !.trusted = ShouldTrust(r),
                                                !.effective = e]
        <3>1. \A e : new(e).subId = NoSub
            BY DEF NewSession
        <3> HIDE DEF new
        <3>2. sess' = sess \/ \E e : sess' = [sess EXCEPT ![r] = new(e)]
            BY <2>2, Zenon DEF TryWallet, new
        <3> QED
            BY <1>1, <1>2, <3>1, <3>2
    <2>3. CASE TrySubscription(r)
        BY <1>1, <2>3 DEF TrySubscription, NewSession
    <2>4. CASE TokenRollback(r)
        BY <1>1, <2>4 DEF TokenRollback, NewSession
    <2> QED
        BY <2>1, <2>2, <2>3, <2>4
<1>4. UseMoves(r)
    BY <1>1, <1>2, <1>3, ChargeUse DEF NewBillingSession, TryWallet, TrySubscription, TokenRollback
<1> QED
    BY <1>3, <1>4 DEF SubIdOK

LEMMA HoldingUse ==
    ASSUME TypeOK, NEW r \in Requests, RequestOK(r), SubIdOK(r),
           PreConsumeTokenRead(r) \/ PreConsumeTokenWrite(r) \/ WalletPreConsume(r) \/ ReserveRollback(r)
           \/ ReserveFunding(r)
    PROVE  UseMoves(r) /\ SubIdOK(r)'
<1>1. /\ sess \in [Requests -> SessionType] /\ pc \in [Requests -> Locations]
      /\ sess[r].effective \in Int /\ -sess[r].effective \in Int
    BY FieldTypes DEF TypeOK
<1>2. CASE PreConsumeTokenRead(r) \/ PreConsumeTokenWrite(r)
    <2>1. TokenPreConsumed(r) \/ TokenRefused(r) \/ (sess' = sess /\ Goto(r, "tokenWrite"))
        BY <1>2 DEF PreConsumeTokenRead, PreConsumeTokenWrite
    <2>2. sess'[r].subId = sess[r].subId /\ sess'[r].source = sess[r].source
        BY <1>1, <2>1 DEF TokenPreConsumed, TokenRefused, SessionType
    <2>3. UseMoves(r)
        BY <1>1, <1>2, <2>2, ChargeUse DEF PreConsumeTokenRead, PreConsumeTokenWrite
    <2>4. pc[r] \in {"tokenRead", "tokenWrite"}
        BY <1>2 DEF PreConsumeTokenRead, PreConsumeTokenWrite
    <2>5. CASE sess[r].subId = NoSub
        BY <2>2, <2>3, <2>5 DEF SubIdOK
    <2>6. CASE sess[r].subId # NoSub
        <3>1. sess[r].reserving /\ sess[r].source = "subscription"
            BY <2>4, <2>6 DEF SubIdOK, Opening
        <3>2. \/ pc'[r] = "relaying" \/ pc'[r] = "reserveRollback"
              \/ pc'[r] = "tokenWrite" /\ sess' = sess
            BY <1>1, <2>1, <3>1 DEF TokenPreConsumed, TokenRefused, Goto
        <3> QED
            BY <2>2, <2>3, <3>1, <3>2 DEF SubIdOK, Opening
    <2> QED
        BY <2>5, <2>6
<1>3. CASE WalletPreConsume(r)
    <2>1. sess[r].subId = NoSub
        BY <1>3 DEF WalletPreConsume, SubIdOK
    <2>2. sess'[r].subId = sess[r].subId
        BY <1>1, <1>3 DEF WalletPreConsume, SessionType
    <2>3. UseMoves(r)
        BY <1>1, <1>3, <2>2, ChargeUse DEF WalletPreConsume
    <2> QED
        BY <2>1, <2>2, <2>3 DEF SubIdOK
<1>4. CASE ReserveRollback(r)
    <2>1. sess'[r].subId = sess[r].subId /\ sess'[r].source = sess[r].source /\ pc'[r] = "relaying"
        BY <1>1, <1>4 DEF ReserveRollback, SessionType, Goto
    <2>2. UseMoves(r)
        BY <1>1, <1>4, <2>1, ChargeUse DEF ReserveRollback
    <2> QED
        BY <2>1, <2>2 DEF SubIdOK, Opening
<1>5. CASE ReserveFunding(r)
    <2>1. PICK target \in ReserveTargets :
              \/ /\ ChargeFunding(r, target - sess[r].preConsumed)
                 /\ sess' = [sess EXCEPT ![r] =
                       [@ EXCEPT !.consumed = sess[r].consumed + WalletPart(r, target - sess[r].preConsumed),
                                 !.effective = target - sess[r].preConsumed,
                                 !.reserving = TRUE]]
              \/ (StatementFails \/ UNCHANGED balances) /\ sess' = sess /\ pc' = pc
        BY <1>5 DEF ReserveFunding
    <2>2. target - sess[r].preConsumed \in Int
        BY FieldTypes, BillingAssumption
    <2>3. \/ /\ sess'[r].subId = sess[r].subId /\ sess'[r].source = sess[r].source
             /\ sess'[r].reserving = TRUE
          \/ sess' = sess /\ pc' = pc
        BY <1>1, <2>1 DEF SessionType
    <2>4. UseMoves(r)
        BY <2>1, <2>2, <2>3, ChargeUse
    <2> QED
        BY <2>3, <2>4 DEF SubIdOK
<1> QED
    BY <1>2, <1>3, <1>4, <1>5

LEMMA RelayUse ==
    ASSUME TypeOK, NEW r \in Requests, RequestOK(r), SubIdOK(r), RelayStep(r) \/ RefundStep(r)
    PROVE  UseMoves(r) /\ SubIdOK(r)'
<1>1. /\ sess \in [Requests -> SessionType] /\ pc \in [Requests -> Locations]
      /\ SettleDelta(r) \in Int /\ -sess[r].tokenConsumed \in Int
      /\ -sess[r].consumed \in Int /\ -sess[r].subPre \in Int /\ -sess[r].extraReserved \in Int
    BY FieldTypes DEF TypeOK
<1>2. CASE RelayStep(r)
    <2>1. \/ sess' = sess \/ sess' = [sess EXCEPT ![r].refunded = TRUE]
          \/ sess' = [sess EXCEPT ![r].settled = TRUE] \/ sess' = [sess EXCEPT ![r].fundingSettled = TRUE]
        BY <1>2 DEF RelayStep, AttemptFails, AttemptAnswers, AttemptEnds, SettleFunding, SettleToken,
                    RetryOrFail, RelayFails
    <2>2. sess'[r].subId = sess[r].subId /\ sess'[r].source = sess[r].source
        BY <1>1, <2>1 DEF SessionType
    <2>3. \E l \in {"relaying", "refundFunding", "done", "answered", "settleFunding", "settleToken"} : Goto(r, l)
        BY <1>2 DEF RelayStep, AttemptFails, AttemptAnswers, AttemptEnds, SettleFunding, SettleToken,
                    RetryOrFail, RelayFails
    <2>4. pc'[r] \notin Opening
        BY <1>1, <2>3 DEF Goto, Opening
    <2>5. UseMoves(r)
        BY <1>1, <1>2, <2>2, ChargeUse DEF RelayStep, AttemptFails, AttemptAnswers, AttemptEnds,
                                           SettleFunding, SettleToken
    <2> QED
        BY <2>2, <2>4, <2>5 DEF SubIdOK
<1>3. CASE RefundStep(r)
    <2>1. sess' = sess
        BY <1>3 DEF RefundStep, RefundWallet, RefundSubscription, RefundMarkRecord, RefundExtraReserved,
                    RefundToken
    <2>2. \E l \in Refunding \cup {"done"} : Goto(r, l)
        BY <1>3 DEF RefundStep, RefundWallet, RefundSubscription, RefundMarkRecord, RefundExtraReserved,
                    RefundToken, RefundAttemptFailed, Refunding
    <2>3. pc'[r] \notin Opening
        BY <1>1, <2>2 DEF Goto, Opening, Refunding
    <2>4. UseMoves(r)
        BY <1>1, <1>3, <2>1, ChargeUse DEF RefundStep, RefundWallet, RefundSubscription, RefundMarkRecord,
                                           RefundExtraReserved, RefundToken
    <2> QED
        BY <2>1, <2>3, <2>4 DEF SubIdOK
<1> QED
    BY <1>2, <1>3

LEMMA OwnStepUse ==
    ASSUME TypeOK, NEW r \in Requests, RequestOK(r), SubIdOK(r),
           PreConsumeStep(r) \/ ReserveFunding(r) \/ RelayStep(r) \/ RefundStep(r)
    PROVE  UseMoves(r) /\ SubIdOK(r)'
BY OpeningUse, FirstHoldUse, HoldingUse, RelayUse DEF PreConsumeStep

FeeTaken(r) == IF fee[r] \in {"token", "charged"} THEN ViolationFee ELSE 0

\* A row that is active after a step in which the sessions took d more from it.
RowMoves(i, d) ==
    sub'[i].status = "active" =>
        /\ sub[i].status = "active"
        /\ sub'[i].used <= UsedAfterDelta(sub[i], d)
        /\ ~sub[i].resetDue => ~sub'[i].resetDue /\ sub'[i].used = UsedAfterDelta(sub[i], d)

LEMMA FromSubFields ==
    ASSUME TypeOK, NEW r \in Requests, NEW i \in Subs
    PROVE  /\ FeeTaken(r) \in Nat /\ moved[r].sub \in Int /\ FromSub(i)[r] \in Int
           /\ FromSub(i)[r] = IF sess[r].subId # i THEN 0 ELSE moved[r].sub + FeeTaken(r)
BY BillingAssumption DEF TypeOK, FromSub, FeeTaken

LEMMA FromSubNext ==
    ASSUME TypeOK', NEW r \in Requests, NEW i \in Subs
    PROVE  /\ FeeTaken(r)' \in Nat /\ moved'[r].sub \in Int /\ FromSub(i)'[r] \in Int
           /\ FromSub(i)'[r] = IF sess'[r].subId # i THEN 0 ELSE moved'[r].sub + FeeTaken(r)'
BY BillingAssumption DEF TypeOK, FromSub, FeeTaken

LEMMA RowStays ==
    ASSUME TypeOK, NEW i \in Subs, sub'[i] = sub[i]
    PROVE  RowMoves(i, 0)
<1>1. sub[i].used \in Nat
    BY DEF TypeOK, SubscriptionRows
<1> QED
    BY <1>1 DEF RowMoves, UsedAfterDelta

LEMMA UseRow ==
    ASSUME TypeOK, TypeOK', NEW r \in Requests, NEW i \in Subs, UseMoves(r), FeeTaken(r)' = FeeTaken(r),
           TakesHold(r) => moved[r].sub = 0 /\ FeeTaken(r) = 0
    PROVE  RowMoves(i, FromSub(i)'[r] - FromSub(i)[r])
<1>1. /\ sub \in SubscriptionRows /\ sub[i].used \in Nat /\ sub[i].resetDue \in BOOLEAN
      /\ sub[i] \in [used : Nat, status : {"active", "expired"}, resetDue : BOOLEAN]
    BY DEF TypeOK, SubscriptionRows
<1>2. /\ FeeTaken(r) \in Nat /\ moved[r].sub \in Int /\ FromSub(i)[r] \in Int
      /\ FromSub(i)[r] = IF sess[r].subId # i THEN 0 ELSE moved[r].sub + FeeTaken(r)
    BY FromSubFields
<1>3. /\ moved'[r].sub \in Int /\ FromSub(i)'[r] \in Int
      /\ FromSub(i)'[r] = IF sess'[r].subId # i THEN 0 ELSE moved'[r].sub + FeeTaken(r)
    BY FromSubNext
<1>4. CASE ChargesNothing(r)
    <2>1. FromSub(i)'[r] - FromSub(i)[r] = 0
        BY <1>2, <1>3, <1>4 DEF ChargesNothing
    <2>2. RowMoves(i, 0)
        BY <1>4, RowStays DEF ChargesNothing
    <2> QED
        BY <2>1, <2>2
<1>5. CASE ChargesRow(r)
    <2>1. PICK n \in Int : /\ sub' = RowsAfterDelta(sub, sess[r].subId, n)
                           /\ moved'[r].sub = moved[r].sub + n /\ sess'[r].subId = sess[r].subId
        BY <1>5 DEF ChargesRow
    <2>2. CASE sess[r].subId # i
        <3>1. FromSub(i)'[r] - FromSub(i)[r] = 0
            BY <1>2, <1>3, <2>1, <2>2
        <3>2. sub'[i] = sub[i]
            BY <1>1, <2>1, <2>2 DEF RowsAfterDelta, SubscriptionRows
        <3> QED
            BY <3>1, <3>2, RowStays
    <2>3. CASE sess[r].subId = i
        <3>1. FromSub(i)'[r] - FromSub(i)[r] = n
            BY <1>2, <1>3, <2>1, <2>3
        <3>2. /\ sub'[i].used = UsedAfterDelta(sub[i], n)
              /\ sub'[i].status = sub[i].status /\ sub'[i].resetDue = sub[i].resetDue
            BY <1>1, <2>1, <2>3 DEF RowsAfterDelta, SubscriptionRows
        <3>3. UsedAfterDelta(sub[i], n) \in Int
            BY <1>1 DEF UsedAfterDelta
        <3>4. RowMoves(i, n)
            BY <3>2, <3>3 DEF RowMoves
        <3> QED
            BY <3>1, <3>4
    <2> QED
        BY <2>2, <2>3
<1>6. CASE ExpiresRows(r)
    <2>1. sub'[i].status # "active"
        BY <1>1, <1>6 DEF ExpiresRows, RowsAfterInsufficient, ActiveSubs
    <2> QED
        BY <2>1 DEF RowMoves
<1>7. CASE TakesHold(r)
    <2>1. PICK n : n = sess[r].effective
        OBVIOUS
    <2>2. PICK c : c = ChosenSub(sub, n)
        OBVIOUS
    <2>3. /\ n \in Nat /\ sub' = RowsAfterPreConsume(sub, n) /\ SufficientSubs(sub, n) # {}
          /\ moved[r].sub = 0 /\ moved'[r].sub = n /\ FeeTaken(r) = 0
          /\ sess[r].subId = NoSub /\ sess'[r].subId = c
        BY <1>2, <1>7, <2>1, <2>2, FieldTypes DEF TakesHold
    <2>4. c \in SufficientSubs(sub, n) /\ c \in Subs
        BY <1>1, <2>2, <2>3, ChosenSubIsSufficient DEF SufficientSubs, ActiveSubs
    <2>5. FromSub(i)[r] = 0
        BY <1>2, <2>3, SubsAssumption DEF NoSub
    <2>6. sub'[i] = IF i \notin ActiveSubs(sub) \/ i > c THEN sub[i]
                    ELSE IF i < c THEN ResetRow(sub[i])
                    ELSE [ResetRow(sub[i]) EXCEPT !.used = @ + n]
        BY <2>2, <2>3 DEF RowsAfterPreConsume
    <2>7. i \in Int /\ c \in Int
        BY <2>4, SubsAssumption
    <2>8. CASE c # i
        <3>1. FromSub(i)'[r] - FromSub(i)[r] = 0
            BY <1>3, <2>3, <2>5, <2>8
        <3>2. sub'[i] = sub[i] \/ sub'[i] = ResetRow(sub[i])
            BY <2>6, <2>7, <2>8
        <3>3. CASE sub'[i] = sub[i]
            BY <3>1, <3>3, RowStays
        <3>4. CASE sub'[i] = ResetRow(sub[i])
            <4>1. /\ sub'[i].used = UsedAfterReset(sub[i]) /\ sub'[i].status = sub[i].status
                  /\ sub'[i].resetDue = FALSE
                BY <1>1, <3>4 DEF ResetRow
            <4>2. RowMoves(i, 0)
                BY <1>1, <4>1 DEF RowMoves, UsedAfterReset, UsedAfterDelta
            <4> QED
                BY <3>1, <4>2
        <3> QED
            BY <3>2, <3>3, <3>4
    <2>9. CASE c = i
        <3>1. FromSub(i)'[r] - FromSub(i)[r] = n
            BY <1>3, <2>3, <2>5, <2>9
        <3>2. sub'[i] = [ResetRow(sub[i]) EXCEPT !.used = @ + n]
            BY <2>4, <2>6, <2>7, <2>9 DEF SufficientSubs
        <3>3. /\ sub'[i].used = UsedAfterReset(sub[i]) + n /\ sub'[i].status = sub[i].status
              /\ sub'[i].resetDue = FALSE
            BY <1>1, <3>2 DEF ResetRow
        <3>4. RowMoves(i, n)
            BY <1>1, <2>3, <3>3 DEF RowMoves, UsedAfterReset, UsedAfterDelta
        <3> QED
            BY <3>1, <3>4
    <2> QED
        BY <2>8, <2>9
<1> QED
    BY <1>4, <1>5, <1>6, <1>7 DEF UseMoves

\* The use of an active row is covered by what the sessions took from it, and is exactly that before
\* the first period ends.
UseOK(i) ==
    sub[i].status = "active" =>
        /\ sub[i].used <= SumFunctionOnSet(FromSub(i), Requests)
        /\ periods = 0 => /\ ~sub[i].resetDue
                          /\ sub[i].used = SumFunctionOnSet(FromSub(i), Requests)

LEMMA TakenIsNat ==
    ASSUME SessionInvariant, ~FirstChunkFailover, faults = 0, NEW r \in Requests, NEW i \in Subs
    PROVE  FromSub(i)[r] \in Nat
<1>1. TypeOK /\ RequestOK(r) /\ AccountOK(r)
    BY DEF SessionInvariant, RequestOK
<1>2. moved[r].sub \in Nat
    <2>1. CASE sess[r].source = "subscription"
        <3>1. moved[r].sub = Due(r)
            BY <1>1, <2>1 DEF AccountOK, ExactOK, FundingMoved
        <3>2. Due(r) \in Nat
            BY <1>1, FieldTypes DEF Due, Pending
        <3> QED
            BY <3>1, <3>2
    <2>2. CASE sess[r].source # "subscription"
        BY <1>1, <2>2 DEF AccountOK, ExactOK
    <2> QED
        BY <2>1, <2>2
<1> QED
    BY <1>1, <1>2, FromSubFields

LEMMA TakenIsNatNext ==
    ASSUME SessionInvariant', ~FirstChunkFailover, faults' = 0, NEW r \in Requests, NEW i \in Subs
    PROVE  FromSub(i)'[r] \in Nat
<1>1. TypeOK' /\ RequestOK(r)' /\ AccountOK(r)'
    BY DEF SessionInvariant, RequestOK
<1>2. /\ sess'[r].preConsumed \in Nat /\ sess'[r].extraReserved \in Nat /\ sess'[r].effective \in Nat
      /\ info'[r].served \in Nat /\ info'[r].actual \in Nat
    BY <1>1 DEF TypeOK, SessionType, InfoType
<1>3. moved'[r].sub \in Nat
    <2>1. CASE sess'[r].source = "subscription"
        <3>1. moved'[r].sub = Due(r)'
            BY <1>1, <2>1 DEF AccountOK, ExactOK, FundingMoved
        <3>2. Due(r)' \in Nat
            BY <1>2 DEF Due, Pending
        <3> QED
            BY <3>1, <3>2
    <2>2. CASE sess'[r].source # "subscription"
        BY <1>1, <2>2 DEF AccountOK, ExactOK
    <2> QED
        BY <2>1, <2>2
<1> QED
    BY <1>1, <1>3, FromSubNext

LEMMA UsedFollows ==
    ASSUME NEW used \in Nat, NEW next \in Nat, NEW s \in Nat, NEW t \in Nat, NEW x \in Int, NEW y \in Int,
           t = s - x + y, used <= s, next <= (IF used + (y - x) < 0 THEN 0 ELSE used + (y - x))
    PROVE  /\ next <= t
           /\ used = s /\ next = (IF used + (y - x) < 0 THEN 0 ELSE used + (y - x)) => next = t
OBVIOUS

\* The sum of a row follows it when one request takes a step.
LEMMA UseChange ==
    ASSUME SessionInvariant, SessionInvariant', ~FirstChunkFailover, faults = 0, faults' = 0,
           NEW r \in Requests, NEW i \in Subs, UseOK(i), periods' = periods,
           \A q \in Requests : q # r => FromSub(i)'[q] = FromSub(i)[q],
           RowMoves(i, FromSub(i)'[r] - FromSub(i)[r])
    PROVE  UseOK(i)'
<1> SUFFICES ASSUME sub'[i].status = "active"
             PROVE  /\ sub'[i].used <= SumFunctionOnSet(FromSub(i)', Requests)
                    /\ periods' = 0 => /\ ~sub'[i].resetDue
                                       /\ sub'[i].used = SumFunctionOnSet(FromSub(i)', Requests)
    BY DEF UseOK
<1> DEFINE h == FromSub(i)
           k == FromSub(i)'
           s == SumFunctionOnSet(h, Requests)
           t == SumFunctionOnSet(k, Requests)
<1>1. IsFiniteSet(Requests)
    BY BillingAssumption
<1>2. \A q \in Requests : h[q] \in Nat /\ k[q] \in Nat
    BY TakenIsNat, TakenIsNatNext
<1>3. \A q \in Requests : q # r => k[q] = h[q]
    OBVIOUS
<1>4. /\ sub[i].status = "active" /\ sub[i].used <= s /\ sub'[i].used <= UsedAfterDelta(sub[i], k[r] - h[r])
      /\ ~sub[i].resetDue => ~sub'[i].resetDue /\ sub'[i].used = UsedAfterDelta(sub[i], k[r] - h[r])
      /\ periods = 0 => ~sub[i].resetDue /\ sub[i].used = s
    BY DEF RowMoves, UseOK
<1>5. sub[i].used \in Nat /\ sub'[i].used \in Nat
    BY DEF SessionInvariant, TypeOK, SubscriptionRows
<1> HIDE DEF h, k
<1>6. t = s - h[r] + k[r]
    BY <1>1, <1>2, <1>3, SumChange
<1>7. s \in Nat /\ t \in Nat /\ h[r] \in Int /\ k[r] \in Int
    BY <1>1, <1>2, SumIsNat
<1> HIDE DEF s, t
<1>8. /\ sub'[i].used <= t
      /\ sub[i].used = s /\ sub'[i].used = UsedAfterDelta(sub[i], k[r] - h[r]) => sub'[i].used = t
    BY <1>4, <1>5, <1>6, <1>7, UsedFollows DEF UsedAfterDelta
<1> QED
    BY <1>4, <1>8 DEF t, k

UseInvariant ==
    /\ SessionInvariant /\ RowsInvariant
    /\ \A r \in Requests : SubIdOK(r)
    /\ faults = 0 => \A i \in Subs : UseOK(i)

\* A step of a session.
LEMMA OwnStepKeepsUse ==
    ASSUME ~FirstChunkFailover, UseInvariant, SessionInvariant', NEW r \in Requests,
           PreConsumeStep(r) \/ ReserveFunding(r) \/ RelayStep(r) \/ RefundStep(r)
    PROVE  /\ \A q \in Requests : SubIdOK(q)'
           /\ faults' = 0 => \A i \in Subs : UseOK(i)'
<1>1. TypeOK /\ TypeOK' /\ FeesOK /\ RequestOK(r) /\ AccountOK(r) /\ SubIdOK(r)
    BY DEF UseInvariant, SessionInvariant, RowsInvariant, RequestOK
<1>2. UseMoves(r) /\ SubIdOK(r)'
    BY <1>1, OwnStepUse
<1>3. \A q \in Requests : q # r => Untouched(q)
    BY <1>1, PreConsumeOthers, RelayOthers
<1>4. \A q \in Requests : SubIdOK(q)'
    BY <1>2, <1>3 DEF UseInvariant, SubIdOK, Untouched
<1>5. /\ \A q \in Requests : q # r => fee'[q] = fee[q]
      /\ fee[r] = "none" => fee'[r] \in {"none", "funding"}
      /\ fee[r] # "none" => fee'[r] = fee[r]
    BY <1>1, OwnStepFee
<1>6. FeeTaken(r)' = FeeTaken(r)
    BY <1>5 DEF FeeTaken
<1>7. faults' = 0 => faults = 0
    <2>1. StatementFails \/ UNCHANGED faults
        BY Zenon
        DEF PreConsumeStep, NewBillingSession, TryWallet, TrySubscription, PreConsumeTokenRead,
            PreConsumeTokenWrite, WalletPreConsume, SubscriptionPreConsume, TokenRollback,
            ReserveRollback, ReserveFunding, RelayStep, SettleFunding, SettleToken, AttemptAnswers,
            AttemptFails, AttemptEnds, RefundStep, RefundWallet, RefundSubscription, RefundMarkRecord,
            RefundExtraReserved, RefundToken
    <2> QED
        BY <1>1, <2>1, FaultsStay
<1>8. periods' = periods
    BY Zenon
    DEF PreConsumeStep, NewBillingSession, TryWallet, TrySubscription, PreConsumeTokenRead,
        PreConsumeTokenWrite, WalletPreConsume, SubscriptionPreConsume, TokenRollback,
        ReserveRollback, ReserveFunding, RelayStep, SettleFunding, SettleToken, AttemptAnswers,
        AttemptFails, AttemptEnds, RefundStep, RefundWallet, RefundSubscription, RefundMarkRecord,
        RefundExtraReserved, RefundToken
<1>9. ASSUME faults' = 0, NEW i \in Subs PROVE UseOK(i)'
    <2>1. faults = 0 /\ UseOK(i)
        BY <1>7, <1>9 DEF UseInvariant
    <2>2. ASSUME TakesHold(r) PROVE moved[r].sub = 0 /\ FeeTaken(r) = 0
        <3>1. pc[r] = "fundingPreConsume" /\ sess[r].source = "subscription"
            BY <2>2 DEF TakesHold
        <3>2. fee[r] = "none"
            BY <1>1, <3>1 DEF FeesOK, Refunding
        <3>3. ~sess[r].settled /\ ~sess[r].reserving /\ sess[r].preConsumed = 0
            BY <1>1, <3>1 DEF RequestOK, HoldOK, FlagsOK, TokenOK
        <3>4. moved[r].sub = Due(r)
            BY <1>1, <2>1, <3>1 DEF AccountOK, ExactOK, FundingMoved
        <3>5. Due(r) = 0
            BY <3>1, <3>3 DEF Due, RefundOver, Pending
        <3> QED
            BY <3>2, <3>4, <3>5 DEF FeeTaken
    <2>3. RowMoves(i, FromSub(i)'[r] - FromSub(i)[r])
        BY <1>1, <1>2, <1>6, <2>2, UseRow
    <2>4. \A q \in Requests : q # r => FromSub(i)'[q] = FromSub(i)[q]
        BY <1>3, <1>5 DEF FromSub, Untouched
    <2>5. SessionInvariant
        BY DEF UseInvariant
    <2> QED
        BY <1>8, <1>9, <2>1, <2>3, <2>4, <2>5, UseChange
<1> QED
    BY <1>4, <1>9

\* The violation fee.
LEMMA FeeStepKeepsUse ==
    ASSUME ~FirstChunkFailover, UseInvariant, SessionInvariant', NEW r \in Requests, FeeStep(r)
    PROVE  /\ \A q \in Requests : SubIdOK(q)'
           /\ faults' = 0 => \A i \in Subs : UseOK(i)'
<1>1. TypeOK /\ TypeOK' /\ FeesOK /\ SubIdOK(r) /\ SessionInvariant
    BY DEF UseInvariant, SessionInvariant, RowsInvariant
<1>2. pc' = pc /\ sess' = sess /\ moved' = moved /\ periods' = periods
    BY DEF FeeStep, FeeFunding, FeeToken, StatementFails, balances
<1>3. \A q \in Requests : SubIdOK(q)'
    BY <1>2 DEF UseInvariant, SubIdOK
<1>4. fee \in [Requests -> {"none", "funding", "token", "charged", "failed"}] /\ ViolationFee \in Nat
    BY <1>1, BillingAssumption DEF TypeOK
<1>5. \A q \in Requests : q # r => fee'[q] = fee[q]
    BY <1>4 DEF FeeStep, FeeFunding, FeeToken
<1>6. StatementFails \/ faults' = faults
    BY DEF FeeStep, FeeFunding, FeeToken
<1>7. ASSUME faults' = 0, NEW i \in Subs PROVE UseOK(i)'
    <2>1. faults = 0 /\ UseOK(i) /\ ~StatementFails
        BY <1>1, <1>6, <1>7, FaultsStay DEF UseInvariant, StatementFails, TypeOK
    <2>2. \A q \in Requests : q # r => FromSub(i)'[q] = FromSub(i)[q]
        BY <1>2, <1>5 DEF FromSub
    <2>3. /\ FromSub(i)[r] = IF sess[r].subId # i THEN 0 ELSE moved[r].sub + FeeTaken(r)
          /\ FromSub(i)'[r] = IF sess[r].subId # i THEN 0 ELSE moved[r].sub + FeeTaken(r)'
          /\ moved[r].sub \in Int /\ FeeTaken(r) \in Nat /\ FeeTaken(r)' \in Nat
        BY <1>1, <1>2, FromSubFields, FromSubNext
    <2>4. \/ sub' = sub /\ (FeeTaken(r)' = FeeTaken(r) \/ sess[r].source = "wallet")
          \/ /\ sub' = RowsAfterDelta(sub, sess[r].subId, ViolationFee)
             /\ FeeTaken(r) = 0 /\ FeeTaken(r)' = ViolationFee
        BY <1>4, <2>1 DEF FeeStep, FeeFunding, FeeToken, FeeTaken
    <2>5. RowMoves(i, FromSub(i)'[r] - FromSub(i)[r])
        <3>1. CASE sub' = sub /\ (FeeTaken(r)' = FeeTaken(r) \/ sess[r].source = "wallet")
            <4>1. sess[r].source = "wallet" => sess[r].subId # i
                BY <1>1, SubsAssumption DEF SubIdOK, NoSub
            <4>2. FromSub(i)'[r] - FromSub(i)[r] = 0
                BY <2>3, <3>1, <4>1
            <4> QED
                BY <1>1, <3>1, <4>2, RowStays
        <3>2. CASE /\ sub' = RowsAfterDelta(sub, sess[r].subId, ViolationFee)
                   /\ FeeTaken(r) = 0 /\ FeeTaken(r)' = ViolationFee
            <4>1. sub \in SubscriptionRows /\ sub[i].used \in Nat
                  /\ sub[i] \in [used : Nat, status : {"active", "expired"}, resetDue : BOOLEAN]
                BY <1>1 DEF TypeOK, SubscriptionRows
            <4>2. CASE sess[r].subId # i
                <5>1. FromSub(i)'[r] - FromSub(i)[r] = 0
                    BY <2>3, <4>2
                <5>2. sub'[i] = sub[i]
                    BY <3>2, <4>1, <4>2 DEF RowsAfterDelta, SubscriptionRows
                <5> QED
                    BY <1>1, <5>1, <5>2, RowStays
            <4>3. CASE sess[r].subId = i
                <5>1. FromSub(i)'[r] - FromSub(i)[r] = ViolationFee
                    BY <1>4, <2>3, <3>2, <4>3
                <5>2. /\ sub'[i].used = UsedAfterDelta(sub[i], ViolationFee)
                      /\ sub'[i].status = sub[i].status /\ sub'[i].resetDue = sub[i].resetDue
                    BY <3>2, <4>1, <4>3 DEF RowsAfterDelta, SubscriptionRows
                <5>3. UsedAfterDelta(sub[i], ViolationFee) \in Int
                    BY <1>4, <4>1 DEF UsedAfterDelta
                <5>4. RowMoves(i, ViolationFee)
                    BY <5>2, <5>3 DEF RowMoves
                <5> QED
                    BY <5>1, <5>4
            <4> QED
                BY <4>2, <4>3
        <3> QED
            BY <2>4, <3>1, <3>2
    <2> QED
        BY <1>1, <1>2, <1>7, <2>1, <2>2, <2>5, UseChange
<1> QED
    BY <1>3, <1>7

\* The end of a period and the reset task touch no session.
LEMMA PeriodKeepsUse ==
    ASSUME UseInvariant, SessionInvariant', NEW i \in Subs, UNCHANGED <<pc, sess, moved, fee, faults>>,
           \/ UNCHANGED <<sub, periods>>
           \/ \E j \in Subs : PeriodEnds(j) \/ ResetDueSubscription(j)
    PROVE  faults' = 0 => UseOK(i)'
<1> SUFFICES ASSUME faults = 0, sub'[i].status = "active"
             PROVE  /\ sub'[i].used <= SumFunctionOnSet(FromSub(i)', Requests)
                    /\ periods' = 0 => /\ ~sub'[i].resetDue
                                       /\ sub'[i].used = SumFunctionOnSet(FromSub(i)', Requests)
    BY DEF UseOK
<1>1. FromSub(i)' = FromSub(i)
    BY DEF FromSub
<1>2. UseOK(i)
    BY DEF UseInvariant
<1>3. /\ sub \in SubscriptionRows /\ sub[i].used \in Nat /\ periods \in Nat
      /\ sub[i] \in [used : Nat, status : {"active", "expired"}, resetDue : BOOLEAN]
    BY DEF UseInvariant, SessionInvariant, TypeOK, SubscriptionRows
<1>4. CASE UNCHANGED <<sub, periods>>
    BY <1>1, <1>2, <1>4 DEF UseOK
<1>5. CASE \E j \in Subs : PeriodEnds(j)
    <2>1. periods' # 0
        BY <1>3, <1>5 DEF PeriodEnds
    <2>2. sub'[i].used = sub[i].used /\ sub[i].status = "active"
        BY <1>3, <1>5 DEF PeriodEnds, SubscriptionRows
    <2> QED
        BY <1>1, <1>2, <2>1, <2>2 DEF UseOK
<1>6. CASE \E j \in Subs : ResetDueSubscription(j)
    <2>1. PICK j \in Subs : ResetDueSubscription(j)
        BY <1>6
    <2>2. periods' = periods /\ sub' = [sub EXCEPT ![j] = ResetRow(sub[j])] /\ sub[j].resetDue
        BY <2>1 DEF ResetDueSubscription
    <2>3. CASE j # i
        <3>1. sub'[i] = sub[i]
            BY <1>3, <2>2, <2>3 DEF SubscriptionRows
        <3> QED
            BY <1>1, <1>2, <2>2, <3>1 DEF UseOK
    <2>4. CASE j = i
        <3>1. sub'[i].used = 0 /\ sub[i].status = "active" /\ sub[i].resetDue
            BY <1>3, <2>2, <2>4 DEF SubscriptionRows, ResetRow, UsedAfterReset
        <3>2. /\ sub[i].used <= SumFunctionOnSet(FromSub(i), Requests) /\ periods # 0
            BY <1>2, <3>1 DEF UseOK
        <3>3. \A r \in Requests : FromSub(i)[r] \in Int
            BY FromSubFields DEF UseInvariant, SessionInvariant
        <3>4. SumFunctionOnSet(FromSub(i), Requests) \in Int
            BY <3>3, SumIsInt, BillingAssumption
        <3> QED
            BY <1>1, <1>3, <2>2, <3>1, <3>2, <3>4
    <2> QED
        BY <2>3, <2>4
<1> QED
    BY <1>4, <1>5, <1>6

LEMMA NextUse ==
    ASSUME ~FirstChunkFailover
    PROVE  UseInvariant /\ [Next]_vars => UseInvariant'
<1> SUFFICES ASSUME UseInvariant, [Next]_vars PROVE UseInvariant'
    OBVIOUS
<1>1. SessionInvariant' /\ RowsInvariant'
    BY NextSessions, NextRows DEF UseInvariant
<1>2. ASSUME NEW r \in Requests,
             PreConsumeStep(r) \/ ReserveFunding(r) \/ RelayStep(r) \/ RefundStep(r)
      PROVE  UseInvariant'
    BY <1>1, <1>2, OwnStepKeepsUse DEF UseInvariant
<1>3. ASSUME NEW r \in Requests, FeeStep(r) PROVE UseInvariant'
    BY <1>1, <1>3, FeeStepKeepsUse DEF UseInvariant
<1>4. CASE UNCHANGED vars \/ \E i \in Subs : PeriodEnds(i) \/ ResetDueSubscription(i)
    <2>1. UNCHANGED <<pc, sess, moved, fee, faults>>
        BY <1>4 DEF vars, PeriodEnds, ResetDueSubscription
    <2>2. \/ UNCHANGED <<sub, periods>>
          \/ \E j \in Subs : PeriodEnds(j) \/ ResetDueSubscription(j)
        BY <1>4 DEF vars
    <2>3. \A i \in Subs : faults' = 0 => UseOK(i)'
        BY <1>1, <2>1, <2>2, PeriodKeepsUse
    <2>4. \A r \in Requests : SubIdOK(r)'
        BY <2>1 DEF UseInvariant, SubIdOK
    <2> QED
        BY <1>1, <2>3, <2>4 DEF UseInvariant
<1> QED
    BY <1>2, <1>3, <1>4, Zenon DEF Next, Terminating

LEMMA InitUse == Init => UseInvariant
<1> SUFFICES ASSUME Init PROVE UseInvariant
    OBVIOUS
<1>1. ASSUME NEW i \in Subs PROVE UseOK(i)
    <2>1. \A r \in Requests : FromSub(i)[r] = 0
        BY DEF Init, FromSub, NothingMoved
    <2>2. SumFunctionOnSet(FromSub(i), Requests) = 0
        BY <2>1, SumOfZeros, BillingAssumption
    <2> QED
        BY <2>2 DEF Init, UseOK
<1>2. \A r \in Requests : SubIdOK(r)
    BY DEF Init, SubIdOK, NewSession
<1> QED
    BY <1>1, <1>2, InitSessions, InitRows DEF UseInvariant

LEMMA UseIsExact ==
    ASSUME ~FirstChunkFailover, UseInvariant
    PROVE  SubscriptionUseExact
<1> SUFFICES ASSUME faults = 0, NEW i \in Subs, sub[i].status = "active"
             PROVE  /\ sub[i].used <= SumFunctionOnSet(FromSub(i), Requests)
                    /\ periods = 0 => sub[i].used >= SumFunctionOnSet(SettledOn(i), Requests)
    BY DEF SubscriptionUseExact, UseIsAccountedFor, SubscriptionRefundIdempotent
<1>1. UseOK(i) /\ TypeOK /\ SessionInvariant
    BY DEF UseInvariant, SessionInvariant
<1>2. \A r \in Requests : SettledOn(i)[r] \in Int /\ FromSub(i)[r] \in Int /\ SettledOn(i)[r] <= FromSub(i)[r]
    <2> TAKE r \in Requests
    <2>1. FromSub(i)[r] \in Nat
        BY <1>1, TakenIsNat
    <2>2. /\ FromSub(i)[r] = IF sess[r].subId # i THEN 0 ELSE moved[r].sub + FeeTaken(r)
          /\ FeeTaken(r) \in Nat /\ moved[r].sub \in Int
        BY <1>1, FromSubFields
    <2>3. SettledOn(i)[r] = 0 \/ (SettledOn(i)[r] = moved[r].sub /\ sess[r].subId = i)
        BY DEF SettledOn
    <2> QED
        BY <2>1, <2>2, <2>3
<1>3. /\ SumFunctionOnSet(SettledOn(i), Requests) <= SumFunctionOnSet(FromSub(i), Requests)
      /\ SumFunctionOnSet(SettledOn(i), Requests) \in Int /\ SumFunctionOnSet(FromSub(i), Requests) \in Int
    BY <1>2, SumMonotone, SumIsInt, BillingAssumption
<1> QED
    BY <1>1, <1>3 DEF UseOK

\* For any number of concurrent requests on any number of subscriptions, and without first-chunk
\* failovers and failed statements: amount_used never exceeds what the sessions on the row took, and
\* before its first reset it covers what the settled ones used, so no refund gives that back.
THEOREM SubscriptionUseIsExact == ~FirstChunkFailover /\ Spec => []SubscriptionUseExact
<1> SUFFICES ASSUME ~FirstChunkFailover PROVE Spec => []SubscriptionUseExact
    OBVIOUS
<1>1. UseInvariant => SubscriptionUseExact
    BY UseIsExact
<1>2. UseInvariant /\ [Next]_vars => UseInvariant'
    BY NextUse
<1> QED
    BY <1>1, <1>2, InitUse, PTL DEF Spec

------------------------------------------------------------------------------
(***************************************************************************)
(* The refinement of HoldLedger.  A step of a request is classified by     *)
(* what it does to the flags of its session; the account it moves and the  *)
(* balance are known from BalancesMove.                                    *)
(***************************************************************************)

\* The session of r is neither settled, in part or whole, nor refunded.
Unclosed(r) == ~sess[r].settled /\ ~sess[r].fundingSettled /\ ~sess[r].refunded

\* A step that changes the account of r only.
AloneMoved(r) ==
    /\ BalancesMove(r)
    /\ moved'[r].wallet \in Nat /\ moved'[r].token \in Nat
    /\ \A q \in Requests : q # r => Untouched(q) /\ fee'[q] = fee[q]

LEMMA OwnStepAlone ==
    ASSUME TypeOK, FeesOK, NEW r \in Requests, RequestOK(r),
           PreConsumeStep(r) \/ ReserveFunding(r) \/ RelayStep(r) \/ RefundStep(r), TypeOK'
    PROVE  AloneMoved(r)
<1>1. BalancesMove(r)
    BY OwnStepBalances
<1>2. moved'[r].wallet \in Int /\ moved'[r].token \in Int
    BY DEF TypeOK
<1>3. moved'[r].wallet >= 0 /\ moved'[r].token >= 0
    BY OwnStepOK DEF RequestOK, HoldOK, TokenOK, WalletOK
<1>4. ASSUME NEW q \in Requests, q # r PROVE Untouched(q) /\ fee'[q] = fee[q]
    BY <1>4, PreConsumeOthers, RelayOthers, OwnStepFee
<1> QED
    BY <1>1, <1>2, <1>3, <1>4 DEF AloneMoved

\* Holds, extensions of holds and their rollbacks: the session stays open.
LEMMA OpeningStep ==
    ASSUME TypeOK, NEW r \in Requests, RequestOK(r), PreConsumeStep(r) \/ ReserveFunding(r)
    PROVE  Unclosed(r) /\ Unclosed(r)' /\ fee' = fee
<1>1. FlagsOK(r) /\ sess \in [Requests -> SessionType]
    BY DEF RequestOK, HoldOK, TypeOK
<1>2. pc[r] \in Fresh \cup Opening \cup {"reserveRollback"} => Unclosed(r)
    BY <1>1 DEF FlagsOK, Unclosed, Fresh, Opening, Refunding
<1>3. CASE NewBillingSession(r) \/ TryWallet(r) \/ TrySubscription(r)
    <2>1. pc[r] \in Fresh /\ fee' = fee
        BY <1>3 DEF Fresh, NewBillingSession, TryWallet, TrySubscription
    <2>2. CASE NewBillingSession(r)
        BY <1>2, <2>1, <2>2 DEF NewBillingSession, Unclosed
    <2>3. CASE TryWallet(r)
        BY <1>1, <1>2, <2>1, <2>3 DEF TryWallet, Unclosed, NewSession
    <2>4. CASE TrySubscription(r)
        BY <1>1, <1>2, <2>1, <2>4 DEF TrySubscription, Unclosed, NewSession
    <2> QED
        BY <1>3, <2>2, <2>3, <2>4
<1>4. CASE PreConsumeTokenRead(r) \/ PreConsumeTokenWrite(r)
    <2>1. pc[r] \in Opening /\ fee' = fee
        BY <1>4 DEF Opening, PreConsumeTokenRead, PreConsumeTokenWrite
    <2>2. TokenPreConsumed(r) \/ TokenRefused(r) \/ UNCHANGED sess
        BY <1>4 DEF PreConsumeTokenRead, PreConsumeTokenWrite
    <2> QED
        BY <1>1, <1>2, <2>1, <2>2 DEF TokenPreConsumed, TokenRefused, Unclosed, SessionType
<1>5. CASE WalletPreConsume(r) \/ SubscriptionPreConsume(r) \/ TokenRollback(r)
    <2>1. pc[r] \in Opening /\ fee' = fee
        BY <1>5 DEF Opening, WalletPreConsume, SubscriptionPreConsume, TokenRollback
    <2>2. CASE WalletPreConsume(r)
        BY <1>1, <1>2, <2>1, <2>2 DEF WalletPreConsume, Unclosed, SessionType
    <2>3. CASE SubscriptionPreConsume(r)
        <3>1. sess' = sess \/ \E c, n : sess' = [sess EXCEPT ![r] = [@ EXCEPT !.subId = c, !.subPre = n,
                                                                            !.preConsumed = n]]
            BY <2>3 DEF SubscriptionPreConsume
        <3> QED
            BY <1>1, <1>2, <2>1, <3>1 DEF Unclosed, SessionType
    <2>4. CASE TokenRollback(r)
        BY <1>1, <1>2, <2>1, <2>4 DEF TokenRollback, Unclosed, NewSession
    <2> QED
        BY <1>5, <2>2, <2>3, <2>4
<1>6. CASE ReserveRollback(r)
    <2>1. Unclosed(r) /\ fee' = fee
        BY <1>2, <1>6 DEF ReserveRollback
    <2> QED
        BY <1>1, <1>6, <2>1 DEF ReserveRollback, Unclosed, SessionType
<1>7. CASE ReserveFunding(r)
    <2>1. pc[r] = "relaying" /\ ~sess[r].settled /\ ~sess[r].refunded /\ fee' = fee
        BY <1>7, Zenon DEF ReserveFunding
    <2>2. Unclosed(r)
        BY <1>1, <2>1 DEF FlagsOK, Unclosed
    <2>3. sess' = sess \/ \E c, e : sess' = [sess EXCEPT ![r] = [@ EXCEPT !.consumed = c, !.effective = e,
                                                                        !.reserving = TRUE]]
        BY <1>7 DEF ReserveFunding
    <2> QED
        BY <1>1, <2>1, <2>2, <2>3 DEF Unclosed, SessionType
<1> QED
    BY <1>3, <1>4, <1>5, <1>6, <1>7 DEF PreConsumeStep

\* An attempt that failed, or a late answer: no balance moves, and either nothing changes or the
\* request fails for good.
LEMMA FailingStep ==
    ASSUME TypeOK, NEW r \in Requests, RequestOK(r), AttemptFails(r) \/ AttemptEnds(r)
    PROVE  /\ UNCHANGED balances
           /\ sess'[r].settled = sess[r].settled /\ sess'[r].fundingSettled = sess[r].fundingSettled
           /\ sess'[r].refunded = sess[r].refunded \/ (Unclosed(r) /\ sess'[r].refunded = TRUE)
           /\ fee'[r] = fee[r] \/ fee'[r] = "funding"
<1>1. sess \in [Requests -> SessionType] /\ fee \in [Requests -> {"none", "funding", "token", "charged", "failed"}]
    BY DEF TypeOK
<1>2. UNCHANGED balances
    BY DEF AttemptFails, AttemptEnds
<1>3. RelayFails(r) \/ (UNCHANGED <<sess, fee>>)
    BY DEF AttemptFails, AttemptEnds, RetryOrFail
<1>4. \/ sess' = sess
      \/ NeedsRefund(r) /\ sess' = [sess EXCEPT ![r].refunded = TRUE]
    BY <1>3 DEF RelayFails
<1>5. fee' = fee \/ fee' = [fee EXCEPT ![r] = "funding"]
    BY <1>3 DEF RelayFails
<1> QED
    BY <1>1, <1>2, <1>4, <1>5 DEF NeedsRefund, Unclosed, SessionType

\* An answer moves nothing yet; when nothing is left to adjust it settles the session.
LEMMA AnsweringStep ==
    ASSUME TypeOK, NEW r \in Requests, RequestOK(r), AttemptAnswers(r)
    PROVE  /\ UNCHANGED balances /\ fee' = fee
           /\ sess'[r].fundingSettled = sess[r].fundingSettled /\ sess'[r].refunded = sess[r].refunded
           /\ sess'[r].settled = sess[r].settled \/ (Unclosed(r) /\ sess'[r].settled = TRUE)
<1>1. FlagsOK(r) /\ sess \in [Requests -> SessionType]
    BY DEF RequestOK, HoldOK, TypeOK
<1>2. UNCHANGED balances /\ fee' = fee /\ pc[r] = "relaying"
    BY DEF AttemptAnswers
<1>3. sess' = sess \/ sess' = [sess EXCEPT ![r].settled = TRUE]
    BY DEF AttemptAnswers
<1>4. sess[r].settled \/ Unclosed(r)
    BY <1>1, <1>2 DEF FlagsOK, Unclosed, Refunding
<1>5. CASE sess[r].settled
    <2>1. sess[r].settled = TRUE
        BY <1>1, <1>5 DEF SessionType
    <2> QED
        BY <1>1, <1>2, <1>3, <2>1 DEF SessionType
<1> QED
    BY <1>1, <1>2, <1>3, <1>4, <1>5 DEF SessionType

\* The first step of Settle closes the funding source.
LEMMA SettleFundingStep ==
    ASSUME TypeOK, NEW r \in Requests, RequestOK(r), SettleFunding(r)
    PROVE  /\ Unclosed(r) /\ fee' = fee
           /\ ~sess'[r].settled /\ ~sess'[r].refunded
           /\ sess'[r].fundingSettled = TRUE \/ (UNCHANGED balances /\ ~sess'[r].fundingSettled)
<1>1. FlagsOK(r) /\ sess \in [Requests -> SessionType]
    BY DEF RequestOK, HoldOK, TypeOK
<1>2. pc[r] = "settleFunding" /\ fee' = fee
    BY DEF SettleFunding
<1>3. Unclosed(r)
    BY <1>1, <1>2 DEF FlagsOK, Unclosed, Refunding
<1>4. sess' = [sess EXCEPT ![r].fundingSettled = TRUE] \/ (sess' = sess /\ UNCHANGED balances)
    BY DEF SettleFunding, StatementFails
<1> QED
    BY <1>1, <1>2, <1>3, <1>4 DEF SessionType, Unclosed

\* The second one closes the session, and does not touch the wallet.
LEMMA SettleTokenStep ==
    ASSUME TypeOK, NEW r \in Requests, RequestOK(r), SettleToken(r)
    PROVE  /\ ~sess[r].settled /\ ~sess[r].refunded /\ sess[r].fundingSettled /\ fee' = fee
           /\ sess'[r].settled = TRUE /\ sess'[r].fundingSettled = sess[r].fundingSettled
           /\ sess'[r].refunded = sess[r].refunded
           /\ userQuota' = userQuota /\ moved'[r].wallet = moved[r].wallet
<1>1. FlagsOK(r) /\ sess \in [Requests -> SessionType] /\ SettleDelta(r) \in Int
    BY FieldTypes DEF RequestOK, HoldOK, TypeOK
<1>2. pc[r] = "settleToken" /\ fee' = fee /\ sess' = [sess EXCEPT ![r].settled = TRUE]
    BY DEF SettleToken
<1>3. ~sess[r].settled /\ ~sess[r].refunded /\ sess[r].fundingSettled
    BY <1>1, <1>2 DEF FlagsOK, Refunding
<1>4. ChargeToken(r, SettleDelta(r)) \/ UNCHANGED balances
    BY DEF SettleToken, StatementFails
<1>5. userQuota' = userQuota /\ moved'[r].wallet = moved[r].wallet
    BY <1>1, <1>4, ChargeMoves DEF ChargeToken, balances
<1> QED
    BY <1>1, <1>2, <1>3, <1>5 DEF SessionType

\* The statements of a refund only give back.
LEMMA RefundingStep ==
    ASSUME TypeOK, NEW r \in Requests, RequestOK(r), RefundStep(r)
    PROVE  /\ sess[r].refunded /\ ~sess[r].settled /\ ~sess[r].fundingSettled
           /\ sess' = sess /\ fee' = fee
           /\ moved'[r].wallet <= moved[r].wallet /\ moved'[r].token <= moved[r].token
<1>1. FlagsOK(r) /\ WalletOK(r)
    BY DEF RequestOK, HoldOK
<1>2. pc[r] \in Refunding /\ sess' = sess /\ fee' = fee
    BY DEF RefundStep, RefundWallet, RefundSubscription, RefundMarkRecord, RefundExtraReserved, RefundToken,
           Refunding
<1>3. sess[r].refunded /\ ~sess[r].settled /\ ~sess[r].fundingSettled
    BY <1>1, <1>2 DEF FlagsOK
<1>4. /\ sess[r].consumed \in Int /\ sess[r].tokenConsumed \in Nat /\ sess[r].subPre \in Nat
      /\ sess[r].extraReserved \in Nat /\ sess[r].preConsumed \in Nat /\ Pending(r) \in Nat
    BY FieldTypes DEF Pending
<1>5. sess[r].source = "wallet" => sess[r].consumed >= 0
    BY <1>1, <1>4 DEF WalletOK
<1>6. \/ sess[r].source = "wallet" /\ ChargeWallet(r, -sess[r].consumed)
      \/ ChargeToken(r, -sess[r].tokenConsumed)
      \/ ChargeSubscription(r, -sess[r].subPre) \/ ChargeSubscription(r, -sess[r].extraReserved)
      \/ StatementFails \/ UNCHANGED balances
    BY DEF RefundStep, RefundWallet, RefundSubscription, RefundMarkRecord, RefundExtraReserved, RefundToken
<1>7. /\ -sess[r].consumed \in Int /\ -sess[r].tokenConsumed \in Int /\ -sess[r].subPre \in Int
      /\ -sess[r].extraReserved \in Int
    BY <1>4
<1>8. moved[r].wallet \in Int /\ moved[r].token \in Int
    BY DEF TypeOK
<1>9. CASE sess[r].source = "wallet" /\ ChargeWallet(r, -sess[r].consumed)
    BY <1>2, <1>3, <1>4, <1>5, <1>7, <1>8, <1>9, ChargeMoves
<1>10. CASE ChargeToken(r, -sess[r].tokenConsumed)
    BY <1>2, <1>3, <1>4, <1>7, <1>8, <1>10, ChargeMoves
<1>11. CASE \/ ChargeSubscription(r, -sess[r].subPre) \/ ChargeSubscription(r, -sess[r].extraReserved)
            \/ StatementFails \/ UNCHANGED balances
    BY <1>2, <1>3, <1>7, <1>8, <1>11, ChargeMoves
<1> QED
    BY <1>6, <1>9, <1>10, <1>11

\* A step of r changes the entries of r alone in the ledger of the wallet.
LEMMA WalletEntry ==
    ASSUME TypeOK, TypeOK', NEW r \in Requests, AloneMoved(r)
    PROVE  /\ WalletLedger!Move(r)
           /\ WalletPhase' = [WalletPhase EXCEPT ![r] = WalletPhase'[r]]
           /\ WalletFine' = [WalletFine EXCEPT ![r] = WalletFine'[r]]
<1>1. \A q \in Requests : q # r => sess'[q] = sess[q] /\ moved'[q] = moved[q] /\ fee'[q] = fee[q]
    BY DEF AloneMoved, Untouched
<1>2. /\ moved[r].wallet \in Int /\ moved'[r].wallet \in Nat /\ userQuota \in Int /\ userQuota' \in Int
      /\ userQuota - userQuota' = moved'[r].wallet - moved[r].wallet
    BY DEF AloneMoved, BalancesMove, TypeOK
<1>3. WalletTaken[r] = moved[r].wallet /\ WalletTaken'[r] = moved'[r].wallet
    BY DEF WalletTaken
<1>4. WalletTaken' = [WalletTaken EXCEPT ![r] = WalletTaken'[r]]
    BY <1>1 DEF WalletTaken
<1>5. userQuota' = userQuota - (WalletTaken'[r] - WalletTaken[r])
    BY <1>2, <1>3
<1>6. WalletLedger!Move(r)
    BY <1>2, <1>3, <1>4, <1>5 DEF WalletLedger!Move
<1>7. WalletPhase' = [WalletPhase EXCEPT ![r] = WalletPhase'[r]]
    BY <1>1 DEF WalletPhase, Phase
<1>8. WalletFine' = [WalletFine EXCEPT ![r] = WalletFine'[r]]
    BY <1>1 DEF WalletFine, Fine
<1> QED
    BY <1>6, <1>7, <1>8

\* The same for the token.
LEMMA TokenEntry ==
    ASSUME TypeOK, TypeOK', NEW r \in Requests, AloneMoved(r)
    PROVE  /\ TokenLedger!Move(r)
           /\ TokenPhase' = [TokenPhase EXCEPT ![r] = TokenPhase'[r]]
           /\ TokenFine' = [TokenFine EXCEPT ![r] = TokenFine'[r]]
<1>1. \A q \in Requests : q # r => sess'[q] = sess[q] /\ moved'[q] = moved[q] /\ fee'[q] = fee[q]
    BY DEF AloneMoved, Untouched
<1>2. /\ moved[r].token \in Int /\ moved'[r].token \in Nat /\ tokenQuota \in Int /\ tokenQuota' \in Int
      /\ tokenQuota - tokenQuota' = moved'[r].token - moved[r].token
    BY DEF AloneMoved, BalancesMove, TypeOK
<1>3. TokenTaken[r] = moved[r].token /\ TokenTaken'[r] = moved'[r].token
    BY DEF TokenTaken
<1>4. TokenTaken' = [TokenTaken EXCEPT ![r] = TokenTaken'[r]]
    BY <1>1 DEF TokenTaken
<1>5. tokenQuota' = tokenQuota - (TokenTaken'[r] - TokenTaken[r])
    BY <1>2, <1>3
<1>6. TokenLedger!Move(r)
    BY <1>2, <1>3, <1>4, <1>5 DEF TokenLedger!Move
<1>7. TokenPhase' = [TokenPhase EXCEPT ![r] = TokenPhase'[r]]
    BY <1>1 DEF TokenPhase, Phase
<1>8. TokenFine' = [TokenFine EXCEPT ![r] = TokenFine'[r]]
    BY <1>1 DEF TokenFine, Fine
<1> QED
    BY <1>6, <1>7, <1>8

\* The entries of one request.
LEMMA LedgerFields ==
    ASSUME NEW r \in Requests
    PROVE  /\ WalletPhase[r] = Phase(r, sess[r].settled \/ sess[r].fundingSettled)
           /\ TokenPhase[r] = Phase(r, sess[r].settled)
           /\ WalletFine[r] = Fine(r, {"funding"}) /\ TokenFine[r] = Fine(r, {"funding", "token"})
           /\ WalletPhase'[r] = Phase(r, sess[r].settled \/ sess[r].fundingSettled)'
           /\ TokenPhase'[r] = Phase(r, sess[r].settled)'
           /\ WalletFine'[r] = Fine(r, {"funding"})' /\ TokenFine'[r] = Fine(r, {"funding", "token"})'
           /\ WalletTaken[r] = moved[r].wallet /\ WalletTaken'[r] = moved'[r].wallet
           /\ TokenTaken[r] = moved[r].token /\ TokenTaken'[r] = moved'[r].token
BY DEF WalletPhase, TokenPhase, WalletFine, TokenFine, WalletTaken, TokenTaken

\* Functions that differ nowhere.
LEMMA EntriesStay ==
    ASSUME NEW r \in Requests
    PROVE  /\ WalletPhase = [WalletPhase EXCEPT ![r] = WalletPhase[r]]
           /\ WalletFine = [WalletFine EXCEPT ![r] = WalletFine[r]]
           /\ TokenPhase = [TokenPhase EXCEPT ![r] = TokenPhase[r]]
           /\ TokenFine = [TokenFine EXCEPT ![r] = TokenFine[r]]
BY DEF WalletPhase, TokenPhase, WalletFine, TokenFine

\* A step that moves no balance and changes no flag but refunded, and perhaps makes a fine due.
LEMMA FailingRefines ==
    ASSUME TypeOK, TypeOK', NEW r \in Requests, AloneMoved(r), UNCHANGED balances,
           sess'[r].settled = sess[r].settled, sess'[r].fundingSettled = sess[r].fundingSettled,
           sess'[r].refunded = sess[r].refunded \/ (Unclosed(r) /\ sess'[r].refunded = TRUE),
           fee'[r] = fee[r] \/ (fee[r] = "none" /\ fee'[r] = "funding")
    PROVE  WalletLedger!Fail(r) /\ TokenLedger!Fail(r)
<1>1. /\ userQuota' = userQuota /\ tokenQuota' = tokenQuota
      /\ WalletTaken' = WalletTaken /\ TokenTaken' = TokenTaken
    BY DEF balances, WalletTaken, TokenTaken
<1>2. /\ WalletPhase'[r] = WalletPhase[r] \/ (WalletPhase[r] = "open" /\ WalletPhase'[r] = "released")
      /\ TokenPhase'[r] = TokenPhase[r] \/ (TokenPhase[r] = "open" /\ TokenPhase'[r] = "released")
    BY LedgerFields DEF Phase, Unclosed
<1>3. /\ WalletFine'[r] = WalletFine[r] \/ (WalletFine[r] = "none" /\ WalletFine'[r] = "due")
      /\ TokenFine'[r] = TokenFine[r] \/ (TokenFine[r] = "none" /\ TokenFine'[r] = "due")
    BY LedgerFields DEF Fine
<1>4. WalletLedger!Fail(r)
    BY <1>1, <1>2, <1>3, WalletEntry, EntriesStay DEF WalletLedger!Fail
<1>5. TokenLedger!Fail(r)
    BY <1>1, <1>2, <1>3, TokenEntry, EntriesStay DEF TokenLedger!Fail
<1> QED
    BY <1>4, <1>5

\* Every step of a request is a step of its entries in both ledgers.
LEMMA OwnStepRefines ==
    ASSUME TypeOK, TypeOK', FeesOK, NEW r \in Requests, RequestOK(r),
           PreConsumeStep(r) \/ ReserveFunding(r) \/ RelayStep(r) \/ RefundStep(r)
    PROVE  WalletLedger!Next /\ TokenLedger!Next
<1>1. AloneMoved(r)
    BY OwnStepAlone
<1>2. /\ WalletLedger!Move(r) /\ TokenLedger!Move(r)
      /\ WalletPhase' = [WalletPhase EXCEPT ![r] = WalletPhase'[r]]
      /\ WalletFine' = [WalletFine EXCEPT ![r] = WalletFine'[r]]
      /\ TokenPhase' = [TokenPhase EXCEPT ![r] = TokenPhase'[r]]
      /\ TokenFine' = [TokenFine EXCEPT ![r] = TokenFine'[r]]
    BY <1>1, WalletEntry, TokenEntry
<1>3. /\ moved[r].wallet \in Int /\ moved[r].token \in Int
      /\ sess[r].settled \in BOOLEAN /\ sess[r].fundingSettled \in BOOLEAN /\ sess[r].refunded \in BOOLEAN
    BY DEF TypeOK, SessionType
<1>4. fee'[r] = fee[r] => WalletFine' = WalletFine /\ TokenFine' = TokenFine
    BY <1>2, LedgerFields, EntriesStay DEF Fine
<1>5. CASE PreConsumeStep(r) \/ ReserveFunding(r)
    <2>1. Unclosed(r) /\ Unclosed(r)' /\ fee'[r] = fee[r]
        BY <1>5, OpeningStep
    <2>2. /\ WalletPhase[r] = "open" /\ WalletPhase'[r] = "open"
          /\ TokenPhase[r] = "open" /\ TokenPhase'[r] = "open"
        BY <2>1, LedgerFields DEF Phase, Unclosed
    <2>3. WalletLedger!Hold(r) /\ TokenLedger!Hold(r)
        BY <1>2, <1>4, <2>1, <2>2, EntriesStay DEF WalletLedger!Hold, TokenLedger!Hold
    <2> QED
        BY <2>3 DEF WalletLedger!Next, TokenLedger!Next
<1>6. CASE AttemptFails(r) \/ AttemptEnds(r)
    <2>1. fee[r] = "none"
        BY <1>6 DEF FeesOK, AttemptFails, AttemptEnds, Refunding
    <2>2. WalletLedger!Fail(r) /\ TokenLedger!Fail(r)
        BY <1>1, <1>6, <2>1, FailingStep, FailingRefines
    <2> QED
        BY <2>2 DEF WalletLedger!Next, TokenLedger!Next
<1>7. CASE AttemptAnswers(r)
    <2>1. /\ UNCHANGED balances /\ fee'[r] = fee[r]
          /\ sess'[r].fundingSettled = sess[r].fundingSettled /\ sess'[r].refunded = sess[r].refunded
          /\ sess'[r].settled = sess[r].settled \/ (Unclosed(r) /\ sess'[r].settled = TRUE)
        BY <1>7, AnsweringStep
    <2>2. CASE sess'[r].settled = sess[r].settled
        <3>1. WalletLedger!Fail(r) /\ TokenLedger!Fail(r)
            BY <1>1, <2>1, <2>2, FailingRefines
        <3> QED
            BY <3>1 DEF WalletLedger!Next, TokenLedger!Next
    <2>3. CASE Unclosed(r) /\ sess'[r].settled = TRUE
        <3>1. /\ WalletPhase[r] = "open" /\ WalletPhase'[r] = "captured"
              /\ TokenPhase[r] = "open" /\ TokenPhase'[r] = "captured"
            BY <2>3, LedgerFields DEF Phase, Unclosed
        <3>2. WalletLedger!Capture(r) /\ TokenLedger!Capture(r)
            BY <1>2, <1>4, <2>1, <3>1 DEF WalletLedger!Capture, TokenLedger!Capture
        <3> QED
            BY <3>2 DEF WalletLedger!Next, TokenLedger!Next
    <2> QED
        BY <2>1, <2>2, <2>3
<1>8. CASE SettleFunding(r)
    <2>1. /\ Unclosed(r) /\ fee'[r] = fee[r] /\ ~sess'[r].settled /\ ~sess'[r].refunded
          /\ sess'[r].fundingSettled = TRUE \/ (UNCHANGED balances /\ ~sess'[r].fundingSettled)
        BY <1>8, SettleFundingStep
    <2>2. /\ WalletPhase[r] = "open" /\ WalletPhase'[r] \in {"open", "captured"}
          /\ TokenPhase[r] = "open" /\ TokenPhase'[r] = "open"
        BY <2>1, LedgerFields DEF Phase, Unclosed
    <2>3. TokenLedger!Hold(r)
        BY <1>2, <1>4, <2>1, <2>2, EntriesStay DEF TokenLedger!Hold
    <2>4. WalletLedger!Hold(r) \/ WalletLedger!Capture(r)
        BY <1>2, <1>4, <2>1, <2>2, EntriesStay DEF WalletLedger!Hold, WalletLedger!Capture
    <2> QED
        BY <2>3, <2>4 DEF WalletLedger!Next, TokenLedger!Next
<1>9. CASE SettleToken(r)
    <2>1. /\ ~sess[r].settled /\ ~sess[r].refunded /\ sess[r].fundingSettled /\ fee'[r] = fee[r]
          /\ sess'[r].settled = TRUE /\ sess'[r].fundingSettled = sess[r].fundingSettled
          /\ sess'[r].refunded = sess[r].refunded
          /\ userQuota' = userQuota /\ moved'[r].wallet = moved[r].wallet
        BY <1>9, SettleTokenStep
    <2>2. /\ WalletPhase[r] = "captured" /\ WalletPhase'[r] = "captured"
          /\ TokenPhase[r] = "open" /\ TokenPhase'[r] = "captured"
        BY <2>1, LedgerFields DEF Phase
    <2>3. TokenLedger!Capture(r)
        BY <1>2, <1>4, <2>1, <2>2 DEF TokenLedger!Capture
    <2>4. WalletTaken' = WalletTaken
        BY <1>1, <2>1 DEF WalletTaken, AloneMoved, Untouched
    <2>5. WalletPhase' = WalletPhase
        BY <1>2, <2>2, EntriesStay
    <2>6. WalletLedger!Fail(r)
        BY <1>4, <2>1, <2>4, <2>5 DEF WalletLedger!Fail
    <2> QED
        BY <2>3, <2>6 DEF WalletLedger!Next, TokenLedger!Next
<1>10. CASE RefundStep(r)
    <2>1. /\ sess[r].refunded /\ ~sess[r].settled /\ ~sess[r].fundingSettled
          /\ sess' = sess /\ fee'[r] = fee[r]
          /\ moved'[r].wallet <= moved[r].wallet /\ moved'[r].token <= moved[r].token
        BY <1>10, RefundingStep
    <2>2. WalletPhase[r] = "released" /\ TokenPhase[r] = "released"
        BY <2>1, LedgerFields DEF Phase
    <2>3. WalletPhase' = WalletPhase /\ TokenPhase' = TokenPhase
        BY <2>1 DEF WalletPhase, TokenPhase, Phase
    <2>4. WalletTaken'[r] <= WalletTaken[r] /\ TokenTaken'[r] <= TokenTaken[r]
        BY <2>1, LedgerFields
    <2>5. WalletLedger!Release(r) /\ TokenLedger!Release(r)
        BY <1>2, <1>4, <2>1, <2>2, <2>3, <2>4 DEF WalletLedger!Release, TokenLedger!Release
    <2> QED
        BY <2>5 DEF WalletLedger!Next, TokenLedger!Next
<1> QED
    BY <1>5, <1>6, <1>7, <1>8, <1>9, <1>10 DEF RelayStep

\* A step of the violation fee settles the fine with one of the two, or neither.
LEMMA FeeStepRefines ==
    ASSUME TypeOK, NEW r \in Requests, FeeStep(r)
    PROVE  /\ WalletLedger!Next \/ UNCHANGED WalletLedger!ledger
           /\ TokenLedger!Next \/ UNCHANGED TokenLedger!ledger
<1>1. /\ fee \in [Requests -> {"none", "funding", "token", "charged", "failed"}]
      /\ userQuota \in Int /\ tokenQuota \in Int /\ ViolationFee \in Nat
    BY BillingAssumption DEF TypeOK
<1>2. sess' = sess /\ moved' = moved
    BY Zenon DEF FeeStep, FeeFunding, FeeToken, StatementFails, balances
<1>3. /\ WalletTaken' = WalletTaken /\ WalletPhase' = WalletPhase
      /\ TokenTaken' = TokenTaken /\ TokenPhase' = TokenPhase
    BY <1>2 DEF WalletTaken, WalletPhase, TokenTaken, TokenPhase, Phase
<1>4. \E s \in {"token", "charged", "failed"} : fee' = [fee EXCEPT ![r] = s]
    BY DEF FeeStep, FeeFunding, FeeToken
<1>5. /\ WalletFine' = [WalletFine EXCEPT ![r] = WalletFine'[r]]
      /\ TokenFine' = [TokenFine EXCEPT ![r] = TokenFine'[r]]
    BY <1>1, <1>4 DEF WalletFine, TokenFine, Fine
<1>6. CASE FeeFunding(r)
    <2>1. fee[r] = "funding" /\ userQuota' \in {userQuota, userQuota - ViolationFee} /\ tokenQuota' = tokenQuota
        BY <1>6 DEF FeeFunding, StatementFails, balances
    <2>2. fee'[r] \in {"token", "failed"}
        BY <1>1, <1>6 DEF FeeFunding
    <2>3. /\ WalletFine[r] = "due" /\ WalletFine'[r] = "over"
          /\ TokenFine[r] = "due" /\ TokenFine'[r] \in {"due", "over"}
        BY <2>1, <2>2, LedgerFields DEF Fine
    <2>4. WalletLedger!Fined(r)
        BY <1>3, <1>5, <2>1, <2>3 DEF WalletLedger!Fined
    <2>5. TokenLedger!Fined(r) \/ UNCHANGED TokenLedger!ledger
        BY <1>3, <1>5, <2>1, <2>3, EntriesStay DEF TokenLedger!Fined, TokenLedger!ledger
    <2> QED
        BY <2>4, <2>5 DEF WalletLedger!Next, TokenLedger!Next
<1>7. CASE FeeToken(r)
    <2>1. /\ fee[r] = "token" /\ userQuota' = userQuota
          /\ tokenQuota' \in {tokenQuota, tokenQuota - ViolationFee}
        BY <1>1, <1>7 DEF FeeToken, StatementFails, balances
    <2>2. fee'[r] \in {"charged", "failed"}
        BY <1>1, <1>7 DEF FeeToken
    <2>3. /\ WalletFine[r] = "over" /\ WalletFine'[r] = "over"
          /\ TokenFine[r] = "due" /\ TokenFine'[r] = "over"
        BY <2>1, <2>2, LedgerFields DEF Fine
    <2>4. UNCHANGED WalletLedger!ledger
        BY <1>3, <1>5, <2>1, <2>3, EntriesStay DEF WalletLedger!ledger
    <2>5. TokenLedger!Fined(r)
        BY <1>3, <1>5, <2>1, <2>3 DEF TokenLedger!Fined
    <2> QED
        BY <2>4, <2>5 DEF TokenLedger!Next
<1> QED
    BY <1>6, <1>7 DEF FeeStep

LEMMA NextRefines ==
    SessionInvariant /\ RowsInvariant /\ [Next]_vars
        => [WalletLedger!Next]_(WalletLedger!ledger) /\ [TokenLedger!Next]_(TokenLedger!ledger)
<1> SUFFICES ASSUME SessionInvariant, RowsInvariant, [Next]_vars
             PROVE  /\ WalletLedger!Next \/ UNCHANGED WalletLedger!ledger
                    /\ TokenLedger!Next \/ UNCHANGED TokenLedger!ledger
    OBVIOUS
<1>1. TypeOK /\ TypeOK' /\ FeesOK
    BY NextType DEF SessionInvariant, RowsInvariant
<1>2. ASSUME NEW r \in Requests,
             PreConsumeStep(r) \/ ReserveFunding(r) \/ RelayStep(r) \/ RefundStep(r)
      PROVE  WalletLedger!Next /\ TokenLedger!Next
    <2>1. RequestOK(r)
        BY DEF SessionInvariant
    <2> QED
        BY <1>1, <1>2, <2>1, OwnStepRefines
<1>3. CASE \/ \E i \in Subs : PeriodEnds(i) \/ ResetDueSubscription(i)
           \/ UNCHANGED vars
    <2>1. UNCHANGED <<userQuota, tokenQuota, moved, sess, fee>>
        BY <1>3, Zenon DEF PeriodEnds, ResetDueSubscription, vars
    <2>2. UNCHANGED <<WalletTaken, WalletPhase, WalletFine, TokenTaken, TokenPhase, TokenFine>>
        BY <2>1 DEF WalletTaken, WalletPhase, WalletFine, TokenTaken, TokenPhase, TokenFine, Phase, Fine
    <2> QED
        BY <2>1, <2>2 DEF WalletLedger!ledger, TokenLedger!ledger
<1>4. ASSUME NEW r \in Requests, FeeStep(r)
      PROVE  /\ WalletLedger!Next \/ UNCHANGED WalletLedger!ledger
             /\ TokenLedger!Next \/ UNCHANGED TokenLedger!ledger
    BY <1>1, <1>4, FeeStepRefines
<1> QED
    BY <1>2, <1>3, <1>4, Zenon DEF Next, Terminating

\* For any number of requests of any kind, any failing statements, retries and failovers, the wallet
\* and the token implement HoldLedger: preConsume, Reserve, Settle, Refund and the violation fee never
\* return more than was taken, nor touch a request after Settle, nor charge one that is refunded.
THEOREM BillingImplementsLedgers == Spec => LedgersKept
<1>1. Init => WalletLedger!Init /\ TokenLedger!Init
    BY DEF Init, WalletLedger!Init, TokenLedger!Init, WalletTaken, WalletPhase, WalletFine, TokenTaken,
           TokenPhase, TokenFine, Phase, Fine, NewSession, NothingMoved
<1> QED
    BY <1>1, NextRefines, InitSessions, NextSessions, InitRows, NextRows, PTL
    DEF Spec, LedgersKept, WalletLedger!Spec, TokenLedger!Spec
==============================================================================
