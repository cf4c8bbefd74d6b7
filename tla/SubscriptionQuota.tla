-------------------------- MODULE SubscriptionQuota --------------------------
(***************************************************************************)
(* The quota arithmetic of a user's subscriptions: the body of each        *)
(* transaction of model/subscription.go that reads or writes               *)
(* user_subscriptions.amount_used, as an operator on the table of rows.    *)
(*                                                                         *)
(* A row is [used, status, resetDue]: amount_used, status with the test    *)
(* end_time > now folded in, and whether next_reset_time has passed.       *)
(* Subs are the rows of one user, numbered in the order of the query       *)
(* (ORDER BY end_time ASC, id ASC).                                        *)
(***************************************************************************)
EXTENDS Integers

CONSTANTS Subs,         \* the user's subscriptions, in end_time order
          AmountTotal   \* amount_total of each; 0 means unlimited

ASSUME SubsAssumption == /\ Subs \subseteq Nat \ {0}
                         /\ AmountTotal \in [Subs -> Nat]

SubscriptionRows ==
    [Subs -> [used : Nat, status : {"active", "expired"}, resetDue : BOOLEAN]]

ActiveSubs(rows) == {i \in Subs : rows[i].status = "active"}

\* Mutant: the reset does not look at next_reset_time.
UsedAfterReset_Always(row) == 0

\* AmountUsed once maybeResetUserSubscriptionWithPlanTx has run on the row.
UsedAfterReset(row) == IF row.resetDue THEN 0 ELSE row.used

ResetRow(row) == [row EXCEPT !.used = UsedAfterReset(row), !.resetDue = FALSE]

EnoughRemain(rows, i, amount) ==
    AmountTotal[i] > 0 => AmountTotal[i] - UsedAfterReset(rows[i]) >= amount

SufficientSubs(rows, amount) ==
    {i \in ActiveSubs(rows) : EnoughRemain(rows, i, amount)}

\* The loop of PreConsumeUserSubscription stops at the first row with enough.
ChosenSub(rows, amount) ==
    CHOOSE i \in SufficientSubs(rows, amount) :
        \A j \in SufficientSubs(rows, amount) : i <= j

\* The rows before the chosen one were visited, hence reset when due.
RowsAfterPreConsume(rows, amount) ==
    LET chosen == ChosenSub(rows, amount)
    IN  [i \in Subs |->
            IF i \notin ActiveSubs(rows) \/ i > chosen THEN rows[i]
            ELSE IF i < chosen THEN ResetRow(rows[i])
            ELSE [ResetRow(rows[i]) EXCEPT !.used = @ + amount]]

\* No row has enough: expireQuotaInsufficientSubscriptionsTx ends them all.
RowsAfterInsufficient(rows) ==
    [i \in Subs |->
        IF i \in ActiveSubs(rows)
        THEN [used |-> IF UsedAfterReset(rows[i]) < AmountTotal[i]
                       THEN AmountTotal[i] ELSE UsedAfterReset(rows[i]),
              status |-> "expired", resetDue |-> FALSE]
        ELSE rows[i]]

\* Mutant: no clamp at zero.
UsedAfterDelta_NoClamp(row, delta) == row.used + delta

\* PostConsumeUserSubscriptionDelta clamps at zero and refuses an excess.
UsedAfterDelta(row, delta) ==
    IF row.used + delta < 0 THEN 0 ELSE row.used + delta

\* Mutant: the limit is checked on the old value.
DeltaAllowed_OldUsed(rows, i, delta) ==
    AmountTotal[i] > 0 => rows[i].used <= AmountTotal[i]

DeltaAllowed(rows, i, delta) ==
    AmountTotal[i] > 0 => UsedAfterDelta(rows[i], delta) <= AmountTotal[i]

RowsAfterDelta(rows, i, delta) ==
    [rows EXCEPT ![i].used = UsedAfterDelta(rows[i], delta)]

==============================================================================
