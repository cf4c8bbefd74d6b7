------------------------- MODULE SubscriptionGroups -------------------------
(***************************************************************************)
(* The group of one user and the subscriptions that raise and lower it:    *)
(* CreateUserSubscriptionFromPlanTx puts the user into the plan's upgrade  *)
(* group, and every way a subscription can end (it runs out, its quota is  *)
(* exhausted, an admin cancels or deletes it) goes through                 *)
(* downgradeUserGroupForSubscriptionTx.                                    *)
(*                                                                         *)
(* A transaction reads in one step and commits its writes in a second; the *)
(* user row is not locked between them.  With Serialized there is one      *)
(* transaction at a time, as SQLite runs them.                             *)
(*                                                                         *)
(* Plans are not edited here, so the effective upgrade group of a          *)
(* subscription is the one it was created with.  The plan's downgrade      *)
(* group is left out: the code copies it and never reads it.               *)
(***************************************************************************)
EXTENDS Integers, FiniteSets

CONSTANTS Plans,        \* records [upgrade, duration]
          InitGroup,    \* the user's own group
          SubIds,       \* ids of user_subscriptions, in the order of creation
          Handlers,
          Serialized,   \* one transaction at a time
          MaxTime       \* bound on the clock

NoGroup == ""

ASSUME GroupsAssumption ==
    /\ SubIds \subseteq Nat \ {0} /\ IsFiniteSet(SubIds)
    /\ \A p \in Plans : p.duration \in Nat \ {0}
    /\ InitGroup # NoGroup
    /\ Serialized \in BOOLEAN
    /\ MaxTime \in Nat

VARIABLES group,   \* users.group
          subs,    \* the rows of user_subscriptions
          now,     \* the clock
          txn      \* the transaction each handler is in

groupVars == <<group, subs, now, txn>>

Groups == {InitGroup} \cup {p.upgrade : p \in Plans}

SubType == [status : {"none", "active", "expired", "cancelled", "deleted"},
            upgrade : Groups \cup {NoGroup}, prev : Groups \cup {NoGroup},
            end : Nat]

NoSub == [status |-> "none", upgrade |-> NoGroup, prev |-> NoGroup,
          end |-> 0]

\* What a transaction will write: the rows, and the group unless NoGroup.
GroupTxType == [op : {"idle", "create", "end"}, rows : SUBSET SubIds,
           group : Groups \cup {NoGroup}, row : SubType]

NoTx == [op |-> "idle", rows |-> {}, group |-> NoGroup, row |-> NoSub]

GroupTypeOK ==
    /\ group \in Groups
    /\ subs \in [SubIds -> SubType]
    /\ now \in 0 .. MaxTime
    /\ txn \in [Handlers -> GroupTxType]

GroupInit ==
    /\ group = InitGroup
    /\ subs = [i \in SubIds |-> NoSub]
    /\ now = 0
    /\ txn = [w \in Handlers |-> NoTx]
-----------------------------------------------------------------------------
Exists(i) == subs[i].status \notin {"none", "deleted"}

Active == {i \in SubIds : subs[i].status = "active"}

Live == {i \in Active : subs[i].end > now}

Due == Active \ Live

EndsAfter(i, j) ==
    subs[i].end > subs[j].end \/ (subs[i].end = subs[j].end /\ i > j)

\* findLatestActiveSubscriptionUpgradeGroupTx
LatestUpgradeGroup(ids) ==
    LET upgrading == {i \in ids : subs[i].upgrade # NoGroup}
    IN  IF upgrading = {} THEN NoGroup
        ELSE LET last == CHOOSE i \in upgrading :
                             \A j \in upgrading \ {i} : EndsAfter(i, j)
             IN  subs[last].upgrade

\* Mutant: back to the group before the purchase, whatever else is active.
DowngradeTarget_PrevFirst(i, others) ==
    IF subs[i].prev # NoGroup THEN subs[i].prev ELSE LatestUpgradeGroup(others)

DowngradeTarget(i, others) ==
    LET latest == LatestUpgradeGroup(others)
    IN  IF latest # NoGroup THEN latest ELSE subs[i].prev

\* downgradeUserGroupForSubscriptionTx, where others are the live
\* subscriptions that remain and current is the group read in the transaction.
Downgrade(current, i, others) ==
    IF \/ subs[i].upgrade = NoGroup
       \/ subs[i].upgrade # current
       \/ DowngradeTarget(i, others) = NoGroup
    THEN current
    ELSE DowngradeTarget(i, others)

Earliest(ids) == CHOOSE i \in ids : \A j \in ids \ {i} : EndsAfter(j, i)

\* The loops of ExpireDueSubscriptions and of
\* expireQuotaInsufficientSubscriptionsTx go through the rows latest first, so
\* the last one a set of rows comes to is the earliest.  The group the
\* transaction reads after the loop, and the one it last wrote.
AfterEnding(ids) ==
    LET after[done \in SUBSET ids] ==
            IF done = {} THEN [current |-> group, written |-> NoGroup]
            ELSE LET i == Earliest(done)
                     before == after[done \ {i}]
                     next == Downgrade(before.current, i, Live \ ids)
                 IN  [current |-> next,
                      written |-> IF next = before.current THEN before.written ELSE next]
    IN  after[ids]
-----------------------------------------------------------------------------
MayBegin(w) ==
    /\ txn[w].op = "idle"
    /\ Serialized => \A v \in Handlers : txn[v].op = "idle"

BeginTx(w, t) ==
    /\ MayBegin(w)
    /\ txn' = [txn EXCEPT ![w] = t]
    /\ UNCHANGED <<group, subs, now>>

NextId(i) ==
    /\ subs[i].status = "none" /\ \A w \in Handlers : i \notin txn[w].rows
    /\ \A j \in SubIds : j < i => subs[j].status # "none" \/ \E w \in Handlers : j \in txn[w].rows

PlanEndTime(p) == now + p.duration

\* CreateUserSubscriptionFromPlanTx: the user is moved, and the group held
\* before is remembered, only when the plan has an upgrade group other than
\* the current one.
CreateUserSubscription(w, i, p) ==
    LET moves == p.upgrade # NoGroup /\ p.upgrade # group
    IN  /\ NextId(i)
        /\ BeginTx(w, [op |-> "create", rows |-> {i},
                     group |-> IF moves THEN p.upgrade ELSE NoGroup,
                     row |-> [status |-> "active", upgrade |-> p.upgrade,
                              prev |-> IF moves THEN group ELSE NoGroup,
                              end |-> PlanEndTime(p)]])

\* FOR UPDATE on the subscription rows keeps two endings of one row apart.
SubRowsFree(ids) == \A w \in Handlers : txn[w].rows \cap ids = {}

EndSubscriptions(w, ids, status) ==
    /\ ids # {}
    /\ SubRowsFree(ids)
    /\ BeginTx(w, [op |-> "end", rows |-> ids,
                 group |-> AfterEnding(ids).written,
                 row |-> [NoSub EXCEPT !.status = status, !.end = now]])

ExpireDueSubscriptions(w) == EndSubscriptions(w, Due, "expired")

\* PreConsumeUserSubscription finds no live subscription with enough quota.
ExpireQuotaInsufficient(w) == EndSubscriptions(w, Live, "expired")

\* The admin's handlers do not look at the status of the row.  Cancelling
\* also sets its end_time to now.
AdminInvalidate(w, i) == Exists(i) /\ EndSubscriptions(w, {i}, "cancelled")

AdminDelete(w, i) == Exists(i) /\ EndSubscriptions(w, {i}, "deleted")

CommitTx(w) ==
    /\ txn[w].op # "idle"
    /\ group' = IF txn[w].group = NoGroup THEN group ELSE txn[w].group
    /\ subs' = [i \in SubIds |->
                   IF i \notin txn[w].rows THEN subs[i]
                   ELSE IF txn[w].op = "create" THEN txn[w].row
                   ELSE [subs[i] EXCEPT !.status = txn[w].row.status,
                                        !.end = IF txn[w].row.status = "cancelled"
                                                THEN txn[w].row.end ELSE @]]
    /\ txn' = [txn EXCEPT ![w] = NoTx]
    /\ UNCHANGED now

RollbackTx(w) ==
    /\ txn[w].op # "idle"
    /\ txn' = [txn EXCEPT ![w] = NoTx]
    /\ UNCHANGED <<group, subs, now>>

Tick ==
    /\ now < MaxTime
    /\ now' = now + 1
    /\ UNCHANGED <<group, subs, txn>>

GroupNext ==
    \/ Tick
    \/ \E w \in Handlers :
          \/ \E i \in SubIds, p \in Plans : CreateUserSubscription(w, i, p)
          \/ ExpireDueSubscriptions(w)
          \/ ExpireQuotaInsufficient(w)
          \/ \E i \in SubIds : AdminInvalidate(w, i) \/ AdminDelete(w, i)
          \/ CommitTx(w)
          \/ RollbackTx(w)

GroupSpec == GroupInit /\ [][GroupNext]_groupVars

-----------------------------------------------------------------------------
\* As long as the user has a live subscription to an upgrade group, the user
\* is in the group of one of the active subscriptions, whatever others end
\* and in whichever order ("Upgrade user group after purchase",
\* model/subscription.go:216).
PaidGroupKept ==
    (\E i \in Live : subs[i].upgrade # NoGroup)
        => \E i \in Active : subs[i].upgrade = group

\* The rows keep their types, and the user is in a group that was paid for, in
\* whatever order subscriptions end.
GroupInvariant == GroupTypeOK /\ PaidGroupKept
=============================================================================
