--------------------------- MODULE MCBillingSession ---------------------------
(* Small instances of BillingSession for TLC.                              *)
EXTENDS BillingSession, TLC

CONSTANTS r1, r2

Kind(pref, quota, playground) ==
    [pref |-> pref, quota |-> quota, playground |-> playground, force |-> FALSE]

ForcedKind(pref, quota) ==
    [pref |-> pref, quota |-> quota, playground |-> FALSE, force |-> TRUE]

MixedKinds == {Kind("subscription_first", 0, FALSE),
               Kind("subscription_first", 2, FALSE),
               Kind("subscription_only", 2, TRUE),
               Kind("wallet_first", 2, FALSE),
               ForcedKind("wallet_first", 1)}

FaultKinds == {Kind("wallet_only", 2, FALSE), Kind("subscription_first", 2, FALSE)}

OneSub == 1 .. 1
TwoSubs == 1 .. 2
Totals3 == [i \in OneSub |-> 3]
Totals34 == [i \in TwoSubs |-> i + 2]

Symmetry == Permutations(Requests)
==============================================================================
