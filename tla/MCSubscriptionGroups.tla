------------------------ MODULE MCSubscriptionGroups ------------------------
(* Small instances of SubscriptionGroups for TLC.                          *)
EXTENDS SubscriptionGroups

Plan(upgrade, duration) == [upgrade |-> upgrade, duration |-> duration]

MixedPlans == {Plan("a", 1), Plan("b", 2), Plan("b", 3), Plan("", 2)}

=============================================================================
