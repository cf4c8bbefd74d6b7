------------------------ MODULE MCSubscriptionOrders ------------------------
(* Small instances of SubscriptionOrders for TLC.                          *)
EXTENDS SubscriptionOrders, TLC

CONSTANTS u1, u2, o1, o2, w1, w2

Symmetry == Permutations(Users) \cup Permutations(Orders) \cup Permutations(Workers)
=============================================================================
