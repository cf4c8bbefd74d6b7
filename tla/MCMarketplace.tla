--------------------------- MODULE MCMarketplace ----------------------------
(* Small instances of Marketplace for TLC.                                 *)
EXTENDS Marketplace, TLC

Symmetry == Permutations(Requests) \cup Permutations(Pages)
=============================================================================
