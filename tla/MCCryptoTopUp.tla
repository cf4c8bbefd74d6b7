--------------------------- MODULE MCCryptoTopUp ----------------------------
(* Small instances of CryptoTopUp for TLC.                                 *)
EXTENDS CryptoTopUp, TLC

CONSTANTS o1, o2, x1, s1, s2, a1, r1, m1, m2

Symmetry == Permutations(Orders) \cup Permutations(Amounts) \cup Permutations(Scanners)
=============================================================================
