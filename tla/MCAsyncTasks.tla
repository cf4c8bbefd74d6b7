---------------------------- MODULE MCAsyncTasks ----------------------------
(* Small instances of AsyncTasks for TLC.                                  *)
EXTENDS AsyncTasks, TLC

CONSTANTS v1, v2, g1, s1, p1, p2, p3, f1

Symmetry == Permutations(Pollers) \cup Permutations(VideoTasks)
=============================================================================
