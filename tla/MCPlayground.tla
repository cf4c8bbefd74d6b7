---------------------------- MODULE MCPlayground ----------------------------
(* Small instances of Playground for TLC.                                  *)
EXTENDS Playground
=============================================================================
