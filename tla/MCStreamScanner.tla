-------------------------- MODULE MCStreamScanner --------------------------
(* A small instance of StreamScanner for TLC.                              *)
EXTENDS StreamScanner
=============================================================================
