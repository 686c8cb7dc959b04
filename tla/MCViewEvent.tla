---------------------------- MODULE MCViewEvent ----------------------------
(* Small instances of ViewEvent for TLC. *)
EXTENDS ViewEvent

CONSTANTS p1, k1, k2, k3
=============================================================================
