----------------------------- MODULE MCHaSwitch -----------------------------
(* One control slot with two values; generations stay below their modulus. *)
EXTENDS HaSwitch
=============================================================================
