---------------------------- MODULE MCEntityCore ----------------------------
(* A sensor (index 0) and a number (index 1) from 0 to 2 in steps of 2. *)
EXTENDS EntityCore
CONSTANTS c1, c2, ui, native, nan

MCMinimum  == [e \in 0 .. 1 |-> 0]
MCMaximum  == [e \in 0 .. 1 |-> 2]
MCStep     == [e \in 0 .. 1 |-> 2]
MCDefaults == [e \in 0 .. 1 |-> 0]
=============================================================================
