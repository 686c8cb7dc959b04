--------------------------- MODULE MCNativeSession ---------------------------
(* Two entities, queues of three messages of which the last is for control. *)
EXTENDS NativeSession
=============================================================================
