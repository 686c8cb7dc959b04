--------------------------- MODULE MCNativeControl ---------------------------
(* One key and plain text, one client slot. *)
EXTENDS NativeControl
=============================================================================
