----------------------------- MODULE MCWifiLink -----------------------------
(* One retry, and restarts and pings after a single look, instead of many.  *)
EXTENDS WifiLink
=============================================================================
