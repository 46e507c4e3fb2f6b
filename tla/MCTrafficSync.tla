--------------------------- MODULE MCTrafficSync ---------------------------
(* TrafficSync for TLC; the cfg gives its constants. *)
EXTENDS TrafficSync
=============================================================================
