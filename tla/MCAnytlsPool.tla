---------------------------- MODULE MCAnytlsPool ----------------------------
(* Values of AnytlsPool's constants for TLC. *)
EXTENDS AnytlsPool

\* Distinct passwords have distinct hashes (SHA-256).
IdentityKey == [p \in Passwords |-> p]
=============================================================================
