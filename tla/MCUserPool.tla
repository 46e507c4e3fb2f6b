----------------------------- MODULE MCUserPool -----------------------------
(* Values of UserPool's constants for TLC. *)
EXTENDS UserPool

\* Distinct passwords have distinct keys (the identity, or SHA-256).
IdentityKey == [p \in Passwords |-> p]
=============================================================================
