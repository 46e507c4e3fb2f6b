----------------------------- MODULE MCXrayPool -----------------------------
(* Values of XrayPool's constants for TLC. *)
EXTENDS XrayPool

\* The xray pool has no PasswordKey; these keys are never used.
NoKeys == [p \in Passwords |-> p]
=============================================================================
