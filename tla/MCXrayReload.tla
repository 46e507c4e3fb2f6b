---------------------------- MODULE MCXrayReload ----------------------------
(* Values of XrayReload's constants for TLC. *)
EXTENDS XrayReload

\* The xray pool has no PasswordKey; these keys are never used.
NoKeys == [p \in Passwords |-> p]
=============================================================================
