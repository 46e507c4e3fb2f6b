--------------------------- MODULE MCHysteriaPool ---------------------------
(* Values of HysteriaPool's constants for TLC. *)
EXTENDS HysteriaPool

\* The hysteria pool looks users up by the password itself.
IdentityKey == [p \in Passwords |-> p]
=============================================================================
