---------------------------- MODULE MCCertLoader ----------------------------
(* CertLoader for TLC; the cfg gives its constants. *)
EXTENDS CertLoader
=============================================================================
