--------------------------- MODULE MCCertificates ---------------------------
(* Certificates as it is: the configuration gives its constants values. *)
EXTENDS Certificates
=============================================================================
