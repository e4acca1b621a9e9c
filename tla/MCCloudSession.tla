--------------------------- MODULE MCCloudSession ---------------------------
(* A small instance of the provider's session for TLC.                     *)
EXTENDS CloudSession
=============================================================================
