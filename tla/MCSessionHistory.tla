-------------------------- MODULE MCSessionHistory --------------------------
(* A small instance of the provider's session, with its history, for TLC.  *)
EXTENDS SessionHistory
=============================================================================
