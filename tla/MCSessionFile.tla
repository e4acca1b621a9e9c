--------------------------- MODULE MCSessionFile ---------------------------
(* A small instance of the session file for TLC. *)
EXTENDS SessionFile
=============================================================================
