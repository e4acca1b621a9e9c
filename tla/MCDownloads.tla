---------------------------- MODULE MCDownloads ----------------------------
(* A small instance of the downloads for TLC. *)
EXTENDS Downloads
=============================================================================
