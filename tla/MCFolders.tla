----------------------------- MODULE MCFolders -----------------------------
(* A small instance of the folders for TLC. *)
EXTENDS Folders
=============================================================================
