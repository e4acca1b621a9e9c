--------------------------- MODULE MCLocalCopies ---------------------------
(* Small instances of the local copies for TLC.                            *)
EXTENDS LocalCopies, TLC

\* Paths are alike, and so are file names.
Alike == Permutations(Paths) \cup Permutations(Files)
=============================================================================
