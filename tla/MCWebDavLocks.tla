--------------------------- MODULE MCWebDavLocks ---------------------------
(* Small instances of the WebDAV locks for TLC.                            *)
EXTENDS WebDavLocks, TLC

\* Clients, paths and tokens are each alike.
Alike == Permutations(Clients) \cup Permutations(Tokens) \cup Permutations(Paths)
=============================================================================
