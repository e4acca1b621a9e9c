------------------------- MODULE OverlayRefinement -------------------------
(***************************************************************************)
(* The overlay as an implementation of the file store of CloudFiles: its   *)
(* entries, tombstones, ids, listings and caches must not show in what     *)
(* happens to the provider's media.                                        *)
(***************************************************************************)
EXTENDS OverlayProperties

\* The deletes that background tasks owe ...
Doomed == {[id |-> t.id, path |-> t.path] :
              t \in {u \in tasks : u.kind = "trash"}}

\* ... and the write a request stands for.
WriteOf(r) == IF r.kind \in {"PUT", "DELETE"}
              THEN [kind |-> r.kind, path |-> r.src, content |-> r.content]
              ELSE None

Files == INSTANCE CloudFiles WITH
    media <- remote,
    doomed <- Doomed,
    mistaken <- crossed,
    request <- [c \in Clients |-> WriteOf(client[c])]

\* A write in flight is never mistaken for the absence of one.
ASSUME NoneIsNoWrite == None \notin Files!Write

\* Without moves, every step of the overlay is a step of the file store, or
\* changes nothing a client of the provider could tell: lagging listings,
\* stale items and cache rows, retries and restarts never make it write a
\* media of another path or one it is about to trash (but for the paths where
\* one delete was taken for another), nor trash what no acknowledged DELETE
\* asked for.
FilesImplemented == Files!Spec
=============================================================================
