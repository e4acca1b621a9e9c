----------------------------- MODULE CloudFiles -----------------------------
(***************************************************************************)
(* What a file store (cloud/base.py) owes the media of an account, whatever *)
(* it remembers, defers or retries to get there: a media is written only   *)
(* for a PUT in flight on the path it is named after, trashed only for a   *)
(* DELETE of that path that was acknowledged; and between the two nothing  *)
(* is written to it, so that what is trashed is what was there to delete.  *)
(*                                                                         *)
(* A delete that is carried out when its path has another media may be      *)
(* taken for the delete of that one, and a media whose delete is under way *)
(* may come back to mind; of such a path a media may be written although   *)
(* it is about to be trashed.                                              *)
(*                                                                         *)
(* A store may fail to carry out a delete (it is lost with the process, or *)
(* its retries run out), and a request may end without an effect.  Moves   *)
(* are not part of this specification.                                     *)
(***************************************************************************)
EXTENDS Integers

CONSTANTS
    Paths,     \* the file paths clients use
    Contents,  \* what they upload
    Ids,       \* the provider's media ids
    Clients,   \* requests in flight
    None,      \* "no value"
    DupName    \* the name the provider gives a media whose name is taken

VARIABLES
    media,   \* the provider's media: free, live or trashed
    doomed,  \* deletes that were acknowledged and are still to be carried out
    request, \* per client, the write in flight, or None
    mistaken \* paths where one media may be taken for another

vars == <<media, doomed, request, mistaken>>

Media == [st : {"free", "live", "trashed"}, name : Paths \cup {DupName},
          content : Contents]
Doom == [id : Ids, path : Paths]
Write == [kind : {"PUT", "DELETE"}, path : Paths, content : Contents \cup {None}]

Init == /\ media \in [Ids -> Media]
        /\ doomed = {}
        /\ request = [c \in Clients |-> None]
        /\ mistaken = {}

\* A media that a request for path p may touch.
NamedAfter(i, p) == media[i].name \in {p, DupName}

Begin(c) ==
    /\ request[c] = None
    /\ \E w \in Write : request' = [request EXCEPT ![c] = w]
    /\ UNCHANGED <<media, doomed, mistaken>>

\* upload: the content goes to a media of its own, or over one of that path
\* that nobody is about to trash.
Upload(c) ==
    /\ request[c] # None /\ request[c].kind = "PUT"
    /\ \E i \in Ids, name \in {request[c].path, DupName} :
          /\ \/ media[i].st = "free"
             \/ media[i].st = "live" /\ NamedAfter(i, request[c].path)
          /\ (\E t \in doomed : t.id = i) => request[c].path \in mistaken
          /\ media' = [media EXCEPT ![i] =
                 [st |-> "live", name |-> name, content |-> request[c].content]]
    /\ UNCHANGED <<doomed, request, mistaken>>

\* delete: the answer dooms what the path holds.
Delete(c) ==
    /\ request[c] # None /\ request[c].kind = "DELETE"
    /\ \E t \in Doom :
          /\ t.path = request[c].path /\ NamedAfter(t.id, t.path)
          /\ media[t.id].st # "free"
          /\ doomed' = doomed \cup {t}
    /\ request' = [request EXCEPT ![c] = None]
    /\ UNCHANGED <<media, mistaken>>

\* The answer of a request, or its failure.
End(c) ==
    /\ request[c] # None
    /\ request' = [request EXCEPT ![c] = None]
    /\ UNCHANGED <<media, doomed, mistaken>>

\* A delete is carried out, once; unless it was asked for again.
Trash(t) ==
    /\ t \in doomed
    /\ NamedAfter(t.id, t.path)
    /\ media' = [media EXCEPT ![t.id].st = "trashed"]
    /\ \/ doomed' = doomed \ {t}
       \/ t.path \in mistaken /\ UNCHANGED doomed
    /\ \/ UNCHANGED mistaken
       \/ /\ \E i \in Ids \ {t.id} : media[i].st # "free" /\ NamedAfter(i, t.path)
          /\ mistaken' = mistaken \cup {t.path}
    /\ UNCHANGED request

\* What is being deleted comes back to mind.
Recall(p) ==
    /\ \/ \E t \in doomed : t.path = p
       \/ \E c \in Clients : request[c] # None /\ request[c].kind = "DELETE"
                               /\ request[c].path = p
    /\ mistaken' = mistaken \cup {p}
    /\ UNCHANGED <<media, doomed, request>>

\* A delete whose retries ran out is dropped.
Drop(t) ==
    /\ t \in doomed
    /\ doomed' = doomed \ {t}
    /\ UNCHANGED <<media, request, mistaken>>

\* The process restarts.
Crash ==
    /\ doomed' = {} /\ request' = [c \in Clients |-> None] /\ mistaken' = {}
    /\ UNCHANGED media

Next ==
    \/ \E c \in Clients : Begin(c) \/ Upload(c) \/ Delete(c) \/ End(c)
    \/ \E t \in doomed : Trash(t) \/ Drop(t)
    \/ \E p \in Paths : Recall(p)
    \/ Crash

Spec == Init /\ [][Next]_vars

=============================================================================
