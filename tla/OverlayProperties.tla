------------------------- MODULE OverlayProperties -------------------------
(***************************************************************************)
(* What clients may rely on while the overlay (module Overlay) stands      *)
(* between them and a provider that lags behind.                           *)
(***************************************************************************)
EXTENDS Overlay

TypeOK ==
    /\ overlay \in [Paths -> Entry \cup {None}]
    /\ known \in [Paths -> Item \cup {None}]
    /\ hidden \subseteq Ids
    /\ cache \in [Paths -> Item \cup {None}]
    /\ tasks \subseteq Task
    /\ client \in [Clients -> Request]
    /\ turn \in Clients \cup {None}
    /\ remote \in [Ids -> [st : {"free", "live", "trashed"},
                           name : Paths \cup {DupName}, content : Contents]]
    /\ listed \in Listing
    /\ validating \subseteq Ids
    /\ issued \in 0..MaxRequests
    /\ promise \in [Paths -> Contents \cup {None, Unsure}]
    /\ crossed \subseteq Paths

\* Nobody is writing p, and no coroutine is half way through its stretch.
Settles(p) == turn = None /\ Quiet(p)

\* What a STAT of p finds if it runs undisturbed from here.
StatAnswers(p) ==
    IF Tombstone(p) THEN {None}
    ELSE IF Uploaded(p) THEN {EntryItem(overlay[p])}
    ELSE IF cache[p] # None THEN {cache[p]}
    ELSE IF known[p] # None THEN {known[p]}
    ELSE IF ShownAt(listed, p) = {} THEN {None}
    ELSE {ItemOf(listed, i) : i \in ShownAt(listed, p)}

\* What a LIST shows at p if it runs undisturbed from here.
ListAnswers(p) ==
    LET shown == {ItemOf(listed, i) : i \in
                    {j \in ShownAt(listed, p) :
                        overlay[p] = None \/ CaughtUp(overlay[p], j, listed[j])}}
    IN IF shown # {} THEN shown
       ELSE IF Uploaded(p) THEN {EntryItem(overlay[p])} ELSE {None}

Answers(p) == StatAnswers(p) \cup ListAnswers(p)

\* After an acknowledged PUT, and until the next write, the path is there,
\* with the size that was written and a media that holds what was written,
\* however far the provider's listing lags; unless a tombstone of that path
\* was settled by the deferred delete of another media, or a listing brought
\* back a media that was about to be trashed.
PutVisible ==
    \A p \in Paths : Settles(p) /\ promise[p] \in Contents /\ p \notin crossed =>
        \A a \in Answers(p) :
            /\ a # None
            /\ SizeOf[a.content] = SizeOf[promise[p]]
            /\ remote[a.id].content = promise[p]

\* A path whose DELETE was acknowledged may come back as the ghost of a
\* trashed media, but never as a live one, with the same exception.
DeletedNeverRevives ==
    \A p \in Paths : Settles(p) /\ promise[p] = None /\ p \notin crossed =>
        \A a \in Answers(p) : a # None => remote[a.id].st = "trashed"

\* The provider stores what was promised at p, under its name or a duplicate's,
\* in a media no deferred delete is going to trash.
Stored(p) ==
    \E i \in Ids :
        /\ remote[i].st = "live" /\ remote[i].name \in {p, DupName}
        /\ remote[i].content = promise[p]
        /\ ~\E t \in tasks : t.kind = "trash" /\ t.id = i

\* What an acknowledged PUT wrote stays stored by the provider until another
\* write of its path, with the same exception.
AckedWriteSurvives ==
    \A p \in Paths : Settles(p) /\ promise[p] \in Contents /\ p \notin crossed => Stored(p)

\* A tombstone never hides a live media whose remote delete nobody owes any
\* more.
DeleteNotForgotten ==
    \A p \in Paths : Tombstone(p) /\ remote[overlay[p].id].st = "live" => Owed(overlay[p].id)

\* A live tombstone's media is hidden wherever listings may show it.
TombstoneHides == \A p \in Paths : Tombstone(p) => overlay[p].id \in hidden

\* A deferred delete trashes the content its client asked to delete, never
\* one a later PUT wrote into the same media, with the same exception.
TrashOnlyWhatWasDeleted ==
    [][\A i \in Ids : remote[i].st = "live" /\ remote'[i].st = "trashed" =>
           \E t \in tasks : t.kind = "trash" /\ t.id = i
                            /\ (t.content = remote[i].content \/ t.path \in crossed)]_vars

\* Every media a tombstone covers is trashed at the provider in the end.
DeleteReachesRemote ==
    \A i \in Ids : (\E p \in Paths : Tombstone(p) /\ overlay[p].id = i)
                       ~> remote[i].st = "trashed"

\* Every request is answered.
EveryRequestEnds == \A c \in Clients : client[c] # Idle ~> client[c] = Idle

=============================================================================
