------------------------------ MODULE Overlay ------------------------------
(***************************************************************************)
(* The write-behind overlay of O2CloudFileStore (o2/store.py) over one     *)
(* remote folder.                                                          *)
(*                                                                         *)
(* The provider accepts an upload at once, but refuses to overwrite,       *)
(* rename or trash a media while it validates it (MED-1017), and its       *)
(* folder listing lags behind its own state.  The store therefore keeps,   *)
(* per path, an overlay entry (a recent upload or a tombstone), a map from *)
(* paths to remote items, the set of ids hidden by tombstones and a        *)
(* metadata cache, and defers remote deletes and renames to background     *)
(* tasks.                                                                  *)
(*                                                                         *)
(* Everything runs on one asyncio loop: a coroutine keeps the loop until   *)
(* it awaits something that suspends (a call to the provider or to the     *)
(* cache database).  An action is the code between two such suspensions;   *)
(* when one stretch of code takes several actions, `turn' names the        *)
(* client whose coroutine keeps the loop between them.                     *)
(*                                                                         *)
(* Time is abstract: entries, cache rows and retry budgets may run out     *)
(* whenever the constants below let them.                                  *)
(***************************************************************************)
EXTENDS Integers, FiniteSets

CONSTANTS
    Paths,        \* the file paths of the folder that clients use
    Contents,     \* what a client may upload
    SizeOf,       \* the size of each content: all a listing tells of it
    Ids,          \* remote media ids, given out in increasing order
    Clients,      \* concurrent WebDAV requests
    Kinds,        \* the kinds of requests clients issue
    Seeds,        \* for each id, the path it is stored at initially, or None
    SeedContent,  \* the content of the seeded files
    MaxRequests,  \* bound: requests issued in a behaviour
    SharedWrites, \* may two requests write one path at the same time?
    Expiry,       \* may overlay entries and hidden ids outlive their TTL?
    Failures,     \* may retry budgets run out and background calls fail?
    Restarts,     \* may the gateway restart? (counted as a request)
    None,         \* "no value"
    Unsure,       \* a promise nobody can state (a write cut by a restart)
    DupName       \* the name "name (1).ext" the provider gives a duplicate

ASSUME ConstantsAssumption ==
    /\ Ids \subseteq Nat /\ MaxRequests \in Nat
    /\ SizeOf \in [Contents -> Nat]
    /\ Kinds \subseteq {"PUT", "DELETE", "MOVE", "LIST", "STAT"}
    /\ Seeds \in [Ids -> Paths \cup {None}] /\ SeedContent \in Contents
    /\ SharedWrites \in BOOLEAN /\ Expiry \in BOOLEAN /\ Failures \in BOOLEAN
    /\ Restarts \in BOOLEAN
    /\ DupName \notin Paths
    /\ {None, Unsure} \cap (Paths \cup Contents \cup Ids \cup Clients) = {}
    /\ None # Unsure

\* A remote item as the store remembers it: its id, and the content whose
\* size and dates the item describes.
Item == [id : Ids, content : Contents]

Entry == [st : {"uploaded", "pending_delete"}, id : Ids,
          content : Contents, gone : BOOLEAN]
Listed == [name : Paths \cup {DupName}, content : Contents]
Listing == [Ids -> Listed \cup {None}]
\* A value is never mistaken for the absence of one.
ASSUME NoneIsNoRecord == None \notin Item \cup Entry \cup Listed

Task == [kind : {"trash", "rename"}, id : Ids, content : Contents, path : Paths]

VARIABLES
    overlay,    \* self._overlay: a recent upload or a tombstone per path
    known,      \* self._path_to_item
    hidden,     \* self._hidden_remote_ids
    cache,      \* the metadata_cache table (positive rows)
    tasks,      \* self._background_tasks: deferred deletes and renames
    client,     \* the state of each client's request
    turn,       \* the client whose coroutine keeps the loop, if any
    remote,     \* the provider's media
    listed,     \* the media its folder listing shows at present
    validating, \* media in their validation window
    issued,     \* requests issued so far
    promise,    \* per path, what the last acknowledged write left there
    crossed     \* paths where a media about to be trashed may be taken for another

remoteVars == <<remote, listed, validating>>
vars == <<overlay, known, hidden, cache, tasks, client, turn,
          remote, listed, validating, issued, promise, crossed>>

-----------------------------------------------------------------------------
(* The request records.                                                    *)

NoKids == [p \in Paths |-> None]
NoList == [i \in Ids |-> None]

NewRequest(k, p, q, d) ==
    [kind |-> k, pc |-> "idle", src |-> p, dst |-> q, content |-> d,
     item |-> None, snap |-> NoList, todo |-> {}, kids |-> NoKids]

Idle == NewRequest("none", None, None, None)

Request ==
    [kind : {"none", "PUT", "DELETE", "MOVE", "LIST", "STAT"},
     pc : {"idle", "stat", "stat_lookup", "answer", "absent",
           "put_lookup", "upload", "publish",
           "delete", "del_lookup", "del_item", "tombstone", "schedule",
           "source", "src_lookup", "rename", "moved_entry", "moved_item",
           "listing", "items", "putting"},
     src : Paths \cup {None}, dst : Paths \cup {None},
     content : Contents \cup {None}, item : Item \cup {None},
     snap : Listing, todo : SUBSET Ids, kids : [Paths -> Entry \cup {None}]]

Writes(r) == IF r.kind \in {"PUT", "DELETE", "MOVE"}
             THEN {r.src, r.dst} \ {None} ELSE {}

\* No request in flight writes p.
Quiet(p) == \A c \in Clients : p \notin Writes(client[c])

\* A coroutine runs only when no other one keeps the loop.
Runs(c) == turn \in {None, c}

ItemOf(snap, i) == [id |-> i, content |-> snap[i].content]

\* Mutant: the whole entry is handed out where its item is meant.
EntryItemWhole(e) == e

EntryItem(e) == [id |-> e.id, content |-> e.content]

Uploaded(p) == overlay[p] # None /\ overlay[p].st = "uploaded"
Tombstone(p) == overlay[p] # None /\ overlay[p].st = "pending_delete"

\* A media's delete is owed: a background task is there to trash it, or the
\* request that is about to schedule one.
Owed(i) ==
    \/ \E t \in tasks : t.kind = "trash" /\ t.id = i
    \/ \E c \in Clients : client[c].pc = "schedule" /\ client[c].item.id = i

\* The media a listing shows at p that no tombstone hides.
ShownAt(snap, p) ==
    {i \in Ids : snap[i] # None /\ snap[i].name = p /\ i \notin hidden}

-----------------------------------------------------------------------------
Init ==
    /\ overlay = [p \in Paths |-> None]
    /\ known = [p \in Paths |-> None]
    /\ hidden = {}
    /\ cache = [p \in Paths |-> None]
    /\ tasks = {}
    /\ client = [c \in Clients |-> Idle]
    /\ turn = None
    /\ remote = [i \in Ids |->
                    IF Seeds[i] = None
                    THEN [st |-> "free", name |-> DupName, content |-> SeedContent]
                    ELSE [st |-> "live", name |-> Seeds[i], content |-> SeedContent]]
    /\ listed = [i \in Ids |->
                    IF Seeds[i] = None THEN None
                    ELSE [name |-> Seeds[i], content |-> SeedContent]]
    /\ validating = {}
    /\ issued = 0
    /\ promise = [p \in Paths |->
                    IF \E i \in Ids : Seeds[i] = p THEN SeedContent ELSE None]
    /\ crossed = {}

\* A request reaches another point, where it remembers an item.
Goto(r, pc, item) == [r EXCEPT !.pc = pc, !.item = item, !.snap = NoList]

\* Client c's request becomes r, and c keeps the loop iff keep.
Become(c, r, keep) ==
    /\ client' = [client EXCEPT ![c] = r]
    /\ turn' = IF keep THEN c ELSE None

\* A new request of an idle client; a request that writes a path another one
\* is writing only where SharedWrites lets clients do without WebDAV locks.
Arrives(c, r) ==
    /\ turn = None /\ client[c] = Idle
    /\ r.kind \in Kinds
    /\ issued < MaxRequests
    /\ SharedWrites \/ \A p \in Writes(r) : Quiet(p)
    /\ issued' = issued + 1

-----------------------------------------------------------------------------
(* _item_for_path, which upload, delete, move and get_metadata share.  It  *)
(* answers at once from the overlay or from _path_to_item ...              *)

Resolved(p) == overlay[p] # None \/ known[p] # None
\* Mutant: a tombstone resolves to the media it is about to delete.
ResolutionOfTombstone(p) == IF overlay[p] # None THEN EntryItem(overlay[p]) ELSE known[p]


Resolution(p) == IF Tombstone(p) THEN None
                 ELSE IF Uploaded(p) THEN EntryItem(overlay[p]) ELSE known[p]

\* ... or asks the provider for the folder listing and waits for it ...
AskListing(c, r, pc) ==
    Become(c, [r EXCEPT !.pc = pc, !.snap = listed], FALSE)

\* ... and then remembers every child without an overlay entry.  pick says
\* which of several media listed under one name comes last.
Picks(snap) ==
    {pick \in [Paths -> Ids \cup {None}] :
        \A p \in Paths : IF ShownAt(snap, p) = {} THEN pick[p] = None
                         ELSE pick[p] \in ShownAt(snap, p)}

Absorb(snap, pick) ==
    known' = [p \in Paths |->
        IF overlay[p] = None /\ pick[p] # None
        THEN ItemOf(snap, pick[p]) ELSE known[p]]

Found(snap, pick, p) ==
    IF overlay[p] = None /\ pick[p] # None THEN ItemOf(snap, pick[p]) ELSE None

\* The listing arrives: the lookup of p ends with an item, or with None.
Answered(c, p, pcFound, pcMissing, keep) ==
    LET r == client[c] IN
    \E pick \in Picks(r.snap) :
        /\ Absorb(r.snap, pick)
        /\ LET found == Found(r.snap, pick, p) IN
           Become(c, Goto(r, IF found = None THEN pcMissing ELSE pcFound, found), keep)

At(c, pc) == Runs(c) /\ client[c].pc = pc

-----------------------------------------------------------------------------
(* get_metadata, for a STAT and for the destination of a MOVE.  What the   *)
(* overlay or the cache answers changes nothing, so a STAT starts where    *)
(* both miss.                                                              *)

StatPath(r) == IF r.kind = "MOVE" THEN r.dst ELSE r.src

Stat(c, p) ==
    /\ Arrives(c, NewRequest("STAT", p, None, None))
    /\ overlay[p] = None /\ cache[p] = None
    /\ Become(c, Goto(NewRequest("STAT", p, None, None), "stat", None), FALSE)
    /\ UNCHANGED <<overlay, known, hidden, cache, tasks, remoteVars, promise, crossed>>

StatMiss(c) ==
    LET r == client[c]  p == StatPath(r) IN
    /\ At(c, "stat")
    /\ IF Resolved(p)
       THEN Become(c, Goto(r, IF Resolution(p) = None THEN "absent" ELSE "answer",
                              Resolution(p)), FALSE)
       ELSE AskListing(c, r, "stat_lookup")
    /\ UNCHANGED <<overlay, known, hidden, cache, tasks, remoteVars, issued, promise, crossed>>

StatListed(c) ==
    /\ At(c, "stat_lookup")
    /\ Answered(c, StatPath(client[c]), "answer", "absent", FALSE)
    /\ UNCHANGED <<overlay, hidden, cache, tasks, remoteVars, issued, promise, crossed>>

\* cache.put, then the answer; a MOVE goes on to delete its destination.
StatAnswer(c) ==
    LET r == client[c] IN
    /\ At(c, "answer")
    /\ cache' = [cache EXCEPT ![StatPath(r)] = r.item]
    /\ IF r.kind = "MOVE" THEN Become(c, Goto(r, "delete", None), TRUE)
       ELSE Become(c, Idle, FALSE)
    /\ UNCHANGED <<overlay, known, hidden, tasks, remoteVars, issued, promise, crossed>>

\* cache.put_negative replaces the row, and a negative row reads as none.
StatAbsent(c) ==
    LET r == client[c] IN
    /\ At(c, "absent")
    /\ cache' = [cache EXCEPT ![StatPath(r)] = None]
    /\ IF r.kind = "MOVE" THEN Become(c, Goto(r, "source", None), TRUE)
       ELSE Become(c, Idle, FALSE)
    /\ UNCHANGED <<overlay, known, hidden, tasks, remoteVars, issued, promise, crossed>>

-----------------------------------------------------------------------------
(* upload                                                                  *)

\* _remote_target_id: the media to overwrite, from the overlay, from
\* _path_to_item or, after a wait, from the listing.
Put(c, p, d) ==
    LET r == NewRequest("PUT", p, None, d) IN
    /\ Arrives(c, r)
    /\ IF Resolved(p) THEN Become(c, Goto(r, "upload", Resolution(p)), FALSE)
       ELSE AskListing(c, r, "put_lookup")
    /\ UNCHANGED <<overlay, known, hidden, cache, tasks, remoteVars, promise, crossed>>

PutListed(c) ==
    /\ At(c, "put_lookup")
    /\ Answered(c, client[c].src, "upload", "upload", FALSE)
    /\ UNCHANGED <<overlay, hidden, cache, tasks, remoteVars, issued, promise, crossed>>

\* _store_uploaded replaces whatever entry the path had; the rows of the
\* path are invalidated and the request waits for that.
StoreUploaded(c, i) ==
    LET r == client[c]  item == [id |-> i, content |-> r.content] IN
    /\ overlay' = [overlay EXCEPT ![r.src] =
           [st |-> "uploaded", id |-> i, content |-> r.content, gone |-> FALSE]]
    /\ known' = [known EXCEPT ![r.src] = item]
    /\ cache' = [cache EXCEPT ![r.src] = None]
    /\ Become(c, Goto(r, "publish", item), FALSE)

\* Without a media id the provider stores a new media, under another name
\* when the folder already holds one with this name.
UploadNew(c) ==
    LET r == client[c]
        free == {i \in Ids : remote[i].st = "free"}
        taken == \E i \in Ids : remote[i].st = "live" /\ remote[i].name = r.src
    IN
    /\ At(c, "upload") /\ r.item = None
    /\ \E i \in free :
          /\ \A j \in free : i <= j
          /\ remote' = [remote EXCEPT ![i] =
                 [st |-> "live", name |-> IF taken THEN DupName ELSE r.src,
                  content |-> r.content]]
          /\ validating' = validating \cup {i}
          /\ StoreUploaded(c, i)
    /\ UNCHANGED <<hidden, tasks, listed, issued, promise, crossed>>

\* With a media id it replaces the content in place, once validated.
UploadOver(c) ==
    LET r == client[c] IN
    /\ At(c, "upload") /\ r.item # None
    /\ remote[r.item.id].st = "live" /\ r.item.id \notin validating
    /\ remote' = [remote EXCEPT ![r.item.id] =
           [st |-> "live", name |-> r.src, content |-> r.content]]
    /\ validating' = validating \cup {r.item.id}
    /\ StoreUploaded(c, r.item.id)
    /\ UNCHANGED <<hidden, tasks, listed, issued, promise, crossed>>

\* Mutant: an upload over a media that is gone is retried for ever.
UploadRefusedNever(c) ==
    LET r == client[c] IN
    /\ At(c, "upload") /\ r.item # None /\ r.item.id \in validating /\ Failures
    /\ Become(c, Idle, FALSE)
    /\ UNCHANGED <<overlay, known, hidden, cache, tasks, remoteVars, issued, promise, crossed>>

\* The retry budget of MED-1017 ran out, or the media is gone.
UploadRefused(c) ==
    LET r == client[c] IN
    /\ At(c, "upload") /\ r.item # None
    /\ \/ remote[r.item.id].st = "trashed"
       \/ r.item.id \in validating /\ Failures
    /\ Become(c, Idle, FALSE)
    /\ UNCHANGED <<overlay, known, hidden, cache, tasks, remoteVars, issued, promise, crossed>>

\* cache.put, then 201/204.
Publish(c) ==
    LET r == client[c] IN
    /\ At(c, "publish")
    /\ cache' = [cache EXCEPT ![r.src] = r.item]
    /\ promise' = [promise EXCEPT ![r.src] = r.content]
    /\ Become(c, Idle, FALSE)
    /\ UNCHANGED <<overlay, known, hidden, tasks, remoteVars, issued, crossed>>

-----------------------------------------------------------------------------
(* delete, of a DELETE and of the destination of a MOVE                    *)

DeletePath(r) == IF r.kind = "MOVE" THEN r.dst ELSE r.src

Delete(c, p) ==
    LET r == NewRequest("DELETE", p, None, None) IN
    /\ Arrives(c, r)
    /\ Become(c, Goto(r, "delete", None), TRUE)
    /\ UNCHANGED <<overlay, known, hidden, cache, tasks, remoteVars, promise, crossed>>

\* 204 for a DELETE; a MOVE goes on with its source.
Deleted(c) ==
    LET r == client[c] IN
    /\ promise' = [promise EXCEPT ![DeletePath(r)] = None]
    /\ IF r.kind = "MOVE" THEN Become(c, Goto(r, "source", None), TRUE)
       ELSE Become(c, Idle, FALSE)

DeleteAgain(c) ==
    /\ At(c, "delete") /\ Tombstone(DeletePath(client[c]))
    /\ Deleted(c)
    /\ UNCHANGED <<overlay, known, hidden, cache, tasks, remoteVars, issued, crossed>>

\* A recent upload: the entry goes now, the tombstone comes only after the
\* cache rows were invalidated.
DeleteRecent(c) ==
    LET r == client[c]  p == DeletePath(r) IN
    /\ At(c, "delete") /\ Uploaded(p)
    /\ overlay' = [overlay EXCEPT ![p] = None]
    /\ known' = [known EXCEPT ![p] = None]
    /\ cache' = [cache EXCEPT ![p] = None]
    /\ Become(c, Goto(r, "tombstone", EntryItem(overlay[p])), FALSE)
    /\ UNCHANGED <<hidden, tasks, remoteVars, issued, promise, crossed>>

\* Any other file is looked up first.
DeleteLookup(c) ==
    LET r == client[c]  p == DeletePath(r) IN
    /\ At(c, "delete") /\ overlay[p] = None
    /\ IF known[p] # None
       THEN Become(c, Goto(r, "del_item", known[p]), TRUE)
       ELSE AskListing(c, r, "del_lookup")
    /\ UNCHANGED <<overlay, known, hidden, cache, tasks, remoteVars, issued, promise, crossed>>

\* Not listed: 404, for a MOVE too.
DeleteListed(c) ==
    /\ At(c, "del_lookup")
    /\ Answered(c, DeletePath(client[c]), "del_item", "del_item", TRUE)
    /\ UNCHANGED <<overlay, hidden, cache, tasks, remoteVars, issued, promise, crossed>>

DeleteMissing(c) ==
    /\ At(c, "del_item") /\ client[c].item = None
    /\ Become(c, Idle, FALSE)
    /\ UNCHANGED <<overlay, known, hidden, cache, tasks, remoteVars, issued, promise, crossed>>

\* Mutant: the tombstone does not hide its media.
StoreTombstoneUnhidden(p, item) ==
    /\ overlay' = [overlay EXCEPT ![p] =
           [st |-> "pending_delete", id |-> item.id,
            content |-> item.content, gone |-> FALSE]]
    /\ known' = [known EXCEPT ![p] = None]
    /\ hidden' = hidden

\* _store_tombstone
StoreTombstone(p, item) ==
    /\ overlay' = [overlay EXCEPT ![p] =
           [st |-> "pending_delete", id |-> item.id,
            content |-> item.content, gone |-> FALSE]]
    /\ known' = [known EXCEPT ![p] = None]
    /\ hidden' = hidden \cup {item.id}

Rename(r) == [kind |-> "rename", id |-> r.item.id, content |-> r.item.content,
              path |-> r.dst]
Trash(r) == [kind |-> "trash", id |-> r.item.id, content |-> r.item.content,
             path |-> DeletePath(r)]

DeleteItem(c) ==
    LET r == client[c]  p == DeletePath(r) IN
    /\ At(c, "del_item") /\ r.item # None
    /\ StoreTombstone(p, r.item)
    /\ cache' = [cache EXCEPT ![p] = None]
    /\ Become(c, Goto(r, "schedule", r.item), FALSE)
    /\ UNCHANGED <<tasks, remoteVars, issued, promise, crossed>>

DeleteTombstone(c) ==
    LET r == client[c] IN
    /\ At(c, "tombstone")
    /\ StoreTombstone(DeletePath(r), r.item)
    /\ tasks' = tasks \cup {Trash(r)}
    /\ Deleted(c)
    /\ UNCHANGED <<cache, remoteVars, issued, crossed>>

DeleteSchedule(c) ==
    /\ At(c, "schedule")
    /\ tasks' = tasks \cup {Trash(client[c])}
    /\ Deleted(c)
    /\ UNCHANGED <<overlay, known, hidden, cache, remoteVars, issued, crossed>>

-----------------------------------------------------------------------------
(* move, with Overwrite: T (a refused one is a STAT of its destination)    *)

\* get_metadata(dst) from the overlay, from the cache (a wait), or beyond.
Move(c, p, q) ==
    LET r == NewRequest("MOVE", p, q, None) IN
    /\ p # q /\ Arrives(c, r)
    /\ CASE Uploaded(q) -> Become(c, Goto(r, "delete", None), TRUE)
         [] Tombstone(q) -> Become(c, Goto(r, "source", None), TRUE)
         [] overlay[q] = None /\ cache[q] # None ->
                Become(c, Goto(r, "delete", None), FALSE)
         [] OTHER -> Become(c, Goto(r, "stat", None), FALSE)
    /\ UNCHANGED <<overlay, known, hidden, cache, tasks, remoteVars, promise, crossed>>

\* _move_entry: the entry changes path; the remote rename is deferred.
MoveEntry(c) ==
    LET r == client[c]  item == EntryItem(overlay[r.src]) IN
    /\ At(c, "source") /\ Uploaded(r.src)
    /\ overlay' = [overlay EXCEPT ![r.src] = None, ![r.dst] = overlay[r.src]]
    /\ known' = [known EXCEPT ![r.src] = None, ![r.dst] = item]
    /\ cache' = [cache EXCEPT ![r.src] = None, ![r.dst] = None]
    /\ Become(c, Goto(r, "moved_entry", item), FALSE)
    /\ UNCHANGED <<hidden, tasks, remoteVars, issued, promise, crossed>>

\* Any other file is looked up, and renamed before the MOVE is answered.
MoveLookup(c) ==
    LET r == client[c] IN
    /\ At(c, "source") /\ ~Uploaded(r.src)
    /\ IF Resolved(r.src) THEN Become(c, Goto(r, "rename", Resolution(r.src)), FALSE)
       ELSE AskListing(c, r, "src_lookup")
    /\ UNCHANGED <<overlay, known, hidden, cache, tasks, remoteVars, issued, promise, crossed>>

MoveListed(c) ==
    /\ At(c, "src_lookup")
    /\ Answered(c, client[c].src, "rename", "rename", FALSE)
    /\ UNCHANGED <<overlay, hidden, cache, tasks, remoteVars, issued, promise, crossed>>

\* rename_or_move at the provider, once the media is validated.
CanRename(i) == remote[i].st = "live" /\ i \notin validating

MoveRename(c) ==
    LET r == client[c] IN
    /\ At(c, "rename") /\ r.item # None /\ CanRename(r.item.id)
    /\ remote' = [remote EXCEPT ![r.item.id].name = r.dst]
    /\ known' = [known EXCEPT ![r.src] = None, ![r.dst] = r.item]
    /\ cache' = [cache EXCEPT ![r.src] = None, ![r.dst] = None]
    /\ Become(c, Goto(r, "moved_item", r.item), FALSE)
    /\ UNCHANGED <<overlay, hidden, tasks, listed, validating, issued, promise, crossed>>

\* 404 without a source; or the rename's budget ran out, or its media is gone.
MoveRefused(c) ==
    LET r == client[c] IN
    /\ At(c, "rename")
    /\ \/ r.item = None
       \/ r.item # None /\ remote[r.item.id].st = "trashed"
       \/ r.item # None /\ r.item.id \in validating /\ Failures
    /\ Become(c, Idle, FALSE)
    /\ UNCHANGED <<overlay, known, hidden, cache, tasks, remoteVars, issued, promise, crossed>>

\* cache.put, then the answer; a moved entry first schedules its rename.
PublishMove(c) ==
    LET r == client[c] IN
    /\ \/ At(c, "moved_item") /\ UNCHANGED tasks
       \/ At(c, "moved_entry") /\ tasks' = tasks \cup {Rename(r)}
    /\ cache' = [cache EXCEPT ![r.dst] = r.item]
    /\ promise' = [promise EXCEPT ![r.dst] = promise[r.src], ![r.src] = None]
    /\ Become(c, Idle, FALSE)
    /\ UNCHANGED <<overlay, known, hidden, remoteVars, issued, crossed>>

-----------------------------------------------------------------------------
(* list                                                                    *)

List(c) ==
    LET r == NewRequest("LIST", None, None, None) IN
    /\ Arrives(c, r)
    /\ AskListing(c, r, "listing")
    /\ UNCHANGED <<overlay, known, hidden, cache, tasks, remoteVars, promise, crossed>>

\* The listing arrives; the overlay's children are copied once and used
\* until the end, over the waits in between.
ListBegin(c) ==
    LET r == client[c] IN
    /\ At(c, "listing")
    /\ Become(c, [r EXCEPT !.pc = "items", !.kids = overlay,
                           !.todo = {i \in Ids : r.snap[i] # None}], TRUE)
    /\ UNCHANGED <<overlay, known, hidden, cache, tasks, remoteVars, issued, promise, crossed>>

\* Mutant: the same id is enough, whatever size is listed.
CaughtUpById(e, i, seen) == e.st = "uploaded" /\ e.id = i

\* The listing reflects the upload: same id, same size.
CaughtUp(e, i, seen) == /\ e.st = "uploaded" /\ e.id = i
                        /\ SizeOf[seen.content] = SizeOf[e.content]

\* An item is left out when a tombstone hides it or an entry overrides it.
LeftOut(r, i) ==
    LET p == r.snap[i].name IN
    \/ i \in hidden
    \/ /\ p \in Paths /\ r.kids[p] # None
       /\ ~CaughtUp(r.kids[p], i, r.snap[i])

\* The "name (1)" of a duplicate is no path clients use: it is only listed.
ListSkip(c, i) ==
    LET r == client[c] IN
    /\ At(c, "items") /\ i \in r.todo
    /\ LeftOut(r, i) \/ r.snap[i].name = DupName
    /\ Become(c, [r EXCEPT !.todo = @ \ {i}], LeftOut(r, i))
    /\ UNCHANGED <<overlay, known, hidden, cache, tasks, remoteVars, issued, promise, crossed>>

\* Any other item is listed; an entry it has caught up with is dropped.
ListItem(c, i) ==
    LET r == client[c]  p == r.snap[i].name IN
    /\ At(c, "items") /\ i \in r.todo
    /\ p \in Paths /\ ~LeftOut(r, i)
    /\ overlay' = IF r.kids[p] = None THEN overlay ELSE [overlay EXCEPT ![p] = None]
    /\ known' = [known EXCEPT ![p] = ItemOf(r.snap, i)]
    /\ Become(c, [r EXCEPT !.pc = "putting", !.src = p, !.item = ItemOf(r.snap, i),
                           !.todo = @ \ {i}, !.kids = [@ EXCEPT ![p] = None]], FALSE)
    /\ UNCHANGED <<hidden, cache, tasks, remoteVars, issued, promise, crossed>>

\* Then the recent uploads the listing does not have.
Recent(r) == {p \in Paths : r.kids[p] # None /\ r.kids[p].st = "uploaded"}

\* An entry copied before a DELETE may bring back what that is to trash.
ListRecent(c, p) ==
    LET r == client[c]  item == EntryItem(r.kids[p]) IN
    /\ At(c, "items") /\ r.todo = {} /\ p \in Recent(r)
    /\ known' = [known EXCEPT ![p] = item]
    /\ crossed' = IF overlay[p] = None /\ Owed(item.id) THEN crossed \cup {p} ELSE crossed
    /\ Become(c, [r EXCEPT !.pc = "putting", !.src = p, !.item = item,
                           !.kids = [@ EXCEPT ![p] = None]], FALSE)
    /\ UNCHANGED <<overlay, hidden, cache, tasks, remoteVars, issued, promise>>

\* Each listed item waits for its cache.put.
ListPut(c) ==
    LET r == client[c] IN
    /\ At(c, "putting")
    /\ cache' = [cache EXCEPT ![r.src] = r.item]
    /\ Become(c, [r EXCEPT !.pc = "items", !.src = None, !.item = None], TRUE)
    /\ UNCHANGED <<overlay, known, hidden, tasks, remoteVars, issued, promise, crossed>>

\* Mutant: a tombstone is swept before the remote confirmed its delete.
SettledUnconfirmed(snap) == {p \in Paths : Tombstone(p) /\ snap[overlay[p].id] = None}

\* _sweep_settled_tombstones
Settled(snap) == {p \in Paths : Tombstone(p) /\ overlay[p].gone
                                /\ snap[overlay[p].id] = None}

ListEnd(c) ==
    LET r == client[c]  done == Settled(r.snap) IN
    /\ At(c, "items") /\ r.todo = {} /\ Recent(r) = {}
    /\ overlay' = [p \in Paths |-> IF p \in done THEN None ELSE overlay[p]]
    /\ known' = [p \in Paths |-> IF p \in done THEN None ELSE known[p]]
    /\ hidden' = hidden \ {overlay[p].id : p \in done}
    /\ Become(c, Idle, FALSE)
    /\ UNCHANGED <<cache, tasks, remoteVars, issued, promise, crossed>>

-----------------------------------------------------------------------------
(* Background tasks.  They retry while the media is validated.             *)

\* _delete_remote: marks the tombstone that is now at the path.
TrashDone(t) ==
    /\ turn = None /\ t \in tasks /\ t.kind = "trash"
    /\ remote[t.id].st # "free" /\ t.id \notin validating
    /\ remote' = [remote EXCEPT ![t.id].st = "trashed"]
    /\ IF Tombstone(t.path)
       THEN /\ overlay' = [overlay EXCEPT ![t.path].gone = TRUE]
            /\ crossed' = IF overlay[t.path].id = t.id THEN crossed
                          ELSE crossed \cup {t.path}
       ELSE UNCHANGED <<overlay, crossed>>
    /\ tasks' = tasks \ {t}
    /\ UNCHANGED <<known, hidden, cache, client, turn, listed, validating, issued, promise>>

\* The deferred rename of _move_entry.
RenameDone(t) ==
    /\ turn = None /\ t \in tasks /\ t.kind = "rename" /\ CanRename(t.id)
    /\ remote' = [remote EXCEPT ![t.id].name = t.path]
    /\ tasks' = tasks \ {t}
    /\ UNCHANGED <<overlay, known, hidden, cache, client, turn, listed, validating,
                   issued, promise, crossed>>

\* Mutant: MED-1017 ends a task instead of being retried.
TaskFailsAtOnce(t) ==
    /\ turn = None /\ t \in tasks
    /\ t.id \in validating \/ remote[t.id].st = "trashed"
    /\ tasks' = tasks \ {t}
    /\ UNCHANGED <<overlay, known, hidden, cache, client, turn, remoteVars,
                   issued, promise, crossed>>

\* An exception ends a task, which only logs it (_log_background_task).
TaskFails(t) ==
    /\ turn = None /\ t \in tasks
    /\ Failures \/ remote[t.id].st = "trashed"
    /\ tasks' = tasks \ {t}
    /\ UNCHANGED <<overlay, known, hidden, cache, client, turn, remoteVars,
                   issued, promise, crossed>>

-----------------------------------------------------------------------------
(* The provider, and time.                                                 *)

Validated(i) ==
    /\ turn = None /\ i \in validating
    /\ validating' = validating \ {i}
    /\ UNCHANGED <<overlay, known, hidden, cache, tasks, client, turn, remote,
                   listed, issued, promise, crossed>>

\* The folder listing catches up with one media.
Shows(i) ==
    LET now == IF remote[i].st = "live"
               THEN [name |-> remote[i].name, content |-> remote[i].content]
               ELSE None
    IN
    /\ turn = None /\ listed[i] # now
    /\ listed' = [listed EXCEPT ![i] = now]
    /\ UNCHANGED <<overlay, known, hidden, cache, tasks, client, turn, remote,
                   validating, issued, promise, crossed>>

\* A cache row outlives its (short) TTL.
CacheExpires(p) ==
    /\ turn = None /\ cache[p] # None
    /\ cache' = [cache EXCEPT ![p] = None]
    /\ UNCHANGED <<overlay, known, hidden, tasks, client, turn, remoteVars,
                   issued, promise, crossed>>

\* _entry drops an expired entry when it is next looked at; the id a
\* tombstone hides expires with it.
EntryExpires(p) ==
    /\ Expiry /\ turn = None /\ overlay[p] # None
    /\ overlay' = [overlay EXCEPT ![p] = None]
    /\ known' = [known EXCEPT ![p] = None]
    /\ hidden' = IF Tombstone(p) THEN hidden \ {overlay[p].id} ELSE hidden
    /\ UNCHANGED <<cache, tasks, client, turn, remoteVars, issued, promise, crossed>>

\* An id stays hidden after its tombstone was replaced by a new upload.
HiddenExpires(i) ==
    /\ Expiry /\ turn = None /\ i \in hidden
    /\ ~\E p \in Paths : Tombstone(p) /\ overlay[p].id = i
    /\ hidden' = hidden \ {i}
    /\ UNCHANGED <<overlay, known, cache, tasks, client, turn, remoteVars,
                   issued, promise, crossed>>

\* The overlay, the ids and the tasks live in memory only; the cache table
\* survives.  Requests in flight are cut, and nobody can tell what a crossed
\* path holds.
Restart ==
    /\ Restarts /\ turn = None /\ issued < MaxRequests
    /\ overlay' = [p \in Paths |-> None]
    /\ known' = [p \in Paths |-> None]
    /\ hidden' = {} /\ tasks' = {}
    /\ client' = [c \in Clients |-> Idle]
    /\ issued' = issued + 1
    /\ promise' = [p \in Paths |->
                     IF Quiet(p) /\ p \notin crossed THEN promise[p] ELSE Unsure]
    /\ crossed' = {}
    /\ UNCHANGED <<cache, turn, remoteVars>>

-----------------------------------------------------------------------------
NewRequests(c) ==
    \/ \E p \in Paths : Stat(c, p) \/ Delete(c, p)
    \/ \E p \in Paths, d \in Contents : Put(c, p, d)
    \/ \E p, q \in Paths : Move(c, p, q)
    \/ List(c)

Continue(c) ==
    \/ StatMiss(c) \/ StatListed(c) \/ StatAnswer(c) \/ StatAbsent(c)
    \/ PutListed(c) \/ UploadNew(c) \/ UploadOver(c) \/ UploadRefused(c) \/ Publish(c)
    \/ DeleteAgain(c) \/ DeleteRecent(c) \/ DeleteLookup(c) \/ DeleteListed(c)
    \/ DeleteMissing(c) \/ DeleteItem(c) \/ DeleteTombstone(c) \/ DeleteSchedule(c)
    \/ MoveEntry(c) \/ MoveLookup(c) \/ MoveListed(c) \/ MoveRename(c)
    \/ MoveRefused(c) \/ PublishMove(c)
    \/ ListBegin(c) \/ ListPut(c) \/ ListEnd(c)
    \/ \E i \in Ids : ListSkip(c, i) \/ ListItem(c, i)
    \/ \E p \in Paths : ListRecent(c, p)

Background == \E t \in tasks : TrashDone(t) \/ RenameDone(t) \/ TaskFails(t)

Environment ==
    \/ \E i \in Ids : Validated(i) \/ Shows(i) \/ HiddenExpires(i)
    \/ \E p \in Paths : CacheExpires(p) \/ EntryExpires(p)
    \/ Restart

Next ==
    \/ \E c \in Clients : NewRequests(c) \/ Continue(c)
    \/ Background
    \/ Environment

Spec == Init /\ [][Next]_vars

\* The asyncio loop runs every ready coroutine, the provider answers every
\* call (httpx bounds each by a timeout) and validates every media (~4-10s).
Fairness ==
    /\ \A c \in Clients : WF_vars(Continue(c))
    /\ \A t \in Task : WF_vars(TrashDone(t)) /\ WF_vars(RenameDone(t))
    /\ \A i \in Ids : WF_vars(Validated(i))

FairSpec == Spec /\ Fairness

=============================================================================
