------------------------------ MODULE Folders ------------------------------
(***************************************************************************)
(* Folders of the O2 store (o2/store.py, o2/api.py): MKCOL with its lock   *)
(* per path, DELETE and MOVE of folders, LIST, and PUT of a file into one. *)
(*                                                                         *)
(* The tree is the root, folders in it, and one file name in each folder.  *)
(* The provider never refuses a folder name that is taken: it makes        *)
(* "name (1)".  The store finds a path in its overlay or in _path_to_item, *)
(* which has no expiry, and otherwise in a listing of the parent.  Folders *)
(* get neither an entry nor a tombstone, and their deletes and moves are   *)
(* carried out before they are answered.  Their rows in the metadata cache *)
(* are left out: a stale one only turns a request away, or lets it go on   *)
(* to a lookup that does the same.                                         *)
(*                                                                         *)
(* Listings show what the provider holds when it is asked; the answer is   *)
(* put to use later.                                                       *)
(***************************************************************************)
EXTENDS Integers, FiniteSets

CONSTANTS
    Dirs,        \* the folder paths clients use
    FolderIds,   \* provider ids of folders ...
    FileIds,     \* ... and of files
    Clients,     \* concurrent WebDAV requests
    Kinds,       \* the kinds of requests clients issue
    Attempts,    \* requests create_folder sends before it looks for the folder
    MaxRequests, \* bound: requests issued in a behaviour
    MaxLost,     \* bound: creations whose answer is lost
    Restarts,    \* may the gateway restart? (counted as a request)
    None,        \* "no value"
    Unsure,      \* what nobody can promise (writes that overlapped)
    DupName      \* the provider's "name (1)"

ASSUME FoldersAssumption ==
    /\ Attempts \in Nat \ {0} /\ MaxRequests \in Nat /\ MaxLost \in Nat
    /\ Kinds \subseteq {"MKCOL", "DELETE", "MOVE", "PUT", "LIST", "LISTDIR"}
    /\ Restarts \in BOOLEAN
    /\ FolderIds \subseteq Nat /\ FolderIds # {} /\ FileIds \subseteq Nat
    /\ DupName \notin Dirs
    /\ {None, Unsure} \cap (Dirs \cup FolderIds \cup FileIds \cup Clients \cup Nat) = {}
    /\ None # Unsure /\ None # DupName

VARIABLES
    folder,  \* the provider's folders
    file,    \* the provider's files: their folder and their content
    known,   \* self._path_to_item of the folders
    child,   \* what the file name of each folder resolves to without a listing
    holder,  \* the owner of self._folder_locks[path]
    client,  \* the state of each client's request
    issued,  \* requests issued so far
    excused, \* folders made by attempts whose answer was lost, or while a MOVE
             \* or DELETE of their path went on
    promise, \* per folder, the content of its file as last acknowledged
    moved    \* folder paths that a MOVE has named

provider == <<folder, file, excused>>
vars == <<folder, file, known, child, holder, client, issued, excused, promise, moved>>

-----------------------------------------------------------------------------
Live(i) == folder[i].st = "live"
Named(d) == {i \in FolderIds : Live(i) /\ folder[i].name = d}
FilesIn(i) == {f \in FileIds : file[f].st = "live" /\ file[f].in = i}
Reachable(f) == file[f].st = "live" /\ Live(file[f].in)

NewRequest(k, d, e) ==
    [kind |-> k, pc |-> "idle", next |-> "idle", dir |-> d, to |-> e, item |-> None,
     media |-> None, snap |-> [i \in FolderIds |-> None], tries |-> 0, met |-> {}]
Idle == NewRequest("none", None, None)

Touches(r) == IF r.kind \in {"MKCOL", "DELETE", "MOVE", "PUT"} THEN {r.dir, r.to} \ {None}
              ELSE {}
Quiet(d) == \A c \in Clients : d \notin Touches(client[c])

\* The provider's ids are opaque and never used again: the next one is taken.
NextOf(ids, i) == i \in ids /\ \A j \in ids : i <= j
NextFolder(i) == NextOf({j \in FolderIds : folder[j].st = "free"}, i)
NextFile(f) == NextOf({g \in FileIds : file[g].st = "free"}, f)

\* The root folder starts with at most one folder, without a file.
Init ==
    \E seeded \in Dirs \cup {None} :
      /\ folder = [i \in FolderIds |->
            IF seeded # None /\ NextOf(FolderIds, i)
            THEN [st |-> "live", name |-> seeded]
            ELSE [st |-> "free", name |-> DupName]]
      /\ file = [f \in FileIds |-> [st |-> "free", in |-> CHOOSE i \in FolderIds : TRUE, v |-> 0]]
      /\ known = [d \in Dirs |-> None]
      /\ child = [d \in Dirs |-> None]
      /\ holder = [d \in Dirs |-> None]
      /\ client = [c \in Clients |-> Idle]
      /\ issued = 0 /\ excused = {}
      /\ promise = [d \in Dirs |-> None]
      /\ moved = {}

-----------------------------------------------------------------------------
(* Requests and lookups.                                                   *)

Become(c, r) == client' = [client EXCEPT ![c] = r]
At(c, pc) == client[c].pc = pc

\* _item_for_path of a folder: the item it remembers, or a listing.
Lookup(r, d, next) ==
    IF known[d] # None THEN [r EXCEPT !.pc = next, !.item = known[d]]
    ELSE [r EXCEPT !.pc = "listed", !.next = next,
                   !.snap = [i \in FolderIds |-> IF Live(i) THEN folder[i].name ELSE None]]

\* A request that meets another write of its folders remembers its kind, and
\* so does the other.
Arrives(c, r, r2) ==
    /\ client[c] = Idle /\ r.kind \in Kinds /\ issued < MaxRequests
    /\ issued' = issued + 1
    /\ LET others == {o \in Clients : Touches(client[o]) \cap Touches(r) # {}} IN
       client' = [o \in Clients |->
           IF o = c THEN [r2 EXCEPT !.met = {client[o2].kind : o2 \in others}]
           ELSE IF o \in others THEN [client[o] EXCEPT !.met = @ \cup {r.kind}]
           ELSE client[o]]
    /\ moved' = IF r.kind = "MOVE" THEN moved \cup {r.dir, r.to} ELSE moved
    /\ UNCHANGED <<provider, known, child, holder, promise>>

\* The path a request looks up next.
Sought(r) == IF r.next = "dest" THEN r.to ELSE r.dir

\* The listing arrives; all it shows is remembered, whatever was known.
Absorbed(snap) ==
    [d \in Dirs |-> IF \E i \in FolderIds : snap[i] = d
                    THEN CHOOSE i \in FolderIds : snap[i] = d ELSE known[d]]

Listed(c) ==
    LET r == client[c]  shown == {i \in FolderIds : r.snap[i] = Sought(r)} IN
    /\ At(c, "listed")
    /\ known' = Absorbed(r.snap)
    /\ Become(c, [r EXCEPT !.pc = r.next, !.next = "idle", !.snap = Idle.snap,
                           !.item = IF shown = {} THEN None ELSE CHOOSE i \in shown : TRUE])
    /\ UNCHANGED <<provider, child, holder, issued, promise, moved>>

\* The answer of a request that changed nothing (any more).
Answer(c) ==
    /\ Become(c, Idle)
    /\ UNCHANGED <<provider, known, child, holder, issued, promise, moved>>

\* What a write of r leaves at its path.
Acked(r, v) == IF r.met # {} THEN Unsure ELSE v

-----------------------------------------------------------------------------
(* MKCOL: the router's check, then create_folder under the path's lock.    *)

Mkcol(c, d) ==
    LET r == NewRequest("MKCOL", d, None) IN Arrives(c, r, Lookup(r, d, "check"))

MkcolExists(c) == At(c, "check") /\ client[c].item # None /\ Answer(c)

MkcolAbsent(c) ==
    /\ At(c, "check") /\ client[c].item = None
    /\ Become(c, [client[c] EXCEPT !.pc = "lock"])
    /\ UNCHANGED <<provider, known, child, holder, issued, promise, moved>>

\* Mutant: create_folder goes ahead without the lock.
LockWithout(c) ==
    LET r == client[c] IN
    /\ At(c, "lock")
    /\ IF known[r.dir] # None THEN Become(c, Idle) ELSE Become(c, [r EXCEPT !.pc = "create"])
    /\ UNCHANGED <<provider, known, child, holder, issued, promise, moved>>

\* Mutant: the check is not repeated under the lock.
LockUnchecked(c) ==
    LET r == client[c] IN
    /\ At(c, "lock") /\ holder[r.dir] = None
    /\ Become(c, [r EXCEPT !.pc = "create"]) /\ holder' = [holder EXCEPT ![r.dir] = c]
    /\ UNCHANGED <<provider, known, child, issued, promise, moved>>

\* The check is repeated under the lock, from memory alone.
Lock(c) ==
    LET r == client[c] IN
    /\ At(c, "lock") /\ holder[r.dir] = None
    /\ IF known[r.dir] # None
       THEN Become(c, Idle) /\ UNCHANGED holder
       ELSE Become(c, [r EXCEPT !.pc = "create"]) /\ holder' = [holder EXCEPT ![r.dir] = c]
    /\ UNCHANGED <<provider, known, child, issued, promise, moved>>

\* The provider makes a folder, under another name if this one is taken.
Makes(d, i) ==
    /\ NextFolder(i)
    /\ folder' = [folder EXCEPT ![i] =
           [st |-> "live", name |-> IF Named(d) = {} THEN d ELSE DupName]]

Created(c, i) ==
    LET r == client[c] IN
    /\ known' = [known EXCEPT ![r.dir] = i]
    /\ holder' = [holder EXCEPT ![r.dir] = None]
    /\ promise' = [promise EXCEPT ![r.dir] = Acked(r, None)]
    /\ Become(c, Idle)

CreateAnswered(c) ==
    /\ At(c, "create") /\ client[c].tries < Attempts
    /\ \E i \in FolderIds :
          /\ Makes(client[c].dir, i) /\ Created(c, i)
          /\ excused' = IF {"MOVE", "DELETE"} \cap client[c].met # {}
                        THEN excused \cup {i} ELSE excused
    /\ UNCHANGED <<file, child, issued, moved>>

\* Mutant: one attempt too many.
CreateFailsOnceMore(c) ==
    LET r == client[c] IN
    /\ At(c, "create") /\ r.tries <= Attempts
    /\ Become(c, [r EXCEPT !.tries = @ + 1])
    /\ UNCHANGED <<provider, known, child, holder, issued, promise, moved>>

\* An attempt fails, before or after the provider made the folder, and the
\* next form of the request is tried.
CreateFails(c) ==
    LET r == client[c] IN
    /\ At(c, "create") /\ r.tries < Attempts
    /\ \/ UNCHANGED <<folder, excused>>
       \/ /\ Cardinality(excused) < MaxLost
          /\ \E i \in FolderIds : Makes(r.dir, i) /\ excused' = excused \cup {i}
    /\ Become(c, [r EXCEPT !.tries = @ + 1])
    /\ UNCHANGED <<file, known, child, holder, issued, promise, moved>>

\* find_child, after the last attempt.
CreateFound(c) ==
    /\ At(c, "create") /\ client[c].tries = Attempts
    /\ \E i \in Named(client[c].dir) : Created(c, i)
    /\ UNCHANGED <<provider, child, issued, moved>>

\* Mutant: an error leaves the lock taken.
CreateGivesUpLocked(c) ==
    LET r == client[c] IN
    /\ At(c, "create") /\ r.tries = Attempts /\ Named(r.dir) = {}
    /\ Become(c, Idle)
    /\ UNCHANGED <<provider, known, child, holder, issued, promise, moved>>

CreateGivesUp(c) ==
    LET r == client[c] IN
    /\ At(c, "create") /\ r.tries = Attempts /\ Named(r.dir) = {}
    /\ holder' = [holder EXCEPT ![r.dir] = None]
    /\ Become(c, Idle)
    /\ UNCHANGED <<provider, known, child, issued, promise, moved>>

-----------------------------------------------------------------------------
(* DELETE, and MOVE with Overwrite: T.                                     *)

Delete(c, d) ==
    LET r == NewRequest("DELETE", d, None) IN Arrives(c, r, Lookup(r, d, "trash"))

\* get_metadata(dst) comes first, and its delete.
Move(c, d, e) ==
    LET r == NewRequest("MOVE", d, e) IN d # e /\ Arrives(c, r, Lookup(r, e, "dest"))

\* The folder goes with its files; what the store remembers of them stays.
Trash(c) ==
    LET r == client[c] IN
    /\ At(c, "trash") /\ r.item # None
    /\ folder' = [folder EXCEPT ![r.item].st = "trashed"]
    /\ known' = [known EXCEPT ![r.dir] = None]
    /\ promise' = [promise EXCEPT ![r.dir] = Acked(r, None)]
    /\ Become(c, Idle)
    /\ UNCHANGED <<file, excused, child, holder, issued, moved>>

\* The destination of a MOVE goes the same way, then its source is found.
TrashDest(c) ==
    LET r == client[c] IN
    /\ At(c, "dest") /\ r.item # None
    /\ folder' = [folder EXCEPT ![r.item].st = "trashed"]
    /\ known' = [known EXCEPT ![r.to] = None]
    /\ promise' = [promise EXCEPT ![r.to] = Acked(r, None)]
    /\ Become(c, Lookup(r, r.dir, "rename"))
    /\ UNCHANGED <<file, excused, child, holder, issued, moved>>

NoDest(c) ==
    LET r == client[c] IN
    /\ At(c, "dest") /\ r.item = None
    /\ Become(c, Lookup(r, r.dir, "rename"))
    /\ UNCHANGED <<provider, known, child, holder, issued, promise, moved>>

\* Nothing there: 404; or the provider refuses, a folder already trashed or
\* a name already taken.
Missing(c) ==
    LET r == client[c] IN
    /\ \/ r.pc \in {"trash", "rename"} /\ r.item = None
       \/ r.pc = "trash" /\ r.item # None /\ ~Live(r.item)
       \/ r.pc = "dest" /\ r.item # None /\ ~Live(r.item)
       \/ r.pc = "rename" /\ r.item # None /\ (~Live(r.item) \/ Named(r.to) # {})
    /\ Answer(c)

Renamed(r) == [known EXCEPT ![r.dir] = None, ![r.to] = r.item]

Rename(c) ==
    LET r == client[c] IN
    /\ At(c, "rename") /\ r.item # None /\ Live(r.item) /\ Named(r.to) = {}
    /\ folder' = [folder EXCEPT ![r.item].name = r.to]
    /\ known' = Renamed(r)
    /\ promise' = [promise EXCEPT ![r.dir] = Acked(r, None), ![r.to] = Acked(r, promise[r.dir])]
    /\ Become(c, Idle)
    /\ UNCHANGED <<file, excused, child, holder, issued, moved>>

-----------------------------------------------------------------------------
(* PUT of the folder's file: the router's check of the parent, then, once  *)
(* the body is read, the upload.                                           *)

Put(c, d) ==
    LET r == NewRequest("PUT", d, None) IN Arrives(c, r, Lookup(r, d, "body"))

PutBody(c) ==
    LET r == client[c] IN
    /\ At(c, "body") /\ r.item # None
    /\ Become(c, Lookup(r, r.dir, "target"))
    /\ UNCHANGED <<provider, known, child, holder, issued, promise, moved>>

\* 409, or 404 when the folder has gone since.
PutNowhere(c) ==
    /\ client[c].pc \in {"body", "target"} /\ client[c].item = None
    /\ Answer(c)

\* _remote_target_id: the media remembered for the path, or one listed.
PutTarget(c) ==
    LET r == client[c] IN
    /\ At(c, "target") /\ r.item # None
    /\ LET listed == FilesIn(r.item) IN
       IF child[r.dir] # None
       THEN Become(c, [r EXCEPT !.pc = "upload", !.media = child[r.dir]]) /\ UNCHANGED child
       ELSE \E f \in IF Live(r.item) /\ listed # {} THEN listed ELSE {None} :
              /\ Become(c, [r EXCEPT !.pc = "upload", !.media = f])
              /\ child' = [child EXCEPT ![r.dir] = f]
    /\ UNCHANGED <<provider, known, holder, issued, promise, moved>>

\* The upload goes to the media named, or to a new one in the folder; its
\* content is unlike any other.
Upload(c) ==
    LET r == client[c] IN
    /\ At(c, "upload") /\ Live(r.item)
    /\ \E f \in FileIds :
          /\ IF r.media = None THEN NextFile(f) ELSE f = r.media /\ Reachable(f)
          /\ \E in \in IF r.media = None THEN {r.item} ELSE {r.item, file[f].in} :
                file' = [file EXCEPT ![f] = [st |-> "live", in |-> in, v |-> issued]]
          /\ child' = [child EXCEPT ![r.dir] = f]
    /\ promise' = [promise EXCEPT ![r.dir] = Acked(r, issued)]
    /\ Become(c, Idle)
    /\ UNCHANGED <<folder, excused, known, holder, issued, moved>>

\* The folder or the media is in the trash.
UploadRefused(c) ==
    LET r == client[c] IN
    /\ At(c, "upload")
    /\ ~Live(r.item) \/ (r.media # None /\ ~Reachable(r.media))
    /\ Answer(c)

-----------------------------------------------------------------------------
(* LIST of the root, whose answer Listed puts to use, and of a folder.     *)

List(c) ==
    LET r == NewRequest("LIST", None, None) IN
    Arrives(c, r, [r EXCEPT !.pc = "listed", !.next = "shown",
                     !.snap = [i \in FolderIds |-> IF Live(i) THEN folder[i].name ELSE None]])

ListDir(c, d) ==
    LET r == NewRequest("LISTDIR", d, None) IN Arrives(c, r, Lookup(r, d, "files"))

Shown(c) == client[c].pc = "shown" /\ Answer(c)

FilesListed(c) ==
    LET r == client[c] IN
    /\ At(c, "files")
    /\ IF r.item # None /\ Live(r.item) /\ FilesIn(r.item) # {}
       THEN \E f \in FilesIn(r.item) : child' = [child EXCEPT ![r.dir] = f]
       ELSE UNCHANGED child
    /\ Become(c, Idle)
    /\ UNCHANGED <<provider, known, holder, issued, promise, moved>>

-----------------------------------------------------------------------------
\* The entry of a recent upload expires, and what is known of its path goes
\* with it.  (What a listing showed is kept for good; to forget that as well
\* only adds behaviours.)
Forget(d) ==
    /\ child[d] # None
    /\ child' = [child EXCEPT ![d] = None]
    /\ UNCHANGED <<provider, known, holder, client, issued, promise, moved>>

\* All of this lives in memory; requests in flight are cut.
Restart ==
    /\ Restarts /\ issued < MaxRequests
    /\ known' = [d \in Dirs |-> None] /\ child' = [d \in Dirs |-> None]
    /\ holder' = [d \in Dirs |-> None]
    /\ client' = [c \in Clients |-> Idle]
    /\ issued' = issued + 1
    /\ promise' = [d \in Dirs |-> IF Quiet(d) THEN promise[d] ELSE Unsure]
    /\ UNCHANGED <<provider, moved>>

NewRequests(c) ==
    \/ \E d \in Dirs : Mkcol(c, d) \/ Delete(c, d) \/ Put(c, d) \/ ListDir(c, d)
    \/ \E d, e \in Dirs : Move(c, d, e)
    \/ List(c)

Continue(c) ==
    \/ Listed(c) \/ MkcolExists(c) \/ MkcolAbsent(c) \/ Lock(c)
    \/ CreateAnswered(c) \/ CreateFails(c) \/ CreateFound(c) \/ CreateGivesUp(c)
    \/ Trash(c) \/ TrashDest(c) \/ NoDest(c) \/ Missing(c) \/ Rename(c)
    \/ PutBody(c) \/ PutNowhere(c) \/ PutTarget(c) \/ Upload(c) \/ UploadRefused(c)
    \/ Shown(c) \/ FilesListed(c)

Next == \/ \E c \in Clients : NewRequests(c) \/ Continue(c)
        \/ \E d \in Dirs : Forget(d)
        \/ Restart

Spec == Init /\ [][Next]_vars

\* The loop runs what is ready, the provider answers or the call times out,
\* and asyncio.Lock is first come, first served.
FairSpec == Spec /\ \A c \in Clients : WF_vars(Continue(c)) /\ SF_vars(Lock(c))

-----------------------------------------------------------------------------
Request ==
    [kind : {"none", "MKCOL", "DELETE", "MOVE", "PUT", "LIST", "LISTDIR"},
     pc : {"idle", "listed", "check", "lock", "create", "trash", "dest", "rename",
           "body", "target", "upload", "shown", "files"},
     next : {"idle", "check", "trash", "dest", "rename", "body", "target", "shown", "files"},
     dir : Dirs \cup {None}, to : Dirs \cup {None}, item : FolderIds \cup {None},
     media : FileIds \cup {None}, snap : [FolderIds -> Dirs \cup {DupName, None}],
     tries : 0..Attempts, met : SUBSET {"MKCOL", "DELETE", "MOVE", "PUT"}]

TypeOK ==
    /\ folder \in [FolderIds -> [st : {"free", "live", "trashed"}, name : Dirs \cup {DupName}]]
    /\ file \in [FileIds -> [st : {"free", "live"}, in : FolderIds, v : 0..MaxRequests]]
    /\ known \in [Dirs -> FolderIds \cup {None}]
    /\ child \in [Dirs -> FileIds \cup {None}]
    /\ holder \in [Dirs -> Clients \cup {None}]
    /\ client \in [Clients -> Request]
    /\ issued \in 0..MaxRequests /\ excused \subseteq FolderIds
    /\ promise \in [Dirs -> 0..MaxRequests \cup {None, Unsure}]
    /\ moved \subseteq Dirs

\* Concurrent MKCOLs of a path make one folder: the provider has a "name (1)"
\* only where the answer of a creation was lost and the creation repeated, or
\* where, while the creation was under way, a MOVE gave the name to another
\* folder, or a DELETE that came late forgot the one just made.
OneFolderPerPath ==
    Cardinality({i \in FolderIds : Live(i) /\ folder[i].name = DupName})
        <= Cardinality(excused)

\* Who creates a folder holds its lock, alone, and nobody else holds it.
LockIsHeld ==
    /\ \A c \in Clients : client[c].pc = "create" => holder[client[c].dir] = c
    /\ \A d \in Dirs : holder[d] # None =>
          client[holder[d]].pc = "create" /\ client[holder[d]].dir = d

\* The content last acknowledged for the file of a folder is there, in a live
\* folder of that name, until the next write of that folder.  The folder may
\* be a "name (1)" where the answer of a creation was lost, and no MOVE may
\* have named it (see FileSurvivesMoves).
Kept(d) == \E f \in FileIds :
    /\ Reachable(f) /\ file[f].v = promise[d]
    /\ folder[file[f].in].name # d => folder[file[f].in].name = DupName /\ excused # {}
AckedFileSurvives ==
    \A d \in Dirs \ moved : Quiet(d) /\ promise[d] \in 1..MaxRequests => Kept(d)

\* The same of every folder: a write through one path never reaches a file
\* that a MOVE has put under another.
FileSurvivesMoves ==
    \A d \in Dirs : Quiet(d) /\ promise[d] \in 1..MaxRequests => Kept(d)

\* Every request is answered: no lock is left behind by one that failed.
EveryRequestEnds == \A c \in Clients : client[c] # Idle ~> client[c] = Idle

=============================================================================
