---------------------------- MODULE LocalCopies ----------------------------
(***************************************************************************)
(* The local copies of recent uploads that O2CloudFileStore (o2/store.py)  *)
(* keeps in CACHE_DIR/recent-uploads.                                      *)
(*                                                                         *)
(* An overlay entry of an upload may own a copy.  A copy whose file cannot *)
(* be deleted is "stranded": it is still counted against the budget        *)
(* CACHE_MAX_SIZE_MB and retried on the next upload.  A new copy is made   *)
(* only within the budget, after evicting the oldest ones.                 *)
(*                                                                         *)
(* Everything here runs between two awaits, so an action is one handler,   *)
(* or the part of one between two of them: a delete awaits between leaving *)
(* its entry and storing its tombstone, a move between looking at its      *)
(* destination and taking it.  What happens at the provider is left out    *)
(* (module Overlay models it).                                             *)
(***************************************************************************)
EXTENDS Integers, FiniteSets, FiniteSetsExt

CONSTANTS
    Paths,       \* the files of the gateway
    Files,       \* names in the spool directory (each upload has its own uuid)
    Sizes,       \* sizes of uploads
    Limit,       \* CACHE_MAX_SIZE_MB: 0 disables the cap
    MaxFile,     \* UPLOAD_RECENT_CACHE_MAX_FILE_MB
    MaxUploads,  \* bound: uploads in a behaviour
    MaxStuck,    \* bound: files that cannot be deleted at the same time
    MaxInFlight, \* bound: deletes and moves in flight at the same time
    SharedWrites,\* may two requests write one path at the same time?
    None

ASSUME SizesAssumption ==
    /\ Sizes \subseteq Nat \ {0} /\ Limit \in Nat /\ MaxFile \in Nat
    /\ MaxUploads \in Nat /\ MaxStuck \in Nat /\ MaxInFlight \in Nat
    /\ SharedWrites \in BOOLEAN
    /\ None \notin Files /\ None \notin Nat

Entry == [st : {"uploaded", "pending_delete"}, copy : Files \cup {None},
          size : Nat, exp : Nat]
Move == [src : Paths, dst : Paths, pc : {"stat", "delete"}]

ASSUME NoEntry == None \notin Entry

VARIABLES
    overlay,   \* self._overlay
    stranded,  \* self._stranded_copies: the size each is counted with
    disk,      \* the spool directory: the size of each file there
    stuck,     \* files the operating system refuses to delete at present
    deleting,  \* paths a DELETE is about to cover with a tombstone
    moving,    \* MOVEs between two looks at the overlay
    uploads,   \* uploads so far: entries expire in this order
    past       \* entries up to this upload have outlived their TTL

vars == <<overlay, stranded, disk, stuck, deleting, moving, uploads, past>>

-----------------------------------------------------------------------------
Uploaded(p) == overlay[p] # None /\ overlay[p].st = "uploaded"
Tombstone(p) == overlay[p] # None /\ overlay[p].st = "pending_delete"
HasCopy(p) == Uploaded(p) /\ overlay[p].copy # None
Expired(p) == Uploaded(p) /\ overlay[p].exp <= past

OnDisk == {f \in Files : disk[f] # None}
Stranded == {f \in Files : stranded[f] # None}
Tracked == {overlay[p].copy : p \in {q \in Paths : HasCopy(q)}}

\* The paths requests in flight write.
Written == deleting \cup {m.src : m \in moving} \cup {m.dst : m \in moving}
MayWrite(P) == SharedWrites \/ P \cap Written = {}

\* A delete or a move of some paths begins.
MayBegin(P) == /\ MayWrite(P)
               /\ Cardinality(deleting) + Cardinality(moving) < MaxInFlight

\* _delete_local_copy of some files: those that are stuck stay on disk.
Unlinked(d, F) == [f \in Files |-> IF f \in F \ stuck THEN None ELSE d[f]]

-----------------------------------------------------------------------------
(* _drop_entry, of several paths: a copy that stays is stranded.           *)

CopiesOf(P) == {overlay[p].copy : p \in {q \in P : HasCopy(q)}}

Without(P) == [p \in Paths |-> IF p \in P THEN None ELSE overlay[p]]

\* Mutant: a copy that could not be deleted is forgotten.
StrandsNothing(P) == stranded

Strands(P) ==
    [f \in Files |->
        IF f \in CopiesOf(P) \cap stuck
        THEN overlay[CHOOSE p \in P : HasCopy(p) /\ overlay[p].copy = f].size
        ELSE stranded[f]]

Drop(P) ==
    /\ overlay' = Without(P)
    /\ stranded' = Strands(P)
    /\ disk' = Unlinked(disk, CopiesOf(P))

-----------------------------------------------------------------------------
Init ==
    /\ overlay = [p \in Paths |-> None]
    /\ stranded = [f \in Files |-> None]
    /\ disk = [f \in Files |-> None]
    /\ stuck = {}
    /\ deleting = {} /\ moving = {}
    /\ uploads = 0 /\ past = 0

-----------------------------------------------------------------------------
(* _store_uploaded, once the provider accepted the upload                  *)

\* The old entry, the expired ones and the stranded copies go first.
Swept(p) == {p} \cup {q \in Paths : Expired(q)}

\* _sweep_expired_entries retries the stranded copies.
StrandedLeft(p) ==
    [f \in Files |-> IF f \in stuck THEN Strands(Swept(p))[f] ELSE None]

\* The paths that still have a copy after the sweep.
Candidates(p) == {q \in Paths \ Swept(p) : HasCopy(q)}

\* _local_copies_size, after the sweep
CountedFor(p) ==
    MapThenSumSet(LAMBDA q : overlay[q].size, Candidates(p))
    + MapThenSumSet(LAMBDA f : StrandedLeft(p)[f],
                    {f \in Files : StrandedLeft(p)[f] # None})

\* What _reserve_local_copy evicts before q: the older copies it can delete.
Before(p, q) == {o \in Candidates(p) : /\ overlay[o].exp < overlay[q].exp
                                       /\ overlay[o].copy \notin stuck}

SizeOfAll(Q) == MapThenSumSet(LAMBDA q : overlay[q].size, Q)

Fits(p, size, gone) == CountedFor(p) - SizeOfAll(gone) + size <= Limit

\* Mutant: eviction goes on from the newest copy.
EvictedNewestFirst(p, size) ==
    IF Limit = 0 \/ size > Limit THEN {}
    ELSE {q \in Candidates(p) :
            /\ overlay[q].copy \notin stuck
            /\ ~Fits(p, size, {o \in Candidates(p) : /\ overlay[o].exp > overlay[q].exp
                                                      /\ overlay[o].copy \notin stuck})}

\* _reserve_local_copy evicts the oldest copies until the new one fits.
Evicted(p, size) ==
    IF Limit = 0 \/ size > Limit THEN {}
    ELSE {q \in Candidates(p) : /\ overlay[q].copy \notin stuck
                                /\ ~Fits(p, size, Before(p, q))}

\* Mutant: stranded copies are not counted.
AdmitsUncounted(p, size) ==
    /\ size <= MaxFile
    /\ Limit = 0 \/ SizeOfAll(Candidates(p) \ Evicted(p, size)) + size <= Limit

Admits(p, size) ==
    /\ size <= MaxFile
    /\ Limit > 0 => size <= Limit /\ Fits(p, size, Evicted(p, size))

\* The entry of the upload, with a copy or without; the evicted entries stay,
\* served by the provider.
StoreEntry(p, size, copy) ==
    LET evicted == IF size <= MaxFile THEN Evicted(p, size) ELSE {} IN
    /\ overlay' = [q \in Paths |->
           IF q = p THEN [st |-> "uploaded", copy |-> copy, size |-> size,
                          exp |-> uploads + 1]
           ELSE IF q \in evicted THEN [overlay[q] EXCEPT !.copy = None]
           ELSE Without(Swept(p))[q]]
    /\ uploads' = uploads + 1
    /\ UNCHANGED <<stuck, deleting, moving, past>>

\* The spool directory after the sweep and the eviction.
DiskLeft(p, size) ==
    Unlinked(disk, CopiesOf(Swept(p)) \cup Stranded
                   \cup (IF size <= MaxFile THEN CopiesOf(Evicted(p, size)) ELSE {}))

Arrives(p) == uploads < MaxUploads /\ MayWrite({p})

UploadWithoutCopy(p, size) ==
    /\ Arrives(p) /\ ~Admits(p, size)
    /\ StoreEntry(p, size, None)
    /\ disk' = DiskLeft(p, size) /\ stranded' = StrandedLeft(p)

UploadWithCopy(p, size, f) ==
    /\ Arrives(p) /\ Admits(p, size) /\ disk[f] = None
    /\ StoreEntry(p, size, f)
    /\ disk' = [DiskLeft(p, size) EXCEPT ![f] = size]
    /\ stranded' = StrandedLeft(p)

\* The copy fails half way (ENOSPC): its partial file goes, or is stranded
\* with its size, or with the upload's when that cannot be told.
UploadCopyFails(p, size, f, partial, counted) ==
    /\ Arrives(p) /\ Admits(p, size) /\ disk[f] = None
    /\ partial <= size /\ counted \in {partial, size}
    /\ StoreEntry(p, size, None)
    /\ disk' = [DiskLeft(p, size) EXCEPT ![f] = IF f \in stuck THEN partial ELSE None]
    /\ stranded' = [StrandedLeft(p) EXCEPT ![f] = IF f \in stuck THEN counted ELSE None]

-----------------------------------------------------------------------------
(* delete                                                                  *)

\* A recent upload is dropped, anything else is looked up: both wait before
\* the tombstone is stored.  A second delete of a tombstone ends at once.
DeleteBegin(p) ==
    /\ MayBegin({p}) /\ p \notin deleting
    /\ ~Tombstone(p) /\ ~Expired(p)
    /\ Drop({p})
    /\ deleting' = deleting \cup {p}
    /\ UNCHANGED <<stuck, moving, uploads, past>>

\* Mutant: the tombstone of an item without a size.
CoveredUnsized(p) == [st |-> "pending_delete", copy |-> None, size |-> None, exp |-> 0]

\* _store_tombstone replaces what is there by then.
Covered(p) == [st |-> "pending_delete", copy |-> None, size |-> 0, exp |-> 0]

StoreTombstone(p) == overlay' = [overlay EXCEPT ![p] = Covered(p)]

DeleteEnd(p) ==
    /\ p \in deleting
    /\ deleting' = deleting \ {p}
    /\ StoreTombstone(p)
    /\ UNCHANGED <<stranded, disk, stuck, moving, uploads, past>>

\* The lookup found nothing to delete.
DeleteMissing(p) ==
    /\ p \in deleting
    /\ deleting' = deleting \ {p}
    /\ UNCHANGED <<overlay, stranded, disk, stuck, moving, uploads, past>>

-----------------------------------------------------------------------------
(* move, with Overwrite: T                                                 *)

\* Mutant: the source keeps its entry.
MovedKeepsSource(o, p, q) == [o EXCEPT ![q] = o[p]]

\* _move_entry: the entry takes its copy to the new path, over whatever is
\* there.
Moved(o, p, q) == [o EXCEPT ![p] = None, ![q] = o[p]]

\* The rest of move once its destination is dealt with: an entry moves, any
\* other file is renamed at the provider without touching the overlay.
TakeOver(o, p, q) ==
    IF o[p] # None /\ o[p].st = "uploaded" THEN Moved(o, p, q) ELSE o

MoveBegin(p, q) ==
    LET m == [src |-> p, dst |-> q, pc |-> "stat"] IN
    /\ p # q /\ MayBegin({p, q}) /\ m \notin moving
    /\ overlay[q] = None
    /\ moving' = moving \cup {m}
    /\ UNCHANGED <<overlay, stranded, disk, stuck, deleting, uploads, past>>

\* Over a tombstone the move ends without waiting.
MoveOver(p, q) ==
    /\ p # q /\ MayBegin({p, q})
    /\ Tombstone(q) /\ ~Expired(p)
    /\ overlay' = TakeOver(overlay, p, q)
    /\ UNCHANGED <<stranded, disk, stuck, deleting, moving, uploads, past>>

\* The destination is a recent upload, or was found: its delete begins.
MoveReplaces(p, q) ==
    LET m == [src |-> p, dst |-> q, pc |-> "stat"] IN
    /\ p # q /\ ~Tombstone(q) /\ ~Expired(q)
    /\ m \in moving \/ (Uploaded(q) /\ MayBegin({p, q}))
    /\ [m EXCEPT !.pc = "delete"] \notin moving
    /\ Drop({q})
    /\ moving' = (moving \ {m}) \cup {[m EXCEPT !.pc = "delete"]}
    /\ UNCHANGED <<stuck, deleting, uploads, past>>

\* There was no destination: the source takes the path as it is now.
MoveEnd(m) ==
    /\ m \in moving /\ m.pc = "stat" /\ ~Expired(m.src)
    /\ moving' = moving \ {m}
    /\ overlay' = TakeOver(overlay, m.src, m.dst)
    /\ UNCHANGED <<stranded, disk, stuck, deleting, uploads, past>>

\* The destination gets its tombstone and the move goes on at once.
MoveReplaced(m) ==
    /\ m \in moving /\ m.pc = "delete" /\ ~Expired(m.src)
    /\ moving' = moving \ {m}
    /\ overlay' = TakeOver([overlay EXCEPT ![m.dst] = Covered(m.dst)], m.src, m.dst)
    /\ UNCHANGED <<stranded, disk, stuck, deleting, uploads, past>>

\* An error ends a move while it waits: no destination to delete, no source.
MoveFails(m) ==
    /\ m \in moving
    /\ moving' = moving \ {m}
    /\ UNCHANGED <<overlay, stranded, disk, stuck, deleting, uploads, past>>

-----------------------------------------------------------------------------
(* What drops entries without a write of their path.                       *)

\* list has caught up with the upload, or a tombstone is settled or expired.
CatchUp(p) ==
    /\ overlay[p] # None
    /\ Drop({p})
    /\ UNCHANGED <<stuck, deleting, moving, uploads, past>>

\* _entry drops an expired entry when it is next looked at.
Look(p) ==
    /\ Expired(p)
    /\ Drop({p})
    /\ UNCHANGED <<stuck, deleting, moving, uploads, past>>

TimePasses ==
    /\ past < uploads
    /\ past' = past + 1
    /\ UNCHANGED <<overlay, stranded, disk, stuck, deleting, moving, uploads>>

\* The operating system refuses to delete a file, or gives in.
Sticks(f) ==
    /\ \/ stuck' = stuck \ {f} /\ f \in stuck
       \/ stuck' = stuck \cup {f} /\ f \notin stuck /\ Cardinality(stuck) < MaxStuck
    /\ UNCHANGED <<overlay, stranded, disk, deleting, moving, uploads, past>>

\* A restart: _purge_orphaned_local_copies deletes what the last process left
\* behind; what it cannot delete is stranded with its size, or, when that
\* cannot be told, with the whole budget.
Restart ==
    /\ overlay' = [p \in Paths |-> None]
    /\ disk' = Unlinked(disk, OnDisk)
    /\ \E unknown \in SUBSET (OnDisk \cap stuck) :
          stranded' = [f \in Files |->
              IF f \notin OnDisk \cap stuck THEN None
              ELSE IF f \in unknown THEN Limit ELSE disk[f]]
    /\ deleting' = {} /\ moving' = {}
    /\ UNCHANGED <<stuck, uploads, past>>

-----------------------------------------------------------------------------
Upload(p, size) ==
    \/ UploadWithoutCopy(p, size)
    \/ \E f \in Files :
          \/ UploadWithCopy(p, size, f)
          \/ \E partial, counted \in 0..size : UploadCopyFails(p, size, f, partial, counted)

Next ==
    \/ \E p \in Paths, size \in Sizes : Upload(p, size)
    \/ \E p \in Paths : \/ DeleteBegin(p) \/ DeleteEnd(p) \/ DeleteMissing(p)
                        \/ CatchUp(p) \/ Look(p)
    \/ \E p, q \in Paths : MoveBegin(p, q) \/ MoveOver(p, q) \/ MoveReplaces(p, q)
    \/ \E m \in moving : MoveEnd(m) \/ MoveReplaced(m) \/ MoveFails(m)
    \/ TimePasses \/ Restart
    \/ \E f \in Files : Sticks(f)

Spec == Init /\ [][Next]_vars

-----------------------------------------------------------------------------
TypeOK ==
    /\ overlay \in [Paths -> Entry \cup {None}]
    /\ stranded \in [Files -> Nat \cup {None}]
    /\ disk \in [Files -> Nat \cup {None}]
    /\ stuck \subseteq Files
    /\ deleting \subseteq Paths /\ moving \subseteq Move
    /\ uploads \in Nat /\ past \in Nat

\* Every copy an entry names is there, whole and no other entry's: a GET of
\* the path streams the right file (open_read), and dropping one entry does
\* not take the file of another.
CopiesAreServable ==
    \A p \in Paths : HasCopy(p) =>
        /\ disk[overlay[p].copy] = overlay[p].size
        /\ \A q \in Paths \ {p} : HasCopy(q) => overlay[q].copy # overlay[p].copy

\* Every file in the spool directory is some entry's copy or stranded:
\* nothing is left that nobody will delete.
NothingUntracked == OnDisk \subseteq Tracked \cup Stranded

\* The spool directory never outgrows CACHE_MAX_SIZE_MB, failed deletions,
\* failed copies and restarts included.
UsageWithinLimit ==
    Limit > 0 => MapThenSumSet(LAMBDA f : disk[f], OnDisk) <= Limit

\* An upload that takes the copy of a living entry away leaves no older copy
\* it could have taken instead.
OldestFirst ==
    [][\A p, q \in Paths :
           /\ uploads' > uploads
           /\ HasCopy(p) /\ Uploaded(p)' /\ ~HasCopy(p)'
           /\ overlay'[p].exp = overlay[p].exp
           /\ HasCopy(q)' /\ overlay'[q] = overlay[q] /\ overlay[q].exp < overlay[p].exp
           => overlay[q].copy \in stuck]_vars

=============================================================================
