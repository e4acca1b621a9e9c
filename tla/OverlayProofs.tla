--------------------------- MODULE OverlayProofs ---------------------------
(***************************************************************************)
(* Proofs about the overlay, for any paths, contents, ids and clients:     *)
(* types and deletes first, under every request; then what the overlay     *)
(* does to the account's media, as long as nothing moves: tombstones hide  *)
(* what they cover, acknowledged uploads stay stored, the overlay          *)
(* implements CloudFiles, and, one request at a time, what is answered at  *)
(* a path is what was last written or deleted there.                       *)
(***************************************************************************)
EXTENDS OverlayRefinement, TLAPS

(***************************************************************************)
(* TypeOK is not inductive: a scheduled task is well typed only because    *)
(* the request that schedules it knows a path and an item.  GoodRequest    *)
(* says what each request knows at each point.                             *)
(***************************************************************************)
PutPoints == {"put_lookup", "upload", "publish"}
DeletePoints == {"delete", "del_lookup", "del_item", "tombstone", "schedule"}
MovePoints == {"source", "src_lookup", "rename", "moved_entry", "moved_item"}
StatPoints == {"stat", "stat_lookup", "answer", "absent"}
ListPoints == {"listing", "items", "putting"}
Points == StatPoints \cup PutPoints \cup DeletePoints \cup MovePoints
ItemPoints == {"publish", "tombstone", "schedule", "moved_entry", "moved_item"}

\* The requests that pass through a point.
Fits(kind, pc) ==
    /\ pc \in StatPoints => kind \in {"STAT", "MOVE"}
    /\ pc \in PutPoints => kind = "PUT"
    /\ pc \in DeletePoints => kind \in {"DELETE", "MOVE"}
    /\ pc \in MovePoints => kind = "MOVE"
    /\ pc \in ListPoints => kind = "LIST"

GoodRequest(r) ==
    /\ r \in Request
    /\ Fits(r.kind, r.pc)
    /\ r.kind = "PUT" => r.src \in Paths /\ r.content \in Contents
    /\ r.kind = "DELETE" => r.src \in Paths
    /\ r.kind = "STAT" => r.src \in Paths
    /\ r.kind = "MOVE" => r.src \in Paths /\ r.dst \in Paths
    /\ r.pc \in ItemPoints => r.item # None
    /\ r.pc = "putting" => r.src \in Paths
    /\ r.kind # "LIST" => r.todo = {}
    /\ \A i \in r.todo : r.snap[i] # None

StoreType ==
    /\ overlay \in [Paths -> Entry \cup {None}]
    /\ known \in [Paths -> Item \cup {None}]
    /\ hidden \subseteq Ids
    /\ cache \in [Paths -> Item \cup {None}]
    /\ tasks \subseteq Task

RequestType ==
    /\ client \in [Clients -> Request]
    /\ turn \in Clients \cup {None}
    /\ \A c \in Clients : GoodRequest(client[c])

RemoteType ==
    /\ remote \in [Ids -> [st : {"free", "live", "trashed"},
                           name : Paths \cup {DupName}, content : Contents]]
    /\ listed \in Listing
    /\ validating \subseteq Ids

GhostType ==
    /\ issued \in 0..MaxRequests
    /\ promise \in [Paths -> Contents \cup {None, Unsure}]
    /\ crossed \subseteq Paths

TypeInv == StoreType /\ RequestType /\ RemoteType /\ GhostType

LEMMA TypeInvTypeOK == TypeInv => TypeOK
  BY DEF TypeInv, TypeOK, StoreType, RequestType, RemoteType, GhostType

LEMMA NewRequestGood ==
  ASSUME NEW k \in {"none", "PUT", "DELETE", "MOVE", "LIST", "STAT"},
         NEW p \in Paths \cup {None}, NEW q \in Paths \cup {None},
         NEW d \in Contents \cup {None},
         k \in {"PUT", "DELETE", "STAT", "MOVE"} => p \in Paths,
         k = "MOVE" => q \in Paths,
         k = "PUT" => d \in Contents
  PROVE  /\ GoodRequest(NewRequest(k, p, q, d))
         /\ NewRequest(k, p, q, d) \in Request
         /\ NewRequest(k, p, q, d).kind = k
         /\ NewRequest(k, p, q, d).src = p
         /\ NewRequest(k, p, q, d).dst = q
         /\ NewRequest(k, p, q, d).content = d
         /\ NewRequest(k, p, q, d).item = None
         /\ NewRequest(k, p, q, d).todo = {}
<1>2. NoList \in Listing /\ NoKids \in [Paths -> Entry \cup {None}]
  BY DEF NoList, NoKids, Listing
<1>3. NewRequest(k, p, q, d) \in Request
  BY <1>2 DEF Request, NewRequest
<1>4. /\ NewRequest(k, p, q, d).kind = k
      /\ NewRequest(k, p, q, d).pc = "idle"
      /\ NewRequest(k, p, q, d).src = p
      /\ NewRequest(k, p, q, d).dst = q
      /\ NewRequest(k, p, q, d).content = d
      /\ NewRequest(k, p, q, d).item = None
      /\ NewRequest(k, p, q, d).todo = {}
  BY DEF NewRequest
<1>5. GoodRequest(NewRequest(k, p, q, d))
  BY <1>3, <1>4 DEF GoodRequest, Fits, StatPoints, PutPoints,
     DeletePoints, MovePoints, ListPoints, ItemPoints
<1> QED BY <1>3, <1>4, <1>5

LEMMA IdleGood == GoodRequest(Idle)
  BY NewRequestGood DEF Idle

\* One client's record changes, and stays good.
LEMMA BecomeGood ==
  ASSUME RequestType, NEW c \in Clients, NEW r, NEW k \in BOOLEAN,
         GoodRequest(r), Become(c, r, k)
  PROVE  RequestType'
  BY DEF RequestType, Become, GoodRequest


\* What a step to another point must establish.
LEMMA GotoGood ==
  ASSUME NEW r, GoodRequest(r),
         NEW pc \in Points,
         NEW item \in Item \cup {None},
         Fits(r.kind, pc),
         pc \in ItemPoints => item # None
  PROVE  GoodRequest(Goto(r, pc, item))
<1>1. NoList \in Listing
  BY DEF NoList, Listing
<1>2. Goto(r, pc, item) \in Request
  BY ZenonT(60), <1>1 DEF Goto, GoodRequest, Fits, Request, Points, StatPoints, PutPoints,
     DeletePoints, MovePoints
<1>3. /\ Goto(r, pc, item).kind = r.kind /\ Goto(r, pc, item).pc = pc
      /\ Goto(r, pc, item).src = r.src /\ Goto(r, pc, item).dst = r.dst
      /\ Goto(r, pc, item).content = r.content /\ Goto(r, pc, item).item = item
      /\ Goto(r, pc, item).todo = r.todo
  BY DEF Goto, GoodRequest, Fits, Request
<1> QED
  BY <1>2, <1>3 DEF GoodRequest, Fits, Points, StatPoints, PutPoints, DeletePoints, MovePoints

LEMMA AskGood ==
  ASSUME NEW r, GoodRequest(r), listed \in Listing,
         NEW pc \in {"stat_lookup", "put_lookup", "del_lookup", "src_lookup", "listing"},
         r.kind = "LIST" => r.todo = {},
         Fits(r.kind, pc)
  PROVE  GoodRequest([r EXCEPT !.pc = pc, !.snap = listed])
<1> DEFINE n == [r EXCEPT !.pc = pc, !.snap = listed]
<1>2. n \in Request
  BY DEF GoodRequest, Fits, Request
<1>3. /\ n.kind = r.kind /\ n.pc = pc /\ n.src = r.src /\ n.dst = r.dst
      /\ n.content = r.content /\ n.item = r.item
      /\ n.todo = r.todo
  BY DEF GoodRequest, Fits, Request
<1> QED
  BY <1>2, <1>3 DEF GoodRequest, Fits, ItemPoints

(***************************************************************************)
(* What a request knows, and the ways it changes.                          *)
(***************************************************************************)
LEMMA Facts ==
  ASSUME TypeInv, NEW c \in Clients
  PROVE  /\ GoodRequest(client[c])
         /\ client[c].src \in Paths \cup {None} /\ client[c].dst \in Paths \cup {None}
         /\ client[c].item \in Item \cup {None} /\ client[c].snap \in Listing
         /\ client[c].todo \subseteq Ids
         /\ client[c].kids \in [Paths -> Entry \cup {None}]
         /\ client[c].pc \in StatPoints =>
                client[c].kind \in {"STAT", "MOVE"} /\ StatPath(client[c]) \in Paths
         /\ client[c].pc \in PutPoints =>
                /\ client[c].kind = "PUT"
                /\ client[c].src \in Paths /\ client[c].content \in Contents
         /\ client[c].pc \in DeletePoints =>
                client[c].kind \in {"DELETE", "MOVE"} /\ DeletePath(client[c]) \in Paths
         /\ client[c].pc \in MovePoints =>
                /\ client[c].kind = "MOVE"
                /\ client[c].src \in Paths /\ client[c].dst \in Paths
         /\ client[c].pc \in ListPoints => client[c].kind = "LIST"
         /\ client[c].pc = "putting" => client[c].src \in Paths
         /\ \A i \in client[c].todo : client[c].snap[i] # None
         /\ client[c].pc \in ItemPoints => client[c].item \in Item
<1>1. GoodRequest(client[c])
  BY DEF TypeInv, RequestType
<1> QED BY <1>1 DEF GoodRequest, Fits, Request, DeletePath, StatPath

LEMMA GotoType ==
  ASSUME TypeInv, NEW c \in Clients, NEW r, GoodRequest(r),
         NEW pc \in Points, NEW item \in Item \cup {None}, NEW k \in BOOLEAN,
         Fits(r.kind, pc),
         pc \in ItemPoints => item # None,
         Become(c, Goto(r, pc, item), k)
  PROVE  RequestType'
<1>1. GoodRequest(Goto(r, pc, item))
  BY GotoGood
<1> QED BY <1>1, BecomeGood DEF TypeInv

LEMMA AskType ==
  ASSUME TypeInv, NEW c \in Clients, NEW r, GoodRequest(r),
         NEW pc \in {"stat_lookup", "put_lookup", "del_lookup", "src_lookup", "listing"},
         r.kind = "LIST" => r.todo = {},
         Fits(r.kind, pc),
         AskListing(c, r, pc)
  PROVE  RequestType'
<1>1. GoodRequest([r EXCEPT !.pc = pc, !.snap = listed])
  BY AskGood DEF TypeInv, RemoteType
<1> QED BY <1>1, BecomeGood DEF TypeInv, AskListing

LEMMA IdleType ==
  ASSUME TypeInv, NEW c \in Clients, Become(c, Idle, FALSE)
  PROVE  RequestType'
  BY IdleGood, BecomeGood DEF TypeInv

\* What the overlay and _path_to_item resolve to is an item.
LEMMA ResolutionType ==
  ASSUME TypeInv, NEW p \in Paths
  PROVE  Resolution(p) \in Item \cup {None}
  BY DEF TypeInv, StoreType, Resolution, Uploaded, Tombstone, EntryItem, Entry, Item

\* What a listing shows is an item, too.
LEMMA ListedItem ==
  ASSUME NEW snap \in Listing, NEW i \in Ids, snap[i] # None
  PROVE  ItemOf(snap, i) \in Item /\ snap[i].name \in Paths \cup {DupName}
  BY DEF Listing, Listed, ItemOf, Item

LEMMA AnsweredType ==
  ASSUME TypeInv, NEW c \in Clients, NEW p \in Paths, NEW k \in BOOLEAN,
         NEW pf \in Points \ ItemPoints, NEW pm \in Points \ ItemPoints,
         Fits(client[c].kind, pf), Fits(client[c].kind, pm),
         Answered(c, p, pf, pm, k)
  PROVE  RequestType' /\ known' \in [Paths -> Item \cup {None}]
<1> DEFINE r == client[c]
<1>1. GoodRequest(r) /\ r.snap \in Listing
  BY Facts
<1>2. PICK pick \in Picks(r.snap) :
        /\ Absorb(r.snap, pick)
        /\ Become(c, Goto(r, IF Found(r.snap, pick, p) = None THEN pm ELSE pf,
                             Found(r.snap, pick, p)), k)
  BY DEF Answered
<1>3. \A q \in Paths : pick[q] # None => ItemOf(r.snap, pick[q]) \in Item
  BY <1>1, ListedItem DEF Picks, ShownAt
<1>4. known' \in [Paths -> Item \cup {None}]
  BY <1>2, <1>3 DEF Absorb, TypeInv, StoreType
<1>5. Found(r.snap, pick, p) \in Item \cup {None}
  BY <1>3 DEF Found
<1>6. RequestType'
  BY <1>1, <1>2, <1>5, GotoType
<1> QED BY <1>4, <1>6

(***************************************************************************)
(* get_metadata                                                            *)
(***************************************************************************)
LEMMA StatMissType ==
  ASSUME TypeInv, NEW c \in Clients, StatMiss(c)
  PROVE  TypeInv'
<1>1. /\ GoodRequest(client[c]) /\ client[c].kind \in {"STAT", "MOVE"}
      /\ StatPath(client[c]) \in Paths
  BY Facts DEF StatMiss, At, StatPoints
<1>2. RequestType'
  BY <1>1, ResolutionType, GotoType, AskType DEF StatMiss, Fits, Points, StatPoints, PutPoints, DeletePoints,
      MovePoints, ListPoints, ItemPoints
<1> QED BY <1>2 DEF StatMiss, TypeInv, StoreType, RemoteType, GhostType, remoteVars

LEMMA StatListedType ==
  ASSUME TypeInv, NEW c \in Clients, StatListed(c)
  PROVE  TypeInv'
<1>1. client[c].kind \in {"STAT", "MOVE"} /\ StatPath(client[c]) \in Paths
  BY Facts DEF StatListed, At, StatPoints
<1>2. Answered(c, StatPath(client[c]), "answer", "absent", FALSE)
  BY DEF StatListed
<1>3. /\ "answer" \in Points \ ItemPoints /\ "absent" \in Points \ ItemPoints
      /\ Fits(client[c].kind, "answer") /\ Fits(client[c].kind, "absent")
  BY <1>1 DEF Fits, Points, StatPoints, PutPoints, DeletePoints,
      MovePoints, ListPoints, ItemPoints
<1>4. RequestType' /\ known' \in [Paths -> Item \cup {None}]
  BY <1>1, <1>2, <1>3, AnsweredType
<1> QED BY <1>4 DEF StatListed, TypeInv, StoreType, RemoteType, GhostType, remoteVars

LEMMA StatAnswerType ==
  ASSUME TypeInv, NEW c \in Clients, StatAnswer(c)
  PROVE  TypeInv'
<1>1. /\ GoodRequest(client[c]) /\ client[c].kind \in {"STAT", "MOVE"}
      /\ StatPath(client[c]) \in Paths
      /\ client[c].item \in Item \cup {None}
  BY Facts DEF StatAnswer, At, StatPoints
<1>2. RequestType'
  BY <1>1, GotoType, IdleType DEF StatAnswer, Fits, Points, StatPoints, PutPoints, DeletePoints,
      MovePoints, ListPoints, ItemPoints
<1>3. cache' \in [Paths -> Item \cup {None}]
  BY <1>1 DEF StatAnswer, TypeInv, StoreType, RemoteType, GhostType, remoteVars
<1> QED BY <1>2, <1>3 DEF StatAnswer, TypeInv, StoreType, RemoteType, GhostType, remoteVars

LEMMA StatAbsentType ==
  ASSUME TypeInv, NEW c \in Clients, StatAbsent(c)
  PROVE  TypeInv'
<1>1. /\ GoodRequest(client[c]) /\ client[c].kind \in {"STAT", "MOVE"}
      /\ StatPath(client[c]) \in Paths
  BY Facts DEF StatAbsent, At, StatPoints
<1>2. RequestType'
  BY <1>1, GotoType, IdleType DEF StatAbsent, Fits, Points, StatPoints, PutPoints, DeletePoints,
      MovePoints, ListPoints, ItemPoints
<1>3. cache' \in [Paths -> Item \cup {None}]
  BY <1>1 DEF StatAbsent, TypeInv, StoreType, RemoteType, GhostType, remoteVars
<1> QED BY <1>2, <1>3 DEF StatAbsent, TypeInv, StoreType, RemoteType, GhostType, remoteVars

(***************************************************************************)
(* upload                                                                  *)
(***************************************************************************)
LEMMA PutListedType ==
  ASSUME TypeInv, NEW c \in Clients, PutListed(c)
  PROVE  TypeInv'
<1>1. client[c].kind = "PUT" /\ client[c].src \in Paths
  BY Facts DEF PutListed, At, PutPoints
<1>2. Answered(c, client[c].src, "upload", "upload", FALSE)
  BY DEF PutListed
<1>3. /\ "upload" \in Points \ ItemPoints /\ "upload" \in Points \ ItemPoints
      /\ Fits(client[c].kind, "upload") /\ Fits(client[c].kind, "upload")
  BY <1>1 DEF Fits, Points, StatPoints, PutPoints, DeletePoints,
      MovePoints, ListPoints, ItemPoints
<1>4. RequestType' /\ known' \in [Paths -> Item \cup {None}]
  BY <1>1, <1>2, <1>3, AnsweredType
<1> QED BY <1>4 DEF PutListed, TypeInv, StoreType, RemoteType, GhostType, remoteVars

LEMMA StoreUploadedType ==
  ASSUME TypeInv, NEW c \in Clients, NEW i \in Ids, client[c].pc = "upload",
         StoreUploaded(c, i)
  PROVE  /\ RequestType' /\ overlay' \in [Paths -> Entry \cup {None}]
         /\ known' \in [Paths -> Item \cup {None}] /\ cache' \in [Paths -> Item \cup {None}]
<1> DEFINE item == [id |-> i, content |-> client[c].content]
<1>1. /\ GoodRequest(client[c]) /\ client[c].kind = "PUT"
      /\ client[c].src \in Paths /\ client[c].content \in Contents
  BY Facts DEF PutPoints
<1>2. item \in Item /\ item # None
  BY <1>1, NoneIsNoRecord DEF Item
<1>3. Become(c, Goto(client[c], "publish", item), FALSE)
  BY DEF StoreUploaded
<1>4. "publish" \in Points /\ Fits(client[c].kind, "publish")
  BY <1>1 DEF Fits, Points, StatPoints, PutPoints, DeletePoints,
      MovePoints, ListPoints, ItemPoints
<1>5. RequestType'
  BY <1>1, <1>2, <1>3, <1>4, GotoType
<1>6. /\ overlay' \in [Paths -> Entry \cup {None}]
      /\ known' \in [Paths -> Item \cup {None}] /\ cache' \in [Paths -> Item \cup {None}]
  BY <1>1, <1>2 DEF StoreUploaded, Entry, TypeInv, StoreType
<1> QED BY <1>5, <1>6

LEMMA UploadNewType ==
  ASSUME TypeInv, NEW c \in Clients, UploadNew(c)
  PROVE  TypeInv'
<1>1. client[c].src \in Paths /\ client[c].content \in Contents /\ client[c].pc = "upload"
  BY Facts DEF UploadNew, At, PutPoints
<1>2. PICK i \in Ids, name \in {DupName, client[c].src} :
        /\ remote' = [remote EXCEPT ![i] =
               [st |-> "live", name |-> name, content |-> client[c].content]]
        /\ validating' = validating \cup {i}
        /\ StoreUploaded(c, i)
  BY DEF UploadNew
<1>3. /\ remote' \in [Ids -> [st : {"free", "live", "trashed"},
                              name : Paths \cup {DupName}, content : Contents]]
      /\ validating' \subseteq Ids
  BY <1>1, <1>2 DEF TypeInv, RemoteType
<1> QED BY <1>1, <1>2, <1>3, StoreUploadedType DEF UploadNew, TypeInv, StoreType,
            RemoteType, GhostType

LEMMA UploadOverType ==
  ASSUME TypeInv, NEW c \in Clients, UploadOver(c)
  PROVE  TypeInv'
<1> DEFINE i == client[c].item.id
<1>1. /\ client[c].src \in Paths /\ client[c].content \in Contents
      /\ client[c].pc = "upload" /\ i \in Ids
  BY Facts DEF UploadOver, At, PutPoints, Item
<1>2. /\ remote' = [remote EXCEPT ![i] =
               [st |-> "live", name |-> client[c].src, content |-> client[c].content]]
      /\ validating' = validating \cup {i}
      /\ StoreUploaded(c, i)
  BY DEF UploadOver
<1>3. /\ remote' \in [Ids -> [st : {"free", "live", "trashed"},
                              name : Paths \cup {DupName}, content : Contents]]
      /\ validating' \subseteq Ids
  BY <1>1, <1>2 DEF TypeInv, RemoteType
<1>4. /\ RequestType' /\ overlay' \in [Paths -> Entry \cup {None}]
      /\ known' \in [Paths -> Item \cup {None}] /\ cache' \in [Paths -> Item \cup {None}]
  BY <1>1, <1>2, StoreUploadedType
<1> QED BY <1>3, <1>4 DEF UploadOver, TypeInv, StoreType, RemoteType, GhostType

LEMMA UploadRefusedType ==
  ASSUME TypeInv, NEW c \in Clients, UploadRefused(c)
  PROVE  TypeInv'
<1>1. /\ GoodRequest(client[c]) /\ client[c].kind = "PUT"
      /\ client[c].src \in Paths
  BY Facts DEF UploadRefused, At, PutPoints
<1>2. RequestType'
  BY <1>1, IdleType DEF UploadRefused, Fits, Points, StatPoints, PutPoints, DeletePoints,
      MovePoints, ListPoints, ItemPoints
<1> QED BY <1>2 DEF UploadRefused, TypeInv, StoreType, RemoteType, GhostType, remoteVars

LEMMA PublishType ==
  ASSUME TypeInv, NEW c \in Clients, Publish(c)
  PROVE  TypeInv'
<1>1. /\ GoodRequest(client[c]) /\ client[c].kind = "PUT"
      /\ client[c].src \in Paths
      /\ client[c].content \in Contents
      /\ client[c].item \in Item
  BY Facts DEF Publish, At, ItemPoints, PutPoints
<1>2. RequestType'
  BY <1>1, IdleType DEF Publish, Fits, Points, StatPoints, PutPoints, DeletePoints,
      MovePoints, ListPoints, ItemPoints
<1>3. /\ cache' \in [Paths -> Item \cup {None}]
      /\ promise' \in [Paths -> Contents \cup {None, Unsure}]
  BY <1>1 DEF Publish, TypeInv, StoreType, RemoteType, GhostType, remoteVars
<1> QED BY <1>2, <1>3 DEF Publish, TypeInv, StoreType, RemoteType, GhostType, remoteVars

(***************************************************************************)
(* delete                                                                  *)
(***************************************************************************)
LEMMA DeletedType ==
  ASSUME TypeInv, NEW c \in Clients, client[c].pc \in DeletePoints, Deleted(c)
  PROVE  RequestType' /\ promise' \in [Paths -> Contents \cup {None, Unsure}]
<1>1. GoodRequest(client[c]) /\ client[c].kind \in {"DELETE", "MOVE"}
  BY Facts
<1>2. RequestType'
  BY <1>1, GotoType, IdleType DEF Deleted, Fits, Points, StatPoints, PutPoints, DeletePoints,
      MovePoints, ListPoints, ItemPoints
<1>3. promise' \in [Paths -> Contents \cup {None, Unsure}]
  BY DEF Deleted, TypeInv, GhostType
<1> QED BY <1>2, <1>3

LEMMA DeleteAgainType ==
  ASSUME TypeInv, NEW c \in Clients, DeleteAgain(c)
  PROVE  TypeInv'
<1>1. RequestType' /\ promise' \in [Paths -> Contents \cup {None, Unsure}]
  BY DeletedType DEF DeleteAgain, At, DeletePoints
<1> QED BY <1>1 DEF DeleteAgain, TypeInv, StoreType, RemoteType, GhostType, remoteVars

LEMMA EntryItemType ==
  ASSUME TypeInv, NEW p \in Paths, overlay[p] # None
  PROVE  EntryItem(overlay[p]) \in Item /\ EntryItem(overlay[p]) # None
<1>1. EntryItem(overlay[p]) \in Item
  BY DEF TypeInv, StoreType, EntryItem, Entry, Item
<1> QED BY <1>1, NoneIsNoRecord

LEMMA DeleteRecentType ==
  ASSUME TypeInv, NEW c \in Clients, DeleteRecent(c)
  PROVE  TypeInv'
<1>1. /\ GoodRequest(client[c]) /\ client[c].kind \in {"DELETE", "MOVE"}
      /\ DeletePath(client[c]) \in Paths
  BY Facts DEF DeleteRecent, At, DeletePoints
<1>2. RequestType'
  BY <1>1, EntryItemType, GotoType DEF DeleteRecent, Uploaded, Fits, Points, StatPoints, PutPoints, DeletePoints,
      MovePoints, ListPoints, ItemPoints
<1>3. /\ overlay' \in [Paths -> Entry \cup {None}]
      /\ known' \in [Paths -> Item \cup {None}]
      /\ cache' \in [Paths -> Item \cup {None}]
  BY <1>1 DEF DeleteRecent, TypeInv, StoreType, RemoteType, GhostType, remoteVars
<1> QED BY <1>2, <1>3 DEF DeleteRecent, TypeInv, StoreType, RemoteType, GhostType, remoteVars

LEMMA DeleteLookupType ==
  ASSUME TypeInv, NEW c \in Clients, DeleteLookup(c)
  PROVE  TypeInv'
<1>1. /\ GoodRequest(client[c]) /\ client[c].kind \in {"DELETE", "MOVE"}
      /\ DeletePath(client[c]) \in Paths
      /\ known[DeletePath(client[c])] \in Item \cup {None}
  BY Facts DEF DeleteLookup, At, TypeInv, StoreType, DeletePoints
<1>2. RequestType'
  BY <1>1, GotoType, AskType DEF DeleteLookup, Fits, Points, StatPoints, PutPoints, DeletePoints,
      MovePoints, ListPoints, ItemPoints
<1> QED BY <1>2 DEF DeleteLookup, TypeInv, StoreType, RemoteType, GhostType, remoteVars

LEMMA DeleteListedType ==
  ASSUME TypeInv, NEW c \in Clients, DeleteListed(c)
  PROVE  TypeInv'
<1>1. client[c].kind \in {"DELETE", "MOVE"} /\ DeletePath(client[c]) \in Paths
  BY Facts DEF DeleteListed, At, DeletePoints
<1>2. Answered(c, DeletePath(client[c]), "del_item", "del_item", TRUE)
  BY DEF DeleteListed
<1>3. /\ "del_item" \in Points \ ItemPoints /\ "del_item" \in Points \ ItemPoints
      /\ Fits(client[c].kind, "del_item") /\ Fits(client[c].kind, "del_item")
  BY <1>1 DEF Fits, Points, StatPoints, PutPoints, DeletePoints,
      MovePoints, ListPoints, ItemPoints
<1>4. RequestType' /\ known' \in [Paths -> Item \cup {None}]
  BY <1>1, <1>2, <1>3, AnsweredType
<1> QED BY <1>4 DEF DeleteListed, TypeInv, StoreType, RemoteType, GhostType, remoteVars

LEMMA DeleteMissingType ==
  ASSUME TypeInv, NEW c \in Clients, DeleteMissing(c)
  PROVE  TypeInv'
<1>1. /\ GoodRequest(client[c]) /\ client[c].kind \in {"DELETE", "MOVE"}
      /\ DeletePath(client[c]) \in Paths
  BY Facts DEF DeleteMissing, At, DeletePoints
<1>2. RequestType'
  BY <1>1, IdleType DEF DeleteMissing, Fits, Points, StatPoints, PutPoints, DeletePoints,
      MovePoints, ListPoints, ItemPoints
<1> QED BY <1>2 DEF DeleteMissing, TypeInv, StoreType, RemoteType, GhostType, remoteVars

LEMMA StoreTombstoneType ==
  ASSUME TypeInv, NEW p \in Paths, NEW item \in Item, StoreTombstone(p, item)
  PROVE  /\ overlay' \in [Paths -> Entry \cup {None}]
         /\ known' \in [Paths -> Item \cup {None}] /\ hidden' \subseteq Ids
  BY DEF StoreTombstone, Entry, Item, TypeInv, StoreType

LEMMA DeleteItemType ==
  ASSUME TypeInv, NEW c \in Clients, DeleteItem(c)
  PROVE  TypeInv'
<1>1. /\ GoodRequest(client[c]) /\ client[c].kind \in {"DELETE", "MOVE"}
      /\ DeletePath(client[c]) \in Paths /\ client[c].item \in Item
      /\ client[c].item # None
  BY Facts DEF DeleteItem, At, DeletePoints
<1>2. RequestType'
  BY <1>1, GotoType DEF DeleteItem, Fits, Points, StatPoints, PutPoints, DeletePoints,
      MovePoints, ListPoints, ItemPoints
<1>3. /\ overlay' \in [Paths -> Entry \cup {None}]
      /\ known' \in [Paths -> Item \cup {None}] /\ hidden' \subseteq Ids
  BY <1>1, StoreTombstoneType DEF DeleteItem
<1>4. cache' \in [Paths -> Item \cup {None}]
  BY <1>1 DEF DeleteItem, TypeInv, StoreType
<1> QED BY <1>2, <1>3, <1>4 DEF DeleteItem, TypeInv, StoreType, RemoteType, GhostType, remoteVars

LEMMA ScheduledType ==
  ASSUME TypeInv, NEW c \in Clients,
         client[c].pc \in {"tombstone", "schedule"},
         tasks' = tasks \cup {Trash(client[c])}
  PROVE  tasks' \subseteq Task
<1>1. DeletePath(client[c]) \in Paths /\ client[c].item \in Item
  BY Facts DEF DeletePoints, ItemPoints
<1>2. Trash(client[c]) \in Task
  BY <1>1 DEF Trash, Task, Item
<1> QED BY <1>2 DEF TypeInv, StoreType

LEMMA DeleteTombstoneType ==
  ASSUME TypeInv, NEW c \in Clients, DeleteTombstone(c)
  PROVE  TypeInv'
<1>1. RequestType' /\ promise' \in [Paths -> Contents \cup {None, Unsure}]
  BY DeletedType DEF DeleteTombstone, At, DeletePoints
<1>2. DeletePath(client[c]) \in Paths /\ client[c].item \in Item
  BY Facts DEF DeleteTombstone, At, DeletePoints, ItemPoints
<1>3. /\ overlay' \in [Paths -> Entry \cup {None}]
      /\ known' \in [Paths -> Item \cup {None}] /\ hidden' \subseteq Ids
  BY <1>2, StoreTombstoneType DEF DeleteTombstone
<1>4. tasks' \subseteq Task
  BY ScheduledType DEF DeleteTombstone, At
<1> QED BY <1>1, <1>3, <1>4 DEF DeleteTombstone, TypeInv, StoreType, RemoteType, GhostType, remoteVars

LEMMA DeleteScheduleType ==
  ASSUME TypeInv, NEW c \in Clients, DeleteSchedule(c)
  PROVE  TypeInv'
<1>1. RequestType' /\ promise' \in [Paths -> Contents \cup {None, Unsure}]
  BY DeletedType DEF DeleteSchedule, At, DeletePoints
<1>2. tasks' \subseteq Task
  BY ScheduledType DEF DeleteSchedule, At
<1> QED BY <1>1, <1>2 DEF DeleteSchedule, TypeInv, StoreType, RemoteType, GhostType, remoteVars

(***************************************************************************)
(* move                                                                    *)
(***************************************************************************)
LEMMA MoveEntryType ==
  ASSUME TypeInv, NEW c \in Clients, MoveEntry(c)
  PROVE  TypeInv'
<1>1. /\ GoodRequest(client[c]) /\ client[c].kind = "MOVE"
      /\ client[c].src \in Paths /\ client[c].dst \in Paths
  BY Facts DEF MoveEntry, At, MovePoints
<1>2. /\ EntryItem(overlay[client[c].src]) \in Item
      /\ EntryItem(overlay[client[c].src]) # None
  BY <1>1, EntryItemType DEF MoveEntry, Uploaded
<1>3. RequestType'
  BY <1>1, <1>2, GotoType DEF MoveEntry, Fits, Points, StatPoints, PutPoints, DeletePoints,
      MovePoints, ListPoints, ItemPoints
<1>4. /\ overlay' \in [Paths -> Entry \cup {None}]
      /\ known' \in [Paths -> Item \cup {None}] /\ cache' \in [Paths -> Item \cup {None}]
  BY <1>1, <1>2 DEF MoveEntry, TypeInv, StoreType
<1> QED BY <1>3, <1>4 DEF MoveEntry, TypeInv, StoreType, RemoteType, GhostType, remoteVars

LEMMA MoveLookupType ==
  ASSUME TypeInv, NEW c \in Clients, MoveLookup(c)
  PROVE  TypeInv'
<1>1. /\ GoodRequest(client[c]) /\ client[c].kind = "MOVE"
      /\ client[c].src \in Paths
  BY Facts DEF MoveLookup, At, MovePoints
<1>2. RequestType'
  BY <1>1, ResolutionType, GotoType, AskType DEF MoveLookup, Fits, Points, StatPoints, PutPoints, DeletePoints,
      MovePoints, ListPoints, ItemPoints
<1> QED BY <1>2 DEF MoveLookup, TypeInv, StoreType, RemoteType, GhostType, remoteVars

LEMMA MoveListedType ==
  ASSUME TypeInv, NEW c \in Clients, MoveListed(c)
  PROVE  TypeInv'
<1>1. client[c].kind = "MOVE" /\ client[c].src \in Paths
  BY Facts DEF MoveListed, At, MovePoints
<1>2. Answered(c, client[c].src, "rename", "rename", FALSE)
  BY DEF MoveListed
<1>3. /\ "rename" \in Points \ ItemPoints /\ "rename" \in Points \ ItemPoints
      /\ Fits(client[c].kind, "rename") /\ Fits(client[c].kind, "rename")
  BY <1>1 DEF Fits, Points, StatPoints, PutPoints, DeletePoints,
      MovePoints, ListPoints, ItemPoints
<1>4. RequestType' /\ known' \in [Paths -> Item \cup {None}]
  BY <1>1, <1>2, <1>3, AnsweredType
<1> QED BY <1>4 DEF MoveListed, TypeInv, StoreType, RemoteType, GhostType, remoteVars

LEMMA MoveRenameType ==
  ASSUME TypeInv, NEW c \in Clients, MoveRename(c)
  PROVE  TypeInv'
<1>1. /\ GoodRequest(client[c]) /\ client[c].kind = "MOVE"
      /\ client[c].src \in Paths /\ client[c].dst \in Paths
      /\ client[c].item \in Item
      /\ client[c].item # None
  BY Facts DEF MoveRename, At, MovePoints
<1>2. RequestType'
  BY <1>1, GotoType DEF MoveRename, Fits, Points, StatPoints, PutPoints, DeletePoints,
      MovePoints, ListPoints, ItemPoints
<1>3. /\ known' \in [Paths -> Item \cup {None}]
      /\ cache' \in [Paths -> Item \cup {None}]
      /\ remote' \in [Ids -> [st : {"free", "live", "trashed"},
                              name : Paths \cup {DupName}, content : Contents]]
  BY ZenonT(60), <1>1 DEF MoveRename, Item, TypeInv, StoreType, RemoteType, GhostType, remoteVars
<1> QED BY <1>2, <1>3 DEF MoveRename, TypeInv, StoreType, RemoteType, GhostType, remoteVars

LEMMA MoveRefusedType ==
  ASSUME TypeInv, NEW c \in Clients, MoveRefused(c)
  PROVE  TypeInv'
<1>1. /\ GoodRequest(client[c]) /\ client[c].kind = "MOVE"
      /\ client[c].src \in Paths
  BY Facts DEF MoveRefused, At, MovePoints
<1>2. RequestType'
  BY <1>1, IdleType DEF MoveRefused, Fits, Points, StatPoints, PutPoints, DeletePoints,
      MovePoints, ListPoints, ItemPoints
<1> QED BY <1>2 DEF MoveRefused, TypeInv, StoreType, RemoteType, GhostType, remoteVars

LEMMA PublishMoveType ==
  ASSUME TypeInv, NEW c \in Clients, PublishMove(c)
  PROVE  TypeInv'
<1>1. client[c].src \in Paths /\ client[c].dst \in Paths /\ client[c].item \in Item
  BY Facts DEF PublishMove, At, MovePoints, ItemPoints
<1>2. RequestType'
  BY IdleType DEF PublishMove
<1>3. Rename(client[c]) \in Task
  BY <1>1 DEF Rename, Task, Item
<1>4. tasks' \subseteq Task
  BY <1>3 DEF PublishMove, TypeInv, StoreType
<1>5. /\ cache' \in [Paths -> Item \cup {None}]
      /\ promise' \in [Paths -> Contents \cup {None, Unsure}]
  BY <1>1 DEF PublishMove, TypeInv, StoreType, GhostType
<1> QED BY <1>2, <1>4, <1>5 DEF PublishMove, TypeInv, StoreType, RemoteType, GhostType, remoteVars

(***************************************************************************)
(* list                                                                    *)
(***************************************************************************)
LEMMA ListBeginType ==
  ASSUME TypeInv, NEW c \in Clients, ListBegin(c)
  PROVE  TypeInv'
<1> DEFINE r == client[c]
           n == [r EXCEPT !.pc = "items", !.kids = overlay,
                          !.todo = {i \in Ids : r.snap[i] # None}]
<1>1. GoodRequest(r) /\ r.kind = "LIST"
  BY Facts DEF ListBegin, At, ListPoints
<1>2. GoodRequest(n)
  BY <1>1 DEF GoodRequest, Request, TypeInv, StoreType, Fits, Points, StatPoints, PutPoints, DeletePoints,
      MovePoints, ListPoints, ItemPoints
<1>3. RequestType'
  BY <1>2, BecomeGood DEF ListBegin, TypeInv
<1> QED BY <1>3 DEF ListBegin, TypeInv, StoreType, RemoteType, GhostType, remoteVars

LEMMA ListSkipType ==
  ASSUME TypeInv, NEW c \in Clients, NEW i \in Ids, ListSkip(c, i)
  PROVE  TypeInv'
<1> DEFINE r == client[c]
           n == [r EXCEPT !.todo = @ \ {i}]
<1>1. GoodRequest(r) /\ r.todo \subseteq Ids
  BY Facts
<1>2. GoodRequest(n)
  BY <1>1 DEF GoodRequest, Request, Fits, Points, StatPoints, PutPoints, DeletePoints,
      MovePoints, ListPoints, ItemPoints
<1>3. LeftOut(r, i) \in BOOLEAN
  BY DEF LeftOut
<1>4. RequestType'
  BY <1>2, <1>3, BecomeGood DEF ListSkip, TypeInv
<1> QED BY <1>4 DEF ListSkip, TypeInv, StoreType, RemoteType, GhostType, remoteVars

\* A request that lists an item waits for its cache.put.
LEMMA PuttingGood ==
  ASSUME NEW r, GoodRequest(r), r.kind = "LIST", NEW p \in Paths,
         NEW item \in Item, NEW todo \in SUBSET r.todo
  PROVE  GoodRequest([r EXCEPT !.pc = "putting", !.src = p, !.item = item,
                               !.todo = todo, !.kids = [@ EXCEPT ![p] = None]])
<1> DEFINE n == [r EXCEPT !.pc = "putting", !.src = p, !.item = item,
                          !.todo = todo, !.kids = [@ EXCEPT ![p] = None]]
           kids == [r.kids EXCEPT ![p] = None]
<1>1. r \in Request /\ kids \in [Paths -> Entry \cup {None}]
  BY DEF GoodRequest, Request
<1>2. n = [r EXCEPT !.pc = "putting", !.src = p, !.item = item, !.todo = todo, !.kids = kids]
  OBVIOUS
<1>3. n \in Request /\ n.kind = "LIST" /\ n.pc = "putting" /\ n.src = p
      /\ n.todo = todo /\ n.snap = r.snap
  BY <1>1, <1>2 DEF Request
<1> QED BY <1>3 DEF GoodRequest, Fits, Points, StatPoints, PutPoints, DeletePoints,
      MovePoints, ListPoints, ItemPoints

LEMMA ListItemType ==
  ASSUME TypeInv, NEW c \in Clients, NEW i \in Ids, ListItem(c, i)
  PROVE  TypeInv'
<1> DEFINE r == client[c]
           p == r.snap[i].name
           item == ItemOf(r.snap, i)
           todo == r.todo \ {i}
<1>1. GoodRequest(r) /\ r.kind = "LIST" /\ todo \in SUBSET r.todo
      /\ p \in Paths
  BY Facts DEF ListItem, At, ListPoints
<1>2. r.snap \in Listing /\ r.snap[i] # None
  BY Facts DEF ListItem
<1>3. item \in Item
  BY <1>2, ListedItem
<1>4. GoodRequest([r EXCEPT !.pc = "putting", !.src = p, !.item = item,
                            !.todo = todo, !.kids = [@ EXCEPT ![p] = None]])
  BY <1>1, <1>3, PuttingGood
<1>5. RequestType'
  BY <1>4, BecomeGood DEF ListItem, TypeInv
<1>6. /\ overlay' \in [Paths -> Entry \cup {None}]
      /\ known' \in [Paths -> Item \cup {None}]
  BY <1>1, <1>3 DEF ListItem, TypeInv, StoreType
<1> QED BY <1>5, <1>6 DEF ListItem, TypeInv, StoreType, RemoteType, GhostType, remoteVars

LEMMA ListRecentType ==
  ASSUME TypeInv, NEW c \in Clients, NEW p \in Paths, ListRecent(c, p)
  PROVE  TypeInv'
<1> DEFINE r == client[c]
           item == EntryItem(r.kids[p])
<1>1. GoodRequest(r) /\ r.kind = "LIST" /\ r.kids \in [Paths -> Entry \cup {None}]
  BY Facts DEF ListRecent, At, ListPoints
<1>2. item \in Item
  BY <1>1 DEF ListRecent, Recent, EntryItem, Entry, Item
<1>3. [r EXCEPT !.pc = "putting", !.src = p, !.item = item, !.kids = [@ EXCEPT ![p] = None]]
        = [r EXCEPT !.pc = "putting", !.src = p, !.item = item, !.todo = r.todo,
                    !.kids = [@ EXCEPT ![p] = None]]
  BY <1>1 DEF GoodRequest, Request
<1>4. GoodRequest([r EXCEPT !.pc = "putting", !.src = p, !.item = item,
                            !.kids = [@ EXCEPT ![p] = None]])
  BY <1>1, <1>2, <1>3, PuttingGood
<1>5. RequestType'
  BY <1>4, BecomeGood DEF ListRecent, TypeInv
<1>6. known' \in [Paths -> Item \cup {None}]
  BY <1>2 DEF ListRecent, TypeInv, StoreType
<1> QED BY <1>5, <1>6 DEF ListRecent, TypeInv, StoreType, RemoteType, GhostType, remoteVars

LEMMA ListPutType ==
  ASSUME TypeInv, NEW c \in Clients, ListPut(c)
  PROVE  TypeInv'
<1> DEFINE r == client[c]
           n == [r EXCEPT !.pc = "items", !.src = None, !.item = None]
<1>1. /\ GoodRequest(r) /\ r.kind = "LIST" /\ r.src \in Paths
      /\ r.item \in Item \cup {None}
  BY Facts DEF ListPut, At, ListPoints
<1>2. GoodRequest(n)
  BY ZenonT(60), <1>1 DEF GoodRequest, Request, Fits, Points, StatPoints, PutPoints, DeletePoints,
      MovePoints, ListPoints, ItemPoints
<1>3. RequestType'
  BY <1>2, BecomeGood DEF ListPut, TypeInv
<1>4. cache' \in [Paths -> Item \cup {None}]
  BY <1>1 DEF ListPut, TypeInv, StoreType
<1> QED BY <1>3, <1>4 DEF ListPut, TypeInv, StoreType, RemoteType, GhostType, remoteVars

LEMMA ListEndType ==
  ASSUME TypeInv, NEW c \in Clients, ListEnd(c)
  PROVE  TypeInv'
<1>1. RequestType'
  BY IdleType DEF ListEnd
<1>2. /\ overlay' \in [Paths -> Entry \cup {None}]
      /\ known' \in [Paths -> Item \cup {None}] /\ hidden' \subseteq Ids
  BY DEF ListEnd, TypeInv, StoreType
<1> QED BY <1>1, <1>2 DEF ListEnd, TypeInv, StoreType, RemoteType, GhostType, remoteVars

(***************************************************************************)
(* Requests arrive.                                                        *)
(***************************************************************************)
LEMMA ArrivesCount ==
  ASSUME TypeInv, NEW c \in Clients, NEW r, Arrives(c, r)
  PROVE  issued' \in 0..MaxRequests
  BY ConstantsAssumption DEF Arrives, TypeInv, GhostType

LEMMA StatType ==
  ASSUME TypeInv, NEW c \in Clients, NEW p \in Paths, Stat(c, p)
  PROVE  TypeInv'
<1> DEFINE r == NewRequest("STAT", p, None, None)
<1>1. GoodRequest(r) /\ r.kind = "STAT" /\ r.todo = {}
  BY NewRequestGood
<1>2. issued' \in 0..MaxRequests
  BY ArrivesCount DEF Stat
<1> HIDE DEF r
<1>3. RequestType'
  BY <1>1, GotoType DEF Stat, r, Fits, Points, StatPoints, PutPoints, DeletePoints,
      MovePoints, ListPoints, ItemPoints
<1> QED BY <1>2, <1>3 DEF Stat, TypeInv, StoreType, RemoteType, GhostType, remoteVars

LEMMA PutType ==
  ASSUME TypeInv, NEW c \in Clients, NEW p \in Paths, NEW d \in Contents, Put(c, p, d)
  PROVE  TypeInv'
<1> DEFINE r == NewRequest("PUT", p, None, d)
<1>1. GoodRequest(r) /\ r.kind = "PUT" /\ r.todo = {}
  BY NewRequestGood
<1>2. issued' \in 0..MaxRequests
  BY ArrivesCount DEF Put
<1> HIDE DEF r
<1>3. RequestType'
  BY <1>1, ResolutionType, GotoType, AskType DEF Put, r, Fits, Points, StatPoints, PutPoints, DeletePoints,
      MovePoints, ListPoints, ItemPoints
<1> QED BY <1>2, <1>3 DEF Put, TypeInv, StoreType, RemoteType, GhostType, remoteVars

LEMMA DeleteType ==
  ASSUME TypeInv, NEW c \in Clients, NEW p \in Paths, Delete(c, p)
  PROVE  TypeInv'
<1> DEFINE r == NewRequest("DELETE", p, None, None)
<1>1. GoodRequest(r) /\ r.kind = "DELETE" /\ r.todo = {}
  BY NewRequestGood
<1>2. issued' \in 0..MaxRequests
  BY ArrivesCount DEF Delete
<1> HIDE DEF r
<1>3. RequestType'
  BY <1>1, GotoType DEF Delete, r, Fits, Points, StatPoints, PutPoints, DeletePoints,
      MovePoints, ListPoints, ItemPoints
<1> QED BY <1>2, <1>3 DEF Delete, TypeInv, StoreType, RemoteType, GhostType, remoteVars

LEMMA MoveType ==
  ASSUME TypeInv, NEW c \in Clients, NEW p \in Paths, NEW q \in Paths, Move(c, p, q)
  PROVE  TypeInv'
<1> DEFINE r == NewRequest("MOVE", p, q, None)
<1>1. GoodRequest(r) /\ r.kind = "MOVE" /\ r.todo = {}
  BY NewRequestGood
<1>2. issued' \in 0..MaxRequests
  BY ArrivesCount DEF Move
<1> HIDE DEF r
<1>3. RequestType'
  BY <1>1, GotoType DEF Move, r, Fits, Points, StatPoints, PutPoints, DeletePoints,
      MovePoints, ListPoints, ItemPoints
<1> QED BY <1>2, <1>3 DEF Move, TypeInv, StoreType, RemoteType, GhostType, remoteVars

LEMMA ListType ==
  ASSUME TypeInv, NEW c \in Clients, List(c)
  PROVE  TypeInv'
<1> DEFINE r == NewRequest("LIST", None, None, None)
<1>1. GoodRequest(r) /\ r.kind = "LIST" /\ r.todo = {}
  BY NewRequestGood
<1>2. issued' \in 0..MaxRequests
  BY ArrivesCount DEF List
<1> HIDE DEF r
<1>3. RequestType'
  BY <1>1, AskType DEF List, r, Fits, Points, StatPoints, PutPoints, DeletePoints,
      MovePoints, ListPoints, ItemPoints
<1> QED BY <1>2, <1>3 DEF List, TypeInv, StoreType, RemoteType, GhostType, remoteVars

(***************************************************************************)
(* Background tasks, the provider, time and restarts.                      *)
(***************************************************************************)
LEMMA TrashDoneType ==
  ASSUME TypeInv, NEW t \in tasks, TrashDone(t)
  PROVE  TypeInv'
<1>1. t.path \in Paths /\ t.id \in Ids /\ tasks' \subseteq Task
  BY DEF TrashDone, Task, TypeInv, StoreType
<1>2. remote' \in [Ids -> [st : {"free", "live", "trashed"},
                              name : Paths \cup {DupName}, content : Contents]]
  BY <1>1 DEF TrashDone, TypeInv, RemoteType
<1>3. overlay' \in [Paths -> Entry \cup {None}]
  <2>1. CASE Tombstone(t.path)
    <3>1. overlay[t.path] \in Entry
      BY <1>1, <2>1 DEF Tombstone, TypeInv, StoreType
    <3>2. [overlay[t.path] EXCEPT !.gone = TRUE] \in Entry
      BY <3>1 DEF Entry
    <3> QED BY <1>1, <2>1, <3>2 DEF TrashDone, TypeInv, StoreType
  <2>2. CASE ~Tombstone(t.path)
    BY <2>2 DEF TrashDone, TypeInv, StoreType
  <2> QED BY <2>1, <2>2
<1>4. crossed' \subseteq Paths
  BY <1>1 DEF TrashDone, TypeInv, GhostType
<1>5. RequestType'
  BY DEF TrashDone, TypeInv, RequestType, remoteVars
<1> QED BY <1>1, <1>2, <1>3, <1>4, <1>5 DEF TrashDone, TypeInv, StoreType, RemoteType, GhostType, remoteVars

LEMMA RenameDoneType ==
  ASSUME TypeInv, NEW t \in tasks, RenameDone(t)
  PROVE  TypeInv'
<1>1. /\ remote' \in [Ids -> [st : {"free", "live", "trashed"},
                              name : Paths \cup {DupName}, content : Contents]]
      /\ tasks' \subseteq Task
  BY DEF RenameDone, Task, TypeInv, StoreType, RemoteType, GhostType
<1>2. RequestType'
  BY DEF RenameDone, TypeInv, RequestType, remoteVars
<1> QED BY <1>1, <1>2 DEF RenameDone, TypeInv, StoreType, RemoteType, GhostType, remoteVars

LEMMA TaskFailsType ==
  ASSUME TypeInv, NEW t \in tasks, TaskFails(t)
  PROVE  TypeInv'
<1>1. tasks' \subseteq Task
  BY DEF TaskFails, TypeInv, StoreType, RemoteType, GhostType
<1>2. RequestType'
  BY DEF TaskFails, TypeInv, RequestType, remoteVars
<1> QED BY <1>1, <1>2 DEF TaskFails, TypeInv, StoreType, RemoteType, GhostType, remoteVars

LEMMA ValidatedType ==
  ASSUME TypeInv, NEW i \in Ids, Validated(i)
  PROVE  TypeInv'
<1>1. validating' \subseteq Ids
  BY DEF Validated, TypeInv, StoreType, RemoteType, GhostType
<1>2. RequestType'
  BY DEF Validated, TypeInv, RequestType, remoteVars
<1> QED BY <1>1, <1>2 DEF Validated, TypeInv, StoreType, RemoteType, GhostType, remoteVars

LEMMA ShowsType ==
  ASSUME TypeInv, NEW i \in Ids, Shows(i)
  PROVE  TypeInv'
<1>1. listed' \in Listing
  BY DEF Shows, Listing, Listed, TypeInv, StoreType, RemoteType, GhostType
<1>2. RequestType'
  BY DEF Shows, TypeInv, RequestType, remoteVars
<1> QED BY <1>1, <1>2 DEF Shows, TypeInv, StoreType, RemoteType, GhostType, remoteVars

LEMMA CacheExpiresType ==
  ASSUME TypeInv, NEW p \in Paths, CacheExpires(p)
  PROVE  TypeInv'
<1>1. cache' \in [Paths -> Item \cup {None}]
  BY DEF CacheExpires, TypeInv, StoreType, RemoteType, GhostType
<1>2. RequestType'
  BY DEF CacheExpires, TypeInv, RequestType, remoteVars
<1> QED BY <1>1, <1>2 DEF CacheExpires, TypeInv, StoreType, RemoteType, GhostType, remoteVars

LEMMA EntryExpiresType ==
  ASSUME TypeInv, NEW p \in Paths, EntryExpires(p)
  PROVE  TypeInv'
<1>1. /\ overlay' \in [Paths -> Entry \cup {None}]
      /\ known' \in [Paths -> Item \cup {None}]
      /\ hidden' \subseteq Ids
  BY DEF EntryExpires, TypeInv, StoreType, RemoteType, GhostType
<1>2. RequestType'
  BY DEF EntryExpires, TypeInv, RequestType, remoteVars
<1> QED BY <1>1, <1>2 DEF EntryExpires, TypeInv, StoreType, RemoteType, GhostType, remoteVars

LEMMA HiddenExpiresType ==
  ASSUME TypeInv, NEW i \in Ids, HiddenExpires(i)
  PROVE  TypeInv'
<1>1. hidden' \subseteq Ids
  BY DEF HiddenExpires, TypeInv, StoreType, RemoteType, GhostType
<1>2. RequestType'
  BY DEF HiddenExpires, TypeInv, RequestType, remoteVars
<1> QED BY <1>1, <1>2 DEF HiddenExpires, TypeInv, StoreType, RemoteType, GhostType, remoteVars

LEMMA RestartType ==
  ASSUME TypeInv, Restart
  PROVE  TypeInv'
<1>1. RequestType'
  BY IdleGood DEF Restart, TypeInv, RequestType, GoodRequest
<1>2. issued' \in 0..MaxRequests
  BY ConstantsAssumption DEF Restart, TypeInv, GhostType
<1>3. promise' \in [Paths -> Contents \cup {None, Unsure}]
  BY DEF Restart, TypeInv, GhostType
<1> QED BY <1>1, <1>2, <1>3 DEF Restart, TypeInv, StoreType, RemoteType, GhostType, remoteVars

(***************************************************************************)
(* The type invariant holds initially and every step keeps it.             *)
(***************************************************************************)
LEMMA InitType == Init => TypeInv
<1> SUFFICES ASSUME Init PROVE TypeInv
  OBVIOUS
<1>1. StoreType
  BY DEF Init, StoreType
<1>2. RequestType
  BY IdleGood DEF Init, RequestType, GoodRequest
<1>3. listed \in Listing
  BY ConstantsAssumption DEF Init, Listing, Listed
<1>4. RemoteType
  BY <1>3, ConstantsAssumption DEF Init, RemoteType
<1>5. GhostType
  BY ConstantsAssumption DEF Init, GhostType
<1> QED BY <1>1, <1>2, <1>4, <1>5 DEF TypeInv

LEMMA NextType ==
  ASSUME TypeInv, [Next]_vars
  PROVE  TypeInv'
<1>1. ASSUME NEW c \in Clients, NewRequests(c) PROVE TypeInv'
  BY <1>1, StatType, PutType, DeleteType, MoveType, ListType DEF NewRequests
<1>2. ASSUME NEW c \in Clients, Continue(c) PROVE TypeInv'
  BY <1>2, StatMissType, StatListedType, StatAnswerType, StatAbsentType,
     PutListedType, UploadNewType, UploadOverType, UploadRefusedType,
     PublishType, DeleteAgainType, DeleteRecentType, DeleteLookupType,
     DeleteListedType, DeleteMissingType, DeleteItemType,
     DeleteTombstoneType, DeleteScheduleType, MoveEntryType, MoveLookupType,
     MoveListedType, MoveRenameType, MoveRefusedType, PublishMoveType,
     ListBeginType, ListPutType, ListEndType, ListSkipType, ListItemType,
     ListRecentType DEF Continue
<1>3. CASE Background
  BY <1>3, TrashDoneType, RenameDoneType, TaskFailsType DEF Background
<1>4. CASE Environment
  BY <1>4, ValidatedType, ShowsType, HiddenExpiresType, CacheExpiresType,
     EntryExpiresType, RestartType DEF Environment
<1>5. CASE UNCHANGED vars
  BY <1>5 DEF vars, TypeInv, StoreType, RequestType, RemoteType, GhostType, remoteVars
<1> QED BY <1>1, <1>2, <1>3, <1>4, <1>5 DEF Next

(***************************************************************************)
(* Every variable keeps its type: no entry, item, task or request record   *)
(* is ever built from a value that is missing.                             *)
(***************************************************************************)
THEOREM TypeCorrect == Spec => []TypeOK
<1>1. Init => TypeInv
  BY InitType
<1>2. TypeInv /\ [Next]_vars => TypeInv'
  BY NextType
<1>3. TypeInv => TypeOK
  BY TypeInvTypeOK
<1> QED BY <1>1, <1>2, <1>3, PTL DEF Spec

-----------------------------------------------------------------------------
(***************************************************************************)
(* No acknowledged delete is forgotten: as long as its media lives, every  *)
(* tombstone has a background task, or a request about to schedule one.    *)
(*                                                                         *)
(* DeleteNotForgotten alone is not inductive: a new upload could bring to  *)
(* life the media of a tombstone nobody works on, were that id still free. *)
(* So: every id the store or a request remembers was given out before.     *)
(***************************************************************************)
Used == {i \in Ids : remote[i].st # "free"}

\* The ids a request remembers belong to S.
Uses(r, S) ==
    /\ r.item # None => r.item.id \in S
    /\ \A i \in Ids : r.snap[i] # None => i \in S
    /\ \A p \in Paths : r.kids[p] # None => r.kids[p].id \in S

IdsInUse ==
    /\ \A p \in Paths : overlay[p] # None => overlay[p].id \in Used
    /\ \A p \in Paths : known[p] # None => known[p].id \in Used
    /\ \A i \in Ids : listed[i] # None => i \in Used
    /\ \A c \in Clients : Uses(client[c], Used)

DeletesInv == IdsInUse /\ DeleteNotForgotten

\* What a step that changes some of them must show.
LEMMA IdsGrow ==
  ASSUME IdsInUse, Used \subseteq Used',
         \A p \in Paths : overlay'[p] # None => overlay'[p].id \in Used',
         \A p \in Paths : known'[p] # None => known'[p].id \in Used',
         \A i \in Ids : listed'[i] # None => i \in Used',
         \A c \in Clients : Uses(client'[c], Used')
  PROVE  IdsInUse'
  BY DEF IdsInUse, Uses

LEMMA UsesGrow ==
  ASSUME NEW S, NEW T, S \subseteq T, NEW r, Uses(r, S)
  PROVE  Uses(r, T)
  BY DEF Uses

(***************************************************************************)
(* The steps of one client that leave the media alone.                     *)
(***************************************************************************)
LEMMA IdsStep ==
  ASSUME IdsInUse, UNCHANGED <<remote, listed>>,
         \A p \in Paths : overlay'[p] # None => overlay'[p].id \in Used,
         \A p \in Paths : known'[p] # None => known'[p].id \in Used,
         \A c \in Clients : Uses(client'[c], Used)
  PROVE  IdsInUse'
<1>1. Used' = Used
  BY DEF Used
<1> QED BY <1>1, IdsGrow DEF IdsInUse

\* A tombstone of the next state that matters was one before, and neither
\* the tasks nor another request about to schedule one went away.
LEMMA TrackedStep ==
  ASSUME DeleteNotForgotten, tasks \subseteq tasks',
         \A d \in Clients : client[d].pc = "schedule" => client'[d] = client[d],
         \A p \in Paths : Tombstone(p)' /\ remote'[overlay'[p].id].st = "live" =>
             /\ Tombstone(p) /\ overlay[p].id = overlay'[p].id
             /\ remote[overlay[p].id].st = "live"
  PROVE  DeleteNotForgotten'
<1> SUFFICES ASSUME NEW p \in Paths, Tombstone(p)', remote'[overlay'[p].id].st = "live"
             PROVE  Owed(overlay[p].id)'
  BY DEF DeleteNotForgotten
<1>1. Owed(overlay[p].id) /\ overlay[p].id = overlay'[p].id
  BY DEF DeleteNotForgotten
<1> QED BY <1>1 DEF Owed

LEMMA OthersWait ==
  ASSUME TypeInv, NEW c \in Clients, client[c].pc # "schedule", NEW r, NEW k,
         Become(c, r, k)
  PROVE  \A d \in Clients : client[d].pc = "schedule" => client'[d] = client[d]
  BY DEF Become, TypeInv, RequestType

LEMMA BecomeUses ==
  ASSUME TypeInv, IdsInUse, NEW c \in Clients, NEW r, NEW k, Uses(r, Used),
         Become(c, r, k)
  PROVE  \A d \in Clients : Uses(client'[d], Used)
  BY DEF Become, TypeInv, RequestType, IdsInUse

LEMMA NewUses ==
  ASSUME NEW S, NEW k, NEW p, NEW q, NEW d
  PROVE  Uses(NewRequest(k, p, q, d), S)
  BY DEF Uses, NewRequest, NoList, NoKids

LEMMA IdleUses == \A S : Uses(Idle, S)
  BY NewUses DEF Idle

LEMMA GotoUses ==
  ASSUME NEW S, NEW r \in Request, Uses(r, S), NEW pc, NEW item,
         item # None => item.id \in S
  PROVE  Uses(Goto(r, pc, item), S)
<1>1. /\ Goto(r, pc, item).item = item /\ Goto(r, pc, item).snap = NoList
      /\ Goto(r, pc, item).kids = r.kids
  BY DEF Goto, Request
<1> QED BY <1>1 DEF Uses, NoList

LEMMA GotoStep ==
  ASSUME TypeInv, IdsInUse, NEW c \in Clients, NEW r \in Request, Uses(r, Used),
         NEW pc, NEW item, item # None => item.id \in Used, NEW k,
         Become(c, Goto(r, pc, item), k)
  PROVE  \A d \in Clients : Uses(client'[d], Used)
<1>1. Uses(Goto(r, pc, item), Used)
  BY GotoUses
<1> QED BY <1>1, BecomeUses

LEMMA AskStep ==
  ASSUME TypeInv, IdsInUse, NEW c \in Clients, NEW r \in Request, Uses(r, Used),
         NEW pc, AskListing(c, r, pc)
  PROVE  \A d \in Clients : Uses(client'[d], Used)
<1> DEFINE n == [r EXCEPT !.pc = pc, !.snap = listed]
<1>1. n.item = r.item /\ n.snap = listed /\ n.kids = r.kids
  BY DEF Request
<1>2. Uses(n, Used)
  BY <1>1 DEF Uses, IdsInUse
<1> QED BY <1>2, BecomeUses DEF AskListing

LEMMA IdleStep ==
  ASSUME TypeInv, IdsInUse, NEW c \in Clients, Become(c, Idle, FALSE)
  PROVE  \A d \in Clients : Uses(client'[d], Used)
  BY IdleUses, BecomeUses

LEMMA ClientUses ==
  ASSUME TypeInv, IdsInUse, NEW c \in Clients
  PROVE  client[c] \in Request /\ Uses(client[c], Used)
  BY DEF TypeInv, RequestType, IdsInUse

LEMMA ResolutionUses ==
  ASSUME TypeInv, IdsInUse, NEW p \in Paths
  PROVE  Resolution(p) # None => Resolution(p).id \in Used
<1>1. overlay[p] # None => EntryItem(overlay[p]).id = overlay[p].id
  BY DEF EntryItem
<1> QED BY <1>1 DEF IdsInUse, Resolution, Uploaded, Tombstone

LEMMA AnsweredStep ==
  ASSUME TypeInv, IdsInUse, NEW c \in Clients, NEW p \in Paths, NEW k, NEW pf, NEW pm,
         Answered(c, p, pf, pm, k)
  PROVE  /\ \A d \in Clients : Uses(client'[d], Used)
         /\ \A q \in Paths : known'[q] # None => known'[q].id \in Used
         /\ \E r, b : Become(c, r, b)
<1> DEFINE r == client[c]
<1>1. r \in Request /\ Uses(r, Used)
  BY ClientUses
<1>2. PICK pick \in Picks(r.snap) :
        /\ Absorb(r.snap, pick)
        /\ Become(c, Goto(r, IF Found(r.snap, pick, p) = None THEN pm ELSE pf,
                             Found(r.snap, pick, p)), k)
  BY DEF Answered
<1>3. \A q \in Paths : pick[q] # None =>
          ItemOf(r.snap, pick[q]).id = pick[q] /\ pick[q] \in Used
  BY <1>1 DEF Picks, ShownAt, Uses, ItemOf
<1>4. \A q \in Paths : known'[q] # None => known'[q].id \in Used
  BY <1>2, <1>3 DEF Absorb, IdsInUse
<1>5. Found(r.snap, pick, p) # None => Found(r.snap, pick, p).id \in Used
  BY <1>3 DEF Found
<1>6. \A d \in Clients : Uses(client'[d], Used)
  BY <1>1, <1>2, <1>5, GotoStep
<1> QED BY <1>2, <1>4, <1>6

LEMMA QuietStep ==
  ASSUME TypeInv, DeletesInv, NEW c \in Clients, client[c].pc # "schedule",
         NEW r, NEW k, Become(c, r, k),
         \A d \in Clients : Uses(client'[d], Used),
         UNCHANGED <<overlay, known, remote, listed>>, tasks \subseteq tasks'
  PROVE  DeletesInv'
<1>1. IdsInUse'
  BY IdsStep DEF DeletesInv, IdsInUse
<1>2. DeleteNotForgotten'
  BY OthersWait, TrackedStep DEF DeletesInv, Tombstone
<1> QED BY <1>1, <1>2 DEF DeletesInv

LEMMA LookupStep ==
  ASSUME TypeInv, DeletesInv, NEW c \in Clients, client[c].pc # "schedule",
         NEW p \in Paths, NEW pf, NEW pm, NEW k, Answered(c, p, pf, pm, k),
         UNCHANGED <<overlay, remote, listed, tasks>>
  PROVE  DeletesInv'
<1>1. /\ \A d \in Clients : Uses(client'[d], Used)
      /\ \A q \in Paths : known'[q] # None => known'[q].id \in Used
  BY AnsweredStep DEF DeletesInv
<1>2. PICK r, b : Become(c, r, b)
  BY AnsweredStep DEF DeletesInv
<1>3. IdsInUse'
  BY <1>1, IdsStep DEF DeletesInv, IdsInUse
<1>4. DeleteNotForgotten'
  BY <1>2, OthersWait, TrackedStep DEF DeletesInv, Tombstone
<1> QED BY <1>3, <1>4 DEF DeletesInv

(***************************************************************************)
(* get_metadata and upload                                                 *)
(***************************************************************************)
LEMMA StatMissTracked ==
  ASSUME TypeInv, DeletesInv, NEW c \in Clients, StatMiss(c)
  PROVE  DeletesInv'
<1>1. /\ client[c] \in Request
      /\ Uses(client[c], Used) /\ client[c].pc # "schedule"
      /\ StatPath(client[c]) \in Paths
  BY Facts, ClientUses DEF StatMiss, At, Arrives, Idle, NewRequest, StatPoints, DeletesInv
<1>2. \A d \in Clients : Uses(client'[d], Used)
  BY <1>1, ResolutionUses, GotoStep, AskStep DEF StatMiss, DeletesInv
<1> QED BY <1>1, <1>2, QuietStep DEF StatMiss, AskListing, remoteVars

LEMMA StatListedTracked ==
  ASSUME TypeInv, DeletesInv, NEW c \in Clients, StatListed(c)
  PROVE  DeletesInv'
<1>1. client[c].pc # "schedule" /\ StatPath(client[c]) \in Paths
  BY Facts DEF StatListed, At, StatPoints
<1> QED BY <1>1, LookupStep DEF StatListed, remoteVars

LEMMA StatAnswerTracked ==
  ASSUME TypeInv, DeletesInv, NEW c \in Clients, StatAnswer(c)
  PROVE  DeletesInv'
<1>1. client[c] \in Request /\ Uses(client[c], Used) /\ client[c].pc # "schedule"
  BY Facts, ClientUses DEF StatAnswer, At, Arrives, Idle, NewRequest, DeletesInv
<1>2. \A d \in Clients : Uses(client'[d], Used)
  BY <1>1, GotoStep, IdleStep DEF StatAnswer, DeletesInv
<1> QED BY <1>1, <1>2, QuietStep DEF StatAnswer, AskListing, remoteVars

LEMMA StatAbsentTracked ==
  ASSUME TypeInv, DeletesInv, NEW c \in Clients, StatAbsent(c)
  PROVE  DeletesInv'
<1>1. client[c] \in Request /\ Uses(client[c], Used) /\ client[c].pc # "schedule"
  BY Facts, ClientUses DEF StatAbsent, At, Arrives, Idle, NewRequest, DeletesInv
<1>2. \A d \in Clients : Uses(client'[d], Used)
  BY <1>1, GotoStep, IdleStep DEF StatAbsent, DeletesInv
<1> QED BY <1>1, <1>2, QuietStep DEF StatAbsent, AskListing, remoteVars

LEMMA PutListedTracked ==
  ASSUME TypeInv, DeletesInv, NEW c \in Clients, PutListed(c)
  PROVE  DeletesInv'
<1>1. client[c].pc # "schedule" /\ client[c].src \in Paths
  BY Facts DEF PutListed, At, PutPoints
<1> QED BY <1>1, LookupStep DEF PutListed, remoteVars

LEMMA UploadRefusedTracked ==
  ASSUME TypeInv, DeletesInv, NEW c \in Clients, UploadRefused(c)
  PROVE  DeletesInv'
<1>1. client[c] \in Request /\ Uses(client[c], Used) /\ client[c].pc # "schedule"
  BY Facts, ClientUses DEF UploadRefused, At, Arrives, Idle, NewRequest, DeletesInv
<1>2. \A d \in Clients : Uses(client'[d], Used)
  BY <1>1, IdleStep DEF UploadRefused, DeletesInv
<1> QED BY <1>1, <1>2, QuietStep DEF UploadRefused, AskListing, remoteVars

LEMMA PublishTracked ==
  ASSUME TypeInv, DeletesInv, NEW c \in Clients, Publish(c)
  PROVE  DeletesInv'
<1>1. client[c] \in Request /\ Uses(client[c], Used) /\ client[c].pc # "schedule"
  BY Facts, ClientUses DEF Publish, At, Arrives, Idle, NewRequest, DeletesInv
<1>2. \A d \in Clients : Uses(client'[d], Used)
  BY <1>1, IdleStep DEF Publish, DeletesInv
<1> QED BY <1>1, <1>2, QuietStep DEF Publish, AskListing, remoteVars

(***************************************************************************)
(* delete                                                                  *)
(***************************************************************************)
LEMMA DeleteAgainTracked ==
  ASSUME TypeInv, DeletesInv, NEW c \in Clients, DeleteAgain(c)
  PROVE  DeletesInv'
<1>1. client[c] \in Request /\ Uses(client[c], Used) /\ client[c].pc # "schedule"
  BY Facts, ClientUses DEF DeleteAgain, At, Arrives, Idle, NewRequest, DeletesInv
<1>2. \A d \in Clients : Uses(client'[d], Used)
  BY <1>1, GotoStep, IdleStep DEF DeleteAgain, Deleted, DeletesInv
<1> QED BY <1>1, <1>2, QuietStep DEF DeleteAgain, Deleted, AskListing, remoteVars

LEMMA DeleteMissingTracked ==
  ASSUME TypeInv, DeletesInv, NEW c \in Clients, DeleteMissing(c)
  PROVE  DeletesInv'
<1>1. client[c] \in Request /\ Uses(client[c], Used) /\ client[c].pc # "schedule"
  BY Facts, ClientUses DEF DeleteMissing, At, Arrives, Idle, NewRequest, DeletesInv
<1>2. \A d \in Clients : Uses(client'[d], Used)
  BY <1>1, IdleStep DEF DeleteMissing, DeletesInv
<1> QED BY <1>1, <1>2, QuietStep DEF DeleteMissing, AskListing, remoteVars

LEMMA DeleteListedTracked ==
  ASSUME TypeInv, DeletesInv, NEW c \in Clients, DeleteListed(c)
  PROVE  DeletesInv'
<1>1. client[c].pc # "schedule" /\ DeletePath(client[c]) \in Paths
  BY Facts DEF DeleteListed, At, DeletePoints
<1> QED BY <1>1, LookupStep DEF DeleteListed, remoteVars

(***************************************************************************)
(* move                                                                    *)
(***************************************************************************)
LEMMA MoveLookupTracked ==
  ASSUME TypeInv, DeletesInv, NEW c \in Clients, MoveLookup(c)
  PROVE  DeletesInv'
<1>1. /\ client[c] \in Request
      /\ Uses(client[c], Used) /\ client[c].pc # "schedule"
      /\ client[c].src \in Paths
  BY Facts, ClientUses DEF MoveLookup, At, Arrives, Idle, NewRequest, MovePoints, DeletesInv
<1>2. \A d \in Clients : Uses(client'[d], Used)
  BY <1>1, ResolutionUses, GotoStep, AskStep DEF MoveLookup, DeletesInv
<1> QED BY <1>1, <1>2, QuietStep DEF MoveLookup, AskListing, remoteVars

LEMMA MoveListedTracked ==
  ASSUME TypeInv, DeletesInv, NEW c \in Clients, MoveListed(c)
  PROVE  DeletesInv'
<1>1. client[c].pc # "schedule" /\ client[c].src \in Paths
  BY Facts DEF MoveListed, At, MovePoints
<1> QED BY <1>1, LookupStep DEF MoveListed, remoteVars

LEMMA MoveRefusedTracked ==
  ASSUME TypeInv, DeletesInv, NEW c \in Clients, MoveRefused(c)
  PROVE  DeletesInv'
<1>1. client[c] \in Request /\ Uses(client[c], Used) /\ client[c].pc # "schedule"
  BY Facts, ClientUses DEF MoveRefused, At, Arrives, Idle, NewRequest, DeletesInv
<1>2. \A d \in Clients : Uses(client'[d], Used)
  BY <1>1, IdleStep DEF MoveRefused, DeletesInv
<1> QED BY <1>1, <1>2, QuietStep DEF MoveRefused, AskListing, remoteVars

LEMMA PublishMoveTracked ==
  ASSUME TypeInv, DeletesInv, NEW c \in Clients, PublishMove(c)
  PROVE  DeletesInv'
<1>1. client[c] \in Request /\ Uses(client[c], Used) /\ client[c].pc # "schedule"
  BY Facts, ClientUses DEF PublishMove, At, Arrives, Idle, NewRequest, DeletesInv
<1>2. \A d \in Clients : Uses(client'[d], Used)
  BY <1>1, IdleStep DEF PublishMove, DeletesInv
<1> QED BY <1>1, <1>2, QuietStep DEF PublishMove, AskListing, remoteVars

LEMMA DeleteLookupTracked ==
  ASSUME TypeInv, DeletesInv, NEW c \in Clients, DeleteLookup(c)
  PROVE  DeletesInv'
<1>1. /\ client[c] \in Request
      /\ Uses(client[c], Used) /\ client[c].pc # "schedule"
      /\ DeletePath(client[c]) \in Paths
  BY Facts, ClientUses DEF DeleteLookup, At, Arrives, Idle, NewRequest, DeletePoints, DeletesInv
<1>2. \A d \in Clients : Uses(client'[d], Used)
  BY <1>1, GotoStep, AskStep DEF DeleteLookup, IdsInUse, DeletesInv
<1> QED BY <1>1, <1>2, QuietStep DEF DeleteLookup, IdsInUse, AskListing, remoteVars

(***************************************************************************)
(* The uploads: a media is given out, or gets new content.                 *)
(***************************************************************************)
LEMMA StoreUploadedUses ==
  ASSUME TypeInv, IdsInUse, NEW c \in Clients, NEW i \in Ids, StoreUploaded(c, i),
         Used \subseteq Used', i \in Used', client[c].src \in Paths, UNCHANGED listed
  PROVE  IdsInUse'
<1> DEFINE r == client[c]
           item == [id |-> i, content |-> r.content]
<1>1. r \in Request /\ Uses(r, Used)
  BY ClientUses
<1>2. Uses(r, Used')
  BY <1>1, UsesGrow
<1>3. item.id \in Used'
  OBVIOUS
<1>4. Become(c, Goto(r, "publish", item), FALSE)
  BY DEF StoreUploaded
<1>5. Uses(Goto(r, "publish", item), Used')
  BY <1>1, <1>2, <1>3, GotoUses
<1>6. ASSUME NEW d \in Clients PROVE Uses(client'[d], Used')
  <2>1. Uses(client[d], Used')
    BY UsesGrow DEF IdsInUse
  <2> QED BY <1>4, <1>5, <2>1 DEF Become, TypeInv, RequestType
<1>7. \A p \in Paths : overlay'[p] # None => overlay'[p].id \in Used'
  BY DEF StoreUploaded, IdsInUse, TypeInv, StoreType
<1>8. \A p \in Paths : known'[p] # None => known'[p].id \in Used'
  BY DEF StoreUploaded, IdsInUse, TypeInv, StoreType
<1> QED BY <1>6, <1>7, <1>8, IdsGrow DEF IdsInUse

\* After an upload every tombstone is an old one, at another path.
LEMMA StoreUploadedTombstones ==
  ASSUME TypeInv, NEW c \in Clients, NEW i, StoreUploaded(c, i), client[c].src \in Paths
  PROVE  \A p \in Paths : Tombstone(p)' => Tombstone(p) /\ overlay'[p] = overlay[p]
  BY DEF StoreUploaded, Tombstone, TypeInv, StoreType

LEMMA UploadNewTracked ==
  ASSUME TypeInv, DeletesInv, NEW c \in Clients, UploadNew(c)
  PROVE  DeletesInv'
<1>1. client[c].src \in Paths /\ client[c].pc = "upload"
  BY Facts DEF UploadNew, At, PutPoints
<1>2. PICK i \in Ids, name \in {DupName, client[c].src} :
        /\ remote[i].st = "free"
        /\ remote' = [remote EXCEPT ![i] =
               [st |-> "live", name |-> name, content |-> client[c].content]]
        /\ StoreUploaded(c, i)
  BY DEF UploadNew
<1>3. Used \subseteq Used' /\ i \in Used'
  BY <1>2 DEF Used, TypeInv, RemoteType
<1>4. IdsInUse'
  BY <1>1, <1>2, <1>3, StoreUploadedUses DEF UploadNew, DeletesInv
<1>5. \A p \in Paths : Tombstone(p)' /\ remote'[overlay'[p].id].st = "live" =>
          /\ Tombstone(p) /\ overlay[p].id = overlay'[p].id
          /\ remote[overlay[p].id].st = "live"
  <2> SUFFICES ASSUME NEW p \in Paths, Tombstone(p)', remote'[overlay'[p].id].st = "live"
               PROVE  /\ Tombstone(p) /\ overlay[p].id = overlay'[p].id
                      /\ remote[overlay[p].id].st = "live"
    OBVIOUS
  <2>1. Tombstone(p) /\ overlay'[p] = overlay[p]
    BY <1>1, <1>2, StoreUploadedTombstones
  <2>2. overlay[p].id \in Used
    BY <2>1 DEF DeletesInv, IdsInUse, Tombstone
  <2>3. overlay[p].id # i
    BY <1>2, <2>2 DEF Used
  <2> QED BY <1>2, <2>1, <2>2, <2>3 DEF Used, TypeInv, RemoteType
<1>6. PICK r : Become(c, r, FALSE)
  BY <1>2 DEF StoreUploaded
<1>7. DeleteNotForgotten'
  BY <1>1, <1>5, <1>6, OthersWait, TrackedStep DEF DeletesInv, UploadNew
<1> QED BY <1>4, <1>7 DEF DeletesInv

LEMMA UploadOverTracked ==
  ASSUME TypeInv, DeletesInv, NEW c \in Clients, UploadOver(c)
  PROVE  DeletesInv'
<1> DEFINE i == client[c].item.id
<1>1. client[c].src \in Paths /\ client[c].pc = "upload" /\ i \in Ids
  BY Facts DEF UploadOver, At, PutPoints, Item
<1> DEFINE m == [st |-> "live", name |-> client[c].src, content |-> client[c].content]
<1>2. /\ remote[i].st = "live" /\ m.st = "live"
      /\ remote' = [remote EXCEPT ![i] = m]
      /\ StoreUploaded(c, i)
  BY DEF UploadOver
<1>3. Used \subseteq Used' /\ i \in Used'
  BY <1>1, <1>2 DEF Used, TypeInv, RemoteType
<1>4. IdsInUse'
  BY <1>1, <1>2, <1>3, StoreUploadedUses DEF UploadOver, DeletesInv
<1>5. \A j \in Ids : remote'[j].st = "live" => remote[j].st = "live"
  BY <1>1, <1>2 DEF TypeInv, RemoteType
<1>6. \A p \in Paths : Tombstone(p)' => overlay'[p].id \in Ids
  BY <1>1, <1>2, StoreUploadedTombstones DEF Tombstone, TypeInv, StoreType, Entry
<1>7. PICK r : Become(c, r, FALSE)
  BY <1>2 DEF StoreUploaded
<1>8. DeleteNotForgotten'
  BY <1>1, <1>2, <1>5, <1>6, <1>7, OthersWait, TrackedStep, StoreUploadedTombstones
     DEF DeletesInv, UploadOver
<1> QED BY <1>4, <1>8 DEF DeletesInv

(***************************************************************************)
(* delete: the entry goes, the tombstone comes, the task is scheduled.     *)
(***************************************************************************)
LEMMA DeleteRecentTracked ==
  ASSUME TypeInv, DeletesInv, NEW c \in Clients, DeleteRecent(c)
  PROVE  DeletesInv'
<1> DEFINE p == DeletePath(client[c])
<1>1. /\ client[c] \in Request /\ Uses(client[c], Used)
      /\ client[c].pc # "schedule" /\ p \in Paths
  BY Facts, ClientUses DEF DeleteRecent, At, DeletePoints, DeletesInv
<1>2. EntryItem(overlay[p]).id \in Used
  BY <1>1 DEF DeleteRecent, EntryItem, Uploaded, DeletesInv, IdsInUse
<1>3. \A d \in Clients : Uses(client'[d], Used)
  BY <1>1, <1>2, GotoStep DEF DeleteRecent, DeletesInv
<1>4. \A q \in Paths : /\ overlay'[q] \in {None, overlay[q]}
                       /\ known'[q] \in {None, known[q]}
  BY DEF DeleteRecent, TypeInv, StoreType
<1>5. IdsInUse'
  BY <1>3, <1>4, IdsStep DEF DeleteRecent, DeletesInv, IdsInUse, remoteVars
<1>6. DeleteNotForgotten'
  BY <1>1, <1>4, OthersWait, TrackedStep DEF DeleteRecent, DeletesInv, Tombstone, remoteVars
<1> QED BY <1>5, <1>6 DEF DeletesInv

LEMMA StoreTombstoneUses ==
  ASSUME TypeInv, IdsInUse, NEW p \in Paths, NEW item, item.id \in Used,
         StoreTombstone(p, item)
  PROVE  /\ \A q \in Paths : overlay'[q] # None => overlay'[q].id \in Used
         /\ \A q \in Paths : known'[q] # None => known'[q].id \in Used
         /\ overlay'[p].id = item.id
         /\ \A q \in Paths \ {p} : overlay'[q] = overlay[q]
<1>1. /\ \A q \in Paths \ {p} : overlay'[q] = overlay[q] /\ known'[q] = known[q]
      /\ overlay'[p].id = item.id /\ known'[p] = None
  BY DEF StoreTombstone, TypeInv, StoreType
<1> QED BY <1>1 DEF IdsInUse

LEMMA DeleteItemTracked ==
  ASSUME TypeInv, DeletesInv, NEW c \in Clients, DeleteItem(c)
  PROVE  DeletesInv'
<1> DEFINE r == client[c]
           p == DeletePath(r)
<1>1. /\ r \in Request /\ Uses(r, Used) /\ r.pc = "del_item" /\ p \in Paths
      /\ r.item # None
  BY Facts, ClientUses DEF DeleteItem, At, DeletePoints, DeletesInv
<1>2. r.item.id \in Used
  BY <1>1 DEF Uses
<1>3. Become(c, Goto(r, "schedule", r.item), FALSE) /\ StoreTombstone(p, r.item)
  BY DEF DeleteItem
<1>4. \A d \in Clients : Uses(client'[d], Used)
  BY <1>1, <1>2, <1>3, GotoStep DEF DeletesInv
<1>5. /\ \A q \in Paths : overlay'[q] # None => overlay'[q].id \in Used
      /\ \A q \in Paths : known'[q] # None => known'[q].id \in Used
      /\ overlay'[p].id = r.item.id
      /\ \A q \in Paths \ {p} : overlay'[q] = overlay[q]
  BY <1>1, <1>2, <1>3, StoreTombstoneUses DEF DeletesInv
<1>6. IdsInUse'
  BY <1>4, <1>5, IdsStep DEF DeleteItem, DeletesInv, remoteVars
<1>7. client'[c].pc = "schedule" /\ client'[c].item = r.item
  BY <1>1, <1>3 DEF Become, Goto, Request, TypeInv, RequestType
<1>8. \A d \in Clients : client[d].pc = "schedule" => client'[d] = client[d]
  BY <1>1, <1>3, OthersWait
<1>9. ASSUME NEW q \in Paths, NEW i, Tombstone(q)', overlay'[q].id = i,
             remote'[i].st = "live"
      PROVE  Owed(i)'
  <2>1. CASE q = p
    BY <1>5, <1>7, <1>9, <2>1 DEF Owed
  <2>2. CASE q # p
    <3>1. Owed(i) /\ overlay[q].id = i
      BY <1>5, <1>9, <2>2 DEF DeleteItem, DeletesInv, DeleteNotForgotten, Tombstone,
         remoteVars
    <3> QED BY <1>5, <1>8, <2>2, <3>1 DEF DeleteItem, Owed
  <2> QED BY <2>1, <2>2
<1> QED BY <1>6, <1>9 DEF DeletesInv, DeleteNotForgotten, Owed

\* The request that scheduled its task has done its duty.
LEMMA OwedScheduled ==
  ASSUME TypeInv, NEW c \in Clients, NEW r, NEW k, Become(c, r, k),
         tasks' = tasks \cup {Trash(client[c])}, NEW i, Owed(i)
  PROVE  Owed(i)'
<1>1. CASE \E t \in tasks : t.kind = "trash" /\ t.id = i
  BY <1>1 DEF Owed
<1>2. CASE \E d \in Clients : client[d].pc = "schedule" /\ client[d].item.id = i
  <2>1. PICK d \in Clients : client[d].pc = "schedule" /\ client[d].item.id = i
    BY <1>2
  <2>2. CASE d = c
    <3>1. Trash(client[c]).kind = "trash" /\ Trash(client[c]).id = i
      BY <2>1, <2>2 DEF Trash
    <3> QED BY <3>1 DEF Owed
  <2>3. CASE d # c
    <3>1. client'[d] = client[d]
      BY <2>3 DEF Become, TypeInv, RequestType
    <3> QED BY <2>1, <3>1 DEF Owed
  <2> QED BY <2>2, <2>3
<1> QED BY <1>1, <1>2 DEF Owed

LEMMA DeletedUses ==
  ASSUME TypeInv, IdsInUse, NEW c \in Clients, Deleted(c)
  PROVE  /\ \A d \in Clients : Uses(client'[d], Used)
         /\ \E r, k : Become(c, r, k)
<1>1. client[c] \in Request /\ Uses(client[c], Used)
  BY ClientUses
<1>2. \A d \in Clients : Uses(client'[d], Used)
  BY <1>1, GotoStep, IdleStep DEF Deleted
<1> QED BY <1>2 DEF Deleted

LEMMA DeleteTombstoneTracked ==
  ASSUME TypeInv, DeletesInv, NEW c \in Clients, DeleteTombstone(c)
  PROVE  DeletesInv'
<1> DEFINE r == client[c]
           p == DeletePath(r)
<1>1. /\ r \in Request /\ Uses(r, Used) /\ p \in Paths /\ r.item \in Item
  BY Facts, ClientUses DEF DeleteTombstone, At, DeletePoints, ItemPoints, DeletesInv
<1>2. r.item.id \in Used
  BY <1>1, NoneIsNoRecord DEF Uses
<1>3. \A d \in Clients : Uses(client'[d], Used)
  BY DeletedUses DEF DeleteTombstone, DeletesInv
<1>4. /\ \A q \in Paths : overlay'[q] # None => overlay'[q].id \in Used
      /\ \A q \in Paths : known'[q] # None => known'[q].id \in Used
      /\ overlay'[p].id = r.item.id
      /\ \A q \in Paths \ {p} : overlay'[q] = overlay[q]
  BY <1>1, <1>2, StoreTombstoneUses DEF DeleteTombstone, DeletesInv
<1>5. IdsInUse'
  BY <1>3, <1>4, IdsStep DEF DeleteTombstone, DeletesInv, remoteVars
<1>6. PICK n, k : Become(c, n, k)
  BY DeletedUses DEF DeleteTombstone, DeletesInv
<1>7. tasks' = tasks \cup {Trash(r)}
  BY DEF DeleteTombstone
<1>8. Trash(r).kind = "trash" /\ Trash(r).id = r.item.id
  BY DEF Trash
<1>9. ASSUME NEW q \in Paths, NEW i, Tombstone(q)', overlay'[q].id = i,
             remote'[i].st = "live"
      PROVE  Owed(i)'
  <2>1. CASE q = p
    BY <1>4, <1>7, <1>8, <1>9, <2>1 DEF Owed
  <2>2. CASE q # p
    <3>1. Owed(i) /\ overlay[q].id = i
      BY <1>4, <1>9, <2>2 DEF DeleteTombstone, DeletesInv, DeleteNotForgotten, Tombstone,
         remoteVars
    <3> QED BY <1>4, <1>6, <1>7, <2>2, <3>1, OwedScheduled
  <2> QED BY <2>1, <2>2
<1> QED BY <1>5, <1>9 DEF DeletesInv, DeleteNotForgotten, Owed

LEMMA DeleteScheduleTracked ==
  ASSUME TypeInv, DeletesInv, NEW c \in Clients, DeleteSchedule(c)
  PROVE  DeletesInv'
<1>1. \A d \in Clients : Uses(client'[d], Used)
  BY DeletedUses DEF DeleteSchedule, DeletesInv
<1>2. IdsInUse'
  BY <1>1, IdsStep DEF DeleteSchedule, DeletesInv, IdsInUse, remoteVars
<1>3. PICK n, k : Become(c, n, k)
  BY DeletedUses DEF DeleteSchedule, DeletesInv
<1>4. ASSUME NEW q \in Paths, NEW i, Tombstone(q)', overlay'[q].id = i,
             remote'[i].st = "live"
      PROVE  Owed(i)'
  <2>1. overlay' = overlay /\ Owed(i) /\ overlay[q].id = i
    BY <1>4 DEF DeleteSchedule, DeletesInv, DeleteNotForgotten, Tombstone, remoteVars
  <2> QED BY <1>3, <2>1, OwedScheduled DEF DeleteSchedule
<1> QED BY <1>2, <1>4 DEF DeletesInv, DeleteNotForgotten, Owed

(***************************************************************************)
(* move: the media keeps its id under another path.                        *)
(***************************************************************************)
LEMMA MoveEntryTracked ==
  ASSUME TypeInv, DeletesInv, NEW c \in Clients, MoveEntry(c)
  PROVE  DeletesInv'
<1> DEFINE r == client[c]
           item == EntryItem(overlay[r.src])
<1>1. /\ r \in Request /\ Uses(r, Used) /\ r.pc # "schedule"
      /\ r.src \in Paths /\ r.dst \in Paths
  BY Facts, ClientUses DEF MoveEntry, At, MovePoints, DeletesInv
<1>2. item.id \in Used /\ overlay[r.src].st = "uploaded" /\ overlay[r.src].id \in Used
  BY <1>1 DEF MoveEntry, EntryItem, Uploaded, DeletesInv, IdsInUse
<1>3. Become(c, Goto(r, "moved_entry", item), FALSE)
  BY DEF MoveEntry
<1>4. \A d \in Clients : Uses(client'[d], Used)
  BY <1>1, <1>2, <1>3, GotoStep DEF DeletesInv
<1>5. \A q \in Paths : /\ overlay'[q] \in {None, overlay[q], overlay[r.src]}
                       /\ known'[q] \in {None, known[q], item}
  BY <1>1 DEF MoveEntry, TypeInv, StoreType
<1>6. IdsInUse'
  BY <1>2, <1>4, <1>5, IdsStep DEF MoveEntry, DeletesInv, IdsInUse, remoteVars
<1>7. \A q \in Paths : Tombstone(q)' => Tombstone(q) /\ overlay'[q] = overlay[q]
  BY <1>1, <1>2 DEF MoveEntry, Tombstone, TypeInv, StoreType
<1>8. DeleteNotForgotten'
  BY <1>1, <1>3, <1>7, OthersWait, TrackedStep DEF MoveEntry, DeletesInv, remoteVars
<1> QED BY <1>6, <1>8 DEF DeletesInv

LEMMA MoveRenameTracked ==
  ASSUME TypeInv, DeletesInv, NEW c \in Clients, MoveRename(c)
  PROVE  DeletesInv'
<1> DEFINE r == client[c]
           i == r.item.id
<1>1. /\ r \in Request /\ Uses(r, Used) /\ r.pc # "schedule"
      /\ r.item \in Item /\ i \in Used
  BY Facts, ClientUses DEF MoveRename, At, DeletesInv, Uses
<1>2. Become(c, Goto(r, "moved_item", r.item), FALSE)
  BY DEF MoveRename
<1>3. \A d \in Clients : Uses(client'[d], Used)
  BY <1>1, <1>2, GotoStep DEF DeletesInv
<1>4. \A j \in Ids : remote'[j].st = remote[j].st
  BY DEF MoveRename, TypeInv, RemoteType
<1>5. Used' = Used
  BY <1>4 DEF Used
<1>6. \A q \in Paths : known'[q] \in {None, known[q], r.item}
  BY DEF MoveRename, TypeInv, StoreType
<1>7. IdsInUse'
  <2>1. \A p \in Paths : known'[p] # None => known'[p].id \in Used
    BY <1>1, <1>6 DEF DeletesInv, IdsInUse
  <2>2. UNCHANGED <<overlay, listed>>
    BY DEF MoveRename
  <2> QED BY <1>3, <1>5, <2>1, <2>2, IdsGrow DEF DeletesInv, IdsInUse
<1>8. \A q \in Paths : Tombstone(q) => overlay[q].id \in Ids
  BY DEF Tombstone, TypeInv, StoreType, Entry
<1>9. DeleteNotForgotten'
  BY <1>1, <1>2, <1>4, <1>8, OthersWait, TrackedStep DEF MoveRename, DeletesInv, Tombstone
<1> QED BY <1>7, <1>9 DEF DeletesInv

(***************************************************************************)
(* list: tombstones only go.                                               *)
(***************************************************************************)
LEMMA ListBeginTracked ==
  ASSUME TypeInv, DeletesInv, NEW c \in Clients, ListBegin(c)
  PROVE  DeletesInv'
<1> DEFINE r == client[c]
           n == [r EXCEPT !.pc = "items", !.kids = overlay,
                          !.todo = {i \in Ids : r.snap[i] # None}]
<1>1. r \in Request /\ Uses(r, Used) /\ r.pc # "schedule"
  BY ClientUses DEF ListBegin, At, DeletesInv
<1>2. Uses(n, Used)
  BY <1>1 DEF Uses, Request, IdsInUse, DeletesInv
<1>3. \A d \in Clients : Uses(client'[d], Used)
  BY <1>2, BecomeUses DEF ListBegin, DeletesInv
<1> QED BY <1>1, <1>3, QuietStep DEF ListBegin, remoteVars

LEMMA ListSkipTracked ==
  ASSUME TypeInv, DeletesInv, NEW c \in Clients, NEW i \in Ids, ListSkip(c, i)
  PROVE  DeletesInv'
<1> DEFINE r == client[c]
           n == [r EXCEPT !.todo = @ \ {i}]
<1>1. r \in Request /\ Uses(r, Used) /\ r.pc # "schedule"
  BY ClientUses DEF ListSkip, At, DeletesInv
<1>2. Uses(n, Used)
  BY <1>1 DEF Uses, Request, DeletesInv
<1>3. \A d \in Clients : Uses(client'[d], Used)
  BY <1>2, BecomeUses DEF ListSkip, DeletesInv
<1> QED BY <1>1, <1>3, QuietStep DEF ListSkip, remoteVars

LEMMA ListItemTracked ==
  ASSUME TypeInv, DeletesInv, NEW c \in Clients, NEW i \in Ids, ListItem(c, i)
  PROVE  DeletesInv'
<1> DEFINE r == client[c]
           n == [r EXCEPT !.pc = "putting", !.src = r.snap[i].name, !.item = ItemOf(r.snap, i),
                          !.todo = @ \ {i}, !.kids = [@ EXCEPT ![r.snap[i].name] = None]]
<1>1. r \in Request /\ Uses(r, Used) /\ r.pc # "schedule"
  BY ClientUses DEF ListItem, At, DeletesInv
<1>2. ItemOf(r.snap, i).id \in Used
  BY <1>1, Facts DEF ListItem, ItemOf, Uses
<1>3. Uses(n, Used)
  BY <1>1, <1>2 DEF Uses, Request, DeletesInv
<1>4. \A d \in Clients : Uses(client'[d], Used)
  BY <1>3, BecomeUses DEF ListItem, DeletesInv
<1>5. \A q \in Paths : /\ overlay'[q] \in {None, overlay[q]}
                       /\ known'[q] # None => known'[q].id \in Used
  BY <1>1, <1>2 DEF ListItem, DeletesInv, IdsInUse, TypeInv, StoreType
<1>6. IdsInUse'
  BY <1>4, <1>5, IdsStep DEF ListItem, DeletesInv, IdsInUse, remoteVars
<1>7. DeleteNotForgotten'
  BY <1>1, <1>5, OthersWait, TrackedStep DEF ListItem, DeletesInv, Tombstone, remoteVars
<1> QED BY <1>6, <1>7 DEF DeletesInv

LEMMA ListRecentTracked ==
  ASSUME TypeInv, DeletesInv, NEW c \in Clients, NEW p \in Paths, ListRecent(c, p)
  PROVE  DeletesInv'
<1> DEFINE r == client[c]
           n == [r EXCEPT !.pc = "putting", !.src = p, !.item = EntryItem(r.kids[p]),
                          !.kids = [@ EXCEPT ![p] = None]]
<1>1. r \in Request /\ Uses(r, Used) /\ r.pc # "schedule"
  BY ClientUses DEF ListRecent, At, DeletesInv
<1>2. EntryItem(r.kids[p]).id \in Used
  BY <1>1 DEF ListRecent, Recent, EntryItem, Uses
<1>3. Uses(n, Used)
  BY <1>1, <1>2 DEF Uses, Request, DeletesInv
<1>4. \A d \in Clients : Uses(client'[d], Used)
  BY <1>3, BecomeUses DEF ListRecent, DeletesInv
<1>5. \A q \in Paths : /\ overlay'[q] \in {None, overlay[q]}
                       /\ known'[q] # None => known'[q].id \in Used
  BY <1>1, <1>2 DEF ListRecent, DeletesInv, IdsInUse, TypeInv, StoreType
<1>6. IdsInUse'
  BY <1>4, <1>5, IdsStep DEF ListRecent, DeletesInv, IdsInUse, remoteVars
<1>7. DeleteNotForgotten'
  BY <1>1, <1>5, OthersWait, TrackedStep DEF ListRecent, DeletesInv, Tombstone, remoteVars
<1> QED BY <1>6, <1>7 DEF DeletesInv

LEMMA ListPutTracked ==
  ASSUME TypeInv, DeletesInv, NEW c \in Clients, ListPut(c)
  PROVE  DeletesInv'
<1> DEFINE r == client[c]
           n == [r EXCEPT !.pc = "items", !.src = None, !.item = None]
<1>1. r \in Request /\ Uses(r, Used) /\ r.pc # "schedule"
  BY ClientUses DEF ListPut, At, DeletesInv
<1>2. Uses(n, Used)
  BY <1>1 DEF Uses, Request, DeletesInv
<1>3. \A d \in Clients : Uses(client'[d], Used)
  BY <1>2, BecomeUses DEF ListPut, DeletesInv
<1> QED BY <1>1, <1>3, QuietStep DEF ListPut, remoteVars

LEMMA ListEndTracked ==
  ASSUME TypeInv, DeletesInv, NEW c \in Clients, ListEnd(c)
  PROVE  DeletesInv'
<1>1. client[c].pc # "schedule"
  BY DEF ListEnd, At
<1>2. \A d \in Clients : Uses(client'[d], Used)
  BY IdleStep DEF ListEnd, DeletesInv
<1>3. \A q \in Paths : /\ overlay'[q] \in {None, overlay[q]}
                       /\ known'[q] \in {None, known[q]}
  BY DEF ListEnd
<1>4. IdsInUse'
  BY <1>2, <1>3, IdsStep DEF ListEnd, DeletesInv, IdsInUse, remoteVars
<1>5. DeleteNotForgotten'
  BY <1>1, <1>3, OthersWait, TrackedStep DEF ListEnd, DeletesInv, Tombstone, remoteVars
<1> QED BY <1>4, <1>5 DEF DeletesInv

(***************************************************************************)
(* Requests arrive.                                                        *)
(***************************************************************************)
LEMMA StatTracked ==
  ASSUME TypeInv, DeletesInv, NEW c \in Clients, NEW p \in Paths, Stat(c, p)
  PROVE  DeletesInv'
<1> DEFINE r == NewRequest("STAT", p, None, None)
<1>1. r \in Request /\ client[c].pc # "schedule"
  BY NewRequestGood DEF Stat, Arrives, Idle, NewRequest
<1>2. Uses(r, Used)
  BY NewUses
<1> HIDE DEF r
<1>3. \A d \in Clients : Uses(client'[d], Used)
  BY <1>1, <1>2, GotoStep DEF Stat, r, DeletesInv
<1> QED BY <1>1, <1>3, QuietStep DEF Stat, AskListing, remoteVars

LEMMA PutTracked ==
  ASSUME TypeInv, DeletesInv, NEW c \in Clients, NEW p \in Paths, NEW d \in Contents, Put(c, p, d)
  PROVE  DeletesInv'
<1> DEFINE r == NewRequest("PUT", p, None, d)
<1>1. r \in Request /\ client[c].pc # "schedule"
  BY NewRequestGood DEF Put, Arrives, Idle, NewRequest
<1>2. Uses(r, Used)
  BY NewUses
<1> HIDE DEF r
<1>3. \A o \in Clients : Uses(client'[o], Used)
  BY <1>1, <1>2, ResolutionUses, GotoStep, AskStep DEF Put, r, DeletesInv
<1> QED BY <1>1, <1>3, QuietStep DEF Put, AskListing, remoteVars

LEMMA DeleteTracked ==
  ASSUME TypeInv, DeletesInv, NEW c \in Clients, NEW p \in Paths, Delete(c, p)
  PROVE  DeletesInv'
<1> DEFINE r == NewRequest("DELETE", p, None, None)
<1>1. r \in Request /\ client[c].pc # "schedule"
  BY NewRequestGood DEF Delete, Arrives, Idle, NewRequest
<1>2. Uses(r, Used)
  BY NewUses
<1> HIDE DEF r
<1>3. \A d \in Clients : Uses(client'[d], Used)
  BY <1>1, <1>2, GotoStep DEF Delete, r, DeletesInv
<1> QED BY <1>1, <1>3, QuietStep DEF Delete, AskListing, remoteVars

LEMMA MoveTracked ==
  ASSUME TypeInv, DeletesInv, NEW c \in Clients, NEW p \in Paths, NEW q \in Paths, Move(c, p, q)
  PROVE  DeletesInv'
<1> DEFINE r == NewRequest("MOVE", p, q, None)
<1>1. r \in Request /\ client[c].pc # "schedule"
  BY NewRequestGood DEF Move, Arrives, Idle, NewRequest
<1>2. Uses(r, Used)
  BY NewUses
<1> HIDE DEF r
<1>3. \A d \in Clients : Uses(client'[d], Used)
  BY <1>1, <1>2, GotoStep DEF Move, r, DeletesInv
<1> QED BY <1>1, <1>3, QuietStep DEF Move, AskListing, remoteVars

LEMMA ListTracked ==
  ASSUME TypeInv, DeletesInv, NEW c \in Clients, List(c)
  PROVE  DeletesInv'
<1> DEFINE r == NewRequest("LIST", None, None, None)
<1>1. r \in Request /\ client[c].pc # "schedule"
  BY NewRequestGood DEF List, Arrives, Idle, NewRequest
<1>2. Uses(r, Used)
  BY NewUses
<1> HIDE DEF r
<1>3. \A d \in Clients : Uses(client'[d], Used)
  BY <1>1, <1>2, AskStep DEF List, r, DeletesInv
<1> QED BY <1>1, <1>3, QuietStep DEF List, AskListing, remoteVars

(***************************************************************************)
(* Background tasks: one ends when its media is trashed.                   *)
(***************************************************************************)

LEMMA TrashDoneTracked ==
  ASSUME TypeInv, DeletesInv, NEW t \in tasks, TrashDone(t)
  PROVE  DeletesInv'
<1>1. t.id \in Ids /\ t.path \in Paths
  BY DEF Task, TypeInv, StoreType
<1>2. /\ \A i \in Ids : remote'[i].st = (IF i = t.id THEN "trashed" ELSE remote[i].st)
      /\ remote[t.id].st # "free"
  BY <1>1 DEF TrashDone, TypeInv, RemoteType
<1>3. Used' = Used
  BY <1>2 DEF Used
<1>4. \A p \in Paths : /\ overlay'[p] # None => overlay[p] # None
                       /\ overlay'[p] # None => overlay'[p].id = overlay[p].id
                       /\ Tombstone(p)' => Tombstone(p) /\ overlay[p].id \in Ids
  <2>1. CASE Tombstone(t.path)
    <3>1. overlay[t.path] \in Entry
      BY <1>1, <2>1 DEF Tombstone, TypeInv, StoreType
    <3>2. LET e == [overlay[t.path] EXCEPT !.gone = TRUE] IN
            e.id = overlay[t.path].id /\ e.st = overlay[t.path].st
      BY <3>1 DEF Entry
    <3>3. \A p \in Paths : overlay'[p] = IF p = t.path
            THEN [overlay[t.path] EXCEPT !.gone = TRUE] ELSE overlay[p]
      BY <2>1 DEF TrashDone, TypeInv, StoreType
    <3> QED BY <2>1, <3>2, <3>3 DEF Tombstone, TypeInv, StoreType, Entry
  <2>2. CASE ~Tombstone(t.path)
    BY <2>2 DEF TrashDone, Tombstone, TypeInv, StoreType, Entry
  <2> QED BY <2>1, <2>2
<1>5. IdsInUse'
  BY <1>3, <1>4, IdsGrow DEF TrashDone, DeletesInv, IdsInUse
<1>6. ASSUME NEW p \in Paths, NEW i, Tombstone(p)', overlay'[p].id = i,
             remote'[i].st = "live"
      PROVE  Owed(i)'
  <2>1. Tombstone(p) /\ overlay[p].id = i /\ i \in Ids
    BY <1>4, <1>6 DEF Tombstone
  <2>2. i # t.id /\ remote[i].st = "live"
    BY <1>2, <1>6, <2>1
  <2>3. Owed(i)
    BY <2>1, <2>2 DEF DeletesInv, DeleteNotForgotten
  <2> QED BY <2>2, <2>3 DEF TrashDone, Owed
<1> QED BY <1>5, <1>6 DEF DeletesInv, DeleteNotForgotten, Owed

LEMMA RenameDoneTracked ==
  ASSUME TypeInv, DeletesInv, NEW t \in tasks, RenameDone(t)
  PROVE  DeletesInv'
<1>1. /\ \A i \in Ids : remote'[i].st = remote[i].st
  BY DEF RenameDone, TypeInv, RemoteType
<1>2. Used' = Used
  BY <1>1 DEF Used
<1>3. IdsInUse'
  BY <1>2, IdsGrow DEF RenameDone, DeletesInv, IdsInUse
<1>4. ASSUME NEW p \in Paths, NEW i, Tombstone(p)', overlay'[p].id = i,
             remote'[i].st = "live"
      PROVE  Owed(i)'
  <2>1. Tombstone(p) /\ overlay[p].id = i /\ i \in Ids
    BY <1>4 DEF RenameDone, Tombstone, TypeInv, StoreType, Entry
  <2>2. Owed(i)
    BY <1>1, <1>4, <2>1 DEF DeletesInv, DeleteNotForgotten
  <2> QED BY <2>2 DEF RenameDone, Owed
<1> QED BY <1>3, <1>4 DEF DeletesInv, DeleteNotForgotten, Owed

\* Where retry budgets last, only a trashed media's task fails.
LEMMA TaskFailsTracked ==
  ASSUME ~Failures, TypeInv, DeletesInv, NEW t \in tasks, TaskFails(t)
  PROVE  DeletesInv'
<1>1. IdsInUse'
  BY DEF TaskFails, DeletesInv, IdsInUse, Used, remoteVars
<1>2. ASSUME NEW p \in Paths, NEW i, Tombstone(p)', overlay'[p].id = i,
             remote'[i].st = "live"
      PROVE  Owed(i)'
  <2>1. Tombstone(p) /\ overlay[p].id = i /\ remote[i].st = "live"
    BY <1>2 DEF TaskFails, Tombstone, remoteVars
  <2>2. Owed(i)
    BY <2>1 DEF DeletesInv, DeleteNotForgotten
  <2>3. t.id # i
    BY <2>1 DEF TaskFails
  <2> QED BY <2>2, <2>3 DEF TaskFails, Owed
<1> QED BY <1>1, <1>2 DEF DeletesInv, DeleteNotForgotten, Owed

(***************************************************************************)
(* The provider, time and restarts.                                        *)
(***************************************************************************)
\* What neither the requests nor the tasks take part in.
LEMMA TimeStep ==
  ASSUME DeletesInv, UNCHANGED <<remote, client, tasks>>,
         \A p \in Paths : /\ overlay'[p] \in {None, overlay[p]}
                          /\ known'[p] \in {None, known[p]},
         \A i \in Ids : listed'[i] # None => i \in Used
  PROVE  DeletesInv'
<1>1. Used' = Used
  BY DEF Used
<1>2. IdsInUse'
  BY <1>1, IdsGrow DEF DeletesInv, IdsInUse
<1>3. DeleteNotForgotten'
  BY TrackedStep DEF DeletesInv, Tombstone
<1> QED BY <1>2, <1>3 DEF DeletesInv

LEMMA EnvironmentTracked ==
  ASSUME TypeInv, DeletesInv, Environment
  PROVE  DeletesInv'
<1>1. ASSUME NEW i \in Ids, Validated(i) PROVE DeletesInv'
  BY <1>1, TimeStep DEF Validated, DeletesInv, IdsInUse
<1>2. ASSUME NEW i \in Ids, Shows(i) PROVE DeletesInv'
  <2>1. \A j \in Ids : listed'[j] # None => j \in Used
    BY <1>2 DEF Shows, DeletesInv, IdsInUse, Used, TypeInv, RemoteType, Listing
  <2> QED BY <1>2, <2>1, TimeStep DEF Shows
<1>3. ASSUME NEW i \in Ids, HiddenExpires(i) PROVE DeletesInv'
  BY <1>3, TimeStep DEF HiddenExpires, remoteVars, DeletesInv, IdsInUse
<1>4. ASSUME NEW p \in Paths, CacheExpires(p) PROVE DeletesInv'
  BY <1>4, TimeStep DEF CacheExpires, remoteVars, DeletesInv, IdsInUse
<1>5. ASSUME NEW p \in Paths, EntryExpires(p) PROVE DeletesInv'
  BY <1>5, TimeStep DEF EntryExpires, remoteVars, DeletesInv, IdsInUse, TypeInv, StoreType
<1>6. CASE Restart
  <2>1. Used' = Used
    BY <1>6 DEF Restart, Used, remoteVars
  <2>2. IdsInUse'
    BY <1>6, <2>1, IdleUses, IdsGrow DEF Restart, DeletesInv, IdsInUse, remoteVars
  <2>3. DeleteNotForgotten'
    BY <1>6 DEF Restart, DeleteNotForgotten, Tombstone
  <2> QED BY <2>2, <2>3 DEF DeletesInv
<1> QED BY <1>1, <1>2, <1>3, <1>4, <1>5, <1>6 DEF Environment

LEMMA InitTracked == Init => DeletesInv
<1> SUFFICES ASSUME Init PROVE DeletesInv
  OBVIOUS
<1>1. IdsInUse
  BY IdleUses DEF Init, IdsInUse, Used
<1>2. DeleteNotForgotten
  BY DEF Init, DeleteNotForgotten, Tombstone
<1> QED BY <1>1, <1>2 DEF DeletesInv

LEMMA NextTracked ==
  ASSUME ~Failures, TypeInv, DeletesInv, [Next]_vars
  PROVE  DeletesInv'
<1>1. ASSUME NEW c \in Clients, NewRequests(c) PROVE DeletesInv'
  BY <1>1, StatTracked, PutTracked, DeleteTracked, MoveTracked, ListTracked DEF NewRequests
<1>2. ASSUME NEW c \in Clients, Continue(c) PROVE DeletesInv'
  BY <1>2, StatMissTracked, StatListedTracked, StatAnswerTracked,
     StatAbsentTracked, PutListedTracked, UploadNewTracked,
     UploadOverTracked, UploadRefusedTracked, PublishTracked,
     DeleteAgainTracked, DeleteRecentTracked, DeleteLookupTracked,
     DeleteListedTracked, DeleteMissingTracked, DeleteItemTracked,
     DeleteTombstoneTracked, DeleteScheduleTracked, MoveEntryTracked,
     MoveLookupTracked, MoveListedTracked, MoveRenameTracked,
     MoveRefusedTracked, PublishMoveTracked, ListBeginTracked,
     ListPutTracked, ListEndTracked, ListSkipTracked, ListItemTracked,
     ListRecentTracked DEF Continue
<1>3. CASE Background
  BY <1>3, TrashDoneTracked, RenameDoneTracked, TaskFailsTracked DEF Background
<1>4. CASE Environment
  BY <1>4, EnvironmentTracked
<1>5. CASE UNCHANGED vars
  <2>1. UNCHANGED <<overlay, known, client, tasks, remote, listed>>
    BY <1>5 DEF vars, remoteVars
  <2> QED BY <2>1, TimeStep DEF DeletesInv, IdsInUse
<1> QED BY <1>1, <1>2, <1>3, <1>4, <1>5 DEF Next

(***************************************************************************)
(* While the retry budgets last (_retry_while_not_validated, store.py), a  *)
(* tombstone whose media lives always has a background task that will      *)
(* trash it, or a request that is about to schedule one - whatever the     *)
(* interleaving of requests, even of one path, moves, expiry and restarts. *)
(***************************************************************************)
THEOREM DeletesAreTracked ==
  ASSUME ~Failures
  PROVE  Spec => []DeleteNotForgotten
<1>1. Init => TypeInv /\ DeletesInv
  BY InitType, InitTracked
<1>2. TypeInv /\ DeletesInv /\ [Next]_vars => (TypeInv /\ DeletesInv)'
  BY NextType, NextTracked
<1>3. TypeInv /\ DeletesInv => DeleteNotForgotten
  BY DEF DeletesInv
<1> QED BY <1>1, <1>2, <1>3, PTL DEF Spec

-----------------------------------------------------------------------------
(***************************************************************************)
(* Without moves every media has one path for life, its home, given when   *)
(* it is uploaded.  Whatever the store, the provider, a request or a task  *)
(* remembers at a path is at home there.  A media that is not used has no  *)
(* home (DupName), and a duplicate is listed under no path.                *)
(***************************************************************************)
HomeRequest(r, h) ==
    /\ r.kind # "MOVE"
    /\ r.item # None => r.src \in Paths /\ h[r.item.id] = r.src
    /\ \A i \in Ids : r.snap[i] # None => r.snap[i].name \in {DupName, h[i]}
    /\ \A p \in Paths : r.kids[p] # None => h[r.kids[p].id] = p

Homeless(h) == \A i \in Ids : remote[i].st = "free" => h[i] = DupName

AtHome(h) ==
    /\ \A i \in Ids : remote[i].name \in {DupName, h[i]}
    /\ \A i \in Ids : listed[i] # None => listed[i].name \in {DupName, h[i]}
    /\ \A p \in Paths : overlay[p] # None => h[overlay[p].id] = p
    /\ \A p \in Paths : known[p] # None => h[known[p].id] = p
    /\ \A t \in tasks : t.kind = "trash" /\ h[t.id] = t.path
    /\ \A c \in Clients : HomeRequest(client[c], h)

(***************************************************************************)
(* How requests keep to their homes.                                       *)
(***************************************************************************)
LEMMA HomeStep ==
  ASSUME NEW h, AtHome(h), UNCHANGED <<remote, listed>>,
         \A p \in Paths : overlay'[p] # None => h[overlay'[p].id] = p,
         \A p \in Paths : known'[p] # None => h[known'[p].id] = p,
         \A t \in tasks' : t.kind = "trash" /\ h[t.id] = t.path,
         \A d \in Clients : HomeRequest(client'[d], h)
  PROVE  AtHome(h)'
  BY DEF AtHome, HomeRequest

LEMMA ClientHome ==
  ASSUME TypeInv, NEW h, AtHome(h), NEW c \in Clients
  PROVE  client[c] \in Request /\ HomeRequest(client[c], h)
  BY DEF TypeInv, RequestType, AtHome

LEMMA BecomeHome ==
  ASSUME TypeInv, NEW h, AtHome(h), NEW c \in Clients, NEW r, NEW k,
         HomeRequest(r, h), Become(c, r, k)
  PROVE  \A d \in Clients : HomeRequest(client'[d], h)
  BY DEF Become, TypeInv, RequestType, AtHome

LEMMA NewHome ==
  ASSUME NEW h, NEW k, k # "MOVE", NEW p, NEW q, NEW d
  PROVE  HomeRequest(NewRequest(k, p, q, d), h)
  BY DEF HomeRequest, NewRequest, NoList, NoKids

LEMMA IdleHome == \A h : HomeRequest(Idle, h)
  BY NewHome DEF Idle

LEMMA GotoHome ==
  ASSUME NEW h, NEW r \in Request, HomeRequest(r, h), NEW pc, NEW item,
         item # None => r.src \in Paths /\ h[item.id] = r.src
  PROVE  HomeRequest(Goto(r, pc, item), h)
<1>1. /\ Goto(r, pc, item).item = item /\ Goto(r, pc, item).snap = NoList
      /\ Goto(r, pc, item).kids = r.kids /\ Goto(r, pc, item).kind = r.kind
      /\ Goto(r, pc, item).src = r.src
  BY DEF Goto, Request
<1> QED BY <1>1 DEF HomeRequest, NoList

LEMMA GotoHomeStep ==
  ASSUME TypeInv, NEW h, AtHome(h), NEW c \in Clients, NEW r \in Request,
         HomeRequest(r, h), NEW pc, NEW item,
         item # None => r.src \in Paths /\ h[item.id] = r.src, NEW k,
         Become(c, Goto(r, pc, item), k)
  PROVE  \A d \in Clients : HomeRequest(client'[d], h)
  BY GotoHome, BecomeHome

LEMMA AskHomeStep ==
  ASSUME TypeInv, NEW h, AtHome(h), NEW c \in Clients, NEW r \in Request,
         HomeRequest(r, h), NEW pc, AskListing(c, r, pc)
  PROVE  \A d \in Clients : HomeRequest(client'[d], h)
<1> DEFINE n == [r EXCEPT !.pc = pc, !.snap = listed]
<1>1. n.item = r.item /\ n.snap = listed /\ n.kids = r.kids /\ n.kind = r.kind /\ n.src = r.src
  BY DEF Request
<1>2. HomeRequest(n, h)
  BY <1>1 DEF HomeRequest, AtHome
<1> QED BY <1>2, BecomeHome DEF AskListing

LEMMA IdleHomeStep ==
  ASSUME TypeInv, NEW h, AtHome(h), NEW c \in Clients, Become(c, Idle, FALSE)
  PROVE  \A d \in Clients : HomeRequest(client'[d], h)
  BY IdleHome, BecomeHome

LEMMA ResolutionHome ==
  ASSUME TypeInv, NEW h, AtHome(h), NEW p \in Paths
  PROVE  Resolution(p) # None => h[Resolution(p).id] = p
<1>1. overlay[p] # None => EntryItem(overlay[p]).id = overlay[p].id
  BY DEF EntryItem
<1> QED BY <1>1 DEF AtHome, Resolution, Uploaded, Tombstone

\* What a listing shows at a path is at home there, and hidden by nothing.
LEMMA PickHome ==
  ASSUME NEW h, NEW r, HomeRequest(r, h), NEW pick \in Picks(r.snap),
         NEW q \in Paths, pick[q] # None
  PROVE  /\ ItemOf(r.snap, pick[q]).id = pick[q] /\ pick[q] \in Ids
         /\ h[pick[q]] = q /\ pick[q] \notin hidden
<1>1. pick[q] \in ShownAt(r.snap, q)
  BY DEF Picks
<1>2. q # DupName
  BY ConstantsAssumption
<1> QED BY <1>1, <1>2 DEF ShownAt, ItemOf, HomeRequest

\* A lookup that was answered.
LEMMA AnsweredHome ==
  ASSUME TypeInv, NEW h, AtHome(h), NEW c \in Clients, NEW p \in Paths,
         p = client[c].src, NEW k, NEW pf, NEW pm, Answered(c, p, pf, pm, k)
  PROVE  /\ \A d \in Clients : HomeRequest(client'[d], h)
         /\ \A q \in Paths : known'[q] # None => h[known'[q].id] = q
         /\ \A q \in Paths : \/ known'[q] = known[q]
                             \/ overlay[q] = None /\ known'[q].id \notin hidden
         /\ \A d \in Clients \ {c} : client'[d] = client[d]
         /\ client'[c].pc \in {pf, pm} /\ client'[c].src = client[c].src
         /\ client'[c].item = None \/ client'[c].item.id \notin hidden
<1> DEFINE r == client[c]
<1>1. r \in Request /\ HomeRequest(r, h)
  BY ClientHome
<1>2. PICK pick \in Picks(r.snap) :
        /\ Absorb(r.snap, pick)
        /\ Become(c, Goto(r, IF Found(r.snap, pick, p) = None THEN pm ELSE pf,
                             Found(r.snap, pick, p)), k)
  BY DEF Answered
<1>3. \A q \in Paths : pick[q] # None =>
          /\ ItemOf(r.snap, pick[q]).id = pick[q]
          /\ h[pick[q]] = q /\ pick[q] \notin hidden
  BY <1>1, PickHome
<1>4. \A q \in Paths : \/ known'[q] = known[q]
                       \/ /\ overlay[q] = None /\ known'[q].id \notin hidden
                          /\ h[known'[q].id] = q
  BY <1>2, <1>3 DEF Absorb
<1>5. Found(r.snap, pick, p) # None =>
          h[Found(r.snap, pick, p).id] = p /\ Found(r.snap, pick, p).id \notin hidden
  BY <1>3 DEF Found
<1>6. \A d \in Clients : HomeRequest(client'[d], h)
  BY <1>1, <1>2, <1>5, GotoHomeStep
<1> DEFINE found == Found(r.snap, pick, p)
           n == Goto(r, IF found = None THEN pm ELSE pf, found)
<1>7. n.item = found /\ n.pc \in {pf, pm} /\ n.src = r.src
  BY <1>1 DEF Goto, Request
<1>8. Become(c, n, k)
  BY <1>2
<1> HIDE DEF found, n
<1>9. n.item # None => h[n.item.id] = p /\ n.item.id \notin hidden
  BY <1>5, <1>7 DEF found
<1>10. client'[c] = n /\ \A d \in Clients \ {c} : client'[d] = client[d]
  BY <1>8 DEF Become, TypeInv, RequestType
<1> QED BY <1>4, <1>6, <1>7, <1>9, <1>10 DEF AtHome

\* A request without a destination is one of its source.
LEMMA Unmoved ==
  ASSUME TypeInv, NEW h, AtHome(h), NEW c \in Clients
  PROVE  /\ client[c].pc \notin MovePoints
         /\ StatPath(client[c]) = client[c].src
         /\ DeletePath(client[c]) = client[c].src
         /\ client[c].pc \in StatPoints \cup PutPoints \cup DeletePoints =>
                client[c].src \in Paths
<1>1. HomeRequest(client[c], h)
  BY DEF AtHome
<1>2. client[c].kind # "MOVE"
  BY <1>1 DEF HomeRequest
<1> QED BY <1>2, Facts DEF StatPath, DeletePath

LEMMA QuietHome ==
  ASSUME TypeInv, NEW h, AtHome(h), \A d \in Clients : HomeRequest(client'[d], h),
         UNCHANGED <<overlay, known, remote, listed, tasks>>
  PROVE  AtHome(h)'
  BY HomeStep DEF AtHome

(***************************************************************************)
(* Every step leaves every media at home.                                  *)
(***************************************************************************)
LEMMA StatMissHome ==
  ASSUME TypeInv, NEW h, AtHome(h), NEW c \in Clients, StatMiss(c)
  PROVE  AtHome(h)'
<1>1. /\ client[c] \in Request /\ HomeRequest(client[c], h)
      /\ StatPath(client[c]) = client[c].src /\ client[c].src \in Paths
  BY ClientHome, Unmoved DEF StatMiss, At, StatPoints
<1>2. \A d \in Clients : HomeRequest(client'[d], h)
  BY <1>1, ResolutionHome, GotoHomeStep, AskHomeStep DEF StatMiss
<1> QED BY <1>2, QuietHome DEF StatMiss, remoteVars

LEMMA LookupHome ==
  ASSUME TypeInv, NEW h, AtHome(h), NEW c \in Clients, client[c].src \in Paths,
         NEW k, NEW pf, NEW pm, Answered(c, client[c].src, pf, pm, k),
         UNCHANGED <<overlay, remote, listed, tasks>>
  PROVE  AtHome(h)'
<1>1. /\ \A d \in Clients : HomeRequest(client'[d], h)
      /\ \A q \in Paths : known'[q] # None => h[known'[q].id] = q
  BY AnsweredHome
<1> QED BY <1>1, HomeStep DEF AtHome

LEMMA StatAnswerHome ==
  ASSUME TypeInv, NEW h, AtHome(h), NEW c \in Clients, StatAnswer(c) \/ StatAbsent(c)
  PROVE  AtHome(h)'
<1>1. client[c] \in Request /\ HomeRequest(client[c], h)
  BY ClientHome
<1>2. \A d \in Clients : HomeRequest(client'[d], h)
  BY <1>1, GotoHomeStep, IdleHomeStep DEF StatAnswer, StatAbsent
<1> QED BY <1>2, QuietHome DEF StatAnswer, StatAbsent, remoteVars

LEMMA LookupsHome ==
  ASSUME TypeInv, NEW h, AtHome(h), NEW c \in Clients,
         StatListed(c) \/ PutListed(c) \/ DeleteListed(c)
  PROVE  AtHome(h)'
<1>1. /\ StatPath(client[c]) = client[c].src /\ DeletePath(client[c]) = client[c].src
      /\ client[c].src \in Paths
  BY Unmoved DEF StatListed, PutListed, DeleteListed, At, StatPoints, PutPoints, DeletePoints
<1> QED BY <1>1, LookupHome DEF StatListed, PutListed, DeleteListed, remoteVars

LEMMA EndsHome ==
  ASSUME TypeInv, NEW h, AtHome(h), NEW c \in Clients,
         UploadRefused(c) \/ Publish(c) \/ DeleteMissing(c)
  PROVE  AtHome(h)'
<1>1. \A d \in Clients : HomeRequest(client'[d], h)
  BY IdleHomeStep DEF UploadRefused, Publish, DeleteMissing
<1> QED BY <1>1, QuietHome DEF UploadRefused, Publish, DeleteMissing, remoteVars

LEMMA StoreUploadedHome ==
  ASSUME TypeInv, NEW h, AtHome(h), NEW c \in Clients, NEW i \in Ids,
         StoreUploaded(c, i), client[c].src \in Paths, h[i] = client[c].src
  PROVE  /\ \A p \in Paths : overlay'[p] # None => h[overlay'[p].id] = p
         /\ \A p \in Paths : known'[p] # None => h[known'[p].id] = p
         /\ \A d \in Clients : HomeRequest(client'[d], h)
<1> DEFINE r == client[c]
           item == [id |-> i, content |-> r.content]
<1>1. r \in Request /\ HomeRequest(r, h)
  BY ClientHome
<1>2. Become(c, Goto(r, "publish", item), FALSE) /\ item.id = i
  BY DEF StoreUploaded
<1>3. \A d \in Clients : HomeRequest(client'[d], h)
  BY <1>1, <1>2, GotoHomeStep
<1>4. \A p \in Paths : overlay'[p] # None => h[overlay'[p].id] = p
  BY DEF StoreUploaded, AtHome, TypeInv, StoreType
<1>5. \A p \in Paths : known'[p] # None => h[known'[p].id] = p
  BY DEF StoreUploaded, AtHome, TypeInv, StoreType
<1> QED BY <1>3, <1>4, <1>5

\* A media nothing remembers may be given a home.
LEMMA Settle ==
  ASSUME TypeInv, NEW h \in [Ids -> Paths \cup {DupName}], AtHome(h), NEW i \in Ids,
         h[i] = DupName, NEW p \in Paths
  PROVE  AtHome([h EXCEPT ![i] = p])
<1> DEFINE g == [h EXCEPT ![i] = p]
<1>1. \A j \in Ids : g[j] = IF j = i THEN p ELSE h[j]
  OBVIOUS
<1>2. DupName \notin Paths
  BY ConstantsAssumption
<1>3. \A q \in Paths : /\ overlay[q] # None => overlay[q].id \in Ids
                       /\ known[q] # None => known[q].id \in Ids
  BY DEF TypeInv, StoreType, Entry, Item
<1>4. \A t \in tasks : t.id \in Ids /\ t.path \in Paths
  BY DEF TypeInv, StoreType, Task
<1>5. ASSUME NEW c \in Clients PROVE HomeRequest(client[c], g)
  <2>1. client[c] \in Request /\ HomeRequest(client[c], h)
    BY ClientHome
  <2>2. client[c].item # None => client[c].item.id \in Ids
    BY <2>1 DEF Request, Item
  <2>3. \A q \in Paths : client[c].kids[q] # None => client[c].kids[q].id \in Ids
    BY <2>1 DEF Request, Entry
  <2>4. \A j \in Ids : client[c].snap[j] # None => client[c].snap[j].name \in {DupName, g[j]}
    BY <1>1, <2>1 DEF HomeRequest
  <2> QED BY <1>1, <1>2, <2>1, <2>2, <2>3, <2>4 DEF HomeRequest
<1>6. \A q \in Paths : overlay[q] # None => g[overlay[q].id] = q
  BY <1>1, <1>2, <1>3 DEF AtHome
<1>7. \A q \in Paths : known[q] # None => g[known[q].id] = q
  BY <1>1, <1>2, <1>3 DEF AtHome
<1>8. \A t \in tasks : t.kind = "trash" /\ g[t.id] = t.path
  BY <1>1, <1>2, <1>4 DEF AtHome
<1>9. /\ \A j \in Ids : remote[j].name \in {DupName, g[j]}
      /\ \A j \in Ids : listed[j] # None => listed[j].name \in {DupName, g[j]}
  BY <1>1 DEF AtHome
<1> QED BY <1>5, <1>6, <1>7, <1>8, <1>9 DEF AtHome

LEMMA UploadNewHome ==
  ASSUME TypeInv, NEW h \in [Ids -> Paths \cup {DupName}], AtHome(h), Homeless(h),
         NEW c \in Clients, NEW i \in Ids, NEW name \in {DupName, client[c].src},
         client[c].src \in Paths, remote[i].st = "free",
         remote' = [remote EXCEPT ![i] =
               [st |-> "live", name |-> name, content |-> client[c].content]],
         StoreUploaded(c, i), UNCHANGED <<listed, tasks>>
  PROVE  \E g \in [Ids -> Paths \cup {DupName}] :
             /\ g = [h EXCEPT ![i] = client[c].src]
             /\ AtHome(g)' /\ Homeless(g)'
<1>1. h[i] = DupName
  BY DEF Homeless
<1>0. PICK g \in [Ids -> Paths \cup {DupName}] : g = [h EXCEPT ![i] = client[c].src]
  OBVIOUS
<1>2. AtHome(g) /\ g[i] = client[c].src /\ \A j \in Ids \ {i} : g[j] = h[j]
  BY <1>0, <1>1, Settle
<1>3. /\ \A p \in Paths : overlay'[p] # None => g[overlay'[p].id] = p
      /\ \A p \in Paths : known'[p] # None => g[known'[p].id] = p
      /\ \A d \in Clients : HomeRequest(client'[d], g)
  BY <1>2, StoreUploadedHome
<1>4. \A j \in Ids : /\ remote'[j].name \in {DupName, g[j]}
                     /\ remote'[j].st = "free" => g[j] = DupName
  BY <1>2 DEF Homeless, AtHome, TypeInv, RemoteType
<1>5. AtHome(g)'
  BY <1>2, <1>3, <1>4 DEF AtHome
<1>6. Homeless(g)'
  BY <1>4 DEF Homeless
<1> QED BY <1>0, <1>5, <1>6

LEMMA UploadOverHome ==
  ASSUME TypeInv, NEW h, AtHome(h), NEW c \in Clients, UploadOver(c)
  PROVE  AtHome(h)'
<1> DEFINE i == client[c].item.id
<1>1. client[c] \in Request /\ HomeRequest(client[c], h)
  BY ClientHome
<1>2. client[c].src \in Paths /\ i \in Ids /\ h[i] = client[c].src
  BY <1>1 DEF UploadOver, HomeRequest, Request, Item
<1>3. /\ \A p \in Paths : overlay'[p] # None => h[overlay'[p].id] = p
      /\ \A p \in Paths : known'[p] # None => h[known'[p].id] = p
      /\ \A d \in Clients : HomeRequest(client'[d], h)
  BY <1>2, StoreUploadedHome DEF UploadOver
<1>4. \A j \in Ids : remote'[j].name \in {DupName, h[j]}
  BY <1>2 DEF UploadOver, AtHome, TypeInv, RemoteType
<1> QED BY <1>3, <1>4 DEF UploadOver, AtHome

(***************************************************************************)
(* delete                                                                  *)
(***************************************************************************)
LEMMA DeletedHome ==
  ASSUME TypeInv, NEW h, AtHome(h), NEW c \in Clients, Deleted(c)
  PROVE  Become(c, Idle, FALSE) /\ \A d \in Clients : HomeRequest(client'[d], h)
<1>1. client[c].kind # "MOVE"
  BY DEF AtHome, HomeRequest
<1>2. Become(c, Idle, FALSE)
  BY <1>1 DEF Deleted
<1> QED BY <1>2, IdleHomeStep

LEMMA DeleteAgainHome ==
  ASSUME TypeInv, NEW h, AtHome(h), NEW c \in Clients, DeleteAgain(c)
  PROVE  AtHome(h)'
  BY DeletedHome, QuietHome DEF DeleteAgain, remoteVars

LEMMA DeleteRecentHome ==
  ASSUME TypeInv, NEW h, AtHome(h), NEW c \in Clients, DeleteRecent(c)
  PROVE  AtHome(h)'
<1> DEFINE r == client[c]
           p == r.src
<1>1. r \in Request /\ HomeRequest(r, h) /\ p \in Paths /\ DeletePath(r) = p
  BY ClientHome, Unmoved DEF DeleteRecent, At, DeletePoints
<1>2. h[EntryItem(overlay[p]).id] = p
  BY <1>1 DEF DeleteRecent, Uploaded, EntryItem, AtHome
<1>3. \A d \in Clients : HomeRequest(client'[d], h)
  BY <1>1, <1>2, GotoHomeStep DEF DeleteRecent
<1>4. \A q \in Paths : /\ overlay'[q] \in {None, overlay[q]}
                       /\ known'[q] \in {None, known[q]}
  BY DEF DeleteRecent, TypeInv, StoreType
<1> QED BY <1>3, <1>4, HomeStep DEF DeleteRecent, AtHome, remoteVars

LEMMA DeleteLookupHome ==
  ASSUME TypeInv, NEW h, AtHome(h), NEW c \in Clients, DeleteLookup(c)
  PROVE  AtHome(h)'
<1> DEFINE r == client[c]
           p == r.src
<1>1. r \in Request /\ HomeRequest(r, h) /\ p \in Paths /\ DeletePath(r) = p
  BY ClientHome, Unmoved DEF DeleteLookup, At, DeletePoints
<1>2. known[p] # None => h[known[p].id] = p
  BY <1>1 DEF AtHome
<1>3. \A d \in Clients : HomeRequest(client'[d], h)
  BY <1>1, <1>2, GotoHomeStep, AskHomeStep DEF DeleteLookup
<1> QED BY <1>3, QuietHome DEF DeleteLookup, remoteVars

LEMMA StoreTombstoneHome ==
  ASSUME TypeInv, NEW h, AtHome(h), NEW p \in Paths, NEW item, h[item.id] = p,
         StoreTombstone(p, item)
  PROVE  /\ \A q \in Paths : overlay'[q] # None => h[overlay'[q].id] = q
         /\ \A q \in Paths : known'[q] # None => h[known'[q].id] = q
<1>1. /\ \A q \in Paths \ {p} : overlay'[q] = overlay[q] /\ known'[q] = known[q]
      /\ overlay'[p].id = item.id /\ known'[p] = None
  BY DEF StoreTombstone, TypeInv, StoreType
<1> QED BY <1>1 DEF AtHome

\* A request with an item, about to delete it.
LEMMA DeletingHome ==
  ASSUME TypeInv, NEW h, AtHome(h), NEW c \in Clients, client[c].item # None,
         client[c].pc \in DeletePoints
  PROVE  /\ client[c] \in Request /\ HomeRequest(client[c], h)
         /\ DeletePath(client[c]) = client[c].src /\ client[c].src \in Paths
         /\ h[client[c].item.id] = client[c].src
         /\ Trash(client[c]).kind = "trash"
         /\ Trash(client[c]).id = client[c].item.id
         /\ Trash(client[c]).path = client[c].src
<1>1. /\ client[c] \in Request /\ HomeRequest(client[c], h)
      /\ DeletePath(client[c]) = client[c].src /\ client[c].src \in Paths
  BY ClientHome, Unmoved
<1> QED BY <1>1 DEF HomeRequest, Trash

LEMMA DeleteItemHome ==
  ASSUME TypeInv, NEW h, AtHome(h), NEW c \in Clients, DeleteItem(c)
  PROVE  AtHome(h)'
<1> DEFINE r == client[c]
           p == r.src
<1>1. /\ r \in Request /\ HomeRequest(r, h) /\ p \in Paths /\ DeletePath(r) = p
      /\ h[r.item.id] = p
  BY DeletingHome DEF DeleteItem, At, DeletePoints
<1>2. \A d \in Clients : HomeRequest(client'[d], h)
  BY <1>1, GotoHomeStep DEF DeleteItem
<1>3. /\ \A q \in Paths : overlay'[q] # None => h[overlay'[q].id] = q
      /\ \A q \in Paths : known'[q] # None => h[known'[q].id] = q
  BY <1>1, StoreTombstoneHome DEF DeleteItem
<1> QED BY <1>2, <1>3, HomeStep DEF DeleteItem, AtHome, remoteVars

LEMMA DeleteTombstoneHome ==
  ASSUME TypeInv, NEW h, AtHome(h), NEW c \in Clients, DeleteTombstone(c)
  PROVE  AtHome(h)'
<1> DEFINE r == client[c]
           p == r.src
<1>1. r.item # None
  BY Facts, NoneIsNoRecord DEF DeleteTombstone, At, ItemPoints
<1>2. /\ p \in Paths /\ DeletePath(r) = p /\ h[r.item.id] = p
      /\ Trash(r).kind = "trash" /\ Trash(r).id = r.item.id /\ Trash(r).path = p
  BY <1>1, DeletingHome DEF DeleteTombstone, At, DeletePoints
<1>3. \A d \in Clients : HomeRequest(client'[d], h)
  BY DeletedHome DEF DeleteTombstone
<1>4. /\ \A q \in Paths : overlay'[q] # None => h[overlay'[q].id] = q
      /\ \A q \in Paths : known'[q] # None => h[known'[q].id] = q
  BY <1>2, StoreTombstoneHome DEF DeleteTombstone
<1>5. \A t \in tasks' : t.kind = "trash" /\ h[t.id] = t.path
  BY <1>2 DEF DeleteTombstone, AtHome
<1> QED BY <1>3, <1>4, <1>5, HomeStep DEF DeleteTombstone, remoteVars

LEMMA DeleteScheduleHome ==
  ASSUME TypeInv, NEW h, AtHome(h), NEW c \in Clients, DeleteSchedule(c)
  PROVE  AtHome(h)'
<1> DEFINE r == client[c]
           p == r.src
<1>1. r.item # None
  BY Facts, NoneIsNoRecord DEF DeleteSchedule, At, ItemPoints
<1>2. /\ p \in Paths /\ DeletePath(r) = p /\ h[r.item.id] = p
      /\ Trash(r).kind = "trash" /\ Trash(r).id = r.item.id /\ Trash(r).path = p
  BY <1>1, DeletingHome DEF DeleteSchedule, At, DeletePoints
<1>3. \A d \in Clients : HomeRequest(client'[d], h)
  BY DeletedHome DEF DeleteSchedule
<1>4. \A t \in tasks' : t.kind = "trash" /\ h[t.id] = t.path
  BY <1>2 DEF DeleteSchedule, AtHome
<1> QED BY <1>3, <1>4, HomeStep DEF DeleteSchedule, AtHome, remoteVars

(***************************************************************************)
(* list                                                                    *)
(***************************************************************************)
LEMMA ListBeginHome ==
  ASSUME TypeInv, NEW h, AtHome(h), NEW c \in Clients, ListBegin(c)
  PROVE  AtHome(h)'
<1> DEFINE r == client[c]
           n == [r EXCEPT !.pc = "items", !.kids = overlay,
                          !.todo = {i \in Ids : r.snap[i] # None}]
<1>1. r \in Request /\ HomeRequest(r, h)
  BY ClientHome
<1>2. n.item = r.item /\ n.snap = r.snap /\ n.kids = overlay /\ n.kind = r.kind /\ n.src = r.src
  BY <1>1 DEF Request
<1>3. HomeRequest(n, h)
  BY <1>1, <1>2 DEF HomeRequest, AtHome
<1>4. \A d \in Clients : HomeRequest(client'[d], h)
  BY <1>3, BecomeHome DEF ListBegin
<1> QED BY <1>4, QuietHome DEF ListBegin, remoteVars

LEMMA ListSkipHome ==
  ASSUME TypeInv, NEW h, AtHome(h), NEW c \in Clients, NEW i \in Ids, ListSkip(c, i)
  PROVE  AtHome(h)'
<1> DEFINE r == client[c]
           n == [r EXCEPT !.todo = @ \ {i}]
<1>1. r \in Request /\ HomeRequest(r, h)
  BY ClientHome
<1>2. n.item = r.item /\ n.snap = r.snap /\ n.kids = r.kids /\ n.kind = r.kind /\ n.src = r.src
  BY <1>1 DEF Request
<1>3. HomeRequest(n, h)
  BY <1>1, <1>2 DEF HomeRequest
<1>4. \A d \in Clients : HomeRequest(client'[d], h)
  BY <1>3, BecomeHome DEF ListSkip
<1> QED BY <1>4, QuietHome DEF ListSkip, remoteVars

LEMMA ListPutHome ==
  ASSUME TypeInv, NEW h, AtHome(h), NEW c \in Clients, ListPut(c)
  PROVE  AtHome(h)'
<1> DEFINE r == client[c]
           n == [r EXCEPT !.pc = "items", !.src = None, !.item = None]
<1>1. r \in Request /\ HomeRequest(r, h)
  BY ClientHome
<1>2. n.item = None /\ n.snap = r.snap /\ n.kids = r.kids /\ n.kind = r.kind
  BY <1>1 DEF Request
<1>3. HomeRequest(n, h)
  BY <1>1, <1>2 DEF HomeRequest
<1>4. \A d \in Clients : HomeRequest(client'[d], h)
  BY <1>3, BecomeHome DEF ListPut
<1> QED BY <1>4, QuietHome DEF ListPut, remoteVars

\* A listing turns to the item of a path.
LEMMA PuttingHome ==
  ASSUME NEW h, NEW r \in Request, HomeRequest(r, h), NEW p \in Paths, NEW item,
         h[item.id] = p, NEW todo
  PROVE  HomeRequest([r EXCEPT !.pc = "putting", !.src = p, !.item = item, !.todo = todo,
                               !.kids = [@ EXCEPT ![p] = None]], h)
<1> DEFINE n == [r EXCEPT !.pc = "putting", !.src = p, !.item = item, !.todo = todo,
                          !.kids = [@ EXCEPT ![p] = None]]
<1>1. n.item = item /\ n.snap = r.snap /\ n.kind = r.kind /\ n.src = p
  BY DEF Request
<1>2. \A q \in Paths : n.kids[q] \in {None, r.kids[q]}
  BY DEF Request
<1> QED BY <1>1, <1>2 DEF HomeRequest

\* What a listing hands out for a path, it does not hide; and an entry it drops
\* is one that it copied.
LEMMA ListItemHome ==
  ASSUME TypeInv, NEW h, AtHome(h), NEW c \in Clients, NEW i \in Ids, ListItem(c, i)
  PROVE  /\ AtHome(h)' /\ i \notin hidden
         /\ \A q \in Paths : overlay'[q] \in {None, overlay[q]}
         /\ \A q \in Paths : \/ known'[q] = known[q] /\ overlay'[q] = overlay[q]
                             \/ known'[q].id = i
<1> DEFINE r == client[c]
           p == r.snap[i].name
           n == [r EXCEPT !.pc = "putting", !.src = p, !.item = ItemOf(r.snap, i),
                          !.todo = @ \ {i}, !.kids = [@ EXCEPT ![p] = None]]
<1>1. r \in Request /\ HomeRequest(r, h) /\ p \in Paths /\ p # DupName
  BY ClientHome, ConstantsAssumption DEF ListItem
<1>2. r.snap[i] # None
  BY Facts DEF ListItem
<1>3. ItemOf(r.snap, i).id = i /\ h[i] = p
  BY <1>1, <1>2 DEF ItemOf, HomeRequest
<1>4. n = [r EXCEPT !.pc = "putting", !.src = p, !.item = ItemOf(r.snap, i),
                    !.todo = r.todo \ {i}, !.kids = [@ EXCEPT ![p] = None]]
  BY <1>1 DEF Request
<1>5. HomeRequest(n, h)
  BY <1>1, <1>3, <1>4, PuttingHome
<1>6. \A d \in Clients : HomeRequest(client'[d], h)
  BY <1>5, BecomeHome DEF ListItem
<1>7. \A q \in Paths : /\ overlay'[q] \in {None, overlay[q]}
                       /\ \/ known'[q] = known[q] /\ overlay'[q] = overlay[q]
                          \/ q = p /\ known'[q].id = i
  BY <1>1, <1>3 DEF ListItem, TypeInv, StoreType
<1>8. /\ \A q \in Paths : overlay'[q] # None => h[overlay'[q].id] = q
      /\ \A q \in Paths : known'[q] # None => h[known'[q].id] = q
  BY <1>3, <1>7 DEF AtHome
<1>9. UNCHANGED <<remote, listed, tasks>> /\ i \notin hidden
  BY DEF ListItem, LeftOut, remoteVars
<1>10. AtHome(h)'
  BY <1>6, <1>8, <1>9, HomeStep DEF AtHome
<1> QED BY <1>7, <1>9, <1>10

LEMMA ListRecentHome ==
  ASSUME TypeInv, NEW h, AtHome(h), NEW c \in Clients, NEW p \in Paths, ListRecent(c, p)
  PROVE  /\ AtHome(h)'
         /\ \A q \in Paths \ {p} : known'[q] = known[q]
         /\ known'[p].id = EntryItem(client[c].kids[p]).id
<1> DEFINE r == client[c]
           n == [r EXCEPT !.pc = "putting", !.src = p, !.item = EntryItem(r.kids[p]),
                          !.kids = [@ EXCEPT ![p] = None]]
<1>1. r \in Request /\ HomeRequest(r, h)
  BY ClientHome
<1>2. h[EntryItem(r.kids[p]).id] = p
  BY <1>1 DEF ListRecent, Recent, EntryItem, HomeRequest
<1>3. n = [r EXCEPT !.pc = "putting", !.src = p, !.item = EntryItem(r.kids[p]),
                    !.todo = r.todo, !.kids = [@ EXCEPT ![p] = None]]
  BY <1>1 DEF Request
<1>4. HomeRequest(n, h)
  BY <1>1, <1>2, <1>3, PuttingHome
<1>5. \A d \in Clients : HomeRequest(client'[d], h)
  BY <1>4, BecomeHome DEF ListRecent
<1>6. /\ \A q \in Paths \ {p} : known'[q] = known[q]
      /\ known'[p] = EntryItem(r.kids[p])
  BY DEF ListRecent, TypeInv, StoreType
<1>7. AtHome(h)'
  BY <1>2, <1>5, <1>6, HomeStep DEF ListRecent, AtHome, remoteVars
<1> QED BY <1>6, <1>7

LEMMA ListEndHome ==
  ASSUME TypeInv, NEW h, AtHome(h), NEW c \in Clients, ListEnd(c)
  PROVE  AtHome(h)'
<1>1. \A d \in Clients : HomeRequest(client'[d], h)
  BY IdleHomeStep DEF ListEnd
<1>2. \A q \in Paths : /\ overlay'[q] \in {None, overlay[q]}
                       /\ known'[q] \in {None, known[q]}
  BY DEF ListEnd
<1> QED BY <1>1, <1>2, HomeStep DEF ListEnd, AtHome, remoteVars

(***************************************************************************)
(* Requests arrive, tasks run, time passes.                                *)
(***************************************************************************)
LEMMA NewRequestsHome ==
  ASSUME "MOVE" \notin Kinds, TypeInv, NEW h, AtHome(h), NEW c \in Clients, NewRequests(c)
  PROVE  AtHome(h)'
<1>1. ASSUME NEW p \in Paths, Stat(c, p) PROVE AtHome(h)'
  <2> DEFINE r == NewRequest("STAT", p, None, None)
  <2>1. r \in Request /\ HomeRequest(r, h)
    BY NewRequestGood, NewHome
  <2> HIDE DEF r
  <2>2. \A d \in Clients : HomeRequest(client'[d], h)
    BY <1>1, <2>1, GotoHomeStep DEF Stat, r
  <2> QED BY <1>1, <2>2, QuietHome DEF Stat, remoteVars
<1>2. ASSUME NEW p \in Paths, Delete(c, p) PROVE AtHome(h)'
  <2> DEFINE r == NewRequest("DELETE", p, None, None)
  <2>1. r \in Request /\ HomeRequest(r, h)
    BY NewRequestGood, NewHome
  <2> HIDE DEF r
  <2>2. \A d \in Clients : HomeRequest(client'[d], h)
    BY <1>2, <2>1, GotoHomeStep DEF Delete, r
  <2> QED BY <1>2, <2>2, QuietHome DEF Delete, remoteVars
<1>3. ASSUME NEW p \in Paths, NEW d \in Contents, Put(c, p, d) PROVE AtHome(h)'
  <2> DEFINE r == NewRequest("PUT", p, None, d)
  <2>1. r \in Request /\ HomeRequest(r, h) /\ r.src = p
    BY NewRequestGood, NewHome
  <2> HIDE DEF r
  <2>2. \A o \in Clients : HomeRequest(client'[o], h)
    BY <1>3, <2>1, ResolutionHome, GotoHomeStep, AskHomeStep DEF Put, r
  <2> QED BY <1>3, <2>2, QuietHome DEF Put, AskListing, remoteVars
<1>4. ASSUME NEW p \in Paths, NEW q \in Paths, Move(c, p, q) PROVE FALSE
  <2>1. NewRequest("MOVE", p, q, None).kind = "MOVE"
    BY DEF NewRequest
  <2> QED BY <1>4, <2>1 DEF Move, Arrives
<1>5. CASE List(c)
  <2> DEFINE r == NewRequest("LIST", None, None, None)
  <2>1. r \in Request /\ HomeRequest(r, h)
    BY NewRequestGood, NewHome
  <2> HIDE DEF r
  <2>2. \A d \in Clients : HomeRequest(client'[d], h)
    BY <1>5, <2>1, AskHomeStep DEF List, r
  <2> QED BY <1>5, <2>2, QuietHome DEF List, AskListing, remoteVars
<1> QED BY <1>1, <1>2, <1>3, <1>4, <1>5 DEF NewRequests

\* What a deferred delete changes of its path's entry, if anything.
LEMMA TrashDoneEntries ==
  ASSUME TypeInv, NEW t \in tasks, TrashDone(t)
  PROVE  /\ t.id \in Ids /\ t.path \in Paths
         /\ \A i \in Ids : /\ remote'[i].name = remote[i].name
                           /\ remote'[i].content = remote[i].content
                           /\ remote'[i].st = IF i = t.id THEN "trashed" ELSE remote[i].st
         /\ \A p \in Paths :
               /\ overlay'[p] = None <=> overlay[p] = None
               /\ overlay[p] # None => /\ overlay'[p].id = overlay[p].id
                                       /\ overlay'[p].st = overlay[p].st
               /\ p # t.path => overlay'[p] = overlay[p]
<1>1. t.id \in Ids /\ t.path \in Paths
  BY DEF Task, TypeInv, StoreType
<1>2. \A i \in Ids : /\ remote'[i].name = remote[i].name
                     /\ remote'[i].content = remote[i].content
                     /\ remote'[i].st = IF i = t.id THEN "trashed" ELSE remote[i].st
  BY <1>1 DEF TrashDone, TypeInv, RemoteType
<1>3. CASE Tombstone(t.path)
  <2>1. overlay[t.path] \in Entry
    BY <1>1, <1>3 DEF Tombstone, TypeInv, StoreType
  <2> DEFINE e == [overlay[t.path] EXCEPT !.gone = TRUE]
  <2>2. e.id = overlay[t.path].id /\ e.st = overlay[t.path].st /\ e \in Entry
    BY <2>1 DEF Entry
  <2>3. \A p \in Paths : overlay'[p] = IF p = t.path THEN e ELSE overlay[p]
    BY <1>3 DEF TrashDone, TypeInv, StoreType
  <2> HIDE DEF e
  <2> QED BY <1>1, <1>2, <1>3, <2>1, <2>2, <2>3, NoneIsNoRecord DEF Tombstone
<1>4. CASE ~Tombstone(t.path)
  BY <1>1, <1>2, <1>4 DEF TrashDone
<1> QED BY <1>3, <1>4

LEMMA BackgroundHome ==
  ASSUME TypeInv, NEW h, AtHome(h), Background
  PROVE  AtHome(h)'
<1>1. ASSUME NEW t \in tasks, TrashDone(t) PROVE AtHome(h)'
  <2>1. \A p \in Paths : overlay'[p] # None => h[overlay'[p].id] = p
    BY <1>1, TrashDoneEntries DEF AtHome
  <2>2. \A j \in Ids : remote'[j].name \in {DupName, h[j]}
    BY <1>1, TrashDoneEntries DEF AtHome
  <2> QED BY <1>1, <2>1, <2>2 DEF TrashDone, AtHome
<1>2. ASSUME NEW t \in tasks, RenameDone(t) PROVE FALSE
  BY <1>2 DEF RenameDone, AtHome
<1>3. ASSUME NEW t \in tasks, TaskFails(t) PROVE AtHome(h)'
  BY <1>3 DEF TaskFails, AtHome, remoteVars
<1> QED BY <1>1, <1>2, <1>3 DEF Background

LEMMA EnvironmentHome ==
  ASSUME TypeInv, NEW h, AtHome(h), Environment
  PROVE  AtHome(h)'
<1>1. ASSUME NEW i \in Ids, Validated(i) PROVE AtHome(h)'
  BY <1>1 DEF Validated, AtHome
<1>2. ASSUME NEW i \in Ids, Shows(i) PROVE AtHome(h)'
  <2>1. \A j \in Ids : listed'[j] # None => listed'[j].name \in {DupName, h[j]}
    BY <1>2 DEF Shows, AtHome, TypeInv, RemoteType, Listing
  <2> QED BY <1>2, <2>1 DEF Shows, AtHome
<1>3. ASSUME NEW i \in Ids, HiddenExpires(i) PROVE AtHome(h)'
  BY <1>3 DEF HiddenExpires, AtHome, remoteVars
<1>4. ASSUME NEW p \in Paths, CacheExpires(p) PROVE AtHome(h)'
  BY <1>4 DEF CacheExpires, AtHome, remoteVars
<1>5. ASSUME NEW p \in Paths, EntryExpires(p) PROVE AtHome(h)'
  <2>1. \A q \in Paths : /\ overlay'[q] \in {None, overlay[q]}
                         /\ known'[q] \in {None, known[q]}
    BY <1>5 DEF EntryExpires, TypeInv, StoreType
  <2> QED BY <1>5, <2>1, HomeStep DEF EntryExpires, AtHome, remoteVars
<1>6. CASE Restart
  BY <1>6, IdleHome, HomeStep DEF Restart, remoteVars
<1> QED BY <1>1, <1>2, <1>3, <1>4, <1>5, <1>6 DEF Environment

LEMMA ContinueHome ==
  ASSUME TypeInv, NEW h, AtHome(h), NEW c \in Clients, Continue(c), ~UploadNew(c)
  PROVE  AtHome(h)'
<1>1. ~MoveEntry(c) /\ ~MoveLookup(c) /\ ~MoveListed(c) /\ ~MoveRename(c)
  BY Unmoved DEF MoveEntry, MoveLookup, MoveListed, MoveRename, At, MovePoints
<1>2. ~MoveRefused(c) /\ ~PublishMove(c)
  BY Unmoved DEF MoveRefused, PublishMove, At, MovePoints
<1> QED
  BY <1>1, <1>2, StatMissHome, StatAnswerHome, LookupsHome, EndsHome, UploadOverHome,
     DeleteAgainHome, DeleteRecentHome, DeleteLookupHome, DeleteItemHome,
     DeleteTombstoneHome, DeleteScheduleHome, ListBeginHome, ListSkipHome,
     ListItemHome, ListRecentHome, ListPutHome, ListEndHome DEF Continue

\* The upload of a new media, which is given the home of its request.
LEMMA UploadNewMedia ==
  ASSUME TypeInv, NEW h \in [Ids -> Paths \cup {DupName}], AtHome(h), Homeless(h),
         NEW c \in Clients, UploadNew(c)
  PROVE  \E i \in Ids, name \in {DupName, client[c].src},
            g \in [Ids -> Paths \cup {DupName}] :
            /\ remote[i].st = "free" /\ client[c].src \in Paths
            /\ remote' = [remote EXCEPT ![i] =
                  [st |-> "live", name |-> name, content |-> client[c].content]]
            /\ StoreUploaded(c, i)
            /\ g = [h EXCEPT ![i] = client[c].src]
            /\ AtHome(g)' /\ Homeless(g)'
<1>1. client[c].src \in Paths /\ client[c].pc = "upload"
  BY Facts DEF UploadNew, At, PutPoints
<1>2. PICK i \in Ids, name \in {DupName, client[c].src} :
        /\ remote[i].st = "free"
        /\ remote' = [remote EXCEPT ![i] =
               [st |-> "live", name |-> name, content |-> client[c].content]]
        /\ StoreUploaded(c, i)
  BY DEF UploadNew
<1>3. UNCHANGED <<listed, tasks>>
  BY DEF UploadNew
<1>4. \E g \in [Ids -> Paths \cup {DupName}] :
         /\ g = [h EXCEPT ![i] = client[c].src]
         /\ AtHome(g)' /\ Homeless(g)'
  BY <1>1, <1>2, <1>3, UploadNewHome
<1> QED BY <1>1, <1>2, <1>4

\* No media becomes free again.
LEMMA HomelessNext ==
  ASSUME TypeInv, NEW h, AtHome(h), Homeless(h), [Next]_vars,
         \A c \in Clients : ~UploadNew(c)
  PROVE  Homeless(h)'
<1> SUFFICES \A i \in Ids : remote'[i].st = "free" => remote[i].st = "free"
  BY DEF Homeless
<1>1. ASSUME NEW c \in Clients, NewRequests(c) PROVE UNCHANGED remote
  BY <1>1 DEF NewRequests, Stat, Delete, Put, Move, List, remoteVars
<1>2. ASSUME NEW c \in Clients, Continue(c)
      PROVE  \/ UNCHANGED remote
             \/ UploadOver(c)
  <2>1. ~MoveRename(c)
    BY Unmoved DEF MoveRename, At, MovePoints
  <2> QED BY <1>2, <2>1
      DEF Continue, StatMiss, StatListed, StatAnswer, StatAbsent, PutListed, UploadRefused,
          Publish, DeleteAgain, DeleteRecent, DeleteLookup, DeleteListed, DeleteMissing,
          DeleteItem, DeleteTombstone, DeleteSchedule, MoveEntry, MoveLookup, MoveListed,
          MoveRefused, PublishMove, ListBegin, ListPut, ListEnd, ListSkip, ListItem,
          ListRecent, remoteVars
<1>3. ASSUME NEW c \in Clients, UploadOver(c)
      PROVE  \A i \in Ids : remote'[i].st = "free" => remote[i].st = "free"
  BY <1>3 DEF UploadOver, TypeInv, RemoteType
<1>4. ASSUME NEW t \in tasks, TrashDone(t)
      PROVE  \A i \in Ids : remote'[i].st = "free" => remote[i].st = "free"
  BY <1>4, TrashDoneEntries
<1>5. ASSUME NEW t \in tasks, RenameDone(t) PROVE FALSE
  BY <1>5 DEF RenameDone, AtHome
<1>6. ASSUME NEW t \in tasks, TaskFails(t) PROVE UNCHANGED remote
  BY <1>6 DEF TaskFails, remoteVars
<1>7. CASE Environment
  BY <1>7 DEF Environment, Validated, Shows, HiddenExpires, CacheExpires, EntryExpires,
              Restart, remoteVars
<1>8. CASE UNCHANGED vars
  BY <1>8 DEF vars, remoteVars
<1> QED BY <1>1, <1>2, <1>3, <1>4, <1>5, <1>6, <1>7, <1>8 DEF Next, Background

LEMMA HomeNext ==
  ASSUME "MOVE" \notin Kinds, TypeInv, NEW h, AtHome(h), Homeless(h), [Next]_vars,
         \A c \in Clients : ~UploadNew(c)
  PROVE  AtHome(h)' /\ Homeless(h)'
<1>1. CASE UNCHANGED vars
  <2>1. AtHome(h)'
    BY <1>1 DEF vars, remoteVars, AtHome
  <2> QED BY <2>1, HomelessNext
<1> QED BY <1>1, NewRequestsHome, ContinueHome, BackgroundHome, EnvironmentHome,
           HomelessNext DEF Next

Homes == \E h \in [Ids -> Paths \cup {DupName}] : AtHome(h) /\ Homeless(h)

LEMMA HomesInit ==
  ASSUME Init
  PROVE  \E h \in [Ids -> Paths \cup {DupName}] :
            /\ AtHome(h) /\ Homeless(h)
            /\ \A i \in Ids : Seeds[i] # None => h[i] = Seeds[i]
<1>1. PICK h \in [Ids -> Paths \cup {DupName}] :
         h = [i \in Ids |-> IF Seeds[i] = None THEN DupName ELSE Seeds[i]]
  BY ConstantsAssumption
<1>2. \A c \in Clients : HomeRequest(client[c], h)
  BY IdleHome DEF Init
<1>3. AtHome(h)
  BY <1>1, <1>2 DEF Init, AtHome
<1>4. Homeless(h)
  BY <1>1 DEF Init, Homeless
<1> QED BY <1>1, <1>3, <1>4

LEMMA HomesNext ==
  ASSUME "MOVE" \notin Kinds, TypeInv, Homes, [Next]_vars
  PROVE  Homes'
<1>1. PICK h \in [Ids -> Paths \cup {DupName}] : AtHome(h) /\ Homeless(h)
  BY DEF Homes
<1>2. CASE \E c \in Clients : UploadNew(c)
  BY <1>1, <1>2, UploadNewMedia DEF Homes
<1>3. CASE \A c \in Clients : ~UploadNew(c)
  BY <1>1, <1>3, HomeNext DEF Homes
<1> QED BY <1>2, <1>3

-----------------------------------------------------------------------------
(***************************************************************************)
(* Tombstones hide what they cover.  An id leaves `hidden' with one        *)
(* tombstone; no other one has the same id, for that is at home elsewhere. *)
(***************************************************************************)
LEMMA HidesStep ==
  ASSUME TombstoneHides, hidden \subseteq hidden',
         \A p \in Paths : Tombstone(p)' => Tombstone(p) /\ overlay'[p].id = overlay[p].id
  PROVE  TombstoneHides'
  BY DEF TombstoneHides

LEMMA StoreTombstoneHides ==
  ASSUME TypeInv, TombstoneHides, NEW p \in Paths, NEW item, StoreTombstone(p, item)
  PROVE  TombstoneHides'
<1>1. \A q \in Paths : \/ overlay'[q] = overlay[q] /\ q # p
                       \/ overlay'[q].id = item.id
  BY DEF StoreTombstone, TypeInv, StoreType
<1> QED BY <1>1 DEF TombstoneHides, StoreTombstone, Tombstone

LEMMA ListEndHides ==
  ASSUME TypeInv, NEW h, AtHome(h), TombstoneHides, NEW c \in Clients, ListEnd(c)
  PROVE  TombstoneHides'
<1> DEFINE done == Settled(client[c].snap)
<1>1. /\ \A p \in Paths : overlay'[p] = IF p \in done THEN None ELSE overlay[p]
      /\ hidden' = hidden \ {overlay[p].id : p \in done}
  BY DEF ListEnd
<1>2. done \subseteq Paths /\ \A p \in done : Tombstone(p)
  BY DEF Settled
<1> HIDE DEF done
<1> SUFFICES ASSUME NEW p \in Paths, Tombstone(p)' PROVE overlay'[p].id \in hidden'
  BY DEF TombstoneHides
<1>3. p \notin done /\ overlay'[p] = overlay[p] /\ Tombstone(p)
  BY <1>1 DEF Tombstone
<1>4. \A q \in done : overlay[q].id # overlay[p].id
  BY <1>2, <1>3 DEF AtHome, Tombstone
<1> QED BY <1>1, <1>3, <1>4 DEF TombstoneHides

LEMMA ExpiryHides ==
  ASSUME TypeInv, NEW h, AtHome(h), TombstoneHides, NEW p \in Paths, EntryExpires(p)
  PROVE  TombstoneHides'
<1>1. /\ \A q \in Paths : overlay'[q] = IF q = p THEN None ELSE overlay[q]
      /\ hidden \ {overlay[p].id} \subseteq hidden'
  BY DEF EntryExpires, TypeInv, StoreType
<1>2. \A q \in Paths \ {p} : Tombstone(q) => overlay[q].id # overlay[p].id
  BY DEF AtHome, Tombstone, EntryExpires
<1> QED BY <1>1, <1>2 DEF TombstoneHides, Tombstone

LEMMA HidesNext ==
  ASSUME TypeInv, Homes, TombstoneHides, [Next]_vars
  PROVE  TombstoneHides'
<1>1. PICK h : AtHome(h)
  BY DEF Homes
<1>2. ASSUME NEW c \in Clients, NewRequests(c) PROVE UNCHANGED <<overlay, hidden>>
  BY <1>2 DEF NewRequests, Stat, Delete, Put, Move, List
<1>3. ASSUME NEW c \in Clients, Continue(c) PROVE TombstoneHides'
  <2>1. ~MoveEntry(c)
    BY <1>1, Unmoved DEF MoveEntry, At, MovePoints
  <2>2. CASE ListEnd(c)
    BY <1>1, <2>2, ListEndHides
  <2>3. CASE UploadNew(c) \/ UploadOver(c)
    <3>1. PICK i : StoreUploaded(c, i)
      BY <2>3 DEF UploadNew, UploadOver
    <3>2. client[c].src \in Paths
      BY <2>3, Facts DEF UploadNew, UploadOver, At, PutPoints
    <3>3. \A p \in Paths : Tombstone(p)' => Tombstone(p) /\ overlay'[p] = overlay[p]
      BY <3>1, <3>2, StoreUploadedTombstones
    <3> QED BY <2>3, <3>3, HidesStep DEF UploadNew, UploadOver
  <2>4. CASE DeleteItem(c) \/ DeleteTombstone(c)
    <3>1. DeletePath(client[c]) \in Paths
      BY <2>4, Facts DEF DeleteItem, DeleteTombstone, At, DeletePoints
    <3> QED BY <2>4, <3>1, StoreTombstoneHides DEF DeleteItem, DeleteTombstone
  <2>5. CASE DeleteRecent(c)
    <3>1. \A p \in Paths : overlay'[p] \in {None, overlay[p]}
      BY <2>5 DEF DeleteRecent, TypeInv, StoreType
    <3> QED BY <2>5, <3>1, HidesStep DEF DeleteRecent, Tombstone
  <2>6. ASSUME NEW i \in Ids, ListItem(c, i) PROVE TombstoneHides'
    <3>1. \A q \in Paths : overlay'[q] \in {None, overlay[q]}
      BY <1>1, <2>6, ListItemHome
    <3> QED BY <2>6, <3>1, HidesStep DEF ListItem, Tombstone
  <2>7. CASE UNCHANGED <<overlay, hidden>>
    BY <2>7, HidesStep DEF Tombstone
  <2> QED BY <1>3, <2>1, <2>2, <2>3, <2>4, <2>5, <2>6, <2>7
      DEF Continue, StatMiss, StatListed, StatAnswer, StatAbsent, PutListed, UploadRefused,
          Publish, DeleteAgain, DeleteLookup, DeleteListed, DeleteMissing,
          DeleteSchedule, MoveLookup, MoveListed, MoveRename,
          MoveRefused, PublishMove, ListBegin, ListPut, ListSkip, ListRecent
<1>4. ASSUME NEW t \in tasks, TrashDone(t) PROVE TombstoneHides'
  <2>1. \A p \in Paths : Tombstone(p)' => Tombstone(p) /\ overlay'[p].id = overlay[p].id
    BY <1>4, TrashDoneEntries DEF Tombstone
  <2> QED BY <1>4, <2>1, HidesStep DEF TrashDone
<1>5. ASSUME NEW t \in tasks, RenameDone(t) \/ TaskFails(t)
      PROVE UNCHANGED <<overlay, hidden>>
  BY <1>5 DEF RenameDone, TaskFails
<1>6. CASE Environment
  <2>1. ASSUME NEW p \in Paths, EntryExpires(p) PROVE TombstoneHides'
    BY <1>1, <2>1, ExpiryHides
  <2>2. ASSUME NEW i \in Ids, HiddenExpires(i) PROVE TombstoneHides'
    BY <2>2 DEF HiddenExpires, TombstoneHides, Tombstone
  <2>3. CASE Restart
    BY <2>3 DEF Restart, TombstoneHides, Tombstone
  <2>4. CASE UNCHANGED <<overlay, hidden>>
    BY <2>4, HidesStep DEF Tombstone
  <2> QED BY <1>6, <2>1, <2>2, <2>3, <2>4 DEF Environment, Validated, Shows, CacheExpires
<1>7. CASE UNCHANGED <<overlay, hidden>>
  BY <1>7, HidesStep DEF Tombstone
<1>8. CASE UNCHANGED vars
  BY <1>7, <1>8 DEF vars
<1> QED BY <1>2, <1>3, <1>4, <1>5, <1>6, <1>7, <1>8 DEF Next, Background

(***************************************************************************)
(* A tombstone hides its media from listings for as long as it stands,     *)
(* whatever requests, listings, expiry and restarts do, unless files move. *)
(***************************************************************************)
THEOREM TombstonesHide ==
  ASSUME "MOVE" \notin Kinds
  PROVE  Spec => []TombstoneHides
<1>1. Init => TypeInv /\ Homes /\ TombstoneHides
  <2> SUFFICES ASSUME Init PROVE Homes /\ TombstoneHides
    BY InitType
  <2> QED BY HomesInit DEF Homes, Init, TombstoneHides, Tombstone
<1>2. /\ TypeInv /\ Homes /\ TombstoneHides /\ [Next]_vars
      => (TypeInv /\ Homes /\ TombstoneHides)'
  BY NextType, HomesNext, HidesNext
<1> QED BY <1>1, <1>2, PTL DEF Spec

-----------------------------------------------------------------------------
(***************************************************************************)
(* One writer per path: while a request writes a path, no other one does.  *)
(***************************************************************************)
Alone == \A c, d \in Clients : c # d => Writes(client[c]) \cap Writes(client[d]) = {}

LEMMA BecomeWrites ==
  ASSUME TypeInv, NEW c \in Clients, NEW r, NEW k, Become(c, r, k),
         Writes(r) \subseteq Writes(client[c])
  PROVE  \A d \in Clients : Writes(client'[d]) \subseteq Writes(client[d])
  BY DEF Become, TypeInv, RequestType

LEMMA GotoWrites ==
  ASSUME NEW r \in Request, NEW pc, NEW item
  PROVE  /\ Writes(Goto(r, pc, item)) = Writes(r)
         /\ Writes([r EXCEPT !.pc = pc, !.snap = listed]) = Writes(r)
<1>1. /\ Goto(r, pc, item).kind = r.kind
      /\ Goto(r, pc, item).src = r.src /\ Goto(r, pc, item).dst = r.dst
  BY DEF Goto, Request
<1>2. LET n == [r EXCEPT !.pc = pc, !.snap = listed]
      IN  n.kind = r.kind /\ n.src = r.src /\ n.dst = r.dst
  BY DEF Request
<1> QED BY <1>1, <1>2 DEF Writes

LEMMA IdleWrites == Writes(Idle) = {}
  BY DEF Idle, NewRequest, Writes

\* A request that goes on writes no other path than before.
LEMMA ContinueWrites ==
  ASSUME TypeInv, NEW h, AtHome(h), NEW c \in Clients, Continue(c)
  PROVE  \A d \in Clients : Writes(client'[d]) \subseteq Writes(client[d])
<1> DEFINE r == client[c]
<1>1. r \in Request /\ r.kind # "MOVE"
  BY ClientHome DEF HomeRequest
<1>2. ASSUME NEW k, Become(c, Idle, k)
      PROVE  \A d \in Clients : Writes(client'[d]) \subseteq Writes(client[d])
  BY <1>2, IdleWrites, BecomeWrites
<1>3. ASSUME NEW pc, NEW item, NEW k, Become(c, Goto(r, pc, item), k)
      PROVE  \A d \in Clients : Writes(client'[d]) \subseteq Writes(client[d])
  <2>1. Writes(Goto(r, pc, item)) \subseteq Writes(r)
    BY <1>1, GotoWrites
  <2> QED BY <1>3, <2>1, BecomeWrites
<1>4. ASSUME NEW pc, AskListing(c, r, pc)
      PROVE  \A d \in Clients : Writes(client'[d]) \subseteq Writes(client[d])
  <2> DEFINE n == [r EXCEPT !.pc = pc, !.snap = listed]
  <2>1. Writes(n) \subseteq Writes(r) /\ Become(c, n, FALSE)
    BY <1>1, <1>4, GotoWrites DEF AskListing
  <2> HIDE DEF n
  <2> QED BY <2>1, BecomeWrites
<1>5. CASE StatMiss(c) \/ StatAnswer(c) \/ StatAbsent(c) \/ UploadRefused(c) \/ Publish(c)
  BY <1>1, <1>2, <1>3, <1>4, <1>5 DEF StatMiss, StatAnswer, StatAbsent, UploadRefused, Publish
<1>6. CASE StatListed(c) \/ PutListed(c) \/ DeleteListed(c)
  BY <1>3, <1>6 DEF StatListed, PutListed, DeleteListed, Answered
<1>7. CASE UploadNew(c) \/ UploadOver(c)
  BY <1>3, <1>7 DEF UploadNew, UploadOver, StoreUploaded
<1>8. CASE DeleteAgain(c) \/ DeleteRecent(c) \/ DeleteLookup(c) \/ DeleteMissing(c)
           \/ DeleteItem(c) \/ DeleteTombstone(c) \/ DeleteSchedule(c)
  BY <1>1, <1>2, <1>3, <1>4, <1>8 DEF DeleteAgain, DeleteRecent, DeleteLookup, DeleteMissing,
     DeleteItem, DeleteTombstone, DeleteSchedule, Deleted
<1>9. CASE MoveEntry(c) \/ MoveLookup(c) \/ MoveListed(c) \/ MoveRename(c)
           \/ MoveRefused(c) \/ PublishMove(c)
  BY <1>9, Unmoved DEF MoveEntry, MoveLookup, MoveListed, MoveRename, MoveRefused, PublishMove,
     At, MovePoints
<1>10. CASE ListBegin(c) \/ ListPut(c) \/ ListEnd(c)
            \/ (\E i \in Ids : ListSkip(c, i) \/ ListItem(c, i))
            \/ (\E p \in Paths : ListRecent(c, p))
  <2>1. r.pc \in ListPoints
    BY <1>10 DEF ListBegin, ListPut, ListEnd, ListSkip, ListItem, ListRecent, At, ListPoints
  <2>2. r.kind = "LIST"
    BY <2>1, Facts
  <2> DEFINE goal == \A d \in Clients : Writes(client'[d]) \subseteq Writes(client[d])
  <2>3. ASSUME NEW n, NEW k, Become(c, n, k), n.kind = r.kind PROVE goal
    BY <2>2, <2>3, BecomeWrites DEF Writes
  <2>4. CASE ListEnd(c)
    BY <1>2, <2>4 DEF ListEnd
  <2>5. CASE ListBegin(c)
    <3> DEFINE n == [r EXCEPT !.pc = "items", !.kids = overlay,
                              !.todo = {i \in Ids : r.snap[i] # None}]
    <3>1. n.kind = r.kind /\ Become(c, n, TRUE)
      BY <1>1, <2>5 DEF ListBegin, Request
    <3> HIDE DEF n
    <3> QED BY <2>3, <3>1
  <2>6. CASE ListPut(c)
    <3> DEFINE n == [r EXCEPT !.pc = "items", !.src = None, !.item = None]
    <3>1. n.kind = r.kind /\ Become(c, n, TRUE)
      BY <1>1, <2>6 DEF ListPut, Request
    <3> HIDE DEF n
    <3> QED BY <2>3, <3>1
  <2>7. ASSUME NEW i \in Ids, ListSkip(c, i) PROVE goal
    <3> DEFINE n == [r EXCEPT !.todo = @ \ {i}]
    <3>1. n.kind = r.kind /\ Become(c, n, LeftOut(r, i))
      BY <1>1, <2>7 DEF ListSkip, Request
    <3> HIDE DEF n
    <3> QED BY <2>3, <3>1
  <2>8. ASSUME NEW i \in Ids, ListItem(c, i) PROVE goal
    <3> DEFINE p == r.snap[i].name
               n == [r EXCEPT !.pc = "putting", !.src = p, !.item = ItemOf(r.snap, i),
                              !.todo = @ \ {i}, !.kids = [@ EXCEPT ![p] = None]]
    <3>1. n.kind = r.kind /\ Become(c, n, FALSE)
      BY <1>1, <2>8 DEF ListItem, Request
    <3> HIDE DEF n
    <3> QED BY <2>3, <3>1
  <2>9. ASSUME NEW p \in Paths, ListRecent(c, p) PROVE goal
    <3> DEFINE n == [r EXCEPT !.pc = "putting", !.src = p, !.item = EntryItem(r.kids[p]),
                              !.kids = [@ EXCEPT ![p] = None]]
    <3>1. n.kind = r.kind /\ Become(c, n, FALSE)
      BY <1>1, <2>9 DEF ListRecent, Request
    <3> HIDE DEF n
    <3> QED BY <2>3, <3>1
  <2> QED BY <1>10, <2>4, <2>5, <2>6, <2>7, <2>8, <2>9
<1> QED BY <1>5, <1>6, <1>7, <1>8, <1>9, <1>10 DEF Continue

LEMMA ArrivesAlone ==
  ASSUME ~SharedWrites, TypeInv, Alone, NEW c \in Clients, NEW r, Arrives(c, r),
         NEW n, NEW k, Become(c, n, k), Writes(n) = Writes(r)
  PROVE  Alone'
  BY DEF Alone, Arrives, Quiet, Become, TypeInv, RequestType

LEMMA NewRequestsAlone ==
  ASSUME "MOVE" \notin Kinds, ~SharedWrites, TypeInv, Alone, NEW c \in Clients, NewRequests(c)
  PROVE  Alone'
<1>1. ASSUME NEW r \in Request, Arrives(c, r), NEW pc, NEW item, NEW k,
             \/ Become(c, Goto(r, pc, item), k)
             \/ AskListing(c, r, pc)
      PROVE  Alone'
  <2>1. CASE Become(c, Goto(r, pc, item), k)
    <3>1. Writes(Goto(r, pc, item)) = Writes(r)
      BY GotoWrites
    <3> QED BY <1>1, <2>1, <3>1, ArrivesAlone
  <2>2. CASE AskListing(c, r, pc)
    <3> DEFINE n == [r EXCEPT !.pc = pc, !.snap = listed]
    <3>1. Writes(n) = Writes(r) /\ Become(c, n, FALSE)
      BY <2>2, GotoWrites DEF AskListing
    <3> HIDE DEF n
    <3> QED BY <1>1, <3>1, ArrivesAlone
  <2> QED BY <1>1, <2>1, <2>2
<1>2. ASSUME NEW p \in Paths, Stat(c, p) PROVE Alone'
  <2> DEFINE r == NewRequest("STAT", p, None, None)
  <2>1. r \in Request
    BY NewRequestGood
  <2> HIDE DEF r
  <2> QED BY <1>1, <1>2, <2>1 DEF Stat, r
<1>6. ASSUME NEW p \in Paths, Delete(c, p) PROVE Alone'
  <2> DEFINE r == NewRequest("DELETE", p, None, None)
  <2>1. r \in Request
    BY NewRequestGood
  <2> HIDE DEF r
  <2> QED BY <1>1, <1>6, <2>1 DEF Delete, r
<1>3. ASSUME NEW p \in Paths, NEW d \in Contents, Put(c, p, d) PROVE Alone'
  <2> DEFINE r == NewRequest("PUT", p, None, d)
  <2>1. r \in Request
    BY NewRequestGood
  <2> HIDE DEF r
  <2>2. Arrives(c, r)
    BY <1>3 DEF Put, r
  <2>3. Become(c, Goto(r, "upload", Resolution(p)), FALSE) \/ AskListing(c, r, "put_lookup")
    BY <1>3 DEF Put, r
  <2> QED BY <1>1, <2>1, <2>2, <2>3
<1>4. ASSUME NEW p \in Paths, NEW q \in Paths, Move(c, p, q) PROVE FALSE
  <2>1. NewRequest("MOVE", p, q, None).kind = "MOVE"
    BY DEF NewRequest
  <2> QED BY <1>4, <2>1 DEF Move, Arrives
<1>5. CASE List(c)
  <2> DEFINE r == NewRequest("LIST", None, None, None)
  <2>1. r \in Request
    BY NewRequestGood
  <2> HIDE DEF r
  <2> QED BY <1>1, <1>5, <2>1 DEF List, r
<1> QED BY <1>2, <1>3, <1>4, <1>5, <1>6 DEF NewRequests

LEMMA AloneNext ==
  ASSUME "MOVE" \notin Kinds, ~SharedWrites, TypeInv, NEW h, AtHome(h), Alone, [Next]_vars
  PROVE  Alone'
<1>1. ASSUME NEW c \in Clients, NewRequests(c) PROVE Alone'
  BY <1>1, NewRequestsAlone
<1>2. ASSUME NEW c \in Clients, Continue(c) PROVE Alone'
  BY <1>2, ContinueWrites DEF Alone
<1>3. CASE UNCHANGED client
  BY <1>3 DEF Alone, Writes
<1>4. CASE Background
  BY <1>3, <1>4 DEF Background, TrashDone, RenameDone, TaskFails
<1>5. CASE Restart
  BY <1>5, IdleWrites DEF Restart, Alone
<1>6. CASE Environment
  BY <1>3, <1>5, <1>6 DEF Environment, Validated, Shows, HiddenExpires, CacheExpires, EntryExpires
<1>7. CASE UNCHANGED vars
  BY <1>3, <1>7 DEF vars
<1> QED BY <1>1, <1>2, <1>4, <1>6, <1>7 DEF Next

-----------------------------------------------------------------------------
(***************************************************************************)
(* The debts of the store.  A media somebody is going to trash is out of   *)
(* mind: its id is hidden, and its path recalls it neither as an upload,   *)
(* nor as a settled delete, nor as the item of a lookup.  Only one task    *)
(* is going to trash it, and no request that aims at a media to write or   *)
(* delete it aims at this one.  Crossed paths are left out.                *)
(***************************************************************************)
Recalls(p, i) ==
    \/ overlay[p] # None /\ overlay[p].id = i /\ (Uploaded(p) \/ overlay[p].gone)
    \/ overlay[p] = None /\ known[p] # None /\ known[p].id = i

Buried(h) ==
    \A i \in Ids, p \in Paths \ crossed :
        Owed(i) /\ h[i] = p => i \in hidden /\ ~Recalls(p, i)

OwedOnce == \A t, u \in tasks : t.id = u.id /\ t.path \notin crossed => t = u

AimPoints == {"upload", "del_item", "tombstone", "schedule"}
Aims(r) == r.pc \in AimPoints /\ r.item # None

FreeAims ==
    \A c \in Clients : Aims(client[c]) /\ client[c].src \notin crossed =>
        \A t \in tasks : t.id # client[c].item.id

\* Nobody but c's request goes on.
Others(c) == \A d \in Clients \ {c} : client'[d] = client[d]

Debts(h) == Buried(h) /\ OwedOnce /\ FreeAims

(***************************************************************************)
(* What a step has to show.                                                *)
(***************************************************************************)
LEMMA OwedStep ==
  ASSUME tasks' \subseteq tasks, UNCHANGED client
  PROVE  \A i : Owed(i)' => Owed(i)
  BY DEF Owed

LEMMA BecomeOthers ==
  ASSUME TypeInv, NEW c \in Clients, NEW n, NEW k, Become(c, n, k)
  PROVE  Others(c) /\ client'[c] = n
  BY DEF Become, Others, TypeInv, RequestType

LEMMA OwedBecome ==
  ASSUME tasks' \subseteq tasks, NEW c \in Clients, Others(c), client'[c].pc # "schedule"
  PROVE  \A i : Owed(i)' => Owed(i)
  BY DEF Owed, Others

LEMMA BuriedStep ==
  ASSUME NEW h, Buried(h), crossed \subseteq crossed',
         \A i \in Ids : Owed(i)' => Owed(i),
         \A i \in Ids, p \in Paths \ crossed' :
             Owed(i) /\ h[i] = p /\ i \in hidden /\ ~Recalls(p, i) =>
                 i \in hidden' /\ ~Recalls(p, i)'
  PROVE  Buried(h)'
  BY DEF Buried

LEMMA SameRecalls ==
  ASSUME NEW p, overlay'[p] = overlay[p], known'[p] = known[p]
  PROVE  \A i : Recalls(p, i)' <=> Recalls(p, i)
  BY DEF Recalls, Uploaded

LEMMA OnceStep ==
  ASSUME OwedOnce, tasks' \subseteq tasks, crossed \subseteq crossed'
  PROVE  OwedOnce'
  BY DEF OwedOnce

LEMMA FreeStep ==
  ASSUME FreeAims, tasks' \subseteq tasks, crossed \subseteq crossed',
         NEW c \in Clients, Others(c),
         Aims(client'[c]) /\ client'[c].src \notin crossed' =>
             \A t \in tasks : t.id # client'[c].item.id
  PROVE  FreeAims'
  BY DEF FreeAims, Others

\* Two requests that write do not meet at one media.
LEMMA Sole ==
  ASSUME TypeInv, NEW h, AtHome(h), Alone, NEW c \in Clients, NEW d \in Clients, c # d,
         client[c].pc \in PutPoints \cup DeletePoints,
         client[d].pc \in PutPoints \cup DeletePoints
  PROVE  /\ client[c].src # client[d].src
         /\ client[c].item # None /\ client[d].item # None =>
                client[c].item.id # client[d].item.id
<1>1. ASSUME NEW e \in Clients, client[e].pc \in PutPoints \cup DeletePoints
      PROVE  client[e].src \in Writes(client[e])
  <2>1. client[e].kind \in {"PUT", "DELETE"}
    BY <1>1, Facts DEF AtHome, HomeRequest
  <2>2. client[e].src \in Paths /\ None \notin Paths
    BY <1>1, Unmoved, ConstantsAssumption
  <2> QED BY <2>1, <2>2 DEF Writes
<1>2. client[c].src # client[d].src
  BY <1>1 DEF Alone
<1> QED BY <1>2 DEF AtHome, HomeRequest

\* A media an aiming request may take is not one that is owed.
LEMMA AimNotOwed ==
  ASSUME TypeInv, NEW h, AtHome(h), Alone, FreeAims, NEW c \in Clients,
         Aims(client[c]), client[c].pc # "schedule", client[c].src \notin crossed
  PROVE  ~Owed(client[c].item.id)
<1>1. \A t \in tasks : t.id # client[c].item.id
  BY DEF FreeAims
<1>2. ASSUME NEW d \in Clients, client[d].pc = "schedule"
      PROVE  client[d].item.id # client[c].item.id
  <2>1. client[d].item # None
    BY <1>2, Facts, NoneIsNoRecord DEF ItemPoints
  <2> QED BY <1>2, <2>1, Sole DEF Aims, AimPoints, PutPoints, DeletePoints
<1> QED BY <1>1, <1>2 DEF Owed

\* What is owed has a path.
LEMMA OwedHome ==
  ASSUME TypeInv, NEW h, AtHome(h), NEW i, Owed(i)
  PROVE  i \in Ids /\ h[i] \in Paths
<1>1. CASE \E t \in tasks : t.kind = "trash" /\ t.id = i
  BY <1>1 DEF AtHome, TypeInv, StoreType, Task
<1>2. CASE \E c \in Clients : client[c].pc = "schedule" /\ client[c].item.id = i
  <2>1. PICK c \in Clients : client[c].pc = "schedule" /\ client[c].item.id = i
    BY <1>2
  <2>2. client[c].item # None /\ client[c].item \in Item
    BY <2>1, Facts, NoneIsNoRecord DEF ItemPoints
  <2> QED BY <2>1, <2>2 DEF AtHome, HomeRequest, Item
<1> QED BY <1>1, <1>2 DEF Owed

(***************************************************************************)
(* The steps that change nothing but a request that does not aim.          *)
(***************************************************************************)
LEMMA QuietDebts ==
  ASSUME TypeInv, NEW h, Debts(h), NEW c \in Clients, NEW n, NEW k, Become(c, n, k),
         n.pc \notin AimPoints, UNCHANGED <<overlay, known, hidden, crossed, tasks>>
  PROVE  Debts(h)'
<1>0. Others(c) /\ client'[c] = n
  BY BecomeOthers
<1>1. Buried(h)'
  BY <1>0, OwedBecome, BuriedStep, SameRecalls DEF Debts, AimPoints
<1>2. OwedOnce' /\ FreeAims'
  BY <1>0, OnceStep, FreeStep DEF Debts, Aims
<1> QED BY <1>1, <1>2 DEF Debts

\* A request aims at a media that is not owed.
LEMMA TakeDebts ==
  ASSUME TypeInv, NEW h, Debts(h), NEW c \in Clients, NEW n, NEW k, Become(c, n, k),
         n.pc # "schedule", n.item # None /\ n.src \notin crossed => ~Owed(n.item.id),
         \A t \in tasks : t.kind = "trash",
         UNCHANGED <<overlay, known, hidden, crossed, tasks>>
  PROVE  Debts(h)'
<1>0. Others(c) /\ client'[c] = n
  BY BecomeOthers
<1>1. Buried(h)'
  BY <1>0, OwedBecome, BuriedStep, SameRecalls DEF Debts
<1>2. Aims(n) /\ n.src \notin crossed' => \A t \in tasks : t.id # n.item.id
  BY DEF Aims, Owed
<1>3. OwedOnce' /\ FreeAims'
  BY <1>0, <1>2, OnceStep, FreeStep DEF Debts
<1> QED BY <1>1, <1>3 DEF Debts

LEMMA GotoFields ==
  ASSUME NEW r \in Request, NEW pc, NEW item
  PROVE  /\ Goto(r, pc, item).pc = pc /\ Goto(r, pc, item).item = item
         /\ Goto(r, pc, item).src = r.src
  BY DEF Goto, Request

LEMMA GotoOthers ==
  ASSUME TypeInv, NEW c \in Clients, NEW r \in Request, NEW pc, NEW item, NEW k,
         Become(c, Goto(r, pc, item), k)
  PROVE  /\ Others(c) /\ client'[c].pc = pc /\ client'[c].item = item
         /\ client'[c].src = r.src
<1> DEFINE n == Goto(r, pc, item)
<1>1. n.pc = pc /\ n.item = item /\ n.src = r.src
  BY GotoFields
<1> HIDE DEF n
<1>2. Become(c, n, k)
  BY DEF n
<1> QED BY <1>1, <1>2, BecomeOthers

LEMMA IdleOthers ==
  ASSUME TypeInv, NEW c \in Clients, NEW k, Become(c, Idle, k)
  PROVE  Others(c) /\ client'[c].pc = "idle"
<1>1. Idle.pc = "idle"
  BY DEF Idle, NewRequest
<1> QED BY <1>1, BecomeOthers

LEMMA AskDebts ==
  ASSUME TypeInv, NEW h, Debts(h), NEW c \in Clients, NEW r \in Request,
         NEW pc \in Points \ AimPoints, AskListing(c, r, pc),
         UNCHANGED <<overlay, known, hidden, crossed, tasks>>
  PROVE  Debts(h)'
<1> DEFINE n == [r EXCEPT !.pc = pc, !.snap = listed]
<1>1. n.pc = pc
  BY DEF Request
<1> HIDE DEF n
<1> QED BY <1>1, QuietDebts DEF AskListing, n

\* What the overlay or _path_to_item resolves to is not owed.
LEMMA ResolutionNotOwed ==
  ASSUME TypeInv, NEW h, AtHome(h), Buried(h), NEW p \in Paths \ crossed,
         Resolution(p) # None
  PROVE  ~Owed(Resolution(p).id)
<1>1. CASE Uploaded(p)
  <2>1. Resolution(p).id = overlay[p].id /\ overlay[p].id \in Ids /\ h[overlay[p].id] = p
    BY <1>1 DEF Resolution, Uploaded, Tombstone, EntryItem, AtHome, TypeInv, StoreType, Entry
  <2> QED BY <1>1, <2>1 DEF Buried, Recalls, Uploaded
<1>2. CASE ~Uploaded(p)
  <2>1. overlay[p] = None /\ Resolution(p) = known[p]
    BY <1>2 DEF Resolution, Uploaded, Tombstone, TypeInv, StoreType, Entry
  <2>2. known[p].id \in Ids /\ h[known[p].id] = p
    BY <2>1 DEF AtHome, TypeInv, StoreType, Item
  <2> QED BY <2>1, <2>2 DEF Buried, Recalls
<1> QED BY <1>1, <1>2

(***************************************************************************)
(* The requests that keep the store as it is.                              *)
(***************************************************************************)
LEMMA GotoDebts ==
  ASSUME TypeInv, NEW h, AtHome(h), Debts(h), NEW c \in Clients, NEW r \in Request,
         NEW pc, pc # "schedule", NEW item, NEW k, Become(c, Goto(r, pc, item), k),
         \/ pc \notin AimPoints
         \/ item # None /\ r.src \notin crossed => ~Owed(item.id),
         UNCHANGED <<overlay, known, hidden, crossed, tasks>>
  PROVE  Debts(h)'
<1> DEFINE n == Goto(r, pc, item)
<1>1. n.pc = pc /\ n.item = item /\ n.src = r.src
  BY GotoFields
<1>2. \A t \in tasks : t.kind = "trash"
  BY DEF AtHome
<1> HIDE DEF n
<1>3. Become(c, n, k)
  BY DEF n
<1> QED BY <1>1, <1>2, <1>3, QuietDebts, TakeDebts

LEMMA IdleDebts ==
  ASSUME TypeInv, NEW h, Debts(h), NEW c \in Clients, Become(c, Idle, FALSE),
         UNCHANGED <<overlay, known, hidden, crossed, tasks>>
  PROVE  Debts(h)'
<1>1. Idle.pc \notin AimPoints
  BY DEF Idle, NewRequest, AimPoints
<1> QED BY <1>1, QuietDebts

LEMMA QuietActionsDebts ==
  ASSUME TypeInv, NEW h, AtHome(h), Debts(h), NEW c \in Clients,
         \/ StatMiss(c) \/ StatAnswer(c) \/ StatAbsent(c) \/ UploadRefused(c) \/ Publish(c)
         \/ DeleteAgain(c) \/ DeleteMissing(c)
  PROVE  Debts(h)'
<1>1. client[c] \in Request
  BY ClientHome
<1>2. CASE StatMiss(c)
  <2>1. UNCHANGED <<overlay, known, hidden, crossed, tasks>>
    BY <1>2 DEF StatMiss
  <2>2. ASSUME NEW pc \in {"answer", "absent"}, NEW item, Become(c, Goto(client[c], pc, item), FALSE)
        PROVE  Debts(h)'
    BY <1>1, <2>1, <2>2, GotoDebts DEF AimPoints
  <2>3. CASE AskListing(c, client[c], "stat_lookup")
    BY <1>1, <2>1, <2>3, AskDebts DEF AimPoints, Points, StatPoints
  <2> QED BY <1>2, <2>2, <2>3 DEF StatMiss
<1>3. CASE StatAnswer(c) \/ StatAbsent(c)
  <2>1. client[c].kind # "MOVE"
    BY DEF AtHome, HomeRequest
  <2> QED BY <1>3, <2>1, IdleDebts DEF StatAnswer, StatAbsent
<1>4. CASE UploadRefused(c) \/ Publish(c) \/ DeleteMissing(c)
  BY <1>4, IdleDebts DEF UploadRefused, Publish, DeleteMissing
<1>5. CASE DeleteAgain(c)
  BY <1>5, DeletedHome, IdleDebts DEF DeleteAgain
<1> QED BY <1>2, <1>3, <1>4, <1>5

LEMMA ListQuietDebts ==
  ASSUME TypeInv, NEW h, Debts(h), NEW c \in Clients,
         ListBegin(c) \/ ListPut(c) \/ \E i \in Ids : ListSkip(c, i)
  PROVE  Debts(h)'
<1> DEFINE r == client[c]
<1>1. r \in Request
  BY DEF TypeInv, RequestType
<1>2. CASE ListBegin(c)
  <2> DEFINE n == [r EXCEPT !.pc = "items", !.kids = overlay,
                            !.todo = {i \in Ids : r.snap[i] # None}]
  <2>1. n.pc = "items" /\ Become(c, n, TRUE)
    BY <1>1, <1>2 DEF ListBegin, Request
  <2> HIDE DEF n
  <2> QED BY <1>2, <2>1, QuietDebts DEF ListBegin, AimPoints
<1>3. CASE ListPut(c)
  <2> DEFINE n == [r EXCEPT !.pc = "items", !.src = None, !.item = None]
  <2>1. n.pc = "items" /\ Become(c, n, TRUE)
    BY <1>1, <1>3 DEF ListPut, Request
  <2> HIDE DEF n
  <2> QED BY <1>3, <2>1, QuietDebts DEF ListPut, AimPoints
<1>4. ASSUME NEW i \in Ids, ListSkip(c, i) PROVE Debts(h)'
  <2> DEFINE n == [r EXCEPT !.todo = @ \ {i}]
  <2>1. n.pc = "items" /\ Become(c, n, LeftOut(r, i))
    BY <1>1, <1>4 DEF ListSkip, At, Request
  <2> HIDE DEF n
  <2> QED BY <1>4, <2>1, QuietDebts DEF ListSkip, AimPoints
<1> QED BY <1>2, <1>3, <1>4

LEMMA NewRequestsDebts ==
  ASSUME "MOVE" \notin Kinds, TypeInv, NEW h, AtHome(h), Debts(h), NEW c \in Clients,
         NewRequests(c)
  PROVE  Debts(h)'
<1>1. ASSUME NEW p \in Paths, Stat(c, p) PROVE Debts(h)'
  <2> DEFINE r == NewRequest("STAT", p, None, None)
  <2>1. r \in Request
    BY NewRequestGood
  <2> HIDE DEF r
  <2>2. Become(c, Goto(r, "stat", None), FALSE)
    BY <1>1 DEF Stat, r
  <2> QED BY <1>1, <2>1, <2>2, GotoDebts DEF Stat, AimPoints
<1>2. ASSUME NEW p \in Paths, Delete(c, p) PROVE Debts(h)'
  <2> DEFINE r == NewRequest("DELETE", p, None, None)
  <2>1. r \in Request
    BY NewRequestGood
  <2> HIDE DEF r
  <2>2. Become(c, Goto(r, "delete", None), TRUE)
    BY <1>2 DEF Delete, r
  <2> QED BY <1>2, <2>1, <2>2, GotoDebts DEF Delete, AimPoints
<1>3. ASSUME NEW p \in Paths, NEW d \in Contents, Put(c, p, d) PROVE Debts(h)'
  <2> DEFINE r == NewRequest("PUT", p, None, d)
  <2>1. r \in Request /\ r.src = p
    BY NewRequestGood
  <2> HIDE DEF r
  <2>2. \/ Become(c, Goto(r, "upload", Resolution(p)), FALSE)
        \/ AskListing(c, r, "put_lookup")
    BY <1>3 DEF Put, r
  <2>3. UNCHANGED <<overlay, known, hidden, crossed, tasks>>
    BY <1>3 DEF Put
  <2>4. CASE Become(c, Goto(r, "upload", Resolution(p)), FALSE)
    <3>1. Resolution(p) # None /\ r.src \notin crossed => ~Owed(Resolution(p).id)
      BY <2>1, ResolutionNotOwed DEF Debts
    <3> QED BY <2>1, <2>3, <2>4, <3>1, GotoDebts
  <2>5. CASE AskListing(c, r, "put_lookup")
    BY <2>1, <2>3, <2>5, AskDebts DEF AimPoints, Points, PutPoints
  <2> QED BY <2>2, <2>4, <2>5
<1>4. ASSUME NEW p \in Paths, NEW q \in Paths, Move(c, p, q) PROVE FALSE
  <2>1. NewRequest("MOVE", p, q, None).kind = "MOVE"
    BY DEF NewRequest
  <2> QED BY <1>4, <2>1 DEF Move, Arrives
<1>5. CASE List(c)
  <2> DEFINE r == NewRequest("LIST", None, None, None)
  <2>1. r \in Request
    BY NewRequestGood
  <2> HIDE DEF r
  <2>2. AskListing(c, r, "listing")
    BY <1>5 DEF List, r
  <2>3. "listing" \in ListPoints
    BY DEF ListPoints
  <2> DEFINE n == [r EXCEPT !.pc = "listing", !.snap = listed]
  <2>4. n.pc = "listing" /\ Become(c, n, FALSE)
    BY <2>1, <2>2 DEF AskListing, Request
  <2> HIDE DEF n
  <2> QED BY <1>5, <2>4, QuietDebts DEF List, AimPoints
<1> QED BY <1>1, <1>2, <1>3, <1>4, <1>5 DEF NewRequests

(***************************************************************************)
(* Lookups answer with what is not hidden, hence not owed.                 *)
(***************************************************************************)
LEMMA LookupDebts ==
  ASSUME TypeInv, NEW h, AtHome(h), Debts(h), NEW c \in Clients, client[c].src \in Paths,
         NEW k, NEW pf, NEW pm, pf # "schedule", pm # "schedule",
         Answered(c, client[c].src, pf, pm, k),
         UNCHANGED <<overlay, hidden, crossed, tasks>>
  PROVE  Debts(h)'
<1> DEFINE r == client[c]
<1>1. r \in Request
  BY ClientHome
<1>2. \A q \in Paths : \/ known'[q] = known[q]
                       \/ overlay[q] = None /\ known'[q].id \notin hidden
  BY AnsweredHome
<1>0. HomeRequest(client'[c], h)
  BY AnsweredHome
<1>3. Others(c) /\ client'[c].src = r.src
  BY AnsweredHome DEF Others
<1>9. client'[c].pc \in {pf, pm}
  BY AnsweredHome
<1>10. client'[c].item = None \/ client'[c].item.id \notin hidden
  BY AnsweredHome
<1>4. \A i : Owed(i)' => Owed(i)
  BY <1>3, <1>9, OwedBecome
<1>5. ASSUME NEW i \in Ids, NEW q \in Paths \ crossed', i \in hidden, ~Recalls(q, i)
      PROVE  ~Recalls(q, i)'
  BY <1>2, <1>5 DEF Recalls, Uploaded
<1>6. Buried(h)'
  BY <1>4, <1>5, BuriedStep DEF Debts
<1>7. Aims(client'[c]) /\ client'[c].src \notin crossed' =>
          \A t \in tasks : t.id # client'[c].item.id
  <2> SUFFICES ASSUME client'[c].item # None, r.src \notin crossed, NEW t \in tasks,
                      t.id = client'[c].item.id
               PROVE  FALSE
    BY <1>3 DEF Aims
  <2>1. Owed(t.id) /\ t.id \in Ids /\ h[t.id] = r.src
    BY <1>0, <1>3 DEF Owed, AtHome, HomeRequest, TypeInv, StoreType, Task
  <2> QED BY <1>10, <2>1 DEF Debts, Buried
<1>8. OwedOnce' /\ FreeAims'
  BY <1>3, <1>7, OnceStep, FreeStep DEF Debts
<1> QED BY <1>6, <1>8 DEF Debts

LEMMA LookupsDebts ==
  ASSUME TypeInv, NEW h, AtHome(h), Debts(h), NEW c \in Clients,
         StatListed(c) \/ PutListed(c) \/ DeleteListed(c)
  PROVE  Debts(h)'
<1>1. /\ StatPath(client[c]) = client[c].src /\ DeletePath(client[c]) = client[c].src
      /\ client[c].src \in Paths
  BY Unmoved DEF StatListed, PutListed, DeleteListed, At, StatPoints, PutPoints, DeletePoints
<1> QED BY <1>1, LookupDebts DEF StatListed, PutListed, DeleteListed

(***************************************************************************)
(* upload                                                                  *)
(***************************************************************************)
LEMMA UploadedOthers ==
  ASSUME TypeInv, NEW c \in Clients, NEW i, StoreUploaded(c, i)
  PROVE  /\ Others(c) /\ client'[c].pc = "publish" /\ client'[c].src = client[c].src
         /\ client'[c].item.id = i /\ client'[c].content = client[c].content
<1> DEFINE item == [id |-> i, content |-> client[c].content]
<1>1. item.id = i
  OBVIOUS
<1>2. Become(c, Goto(client[c], "publish", item), FALSE)
  BY DEF StoreUploaded
<1>3. client[c] \in Request
  BY DEF TypeInv, RequestType
<1> HIDE DEF item
<1>4. client'[c] = Goto(client[c], "publish", item)
  BY <1>2, BecomeOthers
<1>5. client'[c].content = client[c].content
  BY <1>3, <1>4 DEF Goto, Request
<1>6. /\ Others(c) /\ client'[c].pc = "publish" /\ client'[c].item = item
      /\ client'[c].src = client[c].src
  BY <1>2, <1>3, GotoOthers
<1> QED BY <1>1, <1>5, <1>6

\* An upload over a media nobody owes makes its path recall that one alone.
LEMMA StoreUploadedDebts ==
  ASSUME TypeInv, NEW h, AtHome(h), Debts(h), NEW c \in Clients, NEW i \in Ids,
         StoreUploaded(c, i), client[c].pc = "upload", client[c].src \in Paths,
         client[c].src \notin crossed => ~Owed(i),
         UNCHANGED <<hidden, tasks, crossed>>
  PROVE  Debts(h)'
<1> DEFINE r == client[c]
<1>2. Others(c) /\ client'[c].pc = "publish"
  BY UploadedOthers
<1>3. \A j : Owed(j)' => Owed(j)
  BY <1>2, OwedBecome
<1>4. /\ \A q \in Paths \ {r.src} : overlay'[q] = overlay[q] /\ known'[q] = known[q]
      /\ overlay'[r.src].id = i
      /\ overlay'[r.src] # None
  <2> DEFINE e == [st |-> "uploaded", id |-> i, content |-> r.content, gone |-> FALSE]
  <2>1. e \in Entry \/ r.content \notin Contents
    BY DEF Entry
  <2>2. /\ \A q \in Paths \ {r.src} : overlay'[q] = overlay[q] /\ known'[q] = known[q]
        /\ overlay'[r.src] = e
    BY DEF StoreUploaded, TypeInv, StoreType
  <2>3. e # None
    <3>1. r.content \in Contents
      BY Facts DEF PutPoints
    <3> QED BY <2>1, <3>1, NoneIsNoRecord
  <2> QED BY <2>2, <2>3
<1>5. ASSUME NEW j \in Ids, NEW p \in Paths \ crossed', Owed(j), h[j] = p, ~Recalls(p, j)
      PROVE  ~Recalls(p, j)'
  <2>1. CASE p # r.src
    BY <1>4, <1>5, <2>1, SameRecalls
  <2>2. CASE p = r.src
    <3>1. j # i
      BY <1>5, <2>2
    <3> QED BY <1>4, <2>2, <3>1 DEF Recalls
  <2> QED BY <2>1, <2>2
<1>6. Buried(h)'
  BY <1>3, <1>5, BuriedStep DEF Debts
<1>7. OwedOnce' /\ FreeAims'
  BY <1>2, OnceStep, FreeStep DEF Debts, Aims, AimPoints
<1> QED BY <1>6, <1>7 DEF Debts

LEMMA UploadOverDebts ==
  ASSUME TypeInv, NEW h, AtHome(h), Alone, Debts(h), NEW c \in Clients, UploadOver(c)
  PROVE  Debts(h)'
<1>1. client[c].src \in Paths /\ client[c].item.id \in Ids
  BY Facts DEF UploadOver, At, PutPoints, Item
<1>2. client[c].src \notin crossed => ~Owed(client[c].item.id)
  BY AimNotOwed DEF UploadOver, At, Aims, AimPoints, Debts
<1> QED BY <1>1, <1>2, StoreUploadedDebts DEF UploadOver, At

LEMMA UploadNewDebts ==
  ASSUME TypeInv, NEW h \in [Ids -> Paths \cup {DupName}], AtHome(h), Homeless(h), Debts(h),
         NEW c \in Clients, UploadNew(c), NEW i \in Ids, remote[i].st = "free",
         client[c].src \in Paths, StoreUploaded(c, i),
         NEW g, g = [h EXCEPT ![i] = client[c].src]
  PROVE  Debts(g)'
<1>1. ~Owed(i)
  BY OwedHome, ConstantsAssumption DEF Homeless
<1>2. Debts(h)'
  BY <1>1, StoreUploadedDebts DEF UploadNew, At
<1>3. ~Owed(i)'
  <2>2. Others(c) /\ client'[c].pc = "publish"
    BY UploadedOthers
  <2> QED BY <1>1, <2>2, OwedBecome DEF UploadNew
<1>4. \A j \in Ids : j # i => g[j] = h[j]
  OBVIOUS
<1> QED BY <1>2, <1>3, <1>4 DEF Debts, Buried

(***************************************************************************)
(* delete                                                                  *)
(***************************************************************************)
LEMMA DeleteLookupDebts ==
  ASSUME TypeInv, NEW h, AtHome(h), Debts(h), NEW c \in Clients, DeleteLookup(c)
  PROVE  Debts(h)'
<1> DEFINE r == client[c]
           p == r.src
<1>1. r \in Request /\ HomeRequest(r, h) /\ p \in Paths /\ DeletePath(r) = p
  BY ClientHome, Unmoved DEF DeleteLookup, At, DeletePoints
<1>2. UNCHANGED <<overlay, known, hidden, crossed, tasks>>
  BY DEF DeleteLookup
<1>3. CASE known[p] # None
  <2>1. Resolution(p) = known[p]
    BY <1>1 DEF DeleteLookup, Resolution, Tombstone, Uploaded
  <2>2. p \notin crossed => ~Owed(known[p].id)
    BY <1>1, <1>3, <2>1, ResolutionNotOwed DEF Debts
  <2>3. Become(c, Goto(r, "del_item", known[p]), TRUE)
    BY <1>1, <1>3 DEF DeleteLookup
  <2> QED BY <1>1, <1>2, <2>2, <2>3, GotoDebts
<1>4. CASE known[p] = None
  BY <1>1, <1>2, <1>4, AskDebts DEF DeleteLookup, AimPoints, Points, DeletePoints
<1> QED BY <1>3, <1>4

LEMMA DeleteRecentDebts ==
  ASSUME TypeInv, NEW h, AtHome(h), Debts(h), NEW c \in Clients, DeleteRecent(c)
  PROVE  Debts(h)'
<1> DEFINE r == client[c]
           p == r.src
           item == EntryItem(overlay[p])
<1>1. r \in Request /\ HomeRequest(r, h) /\ p \in Paths /\ DeletePath(r) = p
  BY ClientHome, Unmoved DEF DeleteRecent, At, DeletePoints
<1>2. Become(c, Goto(r, "tombstone", item), FALSE)
  BY <1>1 DEF DeleteRecent
<1>3. /\ Others(c) /\ client'[c].pc = "tombstone" /\ client'[c].item = item
      /\ client'[c].src = p
  BY <1>1, <1>2, GotoOthers
<1>4. Uploaded(p) /\ Resolution(p) = item /\ item # None
  BY <1>1, NoneIsNoRecord DEF DeleteRecent, Resolution, Tombstone, Uploaded, EntryItem, TypeInv,
     StoreType, Entry, Item
<1>5. p \notin crossed => ~Owed(item.id)
  BY <1>1, <1>4, ResolutionNotOwed DEF Debts
<1>6. \A i : Owed(i)' => Owed(i)
  BY <1>3, OwedBecome DEF DeleteRecent
<1>7. /\ \A q \in Paths \ {p} : overlay'[q] = overlay[q] /\ known'[q] = known[q]
      /\ overlay'[p] = None /\ known'[p] = None
  BY <1>1 DEF DeleteRecent, TypeInv, StoreType
<1>8. ASSUME NEW i \in Ids, NEW q \in Paths, ~Recalls(q, i) PROVE ~Recalls(q, i)'
  BY <1>7, <1>8, SameRecalls DEF Recalls
<1>9. Buried(h)'
  BY <1>6, <1>8, BuriedStep DEF Debts, DeleteRecent
<1>10. Aims(client'[c]) /\ client'[c].src \notin crossed' =>
           \A t \in tasks : t.id # client'[c].item.id
  BY <1>3, <1>5 DEF Owed, AtHome, DeleteRecent
<1>11. OwedOnce' /\ FreeAims'
  BY <1>3, <1>10, OnceStep, FreeStep DEF Debts, DeleteRecent
<1> QED BY <1>9, <1>11 DEF Debts

\* A tombstone hides the debt it stands for.
LEMMA StoreTombstoneBuried ==
  ASSUME TypeInv, NEW h, Buried(h), NEW p \in Paths, NEW item \in Item,
         StoreTombstone(p, item), crossed' = crossed,
         \A i \in Ids : Owed(i)' => Owed(i) \/ i = item.id, h[item.id] = p
  PROVE  Buried(h)'
<1> DEFINE e == [st |-> "pending_delete", id |-> item.id,
                 content |-> item.content, gone |-> FALSE]
<1>1. /\ \A q \in Paths \ {p} : overlay'[q] = overlay[q] /\ known'[q] = known[q]
      /\ overlay'[p] = e
  BY DEF StoreTombstone, TypeInv, StoreType
<1>2. e \in Entry /\ e # None
  <2>1. item.id \in Ids /\ item.content \in Contents
    BY DEF Item
  <2>2. e \in Entry
    BY <2>1 DEF Entry
  <2> QED BY <2>2, NoneIsNoRecord
<1>3. hidden' = hidden \cup {item.id}
  BY DEF StoreTombstone
<1>4. \A i : ~Recalls(p, i)'
  BY <1>1, <1>2 DEF Recalls, Uploaded
<1>5. \A q \in Paths \ {p} : \A i : Recalls(q, i)' <=> Recalls(q, i)
  BY <1>1, SameRecalls
<1> QED BY <1>3, <1>4, <1>5 DEF Buried

LEMMA DeleteItemDebts ==
  ASSUME TypeInv, NEW h, AtHome(h), Alone, Debts(h), NEW c \in Clients, DeleteItem(c)
  PROVE  Debts(h)'
<1> DEFINE r == client[c]
           p == r.src
<1>1. /\ r \in Request /\ p \in Paths /\ DeletePath(r) = p /\ h[r.item.id] = p
      /\ r.item \in Item
  BY DeletingHome, Facts DEF DeleteItem, At, DeletePoints
<1>2. Become(c, Goto(r, "schedule", r.item), FALSE)
  BY DEF DeleteItem
<1>3. /\ Others(c) /\ client'[c].pc = "schedule" /\ client'[c].item = r.item
      /\ client'[c].src = p
  BY <1>1, <1>2, GotoOthers
<1>4. \A i \in Ids : Owed(i)' => Owed(i) \/ i = r.item.id
  BY <1>3 DEF Owed, Others, DeleteItem
<1>5. Buried(h)'
  BY <1>1, <1>4, StoreTombstoneBuried DEF DeleteItem, Debts
<1>6. p \notin crossed => ~Owed(r.item.id)
  BY AimNotOwed DEF DeleteItem, At, Aims, AimPoints, Debts
<1>7. Aims(client'[c]) /\ client'[c].src \notin crossed' =>
          \A t \in tasks : t.id # client'[c].item.id
  BY <1>3, <1>6 DEF Owed, AtHome, DeleteItem
<1>8. OwedOnce' /\ FreeAims'
  BY <1>3, <1>7, OnceStep, FreeStep DEF Debts, DeleteItem
<1> QED BY <1>5, <1>8 DEF Debts

\* A request schedules the delete of its item and ends.
LEMMA ScheduledDebts ==
  ASSUME TypeInv, NEW h, AtHome(h), Alone, Debts(h), NEW c \in Clients,
         client[c].pc \in {"tombstone", "schedule"}, Become(c, Idle, FALSE),
         tasks' = tasks \cup {Trash(client[c])}, crossed' = crossed
  PROVE  /\ OwedOnce' /\ FreeAims'
         /\ \A i \in Ids : Owed(i)' => Owed(i) \/ i = client[c].item.id
<1> DEFINE r == client[c]
           t == Trash(r)
<1>1. r.item # None
  BY Facts, NoneIsNoRecord DEF ItemPoints
<1>2. t.id = r.item.id /\ t.path = r.src
  BY <1>1, DeletingHome DEF DeletePoints
<1>3. Others(c) /\ client'[c].pc \notin AimPoints
  BY IdleOthers DEF AimPoints
<1>4. r.src \notin crossed => \A u \in tasks : u.id # r.item.id
  BY <1>1 DEF Debts, FreeAims, Aims, AimPoints
<1> HIDE DEF t
<1>5. tasks' = tasks \cup {t}
  BY DEF t
<1>6. OwedOnce'
  <2> SUFFICES ASSUME NEW u \in tasks', NEW v \in tasks', u.id = v.id, u.path \notin crossed
               PROVE  u = v
    BY DEF OwedOnce
  <2>1. CASE u \in tasks /\ v \in tasks
    BY <2>1 DEF Debts, OwedOnce
  <2>2. CASE u = t /\ v \in tasks
    BY <1>2, <1>4, <2>2
  <2>3. CASE u \in tasks /\ v = t
    <3>1. h[u.id] = u.path /\ h[t.id] = r.src
      BY <1>1, <1>2, <2>3 DEF AtHome, HomeRequest
    <3> QED BY <1>2, <1>4, <2>3, <3>1
  <2>4. CASE u = t /\ v = t
    BY <2>4
  <2> QED BY <1>5, <2>1, <2>2, <2>3, <2>4
<1>7. FreeAims'
  <2> SUFFICES ASSUME NEW d \in Clients, Aims(client'[d]), client'[d].src \notin crossed,
                      NEW u \in tasks'
               PROVE  u.id # client'[d].item.id
    BY DEF FreeAims
  <2>1. d # c /\ client'[d] = client[d]
    BY <1>3 DEF Aims, Others
  <2>2. CASE u \in tasks
    BY <2>1, <2>2 DEF Debts, FreeAims
  <2>3. CASE u = t
    BY <1>1, <1>2, <2>1, <2>3, Sole DEF Aims, AimPoints, PutPoints, DeletePoints
  <2> QED BY <1>5, <2>2, <2>3
<1>8. \A i \in Ids : Owed(i)' => Owed(i) \/ i = client[c].item.id
  BY <1>2, <1>3, <1>5 DEF Owed, Others, AimPoints
<1> QED BY <1>6, <1>7, <1>8

LEMMA DeleteTombstoneDebts ==
  ASSUME TypeInv, NEW h, AtHome(h), Alone, Debts(h), NEW c \in Clients, DeleteTombstone(c)
  PROVE  Debts(h)'
<1>1. client[c].item \in Item /\ client[c].item # None
  BY Facts, NoneIsNoRecord DEF DeleteTombstone, At, ItemPoints
<1>2. /\ client[c].src \in Paths /\ DeletePath(client[c]) = client[c].src
      /\ h[client[c].item.id] = client[c].src
  BY <1>1, DeletingHome DEF DeleteTombstone, At, DeletePoints
<1>3. Become(c, Idle, FALSE)
  BY DeletedHome DEF DeleteTombstone
<1>4. /\ OwedOnce' /\ FreeAims'
      /\ \A i \in Ids : Owed(i)' => Owed(i) \/ i = client[c].item.id
  BY <1>3, ScheduledDebts DEF DeleteTombstone, At
<1>5. Buried(h)'
  BY <1>1, <1>2, <1>4, StoreTombstoneBuried DEF DeleteTombstone, Debts
<1> QED BY <1>4, <1>5 DEF Debts

LEMMA DeleteScheduleDebts ==
  ASSUME TypeInv, NEW h, AtHome(h), Alone, Debts(h), NEW c \in Clients, DeleteSchedule(c)
  PROVE  Debts(h)'
<1>1. Become(c, Idle, FALSE)
  BY DeletedHome DEF DeleteSchedule
<1>2. /\ OwedOnce' /\ FreeAims'
      /\ \A i \in Ids : Owed(i)' => Owed(i) \/ i = client[c].item.id
  BY <1>1, ScheduledDebts DEF DeleteSchedule, At
<1>3. Owed(client[c].item.id)
  BY DEF Owed, DeleteSchedule, At
<1>4. Buried(h)'
  BY <1>2, <1>3, BuriedStep, SameRecalls DEF DeleteSchedule, Debts
<1> QED BY <1>2, <1>4 DEF Debts

(***************************************************************************)
(* list                                                                    *)
(***************************************************************************)
LEMMA ListingOthers ==
  ASSUME TypeInv, NEW c \in Clients,
         (\E i \in Ids : ListItem(c, i)) \/ (\E p \in Paths : ListRecent(c, p)) \/ ListEnd(c)
  PROVE  /\ Others(c) /\ client'[c].pc \in {"putting", "idle"}
         /\ client'[c].pc = "idle" => client'[c] = Idle
<1> DEFINE r == client[c]
<1>1. r \in Request
  BY DEF TypeInv, RequestType
<1>2. ASSUME NEW i \in Ids, ListItem(c, i) PROVE Others(c) /\ client'[c].pc = "putting"
  <2> DEFINE p == r.snap[i].name
             n == [r EXCEPT !.pc = "putting", !.src = p, !.item = ItemOf(r.snap, i),
                            !.todo = @ \ {i}, !.kids = [@ EXCEPT ![p] = None]]
  <2>1. n.pc = "putting" /\ Become(c, n, FALSE)
    BY <1>1, <1>2 DEF ListItem, Request
  <2> HIDE DEF n
  <2> QED BY <2>1, BecomeOthers
<1>3. ASSUME NEW p \in Paths, ListRecent(c, p) PROVE Others(c) /\ client'[c].pc = "putting"
  <2> DEFINE n == [r EXCEPT !.pc = "putting", !.src = p, !.item = EntryItem(r.kids[p]),
                            !.kids = [@ EXCEPT ![p] = None]]
  <2>1. n.pc = "putting" /\ Become(c, n, FALSE)
    BY <1>1, <1>3 DEF ListRecent, Request
  <2> HIDE DEF n
  <2> QED BY <2>1, BecomeOthers
<1>4. CASE ListEnd(c)
  BY <1>4, IdleOthers, BecomeOthers DEF ListEnd
<1> QED BY <1>2, <1>3, <1>4

\* What a listing hands out is not hidden, hence not owed.
LEMMA ListItemDebts ==
  ASSUME TypeInv, NEW h, AtHome(h), Debts(h), NEW c \in Clients, NEW i \in Ids,
         ListItem(c, i)
  PROVE  Debts(h)'
<1>1. Others(c) /\ client'[c].pc \in {"putting", "idle"}
  BY ListingOthers
<1>2. /\ i \notin hidden
      /\ \A q \in Paths : overlay'[q] \in {None, overlay[q]}
      /\ \A q \in Paths : \/ known'[q] = known[q] /\ overlay'[q] = overlay[q]
                          \/ known'[q].id = i
  BY ListItemHome
<1>3. \A j : Owed(j)' => Owed(j)
  BY <1>1, OwedBecome DEF ListItem
<1>4. ASSUME NEW j \in Ids, NEW q \in Paths, j \in hidden, ~Recalls(q, j)
      PROVE  ~Recalls(q, j)'
  <2>1. j # i
    BY <1>2, <1>4
  <2>2. CASE known'[q] = known[q] /\ overlay'[q] = overlay[q]
    BY <1>4, <2>2, SameRecalls
  <2>3. CASE known'[q].id = i /\ overlay'[q] = None
    BY <2>1, <2>3 DEF Recalls
  <2>4. CASE known'[q].id = i /\ overlay'[q] = overlay[q]
    BY <1>4, <2>1, <2>4 DEF Recalls, Uploaded
  <2> QED BY <1>2, <2>2, <2>3, <2>4
<1>5. Buried(h)'
  BY <1>3, <1>4, BuriedStep DEF Debts, ListItem
<1>6. OwedOnce' /\ FreeAims'
  BY <1>1, OnceStep, FreeStep DEF Debts, ListItem, Aims, AimPoints
<1> QED BY <1>5, <1>6 DEF Debts

\* An entry it copied may be one that is owed by now: the path is crossed.
LEMMA ListRecentDebts ==
  ASSUME TypeInv, NEW h, AtHome(h), Debts(h), NEW c \in Clients, NEW p \in Paths,
         ListRecent(c, p)
  PROVE  Debts(h)'
<1>1. Others(c) /\ client'[c].pc \in {"putting", "idle"}
  BY ListingOthers
<1> DEFINE i == EntryItem(client[c].kids[p]).id
<1>2. /\ \A q \in Paths \ {p} : known'[q] = known[q]
      /\ known'[p].id = i
  BY ListRecentHome
<1>3. /\ crossed' = IF overlay[p] = None /\ Owed(i) THEN crossed \cup {p} ELSE crossed
      /\ UNCHANGED <<overlay, hidden, tasks>>
  BY DEF ListRecent
<1> HIDE DEF i
<1>4. \A j : Owed(j)' => Owed(j)
  BY <1>1, <1>3, OwedBecome
<1>5. ASSUME NEW j \in Ids, NEW q \in Paths \ crossed', Owed(j), ~Recalls(q, j)
      PROVE  ~Recalls(q, j)'
  <2>1. CASE q # p
    BY <1>2, <1>3, <1>5, <2>1, SameRecalls
  <2>2. CASE q = p /\ overlay[p] # None
    BY <1>3, <1>5, <2>2 DEF Recalls, Uploaded
  <2>3. CASE q = p /\ overlay[p] = None
    <3>1. i # j
      BY <1>3, <1>5, <2>3
    <3> QED BY <1>2, <1>3, <2>3, <3>1 DEF Recalls
  <2> QED BY <2>1, <2>2, <2>3
<1>6. Buried(h)'
  BY <1>3, <1>4, <1>5, BuriedStep DEF Debts
<1>7. OwedOnce' /\ FreeAims'
  BY <1>1, <1>3, OnceStep, FreeStep DEF Debts, Aims, AimPoints
<1> QED BY <1>6, <1>7 DEF Debts

\* A sweep shows an id again only when its delete was confirmed.
LEMMA ListEndDebts ==
  ASSUME TypeInv, NEW h, AtHome(h), Debts(h), NEW c \in Clients, ListEnd(c)
  PROVE  Debts(h)'
<1>1. Others(c) /\ client'[c].pc \in {"putting", "idle"}
  BY ListingOthers
<1> DEFINE done == Settled(client[c].snap)
<1>2. /\ \A q \in Paths : overlay'[q] = IF q \in done THEN None ELSE overlay[q]
      /\ \A q \in Paths : known'[q] = IF q \in done THEN None ELSE known[q]
      /\ hidden' = hidden \ {overlay[q].id : q \in done}
  BY DEF ListEnd
<1>3. done \subseteq Paths /\ \A q \in done : overlay[q] # None /\ overlay[q].gone
  BY DEF Settled, Tombstone
<1> HIDE DEF done
<1>4. \A j : Owed(j)' => Owed(j)
  BY <1>1, OwedBecome DEF ListEnd
<1>5. ASSUME NEW j \in Ids, NEW p \in Paths \ crossed', j \in hidden, h[j] = p, ~Recalls(p, j)
      PROVE  j \in hidden' /\ ~Recalls(p, j)'
  <2>1. ~Recalls(p, j)'
    BY <1>2, <1>5 DEF Recalls, Uploaded
  <2>2. ASSUME NEW q \in done PROVE overlay[q].id # j
    <3>1. q = p \/ overlay[q].id # j
      BY <1>3, <1>5 DEF AtHome
    <3> QED BY <1>3, <1>5, <3>1 DEF Recalls
  <2> QED BY <1>2, <1>5, <2>1, <2>2
<1>6. Buried(h)'
  BY <1>4, <1>5, BuriedStep DEF Debts, ListEnd
<1>7. OwedOnce' /\ FreeAims'
  BY <1>1, OnceStep, FreeStep DEF Debts, ListEnd, Aims, AimPoints
<1> QED BY <1>6, <1>7 DEF Debts

(***************************************************************************)
(* Background tasks, time, restarts.                                       *)
(***************************************************************************)
LEMMA SameClients ==
  ASSUME FreeAims, UNCHANGED client, tasks' \subseteq tasks, crossed \subseteq crossed'
  PROVE  FreeAims'
  BY DEF FreeAims

\* A delete that is carried out was the only one of its media; the tombstone
\* it settles is that of the media, or the path becomes crossed.
LEMMA TrashDoneDebts ==
  ASSUME TypeInv, NEW h, AtHome(h), Debts(h), NEW t \in tasks, TrashDone(t)
  PROVE  Debts(h)'
<1>1. /\ t.id \in Ids /\ t.path \in Paths
      /\ \A p \in Paths :
            /\ overlay'[p] = None <=> overlay[p] = None
            /\ overlay[p] # None => /\ overlay'[p].id = overlay[p].id
                                    /\ overlay'[p].st = overlay[p].st
            /\ p # t.path => overlay'[p] = overlay[p]
  BY TrashDoneEntries
<1>2. /\ tasks' = tasks \ {t} /\ UNCHANGED <<known, hidden, client>>
      /\ crossed \subseteq crossed'
      /\ Tombstone(t.path) /\ overlay[t.path].id # t.id => t.path \in crossed'
      /\ ~Tombstone(t.path) => UNCHANGED overlay
  BY DEF TrashDone
<1>3. \A i : Owed(i)' => Owed(i)
  BY <1>2, OwedStep
<1>4. t.path \notin crossed => ~Owed(t.id)'
  <2> SUFFICES ASSUME t.path \notin crossed, Owed(t.id)' PROVE FALSE
    OBVIOUS
  <2>1. ASSUME NEW u \in tasks', u.id = t.id PROVE FALSE
    BY <1>2, <2>1 DEF Debts, OwedOnce
  <2>2. ASSUME NEW c \in Clients, client[c].pc = "schedule", client[c].item.id = t.id
        PROVE  FALSE
    <3>1. client[c].item # None
      BY <2>2, Facts, NoneIsNoRecord DEF ItemPoints
    <3>2. client[c].src = t.path
      BY <2>2, <3>1 DEF AtHome, HomeRequest
    <3> QED BY <2>2, <3>1, <3>2 DEF Debts, FreeAims, Aims, AimPoints
  <2> QED BY <1>2, <2>1, <2>2 DEF Owed
<1>5. ASSUME NEW i \in Ids, NEW p \in Paths \ crossed', Owed(i)', h[i] = p, ~Recalls(p, i)
      PROVE  ~Recalls(p, i)'
  <2>1. CASE p # t.path \/ ~Tombstone(t.path)
    BY <1>1, <1>2, <1>5, <2>1, SameRecalls
  <2>2. CASE p = t.path /\ Tombstone(t.path)
    <3>1. overlay[p].id = t.id /\ i # t.id
      BY <1>2, <1>4, <1>5, <2>2
    <3> QED BY <1>1, <2>2, <3>1 DEF Recalls, Tombstone
  <2> QED BY <2>1, <2>2
<1>6. Buried(h)'
  BY <1>2, <1>3, <1>5 DEF Debts, Buried
<1>7. OwedOnce' /\ FreeAims'
  BY <1>2, OnceStep, SameClients DEF Debts
<1> QED BY <1>6, <1>7 DEF Debts

LEMMA TimeDebts ==
  ASSUME NEW h, Debts(h), UNCHANGED <<overlay, known, hidden, client, crossed>>,
         tasks' \subseteq tasks
  PROVE  Debts(h)'
<1>1. Buried(h)'
  BY OwedStep, BuriedStep, SameRecalls DEF Debts
<1>2. OwedOnce' /\ FreeAims'
  BY OnceStep, SameClients DEF Debts
<1> QED BY <1>1, <1>2 DEF Debts

LEMMA RestartDebts ==
  ASSUME NEW h, Restart
  PROVE  Debts(h)'
<1>1. /\ tasks' = {} /\ crossed' = {}
      /\ \A c \in Clients : client'[c].pc = "idle"
  BY DEF Restart, Idle, NewRequest
<1> QED BY <1>1 DEF Debts, Buried, Owed, OwedOnce, FreeAims, Aims, AimPoints

LEMMA DebtsNext ==
  ASSUME "MOVE" \notin Kinds, ~Expiry, TypeInv, NEW h, AtHome(h), Alone, Debts(h),
         [Next]_vars, \A c \in Clients : ~UploadNew(c)
  PROVE  Debts(h)'
<1>1. ASSUME NEW c \in Clients, NewRequests(c) PROVE Debts(h)'
  BY <1>1, NewRequestsDebts
<1>2. ASSUME NEW c \in Clients, Continue(c) PROVE Debts(h)'
  <2>1. ~MoveEntry(c) /\ ~MoveLookup(c) /\ ~MoveListed(c) /\ ~MoveRename(c)
    BY Unmoved DEF MoveEntry, MoveLookup, MoveListed, MoveRename, At, MovePoints
  <2>2. ~MoveRefused(c) /\ ~PublishMove(c)
    BY Unmoved DEF MoveRefused, PublishMove, At, MovePoints
  <2> QED
    BY <1>2, <2>1, <2>2, QuietActionsDebts, ListQuietDebts, LookupsDebts, UploadOverDebts,
       DeleteLookupDebts, DeleteRecentDebts, DeleteItemDebts, DeleteTombstoneDebts,
       DeleteScheduleDebts, ListItemDebts, ListRecentDebts, ListEndDebts DEF Continue
<1>3. CASE Background
  <2>1. ASSUME NEW t \in tasks, TrashDone(t) PROVE Debts(h)'
    BY <2>1, TrashDoneDebts
  <2>2. ASSUME NEW t \in tasks, RenameDone(t) PROVE FALSE
    BY <2>2 DEF RenameDone, AtHome
  <2>3. ASSUME NEW t \in tasks, TaskFails(t) PROVE Debts(h)'
    BY <2>3, TimeDebts DEF TaskFails
  <2> QED BY <1>3, <2>1, <2>2, <2>3 DEF Background
<1>4. CASE Environment
  <2>1. ASSUME NEW i \in Ids, Validated(i) \/ Shows(i) PROVE Debts(h)'
    BY <2>1, TimeDebts DEF Validated, Shows
  <2>2. ASSUME NEW p \in Paths, CacheExpires(p) PROVE Debts(h)'
    BY <2>2, TimeDebts DEF CacheExpires
  <2> QED BY <1>4, <2>1, <2>2, RestartDebts DEF Environment, HiddenExpires, EntryExpires
<1>5. CASE UNCHANGED vars
  BY <1>5, TimeDebts DEF vars
<1> QED BY <1>1, <1>2, <1>3, <1>4, <1>5 DEF Next

-----------------------------------------------------------------------------
(***************************************************************************)
(* What was written stays.  Between its upload and its answer a write is   *)
(* stored in the media of its request, and from then on in one that is at  *)
(* home there; in a media no task is going to trash.                       *)
(***************************************************************************)
Safe(i, d) ==
    /\ remote[i].st = "live" /\ remote[i].content = d
    /\ \A t \in tasks : t.id # i

Written ==
    \A c \in Clients : client[c].pc = "publish" /\ client[c].src \notin crossed =>
        Safe(client[c].item.id, client[c].content)

Publishing(p) == \E c \in Clients : client[c].pc = "publish" /\ client[c].src = p

Kept(h) ==
    \A p \in Paths \ crossed : promise[p] \in Contents /\ ~Publishing(p) =>
        \E i \in Ids : h[i] = p /\ Safe(i, promise[p])

\* No request begins or ends to publish.
NoPublishing ==
    \A c \in Clients : client[c].pc = "publish" \/ client'[c].pc = "publish" =>
        client'[c] = client[c]

LEMMA SameSafe ==
  ASSUME NEW i, NEW d, Safe(i, d), remote'[i] = remote[i], \A t \in tasks' : t.id # i \/ t \in tasks
  PROVE  Safe(i, d)'
  BY DEF Safe

LEMMA KeepStep ==
  ASSUME NEW h, Written, Kept(h), NoPublishing, UNCHANGED <<remote, promise>>,
         tasks' \subseteq tasks, crossed \subseteq crossed'
  PROVE  Written' /\ Kept(h)'
<1>1. \A i, d : Safe(i, d) => Safe(i, d)'
  BY DEF Safe
<1>2. Written'
  BY <1>1 DEF Written, NoPublishing
<1>3. \A p \in Paths : Publishing(p) => Publishing(p)'
  BY DEF Publishing, NoPublishing
<1>4. Kept(h)'
  BY <1>1, <1>3 DEF Kept
<1> QED BY <1>2, <1>4

\* A request that is not publishing goes on, and does not publish.
LEMMA GoesOn ==
  ASSUME NEW h, Written, Kept(h), NEW c \in Clients, Others(c),
         client[c].pc # "publish", client'[c].pc # "publish",
         UNCHANGED <<remote, promise>>,
         tasks' \subseteq tasks, crossed \subseteq crossed'
  PROVE  Written' /\ Kept(h)'
<1>1. NoPublishing
  BY DEF NoPublishing, Others
<1> QED BY <1>1, KeepStep

LEMMA AskOthers ==
  ASSUME TypeInv, NEW c \in Clients, NEW r \in Request, NEW pc, AskListing(c, r, pc)
  PROVE  Others(c) /\ client'[c].pc = pc
<1> DEFINE n == [r EXCEPT !.pc = pc, !.snap = listed]
<1>1. n.pc = pc /\ Become(c, n, FALSE)
  BY DEF AskListing, Request
<1> HIDE DEF n
<1> QED BY <1>1, BecomeOthers

LEMMA NewRequestsKept ==
  ASSUME TypeInv, NEW h, Written, Kept(h), NEW c \in Clients, NewRequests(c)
  PROVE  Written' /\ Kept(h)'
<1>1. client[c].pc # "publish"
  <2>1. client[c] = Idle
    BY DEF NewRequests, Stat, Delete, Put, Move, List, Arrives
  <2> QED BY <2>1 DEF Idle, NewRequest
<1>2. UNCHANGED <<remote, promise, tasks, crossed>>
  BY DEF NewRequests, Stat, Delete, Put, Move, List, remoteVars
<1> DEFINE goal == Others(c) /\ client'[c].pc # "publish"
<1> SUFFICES goal
  BY <1>1, <1>2, GoesOn
<1>3. ASSUME NEW r \in Request, NEW pc, pc # "publish", NEW item, NEW k,
             Become(c, Goto(r, pc, item), k)
      PROVE  goal
  BY <1>3, GotoOthers
<1>4. ASSUME NEW r \in Request, NEW pc, pc # "publish", AskListing(c, r, pc)
      PROVE  goal
  BY <1>4, AskOthers
<1>5. ASSUME NEW p \in Paths, Stat(c, p) PROVE goal
  <2> DEFINE r == NewRequest("STAT", p, None, None)
  <2>1. r \in Request
    BY NewRequestGood
  <2> HIDE DEF r
  <2> QED BY <1>3, <1>5, <2>1 DEF Stat, r
<1>6. ASSUME NEW p \in Paths, Delete(c, p) PROVE goal
  <2> DEFINE r == NewRequest("DELETE", p, None, None)
  <2>1. r \in Request
    BY NewRequestGood
  <2> HIDE DEF r
  <2> QED BY <1>3, <1>6, <2>1 DEF Delete, r
<1>7. ASSUME NEW p \in Paths, NEW d \in Contents, Put(c, p, d)
      PROVE  goal
  <2> DEFINE r == NewRequest("PUT", p, None, d)
  <2>1. r \in Request
    BY NewRequestGood
  <2> HIDE DEF r
  <2>2. Become(c, Goto(r, "upload", Resolution(p)), FALSE) \/ AskListing(c, r, "put_lookup")
    BY <1>7 DEF Put, r
  <2> QED BY <1>3, <1>4, <2>1, <2>2
<1>8. ASSUME NEW p \in Paths, NEW q \in Paths, Move(c, p, q)
      PROVE  goal
  <2> DEFINE r == NewRequest("MOVE", p, q, None)
  <2>1. r \in Request
    BY NewRequestGood
  <2> HIDE DEF r
  <2>2. \E pc \in {"delete", "source", "stat"}, k \in BOOLEAN : Become(c, Goto(r, pc, None), k)
    BY <1>8 DEF Move, r
  <2> QED BY <1>3, <2>1, <2>2
<1>9. CASE List(c)
  <2> DEFINE r == NewRequest("LIST", None, None, None)
  <2>1. r \in Request
    BY NewRequestGood
  <2> HIDE DEF r
  <2>2. AskListing(c, r, "listing")
    BY <1>9 DEF List, r
  <2> QED BY <2>1, <2>2, AskOthers
<1> QED BY <1>5, <1>6, <1>7, <1>8, <1>9 DEF NewRequests

\* The steps of a request that store nothing and schedule nothing.
LEMMA QuietActionsKept ==
  ASSUME TypeInv, NEW h, AtHome(h), Written, Kept(h), NEW c \in Clients,
         \/ StatMiss(c) \/ StatListed(c) \/ StatAnswer(c) \/ StatAbsent(c)
         \/ PutListed(c) \/ UploadRefused(c)
         \/ DeleteRecent(c) \/ DeleteLookup(c) \/ DeleteListed(c)
         \/ DeleteMissing(c) \/ DeleteItem(c)
  PROVE  Written' /\ Kept(h)'
<1>1. client[c].pc # "publish"
  BY DEF StatMiss, StatListed, StatAnswer, StatAbsent, PutListed, UploadRefused,
     DeleteRecent, DeleteLookup, DeleteListed, DeleteMissing, DeleteItem, At
<1>2. UNCHANGED <<remote, promise, tasks, crossed>>
  BY DEF StatMiss, StatListed, StatAnswer, StatAbsent, PutListed, UploadRefused,
     DeleteRecent, DeleteLookup, DeleteListed, DeleteMissing, DeleteItem, remoteVars
<1>3. client[c] \in Request /\ client[c].kind # "MOVE"
  BY ClientHome DEF HomeRequest
<1>4. ASSUME NEW pc, pc # "publish", NEW item, NEW k, Become(c, Goto(client[c], pc, item), k)
      PROVE  Others(c) /\ client'[c].pc # "publish"
  BY <1>3, <1>4, GotoOthers
<1>5. ASSUME NEW pc, pc # "publish", AskListing(c, client[c], pc)
      PROVE  Others(c) /\ client'[c].pc # "publish"
  BY <1>3, <1>5, AskOthers
<1>6. CASE StatMiss(c) \/ DeleteLookup(c)
  BY <1>1, <1>2, <1>4, <1>5, <1>6, GoesOn DEF StatMiss, DeleteLookup
<1>7. CASE DeleteRecent(c) \/ DeleteItem(c)
  BY <1>1, <1>2, <1>4, <1>7, GoesOn DEF DeleteRecent, DeleteItem
<1>8. CASE StatAnswer(c) \/ StatAbsent(c) \/ UploadRefused(c) \/ DeleteMissing(c)
  <2>1. Become(c, Idle, FALSE)
    BY <1>3, <1>8 DEF StatAnswer, StatAbsent, UploadRefused, DeleteMissing
  <2> QED BY <1>1, <1>2, <2>1, IdleOthers, GoesOn
<1>9. CASE StatListed(c) \/ PutListed(c) \/ DeleteListed(c)
  <2>1. /\ StatPath(client[c]) = client[c].src /\ DeletePath(client[c]) = client[c].src
        /\ client[c].src \in Paths
    BY <1>9, Unmoved DEF StatListed, PutListed, DeleteListed, At, StatPoints, PutPoints,
       DeletePoints
  <2>2. PICK p \in Paths : p = client[c].src
    BY <2>1
  <2>3. PICK pf \in {"answer", "upload", "del_item"}, pm \in {"absent", "upload", "del_item"},
             k \in BOOLEAN : Answered(c, p, pf, pm, k)
    BY <1>9, <2>1, <2>2 DEF StatListed, PutListed, DeleteListed
  <2>4. Others(c)
    BY <2>2, <2>3, AnsweredHome DEF Others
  <2>5. client'[c].pc \in {pf, pm}
    BY <2>2, <2>3, AnsweredHome
  <2> QED BY <1>1, <1>2, <2>3, <2>4, <2>5, GoesOn
<1> QED BY <1>6, <1>7, <1>8, <1>9

\* A listing goes on listing, until it ends.
LEMMA ListSteps ==
  ASSUME TypeInv, NEW c \in Clients,
         \/ ListBegin(c) \/ ListPut(c) \/ ListEnd(c)
         \/ (\E i \in Ids : ListSkip(c, i) \/ ListItem(c, i))
         \/ (\E p \in Paths : ListRecent(c, p))
  PROVE  Others(c) /\ (client'[c] = Idle \/ client'[c].pc \in {"items", "putting"})
<1> DEFINE r == client[c]
           goal == Others(c) /\ (client'[c] = Idle \/ client'[c].pc \in {"items", "putting"})
<1>1. r \in Request
  BY DEF TypeInv, RequestType
<1>2. CASE ListEnd(c) \/ (\E i \in Ids : ListItem(c, i)) \/ (\E p \in Paths : ListRecent(c, p))
  BY <1>2, ListingOthers
<1>4. CASE ListBegin(c)
  <2> DEFINE n == [r EXCEPT !.pc = "items", !.kids = overlay,
                            !.todo = {i \in Ids : r.snap[i] # None}]
  <2>1. n.pc = "items" /\ Become(c, n, TRUE)
    BY <1>1, <1>4 DEF ListBegin, Request
  <2> HIDE DEF n
  <2> QED BY <2>1, BecomeOthers
<1>5. CASE ListPut(c)
  <2> DEFINE n == [r EXCEPT !.pc = "items", !.src = None, !.item = None]
  <2>1. n.pc = "items" /\ Become(c, n, TRUE)
    BY <1>1, <1>5 DEF ListPut, Request
  <2> HIDE DEF n
  <2> QED BY <2>1, BecomeOthers
<1>6. ASSUME NEW i \in Ids, ListSkip(c, i) PROVE goal
  <2> DEFINE n == [r EXCEPT !.todo = @ \ {i}]
  <2>1. n.pc = "items" /\ Become(c, n, LeftOut(r, i))
    BY <1>1, <1>6 DEF ListSkip, At, Request
  <2> HIDE DEF n
  <2> QED BY <2>1, BecomeOthers
<1> QED BY <1>2, <1>4, <1>5, <1>6

LEMMA ListKept ==
  ASSUME TypeInv, NEW h, Written, Kept(h), NEW c \in Clients,
         \/ ListBegin(c) \/ ListPut(c) \/ ListEnd(c)
         \/ (\E i \in Ids : ListSkip(c, i) \/ ListItem(c, i))
         \/ (\E p \in Paths : ListRecent(c, p))
  PROVE  Written' /\ Kept(h)'
<1>1. /\ UNCHANGED <<remote, promise, tasks>> /\ crossed \subseteq crossed'
      /\ client[c].pc \in ListPoints
  BY DEF ListBegin, ListPut, ListEnd, ListSkip, ListItem, ListRecent, At, remoteVars, ListPoints
<1>2. Others(c) /\ client'[c].pc # "publish"
  BY ListSteps DEF Idle, NewRequest
<1> QED BY <1>1, <1>2, GoesOn DEF ListPoints
\* A write is acknowledged: what was written at its path is what is promised.
LEMMA PublishKept ==
  ASSUME TypeInv, NEW h, AtHome(h), Written, Kept(h), NEW c \in Clients, Publish(c)
  PROVE  Written' /\ Kept(h)'
<1> DEFINE r == client[c]
<1>1. /\ r.pc = "publish" /\ r.src \in Paths /\ r.item # None
      /\ r.item.id \in Ids /\ h[r.item.id] = r.src
  <2>1. r.pc = "publish" /\ r.src \in Paths /\ r.item \in Item
    BY Facts DEF Publish, At, PutPoints, ItemPoints
  <2> QED BY <2>1, NoneIsNoRecord DEF AtHome, HomeRequest, Item
<1>2. /\ UNCHANGED <<remote, tasks, crossed>>
      /\ \A p \in Paths : promise'[p] = IF p = r.src THEN r.content ELSE promise[p]
  BY <1>1 DEF Publish, remoteVars, TypeInv, GhostType
<1>3. Others(c) /\ client'[c].pc = "idle"
  BY IdleOthers DEF Publish
<1>4. \A i, d : Safe(i, d)' <=> Safe(i, d)
  BY <1>2 DEF Safe
<1>5. Written'
  BY <1>2, <1>3, <1>4 DEF Written, Others
<1>6. ASSUME NEW p \in Paths \ crossed', promise'[p] \in Contents, ~Publishing(p)'
      PROVE  \E i \in Ids : h[i] = p /\ Safe(i, promise[p])'
  <2>1. CASE p = r.src
    <3>1. Safe(r.item.id, r.content)
      BY <1>1, <1>2, <1>6, <2>1 DEF Written
    <3> QED BY <1>1, <1>2, <1>4, <2>1, <3>1
  <2>2. CASE p # r.src
    <3>1. ~Publishing(p)
      BY <1>3, <1>6, <2>2 DEF Publishing, Others
    <3> QED BY <1>2, <1>4, <1>6, <2>2, <3>1 DEF Kept
  <2> QED BY <2>1, <2>2
<1>7. Kept(h)'
  BY <1>6 DEF Kept
<1> QED BY <1>5, <1>7

\* A DELETE takes the promise back; what it is going to trash is of its path.
LEMMA DeletedKept ==
  ASSUME TypeInv, NEW h, AtHome(h), Alone, Written, Kept(h), NEW c \in Clients,
         client[c].pc \in DeletePoints, Deleted(c), UNCHANGED <<remote, crossed>>,
         \A t \in tasks' : \/ t \in tasks
                          \/ (client[c].item # None /\ t.id = client[c].item.id)
  PROVE  Written' /\ Kept(h)'
<1> DEFINE r == client[c]
<1>1. /\ r.src \in Paths /\ r.kind # "MOVE" /\ DeletePath(r) = r.src
      /\ r.item # None => h[r.item.id] = r.src
  BY ClientHome, Unmoved DEF HomeRequest
<1>2. \A p \in Paths : promise'[p] = IF p = r.src THEN None ELSE promise[p]
  BY <1>1 DEF Deleted, TypeInv, GhostType
<1>3. Others(c) /\ client'[c].pc = "idle"
  BY DeletedHome, IdleOthers
<1>4. ASSUME NEW d \in Clients, client'[d].pc = "publish", client'[d].src \notin crossed'
      PROVE  Safe(client[d].item.id, client[d].content)'
  <2>1. d # c /\ client'[d] = client[d]
    BY <1>3, <1>4 DEF Others
  <2>2. Safe(client[d].item.id, client[d].content)
    BY <1>4, <2>1 DEF Written
  <2>3. r.item # None => client[d].item.id # r.item.id
    <3>1. client[d].item # None
      BY <1>4, <2>1, Facts, NoneIsNoRecord DEF ItemPoints
    <3> QED BY <1>4, <2>1, <3>1, Sole DEF PutPoints
  <2> QED BY <2>1, <2>2, <2>3 DEF Safe
<1>5. Written'
  BY <1>4 DEF Written
<1>6. ASSUME NEW p \in Paths \ crossed', promise'[p] \in Contents, ~Publishing(p)'
      PROVE  \E i \in Ids : h[i] = p /\ Safe(i, promise[p])'
  <2>1. p # r.src /\ promise'[p] = promise[p]
    BY <1>2, <1>6, ConstantsAssumption
  <2>2. ~Publishing(p)
    BY <1>3, <1>6, <2>1 DEF Publishing, Others
  <2>3. PICK i \in Ids : h[i] = p /\ Safe(i, promise[p])
    BY <1>6, <2>1, <2>2 DEF Kept
  <2>4. r.item # None => i # r.item.id
    BY <1>1, <2>1, <2>3
  <2>5. Safe(i, promise[p])'
    BY <2>1, <2>3, <2>4 DEF Safe
  <2> QED BY <2>3, <2>5
<1>7. Kept(h)'
  BY <1>6 DEF Kept
<1> QED BY <1>5, <1>7

LEMMA DeletesKept ==
  ASSUME TypeInv, NEW h, AtHome(h), Alone, Written, Kept(h), NEW c \in Clients,
         DeleteAgain(c) \/ DeleteTombstone(c) \/ DeleteSchedule(c)
  PROVE  Written' /\ Kept(h)'
<1>1. CASE DeleteAgain(c)
  <2>1. client[c].pc \in DeletePoints /\ Deleted(c) /\ UNCHANGED <<remote, crossed, tasks>>
    BY <1>1 DEF DeleteAgain, At, DeletePoints, remoteVars
  <2> QED BY <2>1, DeletedKept
<1>2. CASE DeleteTombstone(c) \/ DeleteSchedule(c)
  <2>1. client[c].item # None
    BY <1>2, Facts, NoneIsNoRecord DEF DeleteTombstone, DeleteSchedule, At, ItemPoints
  <2>2. client[c].pc \in DeletePoints
    BY <1>2 DEF DeleteTombstone, DeleteSchedule, At, DeletePoints
  <2>3. Trash(client[c]).id = client[c].item.id
    BY <2>1, <2>2, DeletingHome
  <2>4. Deleted(c) /\ UNCHANGED <<remote, crossed>> /\ tasks' = tasks \cup {Trash(client[c])}
    BY <1>2 DEF DeleteTombstone, DeleteSchedule, remoteVars
  <2>5. \A t \in tasks' : t \in tasks \/ (client[c].item # None /\ t.id = client[c].item.id)
    BY <2>1, <2>3, <2>4
  <2> QED BY <2>2, <2>4, <2>5, DeletedKept
<1> QED BY <1>1, <1>2

\* What an upload stores is the content of its request, and touches no media
\* of another path.
LEMMA StoredKept ==
  ASSUME TypeInv, NEW h, NEW g, Written, Kept(h), NEW c \in Clients, NEW i \in Ids,
         client[c].src \in Paths, client[c].pc = "upload", StoreUploaded(c, i),
         g[i] = client[c].src, \A j \in Ids \ {i} : g[j] = h[j],
         h[i] \in {DupName, client[c].src},
         remote'[i].st = "live", remote'[i].content = client[c].content,
         \A j \in Ids \ {i} : remote'[j] = remote[j],
         client[c].src \notin crossed => \A t \in tasks : t.id # i,
         \A d \in Clients \ {c} : client[d].pc = "publish" /\ client[d].src \notin crossed =>
             client[d].item.id \in Ids \ {i},
         UNCHANGED <<promise, tasks, crossed>>
  PROVE  Written' /\ Kept(g)'
<1> DEFINE r == client[c]
<1>1. /\ Others(c) /\ client'[c].pc = "publish" /\ client'[c].src = r.src
      /\ client'[c].item.id = i /\ client'[c].content = r.content
  BY UploadedOthers
<1>2. r.src \notin crossed => Safe(i, r.content)'
  BY <1>1 DEF Safe
<1>3. \A j \in Ids \ {i} : \A d : Safe(j, d) => Safe(j, d)'
  BY DEF Safe
<1>4. ASSUME NEW d \in Clients, client'[d].pc = "publish", client'[d].src \notin crossed'
      PROVE  Safe(client[d].item.id, client[d].content)'
  <2>1. CASE d = c
    <3>1. Safe(i, r.content)'
      BY <1>1, <1>2, <1>4, <2>1
    <3> QED BY <1>1, <2>1, <3>1 DEF Safe
  <2>2. CASE d # c
    <3>1. client'[d] = client[d]
      BY <1>1, <2>2 DEF Others
    <3>2. Safe(client[d].item.id, client[d].content) /\ client[d].item.id \in Ids \ {i}
      BY <1>4, <2>2, <3>1 DEF Written
    <3> QED BY <3>1, <3>2 DEF Safe
  <2> QED BY <2>1, <2>2
<1>5. Written'
  BY <1>4 DEF Written
<1>6. ASSUME NEW p \in Paths \ crossed', promise'[p] \in Contents, ~Publishing(p)'
      PROVE  \E j \in Ids : g[j] = p /\ Safe(j, promise[p])'
  <2>1. p # r.src
    BY <1>1, <1>6 DEF Publishing
  <2>2. ~Publishing(p)
    BY <1>1, <1>6 DEF Publishing, Others
  <2>3. PICK j \in Ids : h[j] = p /\ Safe(j, promise[p])
    BY <1>6, <2>2 DEF Kept
  <2>4. j # i
    BY <2>1, <2>3, ConstantsAssumption
  <2>5. Safe(j, promise[p])'
    BY <2>3, <2>4 DEF Safe
  <2> QED BY <2>3, <2>4, <2>5
<1>7. Kept(g)'
  BY <1>6 DEF Kept
<1> QED BY <1>5, <1>7

LEMMA UploadOverKept ==
  ASSUME TypeInv, NEW h, AtHome(h), Alone, FreeAims, Written, Kept(h), NEW c \in Clients,
         UploadOver(c)
  PROVE  Written' /\ Kept(h)'
<1> DEFINE i == client[c].item.id
<1>1. /\ client[c].src \in Paths /\ client[c].pc = "upload" /\ client[c].item # None
      /\ i \in Ids /\ h[i] = client[c].src
  <2>1. client[c].src \in Paths /\ client[c].pc = "upload" /\ i \in Ids
    BY Facts DEF UploadOver, At, PutPoints, Item
  <2> QED BY <2>1 DEF UploadOver, AtHome, HomeRequest
<1>2. /\ remote'[i].st = "live" /\ remote'[i].content = client[c].content
      /\ \A j \in Ids \ {i} : remote'[j] = remote[j]
  BY <1>1 DEF UploadOver, TypeInv, RemoteType
<1>3. client[c].src \notin crossed => \A t \in tasks : t.id # i
  BY <1>1 DEF FreeAims, Aims, AimPoints
<1>4. ASSUME NEW d \in Clients \ {c}, client[d].pc = "publish"
      PROVE  client[d].item.id \in Ids \ {i}
  <2>1. client[d].item # None /\ client[d].item.id \in Ids
    BY <1>4, Facts, NoneIsNoRecord DEF ItemPoints, Item
  <2> QED BY <1>1, <1>4, <2>1, Sole DEF PutPoints
<1> QED BY <1>1, <1>2, <1>3, <1>4, StoredKept DEF UploadOver

LEMMA UploadNewKept ==
  ASSUME TypeInv, NEW h, NEW g, AtHome(h), Homeless(h), Written, Kept(h),
         NEW c \in Clients, UploadNew(c), NEW i \in Ids, StoreUploaded(c, i),
         remote[i].st = "free", client[c].src \in Paths,
         remote'[i].st = "live", remote'[i].content = client[c].content,
         \A j \in Ids \ {i} : remote'[j] = remote[j],
         g[i] = client[c].src, \A j \in Ids \ {i} : g[j] = h[j]
  PROVE  Written' /\ Kept(g)'
<1>1. h[i] = DupName
  BY DEF Homeless
<1>2. \A t \in tasks : t.id # i
  BY <1>1, ConstantsAssumption DEF AtHome, TypeInv, StoreType, Task
<1>3. \A d \in Clients \ {c} : client[d].pc = "publish" /\ client[d].src \notin crossed =>
          client[d].item.id \in Ids \ {i}
  <2> SUFFICES ASSUME NEW d \in Clients \ {c}, client[d].pc = "publish",
                      client[d].src \notin crossed
               PROVE  client[d].item.id \in Ids \ {i}
    OBVIOUS
  <2>1. client[d].item # None /\ client[d].item.id \in Ids
    BY Facts, NoneIsNoRecord DEF ItemPoints, Item
  <2>2. remote[client[d].item.id].st = "live"
    BY DEF Written, Safe
  <2> QED BY <2>1, <2>2
<1>4. client[c].pc = "upload" /\ UNCHANGED <<promise, tasks, crossed>>
  BY DEF UploadNew, At
<1>5. h[i] \in {DupName, client[c].src}
  BY <1>1
<1> QED BY <1>2, <1>3, <1>4, <1>5, StoredKept

LEMMA TrashDoneKept ==
  ASSUME TypeInv, NEW h, Written, Kept(h), NEW t \in tasks, TrashDone(t)
  PROVE  Written' /\ Kept(h)'
<1>1. /\ tasks' = tasks \ {t} /\ UNCHANGED <<client, promise>> /\ crossed \subseteq crossed'
  BY DEF TrashDone
<1>2. ASSUME NEW i \in Ids, NEW d, Safe(i, d) PROVE Safe(i, d)'
  <2>1. i # t.id
    BY <1>2 DEF Safe
  <2>2. remote'[i].st = remote[i].st /\ remote'[i].content = remote[i].content
    BY <2>1, TrashDoneEntries
  <2> QED BY <1>1, <1>2, <2>2 DEF Safe
<1>3. ASSUME NEW c \in Clients, client[c].pc = "publish" PROVE client[c].item.id \in Ids
  BY <1>3, Facts DEF ItemPoints, Item
<1>4. Written'
  BY <1>1, <1>2, <1>3 DEF Written
<1>5. Kept(h)'
  BY <1>1, <1>2 DEF Kept, Publishing
<1> QED BY <1>4, <1>5

\* While nobody writes a path, nothing of it is about to be published.
LEMMA QuietUnpublished ==
  ASSUME TypeInv, NEW p \in Paths, Quiet(p)
  PROVE  ~Publishing(p)
<1> SUFFICES ASSUME NEW c \in Clients, client[c].pc = "publish", client[c].src = p
             PROVE  FALSE
  BY DEF Publishing
<1>1. client[c].kind = "PUT"
  BY Facts DEF PutPoints
<1> QED BY <1>1, ConstantsAssumption DEF Quiet, Writes

\* A restart answers for the paths nobody was writing.
LEMMA RestartKept ==
  ASSUME TypeInv, NEW h, Kept(h), Restart
  PROVE  Written' /\ Kept(h)'
<1>1. /\ tasks' = {} /\ UNCHANGED remote
      /\ \A c \in Clients : client'[c].pc = "idle"
  BY DEF Restart, Idle, NewRequest, remoteVars
<1>2. Written'
  BY <1>1 DEF Written
<1>3. ASSUME NEW p \in Paths, promise'[p] \in Contents
      PROVE  Quiet(p) /\ p \notin crossed /\ promise'[p] = promise[p]
  BY <1>3, ConstantsAssumption DEF Restart
<1>4. \A p \in Paths : Quiet(p) => ~Publishing(p)
  BY QuietUnpublished
<1>5. \A i, d : Safe(i, d) => Safe(i, d)'
  BY <1>1 DEF Safe
<1>6. Kept(h)'
  BY <1>3, <1>4, <1>5 DEF Kept
<1> QED BY <1>2, <1>6

LEMMA KeptNext ==
  ASSUME "MOVE" \notin Kinds, TypeInv, NEW h, AtHome(h), Alone, FreeAims, Written, Kept(h),
         [Next]_vars, \A c \in Clients : ~UploadNew(c)
  PROVE  Written' /\ Kept(h)'
<1>1. ASSUME NEW c \in Clients, NewRequests(c) PROVE Written' /\ Kept(h)'
  BY <1>1, NewRequestsKept
<1>2. ASSUME NEW c \in Clients, Continue(c) PROVE Written' /\ Kept(h)'
  <2>1. ~MoveEntry(c) /\ ~MoveLookup(c) /\ ~MoveListed(c) /\ ~MoveRename(c)
    BY Unmoved DEF MoveEntry, MoveLookup, MoveListed, MoveRename, At, MovePoints
  <2>2. ~MoveRefused(c) /\ ~PublishMove(c)
    BY Unmoved DEF MoveRefused, PublishMove, At, MovePoints
  <2> QED
    BY <1>2, <2>1, <2>2, QuietActionsKept, ListKept, PublishKept, DeletesKept, UploadOverKept
    DEF Continue
<1>3. CASE Background
  <2>1. ASSUME NEW t \in tasks, TrashDone(t) PROVE Written' /\ Kept(h)'
    BY <2>1, TrashDoneKept
  <2>2. ASSUME NEW t \in tasks, RenameDone(t) PROVE FALSE
    BY <2>2 DEF RenameDone, AtHome
  <2>3. ASSUME NEW t \in tasks, TaskFails(t) PROVE Written' /\ Kept(h)'
    BY <2>3, KeepStep DEF TaskFails, remoteVars, NoPublishing
  <2> QED BY <1>3, <2>1, <2>2, <2>3 DEF Background
<1>4. CASE Environment
  <2>1. CASE UNCHANGED <<client, remote, promise, tasks, crossed>>
    BY <2>1, KeepStep DEF NoPublishing
  <2> QED BY <1>4, <2>1, RestartKept
      DEF Environment, Validated, Shows, HiddenExpires, CacheExpires, EntryExpires, remoteVars
<1>5. CASE UNCHANGED vars
  BY <1>5, KeepStep DEF vars, remoteVars, NoPublishing
<1> QED BY <1>1, <1>2, <1>3, <1>4, <1>5 DEF Next


(***************************************************************************)
(* The store as a whole: every media has its home, no two requests write   *)
(* one path, what is owed stays out of reach, and what was written stays.  *)
(***************************************************************************)
StoreInv(h) == AtHome(h) /\ Homeless(h) /\ Debts(h) /\ Kept(h)

StoreSound ==
    /\ Alone /\ Written
    /\ \E h \in [Ids -> Paths \cup {DupName}] : StoreInv(h)

LEMMA StoreInit ==
  ASSUME Init
  PROVE  StoreSound
<1>1. TypeInv
  BY InitType
<1>2. PICK h \in [Ids -> Paths \cup {DupName}] :
         /\ AtHome(h) /\ Homeless(h)
         /\ \A i \in Ids : Seeds[i] # None => h[i] = Seeds[i]
  BY HomesInit
<1>3. tasks = {} /\ \A c \in Clients : client[c].pc = "idle" /\ client[c].kind = "none"
  BY DEF Init, Idle, NewRequest
<1>4. Alone
  BY <1>3 DEF Alone, Writes
<1>5. Written
  BY <1>3 DEF Written
<1>6. Debts(h)
  BY <1>3 DEF Debts, Buried, OwedOnce, FreeAims, Aims, AimPoints, Owed
<1>7. Kept(h)
  <2> SUFFICES ASSUME NEW p \in Paths, promise[p] \in Contents
               PROVE  \E i \in Ids : h[i] = p /\ Safe(i, promise[p])
    BY DEF Kept
  <2>1. promise[p] = SeedContent /\ \E i \in Ids : Seeds[i] = p
    BY ConstantsAssumption DEF Init
  <2>2. PICK i \in Ids : Seeds[i] = p
    BY <2>1
  <2>3. Seeds[i] # None
    BY <2>2, ConstantsAssumption
  <2>4. remote[i].st = "live" /\ remote[i].content = SeedContent
    BY <2>3 DEF Init
  <2> QED BY <1>2, <1>3, <2>1, <2>2, <2>3, <2>4 DEF Safe
<1> QED BY <1>2, <1>4, <1>5, <1>6, <1>7 DEF StoreSound, StoreInv

LEMMA StoreNext ==
  ASSUME "MOVE" \notin Kinds, ~SharedWrites, ~Expiry, TypeInv, StoreSound, [Next]_vars
  PROVE  StoreSound'
<1>1. PICK h \in [Ids -> Paths \cup {DupName}] : StoreInv(h)
  BY DEF StoreSound
<1>2. /\ AtHome(h) /\ Homeless(h) /\ Debts(h) /\ Kept(h) /\ FreeAims
      /\ Alone /\ Written
  BY <1>1 DEF StoreInv, StoreSound, Debts
<1>3. Alone'
  BY <1>2, AloneNext
<1>4. CASE \A c \in Clients : ~UploadNew(c)
  <2>1. AtHome(h)' /\ Homeless(h)'
    BY <1>2, <1>4, HomeNext
  <2>2. Debts(h)'
    BY <1>2, <1>4, DebtsNext
  <2>3. Written' /\ Kept(h)'
    BY <1>2, <1>4, KeptNext
  <2>4. StoreInv(h)'
    BY <2>1, <2>2, <2>3 DEF StoreInv
  <2> QED BY <1>3, <2>3, <2>4 DEF StoreSound
<1>5. ASSUME NEW c \in Clients, UploadNew(c) PROVE StoreSound'
  <2>1. PICK i \in Ids, name \in {DupName, client[c].src}, g \in [Ids -> Paths \cup {DupName}] :
            /\ remote[i].st = "free" /\ client[c].src \in Paths
            /\ remote' = [remote EXCEPT ![i] =
                  [st |-> "live", name |-> name, content |-> client[c].content]]
            /\ StoreUploaded(c, i)
            /\ g = [h EXCEPT ![i] = client[c].src]
            /\ AtHome(g)' /\ Homeless(g)'
    BY <1>2, <1>5, UploadNewMedia
  <2>2. Debts(g)'
    BY <1>2, <1>5, <2>1, UploadNewDebts
  <2>3. /\ remote'[i].st = "live" /\ remote'[i].content = client[c].content
        /\ \A j \in Ids \ {i} : remote'[j] = remote[j]
    BY <2>1 DEF TypeInv, RemoteType
  <2>4. g[i] = client[c].src /\ \A j \in Ids \ {i} : g[j] = h[j]
    BY <2>1
  <2>5. remote[i].st = "free" /\ client[c].src \in Paths /\ StoreUploaded(c, i)
    BY <2>1
  <2>6. Written' /\ Kept(g)'
    BY <1>2, <1>5, <2>3, <2>4, <2>5, UploadNewKept
  <2>7. StoreInv(g)'
    BY <2>1, <2>2, <2>6 DEF StoreInv
  <2> QED BY <1>3, <2>6, <2>7 DEF StoreSound
<1> QED BY <1>4, <1>5

LEMMA KeptStored ==
  ASSUME TypeInv, StoreSound
  PROVE  AckedWriteSurvives
<1>1. PICK h \in [Ids -> Paths \cup {DupName}] : AtHome(h) /\ Kept(h)
  BY DEF StoreSound, StoreInv
<1> SUFFICES ASSUME NEW p \in Paths, Quiet(p), promise[p] \in Contents, p \notin crossed
             PROVE  Stored(p)
  BY DEF AckedWriteSurvives, Settles
<1>2. ~Publishing(p)
  BY QuietUnpublished
<1>3. PICK i \in Ids : h[i] = p /\ Safe(i, promise[p])
  BY <1>1, <1>2 DEF Kept
<1>4. remote[i].name \in {DupName, p}
  BY <1>1, <1>3 DEF AtHome
<1> QED BY <1>3, <1>4 DEF Stored, Safe

(***************************************************************************)
(* What an acknowledged PUT wrote stays stored by the provider until the   *)
(* next write of its path, under every order of requests, listings,        *)
(* deferred deletes, failures and restarts; where clients do not move      *)
(* files, hold the WebDAV lock of what they write, and no entry of the     *)
(* overlay expires.                                                        *)
(***************************************************************************)
THEOREM AckedWritesSurvive ==
  ASSUME "MOVE" \notin Kinds, ~SharedWrites, ~Expiry
  PROVE  Spec => []AckedWriteSurvives
<1>1. Init => TypeInv /\ StoreSound
  BY InitType, StoreInit
<1>2. TypeInv /\ StoreSound /\ [Next]_vars => (TypeInv /\ StoreSound)'
  BY NextType, StoreNext
<1>3. TypeInv /\ StoreSound => AckedWriteSurvives
  BY KeptStored
<1> QED BY <1>1, <1>2, <1>3, PTL DEF Spec

-----------------------------------------------------------------------------
(***************************************************************************)
(* The overlay implements the file store of CloudFiles.                    *)
(***************************************************************************)
\* A write goes on being asked for until it ends.
LEMMA SameWrite ==
  ASSUME NEW r \in Request, NEW pc, NEW item
  PROVE  /\ WriteOf(Goto(r, pc, item)) = WriteOf(r)
         /\ WriteOf([r EXCEPT !.pc = pc, !.snap = listed]) = WriteOf(r)
<1>1. /\ Goto(r, pc, item).kind = r.kind /\ Goto(r, pc, item).src = r.src
      /\ Goto(r, pc, item).content = r.content
  BY DEF Goto, Request
<1>2. LET n == [r EXCEPT !.pc = pc, !.snap = listed]
      IN  n.kind = r.kind /\ n.src = r.src /\ n.content = r.content
  BY DEF Request
<1> QED BY <1>1, <1>2 DEF WriteOf

LEMMA IdleWrite == WriteOf(Idle) = None
  BY DEF Idle, NewRequest, WriteOf

LEMMA ContinueAsks ==
  ASSUME TypeInv, TypeInv', NEW h, AtHome(h), NEW c \in Clients, Continue(c)
  PROVE  Others(c) /\ WriteOf(client'[c]) \in {WriteOf(client[c]), None}
<1> DEFINE r == client[c]
           goal == Others(c) /\ WriteOf(client'[c]) \in {WriteOf(r), None}
<1> SUFFICES goal
  OBVIOUS
<1>1. r \in Request /\ r.kind # "MOVE"
  BY ClientHome DEF HomeRequest
<1>2. ASSUME NEW k, Become(c, Idle, k) PROVE goal
  BY <1>2, IdleWrite, BecomeOthers
<1>3. ASSUME NEW pc, NEW item, NEW k, Become(c, Goto(r, pc, item), k) PROVE goal
  <2>1. WriteOf(Goto(r, pc, item)) = WriteOf(r)
    BY <1>1, SameWrite
  <2> QED BY <1>3, <2>1, BecomeOthers
<1>4. ASSUME NEW pc, AskListing(c, r, pc) PROVE goal
  <2> DEFINE n == [r EXCEPT !.pc = pc, !.snap = listed]
  <2>1. WriteOf(n) = WriteOf(r) /\ Become(c, n, FALSE)
    BY <1>1, <1>4, SameWrite DEF AskListing
  <2> HIDE DEF n
  <2> QED BY <2>1, BecomeOthers
<1> HIDE DEF goal
<1>5. CASE StatMiss(c) \/ StatAnswer(c) \/ StatAbsent(c) \/ UploadRefused(c) \/ Publish(c)
  BY <1>1, <1>2, <1>3, <1>4, <1>5 DEF StatMiss, StatAnswer, StatAbsent, UploadRefused, Publish
<1>6. CASE StatListed(c) \/ PutListed(c) \/ DeleteListed(c)
  BY <1>3, <1>6 DEF StatListed, PutListed, DeleteListed, Answered
<1>7. CASE UploadNew(c) \/ UploadOver(c)
  BY <1>3, <1>7 DEF UploadNew, UploadOver, StoreUploaded
<1>8. CASE DeleteAgain(c) \/ DeleteRecent(c) \/ DeleteLookup(c) \/ DeleteMissing(c)
           \/ DeleteItem(c) \/ DeleteTombstone(c) \/ DeleteSchedule(c)
  BY <1>1, <1>2, <1>3, <1>4, <1>8 DEF DeleteAgain, DeleteRecent, DeleteLookup, DeleteMissing,
     DeleteItem, DeleteTombstone, DeleteSchedule, Deleted
<1>9. CASE MoveEntry(c) \/ MoveLookup(c) \/ MoveListed(c) \/ MoveRename(c)
           \/ MoveRefused(c) \/ PublishMove(c)
  BY <1>9, Unmoved DEF MoveEntry, MoveLookup, MoveListed, MoveRename, MoveRefused, PublishMove,
     At, MovePoints
<1>10. CASE ListBegin(c) \/ ListPut(c) \/ ListEnd(c)
            \/ (\E i \in Ids : ListSkip(c, i) \/ ListItem(c, i))
            \/ (\E p \in Paths : ListRecent(c, p))
  <2>1. Others(c) /\ (client'[c] = Idle \/ client'[c].pc \in {"items", "putting"})
    BY <1>10, ListSteps
  <2>2. GoodRequest(client'[c])
    BY DEF TypeInv, RequestType
  <2>3. CASE client'[c] = Idle
    BY <2>1, <2>3, IdleWrite DEF goal
  <2>4. CASE client'[c].pc \in {"items", "putting"}
    <3>1. client'[c].kind = "LIST"
      BY <2>2, <2>4 DEF GoodRequest, Fits, ListPoints
    <3> QED BY <2>1, <3>1 DEF goal, WriteOf
  <2> QED BY <2>1, <2>3, <2>4
<1> QED BY <1>5, <1>6, <1>7, <1>8, <1>9, <1>10 DEF Continue

LEMMA NewRequestsOthers ==
  ASSUME TypeInv, NEW c \in Clients, NewRequests(c)
  PROVE  Others(c) /\ WriteOf(client[c]) = None
<1>1. client[c] = Idle
  BY DEF NewRequests, Stat, Delete, Put, Move, List, Arrives
<1>2. Others(c)
  BY DEF NewRequests, Stat, Delete, Put, Move, List, AskListing, Become, Others, TypeInv,
     RequestType
<1> QED BY <1>1, <1>2, IdleWrite

(***************************************************************************)
(* What the steps of a request look like to the provider.                  *)
(***************************************************************************)
LEMMA WriteKinds ==
  ASSUME NEW r, GoodRequest(r)
  PROVE  /\ WriteOf(r) \in Files!Write \cup {None}
         /\ r.pc \in PutPoints =>
               /\ WriteOf(r) = [kind |-> "PUT", path |-> r.src, content |-> r.content]
               /\ WriteOf(r) # None
         /\ r.pc \in DeletePoints /\ r.kind # "MOVE" =>
               /\ WriteOf(r) = [kind |-> "DELETE", path |-> r.src, content |-> r.content]
               /\ WriteOf(r) # None
<1>1. /\ r.content \in Contents \cup {None}
      /\ r.kind \in {"PUT", "DELETE"} => r.src \in Paths
  BY DEF GoodRequest, Request
<1>2. WriteOf(r) \in Files!Write \cup {None}
  BY <1>1 DEF WriteOf, Files!Write
<1>3. /\ r.pc \in PutPoints => r.kind = "PUT"
      /\ r.pc \in DeletePoints => r.kind \in {"DELETE", "MOVE"}
  BY DEF GoodRequest, Fits
<1>4. r.kind \in {"PUT", "DELETE"} =>
         /\ WriteOf(r) = [kind |-> r.kind, path |-> r.src, content |-> r.content]
         /\ WriteOf(r) \in Files!Write
  BY <1>1 DEF WriteOf, Files!Write
<1>5. r.kind \in {"PUT", "DELETE"} => WriteOf(r) # None
  BY <1>4, NoneIsNoWrite
<1> QED BY <1>2, <1>3, <1>4, <1>5

LEMMA AskRefines ==
  ASSUME TypeInv, TypeInv', NEW c \in Clients, Others(c), UNCHANGED <<remote, tasks, crossed>>,
         \/ WriteOf(client[c]) = None
         \/ WriteOf(client'[c]) \in {WriteOf(client[c]), None}
  PROVE  [Files!Next]_(Files!vars)
<1> DEFINE asked == [d \in Clients |-> WriteOf(client[d])]
<1>1. UNCHANGED Doomed
  BY DEF Doomed
<1>2. \A d \in Clients \ {c} : asked'[d] = asked[d]
  BY DEF Others
<1>3. asked'[c] = asked[c] => UNCHANGED Files!vars
  <2> SUFFICES ASSUME asked'[c] = asked[c] PROVE UNCHANGED Files!vars
    OBVIOUS
  <2>1. asked' = asked
    BY <1>2
  <2> QED BY <1>1, <2>1 DEF Files!vars
<1>4. asked[c] = None /\ asked'[c] # None => Files!Begin(c)
  <2> SUFFICES ASSUME asked[c] = None, asked'[c] # None PROVE Files!Begin(c)
    OBVIOUS
  <2>0. GoodRequest(client'[c])
    BY DEF TypeInv, RequestType
  <2>1. asked'[c] \in Files!Write
    BY <2>0, WriteKinds
  <2>2. asked' = [asked EXCEPT ![c] = asked'[c]]
    BY <1>2
  <2> QED BY <1>1, <2>1, <2>2 DEF Files!Begin
<1>5. asked[c] # None /\ asked'[c] = None => Files!End(c)
  <2> SUFFICES ASSUME asked[c] # None, asked'[c] = None PROVE Files!End(c)
    OBVIOUS
  <2>1. asked' = [asked EXCEPT ![c] = None]
    BY <1>2
  <2> QED BY <1>1, <2>1 DEF Files!End
<1>6. \/ asked'[c] = asked[c]
      \/ asked[c] = None /\ asked'[c] # None
      \/ asked[c] # None /\ asked'[c] = None
  OBVIOUS
<1>7. Files!Next \/ UNCHANGED Files!vars
  BY <1>3, <1>4, <1>5, <1>6 DEF Files!Next
<1>8. QED BY <1>7

LEMMA DoomedPoints ==
  /\ \A u \in tasks : u.kind = "trash" => [id |-> u.id, path |-> u.path] \in Doomed
  /\ \A d \in Doomed : \E u \in tasks : u.kind = "trash" /\ d = [id |-> u.id, path |-> u.path]
  BY DEF Doomed

\* An upload writes a media of its own, or one of its path nobody is to trash.
LEMMA UploadRefines ==
  ASSUME TypeInv, TypeInv', NEW c \in Clients, client[c].pc = "upload",
         NEW i \in Ids, StoreUploaded(c, i), NEW name \in {DupName, client[c].src},
         remote' = [remote EXCEPT ![i] =
               [st |-> "live", name |-> name, content |-> client[c].content]],
         \/ remote[i].st = "free"
         \/ remote[i].st = "live" /\ remote[i].name \in {client[c].src, DupName},
         client[c].src \notin crossed => \A t \in tasks : t.id # i,
         UNCHANGED <<tasks, crossed>>
  PROVE  [Files!Next]_(Files!vars)
<1> DEFINE r == client[c]
           asked == [d \in Clients |-> WriteOf(client[d])]
           w == [kind |-> "PUT", path |-> r.src, content |-> r.content]
<1>1. /\ Others(c) /\ client'[c].pc = "publish" /\ client'[c].src = r.src
      /\ client'[c].content = r.content
  BY UploadedOthers
<1>2. asked[c] = w /\ asked[c] # None
  <2>1. GoodRequest(client[c]) /\ client[c].pc \in PutPoints
    BY Facts DEF PutPoints
  <2> HIDE DEF w
  <2> QED BY <2>1, WriteKinds DEF w
<1>3. asked' = asked
  <2>1. GoodRequest(client'[c]) /\ client'[c].pc \in PutPoints
    BY <1>1 DEF PutPoints, TypeInv, RequestType
  <2>2. WriteOf(client'[c]) = [kind |-> "PUT", path |-> client'[c].src,
                               content |-> client'[c].content]
    BY <2>1, WriteKinds
  <2>3. WriteOf(client'[c]) = WriteOf(client[c])
    BY <1>1, <1>2, <2>2
  <2>4. \A d \in Clients : WriteOf(client'[d]) = WriteOf(client[d])
    BY <1>1, <2>3 DEF Others
  <2> QED BY <2>4
<1>4. UNCHANGED Doomed
  BY DEF Doomed
<1>5. (\E d \in Doomed : d.id = i) => r.src \in crossed
  BY DoomedPoints
<1>6. Files!Upload(c)
  <2>1. Files!NamedAfter(i, r.src) <=> remote[i].name \in {r.src, DupName}
    BY DEF Files!NamedAfter
  <2>2. /\ asked[c] # None /\ asked[c].kind = "PUT" /\ asked[c].path = r.src
        /\ asked[c].content = r.content
    BY <1>2
  <2> HIDE DEF w
  <2> QED BY <1>3, <1>4, <1>5, <2>1, <2>2 DEF Files!Upload
<1> QED BY <1>6 DEF Files!Next

\* The answer to a DELETE owes the provider the delete of a media of its path.
LEMMA DeleteRefines ==
  ASSUME TypeInv, TypeInv', NEW h, AtHome(h), Homeless(h), NEW c \in Clients,
         client[c].pc \in DeletePoints, client[c].item # None, Deleted(c),
         tasks' = tasks \cup {Trash(client[c])}, UNCHANGED <<remote, crossed>>
  PROVE  [Files!Next]_(Files!vars)
<1> DEFINE r == client[c]
           asked == [d \in Clients |-> WriteOf(client[d])]
           doom == [id |-> r.item.id, path |-> r.src]
<1>1. /\ r.src \in Paths /\ h[r.item.id] = r.src /\ r.kind # "MOVE" /\ r.item.id \in Ids
      /\ Trash(r).kind = "trash" /\ Trash(r).id = r.item.id /\ Trash(r).path = r.src
  BY DeletingHome, Facts DEF HomeRequest, Item
<1>2. Others(c) /\ client'[c] = Idle
  <2>1. Become(c, Idle, FALSE)
    BY <1>1 DEF Deleted
  <2> QED BY <2>1, BecomeOthers
<1>3. asked' = [asked EXCEPT ![c] = None]
  BY <1>2, IdleWrite DEF Others
<1>4. asked[c] # None /\ asked[c].kind = "DELETE" /\ asked[c].path = r.src
  <2>1. GoodRequest(r)
    BY Facts
  <2> QED BY <1>1, <2>1, WriteKinds
<1>5. Doomed' = Doomed \cup {doom}
  BY <1>1 DEF Doomed
<1>6. doom \in Files!Doom
  BY <1>1 DEF Files!Doom
<1>7. remote[r.item.id].st # "free" /\ remote[r.item.id].name \in {r.src, DupName}
  <2>1. remote[r.item.id].st # "free"
    BY <1>1, ConstantsAssumption DEF Homeless
  <2>2. remote[r.item.id].name \in {DupName, h[r.item.id]}
    BY <1>1 DEF AtHome
  <2> QED BY <1>1, <2>1, <2>2
<1>8. Files!Delete(c)
  <2>1. doom.path = asked[c].path /\ Files!NamedAfter(doom.id, doom.path)
    BY <1>4, <1>7 DEF Files!NamedAfter
  <2> QED BY <1>3, <1>4, <1>5, <1>6, <1>7, <2>1 DEF Files!Delete
<1> QED BY <1>8 DEF Files!Next

\* A deferred delete is carried out, on a media of its path, and once.
LEMMA TrashRefines ==
  ASSUME TypeInv, NEW h, AtHome(h), Homeless(h), OwedOnce, NEW t \in tasks, TrashDone(t)
  PROVE  [Files!Next]_(Files!vars)
<1> DEFINE asked == [d \in Clients |-> WriteOf(client[d])]
           doom == [id |-> t.id, path |-> t.path]
<1>1. /\ t.id \in Ids /\ t.path \in Paths /\ t.kind = "trash" /\ h[t.id] = t.path
      /\ remote' = [remote EXCEPT ![t.id].st = "trashed"]
      /\ tasks' = tasks \ {t}
  BY TrashDoneEntries DEF TrashDone, AtHome
<1>2. asked' = asked
  BY DEF TrashDone
<1>3. doom \in Doomed
  BY <1>1 DEF Doomed
<1>4. Doomed \ {doom} \subseteq Doomed' /\ Doomed' \subseteq Doomed
  BY <1>1 DEF Doomed
<1>5. t.path \notin crossed => doom \notin Doomed'
  <2> SUFFICES ASSUME NEW u \in tasks', u.kind = "trash", [id |-> u.id, path |-> u.path] = doom,
                      t.path \notin crossed
               PROVE  FALSE
    BY DEF Doomed
  <2>1. u \in tasks /\ u # t /\ u.id = t.id
    BY <1>1
  <2> QED BY <2>1 DEF OwedOnce
<1>6. Doomed' = Doomed \ {doom} \/ (t.path \in crossed /\ Doomed' = Doomed)
  BY <1>3, <1>4, <1>5
<1>7. Files!NamedAfter(t.id, t.path)
  BY <1>1 DEF AtHome, Files!NamedAfter
<1>8. \/ crossed' = crossed
      \/ /\ \E i \in Ids \ {t.id} : remote[i].st # "free" /\ Files!NamedAfter(i, t.path)
         /\ crossed' = crossed \cup {t.path}
  <2>1. CASE Tombstone(t.path) /\ overlay[t.path].id # t.id
    <3> DEFINE i == overlay[t.path].id
    <3>1. overlay[t.path] # None /\ i \in Ids
      BY <1>1, <2>1 DEF Tombstone, TypeInv, StoreType, Entry
    <3>2. h[i] = t.path
      BY <1>1, <3>1 DEF AtHome
    <3>3. remote[i].name \in {DupName, t.path}
      BY <3>1, <3>2 DEF AtHome
    <3>4. remote[i].st # "free"
      BY <1>1, <3>1, <3>2, ConstantsAssumption DEF Homeless
    <3>5. Files!NamedAfter(i, t.path)
      BY <3>3 DEF Files!NamedAfter
    <3>6. crossed' = crossed \cup {t.path}
      BY <2>1 DEF TrashDone
    <3> QED BY <2>1, <3>1, <3>4, <3>5, <3>6
  <2>2. CASE ~(Tombstone(t.path) /\ overlay[t.path].id # t.id)
    BY <2>2 DEF TrashDone
  <2> QED BY <2>1, <2>2
<1>9. Files!Trash(doom)
  <2>1. doom.id = t.id /\ doom.path = t.path
    OBVIOUS
  <2> HIDE DEF doom
  <2> QED BY <1>1, <1>2, <1>3, <1>6, <1>7, <1>8, <2>1 DEF Files!Trash
<1> QED BY <1>3, <1>9 DEF Files!Next

\* A delete that fails for good is dropped.
LEMMA FailRefines ==
  ASSUME TypeInv, NEW h, AtHome(h), NEW t \in tasks, TaskFails(t)
  PROVE  [Files!Next]_(Files!vars)
<1> DEFINE asked == [d \in Clients |-> WriteOf(client[d])]
           doom == [id |-> t.id, path |-> t.path]
<1>1. /\ t.kind = "trash" /\ tasks' = tasks \ {t}
      /\ UNCHANGED <<client, remote, crossed>>
  BY DEF TaskFails, AtHome, remoteVars
<1>2. asked' = asked
  BY <1>1
<1>3. doom \in Doomed
  BY <1>1 DEF Doomed
<1>4. Doomed \ {doom} \subseteq Doomed' /\ Doomed' \subseteq Doomed
  BY <1>1 DEF Doomed
<1>5. Doomed' = Doomed \ {doom} => Files!Drop(doom)
  BY <1>1, <1>2, <1>3 DEF Files!Drop
<1>6. Doomed' = Doomed => UNCHANGED Files!vars
  BY <1>1, <1>2 DEF Files!vars
<1>7. Doomed' = Doomed \ {doom} \/ Doomed' = Doomed
  BY <1>4
<1> QED BY <1>3, <1>5, <1>6, <1>7 DEF Files!Next

\* A listing may bring back a media whose delete is owed.
LEMMA RecallRefines ==
  ASSUME TypeInv, TypeInv', NEW h, AtHome(h), NEW c \in Clients, NEW p \in Paths,
         ListRecent(c, p)
  PROVE  [Files!Next]_(Files!vars)
<1> DEFINE i == EntryItem(client[c].kids[p]).id
<1>1. /\ crossed' = IF overlay[p] = None /\ Owed(i) THEN crossed \cup {p} ELSE crossed
      /\ UNCHANGED <<remote, tasks>>
  BY DEF ListRecent, remoteVars
<1>2. Others(c) /\ WriteOf(client'[c]) \in {WriteOf(client[c]), None}
  BY ContinueAsks DEF Continue
<1>3. CASE crossed' = crossed
  BY <1>1, <1>2, <1>3, AskRefines
<1>4. CASE Owed(i) /\ crossed' = crossed \cup {p}
  <2>1. h[i] = p /\ WriteOf(client[c]) = None
    <3>1. client[c].pc \in ListPoints /\ p \in Recent(client[c])
      BY DEF ListRecent, At, ListPoints
    <3>2. client[c].kind = "LIST"
      BY <3>1, Facts
    <3>3. HomeRequest(client[c], h)
      BY ClientHome
    <3> QED BY <3>1, <3>2, <3>3 DEF WriteOf, Recent, EntryItem, HomeRequest
  <2>2. UNCHANGED <<Doomed, [d \in Clients |-> WriteOf(client[d])]>>
    BY <1>1, <1>2, <2>1 DEF Doomed, Others
  <2>3. \/ \E d \in Doomed : d.path = p
        \/ \E d \in Clients : /\ WriteOf(client[d]) # None /\ WriteOf(client[d]).kind = "DELETE"
                              /\ WriteOf(client[d]).path = p
    <3>1. CASE \E t \in tasks : t.kind = "trash" /\ t.id = i
      <4>1. PICK t \in tasks : t.kind = "trash" /\ t.id = i
        BY <3>1
      <4>2. t.path = p
        BY <2>1, <4>1 DEF AtHome
      <4> QED BY <4>1, <4>2, DoomedPoints
    <3>2. CASE \E d \in Clients : client[d].pc = "schedule" /\ client[d].item.id = i
      <4>1. PICK d \in Clients : client[d].pc = "schedule" /\ client[d].item.id = i
        BY <3>2
      <4>2. client[d].item # None /\ GoodRequest(client[d]) /\ client[d].pc \in DeletePoints
        BY <4>1, Facts, NoneIsNoRecord DEF ItemPoints, DeletePoints
      <4>3. client[d].kind # "MOVE" /\ client[d].src = p
        BY <2>1, <4>1, <4>2 DEF AtHome, HomeRequest
      <4>4. /\ WriteOf(client[d]) = [kind |-> "DELETE", path |-> client[d].src,
                                     content |-> client[d].content]
            /\ WriteOf(client[d]) # None
        BY <4>2, <4>3, WriteKinds
      <4> QED BY <4>3, <4>4
    <3> QED BY <1>4, <3>1, <3>2 DEF Owed
  <2> HIDE DEF i
  <2>4. Files!Recall(p)
    BY <1>1, <1>4, <2>2, <2>3 DEF Files!Recall
  <2> QED BY <2>4 DEF Files!Next
<1> QED BY <1>1, <1>3, <1>4

\* A restart loses what was owed and cuts what was asked for.
LEMMA RestartRefines ==
  ASSUME Restart
  PROVE  [Files!Next]_(Files!vars)
<1>1. tasks' = {} /\ crossed' = {} /\ UNCHANGED remote
  BY DEF Restart, remoteVars
<1>2. Doomed' = {}
  BY <1>1 DEF Doomed
<1>3. [c \in Clients |-> WriteOf(client[c])]' = [c \in Clients |-> None]
  BY IdleWrite DEF Restart
<1>4. Files!Crash
  BY <1>1, <1>2, <1>3 DEF Files!Crash
<1> QED BY <1>4 DEF Files!Next

LEMMA UploadsRefine ==
  ASSUME TypeInv, TypeInv', NEW h \in [Ids -> Paths \cup {DupName}], AtHome(h), Homeless(h),
         FreeAims, NEW c \in Clients, UploadNew(c) \/ UploadOver(c)
  PROVE  [Files!Next]_(Files!vars)
<1>1. client[c].pc = "upload" /\ UNCHANGED <<tasks, crossed>>
  BY DEF UploadNew, UploadOver, At
<1>2. CASE UploadNew(c)
  <2>1. PICK i \in Ids, name \in {DupName, client[c].src} :
           /\ remote[i].st = "free"
           /\ remote' = [remote EXCEPT ![i] =
                 [st |-> "live", name |-> name, content |-> client[c].content]]
           /\ StoreUploaded(c, i)
    BY <1>2, UploadNewMedia
  <2>2. h[i] = DupName
    BY <2>1 DEF Homeless
  <2>3. \A t \in tasks : t.id # i
    BY <2>2, ConstantsAssumption DEF AtHome, TypeInv, StoreType, Task
  <2> QED BY <1>1, <2>1, <2>3, UploadRefines
<1>3. CASE UploadOver(c)
  <2> DEFINE i == client[c].item.id
  <2>1. i \in Ids /\ client[c].item # None /\ remote[i].st = "live"
    BY <1>3, Facts DEF UploadOver, Item
  <2>2. remote[i].name \in {client[c].src, DupName}
    BY <2>1 DEF AtHome, HomeRequest
  <2>3. client[c].src \notin crossed => \A t \in tasks : t.id # i
    BY <1>1, <2>1 DEF FreeAims, Aims, AimPoints
  <2>4. /\ remote' = [remote EXCEPT ![i] =
              [st |-> "live", name |-> client[c].src, content |-> client[c].content]]
        /\ StoreUploaded(c, i)
    BY <1>3 DEF UploadOver
  <2> HIDE DEF i
  <2> QED BY <1>1, <2>1, <2>2, <2>3, <2>4, UploadRefines
<1> QED BY <1>2, <1>3

LEMMA DeletesRefine ==
  ASSUME TypeInv, TypeInv', NEW h, AtHome(h), Homeless(h), NEW c \in Clients,
         DeleteTombstone(c) \/ DeleteSchedule(c)
  PROVE  [Files!Next]_(Files!vars)
<1>1. client[c].pc \in DeletePoints /\ client[c].item # None
  BY Facts, NoneIsNoRecord DEF DeleteTombstone, DeleteSchedule, At, DeletePoints, ItemPoints
<1>2. /\ Deleted(c) /\ tasks' = tasks \cup {Trash(client[c])}
      /\ UNCHANGED <<remote, crossed>>
  BY DEF DeleteTombstone, DeleteSchedule, remoteVars
<1> QED BY <1>1, <1>2, DeleteRefines

LEMMA NextRefines ==
  ASSUME "MOVE" \notin Kinds, TypeInv, NEW h \in [Ids -> Paths \cup {DupName}], AtHome(h),
         Homeless(h), OwedOnce, FreeAims, [Next]_vars
  PROVE  [Files!Next]_(Files!vars)
<1> DEFINE goal == [Files!Next]_(Files!vars)
<1> SUFFICES goal
  OBVIOUS
<1>1. TypeInv'
  BY NextType
<1>2. ASSUME NEW c \in Clients, NewRequests(c) PROVE goal
  <2>1. UNCHANGED <<remote, tasks, crossed>>
    BY <1>2 DEF NewRequests, Stat, Delete, Put, Move, List, remoteVars
  <2> QED BY <1>1, <1>2, <2>1, NewRequestsOthers, AskRefines
<1>3. ASSUME NEW c \in Clients, Continue(c) PROVE goal
  <2>1. CASE UploadNew(c) \/ UploadOver(c)
    BY <1>1, <2>1, UploadsRefine
  <2>2. CASE DeleteTombstone(c) \/ DeleteSchedule(c)
    BY <1>1, <2>2, DeletesRefine
  <2>3. ASSUME NEW p \in Paths, ListRecent(c, p) PROVE goal
    BY <1>1, <2>3, RecallRefines
  <2>4. Others(c) /\ WriteOf(client'[c]) \in {WriteOf(client[c]), None}
    BY <1>1, <1>3, ContinueAsks
  <2>5. ~MoveEntry(c) /\ ~MoveLookup(c) /\ ~MoveListed(c) /\ ~MoveRename(c)
    BY Unmoved DEF MoveEntry, MoveLookup, MoveListed, MoveRename, At, MovePoints
  <2>6. ~MoveRefused(c) /\ ~PublishMove(c)
    BY Unmoved DEF MoveRefused, PublishMove, At, MovePoints
  <2> HIDE DEF goal
  <2>7. CASE UNCHANGED <<remote, tasks, crossed>>
    BY <1>1, <2>4, <2>7, AskRefines DEF goal
  <2> QED BY <1>3, <2>1, <2>2, <2>3, <2>5, <2>6, <2>7
      DEF Continue, remoteVars, StatMiss, StatListed, StatAnswer, StatAbsent, PutListed,
          UploadRefused, Publish, DeleteAgain, DeleteRecent, DeleteLookup, DeleteListed,
          DeleteMissing, DeleteItem, ListBegin, ListPut, ListEnd, ListSkip, ListItem
<1>4. ASSUME NEW t \in tasks, TrashDone(t) PROVE goal
  BY <1>4, TrashRefines
<1>5. ASSUME NEW t \in tasks, RenameDone(t) PROVE FALSE
  BY <1>5 DEF RenameDone, AtHome
<1>6. ASSUME NEW t \in tasks, TaskFails(t) PROVE goal
  BY <1>6, FailRefines
<1>7. CASE UNCHANGED <<remote, tasks, crossed, client>>
  <2>1. UNCHANGED <<Doomed, [c \in Clients |-> WriteOf(client[c])]>>
    BY <1>7 DEF Doomed
  <2> QED BY <1>7, <2>1 DEF Files!vars
<1> HIDE DEF goal
<1>8. CASE Environment
  <2>1. CASE Restart
    BY <2>1, RestartRefines DEF goal
  <2> QED BY <1>7, <1>8, <2>1
      DEF Environment, Validated, Shows, HiddenExpires, CacheExpires, EntryExpires, remoteVars
<1>9. CASE UNCHANGED vars
  BY <1>7, <1>9 DEF vars, remoteVars
<1> QED BY <1>2, <1>3, <1>4, <1>5, <1>6, <1>8, <1>9 DEF Next, Background

LEMMA InitRefines ==
  ASSUME Init
  PROVE  Files!Init
<1>1. remote \in [Ids -> Files!Media]
  BY InitType DEF TypeInv, RemoteType, Files!Media
<1>2. Doomed = {}
  BY DEF Init, Doomed
<1>3. [c \in Clients |-> WriteOf(client[c])] = [c \in Clients |-> None]
  BY IdleWrite DEF Init
<1> QED BY <1>1, <1>2, <1>3 DEF Init, Files!Init

(***************************************************************************)
(* The overlay implements the file store of CloudFiles: lagging listings,  *)
(* stale items and cache rows, retries, failures and restarts never make   *)
(* it write a media of another path or one it is about to trash, nor trash *)
(* what no acknowledged DELETE of its path asked for; where clients do not *)
(* move files, hold the WebDAV lock of what they write, and no entry of    *)
(* the overlay expires.                                                    *)
(***************************************************************************)
THEOREM OverlayImplementsFiles ==
  ASSUME "MOVE" \notin Kinds, ~SharedWrites, ~Expiry
  PROVE  Spec => FilesImplemented
<1>1. Init => TypeInv /\ StoreSound /\ Files!Init
  BY InitType, StoreInit, InitRefines
<1>2. TypeInv /\ StoreSound /\ [Next]_vars => (TypeInv /\ StoreSound)'
  BY NextType, StoreNext
<1>3. TypeInv /\ StoreSound /\ [Next]_vars => [Files!Next]_(Files!vars)
  <2> SUFFICES ASSUME TypeInv, StoreSound, [Next]_vars PROVE [Files!Next]_(Files!vars)
    OBVIOUS
  <2>1. PICK h \in [Ids -> Paths \cup {DupName}] :
           AtHome(h) /\ Homeless(h) /\ OwedOnce /\ FreeAims
    BY DEF StoreSound, StoreInv, Debts
  <2> QED BY <2>1, NextRefines
<1> QED BY <1>1, <1>2, <1>3, PTL DEF Spec, FilesImplemented, Files!Spec

-----------------------------------------------------------------------------
(***************************************************************************)
(* One request at a time: what a path answers.  r is the request under     *)
(* way and h the homes of the media.                                       *)
(*                                                                         *)
(* LookPoints are the points at which a request still uses the listing it  *)
(* asked for, and at BusyPoints it has begun to change what its path holds *)
(* and is not answered yet.                                                *)
(***************************************************************************)
LookupPoints == {"stat_lookup", "put_lookup", "del_lookup"}
ItemsPoints == {"items", "putting"}
LookPoints == LookupPoints \cup ItemsPoints \cup {"listing"}
BusyPoints == {"publish", "tombstone", "schedule"}

Lists(l, i, p) == l[i] # None /\ l[i].name = p
Like(x, d) == SizeOf[x.content] = SizeOf[d]

\* What a listing would show of a media if it did not lag.
Now(i) == IF remote[i].st = "live"
          THEN [name |-> remote[i].name, content |-> remote[i].content] ELSE None

\* A listing shows no media under a path it is not stored at.
Genuine(l) ==
    \A i \in Ids : l[i] # None => (l[i].name \in Paths => remote[i].name = l[i].name)

\* A listing that is being used is as old as the provider's is, or older.
Lags(r, h) ==
    r.pc \in LookPoints => \A i \in Ids :
        /\ remote[i].st = "live" => listed[i] \in {r.snap[i], Now(i)}
        /\ remote[i].st = "trashed" /\ i \notin hidden /\ h[i] \notin crossed =>
               listed[i] \in {r.snap[i], None}

\* A lookup began where the overlay had no entry, and there is still none.
LooksUp(r) == r.pc \in LookupPoints => overlay[r.src] = None

\* A LIST's copy of the overlay is true for the entries it has not used yet.
CopyFits(r) ==
    r.pc \in ItemsPoints => \A p \in Paths \ crossed :
        /\ r.kids[p] # None =>
               /\ overlay[p] # None /\ overlay[p].st = r.kids[p].st
               /\ overlay[p].id = r.kids[p].id /\ overlay[p].content = r.kids[p].content
        /\ r.kids[p] = None /\ r.todo # {} => overlay[p] = None

\* A deferred delete is of a hidden media, with the size its item had.
TasksSound ==
    \A t \in tasks : t.path \notin crossed =>
        /\ t.id \in hidden \/ remote[t.id].st = "trashed"
        /\ remote[t.id].st = "live" => Like(t, remote[t.id].content)

\* A delete that counts as done was done.
GoneTrashed ==
    \A p \in Paths \ crossed : Tombstone(p) /\ overlay[p].gone =>
        remote[overlay[p].id].st = "trashed"

\* What is hidden was at some path.
HiddenHomes(h) == \A i \in hidden : h[i] # DupName

PromiseKnown == \A p \in Paths : promise[p] \in Contents \cup {None}

\* No listing will bring j back at p.
Gone(r, j, p) ==
    \/ j \in hidden
    \/ remote[j].st = "trashed" /\ ~Lists(listed, j, p) /\ ~Lists(r.snap, j, p)

\* No media is at p, and the provider lists none there.
Vacant(p, h) ==
    \A j \in Ids : h[j] = p =>
        \/ j \in hidden
        \/ remote[j].st = "trashed" /\ ~Lists(listed, j, p)

Trashed(m) == m \in Ids /\ remote[m].st = "trashed"

\* An item x remembered at a path whose media is m and which holds d, or
\* nothing: at most the ghost of a trashed media.
Remembers(x, m, d) ==
    x # None => x.id = m /\ IF d = None THEN Trashed(m) ELSE Like(x, d)

\* The path holds d, in the media m.
Holds(r, p, m, d) ==
    /\ m \in Ids \ hidden
    /\ remote[m].st = "live" /\ remote[m].content = d
    /\ overlay[p] # None => Uploaded(p) /\ overlay[p].content = d
    /\ overlay[p] = None =>
          /\ Lists(listed, m, p) /\ Like(listed[m], d)
          /\ r.pc \in LookPoints => Lists(r.snap, m, p) /\ Like(r.snap[m], d)
    /\ r.pc = "upload" /\ r.src = p => r.item # None

\* The path holds nothing; a PUT that finds no media there may create one.
Lacks(r, p, m, h) ==
    /\ m # None => m \in hidden \/ Trashed(m)
    /\ overlay[p] # None => Tombstone(p)
    /\ r.pc = "upload" /\ r.src = p /\ r.item = None =>
           Vacant(p, h)

\* The path is being deleted.
Interred(r, p, m) ==
    /\ m # None /\ remote[m].st = "live" => Like(r.item, remote[m].content)
    /\ known[p] = None /\ cache[p] = None
    /\ IF r.pc = "tombstone" THEN overlay[p] = None ELSE Tombstone(p) /\ m \in hidden

Publishes(r, p) == r.pc = "publish" /\ r.src = p
Buries(r, p) == r.pc \in {"tombstone", "schedule"} /\ r.src = p

\* What the path holds: what was promised, or what the request publishes.
Truth(r, p) == IF Publishes(r, p) THEN r.content ELSE promise[p]

Upholds(r, p, m, h, d) ==
    /\ Remembers(known[p], m, d) /\ Remembers(cache[p], m, d)
    /\ r.src = p => Remembers(r.item, m, d)
    /\ IF d = None THEN Lacks(r, p, m, h) ELSE Holds(r, p, m, d)

\* All that is remembered at p is about one media m, and listings will show
\* no other.
PathSound(r, p, m, h) ==
    /\ m # None => m \in Ids /\ h[m] = p
    /\ \A j \in Ids \ {m} : h[j] = p => Gone(r, j, p)
    /\ overlay[p] # None => overlay[p].id = m
    /\ r.src = p /\ r.item # None => r.item.id = m
    /\ IF Buries(r, p) THEN Interred(r, p, m) ELSE Upholds(r, p, m, h, Truth(r, p))

Bookkept(r, h) ==
    /\ Genuine(listed) /\ Genuine(r.snap)
    /\ Lags(r, h) /\ LooksUp(r) /\ CopyFits(r)
    /\ TasksSound /\ GoneTrashed /\ HiddenHomes(h) /\ PromiseKnown

Sound(r, h) ==
    /\ Bookkept(r, h)
    /\ \A p \in Paths \ crossed : \E m \in Ids \cup {None} : PathSound(r, p, m, h)

SoundAlone(c) ==
    /\ TombstoneHides
    /\ \E h \in [Ids -> Paths \cup {DupName}] :
          AtHome(h) /\ Homeless(h) /\ Sound(client[c], h)

(***************************************************************************)
(* What a step has to show.                                                *)
(***************************************************************************)
NoneIsNoValue == None \notin Paths \cup Contents \cup Ids \cup Clients \cup Item \cup Entry \cup Listed

LEMMA NoneApart == NoneIsNoValue
  BY ConstantsAssumption, NoneIsNoRecord DEF NoneIsNoValue

\* The listing of a request that goes on: none, a new one, or the same.
SnapGoesOn(r, n) ==
    \/ n.snap = NoList /\ n.pc \notin LookPoints
    \/ n.snap = listed
    \/ n.snap = r.snap /\ (n.pc \in LookPoints => r.pc \in LookPoints)

\* A path all of whose memory is left alone.
LEMMA Aside ==
  ASSUME NEW c \in Clients, NEW n, n = client'[c],
         NEW h, NEW g, NEW q \in Paths, NEW m \in Ids \cup {None},
         PathSound(client[c], q, m, h),
         client[c].src # q \/ client[c].pc \notin BusyPoints, n.src # q,
         overlay'[q] = overlay[q], known'[q] = known[q],
         cache'[q] = cache[q], promise'[q] = promise[q], UNCHANGED listed,
         \A j \in Ids : g[j] = q <=> h[j] = q,
         \A j \in Ids : h[j] = q =>
             remote'[j] = remote[j] /\ (j \in hidden' <=> j \in hidden),
         SnapGoesOn(client[c], n)
  PROVE  PathSound(client[c], q, m, g)'
<1>1. ~Publishes(client[c], q) /\ ~Buries(client[c], q) /\ Truth(client[c], q) = promise[q]
  BY DEF Publishes, Buries, BusyPoints, Truth
<1>2. ~Publishes(client[c], q)' /\ ~Buries(client[c], q)' /\ Truth(client[c], q)' = promise[q]
  BY DEF Publishes, Buries, BusyPoints, Truth
<1>3. \A j \in Ids : h[j] = q /\ Gone(client[c], j, q) => Gone(client[c], j, q)'
  BY DEF Gone, SnapGoesOn, Lists, NoList
<1>4. /\ m # None => m \in Ids /\ h[m] = q
      /\ \A j \in Ids \ {m} : h[j] = q => Gone(client[c], j, q)
      /\ overlay[q] # None => overlay[q].id = m
      /\ Upholds(client[c], q, m, h, promise[q])
  BY <1>1 DEF PathSound
<1>5. m \in Ids => remote'[m] = remote[m] /\ (m \in hidden' <=> m \in hidden)
  BY <1>4, NoneApart DEF NoneIsNoValue
<1>6. Trashed(m) => Trashed(m)'
  BY <1>5 DEF Trashed
<1>7. \A x : Remembers(x, m, promise[q]) => Remembers(x, m, promise[q])'
  BY <1>6 DEF Remembers, Like
<1>8. CASE promise[q] = None
  <2>1. Lacks(client[c], q, m, h)
    BY <1>4, <1>8 DEF Upholds
  <2>2. Lacks(client[c], q, m, g)'
    BY <1>4, <1>5, <1>6, <2>1, NoneApart DEF Lacks, Tombstone, NoneIsNoValue
  <2> QED BY <1>2, <1>3, <1>4, <1>7, <1>8, <2>2 DEF PathSound, Upholds
<1>9. CASE promise[q] # None
  <2>1. Holds(client[c], q, m, promise[q])
    BY <1>4, <1>9 DEF Upholds
  <2>2. overlay[q] = None /\ n.pc \in LookPoints =>
           Lists(n.snap, m, q) /\ Like(n.snap[m], promise[q])
    BY <2>1 DEF Holds, SnapGoesOn
  <2>3. Holds(client[c], q, m, promise[q])'
    BY <1>4, <1>5, <2>1, <2>2 DEF Holds, Uploaded, Lists, Like
  <2> QED BY <1>2, <1>3, <1>4, <1>7, <1>9, <2>3 DEF PathSound, Upholds
<1> QED BY <1>8, <1>9

\* A request goes on: the media and the entries stay, and what is remembered
\* anew is remembered well.
LEMMA Proceeds ==
  ASSUME TypeInv, NEW c \in Clients, NEW n, n = client'[c],
         NEW h, NEW q \in Paths, NEW m \in Ids \cup {None},
         PathSound(client[c], q, m, h),
         UNCHANGED <<overlay, hidden, remote, listed>>, promise'[q] = promise[q],
         client[c].src # q \/ client[c].pc \notin BusyPoints,
         n.src # q \/ n.pc \notin BusyPoints,
         SnapGoesOn(client[c], n),
         Remembers(known'[q], m, promise[q]), Remembers(cache'[q], m, promise[q]),
         n.src = q => Remembers(n.item, m, promise[q]),
         n.src = q /\ n.pc = "upload" /\ n.item = None =>
             promise[q] = None /\ Vacant(q, h)
  PROVE  PathSound(client[c], q, m, h)'
<1>1. ~Publishes(client[c], q) /\ ~Buries(client[c], q) /\ Truth(client[c], q) = promise[q]
  BY DEF Publishes, Buries, BusyPoints, Truth
<1>2. ~Publishes(client[c], q)' /\ ~Buries(client[c], q)' /\ Truth(client[c], q)' = promise[q]
  BY DEF Publishes, Buries, BusyPoints, Truth
<1>3. \A j \in Ids : Gone(client[c], j, q) => Gone(client[c], j, q)'
  BY DEF Gone, SnapGoesOn, Lists, NoList
<1>4. /\ m # None => m \in Ids /\ h[m] = q
      /\ \A j \in Ids \ {m} : h[j] = q => Gone(client[c], j, q)
      /\ overlay[q] # None => overlay[q].id = m
      /\ Upholds(client[c], q, m, h, promise[q])
  BY <1>1 DEF PathSound
<1>5. Trashed(m) <=> Trashed(m)'
  BY DEF Trashed
<1>6. \A x : Remembers(x, m, promise[q]) <=> Remembers(x, m, promise[q])'
  BY <1>5 DEF Remembers, Like
<1>7. Vacant(q, h) => Vacant(q, h)'
  BY DEF Vacant, Lists
<1>8. n.src = q /\ n.item # None => n.item.id = m
  BY DEF Remembers
<1>9. CASE promise[q] = None
  <2>1. Lacks(client[c], q, m, h)
    BY <1>4, <1>9 DEF Upholds
  <2>2. Lacks(client[c], q, m, h)'
    BY <1>5, <1>7, <2>1 DEF Lacks, Tombstone
  <2>3. Upholds(client[c], q, m, h, promise[q])'
    BY <1>6, <1>9, <2>2 DEF Upholds
  <2> QED BY <1>2, <1>3, <1>4, <1>8, <2>3 DEF PathSound
<1>10. CASE promise[q] # None
  <2>1. Holds(client[c], q, m, promise[q])
    BY <1>4, <1>10 DEF Upholds
  <2>2. overlay[q] = None /\ n.pc \in LookPoints =>
           Lists(n.snap, m, q) /\ Like(n.snap[m], promise[q])
    BY <2>1 DEF Holds, SnapGoesOn
  <2>3. Holds(client[c], q, m, promise[q])'
    BY <1>10, <2>1, <2>2 DEF Holds, Uploaded, Lists, Like
  <2>4. Upholds(client[c], q, m, h, promise[q])'
    BY <1>6, <1>10, <2>3 DEF Upholds
  <2> QED BY <1>2, <1>3, <1>4, <1>8, <2>4 DEF PathSound
<1> QED BY <1>9, <1>10

\* What a request that is not changing its path relies on there.
Reads(r, q) == r.src # q \/ r.pc \notin BusyPoints

LEMMA Remembered ==
  ASSUME NEW r, NEW h, NEW q, NEW m, PathSound(r, q, m, h), Reads(r, q)
  PROVE  /\ Remembers(known[q], m, promise[q]) /\ Remembers(cache[q], m, promise[q])
         /\ r.src = q => Remembers(r.item, m, promise[q])
         /\ promise[q] = None => Lacks(r, q, m, h)
         /\ promise[q] # None => Holds(r, q, m, promise[q])
         /\ m # None => m \in Ids /\ h[m] = q
         /\ \A j \in Ids \ {m} : h[j] = q => Gone(r, j, q)
         /\ overlay[q] # None => overlay[q].id = m
  BY DEF PathSound, Upholds, Reads, Publishes, Buries, BusyPoints, Truth

\* What _item_for_path answers at once is remembered well; where it answers
\* that there is no file, no listing brings one back.
LEMMA Resolves ==
  ASSUME TypeInv, TombstoneHides, NEW r, NEW h, NEW q \in Paths, NEW m \in Ids \cup {None},
         PathSound(r, q, m, h), Reads(r, q)
  PROVE  /\ Remembers(Resolution(q), m, promise[q])
         /\ Resolved(q) /\ Resolution(q) = None =>
               promise[q] = None /\ Vacant(q, h)
<1>1. overlay[q] \in Entry \cup {None} /\ known[q] \in Item \cup {None}
  BY DEF TypeInv, StoreType
<1>2. CASE Uploaded(q)
  <2>1. /\ Resolution(q).id = overlay[q].id /\ Resolution(q).content = overlay[q].content
        /\ overlay[q] # None /\ ~Tombstone(q) /\ Resolution(q) \in Item
    BY <1>1, <1>2, ResolutionType DEF Resolution, Uploaded, Tombstone, EntryItem, Entry, Item
  <2>2. promise[q] # None /\ overlay[q].content = promise[q]
    BY <2>1, Remembered DEF Lacks, Holds
  <2> QED BY <2>1, <2>2, Remembered, NoneApart DEF Remembers, Like, NoneIsNoValue
<1>3. CASE Tombstone(q)
  <2>1. Resolution(q) = None /\ overlay[q] # None /\ ~Uploaded(q) /\ m \in hidden
    BY <1>3, Remembered DEF Resolution, Tombstone, Uploaded, TombstoneHides
  <2>2. promise[q] = None
    BY <2>1, Remembered DEF Holds
  <2>3. \A j \in Ids \ {m} : h[j] = q => Gone(r, j, q)
    BY Remembered
  <2>4. Vacant(q, h)
    BY <2>1, <2>3 DEF Gone, Vacant
  <2> QED BY <2>1, <2>2, <2>4 DEF Remembers
<1>4. CASE overlay[q] = None
  <2>1. Resolution(q) = known[q] /\ (Resolved(q) => Resolution(q) # None)
    BY <1>4 DEF Resolution, Uploaded, Tombstone, Resolved
  <2> QED BY <2>1, Remembered
<1> QED BY <1>1, <1>2, <1>3, <1>4 DEF Uploaded, Tombstone, Entry

\* What a listing shows at a path is the media of the path.
LEMMA Recognised ==
  ASSUME NEW r, NEW h, NEW q \in Paths, NEW m \in Ids \cup {None},
         PathSound(r, q, m, h), Reads(r, q), HomeRequest(r, h),
         NEW i \in Ids \ hidden, Lists(r.snap, i, q)
  PROVE  i = m /\ h[i] = q
<1>1. h[i] = q
  BY ConstantsAssumption DEF HomeRequest, Lists
<1> QED BY <1>1, Remembered DEF Gone

LEMMA LookedUp ==
  ASSUME NEW r, NEW h, NEW q \in Paths, NEW m \in Ids \cup {None},
         PathSound(r, q, m, h), Reads(r, q), HomeRequest(r, h),
         NEW i \in Ids \ hidden, Lists(r.snap, i, q), overlay[q] = None, r.pc \in LookPoints
  PROVE  Remembers(ItemOf(r.snap, i), m, promise[q])
<1>1. i = m
  BY Recognised
<1>2. ItemOf(r.snap, i).id = i /\ ItemOf(r.snap, i).content = r.snap[i].content
  BY DEF ItemOf
<1>3. promise[q] = None => Trashed(m)
  BY <1>1, Remembered, NoneApart DEF Lacks, NoneIsNoValue
<1>4. promise[q] # None => Like(r.snap[i], promise[q])
  BY <1>1, Remembered DEF Holds
<1> QED BY <1>1, <1>2, <1>3, <1>4 DEF Remembers, Like

\* A lookup that finds no file where the overlay has no entry.
LEMMA Missing ==
  ASSUME TypeInv, NEW r, NEW h, NEW q \in Paths \ crossed, NEW m \in Ids \cup {None},
         PathSound(r, q, m, h), Reads(r, q), Lags(r, h), r.pc \in LookPoints,
         overlay[q] = None, \A i \in Ids \ hidden : ~Lists(r.snap, i, q)
  PROVE  promise[q] = None /\ Vacant(q, h)
<1>1. promise[q] = None
  BY Remembered DEF Holds
<1>2. m # None => m \in Ids /\ h[m] = q /\ (m \in hidden \/ remote[m].st = "trashed")
  BY <1>1, Remembered DEF Lacks, Trashed
<1>3. m # None /\ m \notin hidden => ~Lists(listed, m, q)
  BY <1>2 DEF Lags, Lists
<1>4. \A j \in Ids \ {m} : h[j] = q => Gone(r, j, q)
  BY Remembered
<1>5. Vacant(q, h)
  BY <1>2, <1>3, <1>4, NoneApart DEF Gone, Vacant, NoneIsNoValue
<1> QED BY <1>1, <1>5

\* What a lookup that is answered remembers.
LEMMA AnsweredFacts ==
  ASSUME TypeInv, NEW c \in Clients, NEW p \in Paths, NEW pf, NEW pm, NEW k,
         Answered(c, p, pf, pm, k)
  PROVE  LET r == client[c]  n == client'[c] IN
         /\ Others(c) /\ n.src = r.src /\ n.snap = NoList
         /\ n.pc = IF n.item = None THEN pm ELSE pf
         /\ \A q \in Paths :
               \/ known'[q] = known[q]
               \/ /\ overlay[q] = None
                  /\ \E i \in Ids \ hidden :
                        Lists(r.snap, i, q) /\ known'[q] = ItemOf(r.snap, i)
         /\ \/ /\ n.item = None
               /\ overlay[p] = None => \A i \in Ids \ hidden : ~Lists(r.snap, i, p)
            \/ /\ overlay[p] = None
               /\ \E i \in Ids \ hidden :
                     Lists(r.snap, i, p) /\ n.item = ItemOf(r.snap, i)
<1> DEFINE r == client[c]
<1>1. PICK pick \in Picks(r.snap) :
        /\ Absorb(r.snap, pick)
        /\ Become(c, Goto(r, IF Found(r.snap, pick, p) = None THEN pm ELSE pf,
                             Found(r.snap, pick, p)), k)
  BY DEF Answered
<1>2. \A q \in Paths : pick[q] # None =>
         pick[q] \in Ids \ hidden /\ Lists(r.snap, pick[q], q)
  BY <1>1 DEF Picks, ShownAt, Lists
<1>3. \A q \in Paths : pick[q] = None => \A i \in Ids \ hidden : ~Lists(r.snap, i, q)
  BY <1>1, NoneApart DEF Picks, ShownAt, Lists, NoneIsNoValue
<1>4. \A q \in Paths :
         \/ known'[q] = known[q]
         \/ /\ overlay[q] = None
            /\ \E i \in Ids \ hidden : Lists(r.snap, i, q) /\ known'[q] = ItemOf(r.snap, i)
  BY <1>1, <1>2 DEF Absorb
<1> DEFINE found == Found(r.snap, pick, p)
           n == Goto(r, IF found = None THEN pm ELSE pf, found)
<1>5. \/ /\ found = None
         /\ overlay[p] = None => \A i \in Ids \ hidden : ~Lists(r.snap, i, p)
      \/ /\ overlay[p] = None
         /\ \E i \in Ids \ hidden : Lists(r.snap, i, p) /\ found = ItemOf(r.snap, i)
  BY <1>2, <1>3 DEF Found
<1>6. n.item = found /\ n.src = r.src /\ n.snap = NoList
      /\ n.pc = IF found = None THEN pm ELSE pf
  BY Facts DEF Goto, TypeInv, RequestType, Request
<1>7. Become(c, n, k)
  BY <1>1
<1> HIDE DEF found, n
<1>8. Others(c) /\ client'[c] = n
  BY <1>7, BecomeOthers
<1> QED BY <1>4, <1>5, <1>6, <1>8

(***************************************************************************)
(* The requests that leave the entries and the media alone.                *)
(***************************************************************************)
LEMMA ProceedsBookkept ==
  ASSUME NEW c \in Clients, NEW n, n = client'[c], NEW h,
         Bookkept(client[c], h), SnapGoesOn(client[c], n), LooksUp(n), CopyFits(n),
         UNCHANGED <<overlay, hidden, tasks, remote, listed, crossed>>, PromiseKnown'
  PROVE  Bookkept(client[c], h)'
<1>1. Genuine(listed)' /\ Genuine(client[c].snap)'
  BY DEF Bookkept, Genuine, SnapGoesOn, NoList
<1>2. Lags(client[c], h)'
  BY DEF Bookkept, Lags, SnapGoesOn, Now
<1>3. LooksUp(client[c])' /\ CopyFits(client[c])'
  BY DEF LooksUp, CopyFits
<1>4. TasksSound' /\ GoneTrashed' /\ HiddenHomes(h)' /\ PromiseKnown'
  BY DEF Bookkept, TasksSound, GoneTrashed, HiddenHomes, Tombstone, Like
<1> QED BY <1>1, <1>2, <1>3, <1>4 DEF Bookkept

\* What such a request remembers when it goes on.
Recollects(n, q, m, h) ==
    /\ Remembers(known'[q], m, promise[q]) /\ Remembers(cache'[q], m, promise[q])
    /\ n.src = q => Remembers(n.item, m, promise[q])
    /\ n.src = q /\ n.pc = "upload" /\ n.item = None =>
           promise[q] = None /\ Vacant(q, h)

LEMMA SoundProceeds ==
  ASSUME TypeInv, NEW c \in Clients, NEW n, n = client'[c],
         NEW h, Sound(client[c], h),
         UNCHANGED <<overlay, hidden, tasks, remote, listed, crossed>>,
         PromiseKnown', \A q \in Paths \ crossed : promise'[q] = promise[q],
         client[c].pc \notin BusyPoints, n.pc \notin BusyPoints,
         SnapGoesOn(client[c], n), LooksUp(n), CopyFits(n),
         \A q \in Paths \ crossed : \A m \in Ids \cup {None} :
             PathSound(client[c], q, m, h) => Recollects(n, q, m, h)
  PROVE  Sound(client[c], h)'
<1>1. Bookkept(client[c], h)'
  BY ProceedsBookkept DEF Sound
<1>2. ASSUME NEW q \in Paths \ crossed', NEW m \in Ids \cup {None}, PathSound(client[c], q, m, h)
      PROVE  PathSound(client[c], q, m, h)'
  BY <1>2, Proceeds DEF Recollects
<1> QED BY <1>1, <1>2 DEF Sound

\* An item with which a request goes on at p.
ItemFits(r, p, pc, item, h) ==
    p \in Paths \ crossed => \A m \in Ids \cup {None} : PathSound(r, p, m, h) =>
        /\ Remembers(item, m, promise[p])
        /\ pc = "upload" /\ item = None => promise[p] = None /\ Vacant(p, h)

\* Where nothing else is remembered, the request's item is all that counts.
LEMMA GoesSound ==
  ASSUME TypeInv, NEW c \in Clients, NEW n, n = client'[c],
         NEW h, Sound(client[c], h),
         UNCHANGED <<overlay, known, hidden, cache, tasks, remote, listed, promise, crossed>>,
         client[c].pc \notin BusyPoints, n.pc \notin BusyPoints,
         SnapGoesOn(client[c], n), LooksUp(n), CopyFits(n),
         ItemFits(client[c], n.src, n.pc, n.item, h)
  PROVE  Sound(client[c], h)'
<1>1. \A q \in Paths \ crossed : \A m \in Ids \cup {None} :
         PathSound(client[c], q, m, h) => Recollects(n, q, m, h)
  BY Remembered DEF Recollects, Reads, ItemFits
<1>2. PromiseKnown'
  BY DEF Sound, Bookkept, PromiseKnown
<1> QED BY <1>1, <1>2, SoundProceeds

\* A request that starts over with an item, or ends.
LEMMA GotoSound ==
  ASSUME TypeInv, NEW c \in Clients, NEW r \in Request, NEW pc, NEW item, NEW k,
         Become(c, Goto(r, pc, item), k),
         NEW h, Sound(client[c], h),
         UNCHANGED <<overlay, known, hidden, cache, tasks, remote, listed, promise, crossed>>,
         client[c].pc \notin BusyPoints, pc \notin BusyPoints \cup LookPoints,
         ItemFits(client[c], r.src, pc, item, h)
  PROVE  Sound(client[c], h)'
<1> DEFINE n == Goto(r, pc, item)
<1>1. n.pc = pc /\ n.item = item /\ n.src = r.src /\ n.snap = NoList
  BY DEF Goto, Request
<1> HIDE DEF n
<1>2. n = client'[c]
  BY BecomeOthers DEF n
<1>3. SnapGoesOn(client[c], n) /\ LooksUp(n) /\ CopyFits(n)
  BY <1>1 DEF SnapGoesOn, LooksUp, CopyFits, LookPoints, LookupPoints, ItemsPoints
<1>4. pc \notin BusyPoints
  OBVIOUS
<1> QED BY <1>1, <1>2, <1>3, <1>4, GoesSound

LEMMA IdleSound ==
  ASSUME TypeInv, NEW c \in Clients, NEW k, Become(c, Idle, k),
         NEW h, Sound(client[c], h),
         UNCHANGED <<overlay, known, hidden, cache, tasks, remote, listed, promise, crossed>>,
         client[c].pc \notin BusyPoints
  PROVE  Sound(client[c], h)'
<1> DEFINE n == Idle
<1>1. n.pc = "idle" /\ n.item = None /\ n.src = None /\ n.snap = NoList
  BY DEF Idle, NewRequest
<1> HIDE DEF n
<1>2. n = client'[c]
  BY BecomeOthers DEF n
<1>3. SnapGoesOn(client[c], n) /\ LooksUp(n) /\ CopyFits(n) /\ n.pc \notin BusyPoints
  BY <1>1 DEF SnapGoesOn, LooksUp, CopyFits, LookPoints, LookupPoints, ItemsPoints, BusyPoints
<1>4. ItemFits(client[c], n.src, n.pc, n.item, h)
  BY <1>1 DEF ItemFits, Remembers
<1> QED BY <1>1, <1>2, <1>3, <1>4, GoesSound

\* A request that asks for the listing.
LEMMA AskSound ==
  ASSUME TypeInv, NEW c \in Clients, NEW r \in Request,
         r.item = None \/ r = client[c],
         NEW pc \in LookupPoints \cup {"listing"}, AskListing(c, r, pc),
         pc \in LookupPoints => overlay[r.src] = None,
         NEW h, Sound(client[c], h),
         UNCHANGED <<overlay, known, hidden, cache, tasks, remote, listed, promise, crossed>>,
         client[c].pc \notin BusyPoints
  PROVE  Sound(client[c], h)'
<1> DEFINE n == [r EXCEPT !.pc = pc, !.snap = listed]
<1>1. n.pc = pc /\ n.item = r.item /\ n.src = r.src /\ n.snap = listed
  BY DEF Request
<1>5. Become(c, n, FALSE)
  BY DEF AskListing
<1> HIDE DEF n
<1>2. n = client'[c]
  BY <1>5, BecomeOthers
<1>3. SnapGoesOn(client[c], n) /\ LooksUp(n) /\ CopyFits(n) /\ n.pc \notin BusyPoints /\ n.pc # "upload"
  BY <1>1 DEF SnapGoesOn, LooksUp, CopyFits, LookPoints, LookupPoints, ItemsPoints, BusyPoints
<1>4. ItemFits(client[c], n.src, n.pc, n.item, h)
  BY <1>1, <1>3, Remembered DEF ItemFits, Remembers, Reads
<1> QED BY <1>1, <1>2, <1>3, <1>4, GoesSound

LEMMA NewRequestsSound ==
  ASSUME "MOVE" \notin Kinds, TypeInv, TombstoneHides, NEW c \in Clients, NEW h,
         Sound(client[c], h), NewRequests(c)
  PROVE  Sound(client[c], h)'
<1>0. client[c] = Idle => client[c].pc = "idle" /\ client[c].pc \notin BusyPoints
  BY DEF Idle, NewRequest, BusyPoints
<1>1. ASSUME NEW p \in Paths, Stat(c, p) PROVE Sound(client[c], h)'
  <2> DEFINE r == NewRequest("STAT", p, None, None)
  <2>1. r \in Request
    BY NewRequestGood
  <2> HIDE DEF r
  <2>2. ItemFits(client[c], r.src, "stat", None, h)
    BY DEF ItemFits, Remembers
  <2> QED BY <1>0, <1>1, <2>1, <2>2, GotoSound
          DEF Stat, Arrives, r, remoteVars, BusyPoints, LookPoints, LookupPoints,
              ItemsPoints
<1>2. ASSUME NEW p \in Paths, Delete(c, p) PROVE Sound(client[c], h)'
  <2> DEFINE r == NewRequest("DELETE", p, None, None)
  <2>1. r \in Request
    BY NewRequestGood
  <2> HIDE DEF r
  <2>2. ItemFits(client[c], r.src, "delete", None, h)
    BY DEF ItemFits, Remembers
  <2> QED BY <1>0, <1>2, <2>1, <2>2, GotoSound
          DEF Delete, Arrives, r, remoteVars, BusyPoints, LookPoints, LookupPoints,
              ItemsPoints
<1>3. ASSUME NEW p \in Paths, NEW d \in Contents, Put(c, p, d) PROVE Sound(client[c], h)'
  <2> DEFINE r == NewRequest("PUT", p, None, d)
  <2>1. r \in Request /\ r.src = p /\ r.item = None
    BY NewRequestGood DEF NewRequest
  <2>2. /\ IF Resolved(p) THEN Become(c, Goto(r, "upload", Resolution(p)), FALSE)
           ELSE AskListing(c, r, "put_lookup")
        /\ client[c].pc \notin BusyPoints
        /\ UNCHANGED <<overlay, known, hidden, cache, tasks, remote, listed, promise, crossed>>
    BY <1>0, <1>3 DEF Put, Arrives, remoteVars
  <2> HIDE DEF r
  <2>3. CASE Resolved(p)
    <3>1. ItemFits(client[c], r.src, "upload", Resolution(p), h)
      BY <2>1, <2>2, <2>3, Resolves DEF Reads, ItemFits
    <3> QED BY <2>1, <2>2, <2>3, <3>1, GotoSound
            DEF BusyPoints, LookPoints, LookupPoints, ItemsPoints
  <2>4. CASE ~Resolved(p)
    BY <2>1, <2>2, <2>4, AskSound DEF LookupPoints, Resolved
  <2> QED BY <2>3, <2>4
<1>4. ASSUME NEW p \in Paths, NEW q \in Paths, Move(c, p, q) PROVE FALSE
  <2>1. NewRequest("MOVE", p, q, None).kind = "MOVE"
    BY DEF NewRequest
  <2> QED BY <1>4, <2>1 DEF Move, Arrives
<1>5. CASE List(c)
  <2> DEFINE r == NewRequest("LIST", None, None, None)
  <2>1. r \in Request /\ r.item = None
    BY NewRequestGood DEF NewRequest
  <2> HIDE DEF r
  <2> QED BY <1>0, <1>5, <2>1, AskSound DEF List, Arrives, r, remoteVars, LookupPoints
<1> QED BY <1>1, <1>2, <1>3, <1>4, <1>5 DEF NewRequests

\* The requests that change nothing but themselves.
LEMMA WaitsSound ==
  ASSUME TypeInv, TombstoneHides, NEW c \in Clients, NEW h, AtHome(h), Sound(client[c], h),
         \/ StatMiss(c) \/ UploadRefused(c) \/ DeleteMissing(c) \/ DeleteLookup(c)
         \/ DeleteAgain(c)
  PROVE  Sound(client[c], h)'
<1> DEFINE r == client[c]
<1>0. r \in Request /\ StatPath(r) = r.src /\ DeletePath(r) = r.src
  BY Facts, Unmoved DEF GoodRequest
<1>1. CASE StatMiss(c)
  <2>1. r.src \in Paths /\ r.pc = "stat" /\ r.pc \notin BusyPoints
    BY <1>1, Unmoved DEF StatMiss, At, StatPoints, BusyPoints
  <2>2. CASE Resolved(r.src)
    <3> DEFINE pc == IF Resolution(r.src) = None THEN "absent" ELSE "answer"
    <3>1. Become(c, Goto(r, pc, Resolution(r.src)), FALSE)
      BY <1>0, <1>1, <2>2 DEF StatMiss
    <3>2. ItemFits(r, r.src, pc, Resolution(r.src), h)
      BY <2>1, Resolves DEF Reads, ItemFits
    <3>3. pc \notin BusyPoints \cup LookPoints /\ pc # "upload"
      BY DEF BusyPoints, LookPoints, LookupPoints, ItemsPoints
    <3> HIDE DEF pc
    <3> QED BY <1>0, <1>1, <2>1, <3>1, <3>2, <3>3, GotoSound DEF StatMiss, remoteVars
  <2>3. CASE ~Resolved(r.src)
    BY <1>0, <1>1, <2>1, <2>3, AskSound DEF StatMiss, remoteVars, LookupPoints, Resolved
  <2> QED BY <2>2, <2>3
<1>2. CASE UploadRefused(c)
  BY <1>2, IdleSound DEF UploadRefused, At, BusyPoints, remoteVars
<1>3. CASE DeleteMissing(c)
  BY <1>3, IdleSound DEF DeleteMissing, At, BusyPoints, remoteVars
<1>4. CASE DeleteLookup(c)
  <2>1. r.src \in Paths /\ r.pc = "delete" /\ r.pc \notin BusyPoints /\ overlay[r.src] = None
    BY <1>0, <1>4, Unmoved DEF DeleteLookup, At, DeletePoints, BusyPoints
  <2>2. CASE known[r.src] # None
    <3>1. ItemFits(r, r.src, "del_item", known[r.src], h)
      BY <2>1, Remembered DEF Reads, ItemFits
    <3> QED BY <1>0, <1>4, <2>1, <2>2, <3>1, GotoSound
            DEF DeleteLookup, remoteVars, BusyPoints, LookPoints, LookupPoints, ItemsPoints
  <2>3. CASE known[r.src] = None
    BY <1>0, <1>4, <2>1, <2>3, AskSound DEF DeleteLookup, remoteVars, LookupPoints
  <2> QED BY <2>2, <2>3
<1>5. CASE DeleteAgain(c)
  <2>1. /\ r.src \in Paths /\ r.pc = "delete" /\ r.pc \notin BusyPoints
        /\ Tombstone(r.src) /\ overlay[r.src] # None /\ ~Uploaded(r.src)
    BY <1>0, <1>5, Unmoved DEF DeleteAgain, At, DeletePoints, BusyPoints, Tombstone, Uploaded
  <2>2. Become(c, Idle, FALSE) /\ promise' = [promise EXCEPT ![r.src] = None]
    BY <1>0, <1>5 DEF DeleteAgain, Deleted, AtHome, HomeRequest
  <2>3. r.src \notin crossed => promise[r.src] = None
    BY <2>1, Remembered DEF Sound, Reads, Holds
  <2>4. PromiseKnown' /\ \A q \in Paths \ crossed : promise'[q] = promise[q]
    BY <2>2, <2>3 DEF Sound, Bookkept, PromiseKnown, TypeInv, GhostType
  <2> DEFINE n == Idle
  <2>5. n.pc = "idle" /\ n.item = None /\ n.src = None /\ n.snap = NoList
    BY DEF Idle, NewRequest
  <2> HIDE DEF n
  <2>6. n = client'[c]
    BY <2>2, BecomeOthers DEF n
  <2>7. SnapGoesOn(r, n) /\ LooksUp(n) /\ CopyFits(n) /\ n.pc \notin BusyPoints
    BY <2>5 DEF SnapGoesOn, LooksUp, CopyFits, LookPoints, LookupPoints, ItemsPoints,
                BusyPoints
  <2>8. \A q \in Paths \ crossed : \A m \in Ids \cup {None} :
           PathSound(r, q, m, h) => Recollects(n, q, m, h)
    BY <1>5, <2>1, <2>5, Remembered DEF DeleteAgain, Recollects, Reads, Remembers
  <2> QED BY <1>5, <2>1, <2>4, <2>6, <2>7, <2>8, SoundProceeds DEF DeleteAgain, remoteVars
<1> QED BY <1>1, <1>2, <1>3, <1>4, <1>5

\* The requests whose lookup is answered.
LEMMA AnswersSound ==
  ASSUME TypeInv, NEW c \in Clients, NEW h, AtHome(h), Sound(client[c], h),
         client[c].pc \in LookupPoints, client[c].src \in Paths,
         NEW pf \in {"answer", "upload", "del_item"},
         NEW pm \in {"absent", "upload", "del_item"},
         pm = "upload" => client[c].pc = "put_lookup", NEW k,
         Answered(c, client[c].src, pf, pm, k),
         UNCHANGED <<overlay, hidden, cache, tasks, remote, listed, promise, crossed>>
  PROVE  Sound(client[c], h)'
<1> DEFINE r == client[c]
<1> DEFINE n == client'[c]
<1>1. HomeRequest(r, h)
  BY DEF AtHome
<1>2. r.pc \in LookPoints /\ r.pc \notin BusyPoints /\ overlay[r.src] = None /\ Lags(r, h)
  BY DEF LookPoints, LookupPoints, BusyPoints, Sound, Bookkept, LooksUp
<1>3. /\ n.src = r.src /\ n.snap = NoList
      /\ n.pc = IF n.item = None THEN pm ELSE pf
      /\ \A q \in Paths :
            \/ known'[q] = known[q]
            \/ /\ overlay[q] = None
               /\ \E i \in Ids \ hidden : Lists(r.snap, i, q) /\ known'[q] = ItemOf(r.snap, i)
      /\ \/ /\ n.item = None
            /\ \A i \in Ids \ hidden : ~Lists(r.snap, i, r.src)
         \/ \E i \in Ids \ hidden : Lists(r.snap, i, r.src) /\ n.item = ItemOf(r.snap, i)
  BY <1>2, AnsweredFacts
<1> HIDE DEF n
<1>4. n.pc \notin BusyPoints \cup LookPoints /\ n.pc \notin LookupPoints \cup ItemsPoints
  BY <1>3 DEF BusyPoints, LookPoints, LookupPoints, ItemsPoints
<1>5. SnapGoesOn(r, n) /\ LooksUp(n) /\ CopyFits(n)
  BY <1>3, <1>4 DEF SnapGoesOn, LooksUp, CopyFits
<1>6. ASSUME NEW q \in Paths \ crossed, NEW m \in Ids \cup {None}, PathSound(r, q, m, h)
      PROVE  Recollects(n, q, m, h)
  <2>1. Reads(r, q)
    BY <1>2 DEF Reads
  <2>2. \A i \in Ids \ hidden : Lists(r.snap, i, q) /\ overlay[q] = None =>
            Remembers(ItemOf(r.snap, i), m, promise[q])
    BY <1>1, <1>2, <1>6, <2>1, LookedUp
  <2>3. Remembers(known'[q], m, promise[q]) /\ Remembers(cache'[q], m, promise[q])
    BY <1>3, <1>6, <2>1, <2>2, Remembered
  <2>4. n.src = q => Remembers(n.item, m, promise[q])
    BY <1>2, <1>3, <2>2 DEF Remembers
  <2>5. \A i \in Ids : Lists(r.snap, i, r.src) => ItemOf(r.snap, i) # None
    BY Facts, ListedItem, NoneApart DEF Lists, NoneIsNoValue
  <2>6. n.src = q /\ n.item = None => promise[q] = None /\ Vacant(q, h)
    BY <1>2, <1>3, <1>6, <2>1, <2>5, Missing
  <2> QED BY <2>3, <2>4, <2>6 DEF Recollects
<1>7. PromiseKnown'
  BY DEF Sound, Bookkept, PromiseKnown
<1> QED BY <1>2, <1>4, <1>5, <1>6, <1>7, SoundProceeds DEF n

LEMMA LookupsSound ==
  ASSUME TypeInv, NEW c \in Clients, NEW h, AtHome(h), Sound(client[c], h),
         StatListed(c) \/ PutListed(c) \/ DeleteListed(c)
  PROVE  Sound(client[c], h)'
<1>1. CASE StatListed(c)
  BY <1>1, Unmoved, AnswersSound DEF StatListed, At, StatPoints, LookupPoints, remoteVars
<1>2. CASE PutListed(c)
  BY <1>2, Unmoved, AnswersSound DEF PutListed, At, PutPoints, LookupPoints, remoteVars
<1>3. CASE DeleteListed(c)
  BY <1>3, Unmoved, AnswersSound DEF DeleteListed, At, DeletePoints, LookupPoints, remoteVars
<1> QED BY <1>1, <1>2, <1>3

\* The requests that fill the metadata cache.
LEMMA CachesSound ==
  ASSUME TypeInv, NEW c \in Clients, NEW h, AtHome(h), Sound(client[c], h),
         StatAnswer(c) \/ StatAbsent(c) \/ ListPut(c)
  PROVE  Sound(client[c], h)'
<1> DEFINE r == client[c]
<1>1. /\ r.pc \in {"answer", "absent", "putting"} /\ r.src \in Paths /\ r \in Request
      /\ r.pc \notin BusyPoints
  BY Facts, Unmoved
     DEF StatAnswer, StatAbsent, ListPut, At, StatPoints, BusyPoints, GoodRequest
<1>2. cache' = [cache EXCEPT ![r.src] = r.item] \/ cache' = [cache EXCEPT ![r.src] = None]
  BY Unmoved DEF StatAnswer, StatAbsent, ListPut
<1>3. ASSUME NEW n, n = client'[c], n.src = None, n.item = None,
             n.pc \notin BusyPoints, SnapGoesOn(r, n), LooksUp(n), CopyFits(n)
      PROVE  Sound(client[c], h)'
  <2>1. ASSUME NEW q \in Paths \ crossed, NEW m \in Ids \cup {None}, PathSound(r, q, m, h)
        PROVE  Recollects(n, q, m, h)
    <3>1. Reads(r, q) /\ None \notin Paths
      BY <1>1, NoneApart DEF Reads, NoneIsNoValue
    <3>2. Remembers(cache'[q], m, promise[q])
      BY <1>1, <1>2, <2>1, <3>1, Remembered DEF TypeInv, StoreType, Remembers
    <3>3. known'[q] = known[q]
      BY DEF StatAnswer, StatAbsent, ListPut
    <3> QED BY <1>3, <2>1, <3>1, <3>2, <3>3, Remembered DEF Recollects
  <2>2. PromiseKnown'
    BY DEF Sound, Bookkept, PromiseKnown, StatAnswer, StatAbsent, ListPut
  <2> QED BY <1>1, <1>3, <2>1, <2>2, SoundProceeds
          DEF StatAnswer, StatAbsent, ListPut, remoteVars
<1>4. CASE StatAnswer(c) \/ StatAbsent(c)
  <2> DEFINE n == Idle
  <2>1. n.pc = "idle" /\ n.item = None /\ n.src = None /\ n.snap = NoList
    BY DEF Idle, NewRequest
  <2>2. Become(c, n, FALSE)
    BY <1>4 DEF StatAnswer, StatAbsent, AtHome, HomeRequest
  <2> HIDE DEF n
  <2>3. n = client'[c]
    BY <2>2, BecomeOthers
  <2>4. SnapGoesOn(r, n) /\ LooksUp(n) /\ CopyFits(n) /\ n.pc \notin BusyPoints
    BY <2>1 DEF SnapGoesOn, LooksUp, CopyFits, LookPoints, LookupPoints, ItemsPoints,
                BusyPoints
  <2> QED BY <1>3, <2>1, <2>3, <2>4
<1>5. CASE ListPut(c)
  <2> DEFINE n == [r EXCEPT !.pc = "items", !.src = None, !.item = None]
  <2>1. /\ n.pc = "items" /\ n.item = None /\ n.src = None /\ n.snap = r.snap
        /\ n.kids = r.kids /\ n.todo = r.todo
    BY <1>1 DEF Request
  <2>2. Become(c, n, TRUE) /\ r.pc = "putting"
    BY <1>5 DEF ListPut, At
  <2> HIDE DEF n
  <2>3. n = client'[c]
    BY <2>2, BecomeOthers
  <2>4. SnapGoesOn(r, n) /\ LooksUp(n) /\ n.pc \notin BusyPoints
    BY <2>1, <2>2 DEF SnapGoesOn, LooksUp, LookPoints, LookupPoints, ItemsPoints, BusyPoints
  <2>5. CopyFits(n)
    BY <2>1, <2>2 DEF CopyFits, Sound, Bookkept, ItemsPoints
  <2> QED BY <1>3, <2>1, <2>3, <2>4, <2>5
<1> QED BY <1>4, <1>5

\* The steps of a LIST that leave the entries alone.
LEMMA ListsSound ==
  ASSUME TypeInv, NEW c \in Clients, NEW h, AtHome(h), Sound(client[c], h),
         ListBegin(c) \/ \E i \in Ids : ListSkip(c, i)
  PROVE  Sound(client[c], h)'
<1> DEFINE r == client[c]
<1>1. r \in Request /\ r.pc \in {"listing", "items"} /\ r.pc \notin BusyPoints
  BY Facts DEF ListBegin, ListSkip, At, GoodRequest, BusyPoints
<1>2. PICK n, k : /\ Become(c, n, k)
                  /\ n.pc = "items" /\ n.item = r.item /\ n.src = r.src /\ n.snap = r.snap
                  /\ CopyFits(n)
  <2>1. CASE ListBegin(c)
    <3> DEFINE n == [r EXCEPT !.pc = "items", !.kids = overlay,
                              !.todo = {i \in Ids : r.snap[i] # None}]
    <3>1. /\ n.pc = "items" /\ n.item = r.item /\ n.src = r.src /\ n.snap = r.snap
          /\ n.kids = overlay
      BY <1>1 DEF Request
    <3>2. Become(c, n, TRUE)
      BY <2>1 DEF ListBegin
    <3> HIDE DEF n
    <3> QED BY <3>1, <3>2 DEF CopyFits
  <2>2. ASSUME NEW i \in Ids, ListSkip(c, i)
        PROVE  \E n, k : /\ Become(c, n, k)
                         /\ n.pc = "items" /\ n.item = r.item /\ n.src = r.src
                         /\ n.snap = r.snap /\ CopyFits(n)
    <3> DEFINE n == [r EXCEPT !.todo = @ \ {i}]
    <3>1. /\ n.pc = r.pc /\ n.item = r.item /\ n.src = r.src /\ n.snap = r.snap
          /\ n.kids = r.kids /\ n.todo = r.todo \ {i}
      BY <1>1 DEF Request
    <3>2. Become(c, n, LeftOut(r, i)) /\ r.pc = "items" /\ i \in r.todo
      BY <2>2 DEF ListSkip, At
    <3> HIDE DEF n
    <3>3. CopyFits(n)
      BY <3>1, <3>2 DEF CopyFits, Sound, Bookkept, ItemsPoints
    <3> QED BY <3>1, <3>2, <3>3
  <2> QED BY <2>1, <2>2
<1>3. n = client'[c]
  BY <1>2, BecomeOthers
<1>4. SnapGoesOn(r, n) /\ LooksUp(n) /\ n.pc \notin BusyPoints
  BY <1>1, <1>2 DEF SnapGoesOn, LooksUp, LookPoints, LookupPoints, ItemsPoints, BusyPoints
<1>5. ItemFits(r, n.src, n.pc, n.item, h)
  BY <1>1, <1>2, Remembered DEF ItemFits, Reads
<1> QED BY <1>1, <1>2, <1>3, <1>4, <1>5, GoesSound DEF ListBegin, ListSkip, remoteVars

\* A LIST answers with a recent upload the listing does not have: its copy is
\* the entry itself, unless the path is crossed.
LEMMA ListRecentSound ==
  ASSUME TypeInv, NEW c \in Clients, NEW h, AtHome(h), Sound(client[c], h),
         NEW p \in Paths, ListRecent(c, p)
  PROVE  Sound(client[c], h)'
<1> DEFINE r == client[c]
           item == EntryItem(r.kids[p])
           n == [r EXCEPT !.pc = "putting", !.src = p, !.item = item,
                          !.kids = [@ EXCEPT ![p] = None]]
<1>1. /\ r \in Request /\ r.kids \in [Paths -> Entry \cup {None}] /\ r.pc = "items"
      /\ r.todo = {} /\ r.kids[p] # None /\ r.kids[p].st = "uploaded"
  BY Facts DEF ListRecent, At, GoodRequest, Recent
<1>2. /\ n.pc = "putting" /\ n.src = p /\ n.item = item /\ n.snap = r.snap /\ n.todo = r.todo
      /\ \A q \in Paths : n.kids[q] = IF q = p THEN None ELSE r.kids[q]
  BY <1>1 DEF Request
<1>3. /\ Become(c, n, FALSE) /\ known' = [known EXCEPT ![p] = item]
      /\ UNCHANGED <<overlay, hidden, cache, tasks, remote, listed, promise>>
      /\ crossed' = IF overlay[p] = None /\ Owed(item.id) THEN crossed \cup {p} ELSE crossed
  BY DEF ListRecent, remoteVars
<1>4. item.id = r.kids[p].id /\ item.content = r.kids[p].content
  BY DEF EntryItem
<1> HIDE DEF n, item
<1>5. p \notin crossed =>
         /\ overlay[p] # None /\ Uploaded(p)
         /\ item.id = overlay[p].id /\ item.content = overlay[p].content
  BY <1>1, <1>4 DEF Sound, Bookkept, CopyFits, ItemsPoints, Uploaded
<1>6. crossed' = crossed
  BY <1>3, <1>5
<1>7. n = client'[c]
  BY <1>3, BecomeOthers
<1>8. /\ SnapGoesOn(r, n) /\ LooksUp(n) /\ r.pc \notin BusyPoints /\ n.pc \notin BusyPoints
      /\ n.pc # "upload"
  BY <1>1, <1>2 DEF SnapGoesOn, LooksUp, LookPoints, LookupPoints, ItemsPoints, BusyPoints
<1>9. CopyFits(n)
  BY <1>1, <1>2 DEF CopyFits, Sound, Bookkept, ItemsPoints
<1>10. ASSUME NEW q \in Paths \ crossed, NEW m \in Ids \cup {None}, PathSound(r, q, m, h)
       PROVE  Recollects(n, q, m, h)
  <2>1. Reads(r, q)
    BY <1>8 DEF Reads
  <2>2. ~(Uploaded(q) /\ Tombstone(q))
    BY DEF Uploaded, Tombstone
  <2>3. q = p => Remembers(item, m, promise[q])
    BY <1>5, <1>10, <2>1, <2>2, Remembered DEF Remembers, Lacks, Holds, Like
  <2>4. known'[q] = IF q = p THEN item ELSE known[q]
    BY <1>3 DEF TypeInv, StoreType
  <2> QED BY <1>2, <1>3, <1>8, <1>10, <2>1, <2>3, <2>4, Remembered DEF Recollects
<1>11. PromiseKnown'
  BY <1>3 DEF Sound, Bookkept, PromiseKnown
<1> QED BY <1>3, <1>6, <1>7, <1>8, <1>9, <1>10, <1>11, SoundProceeds

(***************************************************************************)
(* The steps of a LIST that drop entries.                                  *)
(***************************************************************************)
LEMMA ListItemSound ==
  ASSUME TypeInv, NEW c \in Clients, NEW h, AtHome(h), Sound(client[c], h),
         NEW i \in Ids, ListItem(c, i)
  PROVE  Sound(client[c], h)'
<1> DEFINE r == client[c]
<1>0. PICK p, item : p = r.snap[i].name /\ item = ItemOf(r.snap, i)
  OBVIOUS
<1> DEFINE n == [r EXCEPT !.pc = "putting", !.src = p, !.item = item,
                          !.todo = @ \ {i}, !.kids = [@ EXCEPT ![p] = None]]
<1>1. /\ r \in Request /\ r.kids \in [Paths -> Entry \cup {None}] /\ r.pc = "items"
      /\ i \in r.todo /\ r.snap[i] # None /\ HomeRequest(r, h) /\ p \in Paths
  BY <1>0, Facts DEF ListItem, At, GoodRequest, AtHome
<1>2. /\ n.pc = "putting" /\ n.src = p /\ n.item = item /\ n.snap = r.snap
      /\ n.todo = r.todo \ {i}
      /\ \A q \in Paths : n.kids[q] = IF q = p THEN None ELSE r.kids[q]
  BY <1>1 DEF Request
<1>3. /\ Become(c, n, FALSE) /\ known' = [known EXCEPT ![p] = item]
      /\ overlay' = IF r.kids[p] = None THEN overlay ELSE [overlay EXCEPT ![p] = None]
      /\ UNCHANGED <<hidden, cache, tasks, remote, listed, promise, crossed>>
  BY <1>0 DEF ListItem, remoteVars
<1>4. i \notin hidden /\ (r.kids[p] # None => CaughtUp(r.kids[p], i, r.snap[i]))
  BY <1>0, <1>1 DEF ListItem, LeftOut
<1>5. item.id = i /\ item.content = r.snap[i].content /\ Lists(r.snap, i, p)
  BY <1>0, <1>1 DEF ItemOf, Lists
<1> HIDE DEF n
<1>6. n = client'[c]
  BY <1>3, BecomeOthers
<1>7. \A q \in Paths : /\ known'[q] = IF q = p THEN item ELSE known[q]
                       /\ q # p => overlay'[q] = overlay[q]
                       /\ overlay'[q] \in {None, overlay[q]}
                       /\ r.kids[q] # None /\ q = p => overlay'[q] = None
  BY <1>1, <1>3 DEF TypeInv, StoreType
<1>8. p \notin crossed =>
         /\ overlay'[p] = None
         /\ overlay[p] # None =>
               overlay[p].st = "uploaded" /\ SizeOf[item.content] = SizeOf[overlay[p].content]
  <2>1. p \notin crossed /\ r.kids[p] = None => overlay[p] = None
    BY <1>1 DEF Sound, Bookkept, CopyFits, ItemsPoints
  <2>2. p \notin crossed /\ r.kids[p] # None =>
           overlay[p].st = r.kids[p].st /\ overlay[p].content = r.kids[p].content
    BY <1>1 DEF Sound, Bookkept, CopyFits, ItemsPoints
  <2> QED BY <1>1, <1>4, <1>5, <1>7, <2>1, <2>2 DEF CaughtUp
<1>9. SnapGoesOn(r, n) /\ r.pc \notin BusyPoints /\ n.pc \notin BusyPoints /\ n.pc # "upload"
  BY <1>1, <1>2 DEF SnapGoesOn, LookPoints, LookupPoints, ItemsPoints, BusyPoints
<1>10. Bookkept(client[c], h)'
  <2>1. Genuine(listed)' /\ Genuine(client[c].snap)' /\ Lags(client[c], h)'
    BY <1>1, <1>2, <1>3, <1>6 DEF Sound, Bookkept, Genuine, Lags, Now, LookPoints, ItemsPoints
  <2>2. LooksUp(client[c])'
    BY <1>2, <1>6 DEF LooksUp, LookupPoints
  <2>3. CopyFits(client[c])'
    BY <1>1, <1>2, <1>3, <1>6, <1>7, <1>8 DEF Sound, Bookkept, CopyFits, ItemsPoints
  <2>4. TasksSound' /\ GoneTrashed' /\ HiddenHomes(h)' /\ PromiseKnown'
    BY <1>3, <1>7 DEF Sound, Bookkept, TasksSound, GoneTrashed, HiddenHomes, PromiseKnown,
                      Tombstone, Like
  <2> QED BY <2>1, <2>2, <2>3, <2>4 DEF Bookkept
<1>11. ASSUME NEW m \in Ids \cup {None}, PathSound(r, p, m, h), p \notin crossed
       PROVE  PathSound(client[c], p, m, h)'
  <2>1. Reads(r, p)
    BY <1>9 DEF Reads
  <2>2. i = m /\ h[i] = p
    BY <1>1, <1>4, <1>5, <1>11, <2>1, Recognised
  <2>3. /\ Remembers(cache[p], m, promise[p])
        /\ promise[p] = None => Lacks(r, p, m, h)
        /\ promise[p] # None => Holds(r, p, m, promise[p])
        /\ \A j \in Ids \ {m} : h[j] = p => Gone(r, j, p)
    BY <1>11, <2>1, Remembered
  <2>0. promise[p] = None => Trashed(m)
    BY <1>4, <2>2, <2>3, NoneApart DEF Lacks, NoneIsNoValue
  <2>4. Trashed(m) <=> Trashed(m)'
    BY <1>3 DEF Trashed
  <2>5. promise[p] # None => Like(item, promise[p])
    BY <1>1, <1>5, <1>8, <1>11, <2>2, <2>3 DEF Holds, Like, LookPoints, ItemsPoints
  <2>6. promise[p] # None => Lists(listed, m, p) /\ Like(listed[m], promise[p])
    <3>1. CASE promise[p] # None /\ overlay[p] # None
      <4>1. listed[m] \in {r.snap[m], Now(m)} /\ remote[m].st = "live"
        BY <1>1, <2>2, <2>3, <3>1
           DEF Sound, Bookkept, Lags, Holds, LookPoints, ItemsPoints
      <4>2. CASE listed[m] = r.snap[m]
        BY <1>5, <2>2, <2>5, <3>1, <4>2 DEF Lists, Like
      <4>3. CASE listed[m] = Now(m)
        <5>1. remote[m].name = p
          BY <1>1, <1>5, <2>2 DEF Sound, Bookkept, Genuine, Lists
        <5>2. Now(m).name = p /\ Now(m).content = promise[p] /\ Now(m) \in Listed
          BY <2>3, <3>1, <4>1, <5>1, <2>2 DEF Now, Holds, TypeInv, RemoteType, Listed
        <5> QED BY <4>3, <5>2, NoneApart DEF Lists, Like, NoneIsNoValue
      <4> QED BY <4>1, <4>2, <4>3
    <3>2. CASE promise[p] # None /\ overlay[p] = None
      BY <2>3, <3>2 DEF Holds
    <3> QED BY <3>1, <3>2
  <2>7. /\ Remembers(known[p], m, promise[p])' /\ Remembers(cache[p], m, promise[p])'
        /\ Remembers(client[c].item, m, promise[p])'
    <3>1. known'[p] = item /\ cache'[p] = cache[p] /\ promise'[p] = promise[p]
          /\ client'[c].item = item
      BY <1>1, <1>2, <1>3, <1>6, <1>7
    <3>2. Remembers(item, m, promise[p])
      BY <1>5, <2>0, <2>2, <2>5 DEF Remembers
    <3>3. \A x : Remembers(x, m, promise[p]) => Remembers(x, m, promise[p])'
      BY <2>4, <3>1 DEF Remembers, Like
    <3>4. Remembers(cache[p], m, promise[p])
      BY <2>3
    <3> QED BY <3>1, <3>2, <3>3, <3>4
  <2>8. promise[p] = None => Lacks(client[c], p, m, h)'
    BY <1>3, <1>6, <1>8, <1>9, <1>11, <2>0, <2>4 DEF Lacks
  <2>9. promise[p] # None => Holds(client[c], p, m, promise[p])'
    BY <1>2, <1>3, <1>5, <1>6, <1>8, <1>9, <1>11, <2>2, <2>3, <2>5, <2>6
       DEF Holds, Lists, Like
  <2>10. \A j \in Ids \ {m} : h[j] = p => Gone(client[c], j, p)'
    BY <1>2, <1>3, <1>6, <2>3 DEF Gone, Lists
  <2>11. Truth(client[c], p)' = promise[p] /\ ~Buries(client[c], p)'
    BY <1>3, <1>6, <1>9 DEF Truth, Publishes, Buries, BusyPoints
  <2>12. Upholds(client[c], p, m, h, promise[p])'
    BY <1>3, <2>7, <2>8, <2>9 DEF Upholds
  <2> QED BY <1>2, <1>3, <1>5, <1>6, <1>8, <1>11, <2>2, <2>10, <2>11, <2>12 DEF PathSound
<1>12. ASSUME NEW q \in Paths, q # p, NEW m \in Ids \cup {None}, PathSound(r, q, m, h)
       PROVE  PathSound(client[c], q, m, h)'
  <2>1. overlay'[q] = overlay[q] /\ known'[q] = known[q] /\ cache'[q] = cache[q]
        /\ promise'[q] = promise[q]
    BY <1>3, <1>7, <1>12 DEF TypeInv, StoreType
  <2>2. \A j \in Ids : remote'[j] = remote[j] /\ (j \in hidden' <=> j \in hidden)
    BY <1>3
  <2>3. n.src # q /\ UNCHANGED listed
    BY <1>2, <1>3, <1>12
  <2> QED BY <1>6, <1>9, <1>12, <2>1, <2>2, <2>3, Aside
<1> QED BY <1>3, <1>10, <1>11, <1>12 DEF Sound

\* The entries a sweep drops are done, and what they hid is trashed.
LEMMA ListEndSound ==
  ASSUME TypeInv, TombstoneHides, NEW c \in Clients, NEW h, AtHome(h), Sound(client[c], h),
         ListEnd(c)
  PROVE  Sound(client[c], h)'
<1> DEFINE r == client[c]
<1>0. PICK done : done = Settled(r.snap)
  OBVIOUS
<1> DEFINE n == Idle
<1>1. n.pc = "idle" /\ n.item = None /\ n.src = None /\ n.snap = NoList
  BY DEF Idle, NewRequest
<1>2. /\ Become(c, n, FALSE) /\ r.pc = "items"
      /\ \A p \in Paths : /\ overlay'[p] = IF p \in done THEN None ELSE overlay[p]
                          /\ known'[p] = IF p \in done THEN None ELSE known[p]
      /\ hidden' = hidden \ {overlay[p].id : p \in done}
      /\ UNCHANGED <<cache, tasks, remote, listed, promise, crossed>>
  BY <1>0 DEF ListEnd, At, remoteVars
<1> HIDE DEF n
<1>3. n = client'[c]
  BY <1>2, BecomeOthers
<1>4. done \subseteq Paths /\ \A p \in done : Tombstone(p) /\ overlay[p].gone /\ overlay[p] # None
  BY <1>0 DEF Settled, Tombstone
<1>5. \A p \in done : h[overlay[p].id] = p
  BY <1>4 DEF AtHome
<1>6. \A p \in done \ crossed : remote[overlay[p].id].st = "trashed"
  BY <1>4 DEF Sound, Bookkept, GoneTrashed
<1>7. \A j : j \in hidden => j \in hidden' \/ (h[j] \in done /\ j = overlay[h[j]].id)
  BY <1>2, <1>5
<1>8. SnapGoesOn(r, n) /\ r.pc \notin BusyPoints /\ n.pc \notin BusyPoints /\ n.pc # "upload"
  BY <1>1, <1>2 DEF SnapGoesOn, LookPoints, LookupPoints, ItemsPoints, BusyPoints
<1>9. Bookkept(client[c], h)'
  <2>1. Genuine(listed)' /\ Genuine(client[c].snap)'
    BY <1>1, <1>2, <1>3 DEF Sound, Bookkept, Genuine, NoList
  <2>2. Lags(client[c], h)' /\ LooksUp(client[c])' /\ CopyFits(client[c])'
    BY <1>1, <1>3 DEF Lags, LooksUp, CopyFits, LookPoints, LookupPoints, ItemsPoints
  <2>3. TasksSound'
    <3> SUFFICES ASSUME NEW t \in tasks, t.path \notin crossed
                 PROVE  /\ t.id \in hidden' \/ remote[t.id].st = "trashed"
                        /\ remote[t.id].st = "live" => Like(t, remote[t.id].content)
      BY <1>2 DEF TasksSound, Like
    <3>1. h[t.id] = t.path
      BY DEF AtHome
    <3>2. /\ t.id \in hidden \/ remote[t.id].st = "trashed"
          /\ remote[t.id].st = "live" => Like(t, remote[t.id].content)
      BY DEF Sound, Bookkept, TasksSound
    <3> QED BY <1>6, <1>7, <3>1, <3>2
  <2>4. GoneTrashed' /\ HiddenHomes(h)' /\ PromiseKnown'
    BY <1>2 DEF Sound, Bookkept, GoneTrashed, HiddenHomes, PromiseKnown, Tombstone
  <2> QED BY <2>1, <2>2, <2>3, <2>4 DEF Bookkept
<1>10. ASSUME NEW q \in done \ crossed, NEW m \in Ids \cup {None}, PathSound(r, q, m, h)
       PROVE  PathSound(client[c], q, m, h)'
  <2>1. Reads(r, q) /\ q \in Paths
    BY <1>4, <1>8 DEF Reads
  <2>2. m = overlay[q].id /\ (m # None => m \in Ids /\ h[m] = q)
    BY <1>4, <1>10, <2>1, Remembered
  <2>3. overlay[q].id \in Ids
    BY <1>4, <2>1 DEF TypeInv, StoreType, Entry
  <2>4. Trashed(m) /\ Trashed(m)'
    BY <1>2, <1>6, <2>2, <2>3 DEF Trashed
  <2>5. promise[q] = None
    BY <1>4, <1>10, <2>1, Remembered DEF Holds, Tombstone, Uploaded
  <2>6. Remembers(cache[q], m, promise[q])
    BY <1>10, <2>1, Remembered
  <2>7. \A j \in Ids \ {m} : h[j] = q => Gone(r, j, q)
    BY <1>10, <2>1, Remembered
  <2>8. \A j \in Ids \ {m} : h[j] = q => Gone(client[c], j, q)'
    BY <1>1, <1>2, <1>3, <1>7, <2>2, <2>7 DEF Gone, Lists, NoList
  <2>9. /\ overlay'[q] = None /\ known'[q] = None /\ cache'[q] = cache[q]
        /\ promise'[q] = None /\ client'[c].item = None
    BY <1>1, <1>2, <1>3, <2>1, <2>5
  <2>10. Remembers(cache[q], m, promise[q])'
    BY <2>4, <2>5, <2>6, <2>9 DEF Remembers
  <2>11. Lacks(client[c], q, m, h)'
    BY <1>3, <1>8, <2>4, <2>9 DEF Lacks
  <2>12. Upholds(client[c], q, m, h, promise[q])'
    BY <2>9, <2>10, <2>11 DEF Upholds, Remembers
  <2>13. Truth(client[c], q)' = promise'[q] /\ ~Buries(client[c], q)'
    BY <1>3, <1>8 DEF Truth, Publishes, Buries, BusyPoints
  <2> QED BY <2>2, <2>8, <2>9, <2>12, <2>13 DEF PathSound
<1>11. ASSUME NEW q \in Paths \ done, NEW m \in Ids \cup {None}, PathSound(r, q, m, h)
       PROVE  PathSound(client[c], q, m, h)'
  <2>1. \A j \in Ids : h[j] = q => (j \in hidden' <=> j \in hidden)
    BY <1>2, <1>7
  <2>2. n.src # q
    BY <1>1, NoneApart DEF NoneIsNoValue
  <2>3. /\ overlay'[q] = overlay[q] /\ known'[q] = known[q]
        /\ cache'[q] = cache[q] /\ promise'[q] = promise[q] /\ UNCHANGED listed
        /\ \A j \in Ids : remote'[j] = remote[j]
    BY <1>2
  <2> QED BY <1>3, <1>8, <1>11, <2>1, <2>2, <2>3, Aside
<1> QED BY <1>2, <1>9, <1>10, <1>11 DEF Sound

(***************************************************************************)
(* upload                                                                  *)
(***************************************************************************)
\* An upload into a media i of the path, where no other media is listed.
LEMMA StoredSound ==
  ASSUME TypeInv, NEW c \in Clients, NEW h, AtHome(h), Sound(client[c], h),
         client[c].pc = "upload", NEW p \in Paths, p = client[c].src,
         NEW i \in Ids, StoreUploaded(c, i),
         NEW g, g[i] = p, h[i] \in {p, DupName}, \A j \in Ids \ {i} : g[j] = h[j],
         remote'[i].st = "live", remote'[i].content = client[c].content,
         \A j \in Ids \ {i} : remote'[j] = remote[j],
         listed[i] # None /\ listed[i].name \in Paths => remote'[i].name = listed[i].name,
         p \notin crossed =>
             /\ i \notin hidden /\ \A t \in tasks : t.id # i
             /\ \A j \in Ids \ {i} : h[j] = p =>
                   j \in hidden \/ (remote[j].st = "trashed" /\ ~Lists(listed, j, p)),
         UNCHANGED <<hidden, tasks, listed, promise, crossed>>
  PROVE  Sound(client[c], g)'
<1> DEFINE r == client[c]
           item == [id |-> i, content |-> r.content]
           n == Goto(r, "publish", item)
<1>0. PICK d : d = r.content
  OBVIOUS
<1>1. r \in Request /\ d \in Contents
  BY <1>0, Facts DEF GoodRequest, PutPoints
<1>2. /\ n.pc = "publish" /\ n.item = item /\ n.src = p /\ n.snap = NoList
      /\ n.content = d
  BY <1>0, <1>1 DEF Goto, Request
<1>3. Become(c, n, FALSE) /\ item.id = i /\ item.content = d /\ remote'[i].content = d
  BY <1>0 DEF StoreUploaded
<1>4. \A q \in Paths :
         /\ q # p => overlay'[q] = overlay[q] /\ known'[q] = known[q] /\ cache'[q] = cache[q]
         /\ q = p => /\ overlay'[q].st = "uploaded" /\ overlay'[q].id = i
                     /\ overlay'[q].content = d
                     /\ known'[q] = item /\ cache'[q] = None
  BY <1>0 DEF StoreUploaded, TypeInv, StoreType
<1> HIDE DEF n, item
<1>5. n = client'[c]
  BY <1>3, BecomeOthers
<1>6. p # DupName
  BY ConstantsAssumption
<1>7. \A q \in Paths \ {p} : \A j \in Ids :
         /\ g[j] = q <=> h[j] = q
         /\ h[j] = q => j # i /\ remote'[j] = remote[j]
  BY <1>6, ConstantsAssumption
<1>8. SnapGoesOn(r, n) /\ r.pc \notin BusyPoints
  BY <1>2 DEF SnapGoesOn, LookPoints, LookupPoints, ItemsPoints, BusyPoints
<1>9. Bookkept(client[c], g)'
  <2>1. Genuine(listed)' /\ Genuine(client[c].snap)'
    BY <1>2, <1>5 DEF Sound, Bookkept, Genuine, NoList
  <2>2. Lags(client[c], g)' /\ LooksUp(client[c])' /\ CopyFits(client[c])'
    BY <1>2, <1>5 DEF Lags, LooksUp, CopyFits, LookPoints, LookupPoints, ItemsPoints
  <2>3. TasksSound'
    <3> SUFFICES ASSUME NEW t \in tasks, t.path \notin crossed
                 PROVE  /\ t.id \in hidden \/ remote'[t.id].st = "trashed"
                        /\ remote'[t.id].st = "live" => Like(t, remote'[t.id].content)
      BY DEF TasksSound, Like
    <3>1. h[t.id] = t.path /\ t.id \in Ids /\ t.path \in Paths
      BY DEF AtHome, TypeInv, StoreType, Task
    <3>2. t.id # i
      BY <1>7, <3>1
    <3> QED BY <3>1, <3>2 DEF Sound, Bookkept, TasksSound
  <2>4. GoneTrashed'
    <3> SUFFICES ASSUME NEW q \in Paths \ crossed, Tombstone(q)', overlay'[q].gone
                 PROVE  remote'[overlay'[q].id].st = "trashed"
      BY DEF GoneTrashed
    <3>1. q # p /\ overlay'[q] = overlay[q] /\ Tombstone(q)
      BY <1>4 DEF Tombstone
    <3>2. overlay[q].id \in Ids /\ h[overlay[q].id] = q
      BY <3>1 DEF AtHome, Tombstone, TypeInv, StoreType, Entry
    <3> QED BY <1>7, <3>1, <3>2 DEF Sound, Bookkept, GoneTrashed
  <2>5. HiddenHomes(g)' /\ PromiseKnown'
    BY <1>6 DEF Sound, Bookkept, HiddenHomes, PromiseKnown, TypeInv, StoreType
  <2> QED BY <2>1, <2>2, <2>3, <2>4, <2>5 DEF Bookkept
<1>10. ASSUME p \notin crossed PROVE PathSound(client[c], p, i, g)'
  <2>1. /\ Truth(client[c], p)' = d /\ ~Buries(client[c], p)' /\ d # None
        /\ i # None
    BY <1>1, <1>2, <1>5, NoneApart DEF Truth, Publishes, Buries, NoneIsNoValue
  <2>2. \A j \in Ids \ {i} : g[j] = p => Gone(client[c], j, p)'
    <3> SUFFICES ASSUME NEW j \in Ids \ {i}, g[j] = p PROVE Gone(client[c], j, p)'
      OBVIOUS
    <3>1. h[j] = p /\ remote'[j] = remote[j] /\ client'[c].snap[j] = None
      BY <1>2, <1>5 DEF NoList
    <3> QED BY <1>10, <3>1 DEF Gone, Lists
  <2>3. Remembers(known[p], i, d)' /\ Remembers(cache[p], i, d)'
        /\ Remembers(client[c].item, i, d)'
    BY <1>2, <1>3, <1>4, <1>5, <2>1 DEF Remembers, Like
  <2>4. overlay'[p] # None
    <3>1. overlay'[p] = [st |-> "uploaded", id |-> i, content |-> d, gone |-> FALSE]
      BY <1>0 DEF StoreUploaded, TypeInv, StoreType
    <3>2. overlay'[p] \in Entry
      BY <1>1, <3>1 DEF Entry
    <3> QED BY <3>2, NoneApart DEF NoneIsNoValue
  <2>5. Holds(client[c], p, i, d)'
    BY <1>2, <1>3, <1>4, <1>5, <1>10, <2>4 DEF Holds, Uploaded
  <2>6. Upholds(client[c], p, i, g, d)'
    BY <2>1, <2>3, <2>5 DEF Upholds
  <2> QED BY <1>2, <1>3, <1>4, <1>5, <2>1, <2>2, <2>6 DEF PathSound
<1>11. ASSUME NEW q \in Paths \ {p}, NEW m \in Ids \cup {None}, PathSound(r, q, m, h)
       PROVE  PathSound(client[c], q, m, g)'
  <2>1. n.src # q
    BY <1>2
  <2>2. \A j \in Ids : g[j] = q <=> h[j] = q
    BY <1>7
  <2>3. \A j \in Ids : h[j] = q => remote'[j] = remote[j] /\ (j \in hidden' <=> j \in hidden)
    BY <1>7
  <2>4. overlay'[q] = overlay[q] /\ known'[q] = known[q] /\ cache'[q] = cache[q]
        /\ promise'[q] = promise[q]
    BY <1>4
  <2> QED BY <1>5, <1>8, <1>11, <2>1, <2>2, <2>3, <2>4, Aside
<1> QED BY <1>9, <1>10, <1>11 DEF Sound

LEMMA UploadOverSound ==
  ASSUME TypeInv, NEW c \in Clients, NEW h, AtHome(h), Sound(client[c], h), UploadOver(c)
  PROVE  Sound(client[c], h)'
<1> DEFINE r == client[c]
<1>0. PICK p, i : p = r.src /\ i = r.item.id
  OBVIOUS
<1>1. /\ r.pc = "upload" /\ p \in Paths /\ r.item # None /\ i \in Ids /\ h[i] = p
      /\ remote[i].st = "live"
  BY <1>0, Facts DEF UploadOver, At, PutPoints, Item, AtHome, HomeRequest
<1>2. /\ StoreUploaded(c, i) /\ UNCHANGED <<hidden, tasks, listed, promise, crossed>>
      /\ remote'[i].st = "live" /\ remote'[i].content = r.content /\ remote'[i].name = p
      /\ \A j \in Ids \ {i} : remote'[j] = remote[j]
  BY <1>0, <1>1 DEF UploadOver, TypeInv, RemoteType
<1>3. listed[i] # None /\ listed[i].name \in Paths => remote'[i].name = listed[i].name
  BY <1>1, <1>2, ConstantsAssumption DEF AtHome
<1>4. ASSUME p \notin crossed
      PROVE  /\ i \notin hidden /\ \A t \in tasks : t.id # i
             /\ \A j \in Ids \ {i} : h[j] = p =>
                   j \in hidden \/ (remote[j].st = "trashed" /\ ~Lists(listed, j, p))
  <2>1. PICK m \in Ids \cup {None} : PathSound(r, p, m, h)
    BY <1>1, <1>4 DEF Sound
  <2>2. Reads(r, p)
    BY <1>1 DEF Reads, BusyPoints
  <2>3. Remembers(r.item, m, promise[p])
    BY <1>0, <2>1, <2>2, Remembered
  <2>4. m = i /\ promise[p] # None
    BY <1>0, <1>1, <2>3 DEF Remembers, Trashed
  <2>5. i \notin hidden
    BY <2>1, <2>2, <2>4, Remembered DEF Holds
  <2>6. \A j \in Ids \ {i} : h[j] = p => Gone(r, j, p)
    BY <2>1, <2>2, <2>4, Remembered
  <2>7. \A t \in tasks : t.id # i
    BY <1>1, <1>4, <2>5 DEF AtHome, Sound, Bookkept, TasksSound
  <2> QED BY <2>5, <2>6, <2>7 DEF Gone
<1> QED BY <1>0, <1>1, <1>2, <1>3, <1>4, StoredSound

LEMMA UploadNewSound ==
  ASSUME TypeInv, NEW h \in [Ids -> Paths \cup {DupName}], AtHome(h), Homeless(h),
         NEW c \in Clients, Sound(client[c], h), UploadNew(c)
  PROVE  \E g \in [Ids -> Paths \cup {DupName}] :
             AtHome(g)' /\ Homeless(g)' /\ Sound(client[c], g)'
<1> DEFINE r == client[c]
<1>0. PICK p : p = r.src
  OBVIOUS
<1>1. PICK i \in Ids, name \in {DupName, p}, g \in [Ids -> Paths \cup {DupName}] :
            /\ remote[i].st = "free" /\ p \in Paths
            /\ remote' = [remote EXCEPT ![i] =
                  [st |-> "live", name |-> name, content |-> client[c].content]]
            /\ StoreUploaded(c, i)
            /\ g = [h EXCEPT ![i] = p]
            /\ AtHome(g)' /\ Homeless(g)'
  BY <1>0, UploadNewMedia
<1>2. /\ remote'[i].st = "live" /\ remote'[i].content = r.content
      /\ \A j \in Ids \ {i} : remote'[j] = remote[j]
  BY <1>1 DEF TypeInv, RemoteType
<1>3. g[i] = p /\ h[i] = DupName /\ DupName \notin Paths /\ \A j \in Ids \ {i} : g[j] = h[j]
  BY <1>1, ConstantsAssumption DEF Homeless
<1>4. listed[i] # None /\ listed[i].name \in Paths => remote'[i].name = listed[i].name
  BY <1>3 DEF AtHome
<1>5. /\ r.pc = "upload" /\ r.item = None
      /\ UNCHANGED <<hidden, tasks, listed, promise, crossed>>
  BY DEF UploadNew, At
<1>6. i \notin hidden
  BY <1>3 DEF Sound, Bookkept, HiddenHomes
<1>7. \A t \in tasks : t.id # i
  BY <1>3 DEF AtHome, TypeInv, StoreType, Task
<1>8. ASSUME p \notin crossed
      PROVE  \A j \in Ids \ {i} : h[j] = p =>
                 j \in hidden \/ (remote[j].st = "trashed" /\ ~Lists(listed, j, p))
  <2>1. PICK m \in Ids \cup {None} : PathSound(r, p, m, h)
    BY <1>1, <1>8 DEF Sound
  <2>2. Reads(r, p)
    BY <1>5 DEF Reads, BusyPoints
  <2>3. promise[p] = None
    BY <1>0, <1>5, <2>1, <2>2, Remembered DEF Holds
  <2>4. Vacant(p, h)
    BY <1>0, <1>5, <2>1, <2>2, <2>3, Remembered DEF Lacks
  <2> QED BY <2>4 DEF Vacant
<1>9. p \notin crossed =>
         /\ i \notin hidden /\ \A t \in tasks : t.id # i
         /\ \A j \in Ids \ {i} : h[j] = p =>
               j \in hidden \/ (remote[j].st = "trashed" /\ ~Lists(listed, j, p))
  BY <1>6, <1>7, <1>8
<1>10. /\ StoreUploaded(c, i) /\ p \in Paths /\ g[i] = p /\ h[i] \in {p, DupName}
       /\ \A j \in Ids \ {i} : g[j] = h[j]
  BY <1>1, <1>3
<1>11. Sound(client[c], g)'
  <2> HIDE DEF r
  <2> QED BY <1>0, <1>2, <1>4, <1>5, <1>9, <1>10, StoredSound DEF r
<1> QED BY <1>1, <1>11

LEMMA PublishSound ==
  ASSUME TypeInv, NEW c \in Clients, NEW h, AtHome(h), Sound(client[c], h), Publish(c)
  PROVE  Sound(client[c], h)'
<1> DEFINE r == client[c]
           n == Idle
<1>0. PICK p, d : p = r.src /\ d = r.content
  OBVIOUS
<1>1. /\ r.pc = "publish" /\ p \in Paths /\ d \in Contents
  BY <1>0, Facts DEF Publish, At, PutPoints
<1>2. n.pc = "idle" /\ n.item = None /\ n.src = None /\ n.snap = NoList
  BY DEF Idle, NewRequest
<1>3. /\ Become(c, n, FALSE)
      /\ \A q \in Paths : /\ cache'[q] = IF q = p THEN r.item ELSE cache[q]
                          /\ promise'[q] = IF q = p THEN d ELSE promise[q]
      /\ UNCHANGED <<overlay, known, hidden, tasks, remote, listed, crossed>>
  BY <1>0 DEF Publish, TypeInv, StoreType, GhostType, remoteVars
<1> HIDE DEF n
<1>4. n = client'[c]
  BY <1>3, BecomeOthers
<1>5. SnapGoesOn(r, n) /\ LooksUp(n) /\ CopyFits(n) /\ PromiseKnown'
  BY <1>1, <1>2, <1>3 DEF SnapGoesOn, LooksUp, CopyFits, LookPoints, LookupPoints,
                          ItemsPoints, Sound, Bookkept, PromiseKnown
<1>6. Bookkept(client[c], h)'
  BY <1>3, <1>4, <1>5, ProceedsBookkept DEF Sound
<1>7. ASSUME NEW m \in Ids \cup {None}, PathSound(r, p, m, h)
      PROVE  PathSound(client[c], p, m, h)'
  <2>1. /\ Truth(r, p) = d /\ ~Buries(r, p) /\ d # None
        /\ Truth(client[c], p)' = d /\ ~Buries(client[c], p)' /\ p # None
    BY <1>0, <1>1, <1>2, <1>3, <1>4, NoneApart DEF Truth, Publishes, Buries, NoneIsNoValue
  <2>2. Upholds(r, p, m, h, d)
    BY <1>7, <2>1 DEF PathSound
  <2>3. /\ Remembers(known[p], m, d)' /\ Remembers(cache[p], m, d)'
        /\ client'[c].src # p
    BY <1>0, <1>1, <1>2, <1>3, <1>4, <2>1, <2>2 DEF Upholds, Remembers, Like
  <2>4. Holds(client[c], p, m, d)'
    BY <1>2, <1>3, <1>4, <2>1, <2>2
       DEF Upholds, Holds, Uploaded, Lists, Like, LookPoints, LookupPoints, ItemsPoints
  <2>5. Upholds(client[c], p, m, h, d)'
    BY <2>1, <2>3, <2>4 DEF Upholds
  <2>6. \A j \in Ids \ {m} : h[j] = p => Gone(client[c], j, p)'
    BY <1>2, <1>3, <1>4, <1>7 DEF PathSound, Gone, Lists, NoList
  <2> QED BY <1>3, <1>7, <2>1, <2>3, <2>5, <2>6 DEF PathSound
<1>8. ASSUME NEW q \in Paths \ {p}, NEW m \in Ids \cup {None}, PathSound(r, q, m, h)
      PROVE  PathSound(client[c], q, m, h)'
  <2>1. n.src # q
    BY <1>2, NoneApart DEF NoneIsNoValue
  <2> QED BY <1>0, <1>3, <1>4, <1>5, <1>8, <2>1, Aside
<1> QED BY <1>3, <1>6, <1>7, <1>8 DEF Sound

(***************************************************************************)
(* delete                                                                  *)
(***************************************************************************)
\* A request that changes what its path p holds, and hides what it deletes.
LEMMA DeletesBookkept ==
  ASSUME TypeInv, NEW c \in Clients, NEW n, n = client'[c], NEW h, Bookkept(client[c], h),
         NEW p \in Paths, n.snap = NoList, n.pc \in {"tombstone", "schedule", "idle"},
         UNCHANGED <<remote, listed, crossed>>,
         \A q \in Paths \ {p} : overlay'[q] = overlay[q] /\ promise'[q] = promise[q],
         overlay'[p] = overlay[p] \/ ~Tombstone(p)' \/ ~overlay'[p].gone,
         promise'[p] \in {promise[p], None},
         hidden \subseteq hidden', \A i \in hidden' : i \in hidden \/ h[i] = p,
         \A t \in tasks' : t \in tasks \/ (t.path \notin crossed =>
             /\ t.id \in hidden'
             /\ remote[t.id].st = "live" => Like(t, remote[t.id].content))
  PROVE  Bookkept(client[c], h)'
<1>1. Genuine(listed)' /\ Genuine(client[c].snap)'
  BY DEF Bookkept, Genuine, NoList
<1>2. Lags(client[c], h)' /\ LooksUp(client[c])' /\ CopyFits(client[c])'
  BY DEF Lags, LooksUp, CopyFits, LookPoints, LookupPoints, ItemsPoints
<1>3. TasksSound'
  BY DEF Bookkept, TasksSound, Like
<1>4. GoneTrashed'
  <2> SUFFICES ASSUME NEW q \in Paths \ crossed, Tombstone(q)', overlay'[q].gone
               PROVE  remote[overlay'[q].id].st = "trashed"
    BY DEF GoneTrashed
  <2>1. overlay'[q] = overlay[q]
    OBVIOUS
  <2>2. Tombstone(q)
    BY <2>1 DEF Tombstone
  <2> QED BY <2>1, <2>2 DEF Bookkept, GoneTrashed
<1>5. HiddenHomes(h)' /\ PromiseKnown'
  BY ConstantsAssumption DEF Bookkept, HiddenHomes, PromiseKnown
<1> QED BY <1>1, <1>2, <1>3, <1>4, <1>5 DEF Bookkept

LEMMA DeletesSound ==
  ASSUME TypeInv, NEW c \in Clients, NEW n, n = client'[c], NEW h, AtHome(h),
         Sound(client[c], h), NEW p \in Paths, p = client[c].src, n.src \in {p, None},
         n.snap = NoList, n.pc \in {"tombstone", "schedule", "idle"},
         UNCHANGED <<remote, listed, crossed>>,
         \A q \in Paths \ {p} :
             /\ overlay'[q] = overlay[q] /\ promise'[q] = promise[q]
             /\ known'[q] = known[q] /\ cache'[q] = cache[q],
         overlay'[p] = overlay[p] \/ ~Tombstone(p)' \/ ~overlay'[p].gone,
         promise'[p] \in {promise[p], None},
         hidden \subseteq hidden', \A i \in hidden' : i \in hidden \/ h[i] = p,
         \A t \in tasks' : t \in tasks \/ (t.path \notin crossed =>
             /\ t.id \in hidden'
             /\ remote[t.id].st = "live" => Like(t, remote[t.id].content)),
         p \notin crossed => \E m \in Ids \cup {None} : PathSound(client[c], p, m, h)'
  PROVE  Sound(client[c], h)'
<1>1. Bookkept(client[c], h)'
  BY DeletesBookkept DEF Sound
<1>2. SnapGoesOn(client[c], n)
  BY DEF SnapGoesOn, LookPoints, LookupPoints, ItemsPoints
<1>3. ASSUME NEW q \in Paths \ {p}, NEW m \in Ids \cup {None}, PathSound(client[c], q, m, h)
      PROVE  PathSound(client[c], q, m, h)'
  <2>1. n.src # q
    BY NoneApart DEF NoneIsNoValue
  <2>2. \A j \in Ids : h[j] = q => remote'[j] = remote[j] /\ (j \in hidden' <=> j \in hidden)
    OBVIOUS
  <2> QED BY <1>2, <1>3, <2>1, <2>2, Aside
<1> QED BY <1>1, <1>3 DEF Sound

LEMMA DeleteRecentSound ==
  ASSUME TypeInv, NEW c \in Clients, NEW h, AtHome(h), Sound(client[c], h), DeleteRecent(c)
  PROVE  Sound(client[c], h)'
<1> DEFINE r == client[c]
<1>0. PICK p, e : p = r.src /\ e = overlay[p]
  OBVIOUS
<1>1. /\ r \in Request /\ p \in Paths /\ r.pc = "delete" /\ DeletePath(r) = p
      /\ Uploaded(p) /\ e # None /\ e \in Entry
  BY <1>0, Facts, Unmoved
     DEF GoodRequest, DeleteRecent, At, DeletePoints, Uploaded, TypeInv, StoreType
<1> DEFINE n == Goto(r, "tombstone", EntryItem(e))
<1>2. /\ n.pc = "tombstone" /\ n.src = p /\ n.snap = NoList
      /\ n.item.id = e.id /\ n.item.content = e.content
  BY <1>0, <1>1 DEF Goto, EntryItem, Request
<1>3. /\ Become(c, n, FALSE)
      /\ \A q \in Paths : q # p => overlay'[q] = overlay[q] /\ known'[q] = known[q]
                                   /\ cache'[q] = cache[q]
      /\ overlay'[p] = None /\ known'[p] = None /\ cache'[p] = None
      /\ UNCHANGED <<hidden, tasks, remote, listed, promise, crossed>>
  BY <1>0, <1>1 DEF DeleteRecent, TypeInv, StoreType, remoteVars
<1> HIDE DEF n
<1>4. n = client'[c]
  BY <1>3, BecomeOthers
<1>5. ASSUME p \notin crossed
      PROVE  \E m \in Ids \cup {None} : PathSound(client[c], p, m, h)'
  <2>1. PICK m \in Ids \cup {None} : PathSound(r, p, m, h)
    BY <1>1, <1>5 DEF Sound
  <2>2. Reads(r, p)
    BY <1>1 DEF Reads, BusyPoints
  <2>3. promise[p] # None
    BY <1>1, <2>1, <2>2, Remembered DEF Lacks, Uploaded, Tombstone
  <2>4. /\ m = e.id /\ remote[m].st = "live" /\ SizeOf[e.content] = SizeOf[remote[m].content]
        /\ m # None
    BY <1>0, <1>1, <2>1, <2>2, <2>3, Remembered, NoneApart DEF Holds, NoneIsNoValue
  <2>5. m \in Ids /\ h[m] = p /\ \A j \in Ids \ {m} : h[j] = p => Gone(r, j, p)
    BY <2>1, <2>2, <2>4, Remembered
  <2>6. \A j \in Ids \ {m} : h[j] = p => Gone(client[c], j, p)'
    BY <1>2, <1>3, <1>4, <2>5 DEF Gone, Lists, NoList
  <2>7. Buries(client[c], p)' /\ Interred(client[c], p, m)'
    BY <1>2, <1>3, <1>4, <2>4 DEF Buries, Interred, Like
  <2>8. PathSound(client[c], p, m, h)'
    BY <1>2, <1>3, <1>4, <2>4, <2>5, <2>6, <2>7 DEF PathSound
  <2> QED BY <2>5, <2>8
<1>6. ~Tombstone(p)'
  BY <1>3 DEF Tombstone
<1> QED BY <1>0, <1>1, <1>2, <1>3, <1>4, <1>5, <1>6, DeletesSound

\* What a delete reads of the item it is about to delete.
LEMMA ToDelete ==
  ASSUME TypeInv, NEW c \in Clients, NEW h, AtHome(h), Sound(client[c], h),
         client[c].pc \in {"del_item", "tombstone", "schedule"}, client[c].item # None
  PROVE  LET r == client[c]  p == r.src IN
         /\ r \in Request /\ p \in Paths /\ r.item \in Item /\ h[r.item.id] = p
         /\ DeletePath(r) = p
         /\ p \notin crossed => \E m \in Ids :
               /\ PathSound(r, p, m, h) /\ r.item.id = m
               /\ remote[m].st = "live" => Like(r.item, remote[m].content)
<1> DEFINE r == client[c]
<1>1. /\ r \in Request /\ r.src \in Paths /\ r.item \in Item /\ h[r.item.id] = r.src
      /\ DeletePath(r) = r.src
  BY Facts, Unmoved DEF GoodRequest, DeletePoints, AtHome, HomeRequest
<1>2. ASSUME r.src \notin crossed
      PROVE  \E m \in Ids :
               /\ PathSound(r, r.src, m, h) /\ r.item.id = m
               /\ remote[m].st = "live" => Like(r.item, remote[m].content)
  <2>1. PICK m \in Ids \cup {None} : PathSound(r, r.src, m, h)
    BY <1>1, <1>2 DEF Sound
  <2>2. r.item.id = m /\ m \in Ids /\ m # None
    BY <1>1, <2>1, NoneApart DEF PathSound, Item, NoneIsNoValue
  <2>3. CASE r.pc = "del_item"
    <3>1. Reads(r, r.src)
      BY <2>3 DEF Reads, BusyPoints
    <3>2. Remembers(r.item, m, promise[r.src])
      BY <2>1, <3>1, Remembered
    <3>3. promise[r.src] # None => remote[m].content = promise[r.src]
      BY <2>1, <3>1, Remembered DEF Holds
    <3> QED BY <2>1, <2>2, <3>2, <3>3 DEF Remembers, Trashed
  <2>4. CASE r.pc \in {"tombstone", "schedule"}
    BY <2>1, <2>2, <2>4 DEF PathSound, Buries, Interred
  <2> QED BY <2>3, <2>4
<1> QED BY <1>1, <1>2

LEMMA DeleteItemSound ==
  ASSUME TypeInv, NEW c \in Clients, NEW h, AtHome(h), Sound(client[c], h), DeleteItem(c)
  PROVE  Sound(client[c], h)'
<1> DEFINE r == client[c]
<1>0. PICK p, x : p = r.src /\ x = r.item
  OBVIOUS
<1>1. /\ r \in Request /\ p \in Paths /\ r.pc = "del_item" /\ DeletePath(r) = p
      /\ x # None /\ x \in Item /\ h[x.id] = p
  BY <1>0, ToDelete DEF DeleteItem, At
<1> DEFINE n == Goto(r, "schedule", x)
<1>2. n.pc = "schedule" /\ n.src = p /\ n.snap = NoList /\ n.item = x
  BY <1>0, <1>1 DEF Goto, Request
<1>3. /\ Become(c, n, FALSE)
      /\ \A q \in Paths : q # p => overlay'[q] = overlay[q] /\ known'[q] = known[q]
                                   /\ cache'[q] = cache[q]
      /\ overlay'[p] = [st |-> "pending_delete", id |-> x.id, content |-> x.content, gone |-> FALSE]
      /\ known'[p] = None /\ cache'[p] = None /\ hidden' = hidden \cup {x.id}
      /\ UNCHANGED <<tasks, remote, listed, promise, crossed>>
  BY <1>0, <1>1 DEF DeleteItem, StoreTombstone, TypeInv, StoreType, remoteVars
<1>4. Tombstone(p)' /\ overlay'[p].id = x.id /\ ~overlay'[p].gone
  <2>1. overlay'[p] \in Entry
    BY <1>1, <1>3 DEF Entry, Item
  <2>2. overlay'[p] # None
    BY <2>1, NoneApart DEF NoneIsNoValue
  <2>3. overlay'[p].st = "pending_delete" /\ overlay'[p].id = x.id /\ overlay'[p].gone = FALSE
    BY <1>3
  <2> QED BY <2>2, <2>3 DEF Tombstone
<1> HIDE DEF n
<1>5. n = client'[c]
  BY <1>3, BecomeOthers
<1>6. ASSUME p \notin crossed
      PROVE  \E m \in Ids \cup {None} : PathSound(client[c], p, m, h)'
  <2>1. PICK m \in Ids : /\ PathSound(r, p, m, h) /\ x.id = m
                         /\ remote[m].st = "live" => Like(x, remote[m].content)
    BY <1>0, <1>1, <1>6, ToDelete
  <2>2. h[m] = p /\ \A j \in Ids \ {m} : h[j] = p => Gone(r, j, p)
    BY <1>1, <2>1 DEF PathSound
  <2>3. \A j \in Ids \ {m} : h[j] = p => Gone(client[c], j, p)'
    BY <1>2, <1>3, <1>5, <2>2 DEF Gone, Lists, NoList
  <2>4. Buries(client[c], p)' /\ Interred(client[c], p, m)'
    BY <1>2, <1>3, <1>4, <1>5, <2>1 DEF Buries, Interred, Like
  <2>5. PathSound(client[c], p, m, h)'
    BY <1>2, <1>3, <1>4, <1>5, <2>1, <2>2, <2>3, <2>4 DEF PathSound
  <2> QED BY <2>5
<1> QED BY <1>0, <1>1, <1>2, <1>3, <1>4, <1>5, <1>6, DeletesSound

\* The answer of a delete whose tombstone is there.
LEMMA DeletedSound ==
  ASSUME TypeInv, NEW c \in Clients, NEW h, AtHome(h), Sound(client[c], h),
         client[c].pc \in {"tombstone", "schedule"}, client[c].item # None,
         NEW p \in Paths, p = client[c].src, NEW x, x = client[c].item,
         Deleted(c), tasks' = tasks \cup {Trash(client[c])},
         UNCHANGED <<cache, remote, listed, crossed>>,
         \A q \in Paths \ {p} : overlay'[q] = overlay[q] /\ known'[q] = known[q],
         hidden \subseteq hidden', hidden' \subseteq hidden \cup {x.id},
         x.id \in hidden' \/ p \in crossed,
         known'[p] = IF client[c].pc = "tombstone" THEN None ELSE known[p],
         overlay'[p] = overlay[p] \/ (overlay'[p].id = x.id /\ ~overlay'[p].gone),
         Tombstone(p)' \/ p \in crossed
  PROVE  Sound(client[c], h)'
<1> DEFINE r == client[c]
           n == Idle
<1>1. /\ r \in Request /\ DeletePath(r) = p /\ x \in Item /\ h[x.id] = p /\ r.kind # "MOVE"
      /\ p # None
  BY ToDelete, NoneApart DEF AtHome, HomeRequest, NoneIsNoValue
<1>2. n.pc = "idle" /\ n.item = None /\ n.src = None /\ n.snap = NoList
  BY DEF Idle, NewRequest
<1>3. /\ Become(c, n, FALSE)
      /\ \A q \in Paths : promise'[q] = IF q = p THEN None ELSE promise[q]
  BY <1>1 DEF Deleted, TypeInv, GhostType
<1>4. Trash(r).id = x.id /\ Trash(r).content = x.content /\ Trash(r).path = p
  BY <1>1 DEF Trash
<1> HIDE DEF n
<1>5. n = client'[c]
  BY <1>3, BecomeOthers
<1>6. ASSUME p \notin crossed
      PROVE  /\ remote[x.id].st = "live" => Like(Trash(r), remote[x.id].content)
             /\ \E m \in Ids \cup {None} : PathSound(client[c], p, m, h)'
  <2>1. PICK m \in Ids : /\ PathSound(r, p, m, h) /\ x.id = m
                         /\ remote[m].st = "live" => Like(x, remote[m].content)
    BY <1>1, <1>6, ToDelete
  <2>2. /\ h[m] = p /\ \A j \in Ids \ {m} : h[j] = p => Gone(r, j, p)
        /\ overlay[p] # None => overlay[p].id = m
        /\ Interred(r, p, m)
    BY <1>1, <2>1 DEF PathSound, Buries
  <2>3. \A j \in Ids \ {m} : h[j] = p => Gone(client[c], j, p)'
    BY <1>2, <1>5, <2>2 DEF Gone, Lists, NoList
  <2>4. overlay'[p] # None /\ overlay'[p].id = m
    BY <1>6, <2>1, <2>2 DEF Tombstone
  <2>5. known'[p] = None /\ cache'[p] = None /\ promise'[p] = None
    BY <1>3, <2>2 DEF Interred
  <2>6. ~Buries(client[c], p)' /\ Truth(client[c], p)' = None
    BY <1>2, <1>5, <2>5 DEF Buries, Truth, Publishes
  <2>7. Lacks(client[c], p, m, h)'
    BY <1>2, <1>5, <1>6, <2>1 DEF Lacks
  <2>8. Upholds(client[c], p, m, h, None)'
    BY <1>1, <1>2, <1>5, <2>5, <2>7 DEF Upholds, Remembers
  <2>9. PathSound(client[c], p, m, h)'
    BY <1>1, <1>2, <1>5, <2>2, <2>3, <2>4, <2>6, <2>8 DEF PathSound
  <2> QED BY <1>4, <2>1, <2>9 DEF Like
<1>7. \A t \in tasks' : t \in tasks \/ (t.path \notin crossed =>
             /\ t.id \in hidden'
             /\ remote[t.id].st = "live" => Like(t, remote[t.id].content))
  BY <1>4, <1>6
<1>8. \A q \in Paths \ {p} :
             /\ overlay'[q] = overlay[q] /\ promise'[q] = promise[q]
             /\ known'[q] = known[q] /\ cache'[q] = cache[q]
  BY <1>3
<1> QED BY <1>1, <1>2, <1>3, <1>5, <1>6, <1>7, <1>8, DeletesSound

LEMMA DeleteTombstoneSound ==
  ASSUME TypeInv, NEW c \in Clients, NEW h, AtHome(h), Sound(client[c], h), DeleteTombstone(c)
  PROVE  Sound(client[c], h)'
<1> DEFINE r == client[c]
<1>0. PICK p, x : p = r.src /\ x = r.item
  OBVIOUS
<1>1. r.pc = "tombstone" /\ x # None
  BY <1>0, Facts DEF DeleteTombstone, At, GoodRequest, ItemPoints
<1>2. r \in Request /\ p \in Paths /\ DeletePath(r) = p /\ x \in Item
  BY <1>0, <1>1, ToDelete
<1>3. /\ \A q \in Paths : q # p => overlay'[q] = overlay[q] /\ known'[q] = known[q]
      /\ overlay'[p] = [st |-> "pending_delete", id |-> x.id, content |-> x.content, gone |-> FALSE]
      /\ known'[p] = None /\ hidden' = hidden \cup {x.id}
      /\ Deleted(c) /\ tasks' = tasks \cup {Trash(r)}
      /\ UNCHANGED <<cache, remote, listed, crossed>>
  BY <1>0, <1>2 DEF DeleteTombstone, StoreTombstone, TypeInv, StoreType, remoteVars
<1>4. Tombstone(p)' /\ overlay'[p].id = x.id /\ ~overlay'[p].gone
  <2>1. overlay'[p] \in Entry
    BY <1>2, <1>3 DEF Entry, Item
  <2>2. overlay'[p] # None
    BY <2>1, NoneApart DEF NoneIsNoValue
  <2>3. overlay'[p].st = "pending_delete" /\ overlay'[p].id = x.id /\ overlay'[p].gone = FALSE
    BY <1>3
  <2> QED BY <2>2, <2>3 DEF Tombstone
<1> QED BY <1>0, <1>1, <1>2, <1>3, <1>4, DeletedSound

LEMMA DeleteScheduleSound ==
  ASSUME TypeInv, NEW c \in Clients, NEW h, AtHome(h), Sound(client[c], h), DeleteSchedule(c)
  PROVE  Sound(client[c], h)'
<1> DEFINE r == client[c]
<1>0. PICK p, x : p = r.src /\ x = r.item
  OBVIOUS
<1>1. r.pc = "schedule" /\ x # None
  BY <1>0, Facts DEF DeleteSchedule, At, GoodRequest, ItemPoints
<1>2. /\ r \in Request /\ p \in Paths /\ DeletePath(r) = p /\ x \in Item
      /\ p \notin crossed => Tombstone(p) /\ x.id \in hidden
  BY <1>0, <1>1, ToDelete DEF PathSound, Buries, Interred
<1>3. /\ Deleted(c) /\ tasks' = tasks \cup {Trash(r)}
      /\ UNCHANGED <<overlay, known, hidden, cache, remote, listed, crossed>>
  BY DEF DeleteSchedule, remoteVars
<1>4. p \notin crossed => Tombstone(p)'
  BY <1>2, <1>3 DEF Tombstone
<1> QED BY <1>0, <1>1, <1>2, <1>3, <1>4, DeletedSound

(***************************************************************************)
(* Time, the provider and the background tasks.                            *)
(***************************************************************************)
LEMMA StaysSound ==
  ASSUME NEW c \in Clients, NEW h, Sound(client[c], h),
         UNCHANGED <<overlay, known, hidden, client, remote, listed, promise, crossed>>,
         tasks' \subseteq tasks, \A p \in Paths : cache'[p] \in {cache[p], None}
  PROVE  Sound(client[c], h)'
<1> DEFINE r == client[c]
<1>1. /\ Genuine(listed)' /\ Genuine(client[c].snap)' /\ Lags(client[c], h)'
      /\ LooksUp(client[c])' /\ CopyFits(client[c])'
  BY DEF Sound, Bookkept, Genuine, Lags, Now, LooksUp, CopyFits
<1>2. TasksSound' /\ GoneTrashed' /\ HiddenHomes(h)' /\ PromiseKnown'
  BY DEF Sound, Bookkept, TasksSound, GoneTrashed, HiddenHomes, PromiseKnown, Tombstone, Like
<1>3. Bookkept(client[c], h)'
  BY <1>1, <1>2 DEF Bookkept
<1>4. ASSUME NEW p \in Paths \ crossed, NEW m \in Ids \cup {None}, PathSound(r, p, m, h)
      PROVE  PathSound(client[c], p, m, h)'
  <2>1. \A d : Remembers(cache[p], m, d) => Remembers(cache[p], m, d)'
    BY DEF Remembers, Trashed, Like
  <2>2. \A d : /\ Remembers(known[p], m, d) => Remembers(known[p], m, d)'
               /\ Remembers(r.item, m, d) => Remembers(client[c].item, m, d)'
    BY DEF Remembers, Trashed, Like
  <2>3. \A d : Holds(r, p, m, d) => Holds(client[c], p, m, d)'
    BY DEF Holds, Uploaded, Lists, Like
  <2>4. Lacks(r, p, m, h) => Lacks(client[c], p, m, h)'
    BY DEF Lacks, Tombstone, Vacant, Trashed, Lists
  <2>5. \A d : Upholds(r, p, m, h, d) => Upholds(client[c], p, m, h, d)'
    BY <2>1, <2>2, <2>3, <2>4 DEF Upholds
  <2>6. Interred(r, p, m) => Interred(client[c], p, m)'
    BY DEF Interred, Tombstone, Like
  <2>7. (Buries(client[c], p)' <=> Buries(r, p)) /\ Truth(client[c], p)' = Truth(r, p)
    BY DEF Buries, Truth, Publishes
  <2>8. \A j \in Ids : Gone(r, j, p) => Gone(client[c], j, p)'
    BY DEF Gone, Lists
  <2>9. overlay'[p] = overlay[p] /\ client'[c] = client[c]
    OBVIOUS
  <2> QED BY <1>4, <2>5, <2>6, <2>7, <2>8, <2>9 DEF PathSound
<1> QED BY <1>3, <1>4 DEF Sound

\* The listing catches up with a media.
LEMMA ShowsSound ==
  ASSUME TypeInv, NEW c \in Clients, NEW h, Sound(client[c], h), NEW i \in Ids, Shows(i)
  PROVE  Sound(client[c], h)'
<1> DEFINE r == client[c]
<1>1. /\ UNCHANGED <<overlay, known, hidden, cache, tasks, client, remote, promise, crossed>>
      /\ \A j \in Ids : listed'[j] = IF j = i THEN Now(i) ELSE listed[j]
  BY DEF Shows, Now, TypeInv, RemoteType, Listing
<1>2. /\ remote[i].st = "live" => /\ Now(i) # None /\ Now(i).name = remote[i].name
                                  /\ Now(i).content = remote[i].content
      /\ remote[i].st # "live" => Now(i) = None
  BY NoneApart DEF Now, NoneIsNoValue, TypeInv, RemoteType, Listed
<1>3. Genuine(listed)' /\ Genuine(client[c].snap)'
  BY <1>1, <1>2 DEF Sound, Bookkept, Genuine
<1>4. Lags(client[c], h)'
  <2>1. \A j \in Ids : Now(j)' = Now(j)
    BY <1>1 DEF Now
  <2> QED BY <1>1, <1>2, <2>1 DEF Sound, Bookkept, Lags
<1>5. LooksUp(client[c])' /\ CopyFits(client[c])'
  BY <1>1 DEF Sound, Bookkept, LooksUp, CopyFits
<1>6. TasksSound' /\ GoneTrashed' /\ HiddenHomes(h)' /\ PromiseKnown'
  BY <1>1 DEF Sound, Bookkept, TasksSound, GoneTrashed, HiddenHomes, PromiseKnown, Tombstone, Like
<1>7. Bookkept(client[c], h)'
  BY <1>3, <1>4, <1>5, <1>6 DEF Bookkept
<1>8. ASSUME NEW p \in Paths \ crossed, NEW m \in Ids \cup {None}, PathSound(r, p, m, h)
      PROVE  PathSound(client[c], p, m, h)'
  <2>1. \A x, d : Remembers(x, m, d) => Remembers(x, m, d)'
    BY <1>1 DEF Remembers, Trashed, Like
  <2>2. ASSUME NEW d, Holds(r, p, m, d) PROVE Holds(client[c], p, m, d)'
    <3>1. m \in Ids /\ remote[m].st = "live" /\ remote[m].content = d
      BY <2>2 DEF Holds
    <3>2. Lists(listed, m, p) => remote[m].name = p
      BY <3>1 DEF Sound, Bookkept, Genuine, Lists
    <3>3. Lists(listed, m, p) /\ Like(listed[m], d) =>
             Lists(listed', m, p) /\ Like(listed'[m], d)
      BY <1>1, <1>2, <3>1, <3>2 DEF Lists, Like
    <3> QED BY <1>1, <2>2, <3>3 DEF Holds, Uploaded, Lists, Like
  <2>3. \A j \in Ids : remote[j].st = "trashed" /\ ~Lists(listed, j, p) => ~Lists(listed', j, p)
    BY <1>1, <1>2 DEF Lists
  <2>4. Lacks(r, p, m, h) => Lacks(client[c], p, m, h)'
    BY <1>1, <2>3 DEF Lacks, Tombstone, Vacant, Trashed, Lists
  <2>5. \A d : Upholds(r, p, m, h, d) => Upholds(client[c], p, m, h, d)'
    BY <1>1, <2>1, <2>2, <2>4 DEF Upholds
  <2>6. Interred(r, p, m) => Interred(client[c], p, m)'
    BY <1>1 DEF Interred, Tombstone, Like
  <2>7. (Buries(client[c], p)' <=> Buries(r, p)) /\ Truth(client[c], p)' = Truth(r, p)
    BY <1>1 DEF Buries, Truth, Publishes
  <2>8. \A j \in Ids : Gone(r, j, p) => Gone(client[c], j, p)'
    BY <1>1, <2>3 DEF Gone, Lists
  <2> QED BY <1>1, <1>8, <2>5, <2>6, <2>7, <2>8 DEF PathSound
<1> QED BY <1>1, <1>7, <1>8 DEF Sound

\* A deferred delete is done: its media is hidden, or was trashed before.
LEMMA TrashDoneSound ==
  ASSUME TypeInv, NEW c \in Clients, NEW h, AtHome(h), Sound(client[c], h),
         NEW t \in tasks, TrashDone(t)
  PROVE  Sound(client[c], h)'
<1> DEFINE r == client[c]
<1>1. t.id \in Ids /\ t.path \in Paths /\ h[t.id] = t.path
  BY DEF AtHome, TypeInv, StoreType, Task
<1>2. /\ UNCHANGED <<known, hidden, cache, client, listed, promise>>
      /\ tasks' \subseteq tasks /\ crossed \subseteq crossed'
      /\ \A j \in Ids : /\ j # t.id => remote'[j] = remote[j]
                        /\ remote'[j].name = remote[j].name
                        /\ remote'[j].content = remote[j].content
      /\ remote'[t.id].st = "trashed"
  BY <1>1 DEF TrashDone, TypeInv, RemoteType
<1>3. \A q \in Paths : /\ q # t.path \/ ~Tombstone(q) => overlay'[q] = overlay[q]
                       /\ q = t.path /\ Tombstone(q) /\ q \notin crossed' => overlay[q].id = t.id
  BY <1>1 DEF TrashDone, TypeInv, StoreType
<1>4. Tombstone(t.path) =>
         /\ overlay'[t.path] # None /\ overlay'[t.path].st = "pending_delete"
         /\ overlay'[t.path].id = overlay[t.path].id
         /\ overlay'[t.path].content = overlay[t.path].content
  <2> SUFFICES ASSUME Tombstone(t.path)
               PROVE  /\ overlay'[t.path] # None /\ overlay'[t.path].st = "pending_delete"
                      /\ overlay'[t.path].id = overlay[t.path].id
                      /\ overlay'[t.path].content = overlay[t.path].content
    OBVIOUS
  <2>1. overlay[t.path] \in Entry /\ overlay[t.path].st = "pending_delete"
    BY <1>1 DEF Tombstone, TypeInv, StoreType
  <2>2. overlay'[t.path] = [overlay[t.path] EXCEPT !.gone = TRUE]
    BY <1>1 DEF TrashDone, TypeInv, StoreType
  <2>3. overlay'[t.path] \in Entry
    BY <2>1, <2>2 DEF Entry
  <2>4. overlay'[t.path] # None
    BY <2>3, NoneApart DEF NoneIsNoValue
  <2> QED BY <2>1, <2>2, <2>4 DEF Entry
<1>5. \A q \in Paths : /\ overlay'[q] = None <=> overlay[q] = None
                       /\ overlay[q] # None => /\ overlay'[q].st = overlay[q].st
                                               /\ overlay'[q].id = overlay[q].id
                                               /\ overlay'[q].content = overlay[q].content
  BY <1>3, <1>4 DEF Tombstone
<1>6. \A q \in Paths : (Tombstone(q)' <=> Tombstone(q)) /\ (Uploaded(q)' <=> Uploaded(q))
  BY <1>5 DEF Tombstone, Uploaded
<1>7. h[t.id] \notin crossed' => t.id \in hidden \/ remote[t.id].st = "trashed"
  BY <1>1, <1>2 DEF Sound, Bookkept, TasksSound
<1>8. Genuine(listed)' /\ Genuine(client[c].snap)'
  BY <1>2 DEF Sound, Bookkept, Genuine
<1>9. Lags(client[c], h)'
  <2>1. \A j \in Ids : remote'[j].st = "live" => remote[j].st = "live" /\ Now(j)' = Now(j)
    BY <1>2 DEF Now
  <2>2. \A j \in Ids : /\ remote'[j].st = "trashed" /\ j \notin hidden /\ h[j] \notin crossed' =>
                              remote[j].st = "trashed" /\ h[j] \notin crossed
    BY <1>2, <1>7
  <2> QED BY <1>2, <2>1, <2>2 DEF Sound, Bookkept, Lags
<1>10. LooksUp(client[c])'
  <2>1. r.pc \in LookupPoints => r.src \in Paths
    BY Facts DEF LookupPoints, GoodRequest, Fits, StatPoints, PutPoints, DeletePoints
  <2> QED BY <1>2, <1>5, <2>1 DEF Sound, Bookkept, LooksUp
<1>11. CopyFits(client[c])'
  BY <1>2, <1>5 DEF Sound, Bookkept, CopyFits
<1>12. TasksSound'
  <2> SUFFICES ASSUME NEW x \in tasks', x.path \notin crossed'
               PROVE  /\ x.id \in hidden \/ remote'[x.id].st = "trashed"
                      /\ remote'[x.id].st = "live" => Like(x, remote'[x.id].content)
    BY <1>2 DEF TasksSound, Like
  <2>1. x \in tasks /\ x.path \notin crossed /\ x.id \in Ids
    BY <1>2 DEF TypeInv, StoreType, Task
  <2>2. /\ x.id \in hidden \/ remote[x.id].st = "trashed"
        /\ remote[x.id].st = "live" => Like(x, remote[x.id].content)
    BY <2>1 DEF Sound, Bookkept, TasksSound
  <2>3. CASE x.id = t.id
    BY <1>2, <2>3
  <2>4. CASE x.id # t.id
    BY <1>2, <2>1, <2>2, <2>4
  <2> QED BY <2>3, <2>4
<1>13. GoneTrashed'
  <2> SUFFICES ASSUME NEW q \in Paths \ crossed', Tombstone(q), overlay'[q].gone
               PROVE  remote'[overlay'[q].id].st = "trashed"
    BY <1>6 DEF GoneTrashed
  <2>1. CASE q = t.path
    BY <1>2, <1>3, <1>5, <2>1 DEF Tombstone
  <2>2. CASE q # t.path
    <3>1. overlay'[q] = overlay[q] /\ overlay[q].id \in Ids
      BY <1>3, <2>2 DEF Tombstone, TypeInv, StoreType, Entry
    <3>2. remote[overlay[q].id].st = "trashed"
      BY <1>2, <3>1 DEF Sound, Bookkept, GoneTrashed
    <3> QED BY <1>2, <3>1, <3>2
  <2> QED BY <2>1, <2>2
<1>14. HiddenHomes(h)' /\ PromiseKnown'
  BY <1>2 DEF Sound, Bookkept, HiddenHomes, PromiseKnown
<1>15. Bookkept(client[c], h)'
  BY <1>8, <1>9, <1>10, <1>11, <1>12, <1>13, <1>14 DEF Bookkept
<1>16. ASSUME NEW p \in Paths \ crossed', NEW m \in Ids \cup {None}, PathSound(r, p, m, h)
       PROVE  PathSound(client[c], p, m, h)'
  <2>1. \A j \in Ids : remote[j].st = "trashed" => remote'[j].st = "trashed"
    BY <1>2
  <2>2. \A j \in Ids \ hidden : h[j] = p /\ remote[j].st = "live" => remote'[j] = remote[j]
    BY <1>2, <1>7
  <2>3. Trashed(m) => Trashed(m)'
    BY <2>1 DEF Trashed
  <2>4. \A x, d : Remembers(x, m, d) => Remembers(x, m, d)'
    BY <2>3 DEF Remembers, Like
  <2>5. m # None => m \in Ids /\ h[m] = p
    BY <1>16 DEF PathSound
  <2>6. ASSUME NEW d, Holds(r, p, m, d) PROVE Holds(client[c], p, m, d)'
    <3>1. m \in Ids \ hidden /\ remote[m].st = "live" /\ h[m] = p
      BY <2>5, <2>6, NoneApart DEF Holds, NoneIsNoValue
    <3>2. remote'[m] = remote[m]
      BY <2>2, <3>1
    <3> QED BY <1>2, <1>5, <1>6, <2>6, <3>2 DEF Holds, Lists, Like
  <2>7. Vacant(p, h) => Vacant(p, h)'
    BY <1>2, <2>1 DEF Vacant, Lists
  <2>8. Lacks(r, p, m, h) => Lacks(client[c], p, m, h)'
    BY <1>2, <1>5, <1>6, <2>3, <2>7 DEF Lacks
  <2>9. \A d : Upholds(r, p, m, h, d) => Upholds(client[c], p, m, h, d)'
    BY <1>2, <2>4, <2>6, <2>8 DEF Upholds
  <2>10. Interred(r, p, m) => Interred(client[c], p, m)'
    BY <1>2, <1>5, <1>6, <2>5 DEF Interred, Like
  <2>11. (Buries(client[c], p)' <=> Buries(r, p)) /\ Truth(client[c], p)' = Truth(r, p)
    BY <1>2 DEF Buries, Truth, Publishes
  <2>12. \A j \in Ids : Gone(r, j, p) => Gone(client[c], j, p)'
    BY <1>2, <2>1 DEF Gone, Lists
  <2>13. overlay'[p] # None => overlay[p] # None /\ overlay'[p].id = overlay[p].id
    BY <1>5
  <2> QED BY <1>2, <1>16, <2>9, <2>10, <2>11, <2>12, <2>13 DEF PathSound
<1> QED BY <1>2, <1>15, <1>16 DEF Sound

(***************************************************************************)
(* The invariant.                                                          *)
(***************************************************************************)
OneSeedPerPath ==
    \A i, j \in Ids : Seeds[i] = Seeds[j] /\ Seeds[i] # None => i = j

LEMMA SoundInit ==
  ASSUME NEW w \in Clients, OneSeedPerPath, Init
  PROVE  SoundAlone(w)
<1>1. PICK h \in [Ids -> Paths \cup {DupName}] :
         h = [i \in Ids |-> IF Seeds[i] = None THEN DupName ELSE Seeds[i]]
  BY ConstantsAssumption
<1>2. AtHome(h) /\ Homeless(h)
  <2>1. \A c \in Clients : HomeRequest(client[c], h)
    BY IdleHome DEF Init
  <2> QED BY <1>1, <2>1 DEF Init, AtHome, Homeless
<1> DEFINE r == client[w]
<1>3. r.pc = "idle" /\ r.item = None /\ r.src = None /\ r.snap = NoList
  BY DEF Init, Idle, NewRequest
<1>4. \A i \in Ids :
         /\ Seeds[i] = None => listed[i] = None /\ h[i] = DupName
         /\ Seeds[i] # None => /\ listed[i].name = Seeds[i] /\ listed[i].content = SeedContent
                               /\ remote[i].st = "live" /\ remote[i].name = Seeds[i]
                               /\ remote[i].content = SeedContent /\ h[i] = Seeds[i]
                               /\ listed[i] # None
  <2> SUFFICES ASSUME NEW i \in Ids, Seeds[i] # None
               PROVE  /\ listed[i].name = Seeds[i] /\ listed[i].content = SeedContent
                      /\ remote[i].st = "live" /\ remote[i].name = Seeds[i]
                      /\ remote[i].content = SeedContent /\ h[i] = Seeds[i]
                      /\ listed[i] # None
    BY <1>1 DEF Init
  <2>1. listed[i] = [name |-> Seeds[i], content |-> SeedContent]
    BY DEF Init
  <2>2. listed[i] \in Listed
    BY <2>1, ConstantsAssumption DEF Listed
  <2> QED BY <1>1, <2>1, <2>2, NoneApart DEF Init, NoneIsNoValue
<1>5. /\ hidden = {} /\ tasks = {} /\ crossed = {}
      /\ \A p \in Paths : /\ overlay[p] = None /\ known[p] = None /\ cache[p] = None
                          /\ promise[p] = IF \E i \in Ids : Seeds[i] = p
                                          THEN SeedContent ELSE None
  BY DEF Init
<1>6. Bookkept(r, h)
  <2>1. Genuine(listed) /\ Genuine(r.snap)
    BY <1>3, <1>4 DEF Genuine, NoList
  <2>2. Lags(r, h) /\ LooksUp(r) /\ CopyFits(r)
    BY <1>3 DEF Lags, LooksUp, CopyFits, LookPoints, LookupPoints, ItemsPoints
  <2>3. TasksSound /\ GoneTrashed /\ HiddenHomes(h) /\ PromiseKnown
    BY <1>5, ConstantsAssumption DEF TasksSound, GoneTrashed, HiddenHomes, PromiseKnown, Tombstone
  <2> QED BY <2>1, <2>2, <2>3 DEF Bookkept
<1>7. ASSUME NEW p \in Paths
      PROVE  \E m \in Ids \cup {None} : PathSound(r, p, m, h)
  <2>1. ~Buries(r, p) /\ Truth(r, p) = promise[p] /\ r.src # p
    BY <1>3, NoneApart DEF Buries, Truth, Publishes, NoneIsNoValue
  <2>2. p # DupName /\ p # None
    BY ConstantsAssumption, NoneApart DEF NoneIsNoValue
  <2>3. \A i \in Ids : h[i] = p <=> Seeds[i] = p
    BY <1>4, <2>2
  <2>4. CASE \E i \in Ids : Seeds[i] = p
    <3>1. PICK i \in Ids : Seeds[i] = p
      BY <2>4
    <3>2. promise[p] = SeedContent /\ SeedContent # None
      BY <1>5, <2>4, ConstantsAssumption, NoneApart DEF NoneIsNoValue
    <3>3. \A j \in Ids \ {i} : h[j] # p
      BY <2>2, <2>3, <3>1 DEF OneSeedPerPath
    <3>4. Holds(r, p, i, SeedContent)
      BY <1>3, <1>4, <1>5, <2>2, <3>1
         DEF Holds, Lists, Like, LookPoints, LookupPoints, ItemsPoints
    <3>5. Upholds(r, p, i, h, SeedContent)
      BY <1>5, <2>1, <3>2, <3>4 DEF Upholds, Remembers
    <3>6. PathSound(r, p, i, h)
      BY <1>5, <2>1, <2>3, <3>1, <3>2, <3>3, <3>5 DEF PathSound
    <3> QED BY <3>6
  <2>5. CASE ~\E i \in Ids : Seeds[i] = p
    <3>1. promise[p] = None /\ \A j \in Ids : h[j] # p
      BY <1>5, <2>3, <2>5
    <3>2. Upholds(r, p, None, h, None)
      BY <1>5, <2>1, <3>1 DEF Upholds, Remembers, Lacks
    <3>3. PathSound(r, p, None, h)
      BY <1>5, <2>1, <3>1, <3>2 DEF PathSound
    <3> QED BY <3>3
  <2> QED BY <2>4, <2>5
<1>8. Sound(r, h)
  BY <1>6, <1>7 DEF Sound
<1>9. TombstoneHides
  BY <1>5 DEF TombstoneHides, Tombstone
<1> QED BY <1>2, <1>8, <1>9 DEF SoundAlone

LEMMA ContinueSound ==
  ASSUME TypeInv, TombstoneHides, NEW c \in Clients, NEW h, AtHome(h), Sound(client[c], h),
         Continue(c), ~UploadNew(c)
  PROVE  Sound(client[c], h)'
<1>1. /\ ~MoveEntry(c) /\ ~MoveLookup(c) /\ ~MoveListed(c) /\ ~MoveRename(c)
      /\ ~MoveRefused(c) /\ ~PublishMove(c)
  BY Unmoved DEF MoveEntry, MoveLookup, MoveListed, MoveRename, MoveRefused, PublishMove,
                 At, MovePoints
<1>2. CASE \/ StatMiss(c) \/ UploadRefused(c) \/ DeleteMissing(c) \/ DeleteLookup(c)
           \/ DeleteAgain(c)
  BY <1>2, WaitsSound
<1>3. CASE StatListed(c) \/ PutListed(c) \/ DeleteListed(c)
  BY <1>3, LookupsSound
<1>4. CASE StatAnswer(c) \/ StatAbsent(c) \/ ListPut(c)
  BY <1>4, CachesSound
<1>5. CASE ListBegin(c) \/ \E i \in Ids : ListSkip(c, i)
  BY <1>5, ListsSound
<1>6. CASE ListEnd(c) \/ (\E i \in Ids : ListItem(c, i)) \/ \E p \in Paths : ListRecent(c, p)
  BY <1>6, ListEndSound, ListItemSound, ListRecentSound
<1>7. CASE UploadOver(c) \/ Publish(c)
  BY <1>7, UploadOverSound, PublishSound
<1>8. CASE DeleteRecent(c) \/ DeleteItem(c) \/ DeleteTombstone(c) \/ DeleteSchedule(c)
  BY <1>8, DeleteRecentSound, DeleteItemSound, DeleteTombstoneSound, DeleteScheduleSound
<1> QED BY <1>1, <1>2, <1>3, <1>4, <1>5, <1>6, <1>7, <1>8 DEF Continue

LEMMA TimeSound ==
  ASSUME ~Expiry, ~Restarts, TypeInv, NEW c \in Clients, NEW h, AtHome(h),
         Sound(client[c], h), Background \/ Environment \/ UNCHANGED vars
  PROVE  Sound(client[c], h)'
<1>1. ASSUME NEW t \in tasks, TrashDone(t) PROVE Sound(client[c], h)'
  BY <1>1, TrashDoneSound
<1>2. ASSUME NEW t \in tasks, RenameDone(t) PROVE FALSE
  BY <1>2 DEF RenameDone, AtHome
<1>3. ASSUME NEW t \in tasks, TaskFails(t) PROVE Sound(client[c], h)'
  BY <1>3, StaysSound DEF TaskFails, remoteVars
<1>4. ASSUME NEW i \in Ids, Validated(i) PROVE Sound(client[c], h)'
  BY <1>4, StaysSound DEF Validated
<1>5. ASSUME NEW i \in Ids, Shows(i) PROVE Sound(client[c], h)'
  BY <1>5, ShowsSound
<1>6. ASSUME NEW p \in Paths, CacheExpires(p) PROVE Sound(client[c], h)'
  <2>1. \A q \in Paths : cache'[q] \in {cache[q], None}
    BY <1>6 DEF CacheExpires, TypeInv, StoreType
  <2> QED BY <1>6, <2>1, StaysSound DEF CacheExpires, remoteVars
<1>7. CASE UNCHANGED vars
  BY <1>7, StaysSound DEF vars, remoteVars
<1> QED BY <1>1, <1>2, <1>3, <1>4, <1>5, <1>6, <1>7
        DEF Background, Environment, HiddenExpires, EntryExpires, Restart

LEMMA SoundNext ==
  ASSUME "MOVE" \notin Kinds, ~Expiry, ~Restarts, NEW w, Clients = {w},
         TypeInv, SoundAlone(w), [Next]_vars
  PROVE  SoundAlone(w)'
<1>1. PICK h \in [Ids -> Paths \cup {DupName}] :
         AtHome(h) /\ Homeless(h) /\ Sound(client[w], h)
  BY DEF SoundAlone
<1>2. TombstoneHides /\ w \in Clients
  BY DEF SoundAlone
<1>3. TombstoneHides'
  BY <1>1, <1>2, HidesNext DEF Homes
<1>4. CASE UploadNew(w)
  <2>1. \E g \in [Ids -> Paths \cup {DupName}] :
             AtHome(g)' /\ Homeless(g)' /\ Sound(client[w], g)'
    BY <1>1, <1>2, <1>4, UploadNewSound
  <2> QED BY <1>3, <2>1 DEF SoundAlone
<1>5. CASE ~UploadNew(w)
  <2>1. AtHome(h)' /\ Homeless(h)'
    BY <1>1, <1>5, HomeNext
  <2>2. Sound(client[w], h)'
    <3>1. CASE NewRequests(w)
      BY <1>1, <1>2, <3>1, NewRequestsSound
    <3>2. CASE Continue(w)
      BY <1>1, <1>2, <1>5, <3>2, ContinueSound
    <3>3. CASE Background \/ Environment \/ UNCHANGED vars
      BY <1>1, <1>2, <3>3, TimeSound
    <3> QED BY <3>1, <3>2, <3>3 DEF Next
  <2> QED BY <1>3, <2>1, <2>2 DEF SoundAlone
<1> QED BY <1>4, <1>5

(***************************************************************************)
(* What the invariant says of answers.                                     *)
(***************************************************************************)
LEMMA AnswersAre ==
  ASSUME TypeInv, NEW p \in Paths, NEW x \in Answers(p)
  PROVE  \/ Uploaded(p) /\ x = EntryItem(overlay[p])
         \/ x # None /\ x \in {cache[p], known[p]}
         \/ \E i \in ShownAt(listed, p) :
               /\ x = ItemOf(listed, i)
               /\ overlay[p] = None \/ CaughtUp(overlay[p], i, listed[i])
         \/ x = None /\ (Tombstone(p) \/ (overlay[p] = None /\ ShownAt(listed, p) = {}))
<1>1. overlay[p] = None \/ Uploaded(p) \/ Tombstone(p)
  BY DEF TypeInv, StoreType, Entry, Uploaded, Tombstone
<1>2. CASE x \in StatAnswers(p)
  <2>1. CASE Tombstone(p)
    <3>1. StatAnswers(p) = {None}
      BY <2>1 DEF StatAnswers
    <3> QED BY <1>2, <2>1, <3>1
  <2>2. CASE ~Tombstone(p) /\ Uploaded(p)
    BY <1>2, <2>2 DEF StatAnswers
  <2>3. CASE ~Tombstone(p) /\ ~Uploaded(p) /\ cache[p] # None
    BY <1>2, <2>3 DEF StatAnswers
  <2>4. CASE ~Tombstone(p) /\ ~Uploaded(p) /\ cache[p] = None /\ known[p] # None
    BY <1>2, <2>4 DEF StatAnswers
  <2>5. CASE /\ ~Tombstone(p) /\ ~Uploaded(p) /\ cache[p] = None /\ known[p] = None
             /\ ShownAt(listed, p) = {}
    BY <1>1, <1>2, <2>5 DEF StatAnswers
  <2>6. CASE /\ ~Tombstone(p) /\ ~Uploaded(p) /\ cache[p] = None /\ known[p] = None
             /\ ShownAt(listed, p) # {}
    <3>1. x \in {ItemOf(listed, i) : i \in ShownAt(listed, p)}
      BY <1>2, <2>6 DEF StatAnswers
    <3> QED BY <1>1, <2>6, <3>1
  <2> QED BY <2>1, <2>2, <2>3, <2>4, <2>5, <2>6
<1>3. CASE x \in ListAnswers(p)
  <2> DEFINE seen == {j \in ShownAt(listed, p) :
                        overlay[p] = None \/ CaughtUp(overlay[p], j, listed[j])}
             shown == {ItemOf(listed, i) : i \in seen}
  <2>1. x \in IF shown # {} THEN shown
              ELSE IF Uploaded(p) THEN {EntryItem(overlay[p])} ELSE {None}
    BY <1>3 DEF ListAnswers
  <2>2. CASE x \in shown
    BY <2>2
  <2>3. CASE shown = {}
    <3>1. overlay[p] = None => ShownAt(listed, p) = {}
      BY <2>3
    <3> HIDE DEF shown
    <3>2. CASE Uploaded(p)
      BY <2>1, <2>3, <3>2
    <3>3. CASE ~Uploaded(p)
      <4>1. x = None
        BY <2>1, <2>3, <3>3
      <4>2. Tombstone(p) \/ (overlay[p] = None /\ ShownAt(listed, p) = {})
        BY <1>1, <3>1, <3>3
      <4> QED BY <4>1, <4>2
    <3> QED BY <3>2, <3>3
  <2> HIDE DEF shown
  <2> QED BY <2>1, <2>2, <2>3
<1> QED BY <1>2, <1>3 DEF Answers

\* Where nobody writes a path that is not crossed, all that is remembered
\* there and all that is listed there is about one media.
LEMMA SettledPath ==
  ASSUME TypeInv, NEW w \in Clients, SoundAlone(w), NEW p \in Paths \ crossed, Settles(p)
  PROVE  \E m \in Ids \cup {None} :
            /\ Remembers(known[p], m, promise[p]) /\ Remembers(cache[p], m, promise[p])
            /\ promise[p] = None =>
                  /\ m # None => m \in hidden \/ Trashed(m)
                  /\ overlay[p] # None => Tombstone(p)
            /\ promise[p] # None => Holds(client[w], p, m, promise[p])
            /\ overlay[p] # None => overlay[p].id = m
            /\ \A i \in ShownAt(listed, p) : i = m
<1> DEFINE r == client[w]
<1>1. PICK h : AtHome(h) /\ Sound(r, h)
  BY DEF SoundAlone
<1>2. PICK m \in Ids \cup {None} : PathSound(r, p, m, h)
  BY <1>1 DEF Sound
<1>3. Reads(r, p)
  <2>1. SUFFICES ASSUME r.src = p, r.pc \in BusyPoints PROVE FALSE
    BY DEF Reads
  <2>2. p # None /\ r.kind \in {"PUT", "DELETE"}
    BY <1>1, <2>1, Facts, NoneApart
       DEF BusyPoints, PutPoints, DeletePoints, NoneIsNoValue, AtHome, HomeRequest
  <2>3. p \in Writes(r)
    BY <2>1, <2>2 DEF Writes
  <2> QED BY <2>3 DEF Settles, Quiet
<1>4. ASSUME NEW i \in ShownAt(listed, p) PROVE i = m
  <2>1. i \in Ids \ hidden /\ Lists(listed, i, p) /\ h[i] = p
    BY <1>1, ConstantsAssumption DEF ShownAt, Lists, AtHome
  <2> QED BY <1>2, <1>3, <2>1, Remembered DEF Gone
<1> QED BY <1>2, <1>3, <1>4, Remembered DEF Lacks

LEMMA SoundVisible ==
  ASSUME TypeInv, NEW w \in Clients, SoundAlone(w)
  PROVE  PutVisible
<1> SUFFICES ASSUME NEW p \in Paths \ crossed, Settles(p), promise[p] \in Contents,
                    NEW x \in Answers(p)
             PROVE  /\ x # None
                    /\ SizeOf[x.content] = SizeOf[promise[p]]
                    /\ remote[x.id].content = promise[p]
  BY DEF PutVisible
<1>1. promise[p] # None
  BY NoneApart DEF NoneIsNoValue
<1>2. PICK m \in Ids \cup {None} :
            /\ Remembers(known[p], m, promise[p]) /\ Remembers(cache[p], m, promise[p])
            /\ Holds(client[w], p, m, promise[p])
            /\ overlay[p] # None => overlay[p].id = m
            /\ \A i \in ShownAt(listed, p) : i = m
  BY <1>1, SettledPath
<1>3. /\ m \in Ids \ hidden /\ remote[m].content = promise[p]
      /\ overlay[p] # None => Uploaded(p) /\ overlay[p].content = promise[p]
      /\ overlay[p] = None => m \in ShownAt(listed, p) /\ Like(listed[m], promise[p])
  BY <1>2 DEF Holds, ShownAt, Lists
<1>4. CASE Uploaded(p) /\ x = EntryItem(overlay[p])
  <2>1. overlay[p] \in Entry /\ overlay[p] # None
    BY <1>4 DEF Uploaded, TypeInv, StoreType
  <2>2. x \in Item /\ x.id = overlay[p].id /\ x.content = overlay[p].content
    BY <1>4, <2>1 DEF EntryItem, Entry, Item
  <2> QED BY <1>2, <1>3, <2>1, <2>2, NoneApart DEF NoneIsNoValue
<1>5. CASE x # None /\ x \in {cache[p], known[p]}
  BY <1>1, <1>2, <1>3, <1>5 DEF Remembers, Like
<1>6. ASSUME NEW i \in ShownAt(listed, p), x = ItemOf(listed, i),
             overlay[p] = None \/ CaughtUp(overlay[p], i, listed[i])
      PROVE  /\ x # None
             /\ SizeOf[x.content] = SizeOf[promise[p]]
             /\ remote[x.id].content = promise[p]
  <2>1. i = m /\ listed[i] \in Listed
    BY <1>2, <1>3 DEF ShownAt, TypeInv, RemoteType, Listing
  <2>2. x.id = i /\ x.content = listed[i].content /\ x \in Item
    BY <1>3, <1>6, <2>1 DEF ItemOf, Item, Listed
  <2>3. SizeOf[listed[i].content] = SizeOf[promise[p]]
    BY <1>3, <1>6, <2>1 DEF CaughtUp, Like
  <2> QED BY <1>3, <2>1, <2>2, <2>3, NoneApart DEF NoneIsNoValue
<1>7. ~(x = None /\ (Tombstone(p) \/ (overlay[p] = None /\ ShownAt(listed, p) = {})))
  BY <1>3 DEF Tombstone, Uploaded
<1> QED BY <1>4, <1>5, <1>6, <1>7, AnswersAre

LEMMA SoundDeleted ==
  ASSUME TypeInv, NEW w \in Clients, SoundAlone(w)
  PROVE  DeletedNeverRevives
<1> SUFFICES ASSUME NEW p \in Paths \ crossed, Settles(p), promise[p] = None,
                    NEW x \in Answers(p), x # None
             PROVE  remote[x.id].st = "trashed"
  BY DEF DeletedNeverRevives
<1>1. PICK m \in Ids \cup {None} :
            /\ Remembers(known[p], m, None) /\ Remembers(cache[p], m, None)
            /\ m # None => m \in hidden \/ Trashed(m)
            /\ overlay[p] # None => Tombstone(p)
            /\ \A i \in ShownAt(listed, p) : i = m
  BY SettledPath
<1>2. ~Uploaded(p)
  BY <1>1 DEF Uploaded, Tombstone
<1>3. CASE x \in {cache[p], known[p]}
  BY <1>1, <1>3 DEF Remembers, Trashed
<1>4. ASSUME NEW i \in ShownAt(listed, p), x = ItemOf(listed, i)
      PROVE  remote[x.id].st = "trashed"
  <2>1. i = m /\ i \in Ids \ hidden /\ x.id = i
    BY <1>1, <1>4 DEF ShownAt, ItemOf
  <2> QED BY <1>1, <2>1, NoneApart DEF Trashed, NoneIsNoValue
<1> QED BY <1>2, <1>3, <1>4, AnswersAre

\* Only a deferred delete trashes a media.
LEMMA OnlyTasksTrash ==
  ASSUME TypeInv, [Next]_vars, NEW i \in Ids, remote[i].st = "live",
         remote'[i].st = "trashed"
  PROVE  \E t \in tasks : TrashDone(t) /\ t.id = i
<1>1. ASSUME NEW c \in Clients, NewRequests(c) PROVE FALSE
  BY <1>1 DEF NewRequests, Stat, Delete, Put, Move, List, remoteVars
<1>2. ASSUME NEW c \in Clients, Continue(c) PROVE FALSE
  <2>1. CASE UploadNew(c) \/ UploadOver(c)
    <3>1. \A j \in Ids : remote'[j] = remote[j] \/ remote'[j].st = "live"
      BY <2>1 DEF UploadNew, UploadOver, TypeInv, RemoteType
    <3> QED BY <3>1
  <2>2. CASE MoveRename(c)
    <3>1. PICK j, name : remote' = [remote EXCEPT ![j].name = name]
      BY <2>2 DEF MoveRename
    <3> QED BY <3>1 DEF TypeInv, RemoteType
  <2>3. CASE UNCHANGED remote
    BY <2>3
  <2> QED BY <1>2, <2>1, <2>2, <2>3
          DEF Continue, StatMiss, StatListed, StatAnswer, StatAbsent, PutListed,
              UploadRefused, Publish, DeleteAgain, DeleteRecent, DeleteLookup, DeleteListed,
              DeleteMissing, DeleteItem, DeleteTombstone, DeleteSchedule, MoveEntry,
              MoveLookup, MoveListed, MoveRefused, PublishMove, ListBegin, ListPut, ListEnd,
              ListSkip, ListItem, ListRecent, remoteVars
<1>3. ASSUME NEW t \in tasks, TrashDone(t) PROVE t.id = i
  <2>1. remote' = [remote EXCEPT ![t.id].st = "trashed"]
    BY <1>3 DEF TrashDone
  <2> QED BY <2>1 DEF TypeInv, RemoteType
<1>4. ASSUME NEW t \in tasks, RenameDone(t) \/ TaskFails(t) PROVE FALSE
  <2>1. CASE RenameDone(t)
    <3>1. remote' = [remote EXCEPT ![t.id].name = t.path]
      BY <2>1 DEF RenameDone
    <3> QED BY <3>1 DEF TypeInv, RemoteType
  <2>2. CASE TaskFails(t)
    BY <2>2 DEF TaskFails, remoteVars
  <2> QED BY <1>4, <2>1, <2>2
<1>5. ASSUME Environment \/ UNCHANGED vars PROVE FALSE
  BY <1>5 DEF Environment, Validated, Shows, HiddenExpires, CacheExpires, EntryExpires, Restart,
              vars, remoteVars
<1> QED BY <1>1, <1>2, <1>3, <1>4, <1>5 DEF Next, Background

SizesTell == \A d, e \in Contents : SizeOf[d] = SizeOf[e] => d = e

LEMMA SoundTrashes ==
  ASSUME SizesTell, TypeInv, NEW w \in Clients, SoundAlone(w), [Next]_vars,
         NEW i \in Ids, remote[i].st = "live", remote'[i].st = "trashed"
  PROVE  \E t \in tasks : t.kind = "trash" /\ t.id = i
                          /\ (t.content = remote[i].content \/ t.path \in crossed)
<1>1. PICK t \in tasks : TrashDone(t) /\ t.id = i
  BY OnlyTasksTrash
<1>2. t.kind = "trash" /\ t.content \in Contents /\ remote[i].content \in Contents
  BY <1>1 DEF TrashDone, TypeInv, StoreType, Task, RemoteType
<1>3. t.path \notin crossed => SizeOf[t.content] = SizeOf[remote[i].content]
  BY <1>1 DEF SoundAlone, Sound, Bookkept, TasksSound, Like
<1> QED BY <1>1, <1>2, <1>3 DEF SizesTell

(***************************************************************************)
(* One request at a time, whatever the listing lags: what was written is   *)
(* seen, in every answer of STAT and LIST, until the path is written again.*)
(***************************************************************************)
THEOREM PutsVisible ==
  ASSUME NEW w, Clients = {w}, "MOVE" \notin Kinds, ~Expiry, ~Restarts, OneSeedPerPath
  PROVE  Spec => []PutVisible
<1>1. Init => TypeInv /\ SoundAlone(w)
  BY InitType, SoundInit
<1>2. TypeInv /\ SoundAlone(w) /\ [Next]_vars => (TypeInv /\ SoundAlone(w))'
  BY NextType, SoundNext
<1>3. TypeInv /\ SoundAlone(w) => PutVisible
  BY SoundVisible
<1> QED BY <1>1, <1>2, <1>3, PTL DEF Spec

(***************************************************************************)
(* And what was deleted is not seen again, but for the ghost of a media    *)
(* that is trashed already.                                                *)
(***************************************************************************)
THEOREM DeletedFilesStayDeleted ==
  ASSUME NEW w, Clients = {w}, "MOVE" \notin Kinds, ~Expiry, ~Restarts, OneSeedPerPath
  PROVE  Spec => []DeletedNeverRevives
<1>1. Init => TypeInv /\ SoundAlone(w)
  BY InitType, SoundInit
<1>2. TypeInv /\ SoundAlone(w) /\ [Next]_vars => (TypeInv /\ SoundAlone(w))'
  BY NextType, SoundNext
<1>3. TypeInv /\ SoundAlone(w) => DeletedNeverRevives
  BY SoundDeleted
<1> QED BY <1>1, <1>2, <1>3, PTL DEF Spec

(***************************************************************************)
(* What a deferred delete trashes is the content that was deleted, where   *)
(* sizes tell contents apart: the store compares nothing else.             *)
(***************************************************************************)
THEOREM TrashesOnlyTheDeleted ==
  ASSUME NEW w, Clients = {w}, "MOVE" \notin Kinds, ~Expiry, ~Restarts, OneSeedPerPath,
         SizesTell
  PROVE  Spec => TrashOnlyWhatWasDeleted
<1>1. Init => TypeInv /\ SoundAlone(w)
  BY InitType, SoundInit
<1>2. TypeInv /\ SoundAlone(w) /\ [Next]_vars => (TypeInv /\ SoundAlone(w))'
  BY NextType, SoundNext
<1>3. TypeInv /\ SoundAlone(w) /\ [Next]_vars =>
         [\A i \in Ids : remote[i].st = "live" /\ remote'[i].st = "trashed" =>
            \E t \in tasks : t.kind = "trash" /\ t.id = i
                             /\ (t.content = remote[i].content \/ t.path \in crossed)]_vars
  BY SoundTrashes
<1> QED BY <1>1, <1>2, <1>3, PTL DEF Spec, TrashOnlyWhatWasDeleted
=============================================================================
