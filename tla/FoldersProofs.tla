---------------------------- MODULE FoldersProofs ----------------------------
(***************************************************************************)
(* Folders (module Folders), for any number of clients, folders, requests, *)
(* lost answers and restarts.                                              *)
(*                                                                         *)
(* LockIsHeld is not inductive: a request that takes or leaves the lock    *)
(* must have a path, and one that comes back from a listing must not come  *)
(* back into the creation.  GoodRequest says so.  TypeOK needs to know at  *)
(* which steps a request of each kind may be (Placed).                     *)
(*                                                                         *)
(* OneFolderPerPath counts.  FolderInv follows a creation from its first   *)
(* look at the folder: until it has the lock, either there is no folder or *)
(* the store knows of it (AbsentInv), unless a MOVE or DELETE of the path  *)
(* goes on, which the creation has then met (MetInv); and whoever holds    *)
(* the lock and finds the name taken has made that folder itself, in an    *)
(* attempt whose answer was lost (BalanceInv).                             *)
(*                                                                         *)
(* AckedFileSurvives needs to know where folders come from: HomeInv gives  *)
(* every folder the path it was made for.  What a path that no MOVE has    *)
(* named leads to, in the store's memory or in a request, was made for     *)
(* that path, and so is what a request means to move or to trash.          *)
(***************************************************************************)
EXTENDS Folders, FiniteSetTheorems, TLAPS

Fields == {"kind", "pc", "next", "dir", "to", "item", "media", "snap", "tries", "met"}

\* Where a MKCOL is, it has a path; a lookup leads neither to the lock nor
\* past it.
GoodRequest(r) ==
    /\ DOMAIN r = Fields
    /\ r.pc \in {"check", "lock", "create"} \/ r.next = "check" => r.dir \in Dirs
    /\ r.next \notin {"lock", "create"}

Outside(r) == r.pc # "create"

LockInv ==
    /\ client = [c \in Clients |-> client[c]]
    /\ holder = [d \in Dirs |-> holder[d]]
    /\ \A c \in Clients : GoodRequest(client[c])
    /\ \A c \in Clients : client[c].pc = "create" => holder[client[c].dir] = c
    /\ \A d \in Dirs : holder[d] # None =>
          holder[d] \in Clients /\ client[holder[d]].pc = "create" /\ client[holder[d]].dir = d

-----------------------------------------------------------------------------
LEMMA ClientsAreSomeone == \A c \in Clients : c # None
  BY FoldersAssumption

LEMMA NewRequestIsGood ==
  ASSUME NEW k, NEW d, NEW e
  PROVE  LET r == NewRequest(k, d, e) IN
         GoodRequest(r) /\ r.pc = "idle" /\ r.next = "idle" /\ r.dir = d
  BY DEF NewRequest, GoodRequest, Fields

LEMMA IdleIsGood == GoodRequest(Idle) /\ Outside(Idle)
<1>1. GoodRequest(Idle) /\ Idle.pc = "idle"
  BY NewRequestIsGood DEF Idle
<1> QED BY <1>1 DEF Outside

LEMMA InitLock == Init => LockInv
<1> SUFFICES ASSUME Init PROVE LockInv
  OBVIOUS
<1>1. client = [c \in Clients |-> Idle] /\ holder = [d \in Dirs |-> None]
  BY DEF Init
<1>2. \A c \in Clients : client[c] = Idle
  BY <1>1
<1>3. \A d \in Dirs : holder[d] = None
  BY <1>1
<1> QED BY <1>1, <1>2, <1>3, IdleIsGood DEF LockInv, Outside

\* A lookup goes to its next step or to the listing.
LEMMA LookupIsGood ==
  ASSUME NEW r, NEW d, NEW next, GoodRequest(r),
         next \in {"check", "trash", "dest", "rename", "body", "target", "files"},
         next = "check" => r.dir \in Dirs
  PROVE  GoodRequest(Lookup(r, d, next)) /\ Outside(Lookup(r, d, next))
<1> DEFINE q == Lookup(r, d, next)
<1>1. DOMAIN q = Fields /\ q.dir = r.dir
  BY DEF Lookup, GoodRequest, Fields
<1>2. q.pc \in {next, "listed"} /\ q.next \in {next, r.next}
  BY DEF Lookup, GoodRequest, Fields
<1> HIDE DEF q
<1>3. GoodRequest(q) /\ Outside(q)
  BY <1>1, <1>2 DEF GoodRequest, Outside
<1> QED BY <1>3 DEF q

\* Steps of requests outside the creation do not disturb the locks.
LEMMA OutsideSteps ==
  ASSUME LockInv, UNCHANGED holder,
         client' = [o \in Clients |-> client'[o]],
         ASSUME NEW o \in Clients
         PROVE  /\ GoodRequest(client'[o])
                /\ \/ client'[o].pc = client[o].pc /\ client'[o].dir = client[o].dir
                   \/ Outside(client[o]) /\ Outside(client'[o])
  PROVE  LockInv'
<1>1. ASSUME NEW o \in Clients PROVE GoodRequest(client[o])'
  BY DEF GoodRequest
<1>2. ASSUME NEW o \in Clients, client'[o].pc = "create"
      PROVE  holder'[client'[o].dir] = o
  BY <1>2 DEF LockInv, Outside
<1>3. ASSUME NEW d \in Dirs, holder'[d] # None
      PROVE  /\ holder'[d] \in Clients
             /\ client'[holder'[d]].pc = "create" /\ client'[holder'[d]].dir = d
  <2>1. /\ holder[d] \in Clients
        /\ client[holder[d]].pc = "create" /\ client[holder[d]].dir = d
    BY <1>3 DEF LockInv
  <2> QED BY <2>1 DEF Outside
<1>4. holder' = [d \in Dirs |-> holder'[d]]
  BY DEF LockInv
<1> QED BY <1>1, <1>2, <1>3, <1>4 DEF LockInv

LEMMA OneOutsideStep ==
  ASSUME LockInv, NEW c \in Clients, NEW STATE q, client' = [client EXCEPT ![c] = q],
         UNCHANGED holder, GoodRequest(q), Outside(q), Outside(client[c])
  PROVE  LockInv'
<1>1. client' = [o \in Clients |-> IF o = c THEN q ELSE client[o]]
  BY DEF LockInv
<1>2. client' = [o \in Clients |-> client'[o]]
  BY <1>1
<1>3. ASSUME NEW o \in Clients
      PROVE  /\ GoodRequest(client'[o])
             /\ \/ client'[o].pc = client[o].pc /\ client'[o].dir = client[o].dir
                \/ Outside(client[o]) /\ Outside(client'[o])
  <2>1. client'[o] = IF o = c THEN q ELSE client[o]
    BY <1>1
  <2>2. GoodRequest(client[o])
    BY DEF LockInv
  <2> QED BY <2>1, <2>2
<1> QED BY <1>2, <1>3, OutsideSteps

\* A request arrives; those it meets remember its kind.
LEMMA ArrivalKeeps ==
  ASSUME LockInv, NEW c \in Clients, NEW STATE r, NEW STATE r2, Arrives(c, r, r2),
         GoodRequest(r2), Outside(r2)
  PROVE  LockInv'
<1> DEFINE others == {o \in Clients : Touches(client[o]) \cap Touches(r) # {}}
           q == [r2 EXCEPT !.met = {client[o2].kind : o2 \in others}]
           Meets(o) == [client[o] EXCEPT !.met = @ \cup {r.kind}]
<1>1. /\ client[c] = Idle /\ UNCHANGED holder
      /\ client' = [o \in Clients |-> IF o = c THEN q
                                      ELSE IF o \in others THEN Meets(o) ELSE client[o]]
  BY DEF Arrives
<1>2. GoodRequest(q) /\ Outside(q)
  BY DEF GoodRequest, Outside, Fields
<1>3. ASSUME NEW o \in Clients
      PROVE  GoodRequest(Meets(o)) /\ Meets(o).pc = client[o].pc /\ Meets(o).dir = client[o].dir
  <2>1. GoodRequest(client[o])
    BY DEF LockInv
  <2> QED BY <2>1 DEF GoodRequest, Fields
<1> HIDE DEF others, q, Meets
<1>4. client' = [o \in Clients |-> client'[o]]
  BY <1>1
<1>5. ASSUME NEW o \in Clients
      PROVE  /\ GoodRequest(client'[o])
             /\ \/ client'[o].pc = client[o].pc /\ client'[o].dir = client[o].dir
                \/ Outside(client[o]) /\ Outside(client'[o])
  <2>1. client'[o] = IF o = c THEN q ELSE IF o \in others THEN Meets(o) ELSE client[o]
    BY <1>1
  <2>2. GoodRequest(client[o])
    BY DEF LockInv
  <2> QED BY <1>1, <1>2, <1>3, <2>1, <2>2, IdleIsGood
<1> QED BY <1>1, <1>4, <1>5, OutsideSteps

-----------------------------------------------------------------------------
(* The actions.                                                            *)

\* An answer ends a request that is not creating.
LEMMA AnswerKeeps ==
  ASSUME LockInv, NEW c \in Clients, Answer(c), Outside(client[c])
  PROVE  LockInv'
<1>1. client' = [client EXCEPT ![c] = Idle] /\ UNCHANGED holder
  BY DEF Answer, Become
<1> QED BY <1>1, IdleIsGood, OneOutsideStep

LEMMA MkcolKeeps ==
  ASSUME LockInv, NEW c \in Clients, NEW d \in Dirs, Mkcol(c, d)
  PROVE  LockInv'
<1> DEFINE r == NewRequest("MKCOL", d, None)
           r2 == Lookup(r, d, "check")
<1>1. GoodRequest(r) /\ r.dir = d
  BY NewRequestIsGood
<1>2. Arrives(c, r, r2)
  BY DEF Mkcol
<1> HIDE DEF r
<1>3. GoodRequest(r2) /\ Outside(r2)
  BY <1>1, LookupIsGood
<1> HIDE DEF r2
<1> QED BY <1>2, <1>3, ArrivalKeeps

LEMMA DeleteKeeps ==
  ASSUME LockInv, NEW c \in Clients, NEW d \in Dirs, Delete(c, d)
  PROVE  LockInv'
<1> DEFINE r == NewRequest("DELETE", d, None)
           r2 == Lookup(r, d, "trash")
<1>1. GoodRequest(r) /\ r.dir = d
  BY NewRequestIsGood
<1>2. Arrives(c, r, r2)
  BY DEF Delete
<1> HIDE DEF r
<1>3. GoodRequest(r2) /\ Outside(r2)
  BY <1>1, LookupIsGood
<1> HIDE DEF r2
<1> QED BY <1>2, <1>3, ArrivalKeeps

LEMMA MoveKeeps ==
  ASSUME LockInv, NEW c \in Clients, NEW d \in Dirs, NEW e \in Dirs, Move(c, d, e)
  PROVE  LockInv'
<1> DEFINE r == NewRequest("MOVE", d, e)
           r2 == Lookup(r, e, "dest")
<1>1. GoodRequest(r) /\ r.dir = d
  BY NewRequestIsGood
<1>2. Arrives(c, r, r2)
  BY DEF Move
<1> HIDE DEF r
<1>3. GoodRequest(r2) /\ Outside(r2)
  BY <1>1, LookupIsGood
<1> HIDE DEF r2
<1> QED BY <1>2, <1>3, ArrivalKeeps

LEMMA PutKeeps ==
  ASSUME LockInv, NEW c \in Clients, NEW d \in Dirs, Put(c, d)
  PROVE  LockInv'
<1> DEFINE r == NewRequest("PUT", d, None)
           r2 == Lookup(r, d, "body")
<1>1. GoodRequest(r) /\ r.dir = d
  BY NewRequestIsGood
<1>2. Arrives(c, r, r2)
  BY DEF Put
<1> HIDE DEF r
<1>3. GoodRequest(r2) /\ Outside(r2)
  BY <1>1, LookupIsGood
<1> HIDE DEF r2
<1> QED BY <1>2, <1>3, ArrivalKeeps

LEMMA ListDirKeeps ==
  ASSUME LockInv, NEW c \in Clients, NEW d \in Dirs, ListDir(c, d)
  PROVE  LockInv'
<1> DEFINE r == NewRequest("LISTDIR", d, None)
           r2 == Lookup(r, d, "files")
<1>1. GoodRequest(r) /\ r.dir = d
  BY NewRequestIsGood
<1>2. Arrives(c, r, r2)
  BY DEF ListDir
<1> HIDE DEF r
<1>3. GoodRequest(r2) /\ Outside(r2)
  BY <1>1, LookupIsGood
<1> HIDE DEF r2
<1> QED BY <1>2, <1>3, ArrivalKeeps

LEMMA ListKeeps ==
  ASSUME LockInv, NEW c \in Clients, List(c)
  PROVE  LockInv'
<1> DEFINE r == NewRequest("LIST", None, None)
           r2 == [r EXCEPT !.pc = "listed", !.next = "shown",
                     !.snap = [i \in FolderIds |-> IF Live(i) THEN folder[i].name ELSE None]]
<1>1. GoodRequest(r)
  BY NewRequestIsGood
<1>2. Arrives(c, r, r2)
  BY DEF List
<1> HIDE DEF r
<1>3. GoodRequest(r2) /\ Outside(r2)
  BY <1>1 DEF GoodRequest, Outside, Fields
<1> HIDE DEF r2
<1> QED BY <1>2, <1>3, ArrivalKeeps

LEMMA MkcolAbsentKeeps ==
  ASSUME LockInv, NEW c \in Clients, MkcolAbsent(c)
  PROVE  LockInv'
<1> DEFINE r == client[c]
           q == [r EXCEPT !.pc = "lock"]
<1>1. client' = [client EXCEPT ![c] = q] /\ UNCHANGED holder
  BY DEF MkcolAbsent, Become
<1>2. GoodRequest(r)
  BY DEF LockInv
<1>3. r.pc = "check"
  BY DEF MkcolAbsent, At
<1>4. GoodRequest(q) /\ Outside(q)
  BY <1>2, <1>3 DEF GoodRequest, Outside, Fields
<1>5. Outside(r)
  BY <1>3 DEF Outside
<1> HIDE DEF q
<1> QED BY <1>1, <1>4, <1>5, OneOutsideStep

\* A listing arrives, and its request goes on to where it was going.
LEMMA ListedKeeps ==
  ASSUME LockInv, NEW c \in Clients, Listed(c)
  PROVE  LockInv'
<1> DEFINE r == client[c]
           shown == {i \in FolderIds : r.snap[i] = Sought(r)}
           q == [r EXCEPT !.pc = r.next, !.next = "idle", !.snap = Idle.snap,
                          !.item = IF shown = {} THEN None ELSE CHOOSE i \in shown : TRUE]
<1>1. client' = [client EXCEPT ![c] = q] /\ UNCHANGED holder /\ r.pc = "listed"
  BY DEF Listed, Become, At
<1>2. GoodRequest(r)
  BY DEF LockInv
<1>3. DOMAIN q = Fields /\ q.pc = r.next /\ q.next = "idle" /\ q.dir = r.dir
  BY <1>2 DEF GoodRequest, Fields
<1> HIDE DEF q
<1>4. GoodRequest(q) /\ Outside(q) /\ Outside(r)
  BY <1>1, <1>2, <1>3 DEF GoodRequest, Outside
<1> QED BY <1>1, <1>4, OneOutsideStep

\* Who takes the lock finds it free, and is then its only holder.
LEMMA LockKeeps ==
  ASSUME LockInv, NEW c \in Clients, Lock(c)
  PROVE  LockInv'
<1> DEFINE r == client[c]
<1>1. r.pc = "lock" /\ holder[r.dir] = None /\ GoodRequest(r) /\ r.dir \in Dirs
  BY DEF Lock, At, LockInv, GoodRequest
<1>2. CASE known[r.dir] # None
  <2>1. client' = [client EXCEPT ![c] = Idle] /\ UNCHANGED holder
    BY <1>2 DEF Lock, Become
  <2>2. Outside(client[c])
    BY <1>1 DEF Outside
  <2> QED BY <2>1, <2>2, IdleIsGood, OneOutsideStep
<1>3. CASE known[r.dir] = None
  <2> DEFINE q == [r EXCEPT !.pc = "create"]
  <2>1. client' = [client EXCEPT ![c] = q] /\ holder' = [holder EXCEPT ![r.dir] = c]
    BY <1>3 DEF Lock, Become
  <2>2. GoodRequest(q) /\ q.pc = "create" /\ q.dir = r.dir
    BY <1>1 DEF GoodRequest, Fields
  <2> HIDE DEF q
  <2>3. client' = [o \in Clients |-> IF o = c THEN q ELSE client[o]]
    BY <2>1 DEF LockInv
  <2>4. holder' = [d \in Dirs |-> IF d = r.dir THEN c ELSE holder[d]]
    BY <2>1 DEF LockInv
  <2>5. ASSUME NEW o \in Clients
        PROVE  GoodRequest(client[o])' /\ (client'[o].pc = "create" => holder'[client'[o].dir] = o)
    <3>1. CASE o = c
      <4>1. client'[o] = q /\ holder'[r.dir] = c
        BY <1>1, <2>3, <2>4, <3>1
      <4> QED BY <2>2, <3>1, <4>1 DEF GoodRequest
    <3>2. CASE o # c
      <4>1. client'[o] = client[o]
        BY <2>3, <3>2
      <4>2. GoodRequest(client[o]) /\ (client[o].pc = "create" => holder[client[o].dir] = o)
        BY DEF LockInv
      <4>3. client[o].pc = "create" => client[o].dir \in Dirs /\ client[o].dir # r.dir
        BY <1>1, <4>2, ClientsAreSomeone DEF GoodRequest
      <4> QED BY <2>4, <4>1, <4>2, <4>3 DEF GoodRequest
    <3> QED BY <3>1, <3>2
  <2>6. ASSUME NEW d \in Dirs, holder'[d] # None
        PROVE  /\ holder'[d] \in Clients
               /\ client'[holder'[d]].pc = "create" /\ client'[holder'[d]].dir = d
    <3>1. CASE d = r.dir
      BY <2>2, <2>3, <2>4, <3>1
    <3>2. CASE d # r.dir
      <4>1. holder'[d] = holder[d]
        BY <2>4, <3>2
      <4>2. holder[d] \in Clients /\ client[holder[d]].pc = "create" /\ client[holder[d]].dir = d
        BY <2>6, <4>1 DEF LockInv
      <4>3. holder[d] # c
        BY <1>1, <4>2
      <4> QED BY <2>3, <4>1, <4>2, <4>3
    <3> QED BY <3>1, <3>2
  <2>7. client' = [o \in Clients |-> client'[o]] /\ holder' = [d \in Dirs |-> holder'[d]]
    BY <2>3, <2>4
  <2> QED BY <2>5, <2>6, <2>7 DEF LockInv
<1> QED BY <1>2, <1>3

\* Who leaves the creation leaves its own lock, and no other.
LEMMA ReleaseKeeps ==
  ASSUME LockInv, NEW c \in Clients, client[c].pc = "create",
         client' = [client EXCEPT ![c] = Idle],
         holder' = [holder EXCEPT ![client[c].dir] = None]
  PROVE  LockInv'
<1> DEFINE e == client[c].dir
<1>1. e \in Dirs /\ holder[e] = c
  BY DEF LockInv, GoodRequest
<1>2. client' = [o \in Clients |-> IF o = c THEN Idle ELSE client[o]]
  BY DEF LockInv
<1>3. holder' = [d \in Dirs |-> IF d = e THEN None ELSE holder[d]]
  BY DEF LockInv
<1> HIDE DEF e
<1>4. ASSUME NEW o \in Clients
      PROVE  GoodRequest(client[o])' /\ (client'[o].pc = "create" => holder'[client'[o].dir] = o)
  <2>1. CASE o = c
    <3>1. client'[o] = Idle
      BY <1>2, <2>1
    <3> QED BY <3>1, IdleIsGood DEF GoodRequest, Outside
  <2>2. CASE o # c
    <3>1. client'[o] = client[o]
      BY <1>2, <2>2
    <3>2. GoodRequest(client[o]) /\ (client[o].pc = "create" => holder[client[o].dir] = o)
      BY DEF LockInv
    <3>3. client[o].pc = "create" => client[o].dir \in Dirs /\ client[o].dir # e
      BY <1>1, <2>2, <3>2 DEF GoodRequest
    <3> QED BY <1>3, <3>1, <3>2, <3>3 DEF GoodRequest
  <2> QED BY <2>1, <2>2
<1>5. ASSUME NEW d \in Dirs, holder'[d] # None
      PROVE  /\ holder'[d] \in Clients
             /\ client'[holder'[d]].pc = "create" /\ client'[holder'[d]].dir = d
  <2>1. d # e /\ holder'[d] = holder[d]
    BY <1>3, <1>5
  <2>2. holder[d] \in Clients /\ client[holder[d]].pc = "create" /\ client[holder[d]].dir = d
    BY <1>5, <2>1 DEF LockInv
  <2>3. holder[d] # c
    BY <2>1, <2>2 DEF e
  <2> QED BY <1>2, <2>1, <2>2, <2>3
<1>6. client' = [o \in Clients |-> client'[o]] /\ holder' = [d \in Dirs |-> holder'[d]]
  BY <1>2, <1>3
<1> QED BY <1>4, <1>5, <1>6 DEF LockInv

LEMMA CreationEndsKeeps ==
  ASSUME LockInv, NEW c \in Clients, CreateAnswered(c) \/ CreateFound(c) \/ CreateGivesUp(c)
  PROVE  LockInv'
<1>1. /\ client[c].pc = "create" /\ client' = [client EXCEPT ![c] = Idle]
      /\ holder' = [holder EXCEPT ![client[c].dir] = None]
  BY DEF CreateAnswered, CreateFound, CreateGivesUp, Created, Become, At
<1> QED BY <1>1, ReleaseKeeps

\* A failed attempt keeps the lock for the next.
LEMMA CreateFailsKeeps ==
  ASSUME LockInv, NEW c \in Clients, CreateFails(c)
  PROVE  LockInv'
<1> DEFINE q == [client[c] EXCEPT !.tries = @ + 1]
<1>1. client' = [client EXCEPT ![c] = q] /\ UNCHANGED holder
  BY DEF CreateFails, Become
<1>2. GoodRequest(client[c])
  BY DEF LockInv
<1>3. GoodRequest(q) /\ q.pc = client[c].pc /\ q.dir = client[c].dir
  BY <1>2 DEF GoodRequest, Fields
<1> HIDE DEF q
<1>4. client' = [o \in Clients |-> IF o = c THEN q ELSE client[o]]
  BY <1>1 DEF LockInv
<1>5. client' = [o \in Clients |-> client'[o]]
  BY <1>4
<1>6. ASSUME NEW o \in Clients
      PROVE  /\ GoodRequest(client'[o])
             /\ client'[o].pc = client[o].pc /\ client'[o].dir = client[o].dir
  <2>1. client'[o] = IF o = c THEN q ELSE client[o]
    BY <1>4
  <2>2. GoodRequest(client[o])
    BY DEF LockInv
  <2> QED BY <1>3, <2>1, <2>2
<1> QED BY <1>1, <1>5, <1>6, OutsideSteps

LEMMA TrashKeeps ==
  ASSUME LockInv, NEW c \in Clients, Trash(c)
  PROVE  LockInv'
<1>1. client' = [client EXCEPT ![c] = Idle] /\ UNCHANGED holder
  BY DEF Trash, Become
<1>2. Outside(client[c])
  BY DEF Trash, At, Outside
<1> QED BY <1>1, <1>2, IdleIsGood, OneOutsideStep

LEMMA RenameKeeps ==
  ASSUME LockInv, NEW c \in Clients, Rename(c)
  PROVE  LockInv'
<1>1. client' = [client EXCEPT ![c] = Idle] /\ UNCHANGED holder
  BY DEF Rename, Become
<1>2. Outside(client[c])
  BY DEF Rename, At, Outside
<1> QED BY <1>1, <1>2, IdleIsGood, OneOutsideStep

LEMMA UploadKeeps ==
  ASSUME LockInv, NEW c \in Clients, Upload(c)
  PROVE  LockInv'
<1>1. client' = [client EXCEPT ![c] = Idle] /\ UNCHANGED holder
  BY DEF Upload, Become
<1>2. Outside(client[c])
  BY DEF Upload, At, Outside
<1> QED BY <1>1, <1>2, IdleIsGood, OneOutsideStep

LEMMA FilesListedKeeps ==
  ASSUME LockInv, NEW c \in Clients, FilesListed(c)
  PROVE  LockInv'
<1>1. client' = [client EXCEPT ![c] = Idle] /\ UNCHANGED holder
  BY DEF FilesListed, Become
<1>2. Outside(client[c])
  BY DEF FilesListed, At, Outside
<1> QED BY <1>1, <1>2, IdleIsGood, OneOutsideStep

LEMMA TrashDestKeeps ==
  ASSUME LockInv, NEW c \in Clients, TrashDest(c)
  PROVE  LockInv'
<1> DEFINE r == client[c]
           q == Lookup(r, r.dir, "rename")
<1>1. client' = [client EXCEPT ![c] = q] /\ UNCHANGED holder
  BY DEF TrashDest, Become
<1>2. GoodRequest(r)
  BY DEF LockInv
<1>3. r.pc = "dest"
  BY DEF TrashDest, At
<1>4. GoodRequest(q) /\ Outside(q)
  BY <1>2, <1>3, LookupIsGood DEF GoodRequest, Outside, Fields
<1>5. Outside(r)
  BY <1>3 DEF Outside
<1> HIDE DEF q
<1> QED BY <1>1, <1>4, <1>5, OneOutsideStep

LEMMA NoDestKeeps ==
  ASSUME LockInv, NEW c \in Clients, NoDest(c)
  PROVE  LockInv'
<1> DEFINE r == client[c]
           q == Lookup(r, r.dir, "rename")
<1>1. client' = [client EXCEPT ![c] = q] /\ UNCHANGED holder
  BY DEF NoDest, Become
<1>2. GoodRequest(r)
  BY DEF LockInv
<1>3. r.pc = "dest"
  BY DEF NoDest, At
<1>4. GoodRequest(q) /\ Outside(q)
  BY <1>2, <1>3, LookupIsGood DEF GoodRequest, Outside, Fields
<1>5. Outside(r)
  BY <1>3 DEF Outside
<1> HIDE DEF q
<1> QED BY <1>1, <1>4, <1>5, OneOutsideStep

LEMMA PutBodyKeeps ==
  ASSUME LockInv, NEW c \in Clients, PutBody(c)
  PROVE  LockInv'
<1> DEFINE r == client[c]
           q == Lookup(r, r.dir, "target")
<1>1. client' = [client EXCEPT ![c] = q] /\ UNCHANGED holder
  BY DEF PutBody, Become
<1>2. GoodRequest(r)
  BY DEF LockInv
<1>3. r.pc = "body"
  BY DEF PutBody, At
<1>4. GoodRequest(q) /\ Outside(q)
  BY <1>2, <1>3, LookupIsGood DEF GoodRequest, Outside, Fields
<1>5. Outside(r)
  BY <1>3 DEF Outside
<1> HIDE DEF q
<1> QED BY <1>1, <1>4, <1>5, OneOutsideStep

LEMMA PutTargetKeeps ==
  ASSUME LockInv, NEW c \in Clients, PutTarget(c)
  PROVE  LockInv'
<1> DEFINE r == client[c]
           Q(f) == [r EXCEPT !.pc = "upload", !.media = f]
<1>1. PICK f : client' = [client EXCEPT ![c] = Q(f)]
  BY DEF PutTarget, Become
<1>2. UNCHANGED holder /\ Outside(r)
  BY DEF PutTarget, At, Outside
<1>3. GoodRequest(r)
  BY DEF LockInv
<1> DEFINE q == Q(f)
<1>4. GoodRequest(q) /\ Outside(q)
  BY <1>3 DEF GoodRequest, Outside, Fields
<1>5. client' = [client EXCEPT ![c] = q]
  BY <1>1
<1> HIDE DEF q
<1> QED BY <1>2, <1>4, <1>5, OneOutsideStep

\* What only answers.
LEMMA AnswersKeep ==
  ASSUME LockInv, NEW c \in Clients,
         MkcolExists(c) \/ Missing(c) \/ PutNowhere(c) \/ UploadRefused(c) \/ Shown(c)
  PROVE  LockInv'
<1>1. Answer(c)
  BY DEF MkcolExists, Missing, PutNowhere, UploadRefused, Shown
<1>2. Outside(client[c])
  BY DEF MkcolExists, Missing, PutNowhere, UploadRefused, Shown, At, Outside
<1> QED BY <1>1, <1>2, AnswerKeeps

\* A restart frees every lock, with the requests that held them.
LEMMA RestartKeeps ==
  ASSUME LockInv, Restart
  PROVE  LockInv'
<1>1. client' = [c \in Clients |-> Idle] /\ holder' = [d \in Dirs |-> None]
  BY DEF Restart
<1>2. \A c \in Clients : client'[c] = Idle
  BY <1>1
<1>3. ASSUME NEW c \in Clients PROVE GoodRequest(client[c])' /\ client'[c].pc # "create"
  BY <1>2, IdleIsGood DEF GoodRequest, Outside
<1>4. \A d \in Dirs : holder'[d] = None
  BY <1>1
<1>5. client' = [c \in Clients |-> client'[c]] /\ holder' = [d \in Dirs |-> holder'[d]]
  BY <1>1
<1> QED BY <1>3, <1>4, <1>5 DEF LockInv

LEMMA NoRequestKeeps ==
  ASSUME LockInv, UNCHANGED <<client, holder>>
  PROVE  LockInv'
  BY DEF LockInv, GoodRequest

LEMMA NextKeeps == LockInv /\ [Next]_vars => LockInv'
<1> SUFFICES ASSUME LockInv, [Next]_vars PROVE LockInv'
  OBVIOUS
<1>1. CASE UNCHANGED vars
  BY <1>1, NoRequestKeeps DEF vars
<1>2. CASE Restart
  BY <1>2, RestartKeeps
<1>3. ASSUME NEW d \in Dirs, Forget(d) PROVE LockInv'
  BY <1>3, NoRequestKeeps DEF Forget
<1>4. ASSUME NEW c \in Clients, NewRequests(c) PROVE LockInv'
  BY <1>4, MkcolKeeps, DeleteKeeps, MoveKeeps, PutKeeps, ListDirKeeps, ListKeeps
     DEF NewRequests
<1>5. ASSUME NEW c \in Clients, Continue(c) PROVE LockInv'
  <2>1. CASE Listed(c) \/ MkcolAbsent(c) \/ Lock(c) \/ CreateFails(c)
    BY <2>1, ListedKeeps, MkcolAbsentKeeps, LockKeeps, CreateFailsKeeps
  <2>2. CASE CreateAnswered(c) \/ CreateFound(c) \/ CreateGivesUp(c)
    BY <2>2, CreationEndsKeeps
  <2>3. CASE Trash(c) \/ TrashDest(c) \/ NoDest(c) \/ Rename(c)
    BY <2>3, TrashKeeps, TrashDestKeeps, NoDestKeeps, RenameKeeps
  <2>4. CASE PutBody(c) \/ PutTarget(c) \/ Upload(c) \/ FilesListed(c)
    BY <2>4, PutBodyKeeps, PutTargetKeeps, UploadKeeps, FilesListedKeeps
  <2>5. CASE MkcolExists(c) \/ Missing(c) \/ PutNowhere(c) \/ UploadRefused(c) \/ Shown(c)
    BY <2>5, AnswersKeep
  <2> QED BY <1>5, <2>1, <2>2, <2>3, <2>4, <2>5 DEF Continue
<1> QED BY <1>1, <1>2, <1>3, <1>4, <1>5 DEF Next

-----------------------------------------------------------------------------
\* At most one request creates the folder of a path at any time, it holds the
\* path's lock (o2/store.py:152), and a lock that is held has a
\* request that will release it, whatever fails and whoever restarts.
THEOREM CreationsExclude == Spec => []LockIsHeld
<1>1. Init => LockInv
  BY InitLock
<1>2. LockInv /\ [Next]_vars => LockInv'
  BY NextKeeps
<1>3. LockInv => LockIsHeld
  BY DEF LockInv, LockIsHeld
<1> QED BY <1>1, <1>2, <1>3, PTL DEF Spec

-----------------------------------------------------------------------------
(* The types.                                                              *)

\* The steps of each kind of request.
Belongs(pc, kind) ==
    /\ pc \in {"check", "lock", "create"} => kind = "MKCOL"
    /\ pc = "trash" => kind = "DELETE"
    /\ pc \in {"dest", "rename"} => kind = "MOVE"
    /\ pc \in {"body", "target", "upload"} => kind = "PUT"
    /\ pc = "files" => kind = "LISTDIR"

\* A request is at a step of its kind, with the paths and the item it needs.
Placed(r) ==
    /\ Belongs(r.pc, r.kind) /\ Belongs(r.next, r.kind)
    /\ r.kind \notin {"none", "LIST"} => r.dir \in Dirs
    /\ r.kind = "MOVE" => r.to \in Dirs
    /\ r.pc = "upload" => r.item \in FolderIds

TypedInv == TypeOK /\ \A c \in Clients : Placed(client[c])

\* What a request does not change from its arrival to its answer.
Same(q, r) == q.kind = r.kind /\ q.dir = r.dir /\ q.to = r.to /\ q.met = r.met
Fits(q, r) == q \in Request /\ Placed(q) /\ Same(q, r)

LEMMA IdleFits == Idle \in Request /\ Placed(Idle) /\ Idle.pc = "idle" /\ Idle.kind = "none"
<1>1. [i \in FolderIds |-> None] \in [FolderIds -> Dirs \cup {DupName, None}]
  OBVIOUS
<1>2. Attempts \in Nat
  BY FoldersAssumption
<1> QED BY <1>1, <1>2 DEF Idle, NewRequest, Request, Placed, Belongs

LEMMA SnapTyped ==
  ASSUME TypedInv
  PROVE  [i \in FolderIds |-> IF Live(i) THEN folder[i].name ELSE None]
            \in [FolderIds -> Dirs \cup {DupName, None}]
  BY DEF TypedInv, TypeOK

LEMMA NewRequestFits ==
  ASSUME NEW k \in {"MKCOL", "DELETE", "MOVE", "PUT", "LIST", "LISTDIR"},
         NEW d \in Dirs \cup {None}, NEW e \in Dirs \cup {None},
         k # "LIST" => d \in Dirs, k = "MOVE" => e \in Dirs
  PROVE  LET r == NewRequest(k, d, e) IN
         /\ r \in Request /\ Placed(r) /\ r.kind = k /\ r.dir = d /\ r.to = e
         /\ r.met = {} /\ r.item = None
<1>1. [i \in FolderIds |-> None] \in [FolderIds -> Dirs \cup {DupName, None}]
  OBVIOUS
<1>2. Attempts \in Nat
  BY FoldersAssumption
<1> QED BY <1>1, <1>2 DEF NewRequest, Request, Placed, Belongs

\* A request that goes to another step keeps to its kind.
LEMMA StepFits ==
  ASSUME NEW r, Placed(r), NEW q, q \in Request, Same(q, r),
         Belongs(q.pc, r.kind), Belongs(q.next, r.kind), q.pc # "upload"
  PROVE  Fits(q, r)
  BY DEF Fits, Placed, Same

\* What a step of a request makes of it.
Advances(c, q) == client' = [client EXCEPT ![c] = q] /\ (q = Idle \/ Fits(q, client[c]))

LEMMA ClientFits ==
  ASSUME TypedInv, NEW c \in Clients
  PROVE  /\ client[c] \in Request /\ Placed(client[c])
         /\ client[c].item \in FolderIds \cup {None} /\ client[c].media \in FileIds \cup {None}
         /\ client[c].snap \in [FolderIds -> Dirs \cup {DupName, None}]
         /\ client[c].tries \in 0..Attempts
         /\ client[c].next \in {"idle", "check", "trash", "dest", "rename", "body", "target",
                                "shown", "files"}
         /\ client[c].dir \in Dirs \cup {None} /\ client[c].to \in Dirs \cup {None}
  BY DEF TypedInv, TypeOK, Request

LEMMA LookupFits ==
  ASSUME TypedInv, NEW r \in Request, Placed(r), NEW d \in Dirs,
         NEW next \in {"check", "trash", "dest", "rename", "body", "target", "files"},
         Belongs(next, r.kind)
  PROVE  Fits(Lookup(r, d, next), r)
<1> DEFINE shown == [i \in FolderIds |-> IF Live(i) THEN folder[i].name ELSE None]
<1>1. shown \in [FolderIds -> Dirs \cup {DupName, None}]
  BY SnapTyped
<1>2. known[d] \in FolderIds \cup {None}
  BY DEF TypedInv, TypeOK
<1>3. Belongs("listed", r.kind) /\ Belongs(r.next, r.kind)
  BY DEF Placed, Belongs
<1>4. /\ r.item \in FolderIds \cup {None} /\ r.snap \in [FolderIds -> Dirs \cup {DupName, None}]
      /\ r.next \in {"idle", "check", "trash", "dest", "rename", "body", "target", "shown", "files"}
  BY DEF Request
<1>5. CASE known[d] # None
  <2> DEFINE q == [r EXCEPT !.pc = next, !.item = known[d]]
  <2>1. q \in Request
    BY ONLY <1>2, r \in Request,
            next \in {"check", "trash", "dest", "rename", "body", "target", "files"} DEF Request
  <2>2. q.pc = next /\ q.next = r.next /\ Same(q, r)
    BY DEF Request, Same
  <2>3. q = Lookup(r, d, next)
    BY <1>5 DEF Lookup
  <2> HIDE DEF q
  <2>4. Fits(q, r)
    BY <1>3, <2>1, <2>2, StepFits
  <2> QED BY <2>3, <2>4
<1>6. CASE known[d] = None
  <2> DEFINE q == [r EXCEPT !.pc = "listed", !.next = next, !.snap = shown]
  <2>1. q \in Request
    <3> HIDE DEF shown
    <3> QED BY ONLY <1>1, r \in Request,
            next \in {"check", "trash", "dest", "rename", "body", "target", "files"} DEF Request
  <2>2. q.pc = "listed" /\ q.next = next /\ Same(q, r)
    BY DEF Request, Same
  <2>3. q = Lookup(r, d, next)
    BY <1>6 DEF Lookup
  <2> HIDE DEF q
  <2>4. Fits(q, r)
    BY <1>3, <2>1, <2>2, StepFits
  <2> QED BY <2>3, <2>4
<1> QED BY <1>5, <1>6

LEMMA Resumed ==
  ASSUME NEW r \in Request, NEW pc, NEW item \in FolderIds \cup {None},
         NEW snap \in [FolderIds -> Dirs \cup {DupName, None}],
         pc \in {"idle", "check", "trash", "dest", "rename", "body", "target", "shown", "files"}
  PROVE  [r EXCEPT !.pc = pc, !.next = "idle", !.snap = snap, !.item = item] \in Request
  BY DEF Request

LEMMA ListedAdvances ==
  ASSUME TypedInv, NEW c \in Clients, Listed(c)
  PROVE  \E q : Advances(c, q)
<1> DEFINE r == client[c]
           shown == {i \in FolderIds : r.snap[i] = Sought(r)}
           item == IF shown = {} THEN None ELSE CHOOSE i \in shown : TRUE
           q == [r EXCEPT !.pc = r.next, !.next = "idle", !.snap = Idle.snap, !.item = item]
<1>0. r \in Request
  BY ClientFits
<1>1. client' = [client EXCEPT ![c] = q]
  BY DEF Listed, Become
<1>2. item \in FolderIds \cup {None}
  OBVIOUS
<1>3. Idle.snap \in [FolderIds -> Dirs \cup {DupName, None}]
  BY IdleFits DEF Request
<1>4. Belongs(r.next, r.kind) /\ Belongs("idle", r.kind)
  BY ClientFits DEF Placed, Belongs
<1> HIDE DEF item
<1>5. q \in Request
  <2>1. r.next \in {"idle", "check", "trash", "dest", "rename", "body", "target", "shown", "files"}
    BY ClientFits
  <2> QED BY ONLY <1>0, <1>2, <1>3, <2>1, Resumed
<1>6. q.pc = r.next /\ q.next = "idle" /\ Same(q, r)
  BY <1>0 DEF Request, Same
<1>7. r.next # "upload"
  BY ClientFits
<1> HIDE DEF q
<1>8. Fits(q, r)
  BY <1>4, <1>5, <1>6, <1>7, ClientFits, StepFits
<1> QED BY <1>1, <1>8 DEF Advances

LEMMA AnswerAdvances ==
  ASSUME NEW c \in Clients, client' = [client EXCEPT ![c] = Idle]
  PROVE  \E q : Advances(c, q)
  BY DEF Advances

\* MkcolAbsent and Lock go to the next step as they are.
LEMMA CreationAdvances ==
  ASSUME TypedInv, NEW c \in Clients, MkcolAbsent(c) \/ Lock(c) \/ CreateFails(c)
  PROVE  \E q : Advances(c, q)
<1> DEFINE r == client[c]
<1>1. ASSUME NEW pc \in {"lock", "create"}, r.pc \in {"check", "lock"},
             client' = [client EXCEPT ![c] = [r EXCEPT !.pc = pc]]
      PROVE  \E q : Advances(c, q)
  <2> DEFINE q == [r EXCEPT !.pc = pc]
  <2>1. Belongs(pc, r.kind) /\ Belongs(r.next, r.kind) /\ r \in Request
    BY <1>1, ClientFits DEF Placed, Belongs
  <2>2. q \in Request
    BY ONLY <2>1, pc \in {"lock", "create"} DEF Request
  <2>3. q.pc = pc /\ q.next = r.next /\ Same(q, r)
    BY <2>1 DEF Request, Same
  <2>4. client' = [client EXCEPT ![c] = q]
    BY <1>1
  <2> HIDE DEF q
  <2>5. Fits(q, r)
    BY <2>1, <2>2, <2>3, ClientFits, StepFits
  <2> QED BY <2>4, <2>5 DEF Advances
<1>2. CASE MkcolAbsent(c)
  BY <1>1, <1>2 DEF MkcolAbsent, Become, At
<1>3. CASE Lock(c)
  BY <1>1, <1>3, AnswerAdvances DEF Lock, Become, At
<1>4. CASE CreateFails(c)
  <2> DEFINE q == [r EXCEPT !.tries = @ + 1]
  <2>1. client' = [client EXCEPT ![c] = q] /\ r.tries < Attempts /\ r.tries \in 0..Attempts
    BY <1>4, ClientFits DEF CreateFails, Become
  <2>2. q \in Request
    <3>1. r.tries + 1 \in 0..Attempts
      BY <2>1, FoldersAssumption
    <3> QED BY <3>1, ClientFits DEF Request
  <2>3. q.pc = r.pc /\ q.next = r.next /\ q.item = r.item /\ Same(q, r)
    BY ClientFits DEF Request, Same
  <2> HIDE DEF q
  <2>4. Fits(q, r)
    BY <2>2, <2>3, ClientFits DEF Fits, Placed, Same
  <2> QED BY <2>1, <2>4 DEF Advances
<1> QED BY <1>2, <1>3, <1>4

LEMMA LookupAdvances ==
  ASSUME TypedInv, NEW c \in Clients, TrashDest(c) \/ NoDest(c) \/ PutBody(c)
  PROVE  \E q : Advances(c, q)
<1> DEFINE r == client[c]
<1>1. CASE TrashDest(c) \/ NoDest(c)
  <2>1. client' = [client EXCEPT ![c] = Lookup(r, r.dir, "rename")] /\ r.pc = "dest"
    BY <1>1 DEF TrashDest, NoDest, Become, At
  <2>2. r.kind = "MOVE" /\ r.dir \in Dirs /\ Belongs("rename", r.kind)
    BY <2>1, ClientFits DEF Placed, Belongs
  <2>3. Fits(Lookup(r, r.dir, "rename"), r)
    BY <2>2, ClientFits, LookupFits
  <2> QED BY <2>1, <2>3 DEF Advances
<1>2. CASE PutBody(c)
  <2>1. client' = [client EXCEPT ![c] = Lookup(r, r.dir, "target")] /\ r.pc = "body"
    BY <1>2 DEF PutBody, Become, At
  <2>2. r.kind = "PUT" /\ r.dir \in Dirs /\ Belongs("target", r.kind)
    BY <2>1, ClientFits DEF Placed, Belongs
  <2>3. Fits(Lookup(r, r.dir, "target"), r)
    BY <2>2, ClientFits, LookupFits
  <2> QED BY <2>1, <2>3 DEF Advances
<1> QED BY <1>1, <1>2

LEMMA PutTargetAdvances ==
  ASSUME TypedInv, NEW c \in Clients, PutTarget(c)
  PROVE  \E q : Advances(c, q)
<1> DEFINE r == client[c]
           Q(f) == [r EXCEPT !.pc = "upload", !.media = f]
<1>1. r.pc = "target" /\ r.item \in FolderIds /\ r.kind = "PUT" /\ r.dir \in Dirs
  BY ClientFits DEF PutTarget, At, Placed, Belongs
<1>2. child[r.dir] \in FileIds \cup {None} /\ FilesIn(r.item) \subseteq FileIds
  BY <1>1 DEF TypedInv, TypeOK, FilesIn
<1>3. PICK f \in FileIds \cup {None} : client' = [client EXCEPT ![c] = Q(f)]
  BY <1>2 DEF PutTarget, Become
<1> DEFINE q == Q(f)
<1>4. q \in Request
  <2>1. r \in Request
    BY ClientFits
  <2> QED BY ONLY <1>3, <2>1 DEF Request
<1>5. q.pc = "upload" /\ q.next = r.next /\ q.item = r.item /\ Same(q, r)
  BY ClientFits DEF Request, Same
<1>6. client' = [client EXCEPT ![c] = q]
  BY <1>3
<1> HIDE DEF q
<1>7. Fits(q, r)
  BY <1>1, <1>4, <1>5, ClientFits DEF Fits, Placed, Same, Belongs
<1> QED BY <1>6, <1>7 DEF Advances

LEMMA ContinueAdvances ==
  ASSUME TypedInv, NEW c \in Clients, Continue(c)
  PROVE  \E q : Advances(c, q)
<1>1. CASE \/ MkcolExists(c) \/ Missing(c) \/ PutNowhere(c) \/ UploadRefused(c) \/ Shown(c)
           \/ CreateAnswered(c) \/ CreateFound(c) \/ CreateGivesUp(c)
           \/ Trash(c) \/ Rename(c) \/ Upload(c) \/ FilesListed(c)
  <2>1. client' = [client EXCEPT ![c] = Idle]
    BY <1>1 DEF MkcolExists, Missing, PutNowhere, UploadRefused, Shown, Answer, CreateAnswered,
                CreateFound, CreateGivesUp, Created, Trash, Rename, Upload, FilesListed, Become
  <2> QED BY <2>1, AnswerAdvances
<1> QED BY <1>1, ListedAdvances, CreationAdvances, LookupAdvances, PutTargetAdvances DEF Continue

\* An arrival: the new request, and those it meets, which remember its kind.
LEMMA ArrivalFits ==
  ASSUME TypedInv, NEW c \in Clients, NEW r, NEW r2, r \in Request, Placed(r),
         r.kind # "none", Fits(r2, r), Arrives(c, r, r2)
  PROVE  client' \in [Clients -> Request] /\ \A o \in Clients : Placed(client'[o])
<1> DEFINE others == {o \in Clients : Touches(client[o]) \cap Touches(r) # {}}
           kinds == {client[o2].kind : o2 \in others}
           Writes == {"MKCOL", "DELETE", "MOVE", "PUT"}
           q == [r2 EXCEPT !.met = kinds]
           Meets(o) == [client[o] EXCEPT !.met = @ \cup {r.kind}]
<1>1. client' = [o \in Clients |-> IF o = c THEN q
                                   ELSE IF o \in others THEN Meets(o) ELSE client[o]]
  BY DEF Arrives
<1>2. kinds \subseteq Writes
  BY DEF Touches
<1>3. ASSUME NEW o \in others PROVE r.kind \in Writes
  BY <1>3 DEF Touches
<1>4. q \in Request /\ Placed(q)
  <2>1. r2 \in Request /\ Placed(r2)
    BY DEF Fits
  <2>2. q \in Request /\ q.pc = r2.pc /\ q.next = r2.next /\ q.kind = r2.kind
        /\ q.dir = r2.dir /\ q.to = r2.to /\ q.item = r2.item
    <3> HIDE DEF kinds
    <3> QED BY <1>2, <2>1 DEF Request
  <2> HIDE DEF q
  <2> QED BY <2>1, <2>2 DEF Placed
<1>5. ASSUME NEW o \in Clients, r.kind \in Writes PROVE Meets(o) \in Request /\ Placed(Meets(o))
  <2>1. client[o] \in Request /\ Placed(client[o])
    BY ClientFits
  <2> DEFINE p == client[o]
             m == [p EXCEPT !.met = @ \cup {r.kind}]
  <2> HIDE DEF p
  <2>2. m \in Request /\ m.pc = p.pc /\ m.next = p.next /\ m.kind = p.kind
        /\ m.dir = p.dir /\ m.to = p.to /\ m.item = p.item
    <3>1. p \in Request
      BY <2>1 DEF p
    <3> QED BY <1>5, <3>1 DEF Request
  <2> HIDE DEF m
  <2>3. m \in Request /\ Placed(m)
    BY <2>1, <2>2 DEF Placed, p
  <2> QED BY <2>3 DEF m, p
<1> HIDE DEF q, Meets, kinds
<1>6. ASSUME NEW o \in Clients PROVE client'[o] \in Request /\ Placed(client'[o])
  <2>1. client[o] \in Request /\ Placed(client[o])
    BY ClientFits
  <2>2. client'[o] = IF o = c THEN q ELSE IF o \in others THEN Meets(o) ELSE client[o]
    BY <1>1
  <2> QED BY <1>3, <1>4, <1>5, <2>1, <2>2
<1> QED BY <1>1, <1>6

\* The requests that arrive: r2 is what r becomes with its first lookup.
Comes(c, r, r2) ==
    /\ r \in Request /\ Placed(r) /\ r.kind # "none" /\ r.met = {}
    /\ Fits(r2, r) /\ Arrives(c, r, r2)
    /\ r2.pc = "listed" /\ r2.next = "check" =>
          r2.snap = [i \in FolderIds |-> IF Live(i) THEN folder[i].name ELSE None]
    /\ r2.pc = "check" => r2.item # None
    /\ r2.pc \notin {"lock", "create"}

LEMMA NewRequestComes ==
  ASSUME TypedInv, NEW c \in Clients, NewRequests(c)
  PROVE  \E r, r2 : Comes(c, r, r2)
<1> DEFINE shown == [i \in FolderIds |-> IF Live(i) THEN folder[i].name ELSE None]
           Goal == \E r, r2 : Comes(c, r, r2)
<1>0. None \in Dirs \cup {None}
  OBVIOUS
<1>1. ASSUME NEW k \in {"MKCOL", "DELETE", "MOVE", "PUT", "LISTDIR"}, NEW d \in Dirs,
             NEW e \in Dirs \cup {None}, k = "MOVE" => e \in Dirs, NEW x \in Dirs,
             NEW next \in {"check", "trash", "dest", "body", "files"}, Belongs(next, k),
             LET r == NewRequest(k, d, e) IN Arrives(c, r, Lookup(r, x, next))
      PROVE  Goal
  <2> DEFINE r == NewRequest(k, d, e)
             r2 == Lookup(r, x, next)
  <2>1. r \in Request /\ Placed(r) /\ r.kind = k /\ r.dir = d /\ r.to = e /\ r.met = {}
    BY <1>1, NewRequestFits
  <2>2. Arrives(c, r, r2)
    BY <1>1
  <2> HIDE DEF r
  <2>3. Fits(r2, r)
    BY <1>1, <2>1, LookupFits
  <2>4. /\ r2.pc = "listed" => r2.snap = shown
        /\ r2.pc = "check" => r2.item # None
        /\ r2.pc \notin {"lock", "create"}
    BY <1>1, <2>1 DEF Lookup, Request
  <2> HIDE DEF r2
  <2>5. Comes(c, r, r2)
    BY <1>1, <2>1, <2>2, <2>3, <2>4 DEF Comes
  <2> QED BY <2>5
<1>2. CASE List(c)
  <2> DEFINE r == NewRequest("LIST", None, None)
             r2 == [r EXCEPT !.pc = "listed", !.next = "shown", !.snap = shown]
  <2>1. r \in Request /\ Placed(r) /\ r.kind = "LIST" /\ r.met = {}
    BY <1>0, NewRequestFits
  <2>2. Arrives(c, r, r2)
    BY <1>2 DEF List
  <2> HIDE DEF r
  <2>3. r2 \in Request
    <3>1. shown \in [FolderIds -> Dirs \cup {DupName, None}]
      BY SnapTyped
    <3> HIDE DEF shown
    <3> QED BY ONLY <2>1, <3>1 DEF Request
  <2>4. r2.pc = "listed" /\ r2.next = "shown" /\ Same(r2, r)
    BY <2>1 DEF Request, Same
  <2> HIDE DEF r2
  <2>5. Fits(r2, r)
    BY <2>1, <2>3, <2>4, StepFits DEF Belongs
  <2>6. Comes(c, r, r2)
    BY <2>1, <2>2, <2>4, <2>5 DEF Comes
  <2> QED BY <2>6
<1> HIDE DEF Goal
<1>3. ASSUME NEW d \in Dirs, Mkcol(c, d) PROVE Goal
  BY <1>0, <1>1, <1>3 DEF Mkcol, Belongs
<1>4. ASSUME NEW d \in Dirs, Delete(c, d) PROVE Goal
  BY <1>0, <1>1, <1>4 DEF Delete, Belongs
<1>5. ASSUME NEW d \in Dirs, Put(c, d) PROVE Goal
  BY <1>0, <1>1, <1>5 DEF Put, Belongs
<1>6. ASSUME NEW d \in Dirs, ListDir(c, d) PROVE Goal
  BY <1>0, <1>1, <1>6 DEF ListDir, Belongs
<1>7. ASSUME NEW d \in Dirs, NEW e \in Dirs, Move(c, d, e) PROVE Goal
  BY <1>0, <1>1, <1>7 DEF Move, Belongs
<1>8. Goal
  BY <1>2, <1>3, <1>4, <1>5, <1>6, <1>7 DEF NewRequests, Goal
<1> QED BY <1>8 DEF Goal

\* The rest of the state.
StoreTyped ==
    /\ folder \in [FolderIds -> [st : {"free", "live", "trashed"}, name : Dirs \cup {DupName}]]
    /\ file \in [FileIds -> [st : {"free", "live"}, in : FolderIds, v : 0..MaxRequests]]
    /\ known \in [Dirs -> FolderIds \cup {None}]
    /\ child \in [Dirs -> FileIds \cup {None}]
    /\ holder \in [Dirs -> Clients \cup {None}]
    /\ issued \in 0..MaxRequests /\ excused \subseteq FolderIds
    /\ promise \in [Dirs -> 0..MaxRequests \cup {None, Unsure}]
    /\ moved \subseteq Dirs

LEMMA TypesSplit == TypeOK <=> StoreTyped /\ client \in [Clients -> Request]
  BY DEF TypeOK, StoreTyped

LEMMA TypesSplitNext == TypeOK' <=> StoreTyped' /\ client' \in [Clients -> Request]
  BY DEF TypeOK, StoreTyped

\* A folder that the provider makes, moves to the trash or renames.
LEMMA MakesTyped ==
  ASSUME StoreTyped, NEW d \in Dirs, NEW i \in FolderIds, Makes(d, i)
  PROVE  folder' \in [FolderIds -> [st : {"free", "live", "trashed"}, name : Dirs \cup {DupName}]]
  BY DEF StoreTyped, Makes

LEMMA TrashTyped ==
  ASSUME StoreTyped, NEW i \in FolderIds, folder' = [folder EXCEPT ![i].st = "trashed"]
  PROVE  folder' \in [FolderIds -> [st : {"free", "live", "trashed"}, name : Dirs \cup {DupName}]]
  BY DEF StoreTyped

LEMMA AckedTyped ==
  ASSUME NEW r, NEW v \in 0..MaxRequests \cup {None, Unsure}
  PROVE  Acked(r, v) \in 0..MaxRequests \cup {None, Unsure}
  BY DEF Acked

LEMMA CreationTyped ==
  ASSUME TypedInv, NEW c \in Clients,
         CreateAnswered(c) \/ CreateFails(c) \/ CreateFound(c) \/ CreateGivesUp(c)
  PROVE  StoreTyped'
<1> DEFINE r == client[c]
<1>1. StoreTyped
  BY TypesSplit DEF TypedInv
<1>2. r.dir \in Dirs
  BY ClientFits DEF CreateAnswered, CreateFails, CreateFound, CreateGivesUp, At, Placed, Belongs
<1>3. Acked(r, None) \in 0..MaxRequests \cup {None, Unsure}
  BY AckedTyped
<1>4. ASSUME NEW i \in FolderIds, Created(c, i)
      PROVE  /\ known' \in [Dirs -> FolderIds \cup {None}]
             /\ holder' \in [Dirs -> Clients \cup {None}]
             /\ promise' \in [Dirs -> 0..MaxRequests \cup {None, Unsure}]
  BY <1>1, <1>2, <1>3, <1>4 DEF Created, StoreTyped
<1>5. CASE CreateAnswered(c)
  <2>1. PICK i \in FolderIds : /\ Makes(r.dir, i) /\ Created(c, i)
                               /\ excused' \in {excused, excused \cup {i}}
    BY <1>5 DEF CreateAnswered
  <2>2. UNCHANGED <<file, child, issued, moved>>
    BY <1>5 DEF CreateAnswered
  <2>3. folder' \in [FolderIds -> [st : {"free", "live", "trashed"}, name : Dirs \cup {DupName}]]
    BY <1>1, <1>2, <2>1, MakesTyped
  <2> QED BY <1>1, <1>4, <2>1, <2>2, <2>3 DEF StoreTyped
<1>6. CASE CreateFails(c)
  <2>1. UNCHANGED <<file, known, child, holder, issued, promise, moved>>
    BY <1>6 DEF CreateFails
  <2>2. CASE UNCHANGED <<folder, excused>>
    BY <1>1, <2>1, <2>2 DEF StoreTyped
  <2>3. ASSUME NEW i \in FolderIds, Makes(r.dir, i), excused' = excused \cup {i}
        PROVE  StoreTyped'
    BY <1>1, <1>2, <2>1, <2>3, MakesTyped DEF StoreTyped
  <2> QED BY <1>6, <2>2, <2>3 DEF CreateFails
<1>7. CASE CreateFound(c)
  <2>1. PICK i \in FolderIds : Created(c, i)
    BY <1>7 DEF CreateFound, Named
  <2>2. UNCHANGED <<folder, file, excused, child, issued, moved>>
    BY <1>7 DEF CreateFound, provider
  <2> QED BY <1>1, <1>4, <2>1, <2>2 DEF StoreTyped
<1>8. CASE CreateGivesUp(c)
  BY <1>1, <1>2, <1>8 DEF CreateGivesUp, provider, StoreTyped
<1> QED BY <1>5, <1>6, <1>7, <1>8

LEMMA MoveAndDeleteTyped ==
  ASSUME TypedInv, NEW c \in Clients, Trash(c) \/ TrashDest(c) \/ NoDest(c) \/ Rename(c)
  PROVE  StoreTyped'
<1> DEFINE r == client[c]
<1>1. StoreTyped
  BY TypesSplit DEF TypedInv
<1>2. /\ r.dir \in Dirs /\ r.item \in FolderIds \cup {None}
      /\ r.pc \in {"dest", "rename"} => r.to \in Dirs
  BY ClientFits DEF Trash, TrashDest, NoDest, Rename, At, Placed, Belongs
<1>3. \A v \in 0..MaxRequests \cup {None, Unsure} :
         Acked(r, v) \in 0..MaxRequests \cup {None, Unsure}
  BY AckedTyped
<1>4. CASE Trash(c)
  <2>1. folder' \in [FolderIds -> [st : {"free", "live", "trashed"}, name : Dirs \cup {DupName}]]
    BY <1>1, <1>2, <1>4, TrashTyped DEF Trash
  <2> QED BY <1>1, <1>2, <1>3, <1>4, <2>1 DEF Trash, StoreTyped
<1>5. CASE TrashDest(c)
  <2>1. folder' \in [FolderIds -> [st : {"free", "live", "trashed"}, name : Dirs \cup {DupName}]]
    BY <1>1, <1>2, <1>5, TrashTyped DEF TrashDest
  <2>2. r.to \in Dirs
    BY <1>2, <1>5 DEF TrashDest, At
  <2> QED BY <1>1, <1>2, <1>3, <1>5, <2>1, <2>2 DEF TrashDest, StoreTyped
<1>6. CASE NoDest(c)
  BY <1>1, <1>6 DEF NoDest, provider, StoreTyped
<1>7. CASE Rename(c)
  <2>1. r.to \in Dirs /\ r.item \in FolderIds
    BY <1>2, <1>7 DEF Rename, At
  <2>2. folder' \in [FolderIds -> [st : {"free", "live", "trashed"}, name : Dirs \cup {DupName}]]
    BY <1>1, <1>7, <2>1 DEF Rename, StoreTyped
  <2>3. promise[r.dir] \in 0..MaxRequests \cup {None, Unsure}
    BY <1>1, <1>2 DEF StoreTyped
  <2>4. promise' \in [Dirs -> 0..MaxRequests \cup {None, Unsure}]
    <3>1. Acked(r, None) \in 0..MaxRequests \cup {None, Unsure}
      BY <1>3
    <3>2. Acked(r, promise[r.dir]) \in 0..MaxRequests \cup {None, Unsure}
      BY <1>3, <2>3
    <3>3. promise' = [promise EXCEPT ![r.dir] = Acked(r, None), ![r.to] = Acked(r, promise[r.dir])]
      BY <1>7 DEF Rename
    <3> QED BY <1>1, <3>1, <3>2, <3>3 DEF StoreTyped
  <2>5. known' \in [Dirs -> FolderIds \cup {None}]
    BY <1>1, <1>7, <2>1 DEF Rename, Renamed, StoreTyped
  <2> QED BY <1>1, <1>7, <2>2, <2>4, <2>5 DEF Rename, StoreTyped
<1> QED BY <1>4, <1>5, <1>6, <1>7

LEMMA FilesTyped ==
  ASSUME TypedInv, NEW c \in Clients,
         PutBody(c) \/ PutTarget(c) \/ Upload(c) \/ FilesListed(c) \/ Listed(c)
  PROVE  StoreTyped'
<1> DEFINE r == client[c]
<1>1. StoreTyped
  BY TypesSplit DEF TypedInv
<1>2. ~Listed(c) => r.dir \in Dirs
  BY ClientFits DEF PutBody, PutTarget, Upload, FilesListed, At, Placed, Belongs
<1>3. CASE PutBody(c)
  BY <1>1, <1>3 DEF PutBody, provider, StoreTyped
<1>4. CASE PutTarget(c)
  <2>1. child' \in [Dirs -> FileIds \cup {None}]
    BY ZenonT(60), <1>1, <1>2, <1>4 DEF PutTarget, FilesIn, StoreTyped
  <2> QED BY <1>1, <1>4, <2>1 DEF PutTarget, provider, StoreTyped
<1>5. CASE Upload(c)
  <2>1. r.pc = "upload" /\ r.item \in FolderIds /\ r.dir \in Dirs
    BY <1>5, ClientFits DEF Upload, At, Placed, Belongs
  <2>2. PICK f \in FileIds : \E in \in {r.item, file[f].in} :
            /\ file' = [file EXCEPT ![f] = [st |-> "live", in |-> in, v |-> issued]]
            /\ child' = [child EXCEPT ![r.dir] = f]
    BY <1>5 DEF Upload
  <2>8. PICK in \in {r.item, file[f].in} :
            /\ file' = [file EXCEPT ![f] = [st |-> "live", in |-> in, v |-> issued]]
            /\ child' = [child EXCEPT ![r.dir] = f]
    BY <2>2
  <2>3. in \in FolderIds
    BY <1>1, <2>1, <2>8 DEF StoreTyped
  <2>4. file' \in [FileIds -> [st : {"free", "live"}, in : FolderIds, v : 0..MaxRequests]]
    BY <1>1, <2>8, <2>3 DEF StoreTyped
  <2>5. child' \in [Dirs -> FileIds \cup {None}]
    BY <1>1, <2>8 DEF StoreTyped
  <2>6. promise' = [promise EXCEPT ![r.dir] = Acked(r, issued)]
        /\ UNCHANGED <<folder, excused, known, holder, issued, moved>>
    BY <1>5 DEF Upload
  <2>7. Acked(r, issued) \in 0..MaxRequests \cup {None, Unsure}
    BY <1>1, AckedTyped DEF StoreTyped
  <2> QED BY <1>1, <2>1, <2>4, <2>5, <2>6, <2>7 DEF StoreTyped
<1>6. CASE FilesListed(c)
  <2>1. child' \in [Dirs -> FileIds \cup {None}]
    BY <1>1, <1>2, <1>6 DEF FilesListed, FilesIn, StoreTyped, Listed, At
  <2> QED BY <1>1, <1>6, <2>1 DEF FilesListed, provider, StoreTyped
<1>7. CASE Listed(c)
  <2>1. known' = Absorbed(r.snap) /\ UNCHANGED <<folder, file, excused, child, holder, issued,
                                                 promise, moved>>
    BY <1>7 DEF Listed, provider
  <2>2. Absorbed(r.snap) \in [Dirs -> FolderIds \cup {None}]
    BY <1>1 DEF Absorbed, StoreTyped
  <2> QED BY <1>1, <2>1, <2>2 DEF StoreTyped
<1> QED BY <1>3, <1>4, <1>5, <1>6, <1>7

LEMMA AnswerTyped ==
  ASSUME TypedInv, NEW c \in Clients,
         \/ Answer(c) \/ MkcolAbsent(c) \/ Lock(c)
         \/ MkcolExists(c) \/ Missing(c) \/ PutNowhere(c) \/ UploadRefused(c) \/ Shown(c)
  PROVE  StoreTyped'
<1>1. StoreTyped
  BY TypesSplit DEF TypedInv
<1>2. CASE Lock(c)
  <2>1. client[c].dir \in Dirs
    BY <1>2, ClientFits DEF Lock, At, Placed, Belongs
  <2> QED BY <1>1, <1>2, <2>1 DEF Lock, provider, StoreTyped
<1>3. CASE ~Lock(c)
  <2>1. UNCHANGED <<folder, file, excused, known, child, holder, issued, promise, moved>>
    BY <1>3 DEF MkcolExists, Missing, PutNowhere, UploadRefused, Shown, Answer, MkcolAbsent,
                provider
  <2> QED BY <1>1, <2>1 DEF StoreTyped
<1> QED BY <1>2, <1>3

LEMMA ArrivalTyped ==
  ASSUME TypedInv, NEW c \in Clients, NEW r, NEW r2, Placed(r), Arrives(c, r, r2)
  PROVE  StoreTyped'
<1>1. StoreTyped
  BY TypesSplit DEF TypedInv
<1>2. issued' \in 0..MaxRequests
  BY <1>1, FoldersAssumption DEF Arrives, StoreTyped
<1>3. moved' \subseteq Dirs
  BY <1>1 DEF Arrives, StoreTyped, Placed
<1> QED BY <1>1, <1>2, <1>3 DEF Arrives, provider, StoreTyped

LEMMA RestartTyped ==
  ASSUME TypedInv, Restart
  PROVE  TypedInv'
<1>1. StoreTyped
  BY TypesSplit DEF TypedInv
<1>2. client' \in [Clients -> Request] /\ \A c \in Clients : client'[c] = Idle
  BY IdleFits DEF Restart
<1>3. promise' \in [Dirs -> 0..MaxRequests \cup {None, Unsure}] /\ issued' \in 0..MaxRequests
  BY <1>1, FoldersAssumption DEF Restart, StoreTyped
<1>4. StoreTyped'
  BY <1>1, <1>3 DEF Restart, provider, StoreTyped
<1> QED BY <1>2, <1>4, IdleFits, TypesSplitNext DEF TypedInv

LEMMA InitTyped == Init => TypedInv
<1> SUFFICES ASSUME Init PROVE TypedInv
  OBVIOUS
<1>0. /\ DupName \in Dirs \cup {DupName} /\ 0 \in 0..MaxRequests
      /\ (CHOOSE i \in FolderIds : TRUE) \in FolderIds
  BY FoldersAssumption
<1>1. folder \in [FolderIds -> [st : {"free", "live", "trashed"}, name : Dirs \cup {DupName}]]
  BY DEF Init
<1>2. file \in [FileIds -> [st : {"free", "live"}, in : FolderIds, v : 0..MaxRequests]]
  BY <1>0 DEF Init
<1>3. client \in [Clients -> Request] /\ \A c \in Clients : client[c] = Idle
  BY IdleFits DEF Init
<1>4. /\ known \in [Dirs -> FolderIds \cup {None}]
      /\ child \in [Dirs -> FileIds \cup {None}]
      /\ holder \in [Dirs -> Clients \cup {None}]
      /\ issued \in 0..MaxRequests /\ excused \subseteq FolderIds
      /\ promise \in [Dirs -> 0..MaxRequests \cup {None, Unsure}]
      /\ moved \subseteq Dirs
  BY <1>0 DEF Init
<1> QED BY <1>1, <1>2, <1>3, <1>4, IdleFits DEF TypedInv, TypeOK

LEMMA NextTyped == TypedInv /\ [Next]_vars => TypedInv'
<1> SUFFICES ASSUME TypedInv, [Next]_vars PROVE TypedInv'
  OBVIOUS
<1>1. ASSUME NEW c \in Clients, NewRequests(c) PROVE TypedInv'
  <2>1. PICK r, r2 : Comes(c, r, r2)
    BY <1>1, NewRequestComes
  <2>2. client' \in [Clients -> Request] /\ \A o \in Clients : Placed(client'[o])
    BY <2>1, ArrivalFits DEF Comes
  <2>3. StoreTyped'
    BY <2>1, ArrivalTyped DEF Comes
  <2> QED BY <2>2, <2>3, TypesSplitNext DEF TypedInv, Placed
<1>2. ASSUME NEW c \in Clients, Continue(c) PROVE TypedInv'
  <2>1. PICK q : Advances(c, q)
    BY <1>2, ContinueAdvances
  <2>2. q \in Request /\ Placed(q)
    BY <2>1, IdleFits DEF Advances, Fits
  <2>3. client \in [Clients -> Request] /\ client' = [client EXCEPT ![c] = q]
    BY <2>1 DEF TypedInv, TypeOK, Advances
  <2>4. client' \in [Clients -> Request] /\ \A o \in Clients : Placed(client'[o])
    BY <2>2, <2>3 DEF TypedInv
  <2>5. StoreTyped'
    BY <1>2, CreationTyped, MoveAndDeleteTyped, FilesTyped, AnswerTyped DEF Continue
  <2> QED BY <2>4, <2>5, TypesSplitNext DEF TypedInv, Placed
<1>3. ASSUME NEW d \in Dirs, Forget(d) PROVE TypedInv'
  BY <1>3 DEF Forget, provider, TypedInv, TypeOK, Placed
<1>4. CASE Restart
  BY <1>4, RestartTyped
<1>5. CASE UNCHANGED vars
  BY <1>5 DEF vars, TypedInv, TypeOK, Placed
<1> QED BY <1>1, <1>2, <1>3, <1>4, <1>5 DEF Next

\* Every reachable state is well typed; in particular no step uses an item or a
\* path its request does not have.
THEOREM FoldersTyped == Spec => []TypeOK
<1>1. TypedInv => TypeOK
  BY DEF TypedInv
<1> QED BY <1>1, InitTyped, NextTyped, PTL DEF Spec


-----------------------------------------------------------------------------
(* One folder for each path.                                               *)

\* Writes of a common folder that are under way know of each other.
MetInv == \A c, o \in Clients :
    c # o /\ Touches(client[c]) \cap Touches(client[o]) # {} => client[o].kind \in client[c].met

\* No MOVE and no DELETE of its folder has met the request.
Alone(r) == {"MOVE", "DELETE"} \cap r.met = {}

\* A MKCOL that has not found its folder, and goes on to make it.
Unseen(r) ==
    /\ r.kind = "MKCOL" /\ Alone(r)
    /\ \/ r.pc = "check" /\ r.item = None
       \/ r.pc = "lock"
       \/ r.pc = "listed" /\ r.next = "check" /\ \A i \in FolderIds : r.snap[i] # r.dir

\* Either there is no such folder, or who takes the lock next knows of it.
Settled(d) == Named(d) = {} \/ known[d] # None \/ holder[d] # None
AbsentInv == \A c \in Clients : Unseen(client[c]) => Settled(client[c].dir)

\* What an arrival changes.
LEMMA ArrivalShape ==
  ASSUME TypedInv, NEW c \in Clients, NEW r, NEW r2, r \in Request, Fits(r2, r), Arrives(c, r, r2)
  PROVE  /\ client[c] = Idle
         /\ client'[c].kind = r.kind /\ client'[c].dir = r.dir /\ client'[c].to = r.to
         /\ client'[c].pc = r2.pc /\ client'[c].next = r2.next /\ client'[c].item = r2.item
         /\ client'[c].snap = r2.snap
         /\ \A o \in Clients : Touches(client[o]) \cap Touches(r) # {} =>
               client[o].kind \in client'[c].met
         /\ \A o \in Clients \ {c} :
               /\ client'[o].kind = client[o].kind /\ client'[o].dir = client[o].dir
               /\ client'[o].to = client[o].to /\ client'[o].pc = client[o].pc
               /\ client'[o].next = client[o].next /\ client'[o].item = client[o].item
               /\ client'[o].snap = client[o].snap /\ client[o].met \subseteq client'[o].met
               /\ Touches(client[o]) \cap Touches(r) # {} => r.kind \in client'[o].met
<1> DEFINE others == {o \in Clients : Touches(client[o]) \cap Touches(r) # {}}
           kinds == {client[o2].kind : o2 \in others}
           q == [r2 EXCEPT !.met = kinds]
           Meets(o) == [client[o] EXCEPT !.met = @ \cup {r.kind}]
<1>1. /\ client[c] = Idle
      /\ client' = [o \in Clients |-> IF o = c THEN q
                                      ELSE IF o \in others THEN Meets(o) ELSE client[o]]
  BY DEF Arrives
<1>2. /\ q.kind = r2.kind /\ q.dir = r2.dir /\ q.to = r2.to /\ q.pc = r2.pc /\ q.next = r2.next
      /\ q.item = r2.item /\ q.snap = r2.snap /\ q.met = kinds
  BY DEF Fits, Request
<1>3. client'[c] = q
  BY <1>1
<1>4. ASSUME NEW o \in others PROVE client[o].kind \in kinds
  BY <1>4
<1>5. ASSUME NEW o \in Clients
      PROVE  LET m == Meets(o) IN
             /\ m.kind = client[o].kind /\ m.dir = client[o].dir
             /\ m.to = client[o].to /\ m.pc = client[o].pc
             /\ m.next = client[o].next /\ m.item = client[o].item
             /\ m.snap = client[o].snap /\ m.met = client[o].met \cup {r.kind}
  BY ClientFits DEF Request
<1>6. ASSUME NEW o \in Clients \ {c}
      PROVE  client'[o] = IF o \in others THEN Meets(o) ELSE client[o]
  BY <1>1
<1>7. q.kind = r.kind /\ q.dir = r.dir /\ q.to = r.to
  BY <1>2 DEF Fits, Same
<1>8. \A o \in Clients : Touches(client[o]) \cap Touches(r) # {} <=> o \in others
  OBVIOUS
<1> HIDE DEF q, Meets, kinds, others
<1> QED BY <1>1, <1>2, <1>3, <1>4, <1>5, <1>6, <1>7, <1>8

LEMMA AdvanceShape ==
  ASSUME TypedInv, NEW c \in Clients, NEW q, Advances(c, q)
  PROVE  /\ client'[c] = q /\ \A o \in Clients \ {c} : client'[o] = client[o]
         /\ q = Idle \/ Same(q, client[c])
  BY DEF TypedInv, TypeOK, Advances, Fits

LEMMA IdleTouches == Touches(Idle) = {}
  BY IdleFits DEF Touches

LEMMA MetKept ==
  ASSUME TypedInv, MetInv, [Next]_vars
  PROVE  MetInv'
<1>1. ASSUME NEW c \in Clients, NewRequests(c) PROVE MetInv'
  <2>1. PICK r, r2 : Comes(c, r, r2)
    BY <1>1, NewRequestComes
  <2>2. /\ client[c] = Idle
        /\ Touches(client'[c]) = Touches(r) /\ client'[c].kind = r.kind
    <3>1. /\ client'[c].kind = r.kind /\ client'[c].dir = r.dir /\ client'[c].to = r.to
          /\ client[c] = Idle
      BY <2>1, ArrivalShape DEF Comes
    <3> QED BY <3>1 DEF Touches
  <2>3. \A o \in Clients : Touches(client[o]) \cap Touches(r) # {} => client[o].kind \in client'[c].met
    BY <2>1, ArrivalShape DEF Comes
  <2>4. ASSUME NEW o \in Clients \ {c}
        PROVE  /\ client'[o].kind = client[o].kind /\ Touches(client'[o]) = Touches(client[o])
               /\ client[o].met \subseteq client'[o].met
               /\ Touches(client[o]) \cap Touches(r) # {} => r.kind \in client'[o].met
    <3>1. /\ client'[o].kind = client[o].kind /\ client'[o].dir = client[o].dir
          /\ client'[o].to = client[o].to /\ client[o].met \subseteq client'[o].met
          /\ Touches(client[o]) \cap Touches(r) # {} => r.kind \in client'[o].met
      BY <2>1, ArrivalShape DEF Comes
    <3> QED BY <3>1 DEF Touches
  <2>5. ASSUME NEW x \in Clients, NEW o \in Clients, x # o,
               Touches(client'[x]) \cap Touches(client'[o]) # {}
        PROVE  client'[o].kind \in client'[x].met
    <3>1. CASE x = c
      BY <2>2, <2>3, <2>4, <2>5, <3>1
    <3>2. CASE o = c
      BY <2>2, <2>4, <2>5, <3>2
    <3>3. CASE x # c /\ o # c
      <4>1. client[o].kind \in client[x].met
        BY <2>4, <2>5, <3>3 DEF MetInv
      <4> QED BY <2>4, <3>3, <4>1
    <3> QED BY <3>1, <3>2, <3>3
  <2> QED BY <2>5 DEF MetInv, Touches
<1>2. ASSUME NEW c \in Clients, Continue(c) PROVE MetInv'
  <2>1. PICK q : Advances(c, q)
    BY <1>2, ContinueAdvances
  <2>2. ASSUME NEW o \in Clients
        PROVE  \/ Touches(client'[o]) = {}
               \/ /\ client'[o].kind = client[o].kind /\ client'[o].met = client[o].met
                  /\ Touches(client'[o]) = Touches(client[o])
    <3>1. CASE o = c
      <4>1. client'[o] = Idle \/ Same(client'[o], client[o])
        BY <2>1, <3>1, AdvanceShape
      <4> QED BY <4>1, IdleTouches DEF Same, Touches
    <3>2. CASE o # c
      BY <2>1, <3>2, AdvanceShape
    <3> QED BY <3>1, <3>2
  <2>3. ASSUME NEW x \in Clients, NEW o \in Clients, x # o,
               Touches(client'[x]) \cap Touches(client'[o]) # {}
        PROVE  client'[o].kind \in client'[x].met
    BY <2>2, <2>3 DEF MetInv
  <2> QED BY <2>3 DEF MetInv, Touches
<1>3. CASE Restart
  <2>1. \A c \in Clients : client'[c] = Idle
    BY <1>3 DEF Restart
  <2>2. \A c \in Clients : Touches(client'[c]) = {}
    BY <2>1, IdleTouches
  <2> QED BY <2>2 DEF MetInv, Touches
<1>4. CASE UNCHANGED client
  BY <1>4 DEF MetInv, Touches
<1> QED BY <1>1, <1>2, <1>3, <1>4 DEF Next, Forget, vars


\* The folders that a step makes, trashes or renames.
Drops(i) == folder' = [folder EXCEPT ![i].st = "trashed"]
Renames(i, e) == folder' = [folder EXCEPT ![i].name = e]

LEMMA FolderSteps ==
  ASSUME TypedInv, NEW c \in Clients, Continue(c)
  PROVE  \/ UNCHANGED folder
         \/ /\ CreateAnswered(c) \/ CreateFails(c)
            /\ \E i \in FolderIds : Makes(client[c].dir, i)
         \/ (Trash(c) \/ TrashDest(c)) /\ \E i \in FolderIds : Drops(i)
         \/ Rename(c) /\ \E i \in FolderIds : Live(i) /\ Renames(i, client[c].to)
<1>1. client[c].item \in FolderIds \cup {None}
  BY ClientFits
<1>2. CASE CreateAnswered(c) \/ CreateFails(c)
  BY <1>2 DEF CreateAnswered, CreateFails
<1>3. CASE Trash(c) \/ TrashDest(c)
  BY <1>1, <1>3 DEF Trash, TrashDest, Drops
<1>4. CASE Rename(c)
  BY <1>1, <1>4 DEF Rename, Renames
<1>5. CASE ~(CreateAnswered(c) \/ CreateFails(c) \/ Trash(c) \/ TrashDest(c) \/ Rename(c))
  BY <1>5 DEF Continue, Listed, MkcolExists, MkcolAbsent, Lock, CreateFound, CreateGivesUp, NoDest,
              Missing, PutBody, PutNowhere, PutTarget, Upload, UploadRefused, Shown, FilesListed,
              Answer, provider
<1> QED BY <1>2, <1>3, <1>4, <1>5

\* Which requests take those steps.
LEMMA Steppers ==
  ASSUME TypedInv, NEW c \in Clients
  PROVE  /\ CreateAnswered(c) \/ CreateFails(c) \/ CreateFound(c) \/ CreateGivesUp(c) =>
               client[c].pc = "create" /\ client[c].kind = "MKCOL" /\ client[c].dir \in Dirs
         /\ Lock(c) => client[c].pc = "lock" /\ client[c].kind = "MKCOL" /\ client[c].dir \in Dirs
         /\ Trash(c) => client[c].kind = "DELETE" /\ client[c].dir \in Dirs
         /\ TrashDest(c) \/ Rename(c) =>
               client[c].kind = "MOVE" /\ client[c].dir \in Dirs /\ client[c].to \in Dirs
  BY ClientFits DEF CreateAnswered, CreateFails, CreateFound, CreateGivesUp, Lock, Trash, TrashDest,
                    Rename, At, Placed, Belongs

LEMMA MakesShape ==
  ASSUME TypedInv, NEW d \in Dirs, NEW i \in FolderIds, Makes(d, i)
  PROVE  /\ folder[i].st = "free" /\ folder'[i].st = "live"
         /\ folder'[i].name = IF Named(d) = {} THEN d ELSE DupName
         /\ \A j \in FolderIds \ {i} : folder'[j] = folder[j]
  BY DEF Makes, NextFolder, NextOf, TypedInv, TypeOK

LEMMA DropsShape ==
  ASSUME TypedInv, NEW i \in FolderIds, Drops(i)
  PROVE  /\ folder'[i].st = "trashed" /\ folder'[i].name = folder[i].name
         /\ \A j \in FolderIds \ {i} : folder'[j] = folder[j]
  BY DEF Drops, TypedInv, TypeOK

LEMMA RenamesShape ==
  ASSUME TypedInv, NEW i \in FolderIds, NEW e, Renames(i, e)
  PROVE  /\ folder'[i].st = folder[i].st /\ folder'[i].name = e
         /\ \A j \in FolderIds \ {i} : folder'[j] = folder[j]
  BY DEF Renames, TypedInv, TypeOK

LEMMA NamesDiffer == DupName \notin Dirs /\ None \notin FolderIds /\ None \notin Dirs
  BY FoldersAssumption

\* A path gets a folder from a MKCOL or a MOVE of its own only.
LEMMA NamedBefore ==
  ASSUME TypedInv, NEW c \in Clients, Continue(c), NEW d \in Dirs,
         ~(client[c].pc = "create" /\ client[c].dir = d), ~(Rename(c) /\ client[c].to = d)
  PROVE  Named(d)' \subseteq Named(d)
<1>1. CASE UNCHANGED folder
  BY <1>1 DEF Named, Live
<1>2. ASSUME NEW i \in FolderIds, Makes(client[c].dir, i), CreateAnswered(c) \/ CreateFails(c)
      PROVE  Named(d)' \subseteq Named(d)
  <2>1. client[c].dir \in Dirs /\ client[c].dir # d
    BY <1>2, Steppers
  <2>2. /\ folder'[i].name \in {client[c].dir, DupName}
        /\ \A j \in FolderIds \ {i} : folder'[j] = folder[j]
    BY <1>2, <2>1, MakesShape
  <2> QED BY <2>1, <2>2, NamesDiffer DEF Named, Live
<1>3. ASSUME NEW i \in FolderIds, Drops(i) PROVE Named(d)' \subseteq Named(d)
  BY <1>3, DropsShape DEF Named, Live
<1>4. ASSUME NEW i \in FolderIds, Live(i), Renames(i, client[c].to), Rename(c)
      PROVE  Named(d)' \subseteq Named(d)
  BY <1>4, RenamesShape DEF Named, Live
<1> QED BY <1>1, <1>2, <1>3, <1>4, FolderSteps

\* A path stays settled, unless a MOVE or a DELETE of its own goes on.
LEMMA SettledKept ==
  ASSUME TypedInv, LockInv, NEW c \in Clients, Continue(c), NEW d \in Dirs, Settled(d),
         client[c].kind \in {"MOVE", "DELETE"} => d \notin Touches(client[c])
  PROVE  Settled(d)'
<1> DEFINE r == client[c]
<1>0. /\ known \in [Dirs -> FolderIds \cup {None}] /\ holder \in [Dirs -> Clients \cup {None}]
  BY DEF TypedInv, TypeOK
<1>1. CASE CreateAnswered(c) \/ CreateFound(c) \/ CreateGivesUp(c)
  <2>1. r.pc = "create" /\ r.dir \in Dirs
    BY <1>1, Steppers
  <2>2. CASE r.dir = d
    <3>1. CASE CreateGivesUp(c)
      <4>1. Named(d) = {} /\ UNCHANGED folder
        BY <2>2, <3>1 DEF CreateGivesUp, provider
      <4> QED BY <4>1 DEF Settled, Named, Live
    <3>2. CASE CreateAnswered(c) \/ CreateFound(c)
      <4>1. PICK i \in FolderIds : known' = [known EXCEPT ![d] = i]
        BY <2>2, <3>2 DEF CreateAnswered, CreateFound, Created, Named
      <4>2. known'[d] = i
        BY <1>0, <4>1
      <4> QED BY <4>2, NamesDiffer DEF Settled
    <3> QED BY <1>1, <3>1, <3>2
  <2>3. CASE r.dir # d
    <3>1. known'[d] = known[d] /\ holder'[d] = holder[d]
      BY <1>0, <1>1, <2>1, <2>3 DEF CreateAnswered, CreateFound, CreateGivesUp, Created
    <3>2. Named(d)' \subseteq Named(d)
      <4>1. ~Rename(c)
        BY <2>1 DEF Rename, At
      <4> QED BY <2>3, <4>1, NamedBefore
    <3> QED BY <3>1, <3>2 DEF Settled, Named
  <2> QED BY <2>2, <2>3
<1>2. CASE CreateFails(c)
  <2>1. r.pc = "create" /\ r.dir \in Dirs /\ UNCHANGED <<known, holder>>
    BY <1>2, Steppers DEF CreateFails
  <2>2. CASE r.dir = d
    <3>1. holder[d] = c
      BY <2>1, <2>2 DEF LockInv
    <3> QED BY <2>1, <3>1, ClientsAreSomeone DEF Settled
  <2>3. CASE r.dir # d
    <3>1. ~Rename(c)
      BY <2>1 DEF Rename, At
    <3>2. Named(d)' \subseteq Named(d)
      BY <2>3, <3>1, NamedBefore
    <3> QED BY <2>1, <3>2 DEF Settled, Named
  <2> QED BY <2>2, <2>3
<1>3. CASE Trash(c) \/ TrashDest(c) \/ Rename(c)
  <2>1. d # r.dir /\ (TrashDest(c) \/ Rename(c) => d # r.to)
    BY <1>3, Steppers, NamesDiffer DEF Touches
  <2>2. known'[d] = known[d] /\ holder' = holder
    BY <1>0, <1>3, <2>1 DEF Trash, TrashDest, Rename, Renamed
  <2>3. r.pc # "create"
    BY <1>3 DEF Trash, TrashDest, Rename, At
  <2>4. Named(d)' \subseteq Named(d)
    BY <2>1, <2>3, NamedBefore
  <2> QED BY <2>2, <2>4 DEF Settled, Named
<1>4. CASE Lock(c)
  <2>1. known' = known /\ (holder' = holder \/ holder' = [holder EXCEPT ![r.dir] = c])
    BY <1>4 DEF Lock
  <2>2. holder'[d] = holder[d] \/ holder'[d] = c
    BY <1>0, <2>1
  <2>3. UNCHANGED folder
    BY <1>4 DEF Lock, provider
  <2> QED BY <2>1, <2>2, <2>3, ClientsAreSomeone DEF Settled, Named, Live
<1>5. CASE Listed(c)
  <2>1. UNCHANGED <<folder, holder>> /\ known' = Absorbed(r.snap)
    BY <1>5 DEF Listed, provider
  <2>2. known[d] # None => Absorbed(r.snap)[d] # None
    BY NamesDiffer DEF Absorbed
  <2> QED BY <2>1, <2>2 DEF Settled, Named, Live
<1>6. CASE \/ MkcolExists(c) \/ MkcolAbsent(c) \/ NoDest(c) \/ Missing(c) \/ PutBody(c)
           \/ PutNowhere(c) \/ PutTarget(c) \/ Upload(c) \/ UploadRefused(c) \/ Shown(c)
           \/ FilesListed(c)
  <2>1. UNCHANGED <<folder, known, holder>>
    BY <1>6 DEF MkcolExists, MkcolAbsent, NoDest, Missing, PutBody, PutNowhere, PutTarget, Upload,
                UploadRefused, Shown, FilesListed, Answer, provider
  <2> QED BY <2>1 DEF Settled, Named, Live
<1> QED BY <1>1, <1>2, <1>3, <1>4, <1>5, <1>6 DEF Continue

\* Who has not seen the folder after its step has not seen it before.
LEMMA UnseenBefore ==
  ASSUME TypedInv, NEW c \in Clients, Continue(c), Unseen(client'[c])
  PROVE  Unseen(client[c]) /\ client'[c].dir = client[c].dir
<1> DEFINE r == client[c]
<1>1. PICK q : Advances(c, q)
  BY ContinueAdvances
<1>2. client'[c] = q /\ (q = Idle \/ Same(q, r)) /\ r \in Request /\ Placed(r)
  BY <1>1, AdvanceShape, ClientFits
<1>3. q.kind = "MKCOL" /\ Same(q, r)
  BY <1>2, IdleFits DEF Unseen
<1>4. r.kind = "MKCOL" /\ q.dir = r.dir /\ Alone(r) = Alone(q)
  BY <1>3 DEF Same, Alone
<1>5. client' = [client EXCEPT ![c] = q] /\ \A p : client' = [client EXCEPT ![c] = p] => p = q
  BY <1>1 DEF Advances, TypedInv, TypeOK
<1>6. CASE Listed(c)
  <2> DEFINE shown == {i \in FolderIds : r.snap[i] = Sought(r)}
             p == [r EXCEPT !.pc = r.next, !.next = "idle", !.snap = Idle.snap,
                            !.item = IF shown = {} THEN None ELSE CHOOSE i \in shown : TRUE]
  <2>1. r.pc = "listed" /\ client' = [client EXCEPT ![c] = p]
    BY <1>6 DEF Listed, Become, At
  <2>2. q = p
    BY <1>5, <2>1
  <2>3. /\ q.pc = r.next /\ q.next = "idle"
        /\ q.item = IF shown = {} THEN None ELSE CHOOSE i \in shown : TRUE
    BY <1>2, <2>2 DEF Request
  <2>4. r.next # "lock" /\ r.next \in {"idle", "check", "trash", "dest", "rename", "body", "target",
                                       "shown", "files"}
    BY <1>2 DEF Request
  <2>5. r.next = "check" /\ q.item = None
    BY <1>2, <2>3, <2>4 DEF Unseen
  <2>6. shown = {}
    BY <2>3, <2>5, NamesDiffer
  <2>7. Sought(r) = r.dir
    BY <2>5 DEF Sought
  <2> QED BY <1>2, <1>4, <2>1, <2>5, <2>6, <2>7 DEF Unseen
<1>7. CASE MkcolAbsent(c)
  <2>1. r.pc = "check" /\ r.item = None
    BY <1>7 DEF MkcolAbsent, At
  <2> QED BY <1>2, <1>4, <2>1 DEF Unseen
<1>8. CASE Lock(c) \/ CreateFails(c)
  <2>1. q = Idle \/ q.pc = "create"
    <3>1. CASE Lock(c)
      <4>1. r.pc = "lock" /\ (q = Idle \/ q = [r EXCEPT !.pc = "create"])
        BY <1>5, <3>1 DEF Lock, Become, At
      <4> QED BY <1>2, <4>1 DEF Request
    <3>2. CASE CreateFails(c)
      <4>1. r.pc = "create" /\ q = [r EXCEPT !.tries = @ + 1]
        BY <1>5, <3>2 DEF CreateFails, Become, At
      <4> QED BY <1>2, <4>1 DEF Request
    <3> QED BY <1>8, <3>1, <3>2
  <2> QED BY <1>2, <2>1, IdleFits DEF Unseen
<1>9. CASE TrashDest(c) \/ NoDest(c) \/ PutBody(c) \/ PutTarget(c)
  <2>1. r.kind \in {"MOVE", "PUT"}
    BY <1>2, <1>9 DEF TrashDest, NoDest, PutBody, PutTarget, At, Placed, Belongs
  <2> QED BY <1>4, <2>1
<1>10. CASE \/ MkcolExists(c) \/ Missing(c) \/ PutNowhere(c) \/ UploadRefused(c) \/ Shown(c)
            \/ CreateAnswered(c) \/ CreateFound(c) \/ CreateGivesUp(c)
            \/ Trash(c) \/ Rename(c) \/ Upload(c) \/ FilesListed(c)
  <2>1. client' = [client EXCEPT ![c] = Idle]
    BY <1>10 DEF MkcolExists, Missing, PutNowhere, UploadRefused, Shown, Answer, CreateAnswered,
                 CreateFound, CreateGivesUp, Created, Trash, Rename, Upload, FilesListed, Become
  <2>2. q = Idle
    BY <1>5, <2>1
  <2> QED BY <1>3, <2>2, IdleFits
<1> QED BY <1>6, <1>7, <1>8, <1>9, <1>10 DEF Continue


LEMMA AbsentNext ==
  ASSUME \A c \in Clients : Unseen(client'[c]) => \A d : d = client'[c].dir => Settled(d)'
  PROVE  AbsentInv'
<1>1. ASSUME NEW c \in Clients, Unseen(client'[c]) PROVE Settled(client[c].dir)'
  BY <1>1 DEF Settled, Named, Live
<1> QED BY <1>1 DEF AbsentInv, Unseen, Alone

LEMMA AbsentKept ==
  ASSUME TypedInv, LockInv, MetInv, AbsentInv, [Next]_vars
  PROVE  AbsentInv'
<1>1. ASSUME NEW c \in Clients, NewRequests(c) PROVE AbsentInv'
  <2>1. PICK r, r2 : Comes(c, r, r2)
    BY <1>1, NewRequestComes
  <2>0. r \in Request /\ Fits(r2, r) /\ Arrives(c, r, r2)
    BY <2>1 DEF Comes
  <2>2. UNCHANGED <<folder, known, holder>>
    BY <2>0 DEF Arrives, provider
  <2>3. \A d : Settled(d) => Settled(d)'
    BY <2>2 DEF Settled, Named, Live
  <2>7. /\ client'[c].pc = r2.pc /\ client'[c].next = r2.next /\ client'[c].item = r2.item
        /\ client'[c].snap = r2.snap
    BY <2>0, ArrivalShape
  <2>4. ASSUME NEW d, d = client'[c].dir, Unseen(client'[c]) PROVE Settled(d)'
    <3>2. /\ r2.pc = "listed" /\ r2.next = "check" => r2.snap =
                [i \in FolderIds |-> IF Live(i) THEN folder[i].name ELSE None]
          /\ r2.pc = "check" => r2.item # None
          /\ r2.pc # "lock"
      BY <2>1 DEF Comes
    <3>3. /\ \A i \in FolderIds : client'[c].snap[i] # client'[c].dir
          /\ client'[c].snap = [i \in FolderIds |-> IF Live(i) THEN folder[i].name ELSE None]
      BY <2>4, <2>7, <3>2 DEF Unseen
    <3>4. Named(d) = {}
      BY <2>4, <3>3 DEF Named
    <3> QED BY <2>3, <3>4 DEF Settled
  <2>5. ASSUME NEW o \in Clients \ {c}, NEW d, d = client'[o].dir, Unseen(client'[o])
        PROVE  Settled(d)'
    <3>1. /\ client'[o].kind = client[o].kind /\ client'[o].dir = client[o].dir
          /\ client'[o].pc = client[o].pc
          /\ client'[o].next = client[o].next /\ client'[o].item = client[o].item
          /\ client'[o].snap = client[o].snap /\ client[o].met \subseteq client'[o].met
      BY <2>0, ArrivalShape
    <3>2. Unseen(client[o])
      BY <2>5, <3>1 DEF Unseen, Alone
    <3> QED BY <2>3, <2>5, <3>1, <3>2 DEF AbsentInv
  <2>6. \A o \in Clients : Unseen(client'[o]) => \A d : d = client'[o].dir => Settled(d)'
    BY <2>4, <2>5
  <2> QED BY <2>6, AbsentNext
<1>2. ASSUME NEW c \in Clients, Continue(c) PROVE AbsentInv'
  <2>1. PICK q : Advances(c, q)
    BY <1>2, ContinueAdvances
  <2>2. ASSUME NEW o \in Clients, NEW d, d = client'[o].dir, Unseen(client'[o])
        PROVE  Settled(d)'
    <3>1. Unseen(client[o]) /\ client'[o].dir = client[o].dir
      <4>1. CASE o = c
        BY <1>2, <2>2, <4>1, UnseenBefore
      <4>2. CASE o # c
        BY <2>1, <2>2, <4>2, AdvanceShape
      <4> QED BY <4>1, <4>2
    <3>2. client[o].dir \in Dirs /\ client[o].kind = "MKCOL"
      BY <3>1, ClientFits DEF Unseen, Placed
    <3>3. client[c].kind \in {"MOVE", "DELETE"} => client[o].dir \notin Touches(client[c])
      <4>1. client[o].dir \in Touches(client[o])
        BY <3>2, NamesDiffer DEF Touches
      <4>2. ASSUME client[c].kind \in {"MOVE", "DELETE"}, client[o].dir \in Touches(client[c])
            PROVE  FALSE
        <5>1. o # c
          BY <3>2, <4>2
        <5>2. client[c].kind \in client[o].met
          BY <4>1, <4>2, <5>1 DEF MetInv
        <5> QED BY <3>1, <4>2, <5>2 DEF Unseen, Alone
      <4> QED BY <4>2
    <3>4. Settled(client[o].dir)
      BY <3>1 DEF AbsentInv
    <3> QED BY <1>2, <2>2, <3>1, <3>2, <3>3, <3>4, SettledKept
  <2> QED BY <2>2, AbsentNext
<1>3. CASE Restart
  <2>1. \A c \in Clients : client'[c] = Idle
    BY <1>3 DEF Restart
  <2>2. \A c \in Clients : client'[c].kind # "MKCOL"
    BY <2>1, IdleFits
  <2> QED BY <2>2 DEF AbsentInv, Unseen
<1>4. CASE UNCHANGED <<folder, known, holder, client>>
  BY <1>4 DEF AbsentInv, Unseen, Settled, Named, Live, Alone
<1> QED BY <1>1, <1>2, <1>3, <1>4 DEF Next, Forget, provider, vars


\* The folders under a second name, and the creations that would make one.
Dups == {i \in FolderIds : Live(i) /\ folder[i].name = DupName}
Bad == Dups \ excused
Owed == excused \ Dups
Pending == {c \in Clients : /\ client[c].pc = "create" /\ Alone(client[c])
                            /\ Named(client[c].dir) # {}}

\* A second name that is not excused, made or about to be made, is owed to a
\* folder of the right name whose creation was excused.
BalanceInv ==
    /\ IsFiniteSet(excused) /\ IsFiniteSet(Bad) /\ IsFiniteSet(Pending)
    /\ \A i \in excused : i \in FolderIds /\ folder[i].st # "free"
    /\ Cardinality(Bad) + Cardinality(Pending) <= Cardinality(Owed)

LEMMA SubsetCount ==
  ASSUME NEW S, NEW T, IsFiniteSet(S), T \subseteq S
  PROVE  /\ IsFiniteSet(T) /\ Cardinality(T) \in Nat /\ Cardinality(S) \in Nat
         /\ Cardinality(T) <= Cardinality(S)
  BY FS_Subset, FS_CardinalityType

LEMMA AddCount ==
  ASSUME NEW S, NEW T, NEW x, IsFiniteSet(S), T \subseteq S \cup {x}
  PROVE  /\ IsFiniteSet(T) /\ Cardinality(T) \in Nat /\ Cardinality(S) \in Nat
         /\ Cardinality(T) <= Cardinality(S) + 1
<1>0. Cardinality(S) \in Nat
  BY FS_CardinalityType
<1>1. IsFiniteSet(S \cup {x}) /\ Cardinality(S \cup {x}) <= Cardinality(S) + 1
  BY <1>0, FS_AddElement
<1>2. Cardinality(S) \in Nat /\ Cardinality(S \cup {x}) \in Nat
  BY <1>1, FS_CardinalityType
<1> QED BY <1>1, <1>2, SubsetCount

LEMMA DropCount ==
  ASSUME NEW S, NEW T, NEW x \in S, IsFiniteSet(S), T \subseteq S \ {x}
  PROVE  /\ IsFiniteSet(T) /\ Cardinality(T) \in Nat /\ Cardinality(S) \in Nat
         /\ Cardinality(T) + 1 <= Cardinality(S)
<1>1. IsFiniteSet(S \ {x}) /\ Cardinality(S \ {x}) = Cardinality(S) - 1
  BY FS_RemoveElement
<1>2. Cardinality(S) \in Nat /\ Cardinality(S \ {x}) \in Nat
  BY <1>1, FS_CardinalityType
<1>3. IsFiniteSet(T) /\ Cardinality(T) \in Nat /\ Cardinality(T) <= Cardinality(S \ {x})
  BY <1>1, SubsetCount
<1> QED BY <1>1, <1>2, <1>3

\* Nothing is added to what is owed for.
LEMMA BalanceShrinks ==
  ASSUME BalanceInv, IsFiniteSet(excused'), Bad' \subseteq Bad, Pending' \subseteq Pending,
         Owed \subseteq Owed', \A i \in excused' : i \in FolderIds /\ folder'[i].st # "free"
  PROVE  BalanceInv'
<1>1. IsFiniteSet(Bad) /\ IsFiniteSet(Pending) /\ IsFiniteSet(Owed')
  BY FS_Subset DEF BalanceInv, Owed
<1>2. /\ IsFiniteSet(Bad') /\ Cardinality(Bad') <= Cardinality(Bad)
      /\ IsFiniteSet(Pending') /\ Cardinality(Pending') <= Cardinality(Pending)
      /\ Cardinality(Owed) <= Cardinality(Owed')
      /\ Cardinality(Bad) \in Nat /\ Cardinality(Bad') \in Nat /\ Cardinality(Pending) \in Nat
      /\ Cardinality(Pending') \in Nat /\ Cardinality(Owed) \in Nat /\ Cardinality(Owed') \in Nat
  BY <1>1, SubsetCount
<1>3. Cardinality(Bad') + Cardinality(Pending') <= Cardinality(Owed')
  BY <1>2 DEF BalanceInv
<1> QED BY <1>2, <1>3 DEF BalanceInv

\* A lone creation has met nobody who touches its folder otherwise.
LEMMA LoneCreation ==
  ASSUME TypedInv, LockInv, MetInv, NEW c \in Clients, NEW o \in Clients, o # c,
         client[o].pc = "create", Alone(client[o])
  PROVE  /\ client[o].dir \in Dirs
         /\ ~(client[c].pc = "create" /\ client[c].dir = client[o].dir)
         /\ ~(Rename(c) /\ client[c].to = client[o].dir)
<1>1. client[o].kind = "MKCOL" /\ client[o].dir \in Dirs
  BY ClientFits DEF Placed, Belongs
<1>2. client[c].pc = "create" => client[c].dir # client[o].dir
  BY DEF LockInv
<1>3. ASSUME Rename(c), client[c].to = client[o].dir PROVE FALSE
  <2>1. client[c].kind = "MOVE"
    BY <1>3, Steppers
  <2>2. client[o].dir \in Touches(client[o]) /\ client[o].dir \in Touches(client[c])
    BY <1>1, <1>3, <2>1, NamesDiffer DEF Touches
  <2>3. "MOVE" \in client[o].met
    BY <2>1, <2>2 DEF MetInv
  <2> QED BY <2>3 DEF Alone
<1> QED BY <1>1, <1>2, <1>3

\* The creations of the others are pending only if they were.
LEMMA PendingBefore ==
  ASSUME TypedInv, LockInv, MetInv, NEW c \in Clients, Continue(c),
         NEW o \in Clients, o # c, o \in Pending'
  PROVE  o \in Pending
<1>1. PICK q : Advances(c, q)
  BY ContinueAdvances
<1>2. client'[o] = client[o]
  BY <1>1, AdvanceShape
<1>3. client[o].pc = "create" /\ Alone(client[o]) /\ client'[o].dir = client[o].dir
  BY <1>2 DEF Pending, Alone
<1>4. \E i \in FolderIds : folder'[i].st = "live" /\ folder'[i].name = client[o].dir
  BY <1>3 DEF Pending, Named, Live
<1>5. ASSUME NEW d, d = client[o].dir PROVE Named(d)' \subseteq Named(d)
  <2>1. /\ d \in Dirs /\ ~(client[c].pc = "create" /\ client[c].dir = d)
        /\ ~(Rename(c) /\ client[c].to = d)
    BY <1>3, <1>5, LoneCreation
  <2> QED BY <2>1, NamedBefore
<1>6. Named(client[o].dir) # {}
  BY <1>4, <1>5 DEF Named, Live
<1> QED BY <1>3, <1>6 DEF Pending

\* What makes no folder makes no second name.
LEMMA DupsBefore ==
  ASSUME TypedInv, NEW c \in Clients, Continue(c), ~CreateAnswered(c), ~CreateFails(c)
  PROVE  Dups' \subseteq Dups /\ \A i \in FolderIds : folder[i].st # "free" => folder'[i].st # "free"
<1>1. CASE UNCHANGED folder
  BY <1>1 DEF Dups, Live
<1>2. ASSUME NEW i \in FolderIds, Drops(i)
      PROVE  /\ Dups' \subseteq Dups
             /\ \A j \in FolderIds : folder[j].st # "free" => folder'[j].st # "free"
  BY <1>2, DropsShape DEF Dups, Live
<1>3. ASSUME NEW i \in FolderIds, Live(i), Renames(i, client[c].to), Rename(c)
      PROVE  /\ Dups' \subseteq Dups
             /\ \A j \in FolderIds : folder[j].st # "free" => folder'[j].st # "free"
  <2>1. client[c].to # DupName
    BY <1>3, Steppers, NamesDiffer
  <2> QED BY <1>3, <2>1, RenamesShape DEF Dups, Live
<1> QED BY <1>1, <1>2, <1>3, FolderSteps

\* Who gets the lock finds no folder.
LEMMA LockNotPending ==
  ASSUME TypedInv, AbsentInv, NEW c \in Clients, Lock(c)
  PROVE  c \notin Pending'
<1> DEFINE r == client[c]
<1>1. r.pc = "lock" /\ holder[r.dir] = None /\ UNCHANGED folder
  BY DEF Lock, At, provider
<1>2. CASE known[r.dir] # None
  <2>1. client' = [client EXCEPT ![c] = Idle]
    BY <1>2 DEF Lock, Become
  <2>2. client'[c] = Idle
    BY <2>1 DEF TypedInv, TypeOK
  <2> QED BY <2>2, IdleFits DEF Pending
<1>3. CASE known[r.dir] = None
  <2> DEFINE q == [r EXCEPT !.pc = "create"]
  <2>1. client' = [client EXCEPT ![c] = q]
    BY <1>3 DEF Lock, Become
  <2>2. client'[c] = q
    BY <2>1 DEF TypedInv, TypeOK
  <2>3. q.dir = r.dir /\ q.met = r.met
    BY ClientFits DEF Request
  <2>4. r.kind = "MKCOL"
    BY Steppers
  <2>5. ASSUME c \in Pending' PROVE FALSE
    <3>1. Alone(r)
      BY <2>2, <2>3, <2>5 DEF Pending, Alone
    <3>2. Settled(r.dir)
      BY <1>1, <2>4, <3>1 DEF AbsentInv, Unseen
    <3>3. Named(r.dir) = {}
      BY <1>1, <1>3, <3>2 DEF Settled
    <3>4. \E i \in FolderIds : folder'[i].st = "live" /\ folder'[i].name = r.dir
      <4> HIDE DEF q
      <4> QED BY <2>2, <2>3, <2>5 DEF Pending, Named, Live
    <3> QED BY <1>1, <3>3, <3>4 DEF Named, Live
  <2> QED BY <2>5
<1> QED BY <1>2, <1>3

LEMMA AnsweredKeepsBalance ==
  ASSUME TypedInv, LockInv, MetInv, BalanceInv, NEW c \in Clients, CreateAnswered(c)
  PROVE  BalanceInv'
<1> DEFINE r == client[c]
<1>1. PICK i \in FolderIds :
         /\ Makes(r.dir, i) /\ Created(c, i)
         /\ excused' = IF {"MOVE", "DELETE"} \cap r.met # {} THEN excused \cup {i} ELSE excused
  BY DEF CreateAnswered
<1>2. r.dir \in Dirs /\ r.pc = "create" /\ r.kind = "MKCOL"
  BY Steppers
<1>3. /\ folder[i].st = "free" /\ folder'[i].st = "live"
      /\ folder'[i].name = IF Named(r.dir) = {} THEN r.dir ELSE DupName
      /\ \A j \in FolderIds \ {i} : folder'[j] = folder[j]
  BY <1>1, <1>2, MakesShape
<1>4. i \notin excused /\ i \notin Dups
  BY <1>3 DEF BalanceInv, Dups, Live
<1>5. c \notin Pending'
  <2>1. client'[c] = Idle
    BY <1>1 DEF Created, Become, TypedInv, TypeOK
  <2> QED BY <2>1, IdleFits DEF Pending
<1>6. Pending' \subseteq Pending \ {c}
  <2>1. Continue(c)
    BY DEF Continue
  <2>2. \A o \in Clients : o # c /\ o \in Pending' => o \in Pending
    BY <2>1, PendingBefore
  <2>3. Pending' \subseteq Clients
    BY DEF Pending
  <2> QED BY <1>5, <2>2, <2>3
<1>7. IsFiniteSet(excused') /\ \A j \in excused' : j \in FolderIds /\ folder'[j].st # "free"
  BY <1>1, <1>3, FS_AddElement DEF BalanceInv
<1>8. CASE Named(r.dir) = {}
  <2>1. Dups' \subseteq Dups
    BY <1>2, <1>3, <1>8, NamesDiffer DEF Dups, Live
  <2>2. Bad' \subseteq Bad /\ Owed \subseteq Owed'
    BY <1>1, <2>1 DEF Bad, Owed
  <2> QED BY <1>6, <1>7, <2>2, BalanceShrinks
<1>9. CASE Named(r.dir) # {} /\ ~Alone(r)
  <2>1. excused' = excused \cup {i} /\ Dups' \subseteq Dups \cup {i}
    BY <1>1, <1>3, <1>9 DEF Alone, Dups, Live
  <2>2. Bad' \subseteq Bad /\ Owed \subseteq Owed'
    BY <1>4, <2>1 DEF Bad, Owed
  <2> QED BY <1>6, <1>7, <2>2, BalanceShrinks
<1>10. CASE Named(r.dir) # {} /\ Alone(r)
  <2>1. c \in Pending
    BY <1>2, <1>10 DEF Pending
  <2>2. excused' = excused /\ Dups' \subseteq Dups \cup {i}
    BY <1>1, <1>3, <1>10 DEF Alone, Dups, Live
  <2>3. Bad' \subseteq Bad \cup {i} /\ Owed \subseteq Owed'
    BY <1>4, <2>2 DEF Bad, Owed
  <2>4. IsFiniteSet(Bad) /\ IsFiniteSet(Pending) /\ IsFiniteSet(Owed')
    BY <1>7, FS_Subset DEF BalanceInv, Owed
  <2>5. /\ IsFiniteSet(Bad') /\ Cardinality(Bad') <= Cardinality(Bad) + 1
        /\ Cardinality(Bad) \in Nat /\ Cardinality(Bad') \in Nat
    BY <2>3, <2>4, AddCount
  <2>6. /\ IsFiniteSet(Pending') /\ Cardinality(Pending') + 1 <= Cardinality(Pending)
        /\ Cardinality(Pending) \in Nat /\ Cardinality(Pending') \in Nat
    BY <1>6, <2>1, <2>4, DropCount
  <2>7. /\ Cardinality(Owed) <= Cardinality(Owed')
        /\ Cardinality(Owed) \in Nat /\ Cardinality(Owed') \in Nat
    BY <2>3, <2>4, SubsetCount
  <2>8. Cardinality(Bad') + Cardinality(Pending') <= Cardinality(Owed')
    BY <2>5, <2>6, <2>7 DEF BalanceInv
  <2> QED BY <1>7, <2>5, <2>6, <2>8 DEF BalanceInv
<1> QED BY <1>8, <1>9, <1>10

LEMMA FailsKeepsBalance ==
  ASSUME TypedInv, LockInv, MetInv, BalanceInv, NEW c \in Clients, CreateFails(c)
  PROVE  BalanceInv'
<1> DEFINE r == client[c]
           q == [r EXCEPT !.tries = @ + 1]
<1>1. r.dir \in Dirs /\ r.pc = "create" /\ r.kind = "MKCOL"
  BY Steppers
<1>2. client'[c] = q /\ q.pc = r.pc /\ q.dir = r.dir /\ q.met = r.met
  BY ClientFits DEF CreateFails, Become, TypedInv, TypeOK, Request
<1> HIDE DEF q
<1>3. Pending' \subseteq Pending \cup {c}
  <2>1. Continue(c)
    BY DEF Continue
  <2>2. \A o \in Clients : o # c /\ o \in Pending' => o \in Pending
    BY <2>1, PendingBefore
  <2>3. Pending' \subseteq Clients
    BY DEF Pending
  <2> QED BY <2>2, <2>3
<1>4. CASE UNCHANGED <<folder, excused>>
  <2>1. c \in Pending' => c \in Pending
    BY <1>2, <1>4 DEF Pending, Alone, Named, Live
  <2>2. Pending' \subseteq Pending /\ Bad' \subseteq Bad /\ Owed \subseteq Owed'
    BY <1>3, <1>4, <2>1 DEF Bad, Owed, Dups, Live
  <2>3. IsFiniteSet(excused') /\ \A j \in excused' : j \in FolderIds /\ folder'[j].st # "free"
    BY <1>4 DEF BalanceInv
  <2> QED BY <2>2, <2>3, BalanceShrinks
<1>5. ASSUME NEW i \in FolderIds, Makes(r.dir, i), excused' = excused \cup {i}
      PROVE  BalanceInv'
  <2>1. /\ folder[i].st = "free" /\ folder'[i].st = "live"
        /\ folder'[i].name = IF Named(r.dir) = {} THEN r.dir ELSE DupName
        /\ \A j \in FolderIds \ {i} : folder'[j] = folder[j]
    BY <1>1, <1>5, MakesShape
  <2>2. i \notin excused /\ i \notin Dups
    BY <2>1 DEF BalanceInv, Dups, Live
  <2>3. IsFiniteSet(excused') /\ \A j \in excused' : j \in FolderIds /\ folder'[j].st # "free"
    BY <1>5, <2>1, FS_AddElement DEF BalanceInv
  <2>4. Dups' \subseteq Dups \cup {i}
    BY <2>1 DEF Dups, Live
  <2>5. Bad' \subseteq Bad /\ Owed \subseteq Owed'
    BY <1>5, <2>2, <2>4 DEF Bad, Owed
  <2>6. CASE Named(r.dir) # {}
    <3>1. c \in Pending' => c \in Pending
      BY <1>1, <1>2, <2>6 DEF Pending, Alone
    <3> QED BY <1>3, <2>3, <2>5, <3>1, BalanceShrinks
  <2>7. CASE Named(r.dir) = {}
    <3>1. i \notin Dups' /\ Owed \cup {i} \subseteq Owed'
      BY <1>1, <1>5, <2>1, <2>2, <2>4, <2>7, NamesDiffer DEF Dups, Live, Owed
    <3>2. IsFiniteSet(Bad) /\ IsFiniteSet(Pending) /\ IsFiniteSet(Owed') /\ IsFiniteSet(Owed)
      BY <2>3, FS_Subset DEF BalanceInv, Owed
    <3>3. /\ IsFiniteSet(Bad') /\ Cardinality(Bad') <= Cardinality(Bad)
          /\ Cardinality(Bad) \in Nat /\ Cardinality(Bad') \in Nat
      BY <2>5, <3>2, SubsetCount
    <3>4. /\ IsFiniteSet(Pending') /\ Cardinality(Pending') <= Cardinality(Pending) + 1
          /\ Cardinality(Pending) \in Nat /\ Cardinality(Pending') \in Nat
      BY <1>3, <3>2, AddCount
    <3>5. /\ Cardinality(Owed) + 1 <= Cardinality(Owed')
          /\ Cardinality(Owed) \in Nat /\ Cardinality(Owed') \in Nat
      <4>1. i \in Owed' /\ Owed \subseteq Owed' \ {i}
        BY <2>2, <3>1 DEF Owed
      <4> QED BY <3>2, <4>1, DropCount
    <3>6. Cardinality(Bad') + Cardinality(Pending') <= Cardinality(Owed')
      BY <3>3, <3>4, <3>5 DEF BalanceInv
    <3> QED BY <2>3, <3>3, <3>4, <3>6 DEF BalanceInv
  <2> QED BY <2>6, <2>7
<1> QED BY <1>4, <1>5 DEF CreateFails

\* The other steps of requests make no folder and start no pending creation.
LEMMA OthersKeepBalance ==
  ASSUME TypedInv, LockInv, MetInv, AbsentInv, BalanceInv, NEW c \in Clients, Continue(c),
         ~CreateAnswered(c), ~CreateFails(c)
  PROVE  BalanceInv'
<1> DEFINE r == client[c]
<1>1. excused' = excused
  BY DEF Continue, Listed, MkcolExists, MkcolAbsent, Lock, CreateFound, CreateGivesUp, NoDest,
         Missing, PutBody, PutNowhere, PutTarget, Upload, UploadRefused, Shown, FilesListed,
         Answer, Trash, TrashDest, Rename, provider
<1>2. Dups' \subseteq Dups /\ \A i \in FolderIds : folder[i].st # "free" => folder'[i].st # "free"
  BY DupsBefore
<1>3. PICK q : Advances(c, q)
  BY ContinueAdvances
<1>4. client'[c] = q /\ \A p : client' = [client EXCEPT ![c] = p] => p = q
  BY <1>3 DEF Advances, TypedInv, TypeOK
<1>5. c \notin Pending'
  <2>1. CASE Lock(c)
    BY <2>1, LockNotPending
  <2>2. CASE ~Lock(c)
    <3>1. q.pc # "create"
      <4>1. CASE Listed(c)
        <5>1. PICK item : q = [r EXCEPT !.pc = r.next, !.next = "idle", !.snap = Idle.snap,
                                        !.item = item]
          BY <1>4, <4>1 DEF Listed, Become
        <5>2. q.pc = r.next /\ r.next # "create"
          BY <5>1, ClientFits DEF Request
        <5> QED BY <5>2
      <4>2. CASE MkcolAbsent(c)
        <5>1. q = [r EXCEPT !.pc = "lock"]
          BY <1>4, <4>2 DEF MkcolAbsent, Become
        <5> QED BY <5>1, ClientFits DEF Request
      <4>3. CASE TrashDest(c) \/ NoDest(c) \/ PutBody(c)
        <5>1. q = Lookup(r, r.dir, "rename") \/ q = Lookup(r, r.dir, "target")
          BY <1>4, <4>3 DEF TrashDest, NoDest, PutBody, Become
        <5> QED BY ZenonT(60), <5>1, ClientFits DEF Lookup, Request
      <4>4. CASE PutTarget(c)
        <5>1. PICK f : q = [r EXCEPT !.pc = "upload", !.media = f]
          BY <1>4, <4>4 DEF PutTarget, Become
        <5> QED BY <5>1, ClientFits DEF Request
      <4>5. CASE \/ MkcolExists(c) \/ Missing(c) \/ PutNowhere(c) \/ UploadRefused(c) \/ Shown(c)
                 \/ CreateFound(c) \/ CreateGivesUp(c) \/ Trash(c) \/ Rename(c) \/ Upload(c)
                 \/ FilesListed(c)
        <5>1. q = Idle
          BY <1>4, <4>5 DEF MkcolExists, Missing, PutNowhere, UploadRefused, Shown, Answer,
             CreateFound, CreateGivesUp, Created, Trash, Rename, Upload, FilesListed, Become
        <5> QED BY <5>1, IdleFits
      <4> QED BY <2>2, <4>1, <4>2, <4>3, <4>4, <4>5 DEF Continue
    <3> QED BY <1>4, <3>1 DEF Pending
  <2> QED BY <2>1, <2>2
<1>6. Pending' \subseteq Pending
  <2>1. \A o \in Clients : o # c /\ o \in Pending' => o \in Pending
    BY PendingBefore
  <2>2. Pending' \subseteq Clients
    BY DEF Pending
  <2> QED BY <1>5, <2>1, <2>2
<1>7. IsFiniteSet(excused') /\ \A j \in excused' : j \in FolderIds /\ folder'[j].st # "free"
  BY <1>1, <1>2 DEF BalanceInv
<1>8. Bad' \subseteq Bad /\ Owed \subseteq Owed'
  BY <1>1, <1>2 DEF Bad, Owed
<1> QED BY <1>6, <1>7, <1>8, BalanceShrinks

FolderInv == TypedInv /\ LockInv /\ MetInv /\ AbsentInv /\ BalanceInv

LEMMA NextKeepsBalance ==
  ASSUME FolderInv, [Next]_vars
  PROVE  BalanceInv'
<1>0. TypedInv /\ LockInv /\ MetInv /\ AbsentInv /\ BalanceInv
  BY DEF FolderInv
<1>1. ASSUME UNCHANGED <<folder, excused>>, Pending' \subseteq Pending PROVE BalanceInv'
  <2>1. IsFiniteSet(excused') /\ \A j \in excused' : j \in FolderIds /\ folder'[j].st # "free"
    BY <1>0, <1>1 DEF BalanceInv
  <2>2. Bad' \subseteq Bad /\ Owed \subseteq Owed'
    BY <1>1 DEF Bad, Owed, Dups, Live
  <2> QED BY <1>0, <1>1, <2>1, <2>2, BalanceShrinks
<1>2. ASSUME NEW c \in Clients, NewRequests(c) PROVE BalanceInv'
  <2>1. PICK r, r2 : Comes(c, r, r2)
    BY <1>0, <1>2, NewRequestComes
  <2>2. r \in Request /\ Fits(r2, r) /\ Arrives(c, r, r2) /\ r2.pc # "create"
    BY <2>1 DEF Comes
  <2>3. UNCHANGED <<folder, excused>>
    BY <2>2 DEF Arrives, provider
  <2>4. client'[c].pc = r2.pc
    BY <1>0, <2>2, ArrivalShape
  <2>5. \A o \in Clients \ {c} : /\ client'[o].pc = client[o].pc /\ client'[o].dir = client[o].dir
                                 /\ client[o].met \subseteq client'[o].met
    BY <1>0, <2>2, ArrivalShape
  <2>6. ASSUME NEW o \in Pending' PROVE o \in Pending
    <3>1. o \in Clients /\ client'[o].pc = "create"
      BY DEF Pending
    <3>2. o # c
      BY <2>2, <2>4, <3>1
    <3> QED BY <2>3, <2>5, <3>1, <3>2 DEF Pending, Alone, Named, Live
  <2> QED BY <1>1, <2>3, <2>6
<1>3. ASSUME NEW c \in Clients, Continue(c) PROVE BalanceInv'
  BY <1>0, <1>3, AnsweredKeepsBalance, FailsKeepsBalance, OthersKeepBalance
<1>4. CASE Restart
  <2>1. \A c \in Clients : client'[c] = Idle
    BY <1>4 DEF Restart
  <2>2. Pending' = {}
    BY <2>1, IdleFits DEF Pending
  <2>3. UNCHANGED <<folder, excused>>
    BY <1>4 DEF Restart, provider
  <2> QED BY <1>1, <2>2, <2>3
<1>5. CASE UNCHANGED <<folder, excused, client>>
  <2>1. Pending' \subseteq Pending
    BY <1>5 DEF Pending, Alone, Named, Live
  <2> QED BY <1>1, <1>5, <2>1
<1> QED BY <1>2, <1>3, <1>4, <1>5 DEF Next, Forget, provider, vars

LEMMA InitFolder == Init => FolderInv
<1> SUFFICES ASSUME Init PROVE FolderInv
  OBVIOUS
<1>1. TypedInv /\ LockInv
  BY InitTyped, InitLock
<1>2. \A c \in Clients : client[c] = Idle
  BY DEF Init
<1>3. MetInv
  BY <1>2, IdleTouches DEF MetInv
<1>4. AbsentInv
  BY <1>2, IdleFits DEF AbsentInv, Unseen
<1>5. Pending = {} /\ excused = {}
  BY <1>2, IdleFits DEF Pending, Init
<1>6. Dups = {}
  BY NamesDiffer DEF Dups, Live, Init
<1>7. Bad = {} /\ Owed = {}
  BY <1>5, <1>6 DEF Bad, Owed
<1>8. BalanceInv
  BY <1>5, <1>7, FS_EmptySet DEF BalanceInv
<1> QED BY <1>1, <1>3, <1>4, <1>8 DEF FolderInv

LEMMA FolderInvHolds == Spec => []FolderInv
<1>1. FolderInv /\ [Next]_vars => FolderInv'
  BY NextTyped, NextKeeps, MetKept, AbsentKept, NextKeepsBalance DEF FolderInv
<1> QED BY <1>1, InitFolder, PTL DEF Spec

\* Whatever requests overlap, fail or are cut off by a restart, the provider
\* has no more second names than excuses: folders whose creation lost its
\* answer, or that a MOVE or DELETE of their path overlapped.
THEOREM OneFolder == Spec => []OneFolderPerPath
<1>1. ASSUME FolderInv PROVE OneFolderPerPath
  <2>1. BalanceInv
    BY <1>1 DEF FolderInv
  <2>2. IsFiniteSet(excused) /\ IsFiniteSet(Bad) /\ IsFiniteSet(Owed) /\ IsFiniteSet(Dups \cap excused)
    BY <2>1, FS_Subset DEF BalanceInv, Owed
  <2>3. /\ Dups = Bad \cup (Dups \cap excused) /\ Bad \cap (Dups \cap excused) = {}
        /\ excused = Owed \cup (Dups \cap excused) /\ Owed \cap (Dups \cap excused) = {}
    BY DEF Bad, Owed
  <2>4. /\ Cardinality(Dups) = Cardinality(Bad) + Cardinality(Dups \cap excused)
        /\ Cardinality(excused) = Cardinality(Owed) + Cardinality(Dups \cap excused)
    <3>1. ASSUME NEW S, NEW T, IsFiniteSet(S), IsFiniteSet(T), S \cap T = {}
          PROVE  Cardinality(S \cup T) = Cardinality(S) + Cardinality(T)
      <4>1. Cardinality(S \cup T) = Cardinality(S) + Cardinality(T) - Cardinality(S \cap T)
        BY <3>1, FS_Union
      <4>2. Cardinality(S \cap T) = 0
        BY <3>1, FS_EmptySet
      <4>3. Cardinality(S) \in Nat /\ Cardinality(T) \in Nat
        BY <3>1, FS_CardinalityType
      <4> QED BY <4>1, <4>2, <4>3
    <3> QED BY <2>2, <2>3, <3>1
  <2>5. /\ Cardinality(Bad) \in Nat /\ Cardinality(Owed) \in Nat /\ Cardinality(Pending) \in Nat
        /\ Cardinality(Dups \cap excused) \in Nat
    BY <2>1, <2>2, FS_CardinalityType DEF BalanceInv
  <2>6. Cardinality(Dups) <= Cardinality(excused)
    BY <2>1, <2>4, <2>5 DEF BalanceInv
  <2> QED BY <2>6 DEF OneFolderPerPath, Dups
<1> QED BY <1>1, FolderInvHolds, PTL

-----------------------------------------------------------------------------
(* Acknowledged files stay.  Every folder has a home: the path it was made *)
(* for, whatever its name became.  Paths that a MOVE has named may stand   *)
(* for one another (m is their set); any other path leads to folders at    *)
(* home there only, so no request of another path reaches its file.        *)

Homes == [FolderIds -> Dirs \cup {DupName}]

Alike(m, d, e) == d = e \/ {d, e} \subseteq m
AtHome(m, h, d, i) == Alike(m, d, h[i])

\* The file f, of the files x, is in a folder that path d may lead to.
FileHome(m, h, x, d, f) == x[f].st = "live" /\ AtHome(m, h, d, x[f].in)

\* What a request holds belongs to its path.
RequestHome(m, h, x, r) ==
    /\ r.kind = "MOVE" => {r.dir, r.to} \subseteq m
    /\ \A i \in FolderIds : r.snap[i] \in Dirs => AtHome(m, h, r.snap[i], i)
    /\ r.dir # None /\ r.item # None => AtHome(m, h, r.dir, r.item)
    /\ r.media # None => r.dir \in Dirs /\ FileHome(m, h, x, r.dir, r.media)

FoldersHome(h) == \A i \in FolderIds :
    /\ IF folder[i].st = "free" THEN h[i] = DupName ELSE h[i] \in Dirs
    /\ folder[i].name \in Dirs => AtHome(moved, h, folder[i].name, i)
KnownHome(h) == \A d \in Dirs : known[d] # None => AtHome(moved, h, d, known[d])
ChildHome(h) == \A d \in Dirs : child[d] # None => FileHome(moved, h, file, d, child[d])
RequestsHome(h) == \A c \in Clients : RequestHome(moved, h, file, client[c])

\* The content promised at d lies in a live folder at home there.
Stored(h, d) == \E f \in FileIds :
    Reachable(f) /\ file[f].v = promise[d] /\ h[file[f].in] = d
PromisesHome(h) == \A d \in Dirs \ moved : promise[d] \in 1..MaxRequests => Stored(h, d)

HomeSound(h) ==
    /\ h \in Homes
    /\ FoldersHome(h) /\ KnownHome(h) /\ ChildHome(h) /\ RequestsHome(h) /\ PromisesHome(h)
HomeInv == \E h \in Homes : HomeSound(h)

LEMMA AlikeFacts ==
  ASSUME NEW m, NEW n, m \subseteq n, NEW d, NEW e, NEW k
  PROVE  /\ Alike(m, d, d) /\ (Alike(m, d, e) => Alike(m, e, d)) /\ (Alike(m, d, e) => Alike(n, d, e))
         /\ Alike(m, d, e) /\ Alike(m, e, k) => Alike(m, d, k)
         /\ Alike(m, d, e) /\ d \notin m => d = e
         /\ Alike(m, d, e) /\ d \in m => e \in m
  BY DEF Alike

\* A path that no MOVE has named leads to folders made for it.
LEMMA OwnHome ==
  ASSUME NEW m, NEW h, NEW d, NEW i, AtHome(m, h, d, i)
  PROVE  /\ d \notin m \/ h[i] \notin m => h[i] = d
         /\ d \in m => h[i] \in m
  BY DEF AtHome, Alike

\* A folder at home anywhere is not free.
LEMMA NotFree ==
  ASSUME TypedInv, NEW h, FoldersHome(h), NEW d \in Dirs, NEW i \in FolderIds,
         AtHome(moved, h, d, i)
  PROVE  h[i] \in Dirs /\ folder[i].st # "free"
<1>1. h[i] \in Dirs
  BY DEF AtHome, Alike, TypedInv, TypeOK
<1> QED BY <1>1, NamesDiffer DEF FoldersHome

\* What of a request its home speaks of.
SameSight(q, r) ==
    /\ q.kind = r.kind /\ q.dir = r.dir /\ q.to = r.to
    /\ q.item = r.item /\ q.media = r.media /\ q.snap = r.snap

LEMMA SightHome ==
  ASSUME NEW m, NEW h, NEW x, NEW q, NEW r, SameSight(q, r), RequestHome(m, h, x, r)
  PROVE  RequestHome(m, h, x, q)
  BY DEF SameSight, RequestHome

LEMMA IdleHome ==
  ASSUME NEW m, NEW h, NEW x
  PROVE  RequestHome(m, h, x, Idle)
<1>1. /\ Idle.kind = "none" /\ Idle.dir = None /\ Idle.media = None
      /\ Idle.snap = [i \in FolderIds |-> None]
  BY DEF Idle, NewRequest
<1> QED BY <1>1, NamesDiffer DEF RequestHome

\* Homes that are given to folders that had none, and files that stay where
\* their paths may lead.
Grows(h, g) == \A i \in FolderIds : g[i] = h[i] \/ h[i] = DupName
FilesStay(h, g) == \A f \in FileIds : file[f].st = "live" =>
    /\ file'[f].st = "live"
    /\ \A d \in Dirs : AtHome(moved, h, d, file[f].in) => AtHome(moved', g, d, file'[f].in)

LEMMA HomesGrow ==
  ASSUME TypedInv, NEW h, NEW g, Grows(h, g), NEW m, moved \subseteq m,
         NEW d \in Dirs, NEW i \in FolderIds, AtHome(moved, h, d, i)
  PROVE  AtHome(m, g, d, i)
<1>1. h[i] \in Dirs
  BY DEF AtHome, Alike, TypedInv, TypeOK
<1>2. g[i] = h[i]
  BY <1>1, NamesDiffer DEF Grows
<1> QED BY <1>2, AlikeFacts DEF AtHome

LEMMA SameFilesStay ==
  ASSUME TypedInv, NEW h, NEW g, Grows(h, g), moved \subseteq moved', UNCHANGED file
  PROVE  FilesStay(h, g)
<1>1. \A f \in FileIds : file[f].in \in FolderIds
  BY DEF TypedInv, TypeOK
<1> QED BY <1>1, HomesGrow DEF FilesStay

LEMMA RequestGrows ==
  ASSUME TypedInv, NEW h, NEW g, Grows(h, g), FilesStay(h, g), moved \subseteq moved',
         NEW c \in Clients, RequestHome(moved, h, file, client[c])
  PROVE  RequestHome(moved', g, file', client[c])
<1>1. PICK r : r = client[c]
  OBVIOUS
<1>2. /\ r.item \in FolderIds \cup {None} /\ r.media \in FileIds \cup {None}
      /\ r.dir \in Dirs \cup {None} /\ RequestHome(moved, h, file, r)
  BY <1>1, ClientFits
<1>3. r.kind = "MOVE" => {r.dir, r.to} \subseteq moved'
  BY <1>2 DEF RequestHome
<1>4. ASSUME NEW i \in FolderIds, r.snap[i] \in Dirs PROVE AtHome(moved', g, r.snap[i], i)
  BY <1>2, <1>4, HomesGrow DEF RequestHome
<1>5. r.dir # None /\ r.item # None => AtHome(moved', g, r.dir, r.item)
  BY <1>2, HomesGrow DEF RequestHome
<1>6. r.media # None => r.dir \in Dirs /\ FileHome(moved', g, file', r.dir, r.media)
  <2>1. SUFFICES ASSUME r.media # None
        PROVE  r.dir \in Dirs /\ FileHome(moved', g, file', r.dir, r.media)
    OBVIOUS
  <2>2. r.dir \in Dirs /\ r.media \in FileIds /\ FileHome(moved, h, file, r.dir, r.media)
    BY <1>2, <2>1 DEF RequestHome
  <2> QED BY <2>2 DEF FilesStay, FileHome
<1>7. RequestHome(moved', g, file', r)
  BY <1>3, <1>4, <1>5, <1>6 DEF RequestHome
<1> QED BY <1>1, <1>7

\* What a step must show of what it changes.
LEMMA HomeKept ==
  ASSUME TypedInv, NEW h, HomeSound(h), NEW g \in Homes, Grows(h, g), FilesStay(h, g),
         moved \subseteq moved', FoldersHome(g)', PromisesHome(g)',
         \A d \in Dirs : known'[d] \in {known[d], None} \/ AtHome(moved', g, d, known'[d]),
         \A d \in Dirs : child'[d] \in {child[d], None} \/ FileHome(moved', g, file', d, child'[d]),
         \A c \in Clients : \/ client'[c] = client[c] \/ SameSight(client'[c], client[c])
                            \/ RequestHome(moved', g, file', client'[c])
  PROVE  HomeInv'
<1>1. FoldersHome(h) /\ KnownHome(h) /\ ChildHome(h) /\ RequestsHome(h)
  BY DEF HomeSound
<1>2. ASSUME NEW d \in Dirs, known'[d] # None PROVE AtHome(moved', g, d, known'[d])
  <2>1. CASE known'[d] = known[d]
    <3>1. known[d] \in FolderIds /\ AtHome(moved, h, d, known[d])
      BY <1>1, <1>2, <2>1 DEF KnownHome, TypedInv, TypeOK
    <3> QED BY <2>1, <3>1, HomesGrow
  <2> QED BY <1>2, <2>1
<1>3. ASSUME NEW d \in Dirs, child'[d] # None PROVE FileHome(moved', g, file', d, child'[d])
  <2>1. CASE child'[d] = child[d]
    <3>1. child[d] \in FileIds /\ FileHome(moved, h, file, d, child[d])
      BY <1>1, <1>3, <2>1 DEF ChildHome, TypedInv, TypeOK
    <3> QED BY <2>1, <3>1 DEF FilesStay, FileHome
  <2> QED BY <1>3, <2>1
<1>4. ASSUME NEW c \in Clients PROVE RequestHome(moved', g, file', client'[c])
  <2>1. RequestHome(moved', g, file', client[c])
    BY <1>1, RequestGrows DEF RequestsHome
  <2> QED BY <2>1, SightHome
<1>5. KnownHome(g)'
  BY <1>2 DEF KnownHome
<1>6. ChildHome(g)'
  BY <1>3 DEF ChildHome
<1>7. RequestsHome(g)'
  BY <1>4 DEF RequestsHome
<1> QED BY <1>5, <1>6, <1>7 DEF HomeInv, HomeSound

LEMMA GrowsItself == \A h : Grows(h, h)
  BY DEF Grows

\* Homes stay right while no folder changes.
LEMMA FoldersStay ==
  ASSUME TypedInv, NEW h, FoldersHome(h), moved \subseteq moved', UNCHANGED folder
  PROVE  FoldersHome(h)'
<1>1. ASSUME NEW i \in FolderIds
      PROVE  /\ IF folder'[i].st = "free" THEN h[i] = DupName ELSE h[i] \in Dirs
             /\ folder'[i].name \in Dirs => AtHome(moved', h, folder'[i].name, i)
  <2>1. /\ IF folder[i].st = "free" THEN h[i] = DupName ELSE h[i] \in Dirs
        /\ folder[i].name \in Dirs => AtHome(moved, h, folder[i].name, i)
    BY DEF FoldersHome
  <2>2. folder[i].name \in Dirs => AtHome(moved', h, folder[i].name, i)
    BY <2>1, GrowsItself, HomesGrow
  <2> QED BY <2>1, <2>2
<1> QED BY <1>1 DEF FoldersHome

\* A promise is kept at its path unless its folder or its file is touched.
LEMMA PromisesStay ==
  ASSUME TypedInv, NEW h, NEW g, PromisesHome(h), Grows(h, g), moved \subseteq moved',
         \A d \in Dirs \ moved' : promise'[d] \in {promise[d], None, Unsure},
         \A d \in Dirs \ moved' : promise'[d] = promise[d] /\ promise[d] \notin {None, Unsure} =>
            \A f \in FileIds : Reachable(f) /\ h[file[f].in] = d =>
               file'[f] = file[f] /\ folder'[file[f].in].st = "live"
  PROVE  PromisesHome(g)'
<1>1. SUFFICES ASSUME NEW d \in Dirs \ moved', promise'[d] \in 1..MaxRequests
               PROVE  \E f \in FileIds : /\ file'[f].st = "live" /\ folder'[file'[f].in].st = "live"
                                         /\ file'[f].v = promise'[d] /\ g[file'[f].in] = d
  BY DEF PromisesHome, Stored, Reachable, Live
<1>2. MaxRequests \in Nat /\ None \notin Nat /\ Unsure \notin Nat
  BY FoldersAssumption
<1>3. promise'[d] = promise[d]
  BY <1>1, <1>2
<1>4. PICK f \in FileIds : Reachable(f) /\ file[f].v = promise[d] /\ h[file[f].in] = d
  BY <1>1, <1>3 DEF PromisesHome, Stored
<1>5. file'[f] = file[f] /\ folder'[file[f].in].st = "live"
  BY <1>1, <1>2, <1>3, <1>4
<1>6. g[file[f].in] = d
  BY <1>4, NamesDiffer DEF Grows, TypedInv, TypeOK
<1> QED BY <1>3, <1>4, <1>5, <1>6 DEF Reachable

\* The common case: no folder and no file changes, and nothing new is promised.
LEMMA QuietStep ==
  ASSUME TypedInv, NEW h, HomeSound(h), UNCHANGED <<folder, file>>, moved \subseteq moved',
         \A d \in Dirs : promise'[d] \in {promise[d], None, Unsure},
         \A d \in Dirs : known'[d] \in {known[d], None} \/ AtHome(moved', h, d, known'[d]),
         \A d \in Dirs : child'[d] \in {child[d], None} \/ FileHome(moved', h, file, d, child'[d]),
         \A c \in Clients : \/ client'[c] = client[c] \/ SameSight(client'[c], client[c])
                            \/ RequestHome(moved', h, file, client'[c])
  PROVE  HomeInv'
<1>1. h \in Homes /\ FoldersHome(h) /\ PromisesHome(h) /\ Grows(h, h)
  BY GrowsItself DEF HomeSound
<1>2. FilesStay(h, h)
  BY <1>1, SameFilesStay
<1>3. FoldersHome(h)'
  BY <1>1, FoldersStay
<1>4. PromisesHome(h)'
  <2>1. \A f \in FileIds : Reachable(f) => file'[f] = file[f] /\ folder'[file[f].in].st = "live"
    BY DEF Reachable, Live
  <2> QED BY <1>1, <2>1, PromisesStay
<1> QED BY <1>1, <1>2, <1>3, <1>4, HomeKept

-----------------------------------------------------------------------------
(* Lookups and listings.                                                   *)

\* What a lookup finds or reads is at home wherever its path may lead.
LEMMA LookupHome ==
  ASSUME TypedInv, NEW h, HomeSound(h), NEW m, moved \subseteq m, NEW r \in Request, NEW d \in Dirs,
         NEW next, Alike(m, r.dir, d), RequestHome(m, h, file, r)
  PROVE  RequestHome(m, h, file, Lookup(r, d, next))
<1>1. FoldersHome(h) /\ KnownHome(h)
  BY DEF HomeSound
<1>2. PICK q : q = Lookup(r, d, next)
  OBVIOUS
<1>3. CASE known[d] # None
  <2>1. /\ q.kind = r.kind /\ q.dir = r.dir /\ q.to = r.to /\ q.media = r.media /\ q.snap = r.snap
        /\ q.item = known[d]
    BY <1>2, <1>3 DEF Lookup, Request
  <2>2. AtHome(m, h, r.dir, known[d])
    BY <1>1, <1>3, AlikeFacts DEF KnownHome, AtHome
  <2> QED BY <1>2, <2>1, <2>2 DEF RequestHome
<1>4. CASE known[d] = None
  <2>1. /\ q.kind = r.kind /\ q.dir = r.dir /\ q.to = r.to /\ q.media = r.media /\ q.item = r.item
        /\ \A i \in FolderIds : q.snap[i] = IF Live(i) THEN folder[i].name ELSE None
    BY <1>2, <1>4 DEF Lookup, Request
  <2>2. \A i \in FolderIds : q.snap[i] \in Dirs => AtHome(m, h, q.snap[i], i)
    BY <1>1, <2>1, NamesDiffer, HomesGrow, GrowsItself DEF FoldersHome
  <2> QED BY <1>2, <2>1, <2>2 DEF RequestHome
<1> QED BY <1>3, <1>4

\* What is listed under a path becomes what it leads to.
LEMMA ListedHome ==
  ASSUME TypedInv, NEW h, HomeSound(h), NEW c \in Clients, Listed(c)
  PROVE  HomeInv'
<1>1. PICK r : r = client[c]
  OBVIOUS
<1>2. /\ r \in Request /\ Placed(r) /\ RequestHome(moved, h, file, r) /\ r.dir \in Dirs \cup {None}
      /\ r.to \in Dirs \cup {None}
  BY <1>1, ClientFits DEF HomeSound, RequestsHome
<1>3. PICK shown : shown = {i \in FolderIds : r.snap[i] = Sought(r)}
  OBVIOUS
<1>4. PICK item : item = IF shown = {} THEN None ELSE CHOOSE i \in shown : TRUE
  OBVIOUS
<1>5. PICK q : q = [r EXCEPT !.pc = r.next, !.next = "idle", !.snap = Idle.snap, !.item = item]
  OBVIOUS
<1>6. client'[c] = q /\ \A o \in Clients \ {c} : client'[o] = client[o]
  BY <1>1, <1>3, <1>4, <1>5 DEF Listed, Become, TypedInv, TypeOK
<1>7. /\ q.kind = r.kind /\ q.dir = r.dir /\ q.to = r.to /\ q.media = r.media /\ q.item = item
      /\ q.snap = [i \in FolderIds |-> None]
  BY <1>2, <1>5 DEF Request, Idle, NewRequest
<1>8. r.dir # None /\ item # None => AtHome(moved, h, r.dir, item)
  <2>1. SUFFICES ASSUME r.dir # None, item # None PROVE AtHome(moved, h, r.dir, item)
    OBVIOUS
  <2>2. item \in FolderIds /\ r.snap[item] = Sought(r)
    BY <1>3, <1>4, <2>1
  <2>3. CASE Sought(r) = r.dir
    BY <1>2, <2>1, <2>2, <2>3 DEF RequestHome
  <2>4. CASE Sought(r) = r.to /\ r.next = "dest"
    <3>1. r.to \in Dirs /\ {r.dir, r.to} \subseteq moved
      BY <1>2, <2>4 DEF Placed, Belongs, RequestHome
    <3>2. AtHome(moved, h, r.to, item)
      BY <1>2, <2>2, <2>4, <3>1 DEF RequestHome
    <3> QED BY <3>1, <3>2 DEF AtHome, Alike
  <2> QED BY <2>3, <2>4 DEF Sought
<1>9. RequestHome(moved, h, file, q)
  BY <1>2, <1>7, <1>8, NamesDiffer DEF RequestHome
<1>10. ASSUME NEW d \in Dirs PROVE known'[d] = known[d] \/ AtHome(moved, h, d, known'[d])
  <2>1. known'[d] = IF \E i \in FolderIds : r.snap[i] = d
                    THEN CHOOSE i \in FolderIds : r.snap[i] = d ELSE known[d]
    BY <1>1 DEF Listed, Absorbed
  <2>2. CASE \E i \in FolderIds : r.snap[i] = d
    <3>1. known'[d] \in FolderIds /\ r.snap[known'[d]] = d
      BY <2>1, <2>2
    <3> QED BY <1>2, <3>1 DEF RequestHome
  <2> QED BY <2>1, <2>2
<1>11. UNCHANGED <<folder, file, child, promise, moved>>
  BY DEF Listed, provider
<1> QED BY <1>6, <1>9, <1>10, <1>11, QuietStep

\* Steps that only go on, give up or answer.
LEMMA GoesOnHome ==
  ASSUME TypedInv, NEW h, HomeSound(h), NEW c \in Clients,
         \/ MkcolExists(c) \/ MkcolAbsent(c) \/ Lock(c) \/ CreateFound(c) \/ CreateGivesUp(c)
         \/ Missing(c) \/ PutNowhere(c) \/ UploadRefused(c) \/ Shown(c)
  PROVE  HomeInv'
<1>1. PICK r : r = client[c]
  OBVIOUS
<1>2. /\ r \in Request
      /\ client'[c] = Idle \/ \E pc \in {"lock", "create"} : client'[c] = [r EXCEPT !.pc = pc]
      /\ \A o \in Clients \ {c} : client'[o] = client[o]
  <2>1. \E q \in {Idle, [r EXCEPT !.pc = "lock"], [r EXCEPT !.pc = "create"]} :
           client' = [client EXCEPT ![c] = q]
    BY <1>1 DEF MkcolExists, MkcolAbsent, Lock, CreateFound, CreateGivesUp, Missing, PutNowhere,
                UploadRefused, Shown, Answer, Created, Become
  <2> QED BY <1>1, <2>1, ClientFits DEF TypedInv, TypeOK
<1>3. ASSUME NEW pc PROVE SameSight([r EXCEPT !.pc = pc], r)
  BY <1>2 DEF SameSight, Request
<1>4. UNCHANGED <<folder, file, child, moved>>
  BY DEF MkcolExists, MkcolAbsent, Lock, CreateFound, CreateGivesUp, Missing, PutNowhere,
         UploadRefused, Shown, Answer, provider
<1>5. CASE CreateFound(c)
  <2>1. PICK i \in FolderIds : i \in Named(r.dir) /\ Created(c, i)
    BY <1>1, <1>5 DEF CreateFound, Named
  <2>2. r.dir \in Dirs /\ folder[i].name = r.dir
    BY <1>1, <1>5, <2>1, Steppers DEF Named
  <2>3. AtHome(moved, h, r.dir, i)
    BY <2>2 DEF HomeSound, FoldersHome
  <2>4. \A d \in Dirs : known'[d] = known[d] \/ AtHome(moved', h, d, known'[d])
    BY <1>1, <1>4, <2>1, <2>3 DEF Created, TypedInv, TypeOK
  <2>5. \A d \in Dirs : promise'[d] \in {promise[d], None, Unsure}
    BY <1>1, <2>1 DEF Created, Acked, TypedInv, TypeOK
  <2>6. client'[c] = Idle
    BY <2>1 DEF Created, Become, TypedInv, TypeOK
  <2> QED BY <1>2, <1>4, <2>4, <2>5, <2>6, IdleHome, QuietStep
<1>6. CASE ~CreateFound(c)
  <2>1. UNCHANGED <<known, promise>>
    BY <1>6 DEF MkcolExists, MkcolAbsent, Lock, CreateGivesUp, Missing, PutNowhere,
                UploadRefused, Shown, Answer
  <2>2. \A o \in Clients : \/ client'[o] = client[o] \/ SameSight(client'[o], client[o])
                           \/ RequestHome(moved', h, file, client'[o])
    BY <1>1, <1>2, <1>3, IdleHome
  <2> QED BY <1>4, <2>1, <2>2, QuietStep
<1> QED BY <1>5, <1>6

\* The lookups of a MOVE's source and of an upload's folder.
LEMMA LooksUpHome ==
  ASSUME TypedInv, NEW h, HomeSound(h), NEW c \in Clients, NoDest(c) \/ PutBody(c)
  PROVE  HomeInv'
<1>1. PICK r : r = client[c]
  OBVIOUS
<1>2. r \in Request /\ Placed(r) /\ RequestHome(moved, h, file, r)
  BY <1>1, ClientFits DEF HomeSound, RequestsHome
<1>3. r.dir \in Dirs
  BY <1>1, <1>2 DEF NoDest, PutBody, At, Placed, Belongs
<1>4. PICK next \in {"rename", "target"} : client' = [client EXCEPT ![c] = Lookup(r, r.dir, next)]
  BY <1>1 DEF NoDest, PutBody, Become
<1>5. RequestHome(moved, h, file, Lookup(r, r.dir, next))
  BY <1>2, <1>3, AlikeFacts, LookupHome
<1>6. UNCHANGED <<folder, file, known, child, promise, moved>>
  BY DEF NoDest, PutBody, provider
<1>7. \A o \in Clients : client'[o] = client[o] \/ RequestHome(moved, h, file, client'[o])
  BY <1>4, <1>5 DEF TypedInv, TypeOK
<1> QED BY <1>6, <1>7, QuietStep

LEMMA PutTargetShape ==
  ASSUME NEW c \in Clients, PutTarget(c)
  PROVE  /\ client[c].pc = "target" /\ client[c].item # None
         /\ UNCHANGED <<folder, file, known, promise, moved>>
         /\ \/ child[client[c].dir] # None /\ UNCHANGED child
               /\ client' = [client EXCEPT ![c] =
                     [client[c] EXCEPT !.pc = "upload", !.media = child[client[c].dir]]]
            \/ \E f \in FilesIn(client[c].item) \cup {None} :
                  /\ client' = [client EXCEPT ![c] = [client[c] EXCEPT !.pc = "upload", !.media = f]]
                  /\ child' = [child EXCEPT ![client[c].dir] = f]
<1>1. client[c].pc = "target" /\ client[c].item # None
  BY DEF PutTarget, At
<1>2. UNCHANGED <<folder, file, known, promise, moved>>
  BY DEF PutTarget, provider
<1>3. CASE child[client[c].dir] # None
  BY <1>1, <1>2, <1>3 DEF PutTarget, Become
<1>4. CASE child[client[c].dir] = None
  BY <1>1, <1>2, <1>4 DEF PutTarget, Become
<1> QED BY <1>3, <1>4

\* Files that are listed in a folder belong to the paths that lead to it.
LEMMA FilesListedHome ==
  ASSUME TypedInv, NEW h, HomeSound(h), NEW c \in Clients, PutTarget(c) \/ FilesListed(c)
  PROVE  HomeInv'
<1>1. PICK r : r = client[c]
  OBVIOUS
<1>2. r \in Request /\ Placed(r) /\ RequestHome(moved, h, file, r)
  BY <1>1, ClientFits DEF HomeSound, RequestsHome
<1>3. r.dir \in Dirs /\ r.dir # None
  <2>1. r.pc \in {"target", "files"}
    BY <1>1, PutTargetShape DEF FilesListed, At
  <2> QED BY <1>2, <2>1, NamesDiffer DEF Placed, Belongs
<1>4. ASSUME NEW f \in FilesIn(r.item), r.item # None PROVE FileHome(moved, h, file, r.dir, f)
  BY <1>2, <1>3, <1>4 DEF FilesIn, RequestHome, FileHome
<1>5. UNCHANGED <<folder, file, known, promise, moved>>
  BY PutTargetShape DEF FilesListed, provider
<1>6. CASE PutTarget(c)
  <2>1. r.item # None
    BY <1>1, <1>6, PutTargetShape
  <2>2. PICK f : /\ client' = [client EXCEPT ![c] = [r EXCEPT !.pc = "upload", !.media = f]]
                 /\ f # None => FileHome(moved, h, file, r.dir, f)
                 /\ UNCHANGED child \/ child' = [child EXCEPT ![r.dir] = f]
    <3>1. \/ /\ client' = [client EXCEPT ![c] = [r EXCEPT !.pc = "upload", !.media = child[r.dir]]]
             /\ child[r.dir] # None /\ UNCHANGED child
          \/ \E f \in FilesIn(r.item) \cup {None} :
                /\ client' = [client EXCEPT ![c] = [r EXCEPT !.pc = "upload", !.media = f]]
                /\ child' = [child EXCEPT ![r.dir] = f]
      BY <1>1, <1>6, PutTargetShape
    <3>2. child[r.dir] # None => FileHome(moved, h, file, r.dir, child[r.dir])
      BY <1>3 DEF HomeSound, ChildHome
    <3> QED BY <1>4, <2>1, <3>1, <3>2
  <2>3. PICK q : q = [r EXCEPT !.pc = "upload", !.media = f]
    OBVIOUS
  <2>4. /\ q.kind = r.kind /\ q.dir = r.dir /\ q.to = r.to /\ q.item = r.item /\ q.snap = r.snap
        /\ q.media = f
    BY <1>2, <2>3 DEF Request
  <2>5. RequestHome(moved, h, file, q)
    BY <1>2, <1>3, <2>2, <2>4 DEF RequestHome
  <2>6. \A o \in Clients : client'[o] = client[o] \/ RequestHome(moved, h, file, client'[o])
    BY <2>2, <2>3, <2>5 DEF TypedInv, TypeOK
  <2>7. \A d \in Dirs : child'[d] \in {child[d], None} \/ FileHome(moved, h, file, d, child'[d])
    BY <2>2 DEF TypedInv, TypeOK
  <2> QED BY <1>5, <2>6, <2>7, QuietStep
<1>7. CASE FilesListed(c)
  <2>1. \A d \in Dirs : child'[d] = child[d] \/ FileHome(moved, h, file, d, child'[d])
    BY <1>1, <1>4, <1>7 DEF FilesListed, TypedInv, TypeOK
  <2>2. client'[c] = Idle /\ \A o \in Clients \ {c} : client'[o] = client[o]
    BY <1>7 DEF FilesListed, Become, TypedInv, TypeOK
  <2> QED BY <1>5, <2>1, <2>2, IdleHome, QuietStep
<1> QED BY <1>6, <1>7

-----------------------------------------------------------------------------
(* Steps at the provider.                                                  *)

\* A folder is made at home where its request asked for it.
LEMMA MakesHome ==
  ASSUME TypedInv, NEW h, HomeSound(h), NEW c \in Clients, NEW i \in FolderIds,
         Makes(client[c].dir, i), (CreateAnswered(c) /\ Created(c, i)) \/ CreateFails(c)
  PROVE  HomeInv'
<1>1. PICK d \in Dirs : d = client[c].dir
  BY Steppers
<1>2. /\ folder[i].st = "free" /\ folder'[i].st = "live" /\ folder'[i].name \in {d, DupName}
      /\ \A j \in FolderIds \ {i} : folder'[j] = folder[j]
  BY <1>1, MakesShape
<1>3. PICK g : g = [h EXCEPT ![i] = d]
  OBVIOUS
<1>4. h \in Homes /\ FoldersHome(h) /\ PromisesHome(h) /\ h[i] = DupName
  BY <1>2 DEF HomeSound, FoldersHome
<1>5. g \in Homes /\ g[i] = d /\ \A j \in FolderIds \ {i} : g[j] = h[j]
  BY <1>3, <1>4 DEF Homes
<1>6. Grows(h, g)
  BY <1>4, <1>5 DEF Grows
<1>7. UNCHANGED <<file, child, moved>>
  BY DEF CreateAnswered, CreateFails
<1>8. FilesStay(h, g)
  BY <1>6, <1>7, SameFilesStay
<1>9. FoldersHome(g)'
  <2>1. ASSUME NEW j \in FolderIds
        PROVE  /\ IF folder'[j].st = "free" THEN g[j] = DupName ELSE g[j] \in Dirs
               /\ folder'[j].name \in Dirs => AtHome(moved', g, folder'[j].name, j)
    <3>1. CASE j = i
      BY <1>2, <1>5, <3>1, NamesDiffer, AlikeFacts DEF AtHome
    <3>2. CASE j # i
      BY <1>2, <1>4, <1>5, <1>7, <3>2 DEF FoldersHome, AtHome
    <3> QED BY <3>1, <3>2
  <2> QED BY <2>1 DEF FoldersHome
<1>10. AtHome(moved', g, d, i)
  BY <1>5, AlikeFacts DEF AtHome
<1>11. CASE CreateAnswered(c) /\ Created(c, i)
  <2>1. /\ \A e \in Dirs : promise'[e] \in {promise[e], None, Unsure}
        /\ \A e \in Dirs : known'[e] = known[e] \/ AtHome(moved', g, e, known'[e])
        /\ client'[c] = Idle /\ \A o \in Clients \ {c} : client'[o] = client[o]
    BY <1>1, <1>10, <1>11 DEF Created, Acked, Become, TypedInv, TypeOK
  <2>2. PromisesHome(g)'
    <3>1. \A f \in FileIds : Reachable(f) => file[f].in # i
      BY <1>2 DEF Reachable, Live
    <3>2. \A f \in FileIds : Reachable(f) => folder'[file[f].in].st = "live"
      BY <1>2, <3>1 DEF Reachable, Live, TypedInv, TypeOK
    <3> QED BY <1>4, <1>6, <1>7, <2>1, <3>2, PromisesStay
  <2> QED BY <1>5, <1>6, <1>7, <1>8, <1>9, <2>1, <2>2, IdleHome, HomeKept
<1>12. CASE CreateFails(c)
  <2>1. /\ UNCHANGED <<known, promise>>
        /\ client'[c] = [client[c] EXCEPT !.tries = @ + 1]
        /\ \A o \in Clients \ {c} : client'[o] = client[o]
    BY <1>12 DEF CreateFails, Become, TypedInv, TypeOK
  <2>2. SameSight(client'[c], client[c])
    BY <2>1, ClientFits DEF SameSight, Request
  <2>3. PromisesHome(g)'
    <3>1. \A f \in FileIds : Reachable(f) => folder'[file[f].in].st = "live"
      BY <1>2 DEF Reachable, Live, TypedInv, TypeOK
    <3> QED BY <1>4, <1>6, <1>7, <2>1, <3>1, PromisesStay
  <2> QED BY <1>5, <1>6, <1>7, <1>8, <1>9, <2>1, <2>2, <2>3, HomeKept
<1> QED BY <1>11, <1>12

\* An attempt at a creation that makes nothing.
LEMMA FailsHome ==
  ASSUME TypedInv, NEW h, HomeSound(h), NEW c \in Clients, CreateFails(c), UNCHANGED folder
  PROVE  HomeInv'
<1>1. /\ UNCHANGED <<file, known, child, promise, moved>>
      /\ client'[c] = [client[c] EXCEPT !.tries = @ + 1]
      /\ \A o \in Clients \ {c} : client'[o] = client[o]
  BY DEF CreateFails, Become, TypedInv, TypeOK
<1>2. SameSight(client'[c], client[c])
  BY <1>1, ClientFits DEF SameSight, Request
<1> QED BY <1>1, <1>2, QuietStep

\* A folder that changes under a request of its path is not where another
\* path's content is stored.
LEMMA ChangesHome ==
  ASSUME TypedInv, NEW h, HomeSound(h), NEW d \in Dirs, NEW i \in FolderIds,
         AtHome(moved, h, d, i), UNCHANGED <<file, child, moved>>,
         \A j \in FolderIds \ {i} : folder'[j] = folder[j],
         folder'[i].st # "free",
         folder'[i].name \in Dirs => AtHome(moved, h, folder'[i].name, i),
         promise'[d] \in {None, Unsure} \/ d \in moved,
         \A e \in Dirs \ moved : promise'[e] \in {promise[e], None, Unsure},
         \A e \in Dirs : known'[e] \in {known[e], None} \/ AtHome(moved, h, e, known'[e]),
         \A c \in Clients : client'[c] = client[c] \/ RequestHome(moved, h, file, client'[c])
  PROVE  HomeInv'
<1>1. h \in Homes /\ FoldersHome(h) /\ PromisesHome(h) /\ Grows(h, h)
  BY GrowsItself DEF HomeSound
<1>2. FilesStay(h, h)
  BY <1>1, SameFilesStay
<1>3. h[i] \in Dirs
  BY <1>1, NotFree
<1>4. FoldersHome(h)'
  BY <1>1, <1>3 DEF FoldersHome
<1>5. PromisesHome(h)'
  <2>1. ASSUME NEW e \in Dirs \ moved, promise'[e] = promise[e], promise[e] \notin {None, Unsure},
               NEW f \in FileIds, Reachable(f), h[file[f].in] = e
        PROVE  file'[f] = file[f] /\ folder'[file[f].in].st = "live"
    <3>1. file[f].in \in FolderIds
      BY DEF TypedInv, TypeOK
    <3>2. file[f].in # i
      BY <2>1, OwnHome, AlikeFacts DEF AtHome
    <3> QED BY <2>1, <3>1, <3>2 DEF Reachable, Live
  <2> QED BY <1>1, <2>1, PromisesStay
<1> QED BY <1>1, <1>2, <1>4, <1>5, HomeKept

\* DELETE and MOVE change folders that are at home on their paths.
LEMMA DeleteAndMoveHome ==
  ASSUME TypedInv, NEW h, HomeSound(h), NEW c \in Clients, Trash(c) \/ TrashDest(c) \/ Rename(c)
  PROVE  HomeInv'
<1>1. PICK r : r = client[c]
  OBVIOUS
<1>2. /\ r \in Request /\ Placed(r) /\ RequestHome(moved, h, file, r)
      /\ r.item \in FolderIds \cup {None} /\ FoldersHome(h)
  BY <1>1, ClientFits DEF HomeSound, RequestsHome
<1>3. PICK i \in FolderIds : i = r.item
  BY <1>1, <1>2 DEF Trash, TrashDest, Rename
<1>4. r.dir \in Dirs /\ (TrashDest(c) \/ Rename(c) => r.to \in Dirs /\ {r.dir, r.to} \subseteq moved)
  BY <1>1, <1>2, Steppers DEF RequestHome
<1>5. AtHome(moved, h, r.dir, i)
  BY <1>2, <1>3, <1>4, NamesDiffer DEF RequestHome
<1>6. UNCHANGED <<file, child, moved>>
  BY DEF Trash, TrashDest, Rename
<1>7. folder[i].st # "free" /\ (folder[i].name \in Dirs => AtHome(moved, h, folder[i].name, i))
  BY <1>2, <1>4, <1>5, NotFree DEF FoldersHome
<1>8. Acked(r, None) \in {None, Unsure}
  BY DEF Acked
<1>9. CASE Trash(c)
  <2>1. /\ folder'[i].st = "trashed" /\ folder'[i].name = folder[i].name
        /\ \A j \in FolderIds \ {i} : folder'[j] = folder[j]
    BY <1>1, <1>3, <1>9, DropsShape DEF Trash, Drops
  <2>2. /\ \A d \in Dirs : known'[d] \in {known[d], None}
        /\ promise'[r.dir] \in {None, Unsure} /\ \A d \in Dirs : d # r.dir => promise'[d] = promise[d]
        /\ client'[c] = Idle /\ \A o \in Clients \ {c} : client'[o] = client[o]
    BY <1>1, <1>4, <1>8, <1>9 DEF Trash, Become, TypedInv, TypeOK
  <2> QED BY <1>4, <1>5, <1>6, <1>7, <2>1, <2>2, IdleHome, ChangesHome
<1>10. CASE TrashDest(c)
  <2>1. /\ folder'[i].st = "trashed" /\ folder'[i].name = folder[i].name
        /\ \A j \in FolderIds \ {i} : folder'[j] = folder[j]
    BY <1>1, <1>3, <1>10, DropsShape DEF TrashDest, Drops
  <2>2. /\ \A d \in Dirs : known'[d] \in {known[d], None}
        /\ \A d \in Dirs : d # r.to => promise'[d] = promise[d]
        /\ client' = [client EXCEPT ![c] = Lookup(r, r.dir, "rename")]
    BY <1>1, <1>10 DEF TrashDest, Become, TypedInv, TypeOK
  <2>3. RequestHome(moved, h, file, Lookup(r, r.dir, "rename"))
    BY <1>2, <1>4, AlikeFacts, LookupHome
  <2>4. \A o \in Clients : client'[o] = client[o] \/ RequestHome(moved, h, file, client'[o])
    BY <2>2, <2>3 DEF TypedInv, TypeOK
  <2>5. r.dir \in moved /\ \A d \in Dirs \ moved : d # r.to
    BY <1>4, <1>10
  <2> QED BY <1>4, <1>5, <1>6, <1>7, <2>1, <2>2, <2>4, <2>5, ChangesHome
<1>11. CASE Rename(c)
  <2>1. /\ folder'[i].st = folder[i].st /\ folder'[i].name = r.to
        /\ \A j \in FolderIds \ {i} : folder'[j] = folder[j]
    BY <1>1, <1>3, <1>11, RenamesShape DEF Rename, Renames
  <2>2. r.to \in Dirs /\ {r.dir, r.to} \subseteq moved
    BY <1>4, <1>11
  <2>3. AtHome(moved, h, r.to, i)
    BY <1>5, <2>2 DEF AtHome, Alike
  <2>4. /\ \A d \in Dirs : known'[d] \in {known[d], None, i} /\ (known'[d] = i => known[d] = i \/ d = r.to)
        /\ \A d \in Dirs : d \notin {r.dir, r.to} => promise'[d] = promise[d]
        /\ client'[c] = Idle /\ \A o \in Clients \ {c} : client'[o] = client[o]
    BY <1>1, <1>3, <1>11, NamesDiffer DEF Rename, Renamed, Become, TypedInv, TypeOK
  <2>5. \A d \in Dirs : known'[d] \in {known[d], None} \/ AtHome(moved, h, d, known'[d])
    BY <2>3, <2>4
  <2>6. r.dir \in moved /\ \A d \in Dirs \ moved : promise'[d] = promise[d]
    BY <2>2, <2>4
  <2> QED BY <1>4, <1>5, <1>6, <1>7, <2>1, <2>3, <2>4, <2>5, <2>6, IdleHome, ChangesHome
<1> QED BY <1>9, <1>10, <1>11

\* What an upload writes.
LEMMA UploadShape ==
  ASSUME TypedInv, NEW c \in Clients, Upload(c)
  PROVE  /\ client[c].pc = "upload" /\ Live(client[c].item)
         /\ \E f \in FileIds, in \in FolderIds :
               /\ IF client[c].media = None THEN NextFile(f) /\ in = client[c].item
                  ELSE f = client[c].media /\ Reachable(f) /\ in \in {client[c].item, file[f].in}
               /\ file' = [file EXCEPT ![f] = [st |-> "live", in |-> in, v |-> issued]]
               /\ child' = [child EXCEPT ![client[c].dir] = f]
         /\ promise' = [promise EXCEPT ![client[c].dir] = Acked(client[c], issued)]
         /\ client' = [client EXCEPT ![c] = Idle]
         /\ UNCHANGED <<folder, known, moved>>
<1>1. client[c].item \in FolderIds /\ \A f \in FileIds : file[f].in \in FolderIds
  BY ClientFits DEF Upload, At, Placed, TypedInv, TypeOK
<1>2. CASE client[c].media = None
  BY <1>1, <1>2 DEF Upload, At, Become
<1>3. CASE client[c].media # None
  BY <1>1, <1>3 DEF Upload, At, Become
<1> QED BY <1>2, <1>3

\* An upload writes a file of its own path, and stores what it promises.
LEMMA UploadHome ==
  ASSUME TypedInv, NEW h, HomeSound(h), NEW c \in Clients, Upload(c)
  PROVE  HomeInv'
<1>1. PICK r : r = client[c]
  OBVIOUS
<1>2. /\ r \in Request /\ Placed(r) /\ RequestHome(moved, h, file, r) /\ r.pc = "upload"
      /\ h \in Homes /\ FoldersHome(h) /\ PromisesHome(h) /\ Grows(h, h)
  BY <1>1, ClientFits, UploadShape, GrowsItself DEF HomeSound, RequestsHome
<1>3. r.dir \in Dirs /\ r.item \in FolderIds /\ Live(r.item)
  BY <1>1, <1>2, UploadShape DEF Placed, Belongs
<1>4. PICK f \in FileIds, in \in FolderIds :
         /\ IF r.media = None THEN NextFile(f) /\ in = r.item
            ELSE f = r.media /\ Reachable(f) /\ in \in {r.item, file[f].in}
         /\ file' = [file EXCEPT ![f] = [st |-> "live", in |-> in, v |-> issued]]
         /\ child' = [child EXCEPT ![r.dir] = f]
  BY <1>1, UploadShape
<1>5. /\ promise' = [promise EXCEPT ![r.dir] = Acked(r, issued)]
      /\ client' = [client EXCEPT ![c] = Idle] /\ UNCHANGED <<folder, known, moved>>
  BY <1>1, UploadShape
<1>6. /\ file'[f].st = "live" /\ file'[f].in = in /\ file'[f].v = issued
      /\ \A x \in FileIds \ {f} : file'[x] = file[x]
  BY <1>4 DEF TypedInv, TypeOK
<1>7. AtHome(moved, h, r.dir, r.item)
  BY <1>2, <1>3, NamesDiffer DEF RequestHome
<1>8. file[f].st = "live" => AtHome(moved, h, r.dir, file[f].in) /\ Live(in)
  <2>1. SUFFICES ASSUME file[f].st = "live" PROVE AtHome(moved, h, r.dir, file[f].in) /\ Live(in)
    OBVIOUS
  <2>2. r.media # None
    BY <1>4, <2>1 DEF NextFile, NextOf
  <2>3. f = r.media /\ Reachable(f) /\ in \in {r.item, file[f].in}
    BY <1>4, <2>2
  <2> QED BY <1>2, <1>3, <2>2, <2>3 DEF RequestHome, FileHome, Reachable
<1>9. AtHome(moved, h, r.dir, in) /\ Live(in)
  <2>1. CASE r.media = None
    BY <1>3, <1>4, <1>7, <2>1
  <2>2. CASE r.media # None
    BY <1>3, <1>4, <1>7, <1>8, <2>2 DEF Reachable
  <2> QED BY <2>1, <2>2
<1>10. FilesStay(h, h)
  <2>1. ASSUME NEW x \in FileIds, file[x].st = "live"
        PROVE  /\ file'[x].st = "live"
               /\ \A d \in Dirs : AtHome(moved, h, d, file[x].in) => AtHome(moved, h, d, file'[x].in)
    <3>1. CASE x = f
      <4>1. AtHome(moved, h, r.dir, file[f].in)
        BY <1>8, <2>1, <3>1
      <4>2. ASSUME NEW d \in Dirs, AtHome(moved, h, d, file[f].in) PROVE AtHome(moved, h, d, in)
        BY <1>9, <4>1, <4>2, AlikeFacts DEF AtHome
      <4> QED BY <1>6, <3>1, <4>2
    <3>2. CASE x # f
      BY <1>6, <2>1, <3>2
    <3> QED BY <3>1, <3>2
  <2> QED BY <1>5, <2>1 DEF FilesStay
<1>11. FoldersHome(h)'
  BY <1>2, <1>5, FoldersStay
<1>12. PromisesHome(h)'
  <2>1. SUFFICES ASSUME NEW d \in Dirs \ moved, promise'[d] \in 1..MaxRequests
                 PROVE  \E x \in FileIds : /\ file'[x].st = "live" /\ Live(file'[x].in)
                                           /\ file'[x].v = promise'[d] /\ h[file'[x].in] = d
    BY <1>5 DEF PromisesHome, Stored, Reachable, Live
  <2>2. CASE d = r.dir
    <3>1. promise'[d] = issued
      <4>1. MaxRequests \in Nat /\ Unsure \notin Nat
        BY FoldersAssumption
      <4> QED BY <1>5, <2>1, <2>2, <4>1 DEF Acked, TypedInv, TypeOK
    <3>2. h[in] = d
      BY <1>9, <2>1, <2>2, OwnHome
    <3> QED BY <1>6, <1>9, <3>1, <3>2
  <2>3. CASE d # r.dir
    <3>1. promise'[d] = promise[d]
      BY <1>5, <2>3 DEF TypedInv, TypeOK
    <3>2. PICK x \in FileIds : Reachable(x) /\ file[x].v = promise[d] /\ h[file[x].in] = d
      BY <1>2, <2>1, <3>1 DEF PromisesHome, Stored
    <3>3. x # f
      <4>1. SUFFICES ASSUME x = f PROVE FALSE
        OBVIOUS
      <4>2. AtHome(moved, h, r.dir, file[f].in)
        BY <1>8, <3>2, <4>1 DEF Reachable
      <4> QED BY <2>1, <2>3, <3>2, <4>1, <4>2, OwnHome
    <3> QED BY <1>6, <3>1, <3>2, <3>3 DEF Reachable
  <2> QED BY <2>2, <2>3
<1>13. \A d \in Dirs : child'[d] = child[d] \/ FileHome(moved', h, file', d, child'[d])
  <2>1. FileHome(moved', h, file', r.dir, f)
    BY <1>5, <1>6, <1>9 DEF FileHome
  <2> QED BY <1>4, <2>1 DEF TypedInv, TypeOK
<1>14. client'[c] = Idle /\ \A o \in Clients \ {c} : client'[o] = client[o]
  BY <1>5 DEF TypedInv, TypeOK
<1> QED BY <1>2, <1>5, <1>10, <1>11, <1>12, <1>13, <1>14, IdleHome, HomeKept

-----------------------------------------------------------------------------
(* New requests, and the rest.                                             *)

LEMMA NewRequestHome ==
  ASSUME NEW m, NEW h, NEW x, NEW k, NEW d, NEW e, k = "MOVE" => {d, e} \subseteq m
  PROVE  RequestHome(m, h, x, NewRequest(k, d, e))
<1>1. PICK r : r = NewRequest(k, d, e)
  OBVIOUS
<1>2. /\ r.kind = k /\ r.dir = d /\ r.to = e /\ r.item = None /\ r.media = None
      /\ r.snap = [i \in FolderIds |-> None]
  BY <1>1 DEF NewRequest
<1> QED BY <1>1, <1>2, NamesDiffer DEF RequestHome

\* A MOVE names its paths when it arrives.
LEMMA ArrivesHome ==
  ASSUME TypedInv, NEW h, HomeSound(h), NEW c \in Clients, NEW r, NEW r2, r \in Request, r2 \in Request,
         Arrives(c, r, r2), RequestHome(moved', h, file, r2)
  PROVE  HomeInv'
<1>1. moved \subseteq moved' /\ UNCHANGED <<folder, file, known, child, promise>>
  BY DEF Arrives, provider
<1>2. PICK others : others = {o \in Clients : Touches(client[o]) \cap Touches(r) # {}}
  OBVIOUS
<1>3. PICK kinds : kinds = {client[o].kind : o \in others}
  OBVIOUS
<1>4. client' = [o \in Clients |-> IF o = c THEN [r2 EXCEPT !.met = kinds]
                                   ELSE IF o \in others THEN [client[o] EXCEPT !.met = @ \cup {r.kind}]
                                   ELSE client[o]]
  BY <1>2, <1>3 DEF Arrives
<1>5. RequestHome(moved', h, file, client'[c])
  <2>1. client'[c] = [r2 EXCEPT !.met = kinds]
    BY <1>4
  <2>2. SameSight(client'[c], r2)
    BY <2>1 DEF SameSight, Request
  <2> QED BY <2>2, SightHome
<1>6. ASSUME NEW o \in Clients \ {c} PROVE client'[o] = client[o] \/ SameSight(client'[o], client[o])
  <2>1. client'[o] = client[o] \/ client'[o] = [client[o] EXCEPT !.met = @ \cup {r.kind}]
    BY <1>4
  <2>2. client[o] \in Request
    BY ClientFits
  <2> QED BY <2>1, <2>2 DEF SameSight, Request
<1> QED BY <1>1, <1>5, <1>6, QuietStep

LEMMA LooksUpOnArrival ==
  ASSUME TypedInv, NEW h, HomeSound(h), NEW c \in Clients,
         NEW k \in {"MKCOL", "DELETE", "MOVE", "PUT", "LISTDIR"}, NEW d \in Dirs,
         NEW e \in Dirs \cup {None}, k = "MOVE" => e \in Dirs, NEW z \in {d, e}, z \in Dirs,
         z # d => k = "MOVE", NEW next \in {"check", "trash", "dest", "body", "files"},
         Belongs(next, k),
         Arrives(c, NewRequest(k, d, e), Lookup(NewRequest(k, d, e), z, next))
  PROVE  HomeInv'
<1>1. PICK r : r = NewRequest(k, d, e)
  OBVIOUS
<1>2. r \in Request /\ Placed(r) /\ r.kind = k /\ r.dir = d /\ r.to = e
  BY <1>1, NewRequestFits
<1>3. moved \subseteq moved' /\ (k = "MOVE" => {d, e} \subseteq moved')
  BY <1>1, <1>2 DEF Arrives
<1>4. RequestHome(moved', h, file, r)
  BY <1>1, <1>3, NewRequestHome
<1>5. Alike(moved', r.dir, z)
  BY <1>2, <1>3 DEF Alike
<1>6. PICK r2 : r2 = Lookup(r, z, next)
  OBVIOUS
<1>7. RequestHome(moved', h, file, r2)
  BY <1>2, <1>3, <1>4, <1>5, <1>6, LookupHome
<1>8. r2 \in Request
  BY <1>2, <1>6, LookupFits DEF Fits
<1>9. Arrives(c, r, r2)
  BY <1>1, <1>6
<1> QED BY <1>2, <1>7, <1>8, <1>9, ArrivesHome

LEMMA ListComesHome ==
  ASSUME TypedInv, NEW h, HomeSound(h), NEW c \in Clients, List(c)
  PROVE  HomeInv'
<1>1. PICK r : r = NewRequest("LIST", None, None)
  OBVIOUS
<1>2. r \in Request /\ r.kind = "LIST" /\ r.dir = None /\ r.media = None
  <2>1. r \in Request /\ r.kind = "LIST" /\ r.dir = None
    BY <1>1, NewRequestFits
  <2> QED BY <1>1, <2>1 DEF NewRequest
<1>3. PICK shown : shown = [i \in FolderIds |-> IF Live(i) THEN folder[i].name ELSE None]
  OBVIOUS
<1>4. PICK r2 : r2 = [r EXCEPT !.pc = "listed", !.next = "shown", !.snap = shown]
  OBVIOUS
<1>5. Arrives(c, r, r2)
  BY <1>1, <1>3, <1>4 DEF List
<1>6. /\ r2.kind = "LIST" /\ r2.dir = None /\ r2.media = None /\ r2.snap = shown
  BY <1>2, <1>4 DEF Request
<1>7. r2 \in Request
  <2>1. shown \in [FolderIds -> Dirs \cup {DupName, None}]
    BY <1>3, SnapTyped
  <2> QED BY ONLY <1>2, <1>4, <2>1 DEF Request
<1>8. moved' = moved
  BY <1>2, <1>5 DEF Arrives
<1>9. \A i \in FolderIds : shown[i] \in Dirs => AtHome(moved', h, shown[i], i)
  BY <1>3, <1>8, NamesDiffer DEF HomeSound, FoldersHome
<1>10. RequestHome(moved', h, file, r2)
  BY <1>6, <1>9 DEF RequestHome
<1> QED BY <1>2, <1>5, <1>7, <1>10, ArrivesHome

LEMMA NewRequestsHome ==
  ASSUME TypedInv, NEW h, HomeSound(h), NEW c \in Clients, NewRequests(c)
  PROVE  HomeInv'
<1>0. None \in Dirs \cup {None}
  OBVIOUS
<1>1. ASSUME NEW d \in Dirs, Mkcol(c, d) PROVE HomeInv'
  BY <1>0, <1>1, LooksUpOnArrival DEF Mkcol, Belongs
<1>2. ASSUME NEW d \in Dirs, Delete(c, d) PROVE HomeInv'
  BY <1>0, <1>2, LooksUpOnArrival DEF Delete, Belongs
<1>3. ASSUME NEW d \in Dirs, Put(c, d) PROVE HomeInv'
  BY <1>0, <1>3, LooksUpOnArrival DEF Put, Belongs
<1>4. ASSUME NEW d \in Dirs, ListDir(c, d) PROVE HomeInv'
  BY <1>0, <1>4, LooksUpOnArrival DEF ListDir, Belongs
<1>5. ASSUME NEW d \in Dirs, NEW e \in Dirs, Move(c, d, e) PROVE HomeInv'
  BY <1>5, LooksUpOnArrival DEF Move, Belongs
<1> QED BY <1>1, <1>2, <1>3, <1>4, <1>5, ListComesHome DEF NewRequests

LEMMA ContinueHome ==
  ASSUME TypedInv, NEW h, HomeSound(h), NEW c \in Clients, Continue(c)
  PROVE  HomeInv'
<1>1. CASE CreateAnswered(c)
  <2>1. PICK i \in FolderIds : Makes(client[c].dir, i) /\ Created(c, i)
    BY <1>1 DEF CreateAnswered
  <2> QED BY <1>1, <2>1, MakesHome
<1>2. CASE CreateFails(c)
  <2>1. UNCHANGED folder \/ \E i \in FolderIds : Makes(client[c].dir, i)
    BY <1>2 DEF CreateFails
  <2> QED BY <1>2, <2>1, MakesHome, FailsHome
<1> QED BY <1>1, <1>2, ListedHome, GoesOnHome, LooksUpHome, FilesListedHome, DeleteAndMoveHome,
           UploadHome DEF Continue

\* A folder's home is the path it starts with or is made for.
LEMMA InitHome == Init => HomeInv
<1> SUFFICES ASSUME Init PROVE HomeInv
  OBVIOUS
<1>1. PICK seeded \in Dirs \cup {None} :
         folder = [i \in FolderIds |-> IF seeded # None /\ NextOf(FolderIds, i)
                                       THEN [st |-> "live", name |-> seeded]
                                       ELSE [st |-> "free", name |-> DupName]]
  BY DEF Init
<1>2. PICK h : h = [i \in FolderIds |-> folder[i].name]
  OBVIOUS
<1>3. \A i \in FolderIds : /\ h[i] = folder[i].name /\ h[i] \in Dirs \cup {DupName}
                           /\ IF folder[i].st = "free" THEN h[i] = DupName ELSE h[i] \in Dirs
  BY <1>1, <1>2
<1>4. h \in Homes /\ FoldersHome(h)
  BY <1>2, <1>3, AlikeFacts DEF Homes, FoldersHome, AtHome
<1>5. /\ \A d \in Dirs : known[d] = None /\ child[d] = None /\ promise[d] = None
      /\ \A c \in Clients : client[c] = Idle
  BY DEF Init
<1>6. KnownHome(h) /\ ChildHome(h) /\ RequestsHome(h)
  BY <1>5, IdleHome DEF KnownHome, ChildHome, RequestsHome
<1>7. PromisesHome(h)
  <2>1. MaxRequests \in Nat /\ None \notin Nat
    BY FoldersAssumption
  <2> QED BY <1>5, <2>1 DEF PromisesHome
<1> QED BY <1>4, <1>6, <1>7 DEF HomeInv, HomeSound

LEMMA HomeNext == TypedInv /\ HomeInv /\ [Next]_vars => HomeInv'
<1> SUFFICES ASSUME TypedInv, HomeInv, [Next]_vars PROVE HomeInv'
  OBVIOUS
<1>1. PICK h \in Homes : HomeSound(h)
  BY DEF HomeInv
<1>2. ASSUME NEW d \in Dirs, Forget(d) PROVE HomeInv'
  <2>1. /\ UNCHANGED <<folder, file, known, client, promise, moved>>
        /\ \A e \in Dirs : child'[e] \in {child[e], None}
    BY <1>2 DEF Forget, provider, TypedInv, TypeOK
  <2> QED BY <1>1, <2>1, QuietStep
<1>3. CASE Restart
  <2>1. /\ UNCHANGED <<folder, file, moved>>
        /\ \A d \in Dirs : /\ known'[d] = None /\ child'[d] = None
                           /\ promise'[d] \in {promise[d], Unsure}
        /\ \A c \in Clients : client'[c] = Idle
    BY <1>3 DEF Restart, provider
  <2> QED BY <1>1, <2>1, IdleHome, QuietStep
<1>4. CASE UNCHANGED vars
  BY <1>1, <1>4, QuietStep DEF vars
<1> QED BY <1>1, <1>2, <1>3, <1>4, NewRequestsHome, ContinueHome DEF Next

\* Whatever requests, lost answers and restarts there are, the content last
\* acknowledged for a file is stored in a live folder of its path until the
\* next write of the path, as long as no MOVE has named it: no request of
\* another path reaches it, and only a creation that is excused has put it
\* under a second name.
THEOREM AckedFilesSurvive == Spec => []AckedFileSurvives
<1>1. ASSUME FolderInv, HomeInv PROVE AckedFileSurvives
  <2>1. SUFFICES ASSUME NEW d \in Dirs \ moved, promise[d] \in 1..MaxRequests PROVE Kept(d)
    BY DEF AckedFileSurvives
  <2>2. PICK h \in Homes : HomeSound(h)
    BY <1>1 DEF HomeInv
  <2>3. PICK f \in FileIds : Reachable(f) /\ file[f].v = promise[d] /\ h[file[f].in] = d
    BY <2>1, <2>2 DEF HomeSound, PromisesHome, Stored
  <2>4. PICK i \in FolderIds : i = file[f].in
    BY <1>1 DEF FolderInv, TypedInv, TypeOK
  <2>5. folder[i].name \in Dirs => folder[i].name = d
    BY <2>1, <2>2, <2>3, <2>4, OwnHome DEF HomeSound, FoldersHome
  <2>6. folder[i].name \in Dirs \cup {DupName}
    BY <1>1, <2>4 DEF FolderInv, TypedInv, TypeOK
  <2>7. ASSUME folder[i].name = DupName PROVE excused # {}
    <3>1. SUFFICES ASSUME excused = {} PROVE FALSE
      OBVIOUS
    <3>2. i \in Bad /\ Owed = {}
      BY <2>3, <2>4, <2>7, <3>1 DEF Bad, Owed, Dups, Reachable
    <3>3. /\ IsFiniteSet(Bad) /\ IsFiniteSet(Pending)
          /\ Cardinality(Bad) + Cardinality(Pending) <= Cardinality(Owed)
      BY <1>1 DEF FolderInv, BalanceInv
    <3>4. Cardinality(Bad) \in Nat /\ Cardinality(Pending) \in Nat /\ Cardinality(Owed) = 0
      BY <3>2, <3>3, FS_CardinalityType, FS_EmptySet
    <3>5. Bad = {}
      BY <3>3, <3>4, FS_EmptySet
    <3> QED BY <3>2, <3>5
  <2> QED BY <2>3, <2>4, <2>5, <2>6, <2>7 DEF Kept
<1>2. FolderInv => TypedInv
  BY DEF FolderInv
<1> QED BY <1>1, <1>2, FolderInvHolds, InitHome, HomeNext, PTL DEF Spec

=============================================================================
