---------------------------- MODULE WebDavLocks ----------------------------
(***************************************************************************)
(* The WebDAV locks of webdav/locks.py and the requests of                 *)
(* webdav/router.py that take, check and drop them.                        *)
(*                                                                         *)
(* The locks are rows of a table that survives a restart.  Every statement *)
(* is a transaction of its own, awaited: other requests, and time, come    *)
(* between the steps of a handler.  Each of a handler's queries starts     *)
(* with a cleanup of the expired rows; two cleanups in a row are one step. *)
(*                                                                         *)
(* Requests of one path race with one another as they like; contested and  *)
(* late remember which locks were granted in a race, and to whom they came *)
(* too late.                                                               *)
(***************************************************************************)
EXTENDS Integers, FiniteSets

CONSTANTS
    Paths,      \* the resources clients lock and write
    Clients,
    Tokens,     \* lock tokens (secrets.token_urlsafe: never given out twice)
    MinTimeout, \* a lock is granted for at least 60 seconds ...
    MaxTimeout, \* ... and at most 86400
    Timeouts,   \* what clients ask for
    MaxTime,    \* bound: the clock stops there
    None

ASSUME TimesAssumption ==
    /\ MinTimeout \in Nat /\ MaxTimeout \in Nat /\ MinTimeout <= MaxTimeout
    /\ Timeouts \subseteq Int /\ MaxTime \in Nat
    /\ None \notin Tokens

Lock == [token : Tokens, path : Paths, expires : Nat]

Request ==
    [method : {"none", "LOCK", "UNLOCK", "PUT", "MKCOL", "DELETE", "MOVE"},
     pc : {"idle", "cleanup", "look", "insert", "answer", "remove",
           "write", "cleanup_path", "remove_path"},
     path : Paths \cup {None},
     timeout : Int,
     header : SUBSET Tokens,   \* the tokens of the If or Lock-Token header
     token : Tokens \cup {None},
     late : SUBSET Tokens]     \* locks granted on its path since it looked

VARIABLES
    locks,   \* the table
    now,     \* time.time()
    client,  \* the request of each client
    held,    \* the locks whose LOCK was answered, until their UNLOCK or DELETE
    used,    \* tokens given out
    contested \* those granted in a race, see Contest

vars == <<locks, now, client, held, used, contested>>

NoRequest == [method |-> "none", pc |-> "idle", path |-> None, timeout |-> 0,
              header |-> {}, token |-> None, late |-> {}]

-----------------------------------------------------------------------------
Init ==
    /\ locks = {} /\ now = 0
    /\ client = [c \in Clients |-> NoRequest]
    /\ held = [c \in Clients |-> {}] /\ used = {} /\ contested = {}

\* Mutant: a lock ends one instant before the cleanup removes it.
ActiveUntilExpiry(p) == {l \in locks : l.path = p /\ l.expires > now}

\* active_for_path: the locks it chooses from ...
Active(p) == {l \in locks : l.path = p /\ l.expires >= now}

\* ... and what it answers, the one that expires last.
Latest(p) == {l \in Active(p) : \A k \in Active(p) : k.expires <= l.expires}

\* Mutant: any token opens any lock.
OpensAny(header, l) == header # {}

\* assert_can_write: the If header contains the token of the lock.
Opens(header, l) == l.token \in header

At(c, pc) == client[c].pc = pc
Goto(c, pc) == client' = [client EXCEPT ![c].pc = pc]
Ends(c) == client' = [client EXCEPT ![c] = NoRequest]

Arrives(c, r) ==
    /\ client[c] = NoRequest
    /\ client' = [client EXCEPT ![c] = r]
    /\ UNCHANGED <<locks, now, held, used, contested>>

-----------------------------------------------------------------------------
(* The requests, with the tokens their client knows.                       *)

TokensOf(c) == {l.token : l \in held[c]}

LockRequest(c, p, t) ==
    Arrives(c, [NoRequest EXCEPT !.method = "LOCK", !.pc = "cleanup", !.path = p,
                                 !.timeout = t])

Unlock(c, l) ==
    /\ l \in held[c]
    /\ Arrives(c, [NoRequest EXCEPT !.method = "UNLOCK", !.pc = "cleanup",
                                    !.header = {l.token}])

\* Of a MOVE, only the source is checked.
Write(c, method, p, header) ==
    /\ method \in {"PUT", "MKCOL", "DELETE", "MOVE"}
    /\ header \subseteq TokensOf(c)
    /\ Arrives(c, [NoRequest EXCEPT !.method = method, !.pc = "cleanup", !.path = p,
                                    !.header = header])

\* Mutant: a row goes in the instant its lock is still active.
ExpiredAtOnce == {l \in locks : l.expires <= now}

\* The rows a cleanup removes.
Expired == {l \in locks : l.expires < now}

Cleanup(c) ==
    /\ At(c, "cleanup") /\ Goto(c, "look")
    /\ locks' = locks \ Expired
    /\ UNCHANGED <<now, held, used, contested>>

-----------------------------------------------------------------------------
(* LOCK: create                                                            *)

LockLooks(c) ==
    /\ At(c, "look") /\ client[c].method = "LOCK"
    /\ IF Latest(client[c].path) # {} THEN Ends(c) ELSE Goto(c, "insert")
    /\ UNCHANGED <<locks, now, held, used, contested>>

\* max(60, min(timeout, 86400))
Granted(t) == IF t > MaxTimeout THEN MaxTimeout ELSE IF t < MinTimeout THEN MinTimeout ELSE t

\* A request that has looked at the locks of p, and goes by what it saw.
Looked(r, p) == r.path = p /\ r.pc \in {"insert", "write", "cleanup_path", "remove_path"}

\* The lock of c is granted in a race: another was granted since it looked, or
\* a LOCK or DELETE that does not know of it is under way.
Contest(c, token) ==
    IF \/ client[c].late # {}
       \/ \E d \in Clients \ {c} : /\ Looked(client[d], client[c].path)
                                   /\ client[d].method \in {"LOCK", "DELETE"}
    THEN contested \cup {token} ELSE contested

\* The requests once c has inserted its lock, r being what c's goes on as.
Inserted(c, r, token) ==
    [d \in Clients |->
        IF d = c THEN r
        ELSE IF Looked(client[d], client[c].path)
             THEN [client[d] EXCEPT !.late = @ \cup {token}] ELSE client[d]]

\* Mutant: the answer is not given the token of the row.
LockInsertsUnnamed(c, token) ==
    LET r == client[c]  expires == now + Granted(r.timeout) IN
    /\ At(c, "insert") /\ token \in Tokens \ used
    /\ locks' = locks \cup {[token |-> token, path |-> r.path, expires |-> expires]}
    /\ used' = used \cup {token} /\ contested' = Contest(c, token)
    /\ client' = Inserted(c, [r EXCEPT !.pc = "answer", !.timeout = expires], token)
    /\ UNCHANGED <<now, held>>

LockInserts(c, token) ==
    LET r == client[c]  expires == now + Granted(r.timeout) IN
    /\ At(c, "insert") /\ token \in Tokens \ used
    /\ locks' = locks \cup {[token |-> token, path |-> r.path, expires |-> expires]}
    /\ used' = used \cup {token} /\ contested' = Contest(c, token)
    /\ client' = Inserted(c, [r EXCEPT !.pc = "answer", !.token = token,
                                       !.timeout = expires, !.late = {}], token)
    /\ UNCHANGED <<now, held>>

LockAnswers(c) ==
    LET r == client[c] IN
    /\ At(c, "answer") /\ Ends(c)
    /\ held' = [held EXCEPT ![c] = @ \cup {[token |-> r.token, path |-> r.path,
                                            expires |-> r.timeout]}]
    /\ UNCHANGED <<locks, now, used, contested>>

-----------------------------------------------------------------------------
(* UNLOCK: release                                                         *)

\* An unknown token is answered 409; either way its client gives up the lock.
UnlockLooks(c) ==
    LET r == client[c] IN
    /\ At(c, "look") /\ r.method = "UNLOCK"
    /\ IF \E l \in locks : l.token \in r.header THEN Goto(c, "remove") ELSE Ends(c)
    /\ held' = [held EXCEPT ![c] = {l \in @ : l.token \notin r.header}]
    /\ UNCHANGED <<locks, now, used, contested>>

UnlockRemoves(c) ==
    /\ At(c, "remove") /\ Ends(c)
    /\ locks' = {l \in locks : l.token \notin client[c].header}
    /\ UNCHANGED <<now, held, used, contested>>

-----------------------------------------------------------------------------
(* PUT, MKCOL, DELETE and MOVE: assert_can_write, then the store           *)

WriteLooks(c) ==
    LET r == client[c] IN
    /\ At(c, "look") /\ r.method \in {"PUT", "MKCOL", "DELETE", "MOVE"}
    /\ \/ Latest(r.path) = {} /\ Goto(c, "write")
       \/ \E l \in Latest(r.path) :
             IF Opens(r.header, l)
             THEN Goto(c, "write") ELSE Ends(c)
    /\ UNCHANGED <<locks, now, held, used, contested>>

\* The store's part is done, or fails.  A DELETE that succeeded goes on.
Written(c) ==
    /\ At(c, "write")
    /\ \/ Ends(c)
       \/ client[c].method = "DELETE" /\ Goto(c, "cleanup_path")
    /\ UNCHANGED <<locks, now, held, used, contested>>

\* release_path: every lock of the path goes.
CleanupPath(c) ==
    /\ At(c, "cleanup_path") /\ Goto(c, "remove_path")
    /\ locks' = locks \ Expired
    /\ UNCHANGED <<now, held, used, contested>>

\* The client that deleted the resource gives up the locks it presented.
RemovePath(c) ==
    LET r == client[c] IN
    /\ At(c, "remove_path") /\ Ends(c)
    /\ locks' = {l \in locks : l.path # r.path}
    /\ held' = [held EXCEPT ![c] = {l \in @ : l.path # r.path}]
    /\ UNCHANGED <<now, used, contested>>

-----------------------------------------------------------------------------
Tick ==
    /\ now < MaxTime
    /\ now' = now + 1
    /\ UNCHANGED <<locks, client, held, used, contested>>

\* Requests in flight are cut; the start-up cleans the table up.
Restart ==
    /\ client' = [c \in Clients |-> NoRequest]
    /\ locks' = locks \ Expired
    /\ UNCHANGED <<now, held, used, contested>>

Requests(c) ==
    \/ \E p \in Paths, t \in Timeouts : LockRequest(c, p, t)
    \/ \E l \in held[c] : Unlock(c, l)
    \/ \E method \in {"PUT", "MKCOL", "DELETE", "MOVE"}, p \in Paths,
          header \in SUBSET TokensOf(c) : Write(c, method, p, header)

Continue(c) ==
    \/ Cleanup(c)
    \/ LockLooks(c) \/ (\E token \in Tokens : LockInserts(c, token)) \/ LockAnswers(c)
    \/ UnlockLooks(c) \/ UnlockRemoves(c)
    \/ WriteLooks(c) \/ Written(c) \/ CleanupPath(c) \/ RemovePath(c)

Next ==
    \/ \E c \in Clients : Requests(c) \/ Continue(c)
    \/ Tick \/ Restart

Spec == Init /\ [][Next]_vars

-----------------------------------------------------------------------------
TypeOK ==
    /\ locks \subseteq Lock
    /\ now \in Nat
    /\ client \in [Clients -> Request]
    /\ held \in [Clients -> SUBSET Lock]
    /\ used \subseteq Tokens /\ contested \subseteq used

\* The locks are exclusive: a path has two active ones only if both were granted
\* in a race.
OneLockPerPath ==
    \A k, l \in locks :
        k # l /\ k.path = l.path /\ k.expires >= now /\ l.expires >= now
            => {k.token, l.token} \subseteq contested

\* A client whose LOCK was answered can count on the lock until it expires
\* or the client itself gives it up: no other request takes the row away,
\* unless the lock was granted in a race.
LocksLast ==
    \A c \in Clients : \A l \in held[c] :
        l.expires >= now /\ l.token \notin contested => l \in locks

\* While a client holds such a lock, no write of another client is under way
\* at its path, save one that was let through before the lock was granted.
WritesRespectLocks ==
    \A c, d \in Clients : \A l \in held[d] :
        /\ c # d /\ l.expires >= now /\ l.token \notin contested
        /\ client[c].method \in {"PUT", "MKCOL", "DELETE", "MOVE"} /\ Looked(client[c], l.path)
        => l.token \in client[c].late

=============================================================================
