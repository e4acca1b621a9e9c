------------------------- MODULE WebDavLocksProofs -------------------------
(***************************************************************************)
(* What the lock table (module WebDavLocks) guarantees for any number of   *)
(* clients, paths and tokens, however their requests race.                 *)
(*                                                                         *)
(* A LOCK looks at the table and inserts into it in two transactions, a    *)
(* write looks at it and acts later, and a DELETE then empties its path.   *)
(* The inductive invariant LocksInv says what each still knows of the      *)
(* table after its look: every active lock of its path was granted since,  *)
(* or is one it presented the token of, or was itself granted in a race;   *)
(* and no two clients ever know the same token.                            *)
(***************************************************************************)
EXTENDS WebDavLocks, FiniteSetTheorems, WellFoundedInduction, TLAPS

Writes == {"PUT", "MKCOL", "DELETE", "MOVE"}

\* Who does what, by the point a request has reached.
Shape(r) ==
    /\ r.pc \in {"insert", "answer"} => r.method = "LOCK"
    /\ r.pc = "remove" => r.method = "UNLOCK"
    /\ r.pc = "write" => r.method \in Writes
    /\ r.pc \in {"cleanup_path", "remove_path"} => r.method = "DELETE"
    /\ r.method \notin {"none", "UNLOCK"} => r.path \in Paths
    /\ r.pc = "answer" => r.token \in Tokens /\ r.timeout \in Nat

ShapeOK == \A c \in Clients : Shape(client[c])

\* The tokens client c knows, or is about to know.
Own(c) == TokensOf(c) \cup client[c].header \cup ({client[c].token} \ {None})

TokensApart ==
    /\ \A c \in Clients : Own(c) \subseteq used
    /\ \A c, d \in Clients : c # d => Own(c) \cap Own(d) = {}

\* The table is finite, and every row's token was given out, to one row.
RowsOK ==
    /\ IsFiniteSet(locks)
    /\ \A l \in locks : l.token \in used
    /\ \A k, l \in locks : k.token = l.token => k = l

\* Who inserts next found the path free: what is there now came since.
InsertsIntoFree ==
    \A c \in Clients : client[c].pc = "insert" =>
        \A l \in Active(client[c].path) : l.token \in client[c].late

\* The row a LOCK has inserted and not answered yet.
RowOf(r) == [token |-> r.token, path |-> r.path, expires |-> r.timeout]

\* Between the insert and its answer the row is safe.
AnswersWhatIsThere ==
    \A c \in Clients :
        /\ client[c].pc = "answer" /\ client[c].timeout >= now
        /\ client[c].token \notin contested
        => RowOf(client[c]) \in locks

\* What a request let through by assert_can_write knows of its path.
Knows(r, l) == l.token \in contested \cup r.header \cup r.late

WritesKnowLocks ==
    \A c \in Clients : client[c].pc \in {"write", "cleanup_path", "remove_path"} =>
        \A l \in Active(client[c].path) : Knows(client[c], l)

\* Who makes or drops a lock makes every lock it does not know a contested one.
LateIsContested ==
    \A c \in Clients :
        client[c].method \in {"LOCK", "DELETE"} => client[c].late \subseteq contested

\* An UNLOCK removes only what its client has given up.
UnlocksGivenUp ==
    \A c \in Clients : client[c].pc = "remove" =>
        TokensOf(c) \cap client[c].header = {}

LocksInv ==
    /\ TypeOK /\ ShapeOK /\ TokensApart /\ RowsOK
    /\ InsertsIntoFree /\ AnswersWhatIsThere /\ WritesKnowLocks /\ LateIsContested
    /\ OneLockPerPath /\ LocksLast /\ UnlocksGivenUp

-----------------------------------------------------------------------------
LEMMA NoRequestIsRequest == NoRequest \in Request /\ Shape(NoRequest)
  BY DEF NoRequest, Request, Shape

\* Of finitely many locks, one expires last: where there is an active lock,
\* active_for_path answers one.
LEMMA LatestIsThere ==
  ASSUME NEW p, IsFiniteSet(locks), \A l \in locks : l.expires \in Nat, Latest(p) = {}
  PROVE  Active(p) = {}
<1> DEFINE S == Active(p)
           Later(l) == {k \in S : k.expires > l.expires}
           Sets == {Later(l) : l \in S}
<1>1. IsFiniteSet(S) /\ S \subseteq locks
  BY FS_Subset DEF Active
<1> SUFFICES ASSUME S # {} PROVE FALSE
  OBVIOUS
<1>2. Sets # {} /\ Sets \subseteq SUBSET S
  OBVIOUS
<1>3. IsWellFoundedOn(StrictSubsetOrdering(S), FiniteSubsetsOf(S))
  BY <1>1, FS_StrictSubsetOrderingWellFounded
<1>4. Sets \subseteq FiniteSubsetsOf(S)
  BY <1>1, <1>2, FS_FiniteSubsetsOfFinite
<1>5. PICK T \in Sets : \A U \in Sets : ~(<<U, T>> \in StrictSubsetOrdering(S))
  BY <1>2, <1>3, <1>4, WFMin
<1>6. PICK l \in S : T = Later(l)
  BY <1>5
<1>7. Later(l) = {}
  <2> SUFFICES ASSUME NEW k \in S, k.expires > l.expires PROVE FALSE
    OBVIOUS
  <2>1. Later(k) \subseteq Later(l) /\ k \in Later(l) /\ k \notin Later(k)
    BY <1>1
  <2>2. Later(k) \in Sets /\ Later(k) \in SUBSET S /\ Later(l) \in SUBSET S
    OBVIOUS
  <2>3. <<Later(k), Later(l)>> \in StrictSubsetOrdering(S)
    BY <2>1, <2>2 DEF StrictSubsetOrdering
  <2> QED BY <1>5, <1>6, <2>2, <2>3
<1>8. l \in Latest(p)
  BY <1>1, <1>6, <1>7 DEF Latest, Active
<1> QED BY <1>8

\* A request that goes on, or ends, and inserts no row.  Those it removes are
\* expired, or contested, or their client's who has given them up.
LEMMA StepKeeps ==
  ASSUME LocksInv, NEW c \in Clients, NEW r \in Request,
         client' = [client EXCEPT ![c] = r],
         locks' \subseteq locks, UNCHANGED <<now, used, contested>>,
         held' \in [Clients -> SUBSET Lock],
         \A d \in Clients : held'[d] \subseteq held[d],
         Shape(r), r.pc # "answer",
         r.header \subseteq client[c].header \cup TokensOf(c),
         r.token \in {client[c].token, None},
         r.method \in {"LOCK", "DELETE"} => r.late \subseteq contested,
         r.pc = "insert" => \A l \in Active(r.path) : l.token \in r.late,
         r.pc \in {"write", "cleanup_path", "remove_path"} =>
            \A l \in Active(r.path) : Knows(r, l),
         r.pc = "remove" => \A l \in held'[c] : l.token \notin r.header,
         \A l \in locks \ locks' : l.expires >= now /\ l.token \notin contested =>
            /\ \A d \in Clients : l \notin held'[d]
            /\ \A d \in Clients \ {c} : client[d].pc = "answer" => client[d].token # l.token
  PROVE  LocksInv'
<1>0. \A d \in Clients : client'[d] = IF d = c THEN r ELSE client[d]
  BY DEF LocksInv, TypeOK
<1>1. TypeOK'
  BY DEF LocksInv, TypeOK
<1>2. ShapeOK'
  BY <1>0 DEF LocksInv, ShapeOK
<1>3. TokensApart'
  <2>1. \A d \in Clients : Own(d)' \subseteq Own(d)
    BY <1>0 DEF Own, TokensOf
  <2> QED BY <2>1 DEF LocksInv, TokensApart
<1>4. RowsOK'
  BY FS_Subset DEF LocksInv, RowsOK
<1>5. InsertsIntoFree'
  BY <1>0 DEF LocksInv, InsertsIntoFree, Active
<1>6. AnswersWhatIsThere'
  <2> SUFFICES ASSUME NEW d \in Clients, client'[d].pc = "answer",
                      client'[d].timeout >= now', client'[d].token \notin contested'
               PROVE  RowOf(client'[d]) \in locks'
    BY DEF AnswersWhatIsThere, RowOf
  <2>1. d # c /\ client'[d] = client[d]
    BY <1>0
  <2>2. RowOf(client[d]) \in locks
    BY <2>1 DEF LocksInv, AnswersWhatIsThere
  <2>3. RowOf(client[d]).token = client[d].token /\ RowOf(client[d]).expires >= now
    BY <2>1 DEF RowOf
  <2> QED BY <2>1, <2>2, <2>3
<1>7. WritesKnowLocks'
  <2> SUFFICES ASSUME NEW d \in Clients,
                      client'[d].pc \in {"write", "cleanup_path", "remove_path"},
                      NEW l \in locks', l.path = client'[d].path, l.expires >= now'
               PROVE  l.token \in contested' \cup client'[d].header \cup client'[d].late
    BY DEF WritesKnowLocks, Knows, Active
  <2>1. l \in Active(client'[d].path)
    BY DEF Active
  <2>2. Knows(client'[d], l)
    BY <1>0, <2>1 DEF LocksInv, WritesKnowLocks
  <2> QED BY <2>2 DEF Knows
<1>8. LateIsContested'
  BY <1>0 DEF LocksInv, LateIsContested
<1>9. OneLockPerPath'
  BY DEF LocksInv, OneLockPerPath
<1>10. LocksLast'
  BY DEF LocksInv, LocksLast
<1>11. UnlocksGivenUp'
  BY <1>0 DEF LocksInv, UnlocksGivenUp, TokensOf
<1> QED BY <1>1, <1>2, <1>3, <1>4, <1>5, <1>6, <1>7, <1>8, <1>9, <1>10, <1>11 DEF LocksInv

\* A request that ends, and removes no row.
LEMMA EndKeeps ==
  ASSUME LocksInv, NEW c \in Clients, Ends(c), UNCHANGED <<locks, now, used, contested>>,
         held' \in [Clients -> SUBSET Lock],
         \A d \in Clients : held'[d] \subseteq held[d]
  PROVE  LocksInv'
<1>1. /\ NoRequest.pc = "idle" /\ NoRequest.header = {} /\ NoRequest.method = "none"
      /\ NoRequest.token = None
  BY DEF NoRequest
<1> HIDE DEF NoRequest
<1> QED BY <1>1, NoRequestIsRequest, StepKeeps DEF Ends

\* A request that reaches another point, and removes expired rows only.
LEMMA GotoKeeps ==
  ASSUME LocksInv, NEW c \in Clients, NEW pc, Goto(c, pc),
         locks' \subseteq locks, \A l \in locks \ locks' : l.expires < now,
         UNCHANGED <<now, used, contested>>,
         held' \in [Clients -> SUBSET Lock],
         \A d \in Clients : held'[d] \subseteq held[d],
         pc \in {"look", "insert", "remove", "write", "cleanup_path", "remove_path"},
         pc = "insert" => /\ client[c].method = "LOCK"
                          /\ \A l \in Active(client[c].path) : l.token \in client[c].late,
         pc = "remove" => /\ client[c].method = "UNLOCK"
                          /\ \A l \in held'[c] : l.token \notin client[c].header,
         pc = "write" => client[c].method \in Writes,
         pc \in {"cleanup_path", "remove_path"} => client[c].method = "DELETE",
         pc \in {"write", "cleanup_path", "remove_path"} =>
            \A l \in Active(client[c].path) : Knows(client[c], l)
  PROVE  LocksInv'
<1> DEFINE r == [client[c] EXCEPT !.pc = pc]
<1>1. client[c] \in Request /\ Shape(client[c])
  BY DEF LocksInv, TypeOK, ShapeOK
<1>2. /\ r \in Request
      /\ r.pc = pc /\ r.method = client[c].method /\ r.path = client[c].path
      /\ r.header = client[c].header /\ r.token = client[c].token /\ r.late = client[c].late
  BY <1>1 DEF Request
<1>3. client' = [client EXCEPT ![c] = r]
  BY <1>1 DEF Goto, LocksInv, TypeOK, Request
<1> HIDE DEF r
<1>4. Shape(r)
  BY <1>1, <1>2 DEF Shape
<1>5. /\ r.method \in {"LOCK", "DELETE"} => r.late \subseteq contested
      /\ \A l \in locks : l.expires \in Nat
      /\ now \in Nat
  BY <1>2 DEF LocksInv, LateIsContested, TypeOK, Lock
<1>6. \A l : Knows(r, l) <=> Knows(client[c], l)
  BY <1>2 DEF Knows
<1>7. \A l \in locks \ locks' : ~(l.expires >= now)
  BY <1>5
<1> QED BY <1>2, <1>3, <1>4, <1>5, <1>6, <1>7, StepKeeps

-----------------------------------------------------------------------------
(* One lemma per action.                                                   *)

\* A request that has just arrived knows nothing of the table.
LEMMA ArrivesKeeps ==
  ASSUME LocksInv, NEW c \in Clients, NEW r \in Request, Shape(r), Arrives(c, r),
         r.pc = "cleanup", r.header \subseteq TokensOf(c), r.token = None, r.late = {}
  PROVE  LocksInv'
<1>1. held \in [Clients -> SUBSET Lock]
  BY DEF LocksInv, TypeOK
<1> QED BY <1>1, StepKeeps DEF Arrives, NoRequest

LEMMA RequestsKeep ==
  ASSUME LocksInv, NEW c \in Clients, Requests(c)
  PROVE  LocksInv'
<1>1. TokensOf(c) \subseteq Tokens
  BY DEF LocksInv, TypeOK, TokensOf, Lock
<1>2. ASSUME NEW p \in Paths, NEW t \in Timeouts, LockRequest(c, p, t) PROVE LocksInv'
  <2> DEFINE r == [NoRequest EXCEPT !.method = "LOCK", !.pc = "cleanup", !.path = p,
                                    !.timeout = t]
  <2>1. /\ r \in Request /\ Shape(r) /\ r.pc = "cleanup" /\ r.header = {}
        /\ r.token = None /\ r.late = {}
    BY TimesAssumption DEF NoRequest, Request, Shape
  <2> HIDE DEF r
  <2>2. Arrives(c, r)
    BY <1>2 DEF LockRequest, r
  <2> QED BY <2>1, <2>2, ArrivesKeeps
<1>3. ASSUME NEW l \in held[c], Unlock(c, l) PROVE LocksInv'
  <2> DEFINE header == {l.token}
             r == [NoRequest EXCEPT !.method = "UNLOCK", !.pc = "cleanup", !.header = header]
  <2>1. header \in SUBSET Tokens /\ header \subseteq TokensOf(c)
    BY <1>1 DEF TokensOf
  <2>2. Arrives(c, r)
    BY <1>3 DEF Unlock
  <2> HIDE DEF header
  <2>3. /\ r \in Request /\ Shape(r) /\ r.pc = "cleanup" /\ r.header = header
        /\ r.token = None /\ r.late = {}
    BY <2>1, NoRequestIsRequest DEF NoRequest, Request, Shape
  <2> HIDE DEF r
  <2> QED BY <2>1, <2>2, <2>3, ArrivesKeeps
<1>4. ASSUME NEW method, NEW p \in Paths, NEW header, Write(c, method, p, header)
      PROVE  LocksInv'
  <2> DEFINE r == [NoRequest EXCEPT !.method = method, !.pc = "cleanup", !.path = p,
                                    !.header = header]
  <2>1. /\ method \in Writes /\ header \in SUBSET Tokens /\ header \subseteq TokensOf(c)
        /\ Arrives(c, r)
    BY <1>1, <1>4 DEF Write, Writes
  <2>2. /\ r \in Request /\ Shape(r) /\ r.pc = "cleanup" /\ r.header = header
        /\ r.token = None /\ r.late = {}
    BY <2>1, NoRequestIsRequest DEF NoRequest, Request, Shape, Writes
  <2> HIDE DEF r
  <2> QED BY <2>1, <2>2, ArrivesKeeps
<1> QED BY <1>2, <1>3, <1>4 DEF Requests

LEMMA CleanupKeeps ==
  ASSUME LocksInv, NEW c \in Clients, Cleanup(c)
  PROVE  LocksInv'
<1>1. /\ locks' \subseteq locks /\ \A l \in locks \ locks' : l.expires < now
      /\ held \in [Clients -> SUBSET Lock]
  BY DEF Cleanup, Expired, LocksInv, TypeOK
<1> QED BY <1>1, GotoKeeps DEF Cleanup

LEMMA LockLooksKeeps ==
  ASSUME LocksInv, NEW c \in Clients, LockLooks(c)
  PROVE  LocksInv'
<1>1. /\ held' = held /\ held \in [Clients -> SUBSET Lock] /\ UNCHANGED <<locks, now, used, contested>>
      /\ IsFiniteSet(locks) /\ \A l \in locks : l.expires \in Nat
  BY DEF LockLooks, LocksInv, TypeOK, Lock, RowsOK
<1>2. CASE Latest(client[c].path) # {}
  <2>1. Ends(c)
    BY <1>2 DEF LockLooks
  <2> QED BY <1>1, <2>1, EndKeeps
<1>3. CASE Latest(client[c].path) = {}
  <2>1. Active(client[c].path) = {}
    BY <1>1, <1>3, LatestIsThere
  <2>2. Goto(c, "insert") /\ client[c].method = "LOCK"
    BY <1>3 DEF LockLooks
  <2> QED BY <1>1, <2>1, <2>2, GotoKeeps
<1> QED BY <1>2, <1>3

LEMMA LockInsertsKeeps ==
  ASSUME LocksInv, NEW c \in Clients, NEW token \in Tokens, LockInserts(c, token)
  PROVE  LocksInv'
<1> DEFINE path == client[c].path
           expires == now + Granted(client[c].timeout)
           row == [token |-> token, path |-> path, expires |-> expires]
           r == [client[c] EXCEPT !.pc = "answer", !.token = token,
                                  !.timeout = expires, !.late = {}]
           Late(q) == [q EXCEPT !.late = @ \cup {token}]
<1>1. /\ client[c] \in Request /\ Shape(client[c]) /\ path \in Paths
      /\ client[c].pc = "insert" /\ client[c].method = "LOCK"
      /\ token \notin used /\ token \notin contested
      /\ now' = now /\ held' = held /\ used' = used \cup {token}
      /\ locks' = locks \cup {row}
  BY DEF LockInserts, At, LocksInv, TypeOK, ShapeOK, Shape
<1>2. expires \in Nat /\ now \in Nat
  BY <1>1, TimesAssumption DEF Granted, LocksInv, TypeOK, Request
<1>3. contested' = Contest(c, token) /\ client' = Inserted(c, r, token)
  BY DEF LockInserts
<1> HIDE DEF expires
<1>4. /\ row \in Lock /\ row.token = token /\ row.path = path /\ row.expires = expires
  BY <1>1, <1>2 DEF Lock
<1>5. /\ r \in Request /\ r.pc = "answer" /\ r.method = "LOCK" /\ r.path = path
      /\ r.token = token /\ r.timeout = expires /\ r.late = {}
      /\ r.header = client[c].header /\ RowOf(r) = row
  <2>1. expires \in Int
    BY <1>2
  <2> QED BY <1>1, <2>1 DEF Request, RowOf
<1> HIDE DEF r, row
<1>6. contested \subseteq contested' /\ contested' \subseteq contested \cup {token}
  BY <1>3 DEF Contest
<1>7. /\ client' \in [Clients -> Request]
      /\ client'[c] = r
      /\ \A d \in Clients \ {c} :
            client'[d] = IF Looked(client[d], path) THEN Late(client[d]) ELSE client[d]
  BY <1>3, <1>5 DEF Inserted, LocksInv, TypeOK, Request
<1>8. \A d \in Clients \ {c} :
        /\ client'[d].pc = client[d].pc /\ client'[d].method = client[d].method
        /\ client'[d].path = client[d].path /\ client'[d].header = client[d].header
        /\ client'[d].token = client[d].token /\ client'[d].timeout = client[d].timeout
        /\ client[d].late \subseteq client'[d].late
        /\ client'[d].late \subseteq client[d].late \cup {token}
        /\ Looked(client[d], path) => token \in client'[d].late
        /\ ~Looked(client[d], path) => client'[d].late = client[d].late
  BY <1>7 DEF LocksInv, TypeOK, Request
<1> HIDE DEF path, Late
<1>9. \A p : \A l \in locks' :
        l.path = p /\ l.expires >= now' => l \in Active(p) \/ (l = row /\ p = path)
  BY <1>1, <1>4 DEF Active
<1>10. TypeOK'
  BY <1>1, <1>4, <1>6, <1>7 DEF LocksInv, TypeOK
<1>11. ShapeOK'
  <2>1. Shape(r)
    BY <1>1, <1>2, <1>5 DEF Shape
  <2>2. \A d \in Clients \ {c} : Shape(client'[d])
    BY <1>8 DEF LocksInv, ShapeOK, Shape
  <2> QED BY <1>7, <2>1, <2>2 DEF ShapeOK
<1>12. TokensApart'
  <2>1. \A d \in Clients \ {c} : Own(d)' = Own(d)
    BY <1>1, <1>8 DEF Own, TokensOf
  <2>2. Own(c)' \subseteq Own(c) \cup {token}
    BY <1>1, <1>5, <1>7 DEF Own, TokensOf
  <2> QED BY <1>1, <2>1, <2>2 DEF LocksInv, TokensApart
<1>13. RowsOK'
  <2>1. IsFiniteSet(locks')
    BY <1>1, FS_AddElement DEF LocksInv, RowsOK
  <2> QED BY <1>1, <1>4, <2>1 DEF LocksInv, RowsOK
<1>14. InsertsIntoFree'
  <2> SUFFICES ASSUME NEW d \in Clients, client'[d].pc = "insert",
                      NEW l \in locks', l.path = client'[d].path, l.expires >= now'
               PROVE  l.token \in client'[d].late
    BY DEF InsertsIntoFree, Active
  <2>1. d # c /\ client[d].pc = "insert" /\ client'[d].path = client[d].path
    BY <1>5, <1>7, <1>8
  <2>2. CASE l \in Active(client[d].path)
    BY <1>8, <2>1, <2>2 DEF LocksInv, InsertsIntoFree
  <2>3. CASE l = row /\ client[d].path = path
    BY <1>4, <1>8, <2>1, <2>3 DEF Looked
  <2> QED BY <1>9, <2>1, <2>2, <2>3
<1>15. AnswersWhatIsThere'
  <2> SUFFICES ASSUME NEW d \in Clients, client'[d].pc = "answer",
                      client'[d].timeout >= now', client'[d].token \notin contested'
               PROVE  RowOf(client'[d]) \in locks'
    BY DEF AnswersWhatIsThere, RowOf
  <2>1. CASE d = c
    BY <1>1, <1>5, <1>7, <2>1
  <2>2. CASE d # c
    <3>1. RowOf(client'[d]) = RowOf(client[d]) /\ RowOf(client[d]) \in locks
      BY <1>1, <1>6, <1>8, <2>2 DEF RowOf, LocksInv, AnswersWhatIsThere
    <3> QED BY <1>1, <3>1
  <2> QED BY <2>1, <2>2
<1>16. WritesKnowLocks'
  <2> SUFFICES ASSUME NEW d \in Clients,
                      client'[d].pc \in {"write", "cleanup_path", "remove_path"},
                      NEW l \in locks', l.path = client'[d].path, l.expires >= now'
               PROVE  l.token \in contested' \cup client'[d].header \cup client'[d].late
    BY DEF WritesKnowLocks, Knows, Active
  <2>1. d # c /\ client[d].pc = client'[d].pc /\ client'[d].path = client[d].path
    BY <1>5, <1>7, <1>8
  <2>2. CASE l \in Active(client[d].path)
    <3>1. Knows(client[d], l)
      BY <2>1, <2>2 DEF LocksInv, WritesKnowLocks
    <3> QED BY <1>6, <1>8, <2>1, <3>1 DEF Knows
  <2>3. CASE l = row /\ client[d].path = path
    BY <1>4, <1>8, <2>1, <2>3 DEF Looked, Knows
  <2> QED BY <1>9, <2>1, <2>2, <2>3
<1>17. LateIsContested'
  <2> SUFFICES ASSUME NEW d \in Clients, client'[d].method \in {"LOCK", "DELETE"}
               PROVE  client'[d].late \subseteq contested'
    BY DEF LateIsContested
  <2>1. CASE d = c
    BY <1>5, <1>7, <2>1
  <2>2. CASE d # c
    <3>1. client[d].method \in {"LOCK", "DELETE"} /\ client[d].late \subseteq contested
      BY <1>8, <2>2 DEF LocksInv, LateIsContested
    <3>2. CASE Looked(client[d], path)
      <4>1. token \in contested'
        BY <1>3, <2>2, <3>1, <3>2 DEF Contest, path
      <4> QED BY <1>6, <1>8, <2>2, <3>1, <4>1
    <3> QED BY <1>6, <1>8, <2>2, <3>1, <3>2
  <2> QED BY <2>1, <2>2
<1>18. OneLockPerPath'
  <2>1. \A l \in locks : l.path = row.path /\ l.expires >= now =>
            {l.token, row.token} \subseteq contested'
    <3> SUFFICES ASSUME NEW l \in locks, l.path = row.path, l.expires >= now
                 PROVE  {l.token, row.token} \subseteq contested'
      OBVIOUS
    <3>1. l \in Active(path)
      BY <1>4 DEF Active
    <3>2. l.token \in client[c].late
      BY <1>1, <3>1 DEF LocksInv, InsertsIntoFree, path
    <3>3. client[c].late \subseteq contested
      BY <1>1 DEF LocksInv, LateIsContested
    <3>4. token \in contested'
      BY <1>3, <3>2 DEF Contest
    <3> QED BY <1>4, <1>6, <3>2, <3>3, <3>4
  <2> QED BY <1>1, <1>6, <2>1 DEF LocksInv, OneLockPerPath
<1>19. LocksLast'
  BY <1>1, <1>6 DEF LocksInv, LocksLast
<1>20. UnlocksGivenUp'
  BY <1>1, <1>5, <1>7, <1>8 DEF LocksInv, UnlocksGivenUp, TokensOf
<1> QED BY <1>10, <1>11, <1>12, <1>13, <1>14, <1>15, <1>16, <1>17, <1>18, <1>19, <1>20
     DEF LocksInv

LEMMA LockAnswersKeeps ==
  ASSUME LocksInv, NEW c \in Clients, LockAnswers(c)
  PROVE  LocksInv'
<1> DEFINE row == RowOf(client[c])
<1>1. /\ client[c].pc = "answer" /\ row \in Lock /\ row.token = client[c].token
      /\ row.expires = client[c].timeout /\ client[c].token \in Tokens
      /\ UNCHANGED <<locks, now, used, contested>>
      /\ client' = [client EXCEPT ![c] = NoRequest]
      /\ held' = [held EXCEPT ![c] = @ \cup {row}]
  BY DEF LockAnswers, At, Ends, LocksInv, TypeOK, Request, ShapeOK, Shape, Lock, RowOf
<1>2. row.expires >= now /\ row.token \notin contested => row \in locks
  BY <1>1 DEF LocksInv, AnswersWhatIsThere
<1> HIDE DEF row
<1>3. /\ NoRequest.pc = "idle" /\ NoRequest.header = {} /\ NoRequest.method = "none"
      /\ NoRequest.token = None
  BY DEF NoRequest
<1> HIDE DEF NoRequest
<1>4. \A d \in Clients : client'[d] = IF d = c THEN NoRequest ELSE client[d]
  BY <1>1 DEF LocksInv, TypeOK
<1>5. TypeOK'
  BY <1>1, NoRequestIsRequest DEF LocksInv, TypeOK
<1>6. ShapeOK'
  BY <1>4, NoRequestIsRequest DEF LocksInv, ShapeOK
<1>7. TokensApart'
  <2>1. \A d \in Clients : Own(d)' \subseteq Own(d)
    BY <1>1, <1>3, <1>4, TimesAssumption DEF Own, TokensOf, LocksInv, TypeOK
  <2> QED BY <1>1, <2>1 DEF LocksInv, TokensApart
<1>8. RowsOK' /\ OneLockPerPath'
  BY <1>1 DEF LocksInv, RowsOK, OneLockPerPath
<1>9. InsertsIntoFree'
  BY <1>1, <1>3, <1>4 DEF LocksInv, InsertsIntoFree, Active
<1>10. AnswersWhatIsThere'
  BY <1>1, <1>3, <1>4 DEF LocksInv, AnswersWhatIsThere, RowOf
<1>11. WritesKnowLocks'
  BY <1>1, <1>3, <1>4 DEF LocksInv, WritesKnowLocks, Active, Knows
<1>12. LateIsContested'
  BY <1>1, <1>3, <1>4 DEF LocksInv, LateIsContested
<1>13. LocksLast'
  BY <1>1, <1>2 DEF LocksInv, LocksLast, TypeOK
<1>14. UnlocksGivenUp'
  BY <1>1, <1>3, <1>4 DEF LocksInv, UnlocksGivenUp, TokensOf, TypeOK
<1> QED BY <1>5, <1>6, <1>7, <1>8, <1>9, <1>10, <1>11, <1>12, <1>13, <1>14 DEF LocksInv

LEMMA UnlockLooksKeeps ==
  ASSUME LocksInv, NEW c \in Clients, UnlockLooks(c)
  PROVE  LocksInv'
<1>1. /\ held' \in [Clients -> SUBSET Lock]
      /\ \A d \in Clients : held'[d] \subseteq held[d]
      /\ \A l \in held'[c] : l.token \notin client[c].header
      /\ client[c].method = "UNLOCK" /\ UNCHANGED <<locks, now, used, contested>>
      /\ Ends(c) \/ Goto(c, "remove")
  BY DEF UnlockLooks, LocksInv, TypeOK
<1> QED BY <1>1, EndKeeps, GotoKeeps

LEMMA UnlockRemovesKeeps ==
  ASSUME LocksInv, NEW c \in Clients, UnlockRemoves(c)
  PROVE  LocksInv'
<1>1. /\ client[c].pc = "remove" /\ held' = held /\ held \in [Clients -> SUBSET Lock]
      /\ UNCHANGED <<now, used, contested>>
      /\ locks' \subseteq locks /\ client' = [client EXCEPT ![c] = NoRequest]
      /\ \A l \in locks \ locks' : l.token \in client[c].header
  BY DEF UnlockRemoves, At, Ends, LocksInv, TypeOK
<1>2. \A d \in Clients \ {c} : client[c].header \cap Own(d) = {}
  BY DEF LocksInv, TokensApart, Own
<1>3. \A d \in Clients : \A l \in held[d] : l.token \notin client[c].header
  BY <1>1, <1>2 DEF LocksInv, UnlocksGivenUp, Own, TokensOf
<1>4. \A d \in Clients \ {c} : client[d].pc = "answer" => client[d].token \in Own(d)
  BY TimesAssumption DEF LocksInv, ShapeOK, Shape, Own
<1>5. /\ NoRequest.pc = "idle" /\ NoRequest.header = {} /\ NoRequest.method = "none"
      /\ NoRequest.token = None
  BY DEF NoRequest
<1> HIDE DEF NoRequest
<1> QED BY <1>1, <1>2, <1>3, <1>4, <1>5, NoRequestIsRequest, StepKeeps

LEMMA WriteLooksKeeps ==
  ASSUME LocksInv, NEW c \in Clients, WriteLooks(c)
  PROVE  LocksInv'
<1> DEFINE p == client[c].path
<1>1. /\ client[c].method \in Writes /\ held' = held /\ UNCHANGED <<locks, now, used, contested>>
      /\ held \in [Clients -> SUBSET Lock]
      /\ IsFiniteSet(locks) /\ \A l \in locks : l.expires \in Nat
  BY DEF WriteLooks, Writes, LocksInv, TypeOK, Lock, RowsOK
<1>2. CASE Goto(c, "write") /\ Latest(p) = {}
  <2>1. Active(p) = {}
    BY <1>1, <1>2, LatestIsThere
  <2> QED BY <1>1, <1>2, <2>1, GotoKeeps
<1>3. ASSUME NEW l \in Latest(p), Opens(client[c].header, l), Goto(c, "write")
      PROVE  LocksInv'
  <2> SUFFICES ASSUME NEW k \in Active(p) PROVE Knows(client[c], k)
    BY <1>1, <1>3, GotoKeeps
  <2>1. CASE k = l
    BY <1>3, <2>1 DEF Opens, Knows
  <2>2. CASE k # l
    \* Beside an active lock there are only contested ones.
    BY <2>2 DEF LocksInv, OneLockPerPath, Latest, Active, Knows
  <2> QED BY <2>1, <2>2
<1>4. CASE Ends(c)
  BY <1>1, <1>4, EndKeeps
<1> QED BY <1>2, <1>3, <1>4 DEF WriteLooks

LEMMA WrittenKeeps ==
  ASSUME LocksInv, NEW c \in Clients, Written(c)
  PROVE  LocksInv'
<1>1. /\ held' = held /\ held \in [Clients -> SUBSET Lock]
      /\ UNCHANGED <<locks, now, used, contested>>
      /\ \A l \in Active(client[c].path) : Knows(client[c], l)
  BY DEF Written, At, LocksInv, TypeOK, WritesKnowLocks
<1> QED BY <1>1, EndKeeps, GotoKeeps DEF Written

LEMMA CleanupPathKeeps ==
  ASSUME LocksInv, NEW c \in Clients, CleanupPath(c)
  PROVE  LocksInv'
<1>1. /\ held' = held /\ held \in [Clients -> SUBSET Lock]
      /\ UNCHANGED <<now, used, contested>>
      /\ locks' \subseteq locks /\ \A l \in locks \ locks' : l.expires < now
      /\ client[c].method = "DELETE" /\ Goto(c, "remove_path")
      /\ \A l \in Active(client[c].path) : Knows(client[c], l)
  BY DEF CleanupPath, At, Expired, LocksInv, TypeOK, WritesKnowLocks, ShapeOK, Shape
<1> QED BY <1>1, GotoKeeps

LEMMA RemovePathKeeps ==
  ASSUME LocksInv, NEW c \in Clients, RemovePath(c)
  PROVE  LocksInv'
<1>1. /\ client[c].pc = "remove_path" /\ client[c].method = "DELETE"
      /\ UNCHANGED <<now, used, contested>>
      /\ locks' \subseteq locks /\ client' = [client EXCEPT ![c] = NoRequest]
      /\ \A l \in locks \ locks' : l.path = client[c].path
      /\ held' \in [Clients -> SUBSET Lock]
      /\ \A d \in Clients : held'[d] \subseteq held[d]
      /\ \A l \in held'[c] : l.path # client[c].path
  BY DEF RemovePath, At, Ends, LocksInv, TypeOK, ShapeOK, Shape
<1>2. \A d \in Clients \ {c} : client[c].header \cap Own(d) = {}
  BY DEF LocksInv, TokensApart, Own
\* The locks it drops and does not own were granted in a race.
<1>3. \A l \in locks \ locks' :
        l.expires >= now /\ l.token \notin contested => l.token \in client[c].header
  <2>1. client[c].late \subseteq contested
    BY <1>1 DEF LocksInv, LateIsContested
  <2> QED BY <1>1, <2>1 DEF LocksInv, WritesKnowLocks, Active, Knows
<1>4. \A d \in Clients \ {c} : client[d].pc = "answer" => client[d].token \in Own(d)
  BY TimesAssumption DEF LocksInv, ShapeOK, Shape, Own
<1>5. \A l \in locks \ locks' : l.expires >= now /\ l.token \notin contested =>
        /\ \A d \in Clients : l \notin held'[d]
        /\ \A d \in Clients \ {c} : client[d].pc = "answer" => client[d].token # l.token
  BY <1>1, <1>2, <1>3, <1>4 DEF Own, TokensOf
<1>6. /\ NoRequest.pc = "idle" /\ NoRequest.header = {} /\ NoRequest.method = "none"
      /\ NoRequest.token = None
  BY DEF NoRequest
<1> HIDE DEF NoRequest
<1> QED BY <1>1, <1>5, <1>6, NoRequestIsRequest, StepKeeps

\* What is active after a tick was active before it.
LEMMA TickKeeps ==
  ASSUME LocksInv, Tick
  PROVE  LocksInv'
<1>1. /\ now \in Nat /\ now' = now + 1 /\ UNCHANGED <<locks, client, held, used, contested>>
      /\ \A l \in locks : l.expires \in Nat
      /\ \A c \in Clients : \A l \in held[c] : l.expires \in Nat
  BY DEF Tick, LocksInv, TypeOK, Lock
<1>2. TypeOK' /\ ShapeOK' /\ TokensApart' /\ RowsOK' /\ LateIsContested' /\ UnlocksGivenUp'
  BY <1>1 DEF LocksInv, TypeOK, ShapeOK, TokensApart, Own, TokensOf, RowsOK,
     LateIsContested, UnlocksGivenUp
<1>3. InsertsIntoFree'
  BY <1>1 DEF LocksInv, InsertsIntoFree, Active
<1>4. AnswersWhatIsThere'
  <2>1. \A c \in Clients : client[c].pc = "answer" => client[c].timeout \in Nat
    BY DEF LocksInv, ShapeOK, Shape
  <2> QED BY <1>1, <2>1 DEF LocksInv, AnswersWhatIsThere, RowOf
<1>5. WritesKnowLocks'
  BY <1>1 DEF LocksInv, WritesKnowLocks, Active, Knows
<1>6. OneLockPerPath' /\ LocksLast'
  BY <1>1 DEF LocksInv, OneLockPerPath, LocksLast
<1> QED BY <1>2, <1>3, <1>4, <1>5, <1>6 DEF LocksInv

LEMMA RestartKeeps ==
  ASSUME LocksInv, Restart
  PROVE  LocksInv'
<1>1. /\ now \in Nat /\ UNCHANGED <<now, held, used, contested>>
      /\ \A l \in locks \ locks' : l.expires < now
      /\ \A c \in Clients : client'[c] = NoRequest
      /\ client' = [c \in Clients |-> NoRequest]
      /\ locks' \subseteq locks /\ \A l \in locks : l.expires \in Nat
  BY DEF Restart, Expired, LocksInv, TypeOK, Lock
<1>2. /\ NoRequest.pc = "idle" /\ NoRequest.header = {} /\ NoRequest.method = "none"
      /\ NoRequest.token = None
  BY DEF NoRequest
<1> HIDE DEF NoRequest
<1>3. TypeOK' /\ ShapeOK'
  BY <1>1, NoRequestIsRequest DEF LocksInv, TypeOK, ShapeOK
<1>4. TokensApart'
  <2>1. \A d \in Clients : Own(d)' \subseteq Own(d)
    BY <1>1, <1>2 DEF Own, TokensOf
  <2> QED BY <1>1, <2>1 DEF LocksInv, TokensApart
<1>5. RowsOK' /\ OneLockPerPath'
  BY <1>1, FS_Subset DEF LocksInv, RowsOK, OneLockPerPath
<1>6. LateIsContested' /\ UnlocksGivenUp' /\ InsertsIntoFree' /\ WritesKnowLocks'
      /\ AnswersWhatIsThere'
  BY <1>1, <1>2 DEF LateIsContested, UnlocksGivenUp, InsertsIntoFree, WritesKnowLocks,
     AnswersWhatIsThere
<1>7. LocksLast'
  BY <1>1 DEF LocksInv, LocksLast
<1> QED BY <1>3, <1>4, <1>5, <1>6, <1>7 DEF LocksInv

-----------------------------------------------------------------------------
LEMMA InitLocks == Init => LocksInv
<1> SUFFICES ASSUME Init PROVE LocksInv
  OBVIOUS
<1>1. \A c \in Clients : client[c] = NoRequest
  BY DEF Init
<1>2. TypeOK /\ ShapeOK
  BY <1>1, NoRequestIsRequest DEF Init, TypeOK, ShapeOK
<1>3. /\ NoRequest.pc = "idle" /\ NoRequest.header = {} /\ NoRequest.method = "none"
      /\ NoRequest.token = None
  BY DEF NoRequest
<1> HIDE DEF NoRequest
<1>4. TokensApart
  BY <1>1, <1>3 DEF Init, TokensApart, Own, TokensOf
<1>5. RowsOK /\ OneLockPerPath /\ LocksLast
  BY FS_EmptySet DEF Init, RowsOK, OneLockPerPath, LocksLast
<1>6. InsertsIntoFree /\ AnswersWhatIsThere /\ WritesKnowLocks /\ LateIsContested
      /\ UnlocksGivenUp
  BY <1>1, <1>3 DEF InsertsIntoFree, AnswersWhatIsThere, WritesKnowLocks, LateIsContested,
     UnlocksGivenUp
<1> QED BY <1>2, <1>4, <1>5, <1>6 DEF LocksInv

LEMMA NextLocks ==
  ASSUME LocksInv, [Next]_vars
  PROVE  LocksInv'
<1>1. ASSUME NEW c \in Clients, Continue(c) PROVE LocksInv'
  BY <1>1, CleanupKeeps, LockLooksKeeps, LockInsertsKeeps, LockAnswersKeeps,
     UnlockLooksKeeps, UnlockRemovesKeeps, WriteLooksKeeps, WrittenKeeps,
     CleanupPathKeeps, RemovePathKeeps
     DEF Continue
<1>2. CASE UNCHANGED vars
  <2>1. TypeOK' /\ ShapeOK' /\ TokensApart' /\ RowsOK'
    BY <1>2 DEF vars, LocksInv, TypeOK, ShapeOK, TokensApart, Own, TokensOf, RowsOK
  <2>2. InsertsIntoFree' /\ WritesKnowLocks'
    BY <1>2 DEF vars, LocksInv, InsertsIntoFree, WritesKnowLocks, Knows, Active
  <2>3. AnswersWhatIsThere' /\ LateIsContested' /\ UnlocksGivenUp'
    BY <1>2 DEF vars, LocksInv, AnswersWhatIsThere, RowOf, LateIsContested,
       UnlocksGivenUp, TokensOf
  <2>4. OneLockPerPath' /\ LocksLast'
    BY <1>2 DEF vars, LocksInv, OneLockPerPath, LocksLast
  <2> QED BY <2>1, <2>2, <2>3, <2>4 DEF LocksInv
<1> QED BY <1>1, <1>2, RequestsKeep, TickKeeps, RestartKeeps DEF Next

LEMMA LocksInvHolds == Spec => []LocksInv
<1>1. Init => LocksInv
  BY InitLocks
<1>2. LocksInv /\ [Next]_vars => LocksInv'
  BY NextLocks
<1> QED BY <1>1, <1>2, PTL DEF Spec

\* Every reachable state of the lock service is well typed.
THEOREM LocksTyped == Spec => []TypeOK
<1>1. LocksInv => TypeOK
  BY DEF LocksInv
<1> QED BY <1>1, LocksInvHolds, PTL

\* However the LOCKs of a path race, two of its locks are active at once only
\* if both were granted in a race (locks.py: create looks, then inserts).
THEOREM LocksHold == Spec => []OneLockPerPath
<1>1. LocksInv => OneLockPerPath
  BY DEF LocksInv
<1> QED BY <1>1, LocksInvHolds, PTL

\* A lock that was not granted in a race lasts until it expires or its client
\* gives it up: no cleanup, restart, UNLOCK or DELETE of another takes its row.
THEOREM LocksAreKept == Spec => []LocksLast
<1>1. LocksInv => LocksLast
  BY DEF LocksInv
<1> QED BY <1>1, LocksInvHolds, PTL

\* While a client holds such a lock, a write of another client is under way at
\* its path only if assert_can_write had looked before the lock was granted.
THEOREM LocksAreRespected == Spec => []WritesRespectLocks
<1>1. LocksInv => WritesRespectLocks
  <2> SUFFICES ASSUME LocksInv, NEW c \in Clients, NEW d \in Clients, NEW l \in held[d],
                      c # d, l.expires >= now, l.token \notin contested,
                      client[c].method \in Writes, Looked(client[c], l.path)
               PROVE  l.token \in client[c].late
    BY DEF WritesRespectLocks, Writes
  <2>1. l \in Active(client[c].path)
    BY DEF LocksInv, LocksLast, Active, Looked
  <2>2. client[c].pc \in {"write", "cleanup_path", "remove_path"}
    BY DEF LocksInv, ShapeOK, Shape, Looked, Writes
  <2>3. Knows(client[c], l)
    BY <2>1, <2>2 DEF LocksInv, WritesKnowLocks
  <2>4. l.token \notin client[c].header
    BY DEF LocksInv, TokensApart, Own, TokensOf
  <2> QED BY <2>3, <2>4 DEF Knows
<1> QED BY <1>1, LocksInvHolds, PTL

=============================================================================
