------------------------- MODULE CloudSessionProofs -------------------------
(***************************************************************************)
(* Proofs about the provider's session, for any number of calls and of     *)
(* sessions: its types, that a session known to have expired is not sent,  *)
(* and that good sessions are left alone.                                  *)
(***************************************************************************)
EXTENDS SessionHistory, TLAPS

-----------------------------------------------------------------------------
(* What a step makes of a call: it ends, it starts over with the session   *)
(* known to have expired, it sends one, or it goes on to the browser or to *)
(* the renewal.                                                            *)

Becomes(c, q) == q \in Request /\ request' = [request EXCEPT ![c] = q]

Ended(q) == q.pc = "idle" /\ q.kind = "api" /\ q.session = None

StartsOver(q, r) ==
    q.pc = "locks" /\ q.why = "expired" /\ q.kind = r.kind /\ q.session = None

Sending(q, r, s) ==
    /\ q.pc = "sent" /\ q.kind = r.kind /\ q.tries = r.tries
    /\ s # None /\ q.session = s /\ s.key # expiry'.key

GoesOn(q, r, s) == Ended(q) \/ StartsOver(q, r) \/ Sending(q, r, s)

\* A step of the recovery r leads to q, with the session it recovers.
Recovering(q, r, pc) ==
    q.pc = pc /\ q.kind = r.kind /\ q.why = r.why /\ q.tries = r.tries /\ q.session = r.session

\* What the client knows of the expiry, from e, as a new marker or the same.
Learns(e) == expiry' \in Expiry /\ alert' \in Alert /\ expiry'.key \in {None, e.key}

\* A recovery that gives up may flag the stored session.
Flags(e) == expiry' \in Expiry /\ alert' \in Alert /\ expiry'.key \in {e.key, KeyOf(stored)}

-----------------------------------------------------------------------------
(* The types.                                                              *)

LEMMA Constants ==
  /\ MaxSessions \in Nat \ {0} /\ Keys \subseteq Nat \ {0} /\ NoKey \notin Keys
  /\ Keepalive \in Callers /\ Media \subseteq Callers /\ Admin \notin Callers
  /\ Bundles \in BOOLEAN /\ None \notin Session /\ None \notin Actors /\ None \notin Nat
  /\ None \notin Keys /\ None # NoKey
  /\ \A s \in Session : s.key \in Keys /\ s.made \in Keys
  BY SessionAssumption DEF Keys, NoKey, Actors, Session

LEMMA IdleTyped == Idle \in Request /\ Ended(Idle)
  BY DEF Idle, Request, NoKey, Ended

LEMMA KeyOfTyped ==
  ASSUME NEW s \in Session \cup {None} PROVE KeyOf(s) \in Keys \cup {NoKey}
  BY Constants DEF KeyOf

LEMMA MarkedTyped ==
  ASSUME NEW e \in Expiry, NEW s \in Session \cup {None}
  PROVE  Marked(e, s) \in Expiry /\ Marked(e, s).key = KeyOf(s)
  BY KeyOfTyped DEF Marked, Expiry

LEMMA ClearedTyped == Cleared \in Expiry /\ Cleared.key = None
  BY DEF Cleared, Expiry

LEMMA CheckedTyped ==
  ASSUME NEW e \in Expiry, NEW s
  PROVE  Checked(e, s) \in Expiry /\ Checked(e, s).key \in {None, e.key}
  BY ClearedTyped DEF Checked

LEMMA RequiredTyped ==
  ASSUME NEW e \in Expiry
  PROVE  Required(e) \in Expiry /\ Required(e).key = None
  BY ClearedTyped DEF Required

LEMMA BackoffTyped ==
  ASSUME NEW e \in Expiry, NEW b \in BOOLEAN
  PROVE  [e EXCEPT !.backoff = b] \in Expiry /\ [e EXCEPT !.backoff = b].key = e.key
  BY DEF Expiry

LEMMA SetExpiryTyped ==
  ASSUME alert \in Alert, NEW e \in Expiry, SetExpiry(e)
  PROVE  expiry' = e /\ expiry' \in Expiry /\ alert' \in Alert
  BY DEF SetExpiry, Alert

LEMMA SendsTyped ==
  ASSUME NEW r \in Request, NEW s \in Session
  PROVE  /\ Sends(r, s) \in Request /\ Sends(r, s).pc = "sent" /\ Sends(r, s).session = s
         /\ Sends(r, s).kind = r.kind /\ Sends(r, s).tries = r.tries
  BY DEF Sends, Request, NoKey

LEMMA RecoveredTyped ==
  ASSUME NEW r \in Request
  PROVE  Recovered(r) \in Request /\ Recovered(r).kind = r.kind
  BY DEF Recovered, Request

LEMMA QueuesTyped ==
  ASSUME NEW r \in Request, NEW s \in Session \cup {None}
  PROVE  Queues(r, s) \in Request /\ Recovering(Queues(r, s), r, "queue")
  BY KeyOfTyped DEF Queues, Request, Recovering

LEMMA UnblockedTyped ==
  ASSUME blocked \in Keys \cup {NoKey}, NEW s
  PROVE  Unblocked(s) \in Keys \cup {NoKey}
  BY DEF Unblocked

LEMMA ProceedsTo ==
  ASSUME alert \in Alert, NEW c, NEW r \in Request, NEW e \in Expiry,
         NEW s \in Session \cup {None}, Proceeds(c, r, e, s)
  PROVE  /\ \E q : Becomes(c, q) /\ GoesOn(q, r, s)
         /\ Learns(e)
<1>1. CASE MaySend(e, s)
  <2>1. s \in Session
    BY <1>1 DEF MaySend
  <2> DEFINE q == Sends(r, s)
  <2>2. request' = [request EXCEPT ![c] = q] /\ SetExpiry(Required(e))
    BY <1>1 DEF Proceeds, Does
  <2>3. q \in Request /\ q.pc = "sent" /\ q.session = s /\ q.kind = r.kind /\ q.tries = r.tries
    BY <2>1, SendsTyped
  <2> HIDE DEF q
  <2>4. expiry' \in Expiry /\ expiry'.key = None /\ alert' \in Alert
    BY <2>2, RequiredTyped, SetExpiryTyped
  <2>5. s # None /\ s.key # None
    BY <2>1, Constants
  <2> QED BY <2>2, <2>3, <2>4, <2>5 DEF Becomes, GoesOn, Sending, Learns
<1>2. CASE ~MaySend(e, s)
  <2>1. SetExpiry(e)
    BY <1>2 DEF Proceeds
  <2>2. Learns(e)
    BY <2>1, SetExpiryTyped DEF Learns
  <2> DEFINE q == [r EXCEPT !.pc = "locks", !.why = "expired", !.session = None]
  <2>3. q \in Request /\ StartsOver(q, r)
    BY DEF Request, StartsOver
  <2>4. request' = [request EXCEPT ![c] = q] \/ request' = [request EXCEPT ![c] = Idle]
    BY <1>2 DEF Proceeds, Does
  <2> HIDE DEF q
  <2> QED BY <2>2, <2>3, <2>4, IdleTyped DEF Becomes, GoesOn
<1> QED BY <1>1, <1>2

LEMMA RefusesTo ==
  ASSUME alert \in Alert, stored \in Session \cup {None}, NEW c, NEW r, NEW e \in Expiry,
         Refuses(c, r, e)
  PROVE  /\ \E q : Becomes(c, q) /\ Ended(q)
         /\ Flags(e)
<1>1. Becomes(c, Idle) /\ Ended(Idle)
  BY IdleTyped DEF Refuses, Does, Becomes
<1>2. Flags(e)
  BY MarkedTyped, SetExpiryTyped DEF Refuses, Flags
<1> QED BY <1>1, <1>2

LEMMA GivesUpTo ==
  ASSUME TypeOK, NEW c, NEW r, GivesUp(c, r)
  PROVE  /\ \E q : Becomes(c, q) /\ Ended(q)
         /\ Flags(expiry)
         /\ r.why # "rejected" => expiry'.key = expiry.key
<1> DEFINE e == [expiry EXCEPT !.backoff = TRUE]
<1>1. e \in Expiry /\ e.key = expiry.key /\ alert \in Alert /\ stored \in Session \cup {None}
  BY BackoffTyped DEF TypeOK
<1>2. \/ r.why = "rejected" /\ Refuses(c, r, e)
      \/ r.why # "rejected" /\ Does(c, Idle) /\ SetExpiry(e)
  BY DEF GivesUp
<1> HIDE DEF e
<1>3. CASE r.why = "rejected" /\ Refuses(c, r, e)
  BY <1>1, <1>3, RefusesTo DEF Flags
<1>4. CASE r.why # "rejected" /\ Does(c, Idle) /\ SetExpiry(e)
  BY <1>1, <1>4, IdleTyped, SetExpiryTyped DEF Does, Becomes, Flags
<1> QED BY <1>2, <1>3, <1>4

\* The recovery of s goes on under the lock, or gives up and leaves it.
Tries(c, r, s) ==
    /\ Flags(expiry) /\ blocked' \in Keys \cup {NoKey}
    /\ \/ /\ lock' = c /\ expiry'.key = expiry.key
          /\ \E q : /\ Becomes(c, q) /\ q.pc \in {"oauth", "queue"}
                    /\ q.kind = r.kind /\ q.session = s
       \/ /\ lock' = None /\ (r.why # "rejected" => expiry'.key = expiry.key)
          /\ \E q : Becomes(c, q) /\ Ended(q)

LEMMA ReturnsTo ==
  ASSUME TypeOK, NEW c, NEW r, Returns(c, r)
  PROVE  /\ \E q : Becomes(c, q) /\ Ended(q)
         /\ Flags(expiry)
         /\ lock # c \/ r.why # "rejected" => expiry'.key = expiry.key
         /\ lock' = IF lock = c THEN None ELSE lock
<1>1. CASE lock = c
  <2>1. GivesUp(c, r) /\ lock' = None
    BY <1>1 DEF Returns
  <2> QED BY <1>1, <2>1, GivesUpTo
<1>2. CASE lock # c
  <2>1. Does(c, Idle) /\ SetExpiry(expiry) /\ lock' = lock
    BY <1>2 DEF Returns
  <2>2. expiry \in Expiry /\ alert \in Alert
    BY DEF TypeOK
  <2>3. Becomes(c, Idle) /\ Ended(Idle)
    BY <2>1, IdleTyped DEF Does, Becomes
  <2>4. expiry' = expiry /\ Flags(expiry)
    BY <2>1, <2>2, SetExpiryTyped DEF Flags
  <2> QED BY <1>2, <2>1, <2>3, <2>4
<1> QED BY <1>1, <1>2

LEMMA BrowsesTo ==
  ASSUME TypeOK, NEW c, NEW r \in Request, Browses(c, r)
  PROVE  Tries(c, r, r.session)
<1>1. /\ stored \in Session \cup {None} /\ blocked \in Keys \cup {NoKey}
      /\ expiry \in Expiry /\ alert \in Alert
  BY DEF TypeOK
<1>2. blocked' \in Keys \cup {NoKey}
  BY <1>1, UnblockedTyped DEF Browses
<1>3. CASE MayBrowse(stored)
  <2> DEFINE q == Queues(r, stored)
  <2>1. request' = [request EXCEPT ![c] = q] /\ SetExpiry(expiry) /\ lock' = c
    BY <1>3 DEF Browses, Does
  <2>2. q \in Request /\ Recovering(q, r, "queue")
    BY <1>1, QueuesTyped
  <2> HIDE DEF q
  <2>3. expiry' = expiry /\ Flags(expiry)
    BY <1>1, <2>1, SetExpiryTyped DEF Flags
  <2> QED BY <1>2, <2>1, <2>2, <2>3 DEF Tries, Becomes, Recovering
<1>4. CASE ~MayBrowse(stored)
  <2>1. GivesUp(c, r) /\ lock' = None
    BY <1>4 DEF Browses
  <2> QED BY <1>2, <2>1, GivesUpTo DEF Tries
<1> QED BY <1>3, <1>4

LEMMA AttemptsTo ==
  ASSUME TypeOK, NEW c, NEW r \in Request, Attempts(c, r)
  PROVE  Tries(c, r, stored)
<1>1. /\ stored \in Session \cup {None} /\ blocked \in Keys \cup {NoKey}
      /\ expiry \in Expiry /\ alert \in Alert
  BY DEF TypeOK
<1>2. CASE Bundles
  <2> DEFINE q == [r EXCEPT !.pc = "oauth", !.session = stored]
  <2>1. /\ request' = [request EXCEPT ![c] = q] /\ SetExpiry(expiry) /\ lock' = c
        /\ blocked' = blocked
    BY <1>2 DEF Attempts, Does
  <2>2. q \in Request /\ q.pc = "oauth" /\ q.kind = r.kind /\ q.session = stored
    BY <1>1 DEF Request
  <2> HIDE DEF q
  <2>3. expiry' = expiry /\ Flags(expiry)
    BY <1>1, <2>1, SetExpiryTyped DEF Flags
  <2> QED BY <1>1, <2>1, <2>2, <2>3 DEF Tries, Becomes
<1>3. CASE ~Bundles
  <2> DEFINE q == [r EXCEPT !.session = stored]
  <2>1. q \in Request /\ q.why = r.why /\ q.kind = r.kind /\ q.session = stored
    BY <1>1 DEF Request
  <2>2. Browses(c, q)
    BY <1>3 DEF Attempts
  <2> HIDE DEF q
  <2>3. Tries(c, q, q.session)
    BY <2>1, <2>2, BrowsesTo
  <2> QED BY <2>1, <2>3 DEF Tries
<1> QED BY <1>2, <1>3

LEMMA NewSessionsTyped ==
  ASSUME made \in 0..MaxSessions, made < MaxSessions,
         NEW t \in Session \cup {None}, NEW s \in NewSessions(t)
  PROVE  /\ s \in Session /\ s.made = made + 1
         /\ s.key = made + 1 \/ (t # None /\ s.key = t.key)
<1>1. made + 1 \in Keys /\ made + 1 \in 1..MaxSessions
  BY Constants DEF Keys
<1>2. PICK k : s = [key |-> k, made |-> made + 1]
               /\ k \in {made + 1} \cup (IF t = None THEN {} ELSE {t.key})
  BY DEF NewSessions
<1>3. k \in Keys /\ (k = made + 1 \/ (t # None /\ k = t.key))
  BY <1>1, <1>2, Constants
<1> QED BY <1>1, <1>2, <1>3 DEF Session

\* A new session is saved: its key is new, or that of t.
Renews(t, s) ==
    /\ s \in Session /\ s.made = made + 1
    /\ s.key = made + 1 \/ (t # None /\ s.key = t.key)
    /\ stored' = s /\ made' = made + 1 /\ made' \in 0..MaxSessions /\ alive' \subseteq Keys

LEMMA SavesTo ==
  ASSUME TypeOK, NEW t \in Session \cup {None}, NEW s \in NewSessions(t), Saves(s)
  PROVE  Renews(t, s)
<1>1. made \in 0..MaxSessions /\ made < MaxSessions /\ alive \subseteq Keys
  BY DEF TypeOK, Saves
<1>2. s \in Session /\ s.made = made + 1 /\ (s.key = made + 1 \/ (t # None /\ s.key = t.key))
  BY <1>1, NewSessionsTyped
<1>3. s.key \in Keys
  BY <1>2, Constants
<1>4. stored' = s /\ made' = made + 1 /\ alive' \subseteq Keys
  BY <1>1, <1>2, <1>3 DEF Saves
<1>5. made + 1 \in 0..MaxSessions
  BY <1>1, Constants
<1> QED BY <1>2, <1>4, <1>5 DEF Renews

-----------------------------------------------------------------------------
(* The actions: each keeps the types and sends nothing that is known to    *)
(* have expired.                                                           *)

\* The call of c has just been renewed.
Renewed(c) ==
    \/ request[c].pc = "oauth" /\ made' = made + 1
    \/ request[c].pc = "closing" /\ lock = c

NotSent(c, q) == q.pc = "sent" => q.session.key # expiry.key \/ Renewed(c)

Unresent ==
    \A c \in Callers :
        request'[c].pc = "sent" /\ request[c].pc # "sent" => NotSent(c, request'[c])

LEMMA Requests ==
  ASSUME TypeOK
  PROVE  /\ \A c \in Actors : request[c] \in Request
         /\ \A c \in Callers : c \in Actors /\ request[c] \in Request
         /\ Admin \in Actors
         /\ stored \in Session \cup {None} /\ expiry \in Expiry /\ alert \in Alert
         /\ \A c \in Actors : request[c].session \in Session \cup {None}
  BY DEF TypeOK, Actors, Request

LEMMA CallTyped ==
  ASSUME TypeOK, NEW c \in Actors, NEW q, Becomes(c, q), NotSent(c, q),
         expiry' \in Expiry, alert' \in Alert, lock' \in Callers \cup {None},
         browser' \in Actors \cup {None}, blocked' \in Keys \cup {NoKey}, profile' \in BOOLEAN,
         stored' \in Session \cup {None}, made' \in 0..MaxSessions, alive' \subseteq Keys
  PROVE  TypeOK' /\ Unresent
<1>1. request \in [Actors -> Request] /\ q \in Request /\ request' = [request EXCEPT ![c] = q]
  BY DEF TypeOK, Becomes
<1>2. request' \in [Actors -> Request] /\ \A d \in Callers : d # c => request'[d] = request[d]
  BY <1>1 DEF Actors
<1>3. TypeOK'
  BY <1>2 DEF TypeOK
<1>4. request'[c] = q
  BY <1>1
<1>5. Unresent
  BY <1>2, <1>4 DEF Unresent, NotSent
<1> QED BY <1>3, <1>5

LEMMA QuietTyped ==
  ASSUME TypeOK, UNCHANGED <<request, lock>>,
         expiry' \in Expiry, alert' \in Alert,
         browser' \in Actors \cup {None}, blocked' \in Keys \cup {NoKey}, profile' \in BOOLEAN,
         stored' \in Session \cup {None}, made' \in 0..MaxSessions, alive' \subseteq Keys
  PROVE  TypeOK' /\ Unresent
  BY DEF TypeOK, Unresent

\* A recovery goes on with what _require_session returns.
LEMMA SendingIsGood ==
  ASSUME TypeOK, NEW c \in Actors, NEW r \in Request, NEW e \in Expiry,
         NEW s \in Session \cup {None}, Proceeds(c, r, e, s),
         e.key = expiry.key \/ s = None \/ s.key # expiry.key \/ Renewed(c),
         NEW q, Becomes(c, q)
  PROVE  NotSent(c, q)
<1>1. q = request'[c]
  BY DEF TypeOK, Becomes
<1>2. CASE MaySend(e, s)
  <2>1. s \in Session /\ s.key # e.key
    BY <1>2 DEF MaySend
  <2>2. Does(c, Sends(r, s)) /\ Sends(r, s).session = s
    BY <1>2, <2>1, SendsTyped DEF Proceeds
  <2>3. q.session = s
    BY <1>1, <2>2 DEF TypeOK, Does
  <2> QED BY <2>1, <2>3, Constants DEF NotSent
<1>3. CASE ~MaySend(e, s)
  <2>1. \/ Does(c, Idle)
        \/ Does(c, [r EXCEPT !.pc = "locks", !.why = "expired", !.session = None])
    BY <1>3 DEF Proceeds
  <2>2. CASE Does(c, Idle)
    BY <1>1, <2>2 DEF TypeOK, Does, Idle, NotSent
  <2>3. CASE Does(c, [r EXCEPT !.pc = "locks", !.why = "expired", !.session = None])
    <3>1. q = [r EXCEPT !.pc = "locks", !.why = "expired", !.session = None]
      BY <1>1, <2>3 DEF TypeOK, Does
    <3>2. q.pc = "locks"
      BY <3>1 DEF Request
    <3> QED BY <3>2 DEF NotSent
  <2> QED BY <2>1, <2>2, <2>3
<1> QED BY <1>2, <1>3

Begun(q) ==
    /\ q.kind \in {"api", "media"} /\ q.tries = 0
    /\ \/ q.pc = "sent" /\ q.session = stored /\ stored.key # None /\ expiry'.key = None
       \/ /\ q.pc = "locks" /\ q.why = "expired" /\ q.session = None
          /\ expiry'.key = expiry.key

LEMMA BeginTo ==
  ASSUME TypeOK, NEW c \in Callers, Begin(c)
  PROVE  /\ TypeOK' /\ Unresent
         /\ request[c].pc = "idle" /\ stored # None
         /\ UNCHANGED <<stored, made, lock>>
         /\ \E q : Becomes(c, q) /\ Begun(q)
<1> DEFINE r == [Idle EXCEPT !.kind = IF c \in Media THEN "media" ELSE "api"]
<1>1. /\ r \in Request /\ r.kind \in {"api", "media"} /\ r.tries = 0 /\ r.pc = "idle"
      /\ r.session = None
  BY IdleTyped DEF Request, Idle
<1>2. /\ request[c].pc = "idle" /\ stored # None
      /\ UNCHANGED <<stored, made, alive, lock, browser, blocked, profile>>
      /\ \/ /\ request' = [request EXCEPT ![c] = Sends(r, stored)]
            /\ SetExpiry(Required(expiry)) /\ stored.key # expiry.key
         \/ /\ request' = [request EXCEPT ![c] = [r EXCEPT !.pc = "locks", !.why = "expired"]]
            /\ SetExpiry(expiry)
  BY DEF Begin, Busy, Does, MaySend
<1> HIDE DEF r
<1>3. stored \in Session /\ stored.key # None /\ expiry \in Expiry /\ alert \in Alert
  BY <1>2, Constants, Requests
<1>4. \E q : /\ Becomes(c, q) /\ Begun(q) /\ NotSent(c, q)
             /\ expiry' \in Expiry /\ alert' \in Alert
  <2>1. CASE /\ request' = [request EXCEPT ![c] = Sends(r, stored)]
             /\ SetExpiry(Required(expiry)) /\ stored.key # expiry.key
    <3>1. expiry' \in Expiry /\ alert' \in Alert /\ expiry'.key = None
      BY <1>3, <2>1, RequiredTyped, SetExpiryTyped
    <3> DEFINE q == Sends(r, stored)
    <3>2. q \in Request /\ q.pc = "sent" /\ q.session = stored /\ q.kind = r.kind /\ q.tries = r.tries
      BY <1>1, <1>3, SendsTyped
    <3>3. request' = [request EXCEPT ![c] = q]
      BY <2>1
    <3> HIDE DEF q
    <3> QED BY <1>1, <1>3, <2>1, <3>1, <3>2, <3>3 DEF Becomes, Begun, NotSent
  <2>2. CASE /\ request' = [request EXCEPT ![c] = [r EXCEPT !.pc = "locks", !.why = "expired"]]
             /\ SetExpiry(expiry)
    <3>1. expiry' \in Expiry /\ alert' \in Alert /\ expiry'.key = expiry.key
      BY <1>3, <2>2, SetExpiryTyped
    <3> DEFINE q == [r EXCEPT !.pc = "locks", !.why = "expired"]
    <3>2. /\ q \in Request /\ q.pc = "locks" /\ q.why = "expired" /\ q.kind = r.kind
          /\ q.tries = r.tries /\ q.session = r.session
      BY <1>1 DEF Request
    <3>3. request' = [request EXCEPT ![c] = q]
      BY <2>2
    <3> HIDE DEF q
    <3> QED BY <1>1, <3>1, <3>2, <3>3 DEF Becomes, Begun, NotSent
  <2> QED BY <1>2, <2>1, <2>2
<1>5. TypeOK' /\ Unresent
  BY <1>2, <1>4, CallTyped, Requests DEF TypeOK
<1> QED BY <1>2, <1>4, <1>5

LEMMA ServesTo ==
  ASSUME TypeOK, NEW c \in Callers, Serves(c)
  PROVE  /\ TypeOK' /\ Unresent
         /\ request[c].pc = "sent" /\ UNCHANGED <<stored, made, lock, expiry>>
         /\ \E q : /\ Becomes(c, q) /\ q.pc \in {"accepted", "refused"}
                   /\ Recovering(q, request[c], q.pc)
<1> DEFINE r == request[c]
<1>1. r \in Request
  BY Requests
<1>2. PICK pc \in {"accepted", "refused"} : request' = [request EXCEPT ![c] = [r EXCEPT !.pc = pc]]
  BY DEF Serves, Does
<1>3. /\ r.pc = "sent"
      /\ UNCHANGED <<stored, made, alive, expiry, lock, browser, blocked, profile, alert>>
  BY DEF Serves
<1> DEFINE q == [r EXCEPT !.pc = pc]
<1>4. q \in Request /\ q.pc = pc /\ Recovering(q, r, pc)
  BY <1>1 DEF Request, Recovering
<1> HIDE DEF r
<1>5. request' = [request EXCEPT ![c] = q]
  BY <1>2
<1> HIDE DEF q
<1>6. Becomes(c, q) /\ NotSent(c, q)
  BY <1>4, <1>5 DEF Becomes, NotSent
<1>7. TypeOK' /\ Unresent
  BY <1>3, <1>6, CallTyped, Requests DEF TypeOK
<1> QED BY <1>3, <1>4, <1>6, <1>7 DEF r

\* An answer ends the call, or the keepalive loop goes on to the browser.
Answered(c, q) ==
    \/ Ended(q)
    \/ q.pc = "queue" /\ q.kind = "proactive" /\ q.session = None

LEMMA AcceptedTo ==
  ASSUME TypeOK, NEW c \in Callers, Accepted(c)
  PROVE  /\ TypeOK' /\ Unresent
         /\ request[c].pc = "accepted" /\ UNCHANGED <<made, lock, expiry>>
         /\ stored' \in {stored, request[c].session}
         /\ \E q : Becomes(c, q) /\ Answered(c, q)
<1> DEFINE r == request[c]
<1>1. r \in Request /\ r.session \in Session \cup {None} /\ stored \in Session \cup {None}
      /\ blocked \in Keys \cup {NoKey}
  BY Requests DEF TypeOK
<1>2. /\ r.pc = "accepted" /\ UNCHANGED <<made, alive, expiry, lock, browser, profile, alert>>
  BY DEF Accepted
<1>3. PICK s \in {stored, r.session} :
          /\ stored' = s
          /\ \/ request' = [request EXCEPT ![c] = Idle] /\ blocked' = blocked
             \/ /\ request' = [request EXCEPT ![c] = Queues([Idle EXCEPT !.kind = "proactive"], s)]
                /\ blocked' = Unblocked(s)
  BY DEF Accepted, Does
<1> HIDE DEF r
<1>4. s \in Session \cup {None} /\ blocked' \in Keys \cup {NoKey}
  BY <1>1, <1>3, UnblockedTyped
<1>5. \E q : Becomes(c, q) /\ Answered(c, q)
  <2>1. CASE request' = [request EXCEPT ![c] = Idle]
    BY <2>1, IdleTyped DEF Becomes, Answered
  <2>2. CASE request' = [request EXCEPT ![c] = Queues([Idle EXCEPT !.kind = "proactive"], s)]
    <3> DEFINE p == [Idle EXCEPT !.kind = "proactive"]
               q == Queues(p, s)
    <3>1. p \in Request /\ p.kind = "proactive" /\ p.session = None
      BY IdleTyped DEF Request, Idle
    <3>2. request' = [request EXCEPT ![c] = q]
      BY <2>2
    <3> HIDE DEF p
    <3>3. q \in Request /\ Recovering(q, p, "queue")
      BY <1>4, <3>1, QueuesTyped
    <3> HIDE DEF q
    <3> QED BY <3>1, <3>2, <3>3 DEF Becomes, Answered, Recovering
  <2> QED BY <1>3, <2>1, <2>2
<1>6. TypeOK' /\ Unresent
  BY <1>2, <1>3, <1>4, <1>5, CallTyped, Requests DEF TypeOK, Answered, Ended, NotSent
<1> QED BY <1>2, <1>3, <1>5, <1>6 DEF r

LEMMA RefusedTo ==
  ASSUME TypeOK, NEW c \in Callers, Refused(c)
  PROVE  /\ TypeOK' /\ Unresent
         /\ request[c].pc = "refused" /\ UNCHANGED <<stored, made, lock>>
         /\ \/ /\ request[c].tries = 0 /\ expiry'.key = expiry.key
               /\ \E q : /\ Becomes(c, q) /\ q.pc = "locks" /\ q.why = "rejected"
                         /\ q.kind = request[c].kind /\ q.session = request[c].session
            \/ /\ request[c].tries = 1 /\ Flags(expiry)
               /\ \E q : Becomes(c, q) /\ Ended(q)
<1> DEFINE r == request[c]
<1>1. r \in Request /\ stored \in Session \cup {None} /\ expiry \in Expiry /\ alert \in Alert
  BY Requests
<1>2. /\ r.pc = "refused"
      /\ UNCHANGED <<stored, made, alive, lock, browser, blocked, profile>>
      /\ \/ r.tries = 0 /\ Does(c, [r EXCEPT !.pc = "locks", !.why = "rejected"]) /\ SetExpiry(expiry)
         \/ r.tries # 0 /\ Refuses(c, r, expiry)
  BY DEF Refused
<1>3. CASE r.tries = 0 /\ Does(c, [r EXCEPT !.pc = "locks", !.why = "rejected"]) /\ SetExpiry(expiry)
  <2> DEFINE q == [r EXCEPT !.pc = "locks", !.why = "rejected"]
  <2>1. /\ q \in Request /\ q.pc = "locks" /\ q.why = "rejected"
        /\ q.kind = r.kind /\ q.session = r.session
    BY <1>1 DEF Request
  <2>2. request' = [request EXCEPT ![c] = q]
    BY <1>3 DEF Does
  <2> HIDE DEF q
  <2>3. expiry' = expiry /\ expiry' \in Expiry /\ alert' \in Alert
    BY <1>1, <1>3, SetExpiryTyped
  <2>4. Becomes(c, q) /\ NotSent(c, q)
    BY <2>1, <2>2 DEF Becomes, NotSent
  <2>5. TypeOK' /\ Unresent
    BY <1>2, <2>3, <2>4, CallTyped, Requests DEF TypeOK
  <2> QED BY <1>2, <1>3, <2>1, <2>3, <2>4, <2>5
<1>4. CASE r.tries # 0 /\ Refuses(c, r, expiry)
  <2>1. PICK q : Becomes(c, q) /\ Ended(q)
    BY <1>1, <1>4, RefusesTo
  <2>2. Flags(expiry)
    BY <1>1, <1>4, RefusesTo
  <2>3. TypeOK' /\ Unresent
    BY <1>2, <2>1, <2>2, CallTyped, Requests DEF TypeOK, Flags, Ended, NotSent
  <2>4. r.tries = 1
    BY <1>1, <1>4 DEF Request
  <2> QED BY <1>2, <2>1, <2>2, <2>3, <2>4
<1> QED BY <1>2, <1>3, <1>4

\* A step of the recovery that saves nothing is typed.
LEMMA TriesTyped ==
  ASSUME TypeOK, NEW c \in Callers, NEW r, NEW s, Tries(c, r, s),
         UNCHANGED <<stored, made, alive, browser, profile>>
  PROVE  TypeOK' /\ Unresent
<1>1. PICK q : Becomes(c, q) /\ (q.pc \in {"oauth", "queue"} \/ Ended(q))
  BY DEF Tries
<1>2. NotSent(c, q)
  BY <1>1 DEF Ended, NotSent
<1>3. lock' \in Callers \cup {None}
  BY DEF Tries
<1> QED BY <1>1, <1>2, <1>3, CallTyped, Requests DEF TypeOK, Tries, Flags

LEMMA LocksRejectedTo ==
  ASSUME TypeOK, NEW c \in Callers, LocksRejected(c)
  PROVE  /\ TypeOK' /\ Unresent
         /\ request[c].pc = "locks" /\ request[c].why = "rejected" /\ lock = None
         /\ UNCHANGED <<stored, made>>
         /\ \/ stored = None
            \/ /\ lock' = None /\ Learns(expiry)
               /\ \E q, r : Becomes(c, q) /\ GoesOn(q, r, stored) /\ r.kind = request[c].kind
            \/ SameSession(request[c].session) /\ Tries(c, request[c], stored)
<1> DEFINE r == request[c]
<1>1. r \in Request /\ stored \in Session \cup {None} /\ expiry \in Expiry /\ alert \in Alert
      /\ lock \in Callers \cup {None} /\ blocked \in Keys \cup {NoKey}
  BY Requests DEF TypeOK
<1>2. /\ r.pc = "locks" /\ r.why = "rejected" /\ lock = None
      /\ UNCHANGED <<stored, made, alive, browser, profile>>
  BY DEF LocksRejected
<1>3. \/ stored = None /\ Refuses(c, r, expiry) /\ UNCHANGED <<lock, blocked>>
      \/ /\ stored # None /\ Proceeds(c, Recovered(r), expiry, stored)
         /\ UNCHANGED <<lock, blocked>>
      \/ SameSession(r.session) /\ Attempts(c, r)
  BY DEF LocksRejected
<1> HIDE DEF r
<1>4. CASE stored = None /\ Refuses(c, r, expiry) /\ UNCHANGED <<lock, blocked>>
  <2>1. PICK q : Becomes(c, q) /\ Ended(q)
    BY <1>1, <1>4, RefusesTo
  <2>2. Flags(expiry)
    BY <1>1, <1>4, RefusesTo
  <2>3. TypeOK' /\ Unresent
    BY <1>1, <1>2, <1>4, <2>1, <2>2, CallTyped, Requests DEF TypeOK, Flags, Ended, NotSent
  <2> QED BY <1>2, <1>4, <2>3 DEF r
<1>5. CASE /\ stored # None /\ Proceeds(c, Recovered(r), expiry, stored)
           /\ UNCHANGED <<lock, blocked>>
  <2> DEFINE p == Recovered(r)
  <2>0. p \in Request /\ p.kind = r.kind /\ Proceeds(c, p, expiry, stored)
    BY <1>1, <1>5, RecoveredTyped
  <2> HIDE DEF p
  <2>1. PICK q : Becomes(c, q) /\ GoesOn(q, p, stored)
    BY <1>1, <2>0, ProceedsTo
  <2>2. Learns(expiry) /\ NotSent(c, q)
    BY <1>1, <2>0, <2>1, ProceedsTo, SendingIsGood, Requests
  <2>3. TypeOK' /\ Unresent
    BY <1>1, <1>2, <1>5, <2>1, <2>2, CallTyped, Requests DEF TypeOK, Learns
  <2> QED BY <1>2, <1>5, <2>0, <2>1, <2>2, <2>3 DEF r
<1>6. CASE SameSession(r.session) /\ Attempts(c, r)
  <2>1. Tries(c, r, stored)
    BY <1>1, <1>6, AttemptsTo
  <2> QED BY <1>2, <1>6, <2>1, TriesTyped DEF r
<1> QED BY <1>3, <1>4, <1>5, <1>6

LEMMA LocksExpiredTo ==
  ASSUME TypeOK, NEW c \in Callers, LocksExpired(c)
  PROVE  /\ TypeOK' /\ Unresent
         /\ request[c].pc = "locks" /\ request[c].why = "expired" /\ lock = None
         /\ UNCHANGED <<stored, made>>
         /\ \/ /\ lock' = None /\ Learns(expiry)
               /\ \E q : Becomes(c, q) /\ GoesOn(q, request[c], stored)
            \/ /\ stored # None /\ expiry.key = stored.key
               /\ Tries(c, request[c], stored)
<1> DEFINE r == request[c]
<1>1. r \in Request /\ stored \in Session \cup {None} /\ expiry \in Expiry /\ alert \in Alert
      /\ lock \in Callers \cup {None} /\ blocked \in Keys \cup {NoKey}
  BY Requests DEF TypeOK
<1>2. /\ r.pc = "locks" /\ r.why = "expired" /\ lock = None
      /\ UNCHANGED <<stored, made, alive, browser, profile>>
  BY DEF LocksExpired
<1>3. \/ Does(c, Idle) /\ SetExpiry(expiry) /\ UNCHANGED <<lock, blocked>>
      \/ /\ expiry.key # stored.key /\ Proceeds(c, r, Cleared, stored)
         /\ UNCHANGED <<lock, blocked>>
      \/ stored # None /\ expiry.key = stored.key /\ Attempts(c, r)
  BY DEF LocksExpired
<1> HIDE DEF r
<1>4. CASE Does(c, Idle) /\ SetExpiry(expiry) /\ UNCHANGED <<lock, blocked>>
  <2>1. Becomes(c, Idle) /\ Ended(Idle)
    BY <1>4, IdleTyped DEF Does, Becomes
  <2>2. expiry' = expiry /\ Learns(expiry)
    BY <1>1, <1>4, SetExpiryTyped DEF Learns
  <2>3. TypeOK' /\ Unresent
    BY <1>1, <1>2, <1>4, <2>1, <2>2, CallTyped, Requests DEF TypeOK, Learns, Ended, NotSent
  <2> QED BY <1>2, <1>4, <2>1, <2>2, <2>3 DEF r, GoesOn
<1>5. CASE /\ expiry.key # stored.key /\ Proceeds(c, r, Cleared, stored)
           /\ UNCHANGED <<lock, blocked>>
  <2>1. PICK q : Becomes(c, q) /\ GoesOn(q, r, stored)
    BY <1>1, <1>5, ClearedTyped, ProceedsTo
  <2>2. Learns(Cleared) /\ NotSent(c, q)
    BY <1>1, <1>5, <2>1, ClearedTyped, ProceedsTo, SendingIsGood, Requests
  <2>3. TypeOK' /\ Unresent
    BY <1>1, <1>2, <1>5, <2>1, <2>2, CallTyped, Requests DEF TypeOK, Learns
  <2> QED BY <1>2, <1>5, <2>1, <2>2, <2>3, ClearedTyped DEF r, Learns
<1>6. CASE stored # None /\ expiry.key = stored.key /\ Attempts(c, r)
  <2>1. Tries(c, r, stored)
    BY <1>1, <1>6, AttemptsTo
  <2> QED BY <1>2, <1>6, <2>1, TriesTyped DEF r
<1> QED BY <1>3, <1>4, <1>5, <1>6

LEMMA OauthRenewsTo ==
  ASSUME TypeOK, NEW c \in Callers, OauthRenews(c)
  PROVE  /\ TypeOK' /\ Unresent
         /\ request[c].pc = "oauth" /\ lock' = None /\ expiry'.key = None
         /\ \E q, r, s : /\ Renews(request[c].session, s) /\ Becomes(c, q)
                         /\ GoesOn(q, r, s) /\ r.kind = request[c].kind
<1> DEFINE r == request[c]
<1>1. r \in Request /\ stored \in Session \cup {None} /\ expiry \in Expiry /\ alert \in Alert
      /\ r.session \in Session \cup {None} /\ blocked \in Keys \cup {NoKey}
  BY Requests DEF TypeOK
<1>2. r.pc = "oauth" /\ lock' = None /\ UNCHANGED <<browser, blocked, profile>>
  BY DEF OauthRenews
<1>3. PICK s \in NewSessions(r.session) : Saves(s) /\ Proceeds(c, Recovered(r), Cleared, s)
  BY DEF OauthRenews
<1>4. Renews(r.session, s)
  BY <1>1, <1>3, SavesTo
<1>a. Renewed(c)
  BY <1>2, <1>4 DEF Renewed, Renews
<1> HIDE DEF r
<1>5. s \in Session \cup {None} /\ Cleared \in Expiry /\ Cleared.key = None
  BY <1>4, ClearedTyped DEF Renews
<1> DEFINE p == Recovered(r)
<1>6. p \in Request /\ p.kind = r.kind /\ Proceeds(c, p, Cleared, s)
  BY <1>1, <1>3, RecoveredTyped
<1> HIDE DEF p
<1>7. PICK q : Becomes(c, q) /\ GoesOn(q, p, s)
  BY <1>1, <1>5, <1>6, ProceedsTo
<1>8. Learns(Cleared) /\ NotSent(c, q)
  BY <1>1, <1>5, <1>6, <1>7, <1>a, ProceedsTo, SendingIsGood, Requests
<1>9. TypeOK' /\ Unresent
  BY <1>1, <1>2, <1>4, <1>7, <1>8, CallTyped, Requests DEF TypeOK, Learns, Renews
<1> QED BY <1>2, <1>4, <1>5, <1>6, <1>7, <1>8, <1>9 DEF r, Learns

LEMMA OauthFailsTo ==
  ASSUME TypeOK, NEW c \in Callers, OauthFails(c)
  PROVE  /\ TypeOK' /\ Unresent
         /\ request[c].pc = "oauth" /\ UNCHANGED <<stored, made>>
         /\ Tries(c, request[c], request[c].session)
<1>1. request[c] \in Request
  BY Requests
<1>2. /\ request[c].pc = "oauth" /\ Browses(c, request[c])
      /\ UNCHANGED <<stored, made, alive, browser, profile>>
  BY DEF OauthFails
<1>3. Tries(c, request[c], request[c].session)
  BY <1>1, <1>2, BrowsesTo
<1> QED BY <1>2, <1>3, TriesTyped

LEMMA BrowserStartsTo ==
  ASSUME TypeOK, NEW c \in Actors, BrowserStarts(c)
  PROVE  /\ TypeOK' /\ Unresent
         /\ request[c].pc = "queue" /\ UNCHANGED <<stored, made, lock, expiry>>
         /\ \E q : Becomes(c, q) /\ Recovering(q, request[c], "browsing")
<1> DEFINE r == request[c]
           q == [r EXCEPT !.pc = "browsing"]
<1>1. r \in Request
  BY Requests
<1>2. /\ r.pc = "queue" /\ request' = [request EXCEPT ![c] = q] /\ browser' = c /\ profile' = TRUE
      /\ UNCHANGED <<stored, made, alive, expiry, lock, blocked, alert>>
  BY DEF BrowserStarts, Does
<1>3. q \in Request /\ Recovering(q, r, "browsing")
  BY <1>1 DEF Request, Recovering
<1> HIDE DEF q
<1>4. Becomes(c, q) /\ NotSent(c, q)
  BY <1>2, <1>3 DEF Becomes, NotSent, Recovering
<1>5. TypeOK' /\ Unresent
  BY <1>2, <1>4, CallTyped, Requests DEF TypeOK
<1> QED BY <1>2, <1>3, <1>4, <1>5

LEMMA BrowserCapturesTo ==
  ASSUME TypeOK, NEW c \in Actors, BrowserCaptures(c)
  PROVE  /\ TypeOK' /\ Unresent
         /\ request[c].pc = "browsing" /\ UNCHANGED lock /\ expiry'.key = None
         /\ \E q, s, t : /\ t \in {stored, None} /\ Renews(t, s)
                         /\ Becomes(c, q) /\ Recovering(q, request[c], "closing")
<1> DEFINE r == request[c]
           q == [r EXCEPT !.pc = "closing"]
           t == IF r.kind = "login" THEN stored ELSE None
<1>1. r \in Request /\ stored \in Session \cup {None} /\ alert \in Alert
  BY Requests
<1>2. /\ r.pc = "browsing" /\ request' = [request EXCEPT ![c] = q] /\ SetExpiry(Cleared)
      /\ UNCHANGED <<lock, browser, blocked, profile>>
  BY DEF BrowserCaptures, Does
<1>3. PICK s \in NewSessions(t) : Saves(s)
  BY DEF BrowserCaptures
<1>4. t \in {stored, None} /\ t \in Session \cup {None}
  BY <1>1
<1>5. q \in Request /\ Recovering(q, r, "closing")
  BY <1>1 DEF Request, Recovering
<1> HIDE DEF q, t
<1>6. Renews(t, s)
  BY <1>3, <1>4, SavesTo
<1>7. expiry' \in Expiry /\ alert' \in Alert /\ expiry'.key = None
  BY <1>1, <1>2, ClearedTyped, SetExpiryTyped
<1>8. Becomes(c, q) /\ NotSent(c, q)
  BY <1>2, <1>5 DEF Becomes, NotSent, Recovering
<1>9. TypeOK' /\ Unresent
  BY <1>2, <1>6, <1>7, <1>8, CallTyped, Requests DEF TypeOK, Renews
<1> QED BY <1>2, <1>4, <1>5, <1>6, <1>7, <1>8, <1>9

LEMMA BrowserFailsTo ==
  ASSUME TypeOK, NEW c \in Actors, BrowserFails(c)
  PROVE  /\ TypeOK' /\ Unresent
         /\ request[c].pc = "browsing" /\ UNCHANGED <<stored, made>>
         /\ \E q : Becomes(c, q) /\ Ended(q)
         /\ Flags(expiry)
         /\ lock # c => expiry'.key = expiry.key
         /\ lock' = IF lock = c THEN None ELSE lock
<1> DEFINE r == request[c]
<1>1. /\ r \in Request /\ r.prev \in Keys \cup {NoKey}
      /\ blocked \in Keys \cup {NoKey} /\ lock \in Callers \cup {None}
  BY Requests DEF Request, TypeOK
<1>2. /\ r.pc = "browsing" /\ blocked' \in {blocked, r.prev} /\ browser' = None
      /\ Returns(c, r) /\ UNCHANGED <<stored, made, alive, profile>>
  BY DEF BrowserFails
<1> HIDE DEF r
<1>3. PICK q : Becomes(c, q) /\ Ended(q)
  BY <1>2, ReturnsTo
<1>4. /\ Flags(expiry) /\ (lock # c => expiry'.key = expiry.key)
      /\ lock' = IF lock = c THEN None ELSE lock
  BY <1>2, ReturnsTo
<1>5. TypeOK' /\ Unresent
  BY <1>1, <1>2, <1>3, <1>4, CallTyped, Requests DEF TypeOK, Flags, Ended, NotSent
<1> QED BY <1>2, <1>3, <1>4, <1>5 DEF r

LEMMA BrowserClosesTo ==
  ASSUME TypeOK, NEW c \in Actors, BrowserCloses(c)
  PROVE  /\ TypeOK' /\ Unresent
         /\ request[c].pc = "closing" /\ UNCHANGED <<stored, made>>
         /\ lock' = IF lock = c THEN None ELSE lock
         /\ \/ /\ lock = c /\ expiry'.key = None
               /\ \E q, p : /\ Becomes(c, q) /\ GoesOn(q, p, stored)
                            /\ p.kind = request[c].kind
            \/ /\ Flags(expiry) /\ \E q : Becomes(c, q) /\ Ended(q)
               /\ IF lock = c THEN stored = None ELSE expiry'.key = expiry.key
<1> DEFINE r == request[c]
<1>1. /\ r \in Request /\ stored \in Session \cup {None} /\ alert \in Alert
      /\ lock \in Callers \cup {None}
  BY Requests DEF TypeOK
<1>2. /\ r.pc = "closing" /\ blocked' = NoKey /\ browser' = None
      /\ UNCHANGED <<stored, made, alive, profile>>
  BY DEF BrowserCloses
<1>3. \/ /\ lock = c /\ stored # None /\ Proceeds(c, Recovered(r), Cleared, stored)
         /\ lock' = None
      \/ (lock # c \/ stored = None) /\ Returns(c, r)
  BY DEF BrowserCloses
<1>a. lock = c => Renewed(c)
  BY <1>2 DEF Renewed
<1> HIDE DEF r
<1>4. CASE /\ lock = c /\ stored # None /\ Proceeds(c, Recovered(r), Cleared, stored)
           /\ lock' = None
  <2> DEFINE p == Recovered(r)
  <2>1. p \in Request /\ p.kind = r.kind /\ Proceeds(c, p, Cleared, stored)
    BY <1>1, <1>4, RecoveredTyped
  <2> HIDE DEF p
  <2>2. PICK q : Becomes(c, q) /\ GoesOn(q, p, stored)
    BY <1>1, <2>1, ClearedTyped, ProceedsTo
  <2>3. Learns(Cleared) /\ NotSent(c, q) /\ expiry'.key = None
    BY <1>1, <1>4, <1>a, <2>1, <2>2, ClearedTyped, ProceedsTo, SendingIsGood DEF Learns
  <2>4. TypeOK' /\ Unresent
    BY <1>1, <1>2, <1>4, <2>2, <2>3, CallTyped, Requests DEF TypeOK, Learns
  <2> QED BY <1>2, <1>4, <2>1, <2>2, <2>3, <2>4 DEF r
<1>5. CASE (lock # c \/ stored = None) /\ Returns(c, r)
  <2>1. PICK q : Becomes(c, q) /\ Ended(q)
    BY <1>5, ReturnsTo
  <2>2. /\ Flags(expiry) /\ (lock # c => expiry'.key = expiry.key)
        /\ lock' = IF lock = c THEN None ELSE lock
    BY <1>5, ReturnsTo
  <2>3. TypeOK' /\ Unresent
    BY <1>1, <1>2, <2>1, <2>2, CallTyped, Requests DEF TypeOK, Flags, Ended, NotSent
  <2> QED BY <1>2, <1>5, <2>1, <2>2, <2>3 DEF r
<1> QED BY <1>3, <1>4, <1>5

LEMMA LoginStartsTo ==
  ASSUME TypeOK, LoginStarts
  PROVE  /\ TypeOK' /\ Unresent
         /\ request[Admin].pc = "idle" /\ UNCHANGED <<stored, made, lock, expiry>>
         /\ \E q : Becomes(Admin, q) /\ q.pc = "queue" /\ q.session = None
<1> DEFINE q == [Idle EXCEPT !.pc = "queue", !.kind = "login"]
<1>1. q \in Request /\ q.pc = "queue" /\ q.session = None
  BY IdleTyped DEF Request, Idle
<1>2. /\ request[Admin].pc = "idle" /\ request' = [request EXCEPT ![Admin] = q]
      /\ UNCHANGED <<stored, made, alive, expiry, lock, browser, blocked, profile, alert>>
  BY DEF LoginStarts, Busy, Does
<1> HIDE DEF q
<1>3. Becomes(Admin, q) /\ NotSent(Admin, q)
  BY <1>1, <1>2 DEF Becomes, NotSent
<1>4. TypeOK' /\ Unresent
  BY <1>2, <1>3, CallTyped, Requests DEF TypeOK
<1> QED BY <1>1, <1>2, <1>3, <1>4

LEMMA LoginRejectsTo ==
  ASSUME TypeOK, LoginRejects
  PROVE  /\ TypeOK' /\ Unresent
         /\ request[Admin].pc = "browsing" /\ stored # None
         /\ UNCHANGED <<stored, made, lock>> /\ expiry'.key = stored.key
         /\ request'[Admin] # request[Admin]
         /\ \E q : Becomes(Admin, q) /\ Recovering(q, request[Admin], "browsing")
<1> DEFINE r == request[Admin]
           q == [r EXCEPT !.prev = stored.key]
<1>1. r \in Request /\ stored \in Session \cup {None} /\ expiry \in Expiry /\ alert \in Alert
  BY Requests
<1>2. /\ r.pc = "browsing" /\ stored # None /\ r.prev = NoKey
      /\ request' = [request EXCEPT ![Admin] = q]
      /\ SetExpiry(Marked(expiry, stored))
      /\ UNCHANGED <<stored, made, alive, lock, browser, blocked, profile>>
  BY DEF LoginRejects, Does
<1>3. stored.key \in Keys
  BY <1>1, <1>2, Constants
<1>4. q \in Request /\ Recovering(q, r, "browsing") /\ q.prev = stored.key
  BY <1>1, <1>2, <1>3 DEF Request, Recovering
<1>5. q # r
  BY <1>2, <1>3, <1>4, Constants
<1> HIDE DEF q, r
<1>6. expiry' \in Expiry /\ alert' \in Alert /\ expiry'.key = stored.key
  BY <1>1, <1>2, MarkedTyped, SetExpiryTyped DEF KeyOf
<1>7. Becomes(Admin, q) /\ NotSent(Admin, q)
  BY <1>2, <1>4 DEF Becomes, NotSent, Recovering
<1>8. TypeOK' /\ Unresent
  BY <1>2, <1>6, <1>7, CallTyped, Requests DEF TypeOK
<1>9. request'[Admin] = q
  BY <1>7, Requests DEF Becomes, TypeOK
<1> QED BY <1>2, <1>4, <1>5, <1>6, <1>7, <1>8, <1>9 DEF r

LEMMA ImportTo ==
  ASSUME TypeOK, Import
  PROVE  /\ TypeOK' /\ Unresent /\ UNCHANGED <<request, lock, expiry>>
         /\ \E s : Renews(None, s)
<1>1. PICK s \in NewSessions(None) : Saves(s)
  BY DEF Import
<1>2. Renews(None, s)
  BY <1>1, SavesTo
<1>3. UNCHANGED <<expiry, lock, browser, blocked, profile, request, alert>>
  BY DEF Import
<1>4. TypeOK' /\ Unresent
  BY <1>2, <1>3, QuietTyped DEF TypeOK, Renews
<1> QED BY <1>2, <1>3, <1>4

LEMMA LogoutTo ==
  ASSUME TypeOK, Logout
  PROVE  /\ TypeOK' /\ Unresent /\ UNCHANGED <<request, lock, expiry, made>>
         /\ stored # None /\ stored' = None
<1>1. /\ UNCHANGED <<made, alive, expiry, lock, browser, request, alert>>
      /\ stored # None /\ stored' = None /\ blocked' = NoKey /\ profile' = FALSE
  BY DEF Logout
<1> QED BY <1>1, QuietTyped DEF TypeOK

\* The provider, the clock and the notifier change nothing of a call.
Aside == (\E k \in Keys : Revoke(k)) \/ BackoffEnds \/ Notifier

LEMMA NotifierTo ==
  ASSUME TypeOK, Notifier
  PROVE  /\ expiry' \in Expiry /\ alert' \in Alert /\ expiry'.key \in {None, expiry.key}
         /\ UNCHANGED <<stored, made, alive, lock, browser, blocked, profile, request>>
<1> DEFINE e == Checked(expiry, stored)
<1>1. expiry \in Expiry /\ alert \in Alert /\ e \in Expiry /\ e.key \in {None, expiry.key}
  BY CheckedTyped, Requests
<1> HIDE DEF e
<1>2. CASE NotifierWakes
  <2>1. expiry' = [e EXCEPT !.event = FALSE]
    BY <1>2 DEF NotifierWakes, e
  <2>2. expiry' \in Expiry /\ expiry'.key = e.key
    BY <1>1, <2>1 DEF Expiry
  <2>3. alert' \in Alert
    BY <1>1, <1>2 DEF NotifierWakes, Notifies, Alert
  <2> QED BY <1>1, <1>2, <2>2, <2>3 DEF NotifierWakes, NotifierOnly
<1>3. CASE NotifierSent
  BY <1>1, <1>3 DEF NotifierSent, NotifierOnly, Alert
<1>4. CASE NotifierFails
  BY <1>1, <1>4 DEF NotifierFails, NotifierOnly, Alert
<1>5. CASE NotifierRetries
  <2>1. expiry' = e /\ NotifierOnly
    BY <1>5 DEF NotifierRetries, e
  <2>2. alert' \in Alert
    BY <1>1, <1>5 DEF NotifierRetries, Notifies, Alert
  <2> QED BY <1>1, <2>1, <2>2 DEF NotifierOnly
<1> QED BY <1>2, <1>3, <1>4, <1>5 DEF Notifier

LEMMA AsideTo ==
  ASSUME TypeOK, Aside
  PROVE  /\ TypeOK' /\ Unresent /\ UNCHANGED <<stored, made, lock, request>>
         /\ expiry'.key \in {None, expiry.key}
<1>1. expiry \in Expiry /\ alert \in Alert
  BY Requests
<1> DEFINE Apart == /\ UNCHANGED <<stored, made, lock, request, browser, blocked, profile>>
                    /\ expiry' \in Expiry /\ alert' \in Alert
                    /\ expiry'.key \in {None, expiry.key} /\ alive' \subseteq alive
<1>2. Apart
  <2>1. ASSUME NEW k, Revoke(k) PROVE Apart
    BY <1>1, <2>1 DEF Revoke
  <2>2. CASE BackoffEnds
    BY <1>1, <2>2, BackoffTyped DEF BackoffEnds
  <2>3. CASE Notifier
    BY <2>3, NotifierTo
  <2> QED BY <2>1, <2>2, <2>3 DEF Aside
<1> QED BY <1>2, QuietTyped DEF TypeOK

LEMMA InitTyped == Init => TypeOK
<1> SUFFICES ASSUME Init PROVE TypeOK
  OBVIOUS
<1>1. stored \in Session \cup {None} /\ made \in 0..MaxSessions /\ alive \subseteq Keys
  BY Constants DEF Init, Session, Keys
<1>2. request \in [Actors -> Request] /\ expiry \in Expiry /\ alert \in Alert
  BY IdleTyped DEF Init, Expiry, Alert
<1> QED BY <1>1, <1>2 DEF Init, TypeOK

LEMMA StepTyped == TypeOK /\ [Next]_vars => TypeOK' /\ Unresent
<1> SUFFICES ASSUME TypeOK, [Next]_vars PROVE TypeOK' /\ Unresent
  OBVIOUS
<1>1. ASSUME NEW c \in Callers, Begin(c) \/ Continue(c) PROVE TypeOK' /\ Unresent
  <2>1. CASE Begin(c)
    BY <2>1, BeginTo
  <2>2. CASE Serves(c) \/ Accepted(c) \/ Refused(c)
    BY <2>2, ServesTo, AcceptedTo, RefusedTo
  <2>3. CASE LocksRejected(c) \/ LocksExpired(c) \/ OauthRenews(c) \/ OauthFails(c)
    BY <2>3, LocksRejectedTo, LocksExpiredTo, OauthRenewsTo, OauthFailsTo
  <2>4. CASE BrowserStarts(c) \/ BrowserCaptures(c) \/ BrowserFails(c) \/ BrowserCloses(c)
    BY <2>4, BrowserStartsTo, BrowserCapturesTo, BrowserFailsTo, BrowserClosesTo, Requests
  <2> QED BY <1>1, <2>1, <2>2, <2>3, <2>4 DEF Continue, Recovery
<1>2. CASE BrowserStarts(Admin) \/ BrowserCaptures(Admin) \/ BrowserFails(Admin) \/ BrowserCloses(Admin)
  BY <1>2, BrowserStartsTo, BrowserCapturesTo, BrowserFailsTo, BrowserClosesTo, Requests
<1>3. CASE LoginRejects \/ LoginStarts \/ Import \/ Logout
  BY <1>3, LoginRejectsTo, LoginStartsTo, ImportTo, LogoutTo
<1>4. CASE Aside
  BY <1>4, AsideTo
<1>5. CASE UNCHANGED vars
  BY <1>5 DEF vars, TypeOK, Unresent
<1> QED BY <1>1, <1>2, <1>3, <1>4, <1>5 DEF Next, Aside

\* Every variable keeps its type: of every call, of whatever session it holds,
\* and of what the client, the browser and the notifier know.
THEOREM SessionTyped == Spec => []TypeOK
<1>1. Init => TypeOK
  BY InitTyped
<1>2. TypeOK /\ [Next]_vars => TypeOK'
  BY StepTyped
<1> QED BY <1>1, <1>2, PTL DEF Spec

\* No call goes on with a session under the key that was known to have expired
\* when it looked (o2/api.py:80-82), unless it has just renewed that session, in
\* whatever order refusals, renewals, imports and logins come.
THEOREM ExpiredIsNotSent == Spec => KnownExpiredIsNotSent
<1>1. TypeOK /\ [Next]_vars => Unresent
  BY StepTyped
<1>2. Unresent =>
        \A c \in Callers :
          request'[c].pc = "sent" /\ request[c].pc # "sent" =>
              \/ request'[c].session.key # expiry.key
              \/ request[c].pc = "oauth" /\ made' = made + 1
              \/ request[c].pc = "closing" /\ lock = c
  BY DEF Unresent, NotSent, Renewed
<1> QED BY <1>1, <1>2, SessionTyped, PTL DEF Spec, KnownExpiredIsNotSent

-----------------------------------------------------------------------------
(* Good sessions are left alone.                                           *)

\* Whoever recovers a session holds the lock.
Recovers(r) == r.pc \in {"oauth", "queue", "browsing", "closing"} /\ r.kind # "proactive"

\* A call r of c, while l holds the lock, s is stored and bad was refused.
Shaped(c, r, l) ==
    /\ l = c <=> Recovers(r)
    /\ r.kind = "proactive" => r.pc \in {"queue", "browsing", "closing"}
    /\ r.pc \in {"sent", "accepted", "refused"} => r.session # None

\* As long as nothing has replaced a session under a call's feet: a call that
\* was refused knows what was refused, its last attempt goes with the stored
\* session, and the one that renews a session renews the stored one.
Placed(r, s, bad) ==
    /\ r.pc # "idle" => s # None
    /\ r.pc = "refused" => r.session \in bad
    /\ r.pc = "locks" /\ r.why = "rejected" => r.session \in bad
    /\ r.pc \in {"sent", "refused"} /\ r.tries = 1 => r.session = s
    /\ Recovers(r) /\ r.pc # "closing" => r.session = s /\ s \in bad

\* The key that has expired is one that was refused, in the stored session if
\* it is the key of that.
Expired(k, s, bad) ==
    /\ k # None => \E b \in bad : b.key = k
    /\ s # None /\ s.key = k => s \in bad

\* Keys are given out in order.
KeysGiven ==
    /\ stored # None => stored.key <= made
    /\ \A c \in Actors : request[c].session # None => request[c].session.key <= made
    /\ rejected \subseteq Session /\ \A s \in rejected : s.key <= made

HistoryInv ==
    /\ TypeOK /\ crossed \in BOOLEAN /\ KeysGiven
    /\ \A c \in Callers : Shaped(c, request[c], lock)
    /\ ~crossed =>
          /\ \A c \in Callers : Placed(request[c], stored, rejected)
          /\ Expired(expiry.key, stored, rejected)

LEMMA EndedFits ==
  ASSUME NEW c, NEW q, NEW l, Ended(q), l # c
  PROVE  Shaped(c, q, l) /\ \A s, bad : Placed(q, s, bad)
  BY DEF Ended, Shaped, Placed, Recovers

LEMMA GoingOnFits ==
  ASSUME NEW c, NEW q, NEW p, NEW s, NEW l, GoesOn(q, p, s), p.kind # "proactive", l # c
  PROVE  Shaped(c, q, l) /\ (s # None => \A bad : Placed(q, s, bad))
<1>1. CASE Ended(q)
  BY <1>1, EndedFits
<1>2. CASE StartsOver(q, p)
  BY <1>2 DEF StartsOver, Shaped, Placed, Recovers
<1>3. CASE Sending(q, p, s)
  BY <1>3 DEF Sending, Shaped, Placed, Recovers
<1> QED BY <1>1, <1>2, <1>3 DEF GoesOn

LEMMA ExpiredKept ==
  ASSUME NEW s \in Session \cup {None}, NEW bad, NEW more, NEW k, Expired(k, s, bad)
  PROVE  /\ Expired(k, s, bad \cup more) /\ Expired(None, s, bad \cup more)
         /\ s \in bad /\ s # None => Expired(KeyOf(s), s, bad \cup more)
<1>1. Expired(k, s, bad \cup more)
  BY DEF Expired
<1>2. Expired(None, s, bad \cup more)
  BY Constants DEF Expired
<1>3. s \in bad /\ s # None => Expired(KeyOf(s), s, bad \cup more)
  BY DEF Expired, KeyOf
<1> QED BY <1>1, <1>2, <1>3

LEMMA PlacedKept ==
  ASSUME NEW r, NEW s, NEW bad, NEW more, Placed(r, s, bad)
  PROVE  Placed(r, s, bad \cup more)
  BY DEF Placed

LEMMA Facts ==
  ASSUME HistoryInv
  PROVE  /\ TypeOK /\ crossed \in BOOLEAN
         /\ \A c \in Callers : Shaped(c, request[c], lock)
         /\ \A c \in Callers : ~crossed => Placed(request[c], stored, rejected)
         /\ ~crossed => Expired(expiry.key, stored, rejected)
         /\ stored # None => stored.key <= made
         /\ \A c \in Actors : request[c].session # None => request[c].session.key <= made
  BY DEF HistoryInv, KeysGiven

LEMMA Refusals ==
  ASSUME TypeOK, NEW c \in Actors, NEW q, Becomes(c, q)
  PROVE  /\ Movers = IF q # request[c] THEN {c} ELSE {}
         /\ \A d \in Actors : request'[d] = IF d = c THEN q ELSE request[d]
         /\ q.pc = "refused" /\ q # request[c] => request[c].session \in Rejections
         /\ q.pc # "refused" /\ (q.pc # "browsing" \/ request[c].pc # "browsing") => Rejections = {}
         /\ q.pc # "refused" => Rejections \subseteq {stored}
         /\ request[c].pc # "browsing" => Rejections \subseteq {request[c].session}
         /\ q # request[c] /\ q.pc = "browsing" /\ request[c].pc = "browsing" => stored \in Rejections
<1>1. request \in [Actors -> Request] /\ request' = [request EXCEPT ![c] = q]
  BY DEF TypeOK, Becomes
<1>2. \A d \in Actors : request'[d] = IF d = c THEN q ELSE request[d]
  BY <1>1
<1>3. Movers = IF q # request[c] THEN {c} ELSE {}
  BY <1>2 DEF Movers
<1> QED BY <1>2, <1>3 DEF Rejections

\* What a step of c leaves in order, whatever it replaces.
LEMMA ShapesKept ==
  ASSUME HistoryInv, TypeOK', History, NEW c \in Actors, NEW q, Becomes(c, q),
         made <= made', stored' # None => stored'.key <= made',
         q.session # None => q.session.key <= made',
         Rejections \subseteq {s \in Session : s.key <= made},
         c \in Callers => Shaped(c, q, lock'),
         \A d \in Callers \ {c} : lock' = d <=> lock = d
  PROVE  crossed' \in BOOLEAN /\ KeysGiven' /\ \A d \in Callers : Shaped(d, request'[d], lock')
<1>1. \A d \in Actors : request'[d] = IF d = c THEN q ELSE request[d]
  BY Facts, Refusals
<1>2. crossed' \in BOOLEAN
  BY Facts DEF History
<1>3. made \in Nat /\ made' \in Nat
  BY Facts, Constants DEF TypeOK
<1>4. KeysGiven'
  <2>1. ASSUME NEW d \in Actors, request'[d].session # None
        PROVE  request'[d].session.key <= made'
    <3>1. CASE d = c
      BY <1>1, <2>1, <3>1
    <3>2. CASE d # c
      <4>1. request[d].session \in Session /\ request[d].session.key <= made
        BY <1>1, <2>1, <3>2, Facts, Requests
      <4>2. request[d].session.key \in Nat
        BY <4>1, Constants
      <4> QED BY <1>1, <1>3, <3>2, <4>1, <4>2
    <3> QED BY <3>1, <3>2
  <2>2. rejected' \subseteq rejected \cup Rejections
    BY DEF History
  <2>3. rejected' \subseteq Session
    BY <2>2 DEF HistoryInv, KeysGiven
  <2>4. ASSUME NEW s \in rejected' PROVE s.key <= made'
    <3>1. s.key <= made /\ s.key \in Nat
      BY <2>2, <2>3, Constants DEF HistoryInv, KeysGiven
    <3> QED BY <1>3, <3>1
  <2> QED BY <2>1, <2>3, <2>4 DEF KeysGiven
<1>5. ASSUME NEW d \in Callers PROVE Shaped(d, request'[d], lock')
  <2>1. CASE d = c
    BY <1>1, <2>1
  <2>2. CASE d # c
    <3>1. Shaped(d, request[d], lock) /\ request'[d] = request[d] /\ (lock' = d <=> lock = d)
      BY <1>1, <2>2, Facts, Requests
    <3> QED BY <3>1 DEF Shaped
  <2> QED BY <2>1, <2>2
<1> QED BY <1>2, <1>4, <1>5

\* A step of c that saves nothing.
LEMMA QuietKeeps ==
  ASSUME HistoryInv, TypeOK', History, NEW c \in Actors, NEW q, Becomes(c, q),
         UNCHANGED <<stored, made>>,
         q.session \in {None, stored, request[c].session},
         Rejections \subseteq {s \in Session : s.key <= made},
         c \in Callers => Shaped(c, q, lock'),
         \A d \in Callers \ {c} : lock' = d <=> lock = d,
         ~crossed => /\ c \in Callers => Placed(q, stored, rejected \cup Rejections)
                     /\ Expired(expiry'.key, stored, rejected \cup Rejections)
  PROVE  HistoryInv'
<1>1. \A d \in Actors : request'[d] = IF d = c THEN q ELSE request[d]
  BY Facts, Refusals
<1>2. made \in Nat
  BY Facts, Constants DEF TypeOK
<1>3. made <= made' /\ (stored' # None => stored'.key <= made')
      /\ (q.session # None => q.session.key <= made')
  BY <1>2, Facts
<1>4. crossed' \in BOOLEAN /\ KeysGiven' /\ \A d \in Callers : Shaped(d, request'[d], lock')
  BY <1>3, ShapesKept
<1>5. crossed' = crossed /\ (~crossed => rejected' = rejected \cup Rejections)
  BY Facts DEF History, Crosses
<1>6. ASSUME ~crossed', NEW d \in Callers PROVE Placed(request'[d], stored', rejected')
  <2>1. ~crossed /\ rejected' = rejected \cup Rejections /\ stored' = stored
    BY <1>5, <1>6
  <2>2. CASE d = c
    BY <1>1, <2>1, <2>2
  <2>3. CASE d # c
    <3>1. Placed(request[d], stored, rejected) /\ request'[d] = request[d]
      BY <1>1, <2>1, <2>3, Facts, Requests
    <3> QED BY <2>1, <3>1, PlacedKept
  <2> QED BY <2>2, <2>3
<1>7. ASSUME ~crossed' PROVE Expired(expiry'.key, stored', rejected')
  BY <1>5, <1>7
<1> QED BY <1>4, <1>6, <1>7 DEF HistoryInv

\* A step of c that saves a new session.
LEMMA SaveKeeps ==
  ASSUME HistoryInv, TypeOK', History, NEW c \in Actors, NEW q, Becomes(c, q),
         NEW t \in Session \cup {None}, t # None => t.key <= made, Renews(t, stored'),
         q # request[c], Rejections = {}, expiry'.key = None,
         q.session \in {None, stored', request[c].session},
         c \in Callers => Shaped(c, q, lock'),
         \A d \in Callers \ {c} : lock' = d <=> lock = d,
         ~crossed /\ c \in Callers => Placed(q, stored', rejected)
  PROVE  HistoryInv'
<1>1. Movers = {c} /\ \A d \in Actors : request'[d] = IF d = c THEN q ELSE request[d]
  BY Facts, Refusals
<1>2. /\ made \in Nat /\ made' = made + 1 /\ stored' \in Session
      /\ stored'.key = made + 1 \/ (t # None /\ stored'.key = t.key)
  BY Facts, Constants DEF TypeOK, Renews
<1>3. stored'.key \in Nat /\ stored'.key <= made'
  <2>1. \A s \in Session : s.key \in Nat
    BY Constants
  <2>2. stored'.key \in Nat /\ (t # None => t.key \in Nat /\ t.key <= made)
    BY <1>2, <2>1
  <2> QED BY ONLY <1>2, <2>2
<1>4. ASSUME q.session # None PROVE q.session.key <= made'
  <2>1. CASE q.session = stored'
    BY <1>3, <2>1
  <2>2. CASE q.session = request[c].session
    <3>1. q.session \in Session /\ q.session.key <= made
      BY <1>4, <2>2, Facts, Requests
    <3>2. q.session.key \in Nat
      BY <3>1, Constants
    <3> QED BY <1>2, <3>1, <3>2
  <2> QED BY <1>4, <2>1, <2>2
<1>5. crossed' \in BOOLEAN /\ KeysGiven' /\ \A d \in Callers : Shaped(d, request'[d], lock')
  BY <1>2, <1>3, <1>4, ShapesKept
<1>6. crossed' = (crossed \/ Crosses) /\ (~crossed' => rejected' = rejected)
  BY DEF History
<1>7. ASSUME ~crossed', NEW d \in Callers PROVE Placed(request'[d], stored', rejected')
  <2>1. ~crossed /\ ~Crosses /\ rejected' = rejected
    BY <1>6, <1>7
  <2>2. CASE d = c
    BY <1>1, <2>1, <2>2, Requests
  <2>3. CASE d # c
    <3>1. /\ Placed(request[d], stored, rejected) /\ Shaped(d, request[d], lock)
          /\ request'[d] = request[d]
      BY <1>1, <2>1, <2>3, Facts, Requests
    <3>2. CASE stored' = stored
      BY <2>1, <3>1, <3>2
    <3>3. CASE stored' # stored
      <4>0. /\ \A e \in Callers \ {c} : ~LastAttempt(e)
            /\ lock = c \/ \A e \in Actors \ {c} : ~Busy(e)
        BY ONLY <1>1, <2>1, <3>3 DEF Crosses
      <4>1. ~LastAttempt(d) /\ (lock = c \/ ~Busy(d))
        BY <2>3, <4>0, Facts, Requests
      <4>2. ~(request[d].pc \in {"sent", "refused"} /\ request[d].tries = 1)
        BY <4>1 DEF LastAttempt
      <4>3. ~Recovers(request[d])
        BY <2>3, <3>1, <4>1 DEF Shaped, Recovers, Busy
      <4>4. stored' # None
        BY <1>2, Constants
      <4> QED BY <2>1, <3>1, <4>2, <4>3, <4>4 DEF Placed
    <3> QED BY <3>2, <3>3
  <2> QED BY <2>2, <2>3
<1>8. ASSUME ~crossed' PROVE Expired(expiry'.key, stored', rejected')
  BY <1>2, Constants DEF Expired
<1> QED BY <1>5, <1>7, <1>8 DEF HistoryInv

LEMMA LockOthers ==
  ASSUME TypeOK, NEW c, lock \in {c, None}, lock' \in {c, None}
  PROVE  \A d \in Callers \ {c} : lock' = d <=> lock = d
  BY Constants DEF TypeOK, Actors

LEMMA BeginKeeps ==
  ASSUME HistoryInv, History, NEW c \in Callers, Begin(c)
  PROVE  HistoryInv'
<1> DEFINE r == request[c]
<1>1. /\ TypeOK' /\ r.pc = "idle" /\ stored # None /\ UNCHANGED <<stored, made, lock>>
      /\ c \in Actors
  BY Facts, BeginTo, Requests
<1>2. PICK q : Becomes(c, q) /\ Begun(q)
  BY Facts, BeginTo
<1>3. Rejections = {}
  BY <1>1, <1>2, Facts, Refusals DEF Begun
<1>4. Shaped(c, q, lock')
  BY <1>1, <1>2, Facts DEF Shaped, Begun, Recovers
<1>5. Placed(q, stored, rejected)
  BY <1>1, <1>2 DEF Placed, Begun, Recovers
<1>6. ~crossed => Expired(expiry'.key, stored, rejected)
  BY <1>2, Facts, ExpiredKept, Requests DEF Begun, Expired
<1>7. q.session \in {None, stored, request[c].session}
  BY <1>2 DEF Begun
<1> QED BY <1>1, <1>2, <1>3, <1>4, <1>5, <1>6, <1>7, QuietKeeps

LEMMA ServesKeeps ==
  ASSUME HistoryInv, History, NEW c \in Callers, Serves(c)
  PROVE  HistoryInv'
<1> DEFINE r == request[c]
<1>1. /\ TypeOK' /\ r.pc = "sent" /\ UNCHANGED <<stored, made, lock, expiry>>
      /\ c \in Actors /\ r.session \in Session \cup {None}
  BY Facts, ServesTo, Requests
<1>2. PICK q : /\ Becomes(c, q) /\ q.pc \in {"accepted", "refused"}
               /\ Recovering(q, r, q.pc)
  BY Facts, ServesTo
<1>3. /\ Rejections \subseteq {r.session}
      /\ q.pc = "refused" => r.session \in Rejections
  BY <1>1, <1>2, Facts, Refusals
<1>4. r.session \in Session /\ r.session.key <= made
  BY <1>1, Facts DEF Shaped
<1>5. Shaped(c, q, lock')
  BY <1>1, <1>2, Facts DEF Shaped, Recovers, Recovering
<1>6. ~crossed => Placed(q, stored, rejected \cup Rejections)
  BY <1>1, <1>2, <1>3, Facts DEF Placed, Recovers, Recovering
<1>7. ~crossed => Expired(expiry'.key, stored, rejected \cup Rejections)
  BY <1>1, Facts, ExpiredKept, Requests
<1>8. q.session = r.session
  BY <1>2 DEF Recovering
<1> QED BY <1>1, <1>2, <1>3, <1>4, <1>5, <1>6, <1>7, <1>8, QuietKeeps

LEMMA AcceptedKeeps ==
  ASSUME HistoryInv, History, NEW c \in Callers, Accepted(c)
  PROVE  HistoryInv'
<1> DEFINE r == request[c]
<1>1. /\ TypeOK' /\ r.pc = "accepted" /\ UNCHANGED <<made, lock, expiry>>
      /\ stored' \in {stored, r.session} /\ c \in Actors
  BY Facts, AcceptedTo, Requests
<1>2. PICK q : Becomes(c, q) /\ Answered(c, q)
  BY Facts, AcceptedTo
<1>3. Rejections = {} /\ q # r /\ Movers = {c}
  BY <1>1, <1>2, Facts, Refusals DEF Answered, Ended
<1>4. Shaped(c, q, lock')
  BY <1>1, <1>2, Facts DEF Shaped, Recovers, Answered, Ended
<1>5. q.session = None
  BY <1>2 DEF Answered, Ended
<1>6. CASE stored' = stored
  <2>1. ~crossed => Placed(q, stored, rejected)
    BY <1>1, <1>2, Facts DEF Placed, Recovers, Answered, Ended
  <2> QED BY <1>1, <1>2, <1>3, <1>4, <1>5, <1>6, <2>1, Facts, QuietKeeps
<1>7. CASE stored' # stored
  <2>1. crossed'
    BY <1>1, <1>3, <1>7, Facts DEF History, Crosses
  <2>2. made \in Nat /\ made <= made' /\ (stored' # None => stored'.key <= made')
    BY <1>1, Facts, Constants DEF TypeOK
  <2>3. crossed' \in BOOLEAN /\ KeysGiven' /\ \A d \in Callers : Shaped(d, request'[d], lock')
    BY <1>1, <1>2, <1>3, <1>4, <1>5, <2>2, ShapesKept
  <2> QED BY <1>1, <2>1, <2>3 DEF HistoryInv
<1> QED BY <1>6, <1>7

LEMMA RefusedKeeps ==
  ASSUME HistoryInv, History, NEW c \in Callers, Refused(c)
  PROVE  HistoryInv'
<1> DEFINE r == request[c]
<1>1. /\ TypeOK' /\ r.pc = "refused" /\ UNCHANGED <<stored, made, lock>> /\ c \in Actors
      /\ stored \in Session \cup {None}
  BY Facts, RefusedTo, Requests
<1>2. Shaped(c, r, lock) /\ (~crossed => Placed(r, stored, rejected))
  BY Facts
<1>3. lock # c
  BY <1>1, <1>2 DEF Shaped, Recovers
<1>4. CASE /\ r.tries = 0 /\ expiry'.key = expiry.key
           /\ \E q : /\ Becomes(c, q) /\ q.pc = "locks" /\ q.why = "rejected"
                     /\ q.kind = r.kind /\ q.session = r.session
  <2>1. PICK q : /\ Becomes(c, q) /\ q.pc = "locks" /\ q.why = "rejected"
                 /\ q.kind = r.kind /\ q.session = r.session
    BY <1>4
  <2>2. Rejections = {}
    BY <1>1, <2>1, Facts, Refusals
  <2>3. Shaped(c, q, lock')
    BY <1>1, <1>2, <1>3, <2>1 DEF Shaped, Recovers
  <2>4. ~crossed => Placed(q, stored, rejected)
    BY <1>1, <1>2, <2>1 DEF Placed, Recovers
  <2> QED BY <1>1, <1>4, <2>1, <2>2, <2>3, <2>4, Facts, QuietKeeps
<1>5. CASE r.tries = 1 /\ Flags(expiry) /\ \E q : Becomes(c, q) /\ Ended(q)
  <2>1. PICK q : Becomes(c, q) /\ Ended(q)
    BY <1>5
  <2>2. Rejections = {} /\ q.session = None
    BY <1>1, <2>1, Facts, Refusals DEF Ended
  <2>3. Shaped(c, q, lock') /\ Placed(q, stored, rejected)
    BY <1>1, <1>3, <2>1, EndedFits
  <2>4. ~crossed => stored # None /\ stored \in rejected
    BY <1>1, <1>2, <1>5 DEF Placed
  <2>5. ~crossed => Expired(expiry'.key, stored, rejected)
    <3>1. ~crossed => Expired(expiry.key, stored, rejected) /\ Expired(KeyOf(stored), stored, rejected)
      BY <1>1, <2>4, Facts DEF Expired, KeyOf
    <3> QED BY <1>5, <3>1 DEF Flags
  <2> QED BY <1>1, <2>1, <2>2, <2>3, <2>5, QuietKeeps
<1> QED BY <1>4, <1>5, Facts, RefusedTo

\* A step of the recovery that goes on or gives up.
LEMMA TriesKeeps ==
  ASSUME HistoryInv, TypeOK', History, NEW c \in Callers, NEW s \in {stored, request[c].session},
         Tries(c, request[c], s), UNCHANGED <<stored, made>>, lock \in {c, None},
         request[c].kind # "proactive", request[c].pc \in {"locks", "oauth"},
         ~crossed => s = stored /\ stored # None /\ stored \in rejected
  PROVE  HistoryInv'
<1> DEFINE r == request[c]
<1>1. c \in Actors /\ stored \in Session \cup {None} /\ c # None
  BY Facts, Requests, Constants
<1>2. CASE /\ lock' = c /\ expiry'.key = expiry.key
           /\ \E q : /\ Becomes(c, q) /\ q.pc \in {"oauth", "queue"}
                     /\ q.kind = r.kind /\ q.session = s
  <2>1. PICK q : /\ Becomes(c, q) /\ q.pc \in {"oauth", "queue"}
                 /\ q.kind = r.kind /\ q.session = s
    BY <1>2
  <2>2. Rejections = {}
    BY <1>1, <2>1, Facts, Refusals
  <2>3. Shaped(c, q, lock')
    BY <1>2, <2>1 DEF Shaped, Recovers
  <2>4. ~crossed => Placed(q, stored, rejected)
    BY <2>1 DEF Placed, Recovers
  <2>5. \A d \in Callers \ {c} : lock' = d <=> lock = d
    BY <1>2, Facts, LockOthers
  <2> QED BY <1>1, <1>2, <2>1, <2>2, <2>3, <2>4, <2>5, Facts, QuietKeeps
<1>3. CASE lock' = None /\ \E q : Becomes(c, q) /\ Ended(q)
  <2>1. PICK q : Becomes(c, q) /\ Ended(q)
    BY <1>3
  <2>2. Rejections = {} /\ q.session = None
    BY <1>1, <2>1, Facts, Refusals DEF Ended
  <2>3. Shaped(c, q, lock') /\ Placed(q, stored, rejected)
    BY <1>1, <1>3, <2>1, EndedFits
  <2>4. ~crossed => Expired(expiry'.key, stored, rejected)
    <3>1. ~crossed => Expired(expiry.key, stored, rejected) /\ Expired(KeyOf(stored), stored, rejected)
      BY <1>1, Facts DEF Expired, KeyOf
    <3> QED BY <3>1 DEF Tries, Flags
  <2>5. \A d \in Callers \ {c} : lock' = d <=> lock = d
    BY <1>3, Facts, LockOthers
  <2> QED BY <1>1, <2>1, <2>2, <2>3, <2>4, <2>5, QuietKeeps
<1> QED BY <1>2, <1>3 DEF Tries

\* A step that saves nothing and proceeds, with the lock left.
LEMMA GoingOnKeeps ==
  ASSUME HistoryInv, TypeOK', History, NEW c \in Callers, NEW q, NEW p, Becomes(c, q),
         GoesOn(q, p, stored), p.kind # "proactive",
         UNCHANGED <<stored, made>>, lock \in {c, None}, lock' = None,
         request[c].pc # "idle", expiry'.key \in {None, expiry.key}
  PROVE  HistoryInv'
<1>1. c \in Actors /\ stored \in Session \cup {None} /\ c # None
  BY Facts, Requests, Constants
<1>2. Rejections = {} /\ q.session \in {None, stored}
  BY <1>1, Facts, Refusals DEF GoesOn, Ended, StartsOver, Sending
<1>3. ~crossed => stored # None
  BY Facts DEF Placed
<1>4. Shaped(c, q, lock') /\ (~crossed => Placed(q, stored, rejected))
  BY <1>1, <1>3, GoingOnFits
<1>5. ~crossed => Expired(expiry'.key, stored, rejected)
  <2>1. ~crossed => Expired(expiry.key, stored, rejected) /\ Expired(None, stored, rejected)
    BY <1>1, Facts, Constants DEF Expired
  <2> QED BY <2>1
<1>6. \A d \in Callers \ {c} : lock' = d <=> lock = d
  BY Facts, LockOthers
<1> QED BY <1>1, <1>2, <1>4, <1>5, <1>6, QuietKeeps

LEMMA LocksRejectedKeeps ==
  ASSUME HistoryInv, History, NEW c \in Callers, LocksRejected(c)
  PROVE  HistoryInv'
<1> DEFINE r == request[c]
<1>1. /\ TypeOK' /\ r.pc = "locks" /\ r.why = "rejected" /\ lock = None
      /\ UNCHANGED <<stored, made>> /\ c \in Actors
      /\ r.session \in Session \cup {None} /\ stored \in Session \cup {None}
  BY Facts, LocksRejectedTo, Requests
<1>2. r.kind # "proactive" /\ (~crossed => stored # None /\ r.session \in rejected)
  BY <1>1, Facts DEF Shaped, Placed
<1>3. CASE stored = None
  <2>1. crossed
    BY <1>2, <1>3, Facts
  <2>2. PICK q : Becomes(c, q) /\ Ended(q)
    BY <1>1, <1>3, Facts, RefusesTo, Requests DEF LocksRejected, SameSession
  <2>3. Rejections = {} /\ q.session = None
    BY <1>1, <2>2, Facts, Refusals DEF Ended
  <2>4. lock' = None
    BY <1>1, <1>3 DEF LocksRejected, SameSession
  <2>5. Shaped(c, q, lock')
    BY <1>1, <2>2, <2>4, Constants, EndedFits
  <2> QED BY <1>1, <2>1, <2>2, <2>3, <2>4, <2>5, QuietKeeps
<1>4. CASE /\ lock' = None /\ Learns(expiry)
           /\ \E q, p : Becomes(c, q) /\ GoesOn(q, p, stored) /\ p.kind = r.kind
  BY <1>1, <1>2, <1>4, GoingOnKeeps DEF Learns
<1>5. CASE SameSession(r.session) /\ Tries(c, r, stored)
  <2>1. ~crossed => r.session = stored
    <3>1. stored # None /\ stored.key = r.session.key /\ stored.made = r.session.made
      BY <1>5 DEF SameSession
    <3>2. ~crossed => r.session \in Session /\ stored \in Session
      BY <1>1, <1>2, <3>1 DEF HistoryInv, KeysGiven
    <3> QED BY <3>1, <3>2 DEF Session
  <2> QED BY <1>1, <1>2, <1>5, <2>1, TriesKeeps
<1> QED BY <1>3, <1>4, <1>5, Facts, LocksRejectedTo

LEMMA LocksExpiredKeeps ==
  ASSUME HistoryInv, History, NEW c \in Callers, LocksExpired(c)
  PROVE  HistoryInv'
<1> DEFINE r == request[c]
<1>1. /\ TypeOK' /\ r.pc = "locks" /\ lock = None /\ UNCHANGED <<stored, made>>
  BY Facts, LocksExpiredTo
<1>2. r.kind # "proactive"
  BY <1>1, Facts DEF Shaped
<1>3. CASE /\ lock' = None /\ Learns(expiry) /\ \E q : Becomes(c, q) /\ GoesOn(q, r, stored)
  BY <1>1, <1>2, <1>3, GoingOnKeeps DEF Learns
<1>4. CASE stored # None /\ expiry.key = stored.key /\ Tries(c, r, stored)
  <2>1. ~crossed => stored \in rejected
    BY <1>4, Facts DEF Expired
  <2> QED BY <1>1, <1>2, <1>4, <2>1, TriesKeeps
<1> QED BY <1>3, <1>4, Facts, LocksExpiredTo

\* Who renews holds the lock, and what it renews is stored and was refused.
LEMMA RenewsWhatWasRefused ==
  ASSUME HistoryInv, NEW c \in Callers, Recovers(request[c])
  PROVE  /\ lock = c /\ request[c].kind # "proactive"
         /\ ~crossed /\ request[c].pc # "closing" =>
               request[c].session = stored /\ stored \in rejected
         /\ ~crossed => stored # None
  BY Facts DEF Shaped, Placed, Recovers

LEMMA OauthRenewsKeeps ==
  ASSUME HistoryInv, History, NEW c \in Callers, OauthRenews(c)
  PROVE  HistoryInv'
<1> DEFINE r == request[c]
<1>1. /\ TypeOK' /\ r.pc = "oauth" /\ lock' = None /\ expiry'.key = None /\ c \in Actors
      /\ r.session \in Session \cup {None} /\ c # None
  BY Facts, OauthRenewsTo, Requests, Constants
<1>2. PICK q, p, s : /\ Renews(r.session, s) /\ Becomes(c, q)
                     /\ GoesOn(q, p, s) /\ p.kind = r.kind
  BY Facts, OauthRenewsTo
<1>3. lock = c /\ r.kind # "proactive"
  BY <1>1, Facts DEF Shaped, Recovers
<1>4. s = stored' /\ stored' # None
  BY <1>2, Constants DEF Renews
<1>5. q.pc \in {"idle", "locks", "sent"} /\ q.session \in {None, stored'}
  BY <1>2, <1>4 DEF GoesOn, Ended, StartsOver, Sending
<1>6. Rejections = {} /\ q # r
  BY <1>1, <1>2, <1>5, Facts, Refusals
<1>7. Shaped(c, q, lock') /\ Placed(q, stored', rejected)
  BY <1>1, <1>2, <1>3, <1>4, GoingOnFits
<1>8. \A d \in Callers \ {c} : lock' = d <=> lock = d
  BY <1>1, <1>3, Facts, LockOthers
<1>9. r.session # None => r.session.key <= made
  BY <1>1, Facts
<1> HIDE DEF r
<1> QED BY <1>1, <1>2, <1>4, <1>5, <1>6, <1>7, <1>8, <1>9, SaveKeeps DEF r

LEMMA OauthFailsKeeps ==
  ASSUME HistoryInv, History, NEW c \in Callers, OauthFails(c)
  PROVE  HistoryInv'
<1>1. /\ TypeOK' /\ request[c].pc = "oauth" /\ UNCHANGED <<stored, made>>
      /\ Tries(c, request[c], request[c].session)
  BY Facts, OauthFailsTo
<1>2. Recovers(request[c])
  BY <1>1, Facts DEF Shaped, Recovers
<1> QED BY <1>1, <1>2, RenewsWhatWasRefused, TriesKeeps

LEMMA BrowserStartsKeeps ==
  ASSUME HistoryInv, History, NEW c \in Actors, BrowserStarts(c)
  PROVE  HistoryInv'
<1> DEFINE r == request[c]
<1>1. /\ TypeOK' /\ r.pc = "queue" /\ UNCHANGED <<stored, made, lock, expiry>>
      /\ stored \in Session \cup {None}
  BY Facts, BrowserStartsTo, Requests
<1>2. PICK q : Becomes(c, q) /\ Recovering(q, r, "browsing")
  BY Facts, BrowserStartsTo
<1>3. Rejections = {} /\ q.session = r.session
  BY <1>1, <1>2, Facts, Refusals DEF Recovering
<1>4. c \in Callers => Shaped(c, q, lock')
  BY <1>1, <1>2, Facts DEF Shaped, Recovers, Recovering
<1>5. ~crossed /\ c \in Callers => Placed(q, stored, rejected)
  BY <1>1, <1>2, Facts DEF Placed, Recovers, Recovering
<1> QED BY <1>1, <1>2, <1>3, <1>4, <1>5, Facts, QuietKeeps

LEMMA BrowserCapturesKeeps ==
  ASSUME HistoryInv, History, NEW c \in Actors, BrowserCaptures(c)
  PROVE  HistoryInv'
<1> DEFINE r == request[c]
<1>1. /\ TypeOK' /\ r.pc = "browsing" /\ UNCHANGED lock /\ expiry'.key = None
      /\ stored \in Session \cup {None}
  BY Facts, BrowserCapturesTo, Requests
<1>2. PICK q, s, t : /\ t \in {stored, None} /\ Renews(t, s)
                     /\ Becomes(c, q) /\ Recovering(q, r, "closing")
  BY Facts, BrowserCapturesTo
<1>3. s = stored' /\ stored' # None
  BY <1>2, Constants DEF Renews
<1>4. Rejections = {} /\ q.session = r.session /\ q # r
  BY <1>1, <1>2, Facts, Refusals DEF Recovering
<1>5. c \in Callers => Shaped(c, q, lock')
  BY <1>1, <1>2, Facts DEF Shaped, Recovers, Recovering
<1>6. Placed(q, stored', rejected)
  BY <1>2, <1>3 DEF Placed, Recovering
<1>7. t \in Session \cup {None} /\ (t # None => t.key <= made)
  BY <1>1, <1>2, Facts
<1> HIDE DEF r
<1> QED BY <1>1, <1>2, <1>3, <1>4, <1>5, <1>6, <1>7, SaveKeeps DEF r

LEMMA BrowserFailsKeeps ==
  ASSUME HistoryInv, History, NEW c \in Actors, BrowserFails(c)
  PROVE  HistoryInv'
<1> DEFINE r == request[c]
<1>1. /\ TypeOK' /\ r.pc = "browsing" /\ UNCHANGED <<stored, made>> /\ Flags(expiry)
      /\ lock # c => expiry'.key = expiry.key
      /\ lock' = IF lock = c THEN None ELSE lock
      /\ stored \in Session \cup {None} /\ c # None /\ lock \in Callers \cup {None}
  BY Facts, BrowserFailsTo, Requests, Constants DEF TypeOK
<1>2. PICK q : Becomes(c, q) /\ Ended(q)
  BY Facts, BrowserFailsTo
<1>3. Rejections = {} /\ q.session = None
  BY <1>1, <1>2, Facts, Refusals DEF Ended
<1>4. lock' # c /\ Shaped(c, q, lock') /\ Placed(q, stored, rejected)
  BY <1>1, <1>2, EndedFits
<1>5. ~crossed => Expired(expiry'.key, stored, rejected)
  <2>1. CASE lock # c
    BY <1>1, <2>1, Facts
  <2>2. CASE lock = c
    <3>1. c \in Callers /\ Recovers(r)
      BY <1>1, <2>2, Facts DEF Shaped
    <3>2. ~crossed => stored # None /\ stored \in rejected
      BY <1>1, <3>1, RenewsWhatWasRefused
    <3>3. ~crossed => Expired(expiry.key, stored, rejected) /\ Expired(KeyOf(stored), stored, rejected)
      BY <3>2, Facts DEF Expired, KeyOf
    <3> QED BY <1>1, <3>3 DEF Flags
  <2> QED BY <2>1, <2>2
<1>6. \A d \in Callers \ {c} : lock' = d <=> lock = d
  BY <1>1, Constants DEF Actors
<1> QED BY <1>1, <1>2, <1>3, <1>4, <1>5, <1>6, QuietKeeps

LEMMA BrowserClosesKeeps ==
  ASSUME HistoryInv, History, NEW c \in Actors, BrowserCloses(c)
  PROVE  HistoryInv'
<1> DEFINE r == request[c]
<1>1. /\ TypeOK' /\ r.pc = "closing" /\ UNCHANGED <<stored, made>>
      /\ lock' = IF lock = c THEN None ELSE lock
      /\ stored \in Session \cup {None} /\ c # None /\ lock \in Callers \cup {None}
  BY Facts, BrowserClosesTo, Requests, Constants DEF TypeOK
<1>2. CASE /\ lock = c /\ expiry'.key = None
           /\ \E q, p : Becomes(c, q) /\ GoesOn(q, p, stored) /\ p.kind = r.kind
  <2>1. c \in Callers /\ Recovers(r)
    BY <1>1, <1>2, Facts DEF Shaped
  <2>2. r.kind # "proactive"
    BY <2>1, RenewsWhatWasRefused
  <2> QED BY <1>1, <1>2, <2>1, <2>2, GoingOnKeeps
<1>3. CASE /\ Flags(expiry) /\ \E q : Becomes(c, q) /\ Ended(q)
           /\ IF lock = c THEN stored = None ELSE expiry'.key = expiry.key
  <2>1. PICK q : Becomes(c, q) /\ Ended(q)
    BY <1>3
  <2>2. Rejections = {} /\ q.session = None
    BY <1>1, <2>1, Facts, Refusals DEF Ended
  <2>3. lock' # c /\ Shaped(c, q, lock') /\ Placed(q, stored, rejected)
    BY <1>1, <2>1, EndedFits
  <2>4. ~crossed => Expired(expiry'.key, stored, rejected)
    <3>1. CASE lock = c
      <4>1. c \in Callers /\ Recovers(r)
        BY <1>1, <3>1, Facts DEF Shaped
      <4> QED BY <1>3, <3>1, <4>1, RenewsWhatWasRefused
    <3>2. CASE lock # c
      BY <1>3, <3>2, Facts
    <3> QED BY <3>1, <3>2
  <2>5. \A d \in Callers \ {c} : lock' = d <=> lock = d
    BY <1>1, Constants DEF Actors
  <2> QED BY <1>1, <2>1, <2>2, <2>3, <2>4, <2>5, QuietKeeps
<1> QED BY <1>2, <1>3, Facts, BrowserClosesTo

LEMMA LoginStartsKeeps ==
  ASSUME HistoryInv, History, LoginStarts
  PROVE  HistoryInv'
<1>1. /\ TypeOK' /\ request[Admin].pc = "idle" /\ UNCHANGED <<stored, made, lock, expiry>>
      /\ Admin \in Actors /\ Admin \notin Callers
  BY Facts, LoginStartsTo, Requests, Constants
<1>2. PICK q : Becomes(Admin, q) /\ q.pc = "queue" /\ q.session = None
  BY Facts, LoginStartsTo
<1>3. Rejections = {}
  BY <1>1, <1>2, Facts, Refusals
<1> QED BY <1>1, <1>2, <1>3, Facts, QuietKeeps

LEMMA LoginRejectsKeeps ==
  ASSUME HistoryInv, History, LoginRejects
  PROVE  HistoryInv'
<1> DEFINE r == request[Admin]
<1>1. /\ TypeOK' /\ r.pc = "browsing" /\ stored # None
      /\ UNCHANGED <<stored, made, lock>> /\ expiry'.key = stored.key
      /\ request'[Admin] # r /\ stored \in Session \cup {None}
      /\ Admin \in Actors /\ Admin \notin Callers
  BY Facts, LoginRejectsTo, Requests, Constants
<1>2. PICK q : Becomes(Admin, q) /\ Recovering(q, r, "browsing")
  BY Facts, LoginRejectsTo
<1>3. q # r /\ q.pc = "browsing" /\ q.session = r.session
  BY <1>1, <1>2, Facts, Refusals DEF Recovering
<1>4. Rejections = {stored}
  BY <1>1, <1>2, <1>3, Facts, Refusals
<1>5. Rejections \subseteq {s \in Session : s.key <= made}
  BY <1>1, <1>4, Facts
<1>6. Expired(expiry'.key, stored, rejected \cup Rejections)
  BY <1>1, <1>4 DEF Expired
<1> QED BY <1>1, <1>2, <1>3, <1>5, <1>6, QuietKeeps

\* Where no call takes a step, nothing is refused.
LEMMA NoMovers ==
  ASSUME UNCHANGED request
  PROVE  Movers = {} /\ Rejections = {}
  BY DEF Movers, Rejections

LEMMA ImportKeeps ==
  ASSUME HistoryInv, History, Import
  PROVE  HistoryInv'
<1>1. TypeOK /\ TypeOK' /\ UNCHANGED <<request, lock, expiry>>
  BY Facts, ImportTo
<1>2. Renews(None, stored')
  BY Facts, ImportTo DEF Renews
<1>3. made \in Nat /\ made' = made + 1 /\ stored' \in Session /\ stored'.key = made + 1
  BY <1>1, <1>2, Constants DEF Renews, TypeOK
<1>4. Movers = {} /\ (~crossed' => rejected' = rejected) /\ crossed' = (crossed \/ Crosses)
      /\ rejected' \subseteq rejected /\ crossed' \in BOOLEAN
  BY <1>1, NoMovers, Facts DEF History
<1>5. KeysGiven'
  <2>1. ASSUME NEW c \in Actors, request[c].session # None PROVE request[c].session.key <= made'
    <3>1. request[c].session \in Session /\ request[c].session.key <= made
      BY <2>1, Facts, Requests
    <3>2. request[c].session.key \in Nat
      BY <3>1, Constants
    <3> QED BY <1>3, <3>1, <3>2
  <2>2. ASSUME NEW s \in rejected' PROVE s.key <= made' /\ s \in Session
    <3>1. s \in Session /\ s.key <= made
      BY <1>4 DEF HistoryInv, KeysGiven
    <3>2. s.key \in Nat
      BY <3>1, Constants
    <3> QED BY <1>3, <3>1, <3>2
  <2> QED BY <1>1, <1>3, <2>1, <2>2 DEF KeysGiven
<1>6. \A c \in Callers : Shaped(c, request'[c], lock')
  BY <1>1, Facts
<1>7. ASSUME ~crossed', NEW c \in Callers PROVE Placed(request'[c], stored', rejected')
  <2>1. ~crossed /\ ~Crosses /\ rejected' = rejected
    BY <1>4, <1>7
  <2>2. CASE stored' = stored
    BY <1>1, <2>1, <2>2, Facts
  <2>3. CASE stored' # stored
    <3>1. request[c].pc = "idle"
      BY <1>4, <2>1, <2>3, Facts, Requests DEF Crosses, Busy
    <3> QED BY <1>1, <3>1 DEF Placed, Recovers
  <2> QED BY <2>2, <2>3
<1>8. ASSUME ~crossed' PROVE Expired(expiry'.key, stored', rejected')
  <2>1. Expired(expiry.key, stored, rejected) /\ rejected' = rejected /\ expiry' = expiry
    BY <1>1, <1>4, <1>8, Facts
  <2>2. ASSUME expiry.key = made + 1 PROVE FALSE
    <3>1. expiry.key # None
      BY <1>3, <2>2, Constants
    <3>2. PICK s \in rejected : s.key = made + 1
      BY <2>1, <2>2, <3>1 DEF Expired
    <3>3. s.key <= made
      BY DEF HistoryInv, KeysGiven
    <3> QED BY <1>3, <3>2, <3>3
  <2> QED BY <1>3, <2>1, <2>2 DEF Expired
<1> QED BY <1>1, <1>4, <1>5, <1>6, <1>7, <1>8 DEF HistoryInv

LEMMA LogoutKeeps ==
  ASSUME HistoryInv, History, Logout
  PROVE  HistoryInv'
<1>1. /\ TypeOK /\ TypeOK' /\ UNCHANGED <<request, lock, expiry, made>>
      /\ stored # None /\ stored' = None
  BY Facts, LogoutTo
<1>2. Movers = {} /\ (~crossed' => rejected' = rejected) /\ crossed' = (crossed \/ Crosses)
      /\ rejected' \subseteq rejected /\ crossed' \in BOOLEAN
  BY <1>1, NoMovers, Facts DEF History
<1>3. KeysGiven' /\ \A c \in Callers : Shaped(c, request'[c], lock')
  BY <1>1, <1>2 DEF HistoryInv, KeysGiven
<1>4. ASSUME ~crossed', NEW c \in Callers PROVE Placed(request'[c], stored', rejected')
  <2>1. request[c].pc = "idle"
    BY <1>1, <1>2, <1>4, Facts, Requests DEF Crosses, Busy
  <2> QED BY <1>1, <2>1 DEF Placed, Recovers
<1>5. ~crossed' => Expired(expiry'.key, stored', rejected')
  BY <1>1, <1>2, Facts DEF Expired
<1> QED BY <1>1, <1>2, <1>3, <1>4, <1>5 DEF HistoryInv

LEMMA AsideKeeps ==
  ASSUME HistoryInv, History, Aside
  PROVE  HistoryInv'
<1>1. /\ TypeOK /\ TypeOK' /\ UNCHANGED <<stored, made, lock, request>>
      /\ expiry'.key \in {None, expiry.key}
  BY Facts, AsideTo
<1>2. crossed' = crossed /\ (~crossed' => rejected' = rejected) /\ rejected' \subseteq rejected
  BY <1>1, NoMovers, Facts DEF History, Crosses
<1>3. ~crossed' => Expired(expiry'.key, stored', rejected')
  <2>1. ~crossed => Expired(expiry.key, stored, rejected) /\ Expired(None, stored, rejected)
    BY <1>1, Facts, Constants, Requests DEF Expired
  <2> QED BY <1>1, <1>2, <2>1
<1> QED BY <1>1, <1>2, <1>3 DEF HistoryInv, KeysGiven

LEMMA InitHistory == Init /\ rejected = {} /\ crossed = FALSE => HistoryInv
<1> SUFFICES ASSUME Init, rejected = {}, crossed = FALSE PROVE HistoryInv
  OBVIOUS
<1>1. TypeOK /\ \A c \in Actors : request[c] = Idle
  BY InitTyped DEF Init
<1>2. KeysGiven
  BY <1>1 DEF Init, KeysGiven, Idle
<1>3. \A c \in Callers : Shaped(c, Idle, lock) /\ Placed(Idle, stored, rejected)
  BY Constants DEF Init, Shaped, Placed, Recovers, Idle, Actors
<1>4. Expired(expiry.key, stored, rejected)
  BY Constants DEF Init, Expired
<1> QED BY <1>1, <1>2, <1>3, <1>4, Requests DEF HistoryInv

LEMMA StepHistory ==
  HistoryInv /\ [Next /\ History]_<<vars, rejected, crossed>> => HistoryInv'
<1> SUFFICES ASSUME HistoryInv, [Next /\ History]_<<vars, rejected, crossed>> PROVE HistoryInv'
  OBVIOUS
<1>1. ASSUME History, NEW c \in Callers, Begin(c) \/ Continue(c) PROVE HistoryInv'
  <2>1. CASE Begin(c)
    BY <1>1, <2>1, BeginKeeps
  <2>2. CASE Serves(c) \/ Accepted(c) \/ Refused(c)
    BY <1>1, <2>2, ServesKeeps, AcceptedKeeps, RefusedKeeps
  <2>3. CASE LocksRejected(c) \/ LocksExpired(c) \/ OauthRenews(c) \/ OauthFails(c)
    BY <1>1, <2>3, LocksRejectedKeeps, LocksExpiredKeeps, OauthRenewsKeeps, OauthFailsKeeps
  <2>4. CASE BrowserStarts(c) \/ BrowserCaptures(c) \/ BrowserFails(c) \/ BrowserCloses(c)
    BY <1>1, <2>4, BrowserStartsKeeps, BrowserCapturesKeeps, BrowserFailsKeeps,
       BrowserClosesKeeps, Facts, Requests
  <2> QED BY <1>1, <2>1, <2>2, <2>3, <2>4 DEF Continue, Recovery
<1>2. ASSUME History, BrowserStarts(Admin) \/ BrowserCaptures(Admin) \/ BrowserFails(Admin)
                      \/ BrowserCloses(Admin) \/ LoginRejects
      PROVE  HistoryInv'
  BY <1>2, BrowserStartsKeeps, BrowserCapturesKeeps, BrowserFailsKeeps, BrowserClosesKeeps,
     LoginRejectsKeeps, Facts, Requests
<1>3. ASSUME History, LoginStarts \/ Import \/ Logout \/ Aside PROVE HistoryInv'
  BY <1>3, LoginStartsKeeps, ImportKeeps, LogoutKeeps, AsideKeeps
<1>4. CASE UNCHANGED <<vars, rejected, crossed>>
  BY <1>4 DEF vars, HistoryInv, TypeOK, KeysGiven
<1> QED BY <1>1, <1>2, <1>3, <1>4 DEF Next, Aside

LEMMA HistoryHolds == HistorySpec => []HistoryInv
<1> QED BY InitHistory, StepHistory, PTL DEF HistorySpec

\* However many calls share the session: as long as no import, login, logout or
\* late answer replaces it under a call's feet, and no renewal overtakes the
\* last attempt of another call, only what the provider refused, or a login
\* could not validate, is renewed or reported as expired (o2/api.py:635-664).
THEOREM GoodSessionsStay == HistorySpec => []GoodSessionsAreLeftAlone
<1>1. HistoryInv => GoodSessionsAreLeftAlone
  <2> SUFFICES ASSUME HistoryInv, ~crossed PROVE GoodSessionsAreLeftAlone
    BY DEF GoodSessionsAreLeftAlone
  <2>1. ASSUME NEW c \in Callers, lock = c, request[c].pc \in {"oauth", "queue", "browsing"}
        PROVE  request[c].session \in rejected
    <3>1. Recovers(request[c])
      BY <2>1, Facts DEF Shaped
    <3> QED BY <2>1, <3>1, RenewsWhatWasRefused
  <2>2. expiry.key = None \/ \E s \in rejected : s.key = expiry.key
    BY Facts DEF Expired
  <2> QED BY <2>1, <2>2 DEF GoodSessionsAreLeftAlone
<1> QED BY <1>1, HistoryHolds, PTL

\* The refresh lock is held by one call at a time, the one that recovers, and
\* by nobody else: no step of a recovery leaves it behind or runs without it.
OneRecovery ==
    \A c \in Callers : lock = c <=> Recovers(request[c])

THEOREM RecoveriesExclude == HistorySpec => []OneRecovery
<1>1. HistoryInv => OneRecovery
  BY Facts DEF OneRecovery, Shaped
<1> QED BY <1>1, HistoryHolds, PTL
=============================================================================
