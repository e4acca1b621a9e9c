---------------------------- MODULE CloudSession ----------------------------
(***************************************************************************)
(* The provider's session: how o2/api.py uses, renews and gives up the one *)
(* stored on disk, how the browser logins of o2/login.py and the admin     *)
(* panel replace it, and how main.py tells the user that it has expired.   *)
(*                                                                         *)
(* All of it runs on one asyncio loop, so a step ends where the code       *)
(* awaits something: an answer, a lock, a timer.  A session is known by    *)
(* its validation key and its creation time; what an answer may change in  *)
(* it (cookies, a rotated OAuth bundle) is left out, that it is saved then *)
(* is not.                                                                 *)
(***************************************************************************)
EXTENDS Naturals

CONSTANTS
    Callers,     \* coroutines that call the API
    Media,       \* those that upload or download
    Keepalive,   \* the one of keep_session_alive
    Admin,       \* the job of O2LoginCoordinator
    Bundles,     \* do sessions carry an OAuth bundle?
    MaxSessions, \* bound: sessions the provider ever gives out
    None

NoKey == 0                 \* the validation key of no session
Keys == 1..MaxSessions
Session == [key : Keys, made : 1..MaxSessions]

ASSUME SessionAssumption ==
    /\ MaxSessions \in Nat \ {0}
    /\ Keepalive \in Callers /\ Media \subseteq Callers \ {Keepalive}
    /\ Admin \notin Callers /\ Bundles \in BOOLEAN
    /\ None \notin Session \cup Callers \cup {Admin} \cup Nat

Actors == Callers \cup {Admin}

Expiry ==
    [key : Keys \cup {NoKey, None}, \* _expired_key
     event : BOOLEAN,               \* _session_expired_event
     backoff : BOOLEAN]             \* _next_recovery_attempt lies ahead

Request ==
    [pc : {"idle", "sent", "accepted", "refused", "locks", "oauth",
           "queue", "browsing", "closing"},
     kind : {"api", "media", "proactive", "login"},
     why : {"rejected", "expired"}, \* what the recovery is for
     tries : {0, 1},                \* is it the second attempt?
     session : Session \cup {None}, \* the one sent, or being recovered
     prev : Keys \cup {NoKey}]      \* the key the browser is not to capture

Alert ==
    [pc : {"waiting", "sending", "sleeping"},
     mine : BOOLEAN,     \* expired_at is still the marker of the expiry
     told : BOOLEAN]     \* _last_expiry_marker is the current marker

VARIABLES
    stored,   \* the session file
    made,     \* sessions given out so far
    alive,    \* keys the provider accepts
    expiry,   \* what the API client knows of an expiry
    lock,     \* _refresh_lock
    browser,  \* _browser_lock
    blocked,  \* _browser_recovery_blocked_for_key
    profile,  \* is there a browser profile?
    request,
    alert     \* notify_session_expirations and its TelegramNotifier

vars == <<stored, made, alive, expiry, lock, browser, blocked, profile, request, alert>>

Idle == [pc |-> "idle", kind |-> "api", why |-> "rejected", tries |-> 0,
         session |-> None, prev |-> NoKey]

\* A session and a browser profile may be left from an earlier process.
Init ==
    /\ \/ stored = None /\ made = 0 /\ alive = {}
       \/ stored = [key |-> 1, made |-> 1] /\ made = 1 /\ alive = {1}
    /\ expiry = [key |-> None, event |-> FALSE, backoff |-> FALSE]
    /\ lock = None /\ browser = None /\ blocked = NoKey /\ profile \in BOOLEAN
    /\ request = [c \in Actors |-> Idle]
    /\ alert = [pc |-> "waiting", mine |-> FALSE, told |-> FALSE]

-----------------------------------------------------------------------------
(* What the API client does at once, as functions of its expiry e and of   *)
(* the stored session s.                                                   *)

KeyOf(s) == IF s = None THEN NoKey ELSE s.key

\* _clear_session_expiry
Cleared == [key |-> None, event |-> FALSE, backoff |-> FALSE]

\* _mark_session_expired: the key that is stored by now.
Marked(e, s) ==
    IF e.key = KeyOf(s) THEN e ELSE [e EXCEPT !.key = KeyOf(s), !.event = TRUE]

\* session_expired_at
Checked(e, s) == IF e.key \notin {None, KeyOf(s)} THEN Cleared ELSE e

\* _require_session: does it return the stored session ...
MaySend(e, s) == s # None /\ s.key # e.key

\* ... and what it leaves of the expiry when it does.
Required(e) == IF e.key = None THEN e ELSE Cleared

\* A change of the expired key is a new marker, or none.
SetExpiry(e) ==
    /\ expiry' = e
    /\ alert' = IF e.key = expiry.key THEN alert
                ELSE [alert EXCEPT !.mine = FALSE, !.told = FALSE]

-----------------------------------------------------------------------------
(* Going on and giving up.                                                 *)

Busy(c) == request[c].pc # "idle"
Does(c, r) == request' = [request EXCEPT ![c] = r]

Sends(r, s) == [r EXCEPT !.pc = "sent", !.session = s, !.prev = NoKey]

\* The recovery has succeeded, as far as the call can tell.  An upload or a
\* download starts over, any other call insists on a session at once.
Proceeds(c, r, e, s) ==
    IF MaySend(e, s)
    THEN Does(c, Sends(r, s)) /\ SetExpiry(Required(e))
    ELSE /\ SetExpiry(e)
         /\ IF r.kind = "media" /\ r.why = "rejected" /\ s # None /\ ~e.backoff
            THEN Does(c, [r EXCEPT !.pc = "locks", !.why = "expired", !.session = None])
            ELSE Does(c, Idle)

\* After a rejection, a call that is not recovered flags the stored session.
\* Of the downloads, only those whose rejection carried a bundle do.
Refuses(c, r, e) ==
    /\ Does(c, Idle)
    /\ \/ SetExpiry(Marked(e, stored))
       \/ r.kind = "media" /\ SetExpiry(e)

\* _attempt_session_recovery is exhausted: _schedule_recovery_retry.
GivesUp(c, r) ==
    LET e == [expiry EXCEPT !.backoff = TRUE] IN
    IF r.why = "rejected" THEN Refuses(c, r, e) ELSE Does(c, Idle) /\ SetExpiry(e)

\* A session that is recovered goes by tries = 1 from then on, unless it was
\* known to have expired before the call sent anything.
Recovered(r) == IF r.why = "rejected" THEN [r EXCEPT !.tries = 1] ELSE r

\* The next session the provider gives out, in place of s.  A renewal may
\* keep the validation key.
NewSessions(s) ==
    {[key |-> k, made |-> made + 1] :
        k \in {made + 1} \cup (IF s = None THEN {} ELSE {s.key})}

Saves(s) ==
    /\ made < MaxSessions
    /\ stored' = s /\ made' = s.made /\ alive' = alive \cup {s.key}

-----------------------------------------------------------------------------
(* The call of an API operation, up to its answer.                         *)

\* Mutant: a session that is known to have expired is never tried again.
BeginOnlyIfGood(c) ==
    LET r == [Idle EXCEPT !.kind = IF c \in Media THEN "media" ELSE "api"] IN
    /\ ~Busy(c)
    /\ MaySend(expiry, stored) /\ Does(c, Sends(r, stored)) /\ SetExpiry(Required(expiry))
    /\ UNCHANGED <<stored, made, alive, lock, browser, blocked, profile>>

\* Mutant: what is known of the stored session is forgotten, and it is sent.
BeginRegardless(c) ==
    LET r == [Idle EXCEPT !.kind = IF c \in Media THEN "media" ELSE "api"] IN
    /\ ~Busy(c)
    /\ stored # None /\ Does(c, Sends(r, stored)) /\ SetExpiry(Required(expiry))
    /\ UNCHANGED <<stored, made, alive, lock, browser, blocked, profile>>

Begin(c) ==
    LET r == [Idle EXCEPT !.kind = IF c \in Media THEN "media" ELSE "api"] IN
    /\ ~Busy(c)
    /\ \/ MaySend(expiry, stored) /\ Does(c, Sends(r, stored)) /\ SetExpiry(Required(expiry))
       \/ /\ stored # None /\ ~MaySend(expiry, stored) /\ ~expiry.backoff
          /\ Does(c, [r EXCEPT !.pc = "locks", !.why = "expired"]) /\ SetExpiry(expiry)
    /\ UNCHANGED <<stored, made, alive, lock, browser, blocked, profile>>

\* The provider accepts or refuses what was sent; its answer is on the way.
Serves(c) ==
    LET s == request[c].session IN
    /\ request[c].pc = "sent"
    /\ \/ /\ s.key \in alive
          /\ Does(c, [request[c] EXCEPT !.pc = "accepted"])
       \/ /\ s.key \notin alive
          /\ Does(c, [request[c] EXCEPT !.pc = "refused"])
    /\ UNCHANGED <<stored, made, alive, expiry, lock, browser, blocked, profile, alert>>

\* silent_reauthenticate, up to the lock of the browser: may it try to
\* replace s?
MayBrowse(s) == profile /\ (blocked = NoKey \/ blocked # KeyOf(s))

\* Mutant: the block is reset to nothing at all.
UnblockedToNone(s) == IF blocked = KeyOf(s) THEN blocked ELSE None

\* A key other than that of s is no longer blocked.
Unblocked(s) == IF blocked = KeyOf(s) THEN blocked ELSE NoKey

Queues(r, s) == [r EXCEPT !.pc = "queue", !.prev = KeyOf(s)]

\* An answer may bring cookies or a bundle: the session that was sent is
\* saved then, whatever is stored by now.  The keepalive loop may find that
\* a proactive renewal is due.
Accepted(c) ==
    LET r == request[c] IN
    /\ r.pc = "accepted"
    /\ \E s \in {stored, r.session} :
          /\ stored' = s
          /\ \/ Does(c, Idle) /\ UNCHANGED blocked
             \/ /\ c = Keepalive /\ MayBrowse(s)
                /\ Does(c, Queues([Idle EXCEPT !.kind = "proactive"], s))
                /\ blocked' = Unblocked(s)
    /\ UNCHANGED <<made, alive, expiry, lock, browser, profile, alert>>

Refused(c) ==
    LET r == request[c] IN
    /\ r.pc = "refused"
    /\ IF r.tries = 0
       THEN Does(c, [r EXCEPT !.pc = "locks", !.why = "rejected"]) /\ SetExpiry(expiry)
       ELSE Refuses(c, r, expiry)
    /\ UNCHANGED <<stored, made, alive, lock, browser, blocked, profile>>

-----------------------------------------------------------------------------
(* _recover_session and recover_expired_session, under _refresh_lock, and  *)
(* _attempt_session_recovery: OAuth first, then the browser.               *)

\* The browser is next, or nothing is left to try.
Browses(c, r) ==
    /\ blocked' = Unblocked(stored)
    /\ IF MayBrowse(stored)
       THEN Does(c, Queues(r, stored)) /\ SetExpiry(expiry) /\ lock' = c
       ELSE GivesUp(c, r) /\ lock' = None

Attempts(c, r) ==
    IF Bundles
    THEN /\ Does(c, [r EXCEPT !.pc = "oauth", !.session = stored]) /\ SetExpiry(expiry)
         /\ lock' = c /\ UNCHANGED blocked
    ELSE Browses(c, [r EXCEPT !.session = stored])

\* Mutant: whoever gets the lock renews, even what was renewed meanwhile.
SameSessionAlways(s) == stored # None

\* Is the session that was refused still the stored one?
SameSession(s) == stored # None /\ stored.key = s.key /\ stored.made = s.made

LocksRejected(c) ==
    LET r == request[c] IN
    /\ r.pc = "locks" /\ r.why = "rejected" /\ lock = None
    /\ \/ /\ stored = None /\ Refuses(c, r, expiry)
          /\ UNCHANGED <<lock, blocked>>
       \/ /\ stored # None /\ ~SameSession(r.session)
          /\ Proceeds(c, Recovered(r), expiry, stored)
          /\ UNCHANGED <<lock, blocked>>
       \/ SameSession(r.session) /\ Attempts(c, r)
    /\ UNCHANGED <<stored, made, alive, browser, profile>>

LocksExpired(c) ==
    LET r == request[c] IN
    /\ r.pc = "locks" /\ r.why = "expired" /\ lock = None
    /\ \/ /\ expiry.backoff \/ stored = None
          /\ Does(c, Idle) /\ SetExpiry(expiry) /\ UNCHANGED <<lock, blocked>>
       \/ /\ ~expiry.backoff /\ stored # None /\ expiry.key # stored.key
          /\ Proceeds(c, r, Cleared, stored) /\ UNCHANGED <<lock, blocked>>
       \/ ~expiry.backoff /\ stored # None /\ expiry.key = stored.key /\ Attempts(c, r)
    /\ UNCHANGED <<stored, made, alive, browser, profile>>

\* _oauth_login: the provider renews the session, and it is saved.
OauthRenews(c) ==
    LET r == request[c] IN
    /\ r.pc = "oauth"
    /\ \E s \in NewSessions(r.session) :
          Saves(s) /\ Proceeds(c, Recovered(r), Cleared, s)
    /\ lock' = None
    /\ UNCHANGED <<browser, blocked, profile>>

OauthFails(c) ==
    /\ request[c].pc = "oauth"
    /\ Browses(c, request[c])
    /\ UNCHANGED <<stored, made, alive, browser, profile>>

-----------------------------------------------------------------------------
(* The browser: _login, under _browser_lock, for a recovery, a proactive   *)
(* renewal or the admin.                                                   *)

BrowserStarts(c) ==
    /\ request[c].pc = "queue" /\ browser = None
    /\ Does(c, [request[c] EXCEPT !.pc = "browsing"])
    /\ browser' = c /\ profile' = TRUE
    /\ UNCHANGED <<stored, made, alive, expiry, lock, blocked, alert>>

\* A session is captured, validated and saved.  A recovery insists on a new
\* key; a login may find the page still logged in with the stored one.
BrowserCaptures(c) ==
    LET r == request[c] IN
    /\ r.pc = "browsing"
    /\ \E s \in NewSessions(IF r.kind = "login" THEN stored ELSE None) :
          s.key \in (alive \cup {made + 1}) \ {r.prev} /\ Saves(s)
    /\ Does(c, [r EXCEPT !.pc = "closing"]) /\ SetExpiry(Cleared)
    /\ UNCHANGED <<lock, browser, blocked, profile>>

\* validate_session of the stored key fails: it was refused, or no probe got
\* through.  The login goes on without it.
LoginRejects ==
    /\ request[Admin].pc = "browsing" /\ stored # None /\ request[Admin].prev = NoKey
    /\ Does(Admin, [request[Admin] EXCEPT !.prev = stored.key])
    /\ SetExpiry(Marked(expiry, stored))
    /\ UNCHANGED <<stored, made, alive, lock, browser, blocked, profile>>

\* Mutant: the lock is not released when the recovery fails.
ReturnsHolding(c, r) ==
    IF lock = c THEN GivesUp(c, r) /\ lock' = lock
    ELSE Does(c, Idle) /\ SetExpiry(expiry) /\ UNCHANGED lock

\* The browser has failed: a recovery is exhausted.
Returns(c, r) ==
    IF lock = c THEN GivesUp(c, r) /\ lock' = None
    ELSE Does(c, Idle) /\ SetExpiry(expiry) /\ UNCHANGED lock

\* No session in time, or a page that asks for the user: then the browser
\* is not tried again for this key.
BrowserFails(c) ==
    LET r == request[c] IN
    /\ r.pc = "browsing"
    /\ \/ UNCHANGED blocked
       \/ r.kind # "login" /\ blocked' = r.prev
    /\ browser' = None /\ Returns(c, r)
    /\ UNCHANGED <<stored, made, alive, profile>>

\* The browser is closed; a recovery looks whether there is a session.
BrowserCloses(c) ==
    LET r == request[c] IN
    /\ r.pc = "closing"
    /\ browser' = None /\ blocked' = NoKey
    /\ IF lock = c /\ stored # None
       THEN Proceeds(c, Recovered(r), Cleared, stored) /\ lock' = None
       ELSE Returns(c, r)
    /\ UNCHANGED <<stored, made, alive, profile>>

-----------------------------------------------------------------------------
(* The admin panel, and the provider.                                      *)

\* O2LoginCoordinator.start: one job at a time.
LoginStarts ==
    /\ ~Busy(Admin)
    /\ Does(Admin, [Idle EXCEPT !.pc = "queue", !.kind = "login"])
    /\ UNCHANGED <<stored, made, alive, expiry, lock, browser, blocked, profile, alert>>

Import ==
    /\ \E s \in NewSessions(None) : Saves(s)
    /\ UNCHANGED <<expiry, lock, browser, blocked, profile, request, alert>>

\* Logout deletes the session and the browser's profile.
Logout ==
    /\ stored # None
    /\ stored' = None /\ blocked' = NoKey /\ profile' = FALSE
    /\ UNCHANGED <<made, alive, expiry, lock, browser, request, alert>>

Revoke(k) ==
    /\ k \in alive /\ alive' = alive \ {k}
    /\ UNCHANGED <<stored, made, expiry, lock, browser, blocked, profile, request, alert>>

\* time.monotonic() reaches _next_recovery_attempt.
BackoffEnds ==
    /\ expiry.backoff /\ expiry' = [expiry EXCEPT !.backoff = FALSE]
    /\ UNCHANGED <<stored, made, alive, lock, browser, blocked, profile, request, alert>>

-----------------------------------------------------------------------------
(* notify_session_expirations                                              *)

NotifierOnly == UNCHANGED <<stored, made, alive, lock, browser, blocked, profile, request>>

\* notify_session_expired, for the expiry e of marker a.mine, until it awaits.
Notifies(a) ==
    alert' = [a EXCEPT !.pc = IF a.told THEN "sleeping" ELSE "sending"]

\* wait_for_session_expiry: the event is consumed, and an expiry that no
\* longer applies is dropped.
NotifierWakes ==
    LET e == Checked(expiry, stored) IN
    /\ alert.pc = "waiting" /\ expiry.event
    /\ expiry' = [e EXCEPT !.event = FALSE]
    /\ IF e.key = None THEN alert' = [alert EXCEPT !.mine = FALSE, !.told = FALSE]
       ELSE Notifies([alert EXCEPT !.mine = TRUE])
    /\ NotifierOnly

\* Mutant: an expiry that came up while the alert was sent is forgotten.
NotifierSentForgets ==
    /\ alert.pc = "sending"
    /\ alert' = [alert EXCEPT !.pc = "waiting", !.told = alert.mine]
    /\ expiry' = [expiry EXCEPT !.event = FALSE] /\ NotifierOnly

NotifierSent ==
    /\ alert.pc = "sending"
    /\ alert' = [alert EXCEPT !.pc = "waiting", !.told = alert.mine]
    /\ UNCHANGED expiry /\ NotifierOnly

NotifierFails ==
    /\ alert.pc = "sending"
    /\ alert' = [alert EXCEPT !.pc = "sleeping"]
    /\ UNCHANGED expiry /\ NotifierOnly

\* After the sleep, the loop goes on while its marker is the current one.
NotifierRetries ==
    LET e == Checked(expiry, stored) IN
    /\ alert.pc = "sleeping"
    /\ expiry' = e
    /\ IF e.key # None /\ alert.mine THEN Notifies(alert)
       ELSE alert' = [alert EXCEPT !.pc = "waiting", !.mine = FALSE,
                                   !.told = alert.told /\ e.key # None]
    /\ NotifierOnly

-----------------------------------------------------------------------------
Recovery(c) ==
    \/ LocksRejected(c) \/ LocksExpired(c)
    \/ OauthRenews(c) \/ OauthFails(c)
    \/ BrowserStarts(c) \/ BrowserCaptures(c) \/ BrowserFails(c) \/ BrowserCloses(c)

Continue(c) == Serves(c) \/ Accepted(c) \/ Refused(c) \/ Recovery(c)

Notifier == NotifierWakes \/ NotifierSent \/ NotifierFails \/ NotifierRetries

Next ==
    \/ \E c \in Callers : Begin(c) \/ Continue(c)
    \/ BrowserStarts(Admin) \/ BrowserCaptures(Admin) \/ BrowserFails(Admin)
    \/ BrowserCloses(Admin) \/ LoginRejects
    \/ LoginStarts \/ Import \/ Logout \/ (\E k \in Keys : Revoke(k)) \/ BackoffEnds
    \/ Notifier

\* asyncio runs what can run, and its locks are first come, first served; the
\* keepalive loop calls again and again; what the network carries is answered
\* or times out.  The provider does not refuse every renewal for ever, nor
\* Telegram every message.
Fairness ==
    /\ \A c \in Callers :
          /\ WF_vars(Continue(c)) /\ SF_vars(LocksRejected(c) \/ LocksExpired(c))
    /\ \A c \in Actors : SF_vars(BrowserStarts(c))
    /\ WF_vars(BrowserCaptures(Admin) \/ BrowserFails(Admin) \/ BrowserCloses(Admin))
    /\ WF_vars(Begin(Keepalive)) /\ WF_vars(BackoffEnds)
    /\ SF_vars(\E c \in Callers : OauthRenews(c))
    /\ WF_vars(NotifierWakes \/ NotifierRetries) /\ WF_vars(NotifierSent \/ NotifierFails)
    /\ SF_vars(NotifierSent)

Spec == Init /\ [][Next]_vars /\ Fairness

-----------------------------------------------------------------------------
TypeOK ==
    /\ stored \in Session \cup {None} /\ made \in 0..MaxSessions /\ alive \subseteq Keys
    /\ expiry \in Expiry
    /\ lock \in Callers \cup {None} /\ browser \in Actors \cup {None}
    /\ blocked \in Keys \cup {NoKey} /\ profile \in BOOLEAN
    /\ request \in [Actors -> Request] /\ alert \in Alert

\* A session whose key is known to have expired when a call goes on is not sent
\* (api.py: "short-circuit every request instead of hammering O2"), but by the
\* call that has just renewed it: OAuth may keep the key, and a login saves the
\* session before its browser has closed.
KnownExpiredIsNotSent ==
    [][\A c \in Callers :
          request'[c].pc = "sent" /\ request[c].pc # "sent" =>
              \/ request'[c].session.key # expiry.key
              \/ request[c].pc = "oauth" /\ made' = made + 1
              \/ request[c].pc = "closing" /\ lock = c]_vars

\* The user is told of an expiry, or it passes.
ExpiryIsAlerted == expiry.key # None ~> (alert.told \/ expiry.key = None)

\* However often a recovery has failed, a session that OAuth can renew is
\* renewed in the end.
Renewable == Bundles /\ stored # None /\ stored.key \notin alive /\ made < MaxSessions
RecoveryGoesOn == Renewable ~> ~Renewable

\* No call waits for ever: neither lock is kept, nor waited for in a circle.
EveryCallEnds == \A c \in Actors : Busy(c) ~> ~Busy(c)

=============================================================================
