--------------------------- MODULE SessionHistory ---------------------------
(***************************************************************************)
(* CloudSession with a memory of what the provider has refused, to say     *)
(* that recoveries leave good sessions alone.                              *)
(***************************************************************************)
EXTENDS CloudSession

VARIABLES
    rejected, \* sessions that were refused, or that a login could not validate
    crossed   \* has a save replaced a session it did not start from, one that
              \* other calls were using, or under the lock one that another
              \* call was trying for the last time?

\* The calls that take the step, and those of them that are refused.
Movers == {c \in Actors : request'[c] # request[c]}
Rejections ==
    {request[c].session : c \in {c \in Movers : request'[c].pc = "refused"}}
        \cup {stored : c \in {c \in Movers : /\ request[c].pc = "browsing"
                                             /\ request'[c].pc = "browsing"}}

\* If what d has sent is refused, the session stored by then is reported.
LastAttempt(d) == request[d].pc \in {"sent", "refused"} /\ request[d].tries = 1

Crosses ==
    /\ stored' # stored
    /\ \/ Movers = {} /\ \E d \in Actors : Busy(d)
       \/ \E c \in Movers :
             \/ request[c].pc = "accepted"
             \/ lock = c /\ request[c].session # stored
             \/ lock # c /\ \E d \in Actors \ {c} : Busy(d)
             \/ \E d \in Callers \ {c} : LastAttempt(d)

History ==
    /\ crossed' = (crossed \/ Crosses)
    /\ rejected' = IF crossed' THEN {} ELSE rejected \cup Rejections

HistorySpec ==
    /\ Init /\ rejected = {} /\ crossed = FALSE
    /\ [][Next /\ History]_<<vars, rejected, crossed>>

-----------------------------------------------------------------------------
\* Calls that share a session share its renewal: unless something replaced a
\* session under a call's feet, or a renewal overtook the last attempt of
\* another call, only what the provider refused, or a login could not
\* validate, is renewed or reported as expired.
GoodSessionsAreLeftAlone ==
    ~crossed =>
        /\ \A c \in Callers : lock = c /\ request[c].pc \in {"oauth", "queue", "browsing"} =>
              request[c].session \in rejected
        /\ expiry.key = None \/ \E s \in rejected : s.key = expiry.key

=============================================================================
