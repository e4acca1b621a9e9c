----------------------------- MODULE Downloads -----------------------------
(***************************************************************************)
(* GET of one file: the router announces a range from the metadata it      *)
(* reads first (webdav/router.py), then opens the body (open_read), which  *)
(* comes from the local copy of a recent upload, from the provider through *)
(* the first of several URLs that works (O2CloudApiClient.download), or,   *)
(* for the simulated store, from a file of the local disk.                 *)
(*                                                                         *)
(* A file is its size and a version; a byte is a version and a position.   *)
(* PUTs of the same path land between any two steps of a GET; URLs are     *)
(* refused, expire, or break while they stream.                            *)
(***************************************************************************)
EXTENDS Integers, Sequences, SequencesExt

CONSTANTS
    Readers,     \* concurrent GETs
    MaxSize,     \* bound: the largest file, in bytes
    MaxVersions, \* bound: contents a file has in a behaviour
    MaxGets,     \* bound: GETs in a behaviour
    Stores,      \* the stores to serve from: "o2", "simulated"
    None         \* "no value"

ASSUME DownloadsAssumption ==
    /\ MaxSize \in Nat /\ MaxVersions \in Nat \ {0} /\ MaxGets \in Nat
    /\ Stores \subseteq {"o2", "simulated"}
    /\ None \notin {"direct", "resolved", "native"}

Urls == {"direct", "resolved", "native"}

VARIABLES
    store,   \* the store that serves
    file,    \* what the file holds
    entry,   \* the overlay's word on it: a copy, an upload without one, or none
    has,     \* the URLs the provider's listing gives for the file
    cached,  \* self._download_urls[id]
    get,     \* the state of each GET
    gets     \* GETs begun so far

vars == <<store, file, entry, has, cached, get, gets>>

-----------------------------------------------------------------------------
(* Ranges.  parse_range yields nothing for a whole file, <<s, e>>,         *)
(* <<s, None>> for "s-", or <<-n, None>> for the last n bytes, "-n".       *)

Positions == 0..MaxSize
Ranges == {<<s, e>> : s \in Positions, e \in Positions \cup {None}}
          \cup {<<-n, None>> : n \in 1..MaxSize}
Suffix(r) == r # None /\ r[1] < 0

AtMost(a, b) == IF a < b THEN a ELSE b
AtLeast(a, b) == IF a > b THEN a ELSE b

\* _range_bounds: the first and last byte the router announces.
Bounds(r, size) ==
    <<IF r[1] < 0 THEN AtLeast(0, size + r[1]) ELSE r[1],
      IF r[2] = None \/ r[2] >= size THEN size - 1 ELSE r[2]>>

\* What a response announces: its range, or the whole file.
Announced(r, size) == IF r = None THEN <<0, size - 1>> ELSE Bounds(r, size)

\* _read_local_file: a suffix is taken for "from 0".
LocalBounds(r, size) ==
    IF r = None THEN <<0, size - 1>>
    ELSE <<AtLeast(0, r[1]),
           IF r[2] = None THEN size - 1 ELSE AtMost(size - 1, r[2])>>

\* _normalize_range of the simulated store.
SimulatedBounds(r, size) ==
    IF size = 0 THEN <<0, -1>>
    ELSE IF r = None THEN <<0, size - 1>>
    ELSE LET b == Bounds(r, size) IN
         IF b[1] >= size THEN <<size, size - 1>>
         ELSE IF b[2] < b[1] THEN <<b[1], b[1] - 1>> ELSE b

\* The Range header of download: none only for an empty file read whole.
Asked(r, size) == IF r = None /\ size > 0 THEN <<0, size - 1>> ELSE r

\* What a provider makes of it: a range that is none ("-5-", "5-2") is
\* ignored, one that begins past the end is refused (416).
Malformed(r) == r[1] < 0 \/ (r[2] # None /\ r[2] < r[1])
Refuses(r, size) == r # None /\ ~Malformed(r) /\ r[1] >= size
ProviderBounds(r, size) ==
    IF r = None \/ Malformed(r) THEN <<0, size - 1>> ELSE Bounds(r, size)

Bytes(v, b) == [n \in 1..AtLeast(0, b[2] - b[1] + 1) |-> <<v, b[1] + n - 1>>]

-----------------------------------------------------------------------------
Idle == [pc |-> "idle", range |-> None, seen |-> None, urls |-> <<>>, retried |-> FALSE,
         asked |-> None, left |-> <<>>, body |-> <<>>, broke |-> FALSE, raced |-> FALSE]

FileType == [size : Positions, v : 1..MaxVersions]

Init ==
    /\ store \in Stores
    /\ file \in [size : Positions, v : {1}]
    /\ entry = None
    /\ has \in SUBSET {"direct", "native"}
    /\ cached = None
    /\ get = [c \in Readers |-> Idle]
    /\ gets = 0

At(c, pc) == get[c].pc = pc
Goto(c, r) == get' = [get EXCEPT ![c] = r]
Ends(c, how) == Goto(c, [get[c] EXCEPT !.pc = how, !.urls = <<>>, !.left = <<>>])

\* _get reads the metadata, and with it the range and the size to announce.
Get(c, r) ==
    /\ At(c, "idle") /\ gets < MaxGets
    /\ Goto(c, [Idle EXCEPT !.pc = "open", !.range = r, !.seen = file])
    /\ gets' = gets + 1
    /\ UNCHANGED <<store, file, entry, has, cached>>

\* open_read, with what the path holds by then.
OpenCopy(c) ==
    LET r == get[c] IN
    /\ At(c, "open") /\ store = "o2" /\ entry = "copy"
    /\ Goto(c, [r EXCEPT !.pc = "streaming",
                         !.left = Bytes(file.v, LocalBounds(r.range, file.size))])
    /\ UNCHANGED <<store, file, entry, has, cached, gets>>

OpenEmpty(c) ==
    /\ At(c, "open") /\ store = "o2" /\ entry = "upload" /\ file.size = 0
    /\ Ends(c, "done")
    /\ UNCHANGED <<store, file, entry, has, cached, gets>>

OpenSimulated(c) ==
    LET r == get[c] IN
    /\ At(c, "open") /\ store = "simulated"
    /\ Goto(c, [r EXCEPT !.pc = "streaming",
                         !.left = Bytes(file.v, SimulatedBounds(r.range, file.size))])
    /\ UNCHANGED <<store, file, entry, has, cached, gets>>

\* download: the URL that worked last, the listing's, the resolved one (if
\* resolve_download_url has one) and the native one; each only once.
OpenRemote(c) ==
    LET r == get[c] IN
    /\ At(c, "open") /\ store = "o2" /\ entry # "copy"
    /\ entry = "upload" => file.size > 0
    /\ Goto(c, [r EXCEPT !.pc = "resolve", !.asked = Asked(r.range, file.size),
                         !.urls = IF cached = None THEN <<>> ELSE <<cached>>])
    /\ UNCHANGED <<store, file, entry, has, cached, gets>>

\* Mutant: the URL that worked last is tried again as the listing's.
OfferAgain(urls, u, available) == IF u \in available THEN Append(urls, u) ELSE urls

Offer(urls, u, available) ==
    IF u \in available /\ ~Contains(urls, u) THEN Append(urls, u) ELSE urls

Candidates(first, available) ==
    Offer(Offer(Offer(first, "direct", available), "resolved", available),
          "native", available)

Resolve(c) ==
    LET r == get[c] IN
    /\ At(c, "resolve")
    /\ \E resolved \in SUBSET {"resolved"} :
          Goto(c, [r EXCEPT !.pc = "connect", !.urls = Candidates(r.urls, has \cup resolved)])
    /\ UNCHANGED <<store, file, entry, has, cached, gets>>

\* _download_url: the answer begins, with the bytes the provider has now.
Connect(c) ==
    LET r == get[c] IN
    /\ At(c, "connect") /\ r.urls # <<>> /\ ~Refuses(r.asked, file.size)
    /\ Goto(c, [r EXCEPT !.pc = "streaming",
                         !.left = Bytes(file.v, ProviderBounds(r.asked, file.size))])
    /\ UNCHANGED <<store, file, entry, has, cached, gets>>

\* A refused session is renewed, and the URL tried again, once.
Renew(c) ==
    LET r == get[c] IN
    /\ At(c, "connect") /\ r.urls # <<>> /\ ~r.retried
    /\ Goto(c, [r EXCEPT !.retried = TRUE])
    /\ UNCHANGED <<store, file, entry, has, cached, gets>>

\* Mutant: a connection that breaks ends the body as if it were complete.
AfterFailureDone(r) == [r EXCEPT !.urls = Tail(@), !.pc = IF r.body # <<>> THEN "done" ELSE "connect",
                                 !.left = <<>>, !.retried = FALSE, !.broke = r.body # <<>>]

\* Whatever goes wrong with a URL, 416 included, leads to the next one, from
\* the start of the range; what was sent is sent.
AfterFailure(r) == [r EXCEPT !.urls = Tail(@), !.pc = "connect", !.left = <<>>,
                             !.retried = FALSE, !.broke = @ \/ r.body # <<>>]

\* Mutant: a URL that was refused keeps its place, and its renewal.
RefusedAgain(c) ==
    /\ At(c, "connect") /\ get[c].urls # <<>>
    /\ Goto(c, [get[c] EXCEPT !.retried = FALSE])
    /\ cached' = None
    /\ UNCHANGED <<store, file, entry, has, gets>>

Refused(c) ==
    /\ At(c, "connect") /\ get[c].urls # <<>>
    /\ Goto(c, AfterFailure(get[c]))
    /\ cached' = None
    /\ UNCHANGED <<store, file, entry, has, gets>>

Remote(r) == r.urls # <<>>

Breaks(c) ==
    /\ At(c, "streaming") /\ Remote(get[c])
    /\ Goto(c, AfterFailure(get[c]))
    /\ cached' = None
    /\ UNCHANGED <<store, file, entry, has, gets>>

\* Mutant: a local copy is opened anew for every chunk.
InPlaceAlways == TRUE

\* The next bytes.  The simulated store reads the file in place, as it is.
InPlace == store = "simulated"
Holds(b) == b[2] < file.size
Read(b) == IF InPlace THEN <<file.v, b[2]>> ELSE b

Chunk(c) ==
    LET r == get[c] IN
    /\ At(c, "streaming") /\ r.left # <<>>
    /\ InPlace => Holds(Head(r.left))
    /\ Goto(c, [r EXCEPT !.left = Tail(@), !.body = Append(@, Read(Head(r.left)))])
    /\ UNCHANGED <<store, file, entry, has, cached, gets>>

\* The end of the body: of what there was to send, or of the file.
Complete(c) ==
    LET r == get[c] IN
    /\ At(c, "streaming")
    /\ r.left # <<>> => InPlace /\ ~Holds(Head(r.left))
    /\ cached' = IF Remote(r) THEN Head(r.urls) ELSE cached
    /\ Ends(c, "done")
    /\ UNCHANGED <<store, file, entry, has, gets>>

\* No URL is left: an error, or a response that breaks off.
Fail(c) ==
    /\ At(c, "connect") /\ get[c].urls = <<>>
    /\ Ends(c, "failed")
    /\ UNCHANGED <<store, file, entry, has, cached, gets>>

\* The client has its answer, or goes away in the middle of it.
Leave(c) ==
    /\ ~At(c, "idle")
    /\ Goto(c, Idle)
    /\ UNCHANGED <<store, file, entry, has, cached, gets>>

\* A PUT of the path is stored, over the same media or as a new one.
Put(size) ==
    /\ file.v < MaxVersions
    /\ file' = [size |-> size, v |-> file.v + 1]
    /\ entry' \in IF store = "o2" THEN {"copy", "upload"} ELSE {None}
    /\ cached' \in {cached, None}
    /\ get' = [c \in Readers |-> [get[c] EXCEPT !.raced = ~At(c, "idle")]]
    /\ UNCHANGED <<store, has, gets>>

\* The listing has caught up with it, or its entry or its copy has gone.
Settles ==
    /\ entry # None
    /\ entry' \in {"upload", None} \ {entry}
    /\ UNCHANGED <<store, file, has, cached, get, gets>>

Continue(c) ==
    \/ OpenCopy(c) \/ OpenEmpty(c) \/ OpenSimulated(c) \/ OpenRemote(c)
    \/ Resolve(c) \/ Connect(c) \/ Renew(c) \/ Refused(c) \/ Breaks(c)
    \/ Chunk(c) \/ Complete(c) \/ Fail(c)

Next ==
    \/ \E c \in Readers :
          \/ \E r \in Ranges \cup {None} : Get(c, r)
          \/ Continue(c) \/ Leave(c)
    \/ \E size \in Positions : Put(size)
    \/ Settles

Spec == Init /\ [][Next]_vars

\* Every coroutine goes on: the provider answers, or the call times out.
FairSpec == Spec /\ \A c \in Readers : WF_vars(Continue(c))

-----------------------------------------------------------------------------
TypeOK ==
    /\ store \in Stores /\ file \in FileType
    /\ entry \in {"copy", "upload", None}
    /\ has \in SUBSET {"direct", "native"} /\ cached \in Urls \cup {None}
    /\ gets \in 0..MaxGets
    /\ \A c \in Readers : LET r == get[c] IN
          /\ r.pc \in {"idle", "open", "resolve", "connect", "streaming", "done", "failed"}
          /\ r.range \in Ranges \cup {None} /\ r.asked \in Ranges \cup {None}
          /\ r.seen \in FileType \cup {None}
          /\ ToSet(r.urls) \subseteq Urls /\ IsInjective(r.urls)
          /\ ToSet(r.left) \cup ToSet(r.body) \subseteq (1..MaxVersions) \X Positions
          /\ r.retried \in BOOLEAN /\ r.broke \in BOOLEAN /\ r.raced \in BOOLEAN

\* What the response of c promises, as bytes of the content whose metadata
\* it was computed from.
Promised(c) == Bytes(get[c].seen.v, Announced(get[c].range, get[c].seen.size))

\* Ranges that the O2 store does not carry out: the last n bytes, and from a
\* provider that ignores them, ranges that end before they begin.
Unserved(r) == store = "o2" /\ r # None /\ Malformed(r)

\* A GET that ends well has sent the bytes it announced, all of them and in
\* order, unless a PUT of the path landed meanwhile; what came from a URL
\* that broke off may stand before them, nothing else.
AnnouncedIsServed ==
    \A c \in Readers : LET r == get[c] IN
        r.pc = "done" /\ ~r.raced /\ ~Unserved(r.range) =>
            /\ IsSuffix(Promised(c), r.body)
            /\ ~r.broke => r.body = Promised(c)

\* The body of a GET over O2 that no URL broke is all of one content, even
\* when PUTs overlap it.
OneContent ==
    \A c \in Readers : LET r == get[c] IN
        store = "o2" /\ ~r.broke =>
            \A m, n \in DOMAIN r.body : r.body[m][1] = r.body[n][1]

\* Every GET comes to an end: no file has more than a few URLs, each is left
\* for good when it fails, and a session is renewed once for each.
EveryGetEnds == \A c \in Readers : get[c].pc # "idle" ~> get[c].pc \in {"idle", "done", "failed"}

=============================================================================
