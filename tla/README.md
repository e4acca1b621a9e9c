# A verification of o2gateway in TLA+

`o2gateway` serves WebDAV (and an admin panel) on top of O2 Cloud or Movistar
Cloud. The provider is slow to catch up with itself: it validates an upload for
minutes, during which it refuses to overwrite, rename or trash it (`MED-1017`),
and its folder listings lag behind. The gateway hides that behind an in-memory
overlay with deferred work, keeps copies of recent uploads within a disk budget,
serves ranges of files from copies and from the provider, makes folders that the
provider would rather duplicate, grants WebDAV locks from a table, renews an
expiring login session on its own and keeps it encrypted on disk. This directory
models those parts, checks them with TLC and proves the most important facts
with TLAPS. Paths below are relative to
`src/src/o2gateway/`; `README.md:n` is the repository's own
README (`src/README.md`).

1. [Inventory](#inventory) 2. [Modules](#modules) 3. [Runs](#runs)
4. [Fairness](#fairness) 5. [Proofs](#proofs) 6. [Abstractions](#abstractions)
7. [Disagreements](#where-the-code-disagrees) 8. [Not modelled](#not-modelled)
9. [Plan](#plan)

## Inventory

Everything runs on one asyncio loop in one process; a coroutine keeps the loop
until it awaits something that really suspends (the network, the database's
thread, a lock, a timer). Concurrency is therefore between WebDAV requests, the
background tasks of the store, the keepalive and notification loops and the
admin's login job, interleaved at their awaits.

| Component | State | Operations | Hard behaviour | What makes it correct |
|---|---|---|---|---|
| **Store overlay** `o2/store.py` | `_overlay`, `_path_to_item`, `_hidden_remote_ids`, `_background_tasks` (memory) and the metadata cache (SQLite) | `list`, `get_metadata`, `upload`, `delete`, `move`, the sweeps, deferred deletes and renames | listings and ids that lag; requests interleaved at awaits; retries while a media is validated; restart loses memory, not the cache | acknowledged writes are visible and survive; deleted files do not revive; deferred deletes trash only what was deleted, and happen |
| **Local copies** `o2/store.py` | entries' `local_path`, `_stranded_copies`, the spool directory | copy, reserve/evict, drop, sweep, purge at start | unlinks that fail, copies cut half way, overlapping requests, restarts | every file is accounted for; the budget holds; entries own their copy |
| **Folders** `o2/store.py`, `o2/api.py` | `_folder_locks`, `_path_to_item` | `create_folder`, `_item_for_path`, and `list`, `delete`, `move`, `upload` as far as they meet folders | concurrent MKCOLs (the provider makes `name (1)`), lost answers, items remembered for ever | one folder per path; no lock left behind; files stay where they were acknowledged |
| **Downloads** `webdav/router.py`, `o2/store.py`, `o2/api.py` | `_download_urls` | GET: `_get`, `open_read`, `download` | metadata read before the body; PUTs in between; URLs that expire or break off; four readings of one range | what is announced is served, of one content |
| **Listings** `o2/api.py`, `o2/movistar.py` | `_folder_candidates` | `list_folder`, `_load_files` | paging by offset while others add and remove files; several ids of a folder | each file once; none missed without cause |
| **Metadata cache** `persistence/metadata_cache.py` | rows with an expiry | `get`, `put`, `invalidate` | rows older than what the overlay knows | part of the overlay's properties |
| **Lock service** `webdav/locks.py` | the lock table | `create`, `release`, `release_path`, `assert_can_write`, `cleanup` | one handler is several transactions; expiry between them | locks are exclusive, last, and are respected |
| **WebDAV router** `webdav/router.py` | none of its own | one handler per method | calls store and locks in sequence | order of check, write and release |
| **Session recovery** `o2/api.py` | `_expired_key`, `_expired_at`, event, backoff, `_refresh_lock` | every API call, `_recover_session`, `recover_expired_session`, `_oauth_login`, `validate_session` | many calls refused at once; renewals racing admin and late answers; two nested locks | expired sessions are not used, good ones not renewed; recovery goes on; no call hangs |
| **Browser login** `o2/login.py` | `_browser_lock`, the key blocked for human intervention, the profile, the job | interactive, reactive and proactive login | one browser for all three | as above |
| **Session store** `o2/session.py`, `security/session_crypto.py` | a plain and an encrypted file | `read`, `save`, `delete` | killed between the two files; the key comes and goes; saves of stale sessions | a read answers with the last session; no plain one stays beside an encrypted one |
| **Loops and Telegram** `main.py`, `operations/telegram.py` | the last marker and attempt | keepalive, alerts | an expiry may begin or end while an alert is sent; delivery fails | every expiry is alerted, or passes |
| **Admin** `admin/router.py` | the quota cache | login, import, logout, quota, cache | replaces a session under running calls | as above |
| **Database** `persistence/db.py` | one connection | transactions | - | each statement is atomic (assumed) |
| **Simulated store** `cloud/simulated.py` | a directory | the store interface | rewrites a file in place under its readers | as *Downloads* |
| **The rest** | `cloud/base.py` (interface, paths), `webdav/parsing.py`, `webdav/xml.py`, `security/auth.py`, `settings.py`, `operations/*`, templates, container scripts | | no state that outlives a call, or pure I/O | `PROJECT.json` says of each what is modelled, or why it is not |

How they interact: the router asks the lock service, then calls the store; the
store calls the API client and the metadata cache; every API call goes through
the session recovery, which calls the browser login back and reads and writes
the session store; the notification loop waits on the API client's event; the
admin writes the session store directly and starts logins. `PROJECT.json` lists
the hazards found in this code, each at its line, with the properties aimed at
it.

## Modules

| Module | Models | State |
|---|---|---|
| `Overlay` | the overlay over one remote folder, the provider behind it and the clients before it | `overlay` = `_overlay`, `known` = `_path_to_item`, `hidden` = `_hidden_remote_ids`, `cache`, `tasks` = `_background_tasks`; `client[c]` is the local state of a request, `turn` who keeps the loop; `remote`, `listed`, `validating` are the provider's; `promise` remembers what was acknowledged, `crossed` the paths whose tombstone another media's delete has settled, or where a listing brought back a media that is being deleted |
| `OverlayProperties` | what clients may rely on | |
| `CloudFiles` | abstract: what a file store owes the account's media, without anything it remembers or defers | `media`, `doomed` the acknowledged deletes, `request` the writes in flight, `mistaken` the paths where a media may be taken for another |
| `OverlayRefinement` | the refinement mapping from `Overlay` to `CloudFiles` | |
| `OverlayProofs` | theorems about the overlay: its deletes, what acknowledged writes and deletes may count on, what clients see, and the refinement | |
| `Folders`, `FoldersProofs` | one level of folders with a file in each, the provider and the clients | `folder`, `file` the provider's; `known` = `_path_to_item` of folders, `child` what a file path resolves to without a listing, `holder` = `_folder_locks`, `client[c]` a request; `excused`, `promise`, `moved` remember what happened |
| `Downloads`, `DownloadsProofs` | GETs of one file under PUTs | `file` what the path holds, `entry` the overlay's word on it, `has` and `cached` the URLs, `get[c]` a GET's progress with the bytes left and sent |
| `Listings`, `ListingsProofs` | the listing of a folder, page by page, in both clients | `listed` what the provider lists now, each entry with its place, `read` the loop's state, `stayed`, `been`, `added`, `removed` what happened since it began |
| `SessionFile`, `SessionFileProofs` | the two files of the session store, one step at a time | `key`, `plain`, `enc`, `op` the operation that runs, `may` what a read may answer |
| `LocalCopies`, `LocalCopiesProofs` | the spool of recent uploads and its budget | `overlay` (entries with a copy), `stranded` = `_stranded_copies`, `disk` the directory, `stuck` what the system refuses to delete |
| `WebDavLocks`, `WebDavLocksProofs` | the lock table under the requests that use it | `locks` the table, `now` the clock, `held` what clients were told, `used` the tokens given out; `contested` the locks granted in a race and a request's `late` those granted after its look (history only) |
| `CloudSession` | calls, recovery, renewal, logins, admin and alerts over one session | `stored` the session file, `alive` what the provider accepts, `expiry` = `_expired_key`, the event and the backoff, `lock` and `browser` the two locks, `blocked` and `profile` of the login service, `request[c]` a call's progress, `alert` the notification loop |
| `SessionHistory` | `CloudSession` with a memory of refusals | `rejected`, `crossed` (history only) |
| `CloudSessionProofs` | theorems about both | |
| `MC*` | the instances the runs use | |

`CloudFiles` is the specification of which `Overlay` is an implementation: a
media is written only for a PUT in flight of the path it is named after and never
once it is doomed, save on a path where one delete was taken for another (`Trash`)
or where a listing brought back what was being deleted (`Recall`; see
[below](#where-the-code-disagrees) for both); it is trashed only for an acknowledged
DELETE of that path.
The mapping is plain: the provider's media are themselves, the doomed ones are
those a background task is to trash, the writes are those of the requests. Moves
have no place in it (a rename changes names under deletes that wait), so the run
that checks it has none.

`CloudSession` and `SessionFile` share the stored session: one variable there, two
files here. `Overlay` knows one folder and treats a listing as one answer;
`Folders` adds the levels above it, `Listings` takes the answer apart, and
`Downloads` reads what the overlay and the provider hold.

An action is the code between two awaits that suspend. In `Overlay` a stretch of
code that takes several actions keeps `turn`, so nothing else runs within it. In
`WebDavLocks` every statement on the table is an action, preceded by the cleanup
the code does. In `CloudSession` a call goes `sent -> accepted | refused ->
locks -> oauth -> queue -> browsing -> closing`, which are exactly its awaits;
the provider's verdict (`Serves`) and the arrival of the answer
(`Accepted`/`Refused`) are separate, so an answer can be overtaken. In `Folders` a
listing is asked for in one step and put to use in another. In `SessionFile`
nothing awaits, and the steps are the calls to the file system, where the process
can be killed.

A definition whose comment begins with "Mutant:" is not part of a model: it is
a plausible bug, used to show that a property can fail. `PROJECT.json` pairs each
property with one.

## Runs

| Run | Question | Size |
|---|---|---|
| `OverlaySequential` | One request at a time on one path, 6 of them out of PUT, DELETE, LIST, STAT, with retries that succeed and a listing that lags at will: `TypeOK`, `PutVisible`, `DeletedNeverRevives`, `TrashOnlyWhatWasDeleted` | 241k states |
| `OverlayConcurrent` | Two clients on two paths, one writer per path, failing retries, restarts: `AckedWriteSurvives`, `TombstoneHides`, and the refinement `FilesImplemented` | 923k |
| `OverlayLive` | Two clients with moves, overlapping writes of a path and expiring entries, under fairness: `DeleteNotForgotten`, `DeleteReachesRemote`, `EveryRequestEnds` | 91k |
| `CopiesSequential` | One writer per path, stuck files, failed copies, expiry, restarts: `TypeOK`, `NothingUntracked`, `UsageWithinLimit`, `CopiesAreServable`, `OldestFirst` | 102k (up to symmetry) |
| `Folders` | Two clients, two folders, every kind of request, one lost answer, a restart, under fairness: `TypeOK`, `OneFolderPerPath`, `LockIsHeld`, `AckedFileSurvives`, `EveryRequestEnds` | 173k |
| `FoldersMoved` *(violated)* | One client, one request at a time, with MOVE: `FileSurvivesMoves` | |
| `Downloads` | A GET of every range of every file, over every set of URLs, with a PUT anywhere, under fairness: `TypeOK`, `AnnouncedIsServed`, `OneContent`, `EveryGetEnds` | 415k |
| `Listings` | Listings of up to four entries (up to five with those added) in pages of two, any of the pictures in both of Movistar's listings, with two changes and a failure anywhere: `TypeOK`, `MissesNoMoreThanWereRemoved`, `EachFileOnce` | 4.2M |
| `LocksRacing` | Two clients racing LOCK, UNLOCK and every write on one path, time and restarts anywhere: `TypeOK`, `OneLockPerPath`, `LocksLast`, `WritesRespectLocks` | 1.8M (up to symmetry) |
| `SessionShared` | The keepalive and an upload sharing a session under revocation, import, logout and logins: `TypeOK`, `KnownExpiredIsNotSent`, `GoodSessionsAreLeftAlone` | 1.9M |
| `SessionLive` | The keepalive, the admin's login and the notifier under fairness: `ExpiryIsAlerted`, `RecoveryGoesOn`, `EveryCallEnds` | 44k |
| `SessionFile` | Four sessions, two keys or none, a kill and another key anywhere: `TypeOK`, `ReadsTheLastSaved`, `EncryptedAtRest` | 7k |

Bounds and why they are enough. *Overlay*: six sequential requests hold
PUT-DELETE-PUT-DELETE with reads in between, the longest pattern the validation
window makes interesting; four ids let each of those be a media of its own; two
sizes tell a stale listing from a fresh one, which is all the code compares; two
clients on two paths give every pair of overlapping requests; `OverlayConcurrent`
needs only two ids, one for the seeded media and one for its successor or rival. *LocalCopies*:
three paths and files with sizes 1 and 2 against a limit of 3 make room,
eviction, and refusal all happen; one stuck file and two requests in flight are
the least that interact. *WebDavLocks*: three tokens allow a lock, its successor
and a rival; the locks of different paths have only the cleanup and the lookup of
a token in common, so one path holds the races (the proofs cover any number);
timeouts below and above the range exercise the clamp; time runs
past the shortest. *CloudSession*: two sessions, the one that goes and the one
that comes; a renewal may keep the key, so both kinds of change occur; the
keepalive (which also renews proactively) and an upload (which retries twice)
are the two kinds of call. *Folders*: three requests are a pair that races and
one that finds what they left; two folders are a source and a destination;
`FoldersMoved` needs four requests and has five. *Downloads*: files of 0 to 2
bytes have a first, a last and no byte; every range within and just past them is
tried; two contents and two GETs are one before and one after. *Listings*: pages
of two let an entry cross a boundary either way, and three pages leave a last
page full, short or empty; of the two pictures neither, one or both may be in
Movistar's media listing as well. *SessionFile*: two keys are the right one and the
wrong one; the fourth session meets every state the first three can leave. No run can stop by a real deadlock unseen: deadlock
checking is off only because requests, sessions, tokens or uploads are bounded
and everything then comes to rest; that requests end is `EveryRequestEnds`,
`EveryGetEnds` and `EveryCallEnds`. `SessionFile` can always restart, and is
checked for deadlock.

What the properties rule out is stated above each definition. One condition
deserves a word: *one writer per path* (`SharedWrites = FALSE`) is what WebDAV
clients that lock before they write ensure; `OverlayLive` lifts it. Requests for
locks race freely; the properties of `WebDavLocks` say of each lock whether it
was granted in a race (`contested`), since the service does not prevent one
(see [below](#where-the-code-disagrees)).

## Fairness

- `Overlay`: weak fairness of every request's next step and of every background
  task (asyncio runs what is ready; the provider answers or the call times out),
  and of the end of every validation (the provider validates what it accepted).
  Retry budgets are assumed to last in `OverlayLive` (`Failures = FALSE`).
- `CloudSession`: weak fairness of each call's steps, of the keepalive loop's
  next call, of the end of a backoff, and of the notification loop; strong
  fairness of taking either lock, since asyncio's locks are first come, first
  served; strong fairness of an OAuth renewal and of a Telegram delivery, that
  is, neither is refused for ever. Nothing is assumed of the browser (it may
  fail every time) or of the admin, save that a login job ends, as its deadline
  makes it (`o2/login.py:261-300`).

- `Folders`: weak fairness of every request's next step; strong fairness of taking
  the lock of a path (asyncio's locks are first come, first served).
- `Downloads`: weak fairness of every GET's next step: the provider answers, or
  the call times out, which is a failure of the URL. Nothing is assumed of the
  client, which may leave at any time, or of any URL, which may fail every time.

## Proofs

All proofs are for arbitrary constants within the named assumptions
(`ConstantsAssumption`, `NoneIsNoRecord`, `NoneIsNoWrite`, `TimesAssumption`,
`SizesAssumption`, `NoEntry`, `SessionAssumption`, `SessionFileAssumption`, `FoldersAssumption`,
`DownloadsAssumption`, `ListingsAssumption`), which TLC evaluates in the runs. They say that sets are
finite where the code counts, that counters and bounds are numbers, that names
given to different things differ, and that `None` is no value. What the runs
choose by a flag (`SharedWrites`, `Failures`, `Expiry`) or by the
`Kinds` of requests is a hypothesis of a theorem where it needs it. Each
component's type correctness is a theorem of its own (`TypeCorrect`, `CopiesTyped`, `FoldersTyped`, `GetsTyped`, `ListingsTyped`, `FilesTyped`,
`LocksTyped`, `SessionTyped`): none of the `TypeOK`s is inductive, since what a
step may use of its request depends on where the request is. The others:

- `OverlayProofs!DeletesAreTracked` - while retry budgets last
  (`ASSUME ~Failures`), no tombstone hides a live media whose delete nobody
  owes, whatever the interleaving, moves, expiry and restarts.
  `DeleteNotForgotten` alone is not inductive: an upload could bring to life the
  media of an old tombstone if ids were reused. `IdsInUse` says that every id
  anything remembers was given out before; `DeletesInv` is their conjunction.

  Where nothing moves (`"MOVE" \notin Kinds`), for any
  number of clients, paths, ids and requests: a tombstone's media is hidden as
  long as the tombstone stands (`TombstonesHide`). With one writer per path
  (`~SharedWrites`) and entries that do not expire (`~Expiry`), what was
  acknowledged stays stored (`AckedWritesSurvive`), and the overlay implements
  `CloudFiles` (`OverlayImplementsFiles`), whatever the listing shows, retries
  do and restarts cut. None of the three is inductive. The invariant,
  `StoreSound`, gives every media one path for life, its home `h`, and says that
  whatever an entry, a remembered item, a listing, a request or a task holds at a
  path is at home there (`AtHome`), an unused media having none (`Homeless`);
  that requests write different paths (`Alone`); what is owed stays out of reach
  (`Debts`): the media of an acknowledged delete is hidden and remembered by
  nobody (`Buried`), owed once (`OwedOnce`), and not the one a request is about to
  write or to delete (`FreeAims`); and that what was uploaded is live, with its
  content, and owed to nobody while its request publishes it (`Written`) and
  afterwards (`Kept`). The refinement then follows step by step: an upload is an
  `Upload`, the answer of a delete a `Delete`, any other answer an `End`, a deferred
  delete a `Trash`, one given up a `Drop`, a listing's write-back a `Recall`, a new
  PUT or DELETE a `Begin`, a restart a `Crash`, and all else a stutter. `~Expiry` is
  a real hypothesis: the sweep of an expired tombstone unhides a media whose
  delete may still be owed, so a PUT can find it and write it before it is
  trashed. In the code a tombstone's life and the budget of its delete are the
  same setting (`settings.py:93-95`), so this happens only to a last attempt that
  is answered late.

  What clients see is proved of one client whose requests follow one another
  (`Clients = {w}`), without moves, expiry and restarts and on an account with one
  file per path (`OneSeedPerPath`), for any number of paths, ids, requests,
  failures and lagging listings: what a PUT wrote is served until the next write
  (`PutsVisible`), what a DELETE removed is not (`DeletedFilesStayDeleted`), and a
  deferred delete trashes that content and no later one (`TrashesOnlyTheDeleted`,
  where sizes tell contents apart, `SizesTell`: the store compares nothing else).
  To `StoreSound` the invariant adds how far a listing can lag (`Lags`: of a live
  media the provider now lists what the request saw or what is true), that LIST's
  copy of the overlay still says what the overlay does (`CopyFits`), that entry, remembered item, cache row and what listings show
  unhidden at a path are about one media (`PathSound`), and that a task trashes
  only a hidden media, of the size deleted (`TasksSound`). With two clients the
  second of these is false, which is how a LIST writes back what a DELETE removed
  ([below](#where-the-code-disagrees)).
- `LocalCopiesProofs` - `CopiesServed` (`CopiesAreServable`, overlapping writers
  included); with one writer per path `CopiesTracked` (`NothingUntracked`) and
  `UsageHolds` (`UsageWithinLimit`); and the action property `OldestFirst`
  (`EvictionsInOrder`). Servability needs every copy on its way into an entry to
  be nobody else's; the budget is a sum over the files of a directory of any
  size: removing and adding one element (induction over finite sets, with the
  goal as a set of its own, not as a parameter) gives the lemmas that relate what
  `reserve` counts to what is on disk.
- `WebDavLocksProofs` - for any number of clients, paths and tokens, and however
  their requests race: two locks of a path are active at once only if both were
  granted in a race (`LocksHold`), any other lasts until it expires or is given
  up (`LocksAreKept`), and a write of another client is then under way at its
  path only if it was let through before (`LocksAreRespected`). `LocksInv` says
  what a request still knows after its look at the table: who is about to insert
  finds only locks granted since (`InsertsIntoFree`), who was let through to
  write or delete finds only those, the ones it presented and contested ones
  (`WritesKnowLocks`), whoever makes or drops a lock makes what it does not know
  contested (`LateIsContested`), and no two clients know the same token
  (`TokensApart`). That a table with an active lock has one that expires last
  (`LatestIsThere`) needs it to be finite.
- `SessionFileProofs` - for any keys and any number of sessions, however often
  the process is killed: `ReadsTheLastSaved` (`FilesHold`) and `EncryptedAtRest`
  (`NothingPlainAtRest`). What a read answers is one value, the files hold two,
  so `FileInv` speaks of both at all times: whatever lies in either is an
  admissible answer (`FilesMayBeTold`), a session that is still to be written
  lies in neither (`SavedBefore`), and an operation knows what its first step
  left (`OnItsWay`).
- `FoldersProofs` - `LockIsHeld` (`CreationsExclude`) and `OneFolderPerPath`
  (`OneFolder`), for any number of clients, folders, requests, lost answers and
  restarts. A request that takes or leaves the lock must have a path, and a
  lookup must never lead into the creation. Uniqueness is a matter of counting:
  a folder under a second name is excused, or owed to one under the right name
  that is excused, and `FolderInv` says which request may still add to either
  side and what it knows of the provider when it does. `AckedFilesSurvive`
  (`AckedFileSurvives`) needs to know where folders come from: `HomeInv` gives
  every folder a home, the path it was made for, and says of every path that no
  MOVE has named that the folder remembered for it, the file remembered in it,
  and what a request is about to write, move or trash there are at home at that
  path (`KnownHome`, `ChildHome`, `RequestsHome`), and that what was promised
  there is stored in a live folder at home there (`PromisesHome`). A request for
  one path thus never touches the file of another, and one for the same path is
  the next write.
- `DownloadsProofs` - `OneContent` (`BodiesAreWhole`) and `AnnouncedIsServed`
  (`AnnouncedBytesAreSent`), for files, ranges and GETs of any number and size.
  The bytes of a body are decided when it is opened, so `ContentInv` adds that
  what is left to send is of the content already sent, and that a GET which is
  between URLs has sent nothing unless one broke; for `AnnouncedIsServed` the
  bytes left and the bytes sent are together those announced, at every step and
  for each way the router and the provider read the range.
- `ListingsProofs` - `EachFileOnce` (`FilesListedOnce`) and
  `MissesNoMoreThanWereRemoved` (`ListingsMissFew`), for folders, pages, ids,
  changes and failures of any number. What a loop has asked for is a prefix of
  what the provider lists, so an entry that leaves moves at most one other over
  the end of the prefix, unread, and one that enters moves at most one out of it,
  to be met again. `CountInv` counts both: the files that slipped past (`Missed`)
  are at most those removed, in the first and in the second listing together (a
  picture may be in both), and the entries that will be met again (`Again`) at
  most those added. A loop that
  stops at a page which brings nothing new relies on the second: were that page
  full, of read or stray entries, as many must have been added, which `Fair`
  excludes. `PastInv` carries this from one id to the next, `DoneInv` to the end.
  Ranks are counted (`Below`), so that the entries of a page have the ranks of its
  offsets is the pigeonhole principle and not an induction.
- `CloudSessionProofs` - `KnownExpiredIsNotSent` (`ExpiredIsNotSent`),
  `GoodSessionsAreLeftAlone` (`GoodSessionsStay`) and, as the lemma the others
  turn on, that the refresh lock has exactly one owner (`RecoveriesExclude`), for
  any number of calls and sessions. The first compares what is sent with the key
  that was known to have expired before the step, since sending clears the flag;
  only the call that has just renewed the session may go on under that key, as
  OAuth may keep it and a login saves before its browser closes (`Renewed`).
  `HistoryInv` says where a session comes from:
  every key was given out before its session is anywhere (`KeysGiven`), a call is
  where its step says with the session that belongs there (`Shaped`, `Placed`),
  and what is flagged, refused or about to be renewed is among the rejected
  (`Expired`). The attempt found a case that two sessions (`MaxSessions = 2`,
  as in `SessionShared`) are too few for: see _the expiry is recorded for the key
  that is stored_ [below](#where-the-code-disagrees). The property says so
  now, and the theorem is for any number of them.

Most invariants were given to TLC before they were proved, as invariants of the
run of their component.

Model-checked only: liveness, which is out of this prover's reach
(`DeleteReachesRemote`, `ExpiryIsAlerted`, `RecoveryGoesOn`, and that every
request, call and GET ends).

## Abstractions

*Overlay.* One flat folder, already resolved. An upload, rename or trash takes
effect at the provider when its answer is processed; a listing answer is what
the provider shows when it is asked. The listing catches up one media at a time.
The cache's invalidations land when issued, its puts when awaited. A STAT served
from the overlay or the cache changes nothing; a refused MOVE (`Overwrite: F`) is
a STAT of the destination. A negative cache row reads as none, as in the code. A
listing tells a file's content by its size only. Not modelled: answers without an
id, errors of the transport.

*Folders.* Folders of one level, one file name in each. Their rows in the
metadata cache are left out (a stale one turns a request away, or sends it to a
lookup that does the same). The provider refuses to rename over a name in use,
and to touch what is in the trash; it gives a new media the folder named by the
upload and an overwritten one either that or its old one; its ids are not used
again. `create_folder` sends its four forms of the request `Attempts` times. A
listing of the root shows it all at once; one of a folder's files is one step.
Tombstones, validation windows and lagging listings of the files are `Overlay`'s
business. The subfolders a listing shows do not lag. What the code says of lag it
says of media: they are validated late, and the listing is slow to show the file
(`o2/store.py:23-26`, `o2/api.py:254-255`). Of folders it assumes the opposite:
they have no overlay entry and a deleted one no tombstone (`o2/store.py:206-210`),
and a created one whose answer had no id is looked for once (`o2/api.py:235`),
where a file is looked for again and again (`o2/api.py:308`). Should folders lag
too, a new one would be hidden from a gateway that restarts, which might make a
second, and a deleted one would seem to be there; the properties of `Folders` say
nothing of that case.

*Downloads.* A byte is a version and a position, a chunk is one byte. Metadata and
bounds are those the path has when they are read. The provider serves what it
holds when the answer begins, ignores a range that is none (`bytes=-5-`, `5-2`)
and refuses one past the end. `AnnouncedIsServed` leaves out the ranges the O2
store passes on wrongly (`Unserved`) and GETs that a PUT overlapped (`raced`).

*Listings.* The provider lists in an order of its own, a place for each entry,
into which new files enter anywhere; what a listing has read is kept as how often
each entry is in it, since the code sorts it in the end; pages are full but the last; Movistar says truthfully whether there is
more. Which pictures Movistar's media listing shows besides its picture listing
is fixed while the folder is read, and arbitrary: the code asks both and leaves
out what it has read (`o2/movistar.py:62-63`). Subfolders come in one answer, and an entry without a name or an id is one
of those a request without fields brings (`bare`). The loops end at 100000
entries (`Pages`).

*SessionFile.* `os.replace` and `unlink` are atomic and last (the write is synced
before); an unlink does not fail. What a key does not decrypt reads as nothing.

*LocalCopies.* Sizes are small numbers; entries expire in the order of their
uploads; an expired entry is dropped by a look of its own; two DELETEs of one
path count once; files are not deleted by others.

*WebDavLocks.* Two cleanups in a row are one step. The resource itself is left
out: a write is the step between check and release. Not modelled: the refusal of
a LOCK refresh, ignored paths (`.DS_Store` and the like), the read-only setting.
The destination of a MOVE is not checked by the code, so not by the model.

*CloudSession.* A session is its key and its creation time; cookies and the
rotation of the OAuth bundle are left out, but that an answer may save the
session it was sent with is kept. Backoff and renewal age are "lies ahead" or
not, at any time. A browser login captures a new key; an interactive one may
capture the stored one, and may fail to validate it. The admin imports sessions
the provider accepts. The throttle of `notify_session_expired` never outlasts
the sleep of its loop (both are `max(5, retry)`), so it is dropped. A process
restart begins with any stored session and profile, as `Init` says. The job
state the coordinator shows is left out.

## Where the code disagrees

One run finds the code doing other than what the repository says; its `finding`
quotes the line.

- `FoldersMoved`: MOVE of a folder leaves the entries and remembered items of the
  files below its old path (`o2/store.py:243-249`). A PUT to one of those paths,
  in a folder made anew, takes the media of the file that was moved and
  overwrites it.

The next six show when a run lifts the condition or the bound named; the runs
above keep it.

- DELETE, PUT, DELETE of one path: the first media's deferred delete settles the
  second media's tombstone (`o2/store.py:559-562` compares no ids). That file may
  come back, and a PUT that finds it writes over a media which its own deferred
  delete then trashes: an acknowledged PUT is lost, although `o2/store.py:25-26`
  says that the deferred work is there to be correct later. One client suffices,
  with DELETE, PUT, PUT, DELETE, PUT. Such paths (`crossed`) are exempt from
  `PutVisible`, `DeletedNeverRevives`, `AckedWriteSurvives` and
  `TrashOnlyWhatWasDeleted`, and the refinement calls them `mistaken`; without
  that, `AckedWriteSurvives` fails in a run like `OverlaySequential`.
- DELETE while a LIST is under way: the LIST copied the overlay before
  (`o2/store.py:67`) and writes the deleted file's item back to `_path_to_item`
  (`o2/store.py:94`), without looking whether it is hidden by now. A later PUT of
  the path finds it there, overwrites the media, is acknowledged, and the deferred
  delete of that media trashes the new content. It takes two clients, three ids
  and some seven requests, more than the runs have: the proof of
  `AckedWritesSurvive` could not be closed without it. Such paths are `crossed`
  too, and `mistaken` in the refinement.
- MOVE of a file leaves nothing at its source, so a PUT there, while the listing
  lags, overwrites the moved file (`o2/store.py:519`): `AckedWriteSurvives` fails
  with MOVE among the `Kinds` of `OverlayConcurrent`.
- A PUT landing inside a DELETE's await leaves its copy on disk, unaccounted,
  until a restart (`o2/store.py:192-200`; `README.md:509` says copies stay within
  `CACHE_MAX_SIZE_MB`): `NothingUntracked` and `UsageWithinLimit` fail with
  `SharedWrites = TRUE`.
- Two LOCKs of one path are both granted the lock when each looks before the other
  inserts (`webdav/locks.py:31-39`), though `webdav/xml.py:52-53` announces it as
  exclusive; and a lock granted while a DELETE of its path is under way is dropped
  when that one ends (`webdav/locks.py:42-47`, `webdav/router.py:81-83`). Such
  locks are `contested`, and exempt from `OneLockPerPath` (two of them),
  `LocksLast` and `WritesRespectLocks`; each fails without that.
- A write that was let through goes on when another client is granted the lock
  before it ends: `WritesRespectLocks` excuses it (`late`).

Others were met while modelling and have no run of their own.

- A DELETE of a folder that answers late forgets the path, whatever was made
  there in between (`o2/store.py:207-208`): a creation that meets one may make a
  second folder, so `OneFolderPerPath` excuses it like one whose answer was lost.
- MOVE of a listed file over another listed file deletes the destination first,
  which leaves a tombstone there, and then renames the source without dropping
  it (`o2/store.py:229-248`): the destination reads as 404 for a while.
- A PUT after PUT and DELETE inside the validation window makes a duplicate
  `name (1)` at the provider, as the API's own comment explains
  (`o2/api.py:250-252`).
- A LIST that began before a PUT may write its older cache row after it
  (`o2/store.py:67,88`); the overlay entry hides the row while it lives.
- Negative cache rows are written but never served
  (`persistence/metadata_cache.py:18-28`, `README.md:506`).
- `bytes=-5` on a file with a local copy announces the last five bytes and
  streams the whole file (`webdav/router.py:311-317`, `o2/store.py:604-620`); on
  one without, the provider is asked for `bytes=-5-`, which is no range
  (`o2/api.py:524-525`).
- A URL that breaks off after some bytes were sent is followed by the next one,
  from the start of the range: the client gets those bytes twice
  (`o2/api.py:382-390`).
- A 416 of one URL is taken for a failure of that URL, and of the last for a 502
  (`o2/api.py:388-391`), whatever the comment at `o2/api.py:529-530` is after.
- The simulated store rewrites a file in place (`cloud/simulated.py:76`), under
  the GETs that read it.
- A page of entries without names, or of folder-like ones only, ends the O2
  listing early (`o2/api.py:505`).
- `read` of a plain session fails when the save that would encrypt it fails
  (`o2/session.py:58-59`).
- A session saved without a key leaves an older encrypted one beside it
  (`o2/session.py:62-67`); a delete cut short then uncovers that one.
- A late answer saves the session it was sent with over a renewed, imported or
  logged-out one (`o2/api.py:771-772`; `README.md:219-220` says logout removes
  it). `GoodSessionsAreLeftAlone` is therefore stated up to such a save.
- An expiry is recorded for the key that is stored, not for the one refused
  (`o2/api.py:96`); after a logout that is the empty key. And when a renewal,
  under the lock, overtakes the second attempt of another call, that attempt's
  refusal reports the good new session as expired: `GoodSessionsAreLeftAlone` is
  stated up to that too (`LastAttempt`). It takes three sessions to happen.
- A login that captures the stored key and cannot reach the provider to validate
  it flags that session as expired (`o2/api.py:157-161`), though the comment at
  `o2/api.py:80` speaks of a 401 or 403.
- Calls that waited for the refresh lock start a recovery of their own as soon
  as the previous one has failed, whatever the backoff (`o2/api.py:647`).
- A Telegram message whose answer times out is sent again.

## Not modelled

`PROJECT.json` gives the reason for each component. What is left of the larger
ones: the parsing of the provider's answers (`o2/api.py:835-1135`) and what the
browser captures (`o2/login.py`), conversions of shapes that only the provider
defines; answers to an upload without an id, and `_find_and_delete_remote` with
them; PROPFIND, HEAD and the HTML listing, which read what `list` and
`get_metadata` return; the admin's pages and its quota cache, whose only promise
is a time to live; authentication, settings, logging and container scripts, which
keep no state.

## Plan

Done, in this order: the overlay with its type and delete proofs, the local
copies, the lock table, the session, the folders, the abstract file store and
its refinement, downloads, listings, the session's files; and the proofs of
what each of them does. What would add most from here:

1. *Router composition*: locks and overlay together, so that a write that holds
   a lock is never undone by another client's; the destination of a MOVE.
2. *Quota cache* of the admin panel (collapsed reads, time to live), and the
   simulated store as a second implementation of `CloudFiles`.
3. *Proofs*: `PutVisible` and `DeletedNeverRevives` of the overlay for several
   clients on paths of their own, once the code compares ids where a task settles
   a tombstone and where a LIST writes back.
