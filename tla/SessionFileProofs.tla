-------------------------- MODULE SessionFileProofs --------------------------
(***************************************************************************)
(* No kill of the process loses a session or brings an older one back      *)
(* (module SessionFile), for any number of sessions and keys.              *)
(*                                                                         *)
(* What a read may answer is said of one value; the two files hold two.    *)
(* So the invariant speaks of both at all times: whatever lies in either   *)
(* file is an admissible answer, the encrypted one as long as no plain     *)
(* session was in use beside it, and an operation on its way knows what    *)
(* its first step left.                                                    *)
(***************************************************************************)
EXTENDS SessionFile, TLAPS

\* Whatever the files hold may be answered; and nothing, when they are gone.
FilesMayBeTold ==
    /\ plain # None => plain \in may
    /\ enc # None /\ ~shadowed => enc.session \in may
    /\ plain = None /\ enc = None => None \in may

\* Sessions are numbered in the order of their saves; one that is still to
\* be written is in neither file.
SavedBefore ==
    /\ plain # None => plain <= made
    /\ enc # None => enc.session <= made
    /\ op.pc = "write" /\ op.kind = "save" =>
          op.session = made /\ plain # made /\ (enc # None => enc.session # made)

\* What each step of an operation has left for the next.
OnItsWay ==
    /\ op.pc = "idle" => op = Idle
    /\ op.pc = "write" => op.session \in Sessions /\ op.session \in may
                          /\ op.kind \in {"save", "read"}
    /\ op.pc = "write" /\ op.kind = "read" => key # None /\ op.session = plain
    /\ op.pc = "unlink" => key # None /\ enc # None /\ enc.session = op.session
                           /\ ~shadowed
    /\ op.pc = "forget" => plain = None /\ op.session = None /\ None \in may
    /\ op.pc = "end" =>
          \/ op.session = None /\ plain = None /\ enc = None
          \/ key # None /\ plain = None /\ enc # None /\ enc.session = op.session
          \/ key = None /\ op.session \in Sessions /\ plain = op.session
             /\ (enc # None => shadowed)

FileInv == TypeOK /\ FilesMayBeTold /\ SavedBefore /\ OnItsWay

-----------------------------------------------------------------------------
\* An encrypted file is a record, never None.
LEMMA EncFields ==
  ASSUME NEW k \in Keys, NEW s \in Sessions
  PROVE  /\ [key |-> k, session |-> s] # None
         /\ [key |-> k, session |-> s] \in [key : Keys, session : Sessions]
  BY SessionFileAssumption DEF Sessions

\* Idle leaves no step of an operation behind.
LEMMA IdleFields ==
  /\ Idle.pc = "idle" /\ Idle.session = None
  /\ Idle \in [pc : {"idle", "write", "unlink", "end", "forget"},
               kind : {"none", "save", "read", "delete"}, session : Sessions \cup {None}]
  BY DEF Idle

LEMMA InitKeeps == Init => FileInv
<1> SUFFICES ASSUME Init PROVE FileInv
  OBVIOUS
<1>1. TypeOK
  <2>1. op \in [pc : {"idle", "write", "unlink", "end", "forget"},
                kind : {"none", "save", "read", "delete"}, session : Sessions \cup {None}]
    BY IdleFields DEF Init
  <2>2. made \in 0..MaxSessions
    BY SessionFileAssumption DEF Init
  <2>3. may \subseteq Sessions \cup {None} /\ shadowed \in BOOLEAN
    BY DEF Init
  <2>4. /\ key \in Keys \cup {None}
        /\ plain \in Sessions \cup {None}
        /\ enc \in [key : Keys, session : Sessions] \cup {None}
    BY DEF Init
  <2> QED BY <2>1, <2>2, <2>3, <2>4 DEF TypeOK
<1>2. FilesMayBeTold /\ SavedBefore
  BY IdleFields DEF Init, FilesMayBeTold, SavedBefore
<1>3. OnItsWay
  BY IdleFields DEF Init, OnItsWay
<1> QED BY <1>1, <1>2, <1>3 DEF FileInv

LEMMA SaveBeginsKeeps == FileInv /\ SaveBegins => FileInv'
  BY SessionFileAssumption
     DEF FileInv, TypeOK, FilesMayBeTold, SavedBefore, OnItsWay, Idle, SaveBegins, Sessions

LEMMA SaveWritesKeeps == FileInv /\ SaveWrites => FileInv'
<1> SUFFICES ASSUME FileInv, SaveWrites PROVE FileInv'
  OBVIOUS
<1>1. op.session \in Sessions /\ op.session \in may /\ op.session # None /\ op.session <= made
  BY SessionFileAssumption DEF FileInv, TypeOK, SavedBefore, OnItsWay, SaveWrites, Sessions
<1>2. CASE key # None
  <2>1. /\ enc' = [key |-> key, session |-> op.session] /\ plain' = plain /\ ~shadowed'
        /\ key \in Keys
    BY <1>2 DEF SaveWrites, Writes, FileInv, TypeOK
  <2>2. enc' # None /\ enc' \in [key : Keys, session : Sessions] /\ enc'.session = op.session
    BY <1>1, <2>1, EncFields
  <2> QED BY <1>1, <1>2, <2>1, <2>2, SessionFileAssumption
          DEF FileInv, TypeOK, FilesMayBeTold, SavedBefore, OnItsWay, SaveWrites
<1>3. CASE key = None
  BY <1>1, <1>3, SessionFileAssumption
     DEF FileInv, TypeOK, FilesMayBeTold, SavedBefore, OnItsWay, SaveWrites, Writes
<1> QED BY <1>2, <1>3

LEMMA SaveUnlinksKeeps == FileInv /\ SaveUnlinks => FileInv'
  BY SessionFileAssumption
     DEF FileInv, TypeOK, FilesMayBeTold, SavedBefore, OnItsWay, SaveUnlinks, Sessions

LEMMA SaveFailsKeeps == FileInv /\ SaveFails => FileInv'
<1> SUFFICES ASSUME FileInv, SaveFails PROVE FileInv'
  OBVIOUS
<1> USE SessionFileAssumption, IdleFields DEF FileInv, TypeOK, SaveFails
<1>1. TypeOK'
  BY DEF OnItsWay
<1>2. FilesMayBeTold'
  BY DEF FilesMayBeTold, SavedBefore, OnItsWay, Sessions
<1>3. SavedBefore'
  BY DEF SavedBefore, OnItsWay
<1>4. OnItsWay'
  BY DEF FilesMayBeTold, SavedBefore, OnItsWay, Sessions
<1> QED BY <1>1, <1>2, <1>3, <1>4

LEMMA EndsKeeps == FileInv /\ Ends => FileInv'
  BY SessionFileAssumption
     DEF FileInv, TypeOK, FilesMayBeTold, SavedBefore, OnItsWay, Ends, Sessions, Idle

LEMMA ReadKeeps == FileInv /\ Read => FileInv'
<1> SUFFICES ASSUME FileInv, Read PROVE FileInv'
  OBVIOUS
<1> USE SessionFileAssumption, IdleFields DEF FileInv, TypeOK, Read, Readable, Unreadable
<1>1. TypeOK'
  BY DEF OnItsWay
<1>2. FilesMayBeTold'
  BY DEF FilesMayBeTold, SavedBefore, OnItsWay, Sessions
<1>3. SavedBefore'
  BY DEF SavedBefore, OnItsWay
<1>4. OnItsWay'
  BY DEF FilesMayBeTold, SavedBefore, OnItsWay, Sessions
<1> QED BY <1>1, <1>2, <1>3, <1>4

LEMMA DeleteBeginsKeeps == FileInv /\ DeleteBegins => FileInv'
<1> SUFFICES ASSUME FileInv, DeleteBegins PROVE FileInv'
  OBVIOUS
<1> USE SessionFileAssumption, IdleFields DEF FileInv, TypeOK, DeleteBegins
<1>1. TypeOK'
  BY DEF OnItsWay
<1>2. FilesMayBeTold'
  BY DEF FilesMayBeTold, SavedBefore, OnItsWay, Sessions
<1>3. SavedBefore'
  BY DEF SavedBefore, OnItsWay
<1>4. OnItsWay'
  BY DEF FilesMayBeTold, SavedBefore, OnItsWay, Sessions
<1> QED BY <1>1, <1>2, <1>3, <1>4

LEMMA DeleteEndsKeeps == FileInv /\ DeleteEnds => FileInv'
  BY SessionFileAssumption
     DEF FileInv, TypeOK, FilesMayBeTold, SavedBefore, OnItsWay, DeleteEnds, Sessions

LEMMA RestartKeeps ==
  ASSUME NEW k \in Keys \cup {None}
  PROVE  FileInv /\ Restart(k) => FileInv'
  BY SessionFileAssumption
     DEF FileInv, TypeOK, FilesMayBeTold, SavedBefore, OnItsWay, Restart, Sessions, Idle

LEMMA StutterKeeps == FileInv /\ UNCHANGED vars => FileInv'
  BY DEF FileInv, TypeOK, FilesMayBeTold, SavedBefore, OnItsWay, vars, Sessions

LEMMA FilesTellTheLast == FileInv => ReadsTheLastSaved /\ EncryptedAtRest
  BY SessionFileAssumption
     DEF FileInv, TypeOK, FilesMayBeTold, OnItsWay, ReadsTheLastSaved, EncryptedAtRest,
         Readable, Unreadable, Sessions

LEMMA FileInvHolds == Spec => []FileInv
<1>1. Init => FileInv
  BY InitKeeps
<1>2. FileInv /\ [Next]_vars => FileInv'
  BY SaveBeginsKeeps, SaveWritesKeeps, SaveUnlinksKeeps, SaveFailsKeeps, EndsKeeps, ReadKeeps,
     DeleteBeginsKeeps, DeleteEndsKeeps, RestartKeeps, StutterKeeps DEF Next
<1> QED BY <1>1, <1>2, PTL DEF Spec

\* Every reachable state of the session files is well typed.
THEOREM FilesTyped == Spec => []TypeOK
<1>1. FileInv => TypeOK
  BY DEF FileInv
<1> QED BY <1>1, FileInvHolds, PTL

\* O2SessionStore (session.py: read, save, delete): whatever step the process
\* is killed at and whatever key it comes back with, a read answers with the
\* last session saved or with what the interrupted operation may have left.
THEOREM FilesHold == Spec => []ReadsTheLastSaved
  BY FilesTellTheLast, FileInvHolds, PTL

\* A save, read or delete that ends with a key configured leaves no plain
\* session on disk.
THEOREM NothingPlainAtRest == Spec => []EncryptedAtRest
  BY FilesTellTheLast, FileInvHolds, PTL

=============================================================================
