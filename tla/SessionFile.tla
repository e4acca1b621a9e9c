---------------------------- MODULE SessionFile ----------------------------
(***************************************************************************)
(* The files behind the session store (o2/session.py, session_crypto.py):  *)
(* the stored session of CloudSession is one variable there, and two files *)
(* here, a plain one and an encrypted one, of which an operation changes   *)
(* first one and then the other.  The process may be killed between any    *)
(* two steps, and start again with another key, or without one.            *)
(*                                                                         *)
(* Each operation runs without awaiting anything, so one runs at a time.   *)
(* A file is replaced in one step (os.replace); what a killed write leaves *)
(* is a temporary file that nothing reads.                                 *)
(***************************************************************************)
EXTENDS Integers

CONSTANTS
    Keys,        \* encryption keys an administrator may configure
    MaxSessions, \* bound: sessions saved
    None         \* "no value"

ASSUME SessionFileAssumption ==
    /\ MaxSessions \in Nat
    /\ None \notin Keys /\ None \notin Nat
    /\ None \notin [key : Keys, session : 1..MaxSessions]

VARIABLES
    key,      \* self.box
    plain,    \* the session in o2-session.json, a number or None
    enc,      \* the one in o2-session.json.enc, with the key that encrypted it
    op,       \* the operation that runs
    made,     \* sessions saved so far
    may,      \* what a read may answer
    shadowed  \* was a plain session in use without a key, beside an encrypted one?

vars == <<key, plain, enc, op, made, may, shadowed>>

Idle == [pc |-> "idle", kind |-> "none", session |-> None]

Init ==
    /\ key \in Keys \cup {None}
    /\ plain = None /\ enc = None /\ op = Idle
    /\ made = 0 /\ may = {None} /\ shadowed = FALSE

\* What _read_path makes of the files: the plain one is read first, and an
\* encrypted one needs its key.
Readable == IF plain # None THEN plain
            ELSE IF enc # None /\ enc.key = key THEN enc.session ELSE None

\* _read_path hides a file it cannot decrypt.
Unreadable == plain = None /\ enc # None /\ enc.key # key

-----------------------------------------------------------------------------
\* Mutant: what is saved without a key goes to the encrypted file.
WritesAlwaysEnc(s) ==
    enc' = [key |-> key, session |-> s] /\ UNCHANGED plain

Writes(s) ==
    IF key # None THEN enc' = [key |-> key, session |-> s] /\ UNCHANGED plain
    ELSE plain' = s /\ UNCHANGED enc

SaveBegins ==
    /\ op = Idle /\ made < MaxSessions
    /\ made' = made + 1
    /\ op' = [pc |-> "write", kind |-> "save", session |-> made + 1]
    /\ may' = may \cup {made + 1}
    /\ UNCHANGED <<key, plain, enc, shadowed>>

\* Mutant: the plain file goes first.
SaveUnlinksFirst ==
    /\ op.pc = "write"
    /\ IF key # None /\ plain # None
       THEN plain' = None /\ UNCHANGED <<enc, op, shadowed>>
       ELSE /\ Writes(op.session)
            /\ shadowed' = (key = None /\ enc # None)
            /\ op' = [op EXCEPT !.pc = "end"]
    /\ UNCHANGED <<key, made, may>>

\* Mutant: the plain file stays.
SaveKeepsPlain ==
    /\ op.pc = "write"
    /\ Writes(op.session)
    /\ shadowed' = (key = None /\ enc # None)
    /\ op' = [op EXCEPT !.pc = "end"]
    /\ UNCHANGED <<key, made, may>>

\* save: the new file, ...
SaveWrites ==
    /\ op.pc = "write"
    /\ Writes(op.session)
    /\ shadowed' = (key = None /\ enc # None)
    /\ op' = [op EXCEPT !.pc = IF key # None /\ plain # None THEN "unlink" ELSE "end"]
    /\ UNCHANGED <<key, made, may>>

\* ... then the plain one goes when the new one is encrypted.
SaveUnlinks ==
    /\ op.pc = "unlink"
    /\ plain' = None
    /\ op' = [op EXCEPT !.pc = "end"]
    /\ UNCHANGED <<key, enc, made, may, shadowed>>

\* The write fails (no space, no permission): the caller gets the error, and
\* the files stay as they were.
SaveFails ==
    /\ op.pc = "write"
    /\ op' = Idle
    /\ may' = may \ (IF op.kind = "save" THEN {op.session} ELSE {})
    /\ UNCHANGED <<key, plain, enc, made, shadowed>>

\* The operation is answered.
Ends ==
    /\ op.pc = "end"
    /\ op' = Idle
    /\ may' = {op.session}
    /\ UNCHANGED <<key, plain, enc, made, shadowed>>

\* read: a plain session is encrypted on the way when there is a key.
Read ==
    /\ op = Idle
    /\ IF plain # None /\ key # None
       THEN /\ op' = [pc |-> "write", kind |-> "read", session |-> plain]
            /\ UNCHANGED may
       ELSE /\ may' = IF Unreadable THEN may ELSE {Readable}
            /\ UNCHANGED op
    /\ shadowed' = (shadowed \/ (key = None /\ plain # None /\ enc # None))
    /\ UNCHANGED <<key, plain, enc, made>>

\* delete: the plain file, ...
DeleteBegins ==
    /\ op = Idle
    /\ plain' = None
    /\ op' = [pc |-> "forget", kind |-> "delete", session |-> None]
    /\ may' = may \cup {None}
    /\ UNCHANGED <<key, enc, made, shadowed>>

\* ... then the encrypted one.
DeleteEnds ==
    /\ op.pc = "forget"
    /\ enc' = None /\ shadowed' = FALSE
    /\ op' = [op EXCEPT !.pc = "end"]
    /\ UNCHANGED <<key, plain, made, may>>

\* The process is killed and starts again.
Restart(k) ==
    /\ key' = k /\ op' = Idle
    /\ UNCHANGED <<plain, enc, made, may, shadowed>>

Next ==
    \/ SaveBegins \/ SaveWrites \/ SaveUnlinks \/ SaveFails \/ Ends
    \/ Read \/ DeleteBegins \/ DeleteEnds
    \/ \E k \in Keys \cup {None} : Restart(k)

Spec == Init /\ [][Next]_vars

-----------------------------------------------------------------------------
Sessions == 1..MaxSessions

TypeOK ==
    /\ key \in Keys \cup {None}
    /\ plain \in Sessions \cup {None}
    /\ enc \in [key : Keys, session : Sessions] \cup {None}
    /\ op \in [pc : {"idle", "write", "unlink", "end", "forget"},
               kind : {"none", "save", "read", "delete"}, session : Sessions \cup {None}]
    /\ made \in 0..MaxSessions
    /\ may \subseteq Sessions \cup {None}
    /\ shadowed \in BOOLEAN

\* A read answers with the last session that was saved, or with what an
\* interrupted save or delete may have left, and never again with an older
\* one: no kill loses a session or brings one back.  It may find nothing
\* where the key was changed; and where a plain session was in use without a
\* key while an older encrypted one lay beside it, a delete cut short uncovers
\* that one.
ReadsTheLastSaved ==
    op = Idle /\ ~Unreadable /\ ~shadowed => Readable \in may

\* Once an operation succeeded with a key, no plain session is left beside
\* the encrypted one.
EncryptedAtRest ==
    op.pc = "end" /\ key # None => plain = None

=============================================================================
