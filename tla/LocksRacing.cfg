SPECIFICATION Spec
CONSTANTS
    Paths = {p}
    Clients = {c1, c2}
    Tokens = {t1, t2, t3}
    MinTimeout = 1
    MaxTimeout = 2
    Timeouts = {0, 3}
    MaxTime = 2
    None = None
SYMMETRY Alike
INVARIANTS
    TypeOK
    OneLockPerPath
    LocksLast
    WritesRespectLocks
\* Tokens and time are bounded.
CHECK_DEADLOCK FALSE
