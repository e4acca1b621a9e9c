SPECIFICATION HistorySpec
CONSTANTS
    Callers = {keepalive, upload}
    Keepalive = keepalive
    Media = {upload}
    Bundles = TRUE
    Admin = admin
    MaxSessions = 2
    None = None
INVARIANTS
    TypeOK
    GoodSessionsAreLeftAlone
PROPERTIES
    KnownExpiredIsNotSent
\* Without a session nothing is called, and sessions are bounded.
CHECK_DEADLOCK FALSE
