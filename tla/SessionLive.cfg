SPECIFICATION Spec
CONSTANTS
    Callers = {keepalive}
    Keepalive = keepalive
    Media = {}
    Bundles = TRUE
    Admin = admin
    MaxSessions = 2
    None = None
PROPERTIES
    ExpiryIsAlerted
    RecoveryGoesOn
    EveryCallEnds
\* Without a session nothing is called, and sessions are bounded.
CHECK_DEADLOCK FALSE
