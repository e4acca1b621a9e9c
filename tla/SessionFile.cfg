SPECIFICATION Spec
CONSTANTS
    Keys = {k1, k2}
    MaxSessions = 4
    None = None
INVARIANTS
    TypeOK
    ReadsTheLastSaved
    EncryptedAtRest
