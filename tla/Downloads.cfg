SPECIFICATION FairSpec
CONSTANTS
    Readers = {r1}
    MaxSize = 2
    MaxVersions = 2
    MaxGets = 2
    Stores = {"o2", "simulated"}
    None = None
INVARIANTS
    TypeOK
    AnnouncedIsServed
    OneContent
PROPERTIES
    EveryGetEnds
\* GETs are bounded.
CHECK_DEADLOCK FALSE
