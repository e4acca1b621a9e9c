SPECIFICATION Spec
CONSTANTS
    Entries = {1, 2, 3, 4, 5}
    Pictures = {3, 4}
    Strays = {5}
    PageSize = 2
    Pages = 3
    Aliases = 2
    MaxListed = 4
    MaxChanges = 2
    MaxFailures = 1
INVARIANTS
    TypeOK
    MissesNoMoreThanWereRemoved
    EachFileOnce
\* A listing ends.
CHECK_DEADLOCK FALSE
