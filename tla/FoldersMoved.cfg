SPECIFICATION Spec
CONSTANTS
    Dirs = {a, b}
    FolderIds = {1, 2, 3}
    FileIds = {11, 12}
    Clients = {c1}
    Kinds = {"MKCOL", "MOVE", "PUT"}
    Attempts = 2
    MaxRequests = 5
    MaxLost = 0
    Restarts = FALSE
    None = None
    Unsure = Unsure
    DupName = DupName
INVARIANTS
    FileSurvivesMoves
\* Requests are bounded.
CHECK_DEADLOCK FALSE
