\* Requests served while a refresh of the catalog is under way.
SPECIFICATION ServiceSpec
CONSTANTS
    e1 = e1
    n1 = n1
    n2 = n2
    n3 = n3
    s1 = s1
    s2 = s2
    AutoRefresh = auto
    Global = global
    All = all
    Empty = empty
    Envs = {e1}
    Names = {n1, n2}
    Sources = {s1, s2}
    Handlers = {}
    GitHub = {s1}
    MaxCommit = 2
    NumTemplates = 2
    Absent = {}
    Broken = {}
    InitialRows <- OneRow
    InitialId = 3
    InitialRemote <- FirstCommit
    InitialDirs <- WarmDirs
    Rewinds = FALSE
    Refused = {}
    Strict = FALSE
    Periodic = FALSE
    ConfigFiles <- NoGlobals
    MaxRequests = 0
    MaxFaults = 0
    MaxCrashes = 0
    HalfDoneGit = FALSE
    Clients = {c1}
    Creates <- NewCatalogs
    Updates <- Edits
    Deletes <- Removals
    MaxCalls = 2
PROPERTIES RefreshKeepsEdits
CHECK_DEADLOCK FALSE
