\* The automatic refresh, period after period, beside a refresh request: a pinned
\* global catalog that leaves the configuration, a push, a failure, git commands
\* that stop half way.
SPECIFICATION FairSpec
CONSTANTS
    e1 = e1
    n1 = n1
    n2 = n2
    s1 = s1
    AutoRefresh = auto
    Global = global
    All = all
    Empty = empty
    Envs = {e1}
    Names = {n1, n2}
    Sources = {s1}
    h1 = h1
    s2 = s2
    Handlers = {h1}
    GitHub = {s1}
    MaxCommit = 2
    NumTemplates = 2
    Absent <- None
    Broken <- None
    InitialRows <- OneNewRow
    InitialId = 3
    InitialRemote <- FirstCommit
    InitialDirs <- WarmBesidePins
    Rewinds = FALSE
    Refused = {}
    Strict = FALSE
    Periodic = TRUE
    ConfigFiles <- PinnedGlobalGoes
    MaxRequests = 1
    MaxFaults = 1
    MaxCrashes = 0
    HalfDoneGit = TRUE
PROPERTIES PinHolds RefreshKeepsCatalogs ConvergesUnfailing GlobalsFollowUnfailing
INVARIANTS OneRowPerCatalog
CHECK_DEADLOCK FALSE
