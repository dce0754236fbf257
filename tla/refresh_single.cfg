\* The periodic refresh alone, from a cold cache, with pushes, edits of the
\* configuration, failures and a crash between git commands.
SPECIFICATION FairSpec
CONSTANTS
    e1 = e1
    h1 = h1
    n1 = n1
    n2 = n2
    s1 = s1
    s2 = s2
    AutoRefresh = auto
    Global = global
    All = all
    Empty = empty
    Envs = {e1}
    Names = {n1, n2}
    Sources = {s1, s2}
    Handlers = {}
    GitHub = {s1}
    MaxCommit = 2
    NumTemplates = 2
    Absent <- SecondAbsent
    Broken <- OldBroken
    InitialRows <- LegacyRows
    InitialId = 3
    InitialRemote <- FirstCommit
    InitialDirs <- ColdDirs
    Rewinds = FALSE
    Refused = {}
    Strict = FALSE
    Periodic = TRUE
    ConfigFiles <- GlobalMoves
    MaxRequests = 0
    MaxFaults = 1
    MaxCrashes = 1
    HalfDoneGit = FALSE
PROPERTIES ImplementsView Converges GlobalsFollowConfig
INVARIANTS ViewInv
CHECK_DEADLOCK FALSE
