\* PUTs that rename a catalog to the name of a global one, one after the other.
SPECIFICATION ApiSpec
CONSTANTS
    e1 = e1
    n1 = n1
    n2 = n2
    n3 = n3
    s1 = s1
    s2 = s2
    Global = global
    Empty = empty
    Envs = {e1}
    Names = {n1, n2, n3}
    Sources = {s1, s2}
    MaxCommit = 1
    NumTemplates = 1
    Absent = {}
    Broken = {}
    InitialRows <- TwoRows
    InitialId = 3
    Clients = {c1}
    Creates <- None
    Updates <- RenameToGlobal
    Deletes <- None
    MaxCalls = 2
INVARIANTS NoShadow
CHECK_DEADLOCK FALSE
