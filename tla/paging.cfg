SPECIFICATION FairSpec
CONSTANTS
    p1 = p1
    p2 = p2
    k1 = k1
    k2 = k2
    k3 = k3
    k4 = k4
    s1 = s1
    s2 = s2
    s3 = s3
    Envs = {p1, p2}
    Global = global
    Catalogs = {k1, k2, k3, k4}
    EnvOf <- EnvOfCatalog
    Sources = {s1, s2, s3}
    Unparsable = {s3}
    NumFolders = 2
    MaxCommit = 2
    Repo <- Holdings
    InitialCatalogs <- FirstCatalogs
    Project = p1
    MaxChanges = 4
    PageSize = 1
    Matching = {1, 2}
    UnsafeKeys <- BadlyNamed
INVARIANTS NothingSkipped
PROPERTIES ListingEnds
CHECK_DEADLOCK FALSE
