SPECIFICATION Spec
CONSTANTS
    p1 = p1
    k1 = k1
    s1 = s1
    s2 = s2
    s3 = s3
    Envs = {p1}
    Global = global
    Catalogs = {k1}
    EnvOf <- EnvOfCatalog
    Sources = {s1, s2, s3}
    Unparsable = {s3}
    NumFolders = 1
    MaxCommit = 2
    Repo <- Holdings
    InitialCatalogs <- AllCatalogs
    Project = p1
    MaxChanges = 4
    VersionPage = 1
    Versions = {1, 2}
    Unsupported = {}
INVARIANTS NeverRebound
CHECK_DEADLOCK FALSE
