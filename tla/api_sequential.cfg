\* Requests served one after the other: creates that meet every name, renames
\* within the environment, deletes; refreshes a statement at a time; and a GET
\* that overlaps with them.
SPECIFICATION Spec
CONSTANTS
    e1 = e1
    n1 = n1
    n2 = n2
    n3 = n3
    s1 = s1
    Global = global
    Empty = empty
    Envs = {e1}
    Names = {n1, n2, n3}
    Sources = {s1}
    MaxCommit = 2
    NumTemplates = 2
    Absent = {}
    Broken = {}
    InitialRows <- ThreeRows
    InitialId = 4
    Clients = {c1}
    Creates <- NewCatalogs
    Updates <- Renames
    Deletes <- Removals
    MaxCalls = 2
    Configured <- InConfiguration
    Cascading = {TRUE, FALSE}
    MaxUpdates = 1
    Tagged <- InCategory
    Queries <- Gets
INVARIANTS QueriesInv SequentialInv NamesUnique FilterSound ListedWhole ListedOnce
PROPERTIES UpdateIsAtomic VersionOfTemplate
CHECK_DEADLOCK FALSE
