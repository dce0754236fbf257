SPECIFICATION Spec
CONSTANTS
    Walk <- Trees
    Key <- Joined
    Root = "."
    NotNamed = "none"
    RevisionOf <- Revisions
    SemVer = {"v1"}
INVARIANTS WalkInv IndexIsOfTree
CHECK_DEADLOCK FALSE
