SPECIFICATION FormSpec
CONSTANTS
    p1 = p1
    k1 = k1
    s1 = s1
    s2 = s2
    s3 = s3
    Envs = {p1}
    Global = global
    Catalogs = {k1}
    EnvOf <- EnvOfCatalog
    Sources = {s1, s2, s3}
    Unparsable = {s3}
    NumFolders = 1
    MaxCommit = 2
    Repo <- Holdings
    InitialCatalogs <- AllCatalogs
    Project = p1
    MaxChanges = 4
    VersionPage = 1
    Versions = {1, 2}
    Unsupported <- NotAsked
    a = a
    b = b
    z = z
    empty = empty
    one = one
    day = day
    path = path
    long = long
    Names = {a, b, z}
    BadNames = {z}
    Texts <- AllTexts
    Units <- Lengths
    EmptyText = empty
    Dates = {day}
    Malformed = {path}
    MaxQuestions = 2
    DefaultMaxLength = 3
    MaxLengthLimit = 4
    QuestionsOf <- QuestionsOfPlace
    Forms <- AllForms
INVARIANTS LaunchInv OneIndexing MaterialWhole AnswersFit NothingAssumed
PROPERTIES VersionsOfAsked AcceptedAsHanded
CHECK_DEADLOCK FALSE
