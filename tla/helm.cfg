\* The automatic refresh beside a refresh request, while its source publishes a
\* new index; a download, write or transaction that fails, or a crash; and a
\* chart that fails to be fetched.
SPECIFICATION FairSpec
CONSTANTS
    n1 = n1
    e1 = e1
    auto = auto
    here = here
    there = there
    elsewhere = elsewhere
    Hosts = {here, there, elsewhere}
    Loopback = {here}
    Paths = {"index", "a1", "a10", "cut", "moved", "far", "round", "twice"}
    Origins <- Allowed
    Redirects <- Moved
    MaxHops = 3
    FileNames = {"f", "g"}
    MaxChartBytes = 1
    MaxChartFiles = 2
    MaxFileBytes = 1
    MaxExpandedBytes = 2
    AutoRefresh = auto
    Handlers = {h1}
    Catalogs = {n1}
    EnvOf <- Env
    UrlOf <- IndexAt
    ChartNames = {"a", "b", "c"}
    Versions = {"1", "2", "1.1", "1.10", ""}
    IndexFile <- Indexes
    CutVersion <- CutVersions
    CutURL <- CutURLs
    Archives <- AllArchives
    Strict = FALSE
    MaxRequests = 1
    MaxFaults = 1
    MaxRetries = 1
INVARIANTS StoredOfHash MissingOnlyByFailure RequestsAllowed FilesAcceptable
PROPERTIES HelmConverges
CHECK_DEADLOCK FALSE
