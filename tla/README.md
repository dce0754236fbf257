# Verification of the catalog service

TLA+ models of the catalog service, configurations that check them with TLC, and
proofs about them checked by TLAPS. The service keeps *catalogs* (git or helm
repositories of templates) in a database: it clones each repository into a cache
directory, reads the templates of one commit, and stores them as rows that the HTTP
API serves. What must hold is that what a reader finds under a commit is what that
commit holds, although refreshes, pushes, edits of the configuration and API
requests overlap without any lock.

## The system

| component | code | state it keeps | operations |
|---|---|---|---|
| Refresh | `manager/manager.go`, `local.go`, `config.go`, `db.go`, `cmd/root.go` | `m.config`; the local variables of each refresh under way | `RefreshAll`, `Refresh`, `refreshCatalog`, `removeCatalogsNotInConfig`, `prepareGitRepoPath`, `updateDb`, `autoRefresh` |
| Catalog table | `model/catalog.go`, `model/template.go`, `model/version.go`, `manager/db.go` | rows of catalog, template, version, file, label, category | `updateDb` (one transaction), `DeleteCatalog`, insert, `Updates`, the lookups |
| Git caches | `git/git.go`, `manager/local.go` | one working copy per environment, URL with branch, and pin | `Clone`, `Update`, `CheckoutCommit`, `HeadCommit` |
| Catalog API | `service/catalog.go`, `service/template.go`, `service/routes.go` | the requests in progress | POST, PUT, DELETE of a catalog, `?action=refresh`, the GETs |
| Indexing | `manager/traverse.go`, `parse/*` | none | a working tree to template rows |
| Template queries | `model/*.go`, `service/template.go`, `service/utils.go` | none | `LookupTemplates`, `removeDuplicateCatalogTemplate`, `LookupTemplate`, the version lookups: several queries each, in no transaction |
| AI metadata | `internal/aimetadata/*`, `internal/launchoptions/options.go` | none (cursors carried by clients) | paged listings, version material, launch material and its validation by digest; the questions of a version (`Build`) and the answers to them (`ValidateLaunch`) |
| Helm repositories | `helm/*`, `manager/local.go`, `manager/traverse.go` | an `index.yaml` per environment and hash of the index | `DownloadIndex`, `SaveIndex`, `LoadIndex`, `FetchFiles`, `extractChartFiles` |
| Version ordering | `utils/version.go`, `utils/version/version.go` | none | `GreaterThan`, ranges of versions |
| Outbound policy | `outbound/policy.go` | none | origins and git sources that may be reached; `Get` with its redirects |
| Web framework, process | `internal/catalogapi`, `internal/catalogclient`, `main.go`, `cmd/*`, `signals` | none of interest | schemas and responses; start, `--validate` |

How they interact:

- `autoRefresh` runs in one goroutine: `RefreshAll(false)`, `RefreshAll(true)`, then
  `RefreshAll(true)` at each tick. `POST ...?action=refresh` runs `Refresh` in the
  goroutine of its request. They share the table, the cache directories and the
  pointer `m.config`, and there is no mutex.
- A refresh reads the catalog rows first, works on each with git for as long as git
  takes, and writes its *copy* of the row back in one transaction that deletes by
  name and environment and inserts again.
- API requests use the same table, a statement at a time, with no transaction.
- A helm index is downloaded, written to a directory that other refreshes use too, and
  read back from there; its charts are fetched one by one through the outbound policy.
- A client of the AI routes keeps what it was handed (identity, marker, digest) between
  requests; the server keeps nothing of it.
- Anything may be pushed to the repositories, and the configuration file edited, at
  any time.

What is hard is therefore overlap (two refreshes in one working tree; a request
between the read and the write of a refresh; a GET of several queries across a commit),
partial work (a clone that stops, a file half written, a chart that cannot be had, a
transaction that fails, a crash), and staleness (the commit column, the branch head
asked of GitHub, and HEAD are three views of one thing). `PROJECT.json` lists every
hazard with its line.

What makes each component correct:

- Refresh: indexes are those of the commit recorded with them; pins are respected;
  nothing disappears for a reader; the catalogs converge on their branches and on
  the configuration.
- Table: refreshes give no catalog a second row; keys are fresh; `updateDb` is all or
  nothing.
- Caches: a directory no git command works in holds what HEAD names.
- API: requests that come one after the other leave names unique in an environment and
  apart from the global ones; an edit answered with 200 lasts. (A refresh may put back a
  catalog that was deleted, and with it a name: see below for what is left of both.)
- Template queries and AI metadata: a response, or a series of pages, makes sense
  although the rows change while it is put together.
- Launch options: a value that a launch is given was given to the question, by the
  channel the question is for, within its bounds; the rest is reported as missing.
- Helm: what is stored is of the index whose hash is recorded, and all of it that can be
  had, or else of the one part of it that was read where the cached file was half written;
  no request leaves the allowed origins.
- Indexing: each folder with a config that parses is a template, with its own files and
  no others, in whatever order they are met.
- Version ordering: upgrade links lead up and to an end, and miss nothing.

## The modules

```
CatalogTypes ── CatalogStore ──┬── CatalogAPI ─────┬── CatalogService
            │                  │        └── UpdateTx ── TemplateQueries
            └── GitCache ──────┴── CatalogRefresh ─┘ (CatalogService)
            └── CatalogView  (abstract; INSTANCEd by CatalogRefresh)
CatalogAPI ── CatalogAPI_proofs ──┬── CatalogService_proofs   (with CatalogService)
                                  └── UpdateTx_proofs         (with UpdateTx)
                                         └── TemplateQueries_proofs  (with TemplateQueries)

MetadataTables ──┬── MetadataPaging ─────────────┬── Metadata_proofs
                 └── LaunchMaterial ──┐          │
                       LaunchOptions ─┴─ LaunchForm
Outbound ──┐
HelmChart ─┴── HelmRefresh ── HelmRefresh_proofs
VersionOrder ── UpgradePath ── UpgradePath_proofs
Traverse ── Traverse_proofs
```

Each `MC...` module instantiates for TLC the module it is named after; `MCMetadata`,
`MCLaunch`, `MCUpgrade` and `MCHelm` are MetadataPaging, LaunchMaterial, UpgradePath and
HelmRefresh.

**CatalogTypes**: a catalog (`model.Catalog`), commits, indexes. A commit is a
position in one linear history shared by all sources, so two sources may be two
branches of one repository. A template folder is told apart only by the commit its
files were written by; `Absent` and `Broken` say in which commits a folder is missing
or does not parse.

**CatalogStore**: the catalog table. A row carries its index: templates, versions and
files hang off the row by id with `ON DELETE CASCADE` and every query joins them with
the catalog row. `ReplaceCatalog` is `updateDb`, `DeleteCatalogs` is `DeleteCatalog`
and the delete of `removeCatalogsNotInConfig`, `UpdateCatalogs` is gorm's `Updates`
with a struct, which skips zero fields (`Overlay`). `HasTemplates` joins by name and
environment as `catalogHasTemplates` does.

**GitCache**: remote branches and working copies. A clone is three steps (directory
not empty; HEAD and objects there; tree populated), a checkout takes `index.lock`,
rewrites one folder after another and moves HEAD last. A directory is keyed as
`prepareGitRepoPath` keys it.

**CatalogRefresh**: one control state per goroutine (`proc`), whose label `pc` says
where in the code it is:

| labels | code |
|---|---|
| `idle`, `scope` | `autoRefresh`, `refreshTemplates`, the start of `RefreshAll`/`Refresh` |
| `find`, `prune` | `removeCatalogsNotInConfig`: the Find, then a delete per row |
| `next`, `lookup` | the loops of `refreshConfigCatalogs` and `refreshEnvironmentCatalogs`; `lookupCatalog` |
| `prepare` ... `head` | `prepareGitRepoPath`: `dirEmpty`, `Clone`, the pin, `remoteShaChanged`, `Update`, `HeadCommit` |
| `compare`, `traverse`, `update` | the rest of `refreshCatalog`: up to date or not, `traverseFiles`, `updateDb` |

`Fault` is everything that may fail (`GiveUp` inside `refreshCatalog`, the early
returns outside it), `Crash` a restart, `EditConfig` and `PushBranch` the outside.

**CatalogAPI**: POST, PUT and DELETE, a statement a step.
**CatalogService**: both together over one table.

**UpdateTx**: `updateDb` once more, a statement a step: `DeleteOldRow` takes the write
lock, `CreateNewRow`, `CreateTemplate` for each folder, then `Commit` or, after any of
them, `Rollback`. `tx` holds the tables as the transaction sees them; `rows` are those
everybody sees. What it writes is a copy of a catalog from before: `ReadCatalogs` takes
the rows of an environment as `lookupCatalogs` does, `ReadConfigured` a configured catalog
as `refreshConfigCatalogs` does, with its row if that is of the same source and pin
(`Existing`) and without one otherwise. A copy stays in `copies`, since other refreshes may
hold the same, and is written at any later time, whether or not its row is there still:
the DELETE takes what has the name by then, be it that row, one created since, or none.
Where there was none, a catalog is not replaced but put in; `added` is the history of the
names this has happened to, and of names such a catalog was renamed to. `foreign_keys` is a setting of a connection, and `cmd/root.go` sets it on
one of a pool: `Cascading` says whether a DELETE takes the templates along, and `left`
holds those it does not. That the steps come to the one step `ReplaceCatalog`, which the
other modules take `updateDb` for, is `UpdateIsAtomic`.

**TemplateQueries**: the GETs, a query a step, beside UpdateTx and the requests of
CatalogAPI. `ReadTemplates`, `ReadCategories`, `ReadVersions`, `ReadCatalogNames` and
`RemoveDuplicates` are a listing (`LookupTemplates`, then
`removeDuplicateCatalogTemplate`, which asks for the catalogs of the templates again and,
of those named alike (`NamedAlike`), in one environment or not, drops the one it found a
duplicate last: a global one is kept before others, the first of a name otherwise); `ReadTemplate`, `ReadVersionsOfTemplate`,
`ReadVersion`, `ReadFiles` are `getTemplate` and what it calls. `Following` is the order
they run in. An item is a template row: its catalog's key, its folder, and the commit its
contents are of.

**CatalogView**: what a refresh promises to readers: entries of a table replaced one
at a time, each by the exact index of a commit its branch has had (or of its pin),
never by an older one. No caches, no goroutines, no keys.

**MetadataTables**: the same tables as the queries of `internal/aimetadata` see them,
with what CatalogStore folds away: template rows with their AUTOINCREMENT keys, which
join with the catalog row as it is *now* (`Identity` is `logicalID`). Its writers are
those of CatalogStore, reduced to what a reader between two statements can notice: a
refresh is the one transaction of `updateDb`, with any source and commit it may have
set out with (`known`); a PUT moves the catalog row and leaves templates and commit
alone; DELETE and POST. One step of a table change is one statement or transaction.

**MetadataPaging**: `GET /v1-catalog/ai/templates` page by page. `StartListing` is the
first request, `ReadAnchor` the statement that reads the row of a marker again,
`ReadPage`/`ReadUnavailable` the statement of a page and the handler's checks of its
rows: a source whose URL cannot be bound, a key that is not safe (`UnsafeKeys`). A client follows the markers it is given.

**LaunchMaterial**: the three requests a client makes about one identity, a statement a
step. `ReadParent` resolves the identity (the exact detail of `SQLSource.Read`), then
come `ReadVersionAnchor` and `ReadVersionPage` for a listing, or `SelectVersion` and
`ReadFiles` for launch material and its validation. `Place` is what a version and its
files were read from, and stands for their contents.

**LaunchOptions**: `internal/launchoptions/options.go` as operators: by which channel a
question may be answered (`Channel`), which questions are supported (`Builds`), what is
wrong with a value (`WrongWith`), and `ValidateLaunch`, as the *set* of its outcomes,
because which of several errors is met first depends on the order a Go map is ranged
over.

**LaunchForm**: LaunchMaterial and LaunchOptions together. `AnswersValidated` is the last
step of a validation whose digest still fits: the answers are held against the questions
in the files that were just read.

**Outbound**: `AuthorizeURL`, `MayRedirect` (`CheckRedirect`), `ResolveReference`, and
`Requests`, the requests one `Get` makes. **HelmChart**: `ExtractChartFiles`, entry by
entry, as a function of the archive.

**HelmRefresh**: a refresh of helm catalogs served over HTTP:

| labels | code |
|---|---|
| `idle`, `next` | the loops over the catalogs; the row is read here |
| `download`, `open`, `save` | `prepareHelmRepoPath`: the index and its hash; `SaveIndex` truncates, then writes |
| `compare` | `refreshCatalog`: hash and templates |
| `load`, `fetch` | `traverseHelmFiles`: `LoadIndex` from the shared file, then a chart version a step |
| `update` | `updateDb` |

`SaveIndex` does not replace the file as a whole. What `LoadIndex` finds while another
refresh writes it (`Readable`), or after a write that failed, is any part of the index that
parses (`Beginnings`): its first chart versions and, of the one the file ends in, what is
left (`CutShort`). The version is written before the URLs, so the end may be inside the
version (`CutVersion`: of `1.10.0` there may be `1.1`, with no URLs, which is fetched as a
version without files), between two URLs or inside one (`CutURL`). A part need not parse,
and a null in the place of a chart version ends the request that reads it, or the service.
None of this is a failure: `halved` is the history of the catalogs that were stored from
such a part. `Fault` is what leaves charts out, `Retry` what a later refresh makes up for;
`Publish` is a new index at the source.

**Traverse**: `traverseGitFiles`, a file a step, and at the end the versions named and
described and the templates without a config dropped. A file is what its path and its
contents say, whether it can be read (it may be too large), and whether it parses and is
blank: a file that cannot be read is an error and stays out of its template, of whatever
kind it is, and a blank description counts as none.

**VersionOrder**, **UpgradePath**: `GreaterThan` piece by piece, `VersionBetween`,
`VersionSatisfiesRange`, the order of `Versions.Less`; and a client that follows the
upgrade links `versionResource` shows.

### What is abstracted

- A template folder is written in one step and read in one step; a commit's tree is a
  function from folders to commits.
- Outside UpdateTx `updateDb` is one step: a failing statement is the fault at label
  `update`, which leaves the table alone. UpdateTx shows that it may be taken for one.
- `prepareGitRepoPath`'s checks that need no state (source authorised, pin is a full
  SHA) are the constant `Refused`.
- Labels, descriptions and kinds of a catalog play no part in what is checked. In
  CatalogRefresh every catalog is in a git repository. HelmRefresh visits all its helm
  catalogs: which ones a refresh visits, and edits of them meanwhile, are CatalogRefresh's
  and CatalogService's subject.
- In UpdateTx the configuration stays as it is and names the global rows there are at the
  start, so `removeCatalogsNotInConfig` has nothing to remove; a configuration that changes
  is CatalogRefresh's subject. The commit a copy is written with is any commit. A template's
  row, labels, links to categories, versions and files are written in one step. In TemplateQueries the queries for labels
  are left out, a template has one version, and a category is a set of templates by commit
  (`Tagged`).
- In HelmRefresh contents of an index stand for their SHA-256; charts without versions,
  icons, readmes and the filter of file names are left out. In Outbound a URL is what the
  policy tells apart (scheme, canonical host, port, credentials, path).
- `isDuplicateGlobalName` binds the environment id to its only placeholder. SQLite uses
  the first argument and ignores the second; a driver that refuses the mismatch makes
  the query fail, its error is not looked at and no duplicate is found either.
- In MetadataTables a name is unique in its environment (CatalogStore and CatalogAPI are
  about whether it is), and the DELETE of a name that a global catalog has too is two
  steps instead of one. A version is its position in its template and what it is known
  by (version string and revision).
- In LaunchMaterial the bounds on files and bytes are a function of the material and are
  left out; a request refused before its first statement reads nothing. In LaunchOptions a
  text is told apart by its length, by whether a question forbids its characters, and by
  whether it is a date or has the form of a reference; numbers are small integers, whole
  or not.
- In VersionOrder words are numbered in lexical order and numbers are below 100.
- A handler's response is modelled where a property is about it (the listings of
  TemplateQueries, markers, material, replies to a validation).

## The runs

The instances of the refresh and the API have one environment, one or two sources, one or two commits and at most
two template folders. Two commits are what it takes to tell a stale tree from a current
one, two folders what it takes to see half a tree, two catalogs what it takes for one
to meet another in a cache directory (same source) or under a name. `refresh_race`
has two goroutines; the code is the same for a third. The bounds on faults, crashes and
requests are named constants (`MaxFaults`, `MaxCrashes`, `MaxRequests`, `MaxCalls`)
that only keep the state space finite.

`refresh_single` starts from empty cache directories, `refresh_race` from cloned ones,
that of the pin with the pinned commit checked out, and `service_single` from branches cloned and pinned commits
never asked for. `api_sequential` has two catalogs of the environment beside a global one of
the configuration. POSTs ask for a name of the environment and for the global one, a PUT
renames one catalog to the other, DELETEs ask for any name, the global one too; so a name can
be given up and taken again before and after a refresh has read its copies. Two requests and
one transaction are enough for it (DELETE of the global name, POST of it, a copy written: two
catalogs of one name), with GETs one after the other beside them: the transaction can begin,
commit or roll back between any two queries, with cascades or without.

`paging` has a catalog of the project, a global one, one of another project and a name to
rename to, two folders, and pages of one row, so that three pages and a marker on every
row occur; four changes are enough for a catalog to be refreshed, renamed and refreshed
again between two pages. `launch` has one catalog, three sources (one whose URL cannot
be bound), two versions on pages of one, and four changes: indexed, read, replaced, moved
to another source and indexed again. The versions have two questions each, of every kind
and channel between them, one with a name asked twice; the forms answer each of the two by
any channel, with texts below, at and above the bounds, numbers, truth values, nothing.
`helm` has one catalog, whose source moves from an index of two chart versions to one of
three, beside archives that can be had, that repeat a name, that are behind redirects within
the limit, beyond it, and to a port that is not allowed; one version and two URLs are others
when they are cut short; two goroutines meet in one directory, one failed fetch and one other
failure or crash come between. `traverse` takes every subset of thirteen files, of which two
cannot be read, three do not parse and one is blank. `upgrade` takes every template of
three out of eight versions, one of which has bounds or a range.

| run | instance | shows |
|---|---|---|
| `refresh_single` | the periodic refresh alone; cold cache, legacy rows, a configuration that moves a catalog to another source and pins it there, a push, a fault, a crash between git commands | `ViewInv` (inductive, see below; it has the types); `ImplementsView`: refinement of CatalogView; `Converges`, `GlobalsFollowConfig` |
| `refresh_race` | a refresh request beside the periodic refresh in one cache directory, a pinned global catalog that leaves the configuration, a push, git commands that stop half way | `OneRowPerCatalog`, `PinHolds`, `RefreshKeepsCatalogs`; when nothing fails, `ConvergesUnfailing`, `GlobalsFollowUnfailing` |
| `service_single` | requests that rename, move, pin, create and delete beside the periodic refresh, a crash | `ServiceInv` (inductive), `HonestIndex`: a row's index is that of its commit; `PinHolds`, `Converges` |
| `api_sequential` | requests one after the other, a transaction statement by statement, a GET query by query | `QueriesInv`, `SequentialInv` (inductive together), `NamesUnique`: two catalogs share a name only where a stale copy was put in; `UpdateIsAtomic`; `FilterSound`, `ListedWhole`, `ListedOnce`, `VersionOfTemplate`: what a GET may show of tables that change under it |
| `api_rename` | a PUT to a global catalog's name | **violated** `NoShadow` |
| `service_edit_lost` | a PUT or a DELETE during a refresh | **violated** `RefreshKeepsEdits` |
| `paging` | a listing of templates, and tables that change between its statements | `NothingSkipped`: a complete listing has every identity that was there throughout; `ListingEnds` |
| `launch` | a client that lists versions, is handed material, answers its questions and has the answers validated | `LaunchInv` (inductive); `OneIndexing`, `MaterialWhole`, `VersionsOfAsked`, `AcceptedAsHanded`; `AnswersFit`, `NothingAssumed`: values accepted are answers given, to the questions shown, by their channel |
| `launch_rebound` | the same without answers | **violated** `NeverRebound` |
| `helm` | a refresh request beside the periodic refresh of a helm catalog whose source publishes a new index; failures of each kind, a crash | `StoredOfHash`, `MissingOnlyByFailure`: what is stored is of the index recorded, and all of it unless a fetch failed; or of one part of it, and all of that, where the file was half written when it was read; `RequestsAllowed`, `FilesAcceptable`; `HelmConverges` |
| `traverse` | every tree of some of thirteen files | `WalkInv` (inductive); `IndexIsOfTree`: the index is what the folders say by themselves |
| `upgrade` | templates of three versions, one with bounds or a range | `LinksLeadUp`, `LinksMissNothing`: upgrade links are the newer versions that bounds and ranges allow; `UpgradesEnd` |

`CHECK_DEADLOCK FALSE` is in every configuration: with a refresh interval of zero, with
`--validate`, or when the bounds on requests are used up, the service has nothing left
to do and the model rightly stops; so does a traversal that has returned, a listing
that is over, and a version that nothing is newer than.

The violations are disagreements between the code and what a test, a document or an
error message of the repository says; `PROJECT.json` quotes the lines:

1. `isDuplicateGlobalName` passes the environment id where its query expects the name,
   so a PUT may take the name of a global catalog.
2. A refresh writes back the copy of the row it read before git ran. A PUT answered
   meanwhile is lost, and a catalog deleted or renamed meanwhile comes back.
3. A logical identity is computed of the catalog row as it is now. Between a PUT of
   another URL and the next refresh the new identity is handed out with the old files;
   after the refresh, with the new ones. (The digest differs, so a validation of the old
   material is refused: that is `AcceptedAsHanded`.)

The models show more of what the code does, which no run is kept for:

- `createCatalog` checks for the name and inserts it in separate statements, and no
  unique index backs it: with a second client in `api_sequential`, two overlapping POSTs
  make two rows.
- A refresh that writes a copy of a catalog deleted meanwhile puts the catalog in again. What
  stands under the same name in the same environment by then is deleted first, so this alone
  makes no second row; but a POST that has made its check may insert one after it, and a
  catalog put in so may be renamed. Of a global catalog the name may be given in an
  environment between DELETE and the write, by requests that do not overlap: then
  it is there twice for that environment. `NamesUnique`, `ListedOnce` and `VersionOfTemplate`
  hold for every other name (`added`).
- A listing that meets such a name drops one of its two catalogs, unless one of them has
  gone by the time `removeDuplicateCatalogTemplate` asks: then it may show templates twice.
- The recheck of the identity is in the rows of the version statement
  (`ReadVersionPage`). A template replaced since the parent read has no rows there, and
  the answer is an empty listing.
- `base + templateName` is not an injective key: `a-templates/bc` and `ab-templates/c`
  become one template. `traverse` keeps to trees whose keys differ.
- `LastSorted` goes by semantic versions, whose suffixes compare as strings, and upgrade
  links by `GreaterThan`: of `rancher9` and `rancher10` the default upgrade is the older.
- A listing that straddles a commit drops a replaced catalog's templates, because their
  versions are gone (`ReadVersions`), or shows them under a blank catalog name when the row
  goes later (`ReadCatalogNames`). `ListedWhole` is what remains: all of a catalog or none.
- `getTemplate` may join a template of the old indexing with a version of the new, and a
  version whose rows go before `ReadFiles` is answered with an empty map of files.
- A chart that could not be fetched is not asked for again until the index changes, since
  hash and templates are there. A part of an index that parses is stored under the hash of
  the whole, with a version cut short for a version of its own, and stays until the next
  index if it has any chart; an empty one heals at the next refresh. A chart all of whose versions were left out
  counts as a template (`Compare`).
- Two archives of one version that share a file name store the file twice; launch
  material of that version is then refused as unavailable. Digests of an index are not
  compared with what is fetched.
- A listing of the AI routes that meets a catalog whose URL cannot be bound is answered as
  unavailable; `ListingEnds` counts that as an end.
- A minimum or maximum of 0 on a number is no bound; an optional question of the safe
  channel that is not answered has the empty text for its value although the question has
  a minimal length; a reference is not held to the question's length. `Permitted` and
  `AnswersFit` say what does hold.
- A change of nothing but the kind of a catalog in the configuration keeps its row.
- A repository without a template is traversed again at every tick: `HasTemplates` is
  false of it.

`HonestIndex` is a property of one refresh at a time. It does *not* hold with two: one
refresh finds a directory another is still cloning into not empty, reads HEAD, which is
set, and an unpopulated tree, and stores an empty index under that commit. Neither does
it hold when a crash stops git in the middle of a clone or a checkout, which leaves a
directory that nothing mends: `Crash` comes between git commands. No line of the repository
promises otherwise, so neither is listed as a finding. `refresh_race` therefore checks
what does hold with two, from warm caches, where they also converge; that two refreshes of a
cold cache duplicate nothing, lose nothing and respect pins is left to the theorems, which
assume nothing of the caches.

### Fairness

`Fairness` is weak fairness of `AutoTick` and of each goroutine's `Proceed`: Go
schedules goroutines, the ticker of `autoRefresh` ticks, HTTP calls have timeouts,
SQLite statements end. It includes that git commands end, which is an assumption:
`git/git.go` runs them without a timeout, and one that hangs stops the automatic
refresh for good. Faults, crashes, pushes and edits get no fairness, and there are
finitely many of them: `Converges` is about what follows when they have stopped.
`ServiceFairness` adds that a request, once begun, is served to its end.

`refresh_race` states convergence for the runs in which nothing fails: a git command that
stopped half way may leave a directory no later refresh mends.

`FairSpec` of HelmRefresh is weak fairness of each goroutine's `Step`: the same scheduling,
the timer, and `outbound`'s client, which has a timeout. `HelmConverges` is about the runs
without a `Fault`; everything in `Retry` (a download or write that fails, a transaction, a
crash) may happen in them, and so may reads of a file half written: the commit converges
whatever was read, the chart versions do for every catalog but those stored last from a part
of an index (`halved`), which the code takes for up to date.

`FairSpec` of MetadataPaging is weak fairness of the listing alone: the server answers
and the client goes on while it has a marker, which is what `ListingEnds` is about. The
changes of the tables need none.

`UpgradesEnd` needs no fairness: it says that links cannot be followed for ever.

## The proofs

TLAPS proves the following for every number of environments, catalogs, sources, commits,
templates, refresh requests and clients, from the named assumptions on the constants
(`NamesAssumption`, `BoundsAssumption`, `InitialRowsAssumption`, `GitAssumption`,
`RefreshAssumption`, `ApiAssumption`, `TxAssumption`, `QueryAssumption`; `TableAssumption`,
`PagingAssumption`, `LaunchAssumption`, `OptionsAssumption`, `FormAssumption`;
`OutboundAssumption`, `HelmChartAssumption`, `HelmAssumption`; `WalkAssumption`; `UpgradeAssumption`), which TLC
evaluates in the runs. A theorem that needs more of the constants or of the first state
has it as a premise; each of these holds in the run that checks the property.

| theorem | statement |
|---|---|
| `RefreshTypeCorrect` | `Spec => []TypeOK` |
| `RefreshInvariant` | `Spec => []RefreshInv` |
| `PinsHold` | `Spec => PinHolds` |
| `RefreshKeepsRowsUnique` | `Spec /\ OneRowPerCatalog => []OneRowPerCatalog` |
| `RefreshesKeepCatalogs` | `Spec => RefreshKeepsCatalogs` |
| `SoloInvariant` | `Solo => (Spec /\ CachesClean => []SoloInv)` |
| `SoloIndexIsHonest` | `Solo => (Spec /\ CachesClean /\ HonestIndex => []HonestIndex)` |
| `StrictRefreshKeepsOut` | `Solo => (Spec /\ CachesClean => StrictKeepsOut)` |
| `ViewInvariant` | `Solo /\ ~Rewinds => (Spec /\ CachesClean /\ OneRowPerCatalog /\ NothingAhead => []ViewInv)` |
| `SoloImplementsView` | with the same premises, `ImplementsView`: `Spec` implements CatalogView |
| `ServiceInvariant` | `ServiceSpec => []ServiceInv` |
| `ServicePinsHold` | `ServiceSpec => PinHolds` |
| `ServiceIndexIsHonest` | `Solo => (ServiceSpec /\ CachesClean /\ HonestIndex => []HonestIndex)` |
| `QueriesInvariant` | `Spec => []QueriesInv` (of TemplateQueries, as those that follow) |
| `UpdateOfOneStep` | `Spec => UpdateIsAtomic` |
| `FilterIsSound` | `Spec => []FilterSound` |
| `ListingIsWhole` | `Spec => []ListedWhole` |
| `VersionIsOfTemplate` | `Spec /\ []Unambiguous => VersionOfTemplate`: in an environment each name in a path is of one catalog, or was added |
| `SequentialInvariant` | `Sequential => (Spec /\ OneRowPerCatalog /\ NoShadow => []SequentialInv)` |
| `NamesStayUnique` | with the same premises, `[]NamesUnique` |
| `ListingHasNothingTwice` | with the same premises, `[]ListedOnce` |
| `VersionIsOfTemplateInSequence` | with the same premises, `VersionOfTemplate` |
| `PagingInvariant` | `ListingSpec => []PagingInv` (of MetadataPaging) |
| `NothingIsSkipped` | `ListingSpec => []NothingSkipped` |
| `LaunchInvariant` | `Spec => []LaunchInv` (of LaunchMaterial, as those that follow) |
| `LaunchTypeCorrect` | `Spec => []TypeOK` |
| `MaterialIsWhole` | `Spec => []MaterialWhole` |
| `ListingIsOfOneIndexing` | `Spec => []OneIndexing` |
| `ListedVersionsAreOfAsked` | `Spec => VersionsOfAsked` |
| `AcceptedIsAsHanded` | `Spec => AcceptedAsHanded` |
| `FormInvariant` | `FormSpec => []FormInv` |
| `AcceptedAnswersFit` | `FormSpec => []AnswersFit` |
| `AcceptedAssumesNothing` | `FormSpec => []NothingAssumed` |
| `HelmInvariant` | `Spec => []HelmInv` (of HelmRefresh, as those that follow) |
| `StoredIsOfHash` | `Spec => []StoredOfHash` |
| `NothingElseMissing` | `Spec => []MissingOnlyByFailure` |
| `RequestsAreToOrigins` | `Spec => []RequestsAllowed` |
| `StoredFilesAcceptable` | `Spec => []FilesAcceptable` |
| `WalkInvariant` | `Spec => []WalkInv` (of Traverse) |
| `IndexIsOfItsTree` | `KeysDiffer => (Spec => []IndexIsOfTree)` |
| `GreaterThanIsNewer` | `GreaterThan(v, w) <=> Newer(v, w)`, for versions with `Alike(v, w)` |
| `GreaterThanIsTotal` | of two different ones one is the greater, and never both |
| `NewerIsTransitive` | `Newer(u, v) /\ Newer(v, w) => Newer(u, w)`, for releases of one length |
| `LinksLeadUpAlways` | `VersionsAlike /\ RangesMean => (Spec => []LinksLeadUp)` (of UpgradePath, as those that follow) |
| `NoUpgradeIsMissed` | with the same premises, `LinksMissNothing` |
| `UpgradesGoUp` | with the same premises, `[][Upgrade => Newer(installed', installed)]_vars` |

*Any number of refreshes* (`CatalogService_proofs`). `PinHolds` speaks of what a step
writes, and what `UpdateDb` writes was decided some steps before. `PinPrepared` is the
missing part: from the last check of `prepareGitRepoPath` on, a goroutine with a pinned
catalog holds the pin as the commit it will record. To tell the row a step writes from
those that were there, primary keys must be below the counter (`IdsFresh`).
`RefreshInv == TypeOK /\ IdsFresh /\ PinPrepared` is inductive whatever the other
refreshes do to the caches, since it mentions no cache. Uniqueness of rows and
`KeepsCatalogs` follow step by step from `TypeOK`, through `RowsChange`: the table only
changes by a delete of a name that is not in the configuration or by an `UpdateDb`.

*A refresh alone in its caches* (`CatalogService_proofs`). `Solo` says that no refresh
request is served and that a git command ends once begun. `SoloInv` follows the working
tree: every directory but the one a git command is in is clean; in that one the folders
below `at` are the target's (`Written`); between HEAD's last reading and `updateDb` HEAD
stays the commit read, and the folders read are its index (`Read`). The skipped checkout
(HEAD is there already) is where cleanliness is needed. `HonestIndex` then follows at
`UpdateDb`. The premise that the caches and the table are honest at the start is what
the run `refresh_single` satisfies with an empty cache. `StrictKeepsOut` is about the
commit a `--validate` run records, and the code decides by the errors it has met in the
working tree: `StrictInv` relates the two, step by step of the traversal, and `SoloInv`
is what makes the tree that of the commit.

*Readers see a CatalogView* (`CatalogService_proofs`). Every step of a refresh alone in its
caches is a step of CatalogView or leaves its variables as they are. That an entry is
never replaced by an older index is the hard part: a commit is compared with the row when
the refresh is about to write, but what makes it no older was settled when the working
copy was updated. `NothingAhead` says that no working copy is ahead of its
remote branch, and no row of that branch or of HEAD in its working copy (`CopyBehind`,
`RowBehind`), and `ViewOK` that the commit a
refresh is on its way to is not behind a row of the same source (`Forward`), and that a
catalog of an environment it holds a copy of is still stored; with `SoloInv` and
`OneRowPerCatalog` they are inductive (`ViewInv`). The premise `~Rewinds` excludes a branch
pushed back to an older commit, after which a refresh rightly follows it.

*The whole service* (`CatalogService_proofs`). A request touches no cache and no
goroutine of a refresh, creates rows without a commit and edits rows without changing
their key, commit or index (`InsertStore`, `EditStore`, `ApiRows`); both invariants
carry over. `CreatesNamed` is needed for the type of what a POST inserts.

*Pages* (`Metadata_proofs`). Each identity that has been there since the first page was
given to the client or has a row behind the marker (`SeenOrAhead`). A refresh between two
pages gives its templates new keys, above all others, so they can only move behind the
marker; a page takes the first rows behind it in the order of their keys, and the marker
becomes the last of these (the lemmas on `Keyed` sets of rows). The folders of a catalog have
one row each (`OneRowPerFolder`), or a row behind the marker could stand for one before it.

*Versions and launch material* (`Metadata_proofs`).
A request carries a key from one statement to the next while the tables change. What
makes that safe is `RowsStay`: the row of a key that was there before a change is the row
it was, under another name at most, because keys are not used again and only a refresh
writes contents. So what was noted of a version when it was selected is what the row of
its key was read from, if that row is still there (`Selected`); the versions listed are
of the template of the marker, which the anchor makes the template of the next page
(`Marked`); a digest stands for the files it was handed out with (`Kept`). With the
types and the two properties themselves they make `LaunchInv`, which is inductive; one
lemma per action shows it, and `AnswerKeeps` covers every way a request can end.

*Answers* (`Metadata_proofs`). `FormInv` says of a reply that is accepted that it is one
of the outcomes of `ValidateLaunch` on the questions of the files its digest stands for,
with the form it was sent; with `Kept` those files are the ones that were shown. The
outcomes come in six stages, and only the last is without errors: the lemmas say what a
value that passed every stage has for a channel and a range, whatever the questions, and
`AnswersFit` and `NothingAssumed` follow for each.

*Queries beside transactions* (`TemplateQueries_proofs`). Two halves. `TxInv` follows the
tables of a transaction: they are everybody's but for the rows of its own catalog, whose
new index is `Partial`, that of the commit below `at` (`TxTables`); since the write lock
keeps others out until it ends, committing them is `ReplaceCatalog`. `GetRead` follows a
GET: `TablesMove` says how committed tables may change (a row keeps its index as long as
its key is there, keys are not used again, and a catalog's templates go together), so that
what was `Known` of a template row when it was read stays true, or the row is gone for
good. A listing reads the templates of a catalog together, categories next, versions last:
a template missing from its category because it has gone is missing from the versions too,
which is why the order of the queries (`Following`) matters to `FilterSound`.
`VersionOfTemplate` finds a version by names, so it needs these to be unambiguous: that is
the premise of `VersionIsOfTemplate`.

*Names, with requests one after the other* (`CatalogAPI_proofs`, `UpdateTx_proofs`,
`TemplateQueries_proofs`). `Sequential` says that there is one client, that its requests are
about environments, and that no PUT asks for the name of a global catalog: the code means to
refuse that, and does not (`api_rename`); of overlapping POSTs the theorem is false. What a
handler's SELECT found is used some statements later, when a refresh may have written any
copy it took before. `StillChecked` is what stays true from a check to its write. A
transaction deletes by name and environment and inserts one row of the same; if it deleted
something, no name is there that was not there before. If it did not, the name may be one
that a check has just found free, or, for a global copy, one that an environment has: it goes
into `added`, and neither `NamesUnique` nor `StillChecked` speaks of it any more
(`CommitKeepsNames`). So that a rename does not carry the second row of such a name to a name
of its own, the new name goes there as well. No other step adds to it, and the invariant holds
of every name that no refresh has brought back. For `ListedOnce` one more thing is needed,
since a listing reads the names of its catalogs after the templates: at that moment no two of
them had one name that was not added (`VisibleRead`).

*Helm* (`HelmRefresh_proofs`). A file is only ever written by goroutines that hold its
directory's hash, so that whatever a read finds there is a part of that index as it may be
read (`FilesOK`, `Beginnings`), the version or URL it ends in cut short or not; the theorems
assume nothing of what these read as (`CutVersion`, `CutURL`). A goroutine reads its own copy
of it, and the versions it has are those before `at` (`ReadOK`); while no fetch has failed,
those of them that can be had (`HadUpto`). When it stores them, it has read the whole index,
or nothing (an emptied file, whose catalog has no chart and is not taken for up to date by
`Compare`), or a part, and then the catalog goes into `halved`: what is stored is of
`Sources`, that one part.

*Requests and files of charts* (`HelmRefresh_proofs`). The redirects of a `Get` and the entries
of an archive are followed by recursive functions (`Requests`, `ExtractChartFiles`), about
which a prover here has no induction. What is proved goes step by step: if something were
wrong after some number of steps there would be a least such number, the one before it would
be in order, and no step (`FollowRedirect`, `ReadEntry`) leads from one to the other
(`Stepwise`; numbers are well-founded). So for every chain of redirects each request that is
made is to an allowed origin, and for every archive the files that are stored keep to the
limits.

*The walk* (`Traverse_proofs`). `WalkInv` compares the index at every moment with what the
files walked so far say by themselves, key by key (`Matches`): the last config that parses,
the last icon, the last readme of the template's own folder, and the versions as a set,
none twice. One more file changes one part and leaves the rest (`MatchesMore`); that it is
the last of its kind is because the walk is ordered (`HereIs`). A file that cannot be used
changes nothing but the errors (`FailingIs`). It holds of keys, whatever
templates share one. `IndexIsOfTree` speaks of folders, so its theorem has `KeysDiffer` for
a premise: `base + templateName` must tell templates apart, which the code does not ensure.
How a version is described and named by its files (`Described`, `Name`) stands on both sides
of `IndexIsOfTree`: the property is that each gets its own files, in whatever order they come,
not that these definitions are right, which is for a reader to compare with
`traverse.go`.

*Versions and upgrade links* (`UpgradePath_proofs`). `GreaterThan` splits both versions and walks
the shorter one; `Newer` is stated on release and suffix apart, the shorter suffix padded.
Both are decided by the first piece that differs (`Differ`, the least such position), or, when
there is none (`NowhereDiffer`), by what the longer version goes on with: a word makes it the
older one, a number the newer (`WhenLonger`). When the second version has more pieces
`GreaterThan` takes the contrary of its arguments exchanged, which is right only because versions
of as many pieces that differ nowhere are the same. The theorems are about `Version`, of any length,
with the premise `Alike`: as many numbers in the release, and words where the other one has words
(`PieceAbove` has cycles otherwise). The links are then those that fit (`ShowsWhatFits`). The
premises `VersionsAlike` and `RangesMean` ask that of the templates and platforms, and that a
range holds of the versions it is to stand for; the meanings `MCUpgrade` gives its ranges are
written down version by version, and it has both premises as an assumption for TLC to
evaluate. That what the ranges say is what the tests mean by them stays a matter of that run.

Only model-checked: the liveness properties (`Converges`, `GlobalsFollowConfig` and their
like, `HelmConverges`, `ListingEnds`, `UpgradesEnd`), which TLAPS does not prove here.
`UpgradesEnd` is close: every upgrade goes up (`UpgradesGoUp`) in an order that does not lead
back (`NewerIsTransitive`, `GreaterThanIsTotal`); what remains is an induction over the versions
of a template.

## The plan

In order; each comes with its runs and, where it says so, its theorems.

1. *(done)* CatalogTypes, CatalogStore, GitCache, CatalogRefresh, CatalogView,
   CatalogAPI, CatalogService, and the proofs above.
2. *(done)* `MetadataTables`, `MetadataPaging`, `LaunchMaterial` with its proofs;
   `VersionOrder` and `UpgradePath`; `Traverse`.
3. *(done)* `UpdateTx` and `TemplateQueries`, with their proofs: transactions statement by
   statement, GETs query by query.
4. *(done)* `Outbound`, `HelmChart`, `HelmRefresh`, with the proofs of the last.
5. *(done)* `LaunchOptions` and `LaunchForm`, with their proofs.
6. *Left*: helm charts in a git tree (`traverseGitFiles` for the helm kind); rows of labels
   and categories; `AuthorizeGitSource` and local roots in place of `Refused`.
7. *(done)* The refinement of CatalogView, pages, names, redirects, archives and the walk,
   proved.
8. *(done)* `GreaterThan` is the order of `Newer` on all versions that compare, and with it
   `LinksLeadUp` and `LinksMissNothing`, proved.

Not modelled: parsing of YAML and of paths (`parse/*`), schemas, links and the writing of
responses (`internal/catalogapi`, `internal/catalogclient`), flags, connection strings,
signals and migrations. These have no state that outlives a call and nothing that runs
beside them, so a model would only repeat their text.
