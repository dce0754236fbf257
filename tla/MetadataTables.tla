--------------------------- MODULE MetadataTables ---------------------------
(***************************************************************************)
(* The catalog tables as the metadata queries see them: template rows with *)
(* their versions and files, joined with the row of their catalog.  What   *)
(* CatalogStore folds into one row is spread out here, with the primary    *)
(* keys that cursors and joins depend on.                                  *)
(*                                                                         *)
(* The writers are the refresh (updateDb is one transaction) and the       *)
(* requests that create, edit and delete catalogs.  A name is taken once   *)
(* in an environment.                                                      *)
(***************************************************************************)
EXTENDS Naturals, FiniteSets, Sequences

CONSTANTS
    Envs, Global,   \* environments (projects), and the one all of them see
    Catalogs,       \* what a catalog is known by: an environment and a name
    EnvOf,          \* [Catalogs -> Envs \cup {Global}]
    Sources,        \* what a catalog is read from: URL, branch and pin
    Unparsable,     \* sources whose URL has no scheme or no host
    NumFolders,     \* template folders a repository may hold
    MaxCommit,      \* commits of a repository
    Repo,           \* <<source, commit, folder>> |-> its versions, in order
    InitialCatalogs,
    Project,        \* the effective project of the requests
    MaxChanges      \* bound: changes to the tables

VARIABLES
    catalogs,       \* table catalog: [cat, src, commit]
    templates,      \* tables catalog_template, catalog_version, catalog_file
    lastId,         \* AUTOINCREMENT of catalog_template
    known,          \* rows table catalog ever had, less their commits
    changes         \* use made of MaxChanges

tableVars == <<catalogs, templates, lastId, known, changes>>

Folders == 1..NumFolders
Commits == 1..MaxCommit

CatalogRow == [cat : Catalogs, src : Sources, commit : 0..MaxCommit]

\* src and commit say what the row, its versions and its files were read from:
\* a template row does not store them, its files are what they hold.  Version
\* n of template row id has a key, which <<id, n>> stands for: the rows of a
\* template are inserted in order, in its transaction, and never changed.
TemplateRow == [id : Nat \ {0}, cat : Catalogs, folder : Folders,
                src : Sources, commit : Commits]

\* logicalID: scope, catalog, repository, branch, pin, folder and base.
Identities == Catalogs \X Sources \X Folders

ASSUME TableAssumption ==
    /\ Global \notin Envs
    /\ EnvOf \in [Catalogs -> Envs \cup {Global}]
    /\ Unparsable \subseteq Sources
    /\ NumFolders \in Nat /\ MaxCommit \in Nat /\ MaxChanges \in Nat
    /\ InitialCatalogs \subseteq [cat : Catalogs, src : Sources, commit : {0}]
    /\ \A c, d \in InitialCatalogs : c.cat = d.cat => c = d
    /\ Project \in Envs

TableTypeOK ==
    /\ catalogs \subseteq CatalogRow
    /\ \A c, d \in catalogs : c.cat = d.cat => c = d
    /\ templates \subseteq TemplateRow
    /\ \A t \in templates : t.id <= lastId /\ \E c \in catalogs : c.cat = t.cat
    /\ \A t, u \in templates : t.id = u.id => t = u
    /\ lastId \in Nat
    /\ known \subseteq Catalogs \X Sources
    /\ changes \in 0..MaxChanges

TableInit ==
    /\ catalogs = InitialCatalogs
    /\ templates = {}
    /\ lastId = 0
    /\ known = {<<c.cat, c.src>> : c \in InitialCatalogs}
    /\ changes = 0

-----------------------------------------------------------------------------
(* The writers.                                                            *)

Change == changes < MaxChanges /\ changes' = changes + 1

Known(cat, src) == known' = known \cup {<<cat, src>>}

Without(cat) == {c \in catalogs : c.cat # cat}

Unjoined(cat) == {t \in templates : t.cat # cat}

\* The folders of a commit that hold a template, and the rows made of them,
\* in order, with new keys.  (Only the order of keys counts: the key of a
\* folder that holds none is left out.)
Held(src, commit) == {f \in Folders : Repo[<<src, commit, f>>] # << >>}

Indexed(cat, src, commit) ==
    {[id |-> lastId + f, cat |-> cat, folder |-> f, src |-> src, commit |-> commit] :
       f \in Held(src, commit)}

\* updateDb: the row of the catalog goes, with its templates, and the row the
\* refresh set out with comes back, which may have been changed or deleted
\* since, with the templates of the commit.
Refresh(cat, src, commit) ==
    /\ Change
    /\ catalogs' = Without(cat) \cup {[cat |-> cat, src |-> src, commit |-> commit]}
    /\ templates' = Unjoined(cat) \cup Indexed(cat, src, commit)
    /\ lastId' = lastId + NumFolders
    /\ UNCHANGED known

\* A PUT gives the row of the catalog another source or another name; its
\* templates and its commit stay.
Edit(c, cat, src) ==
    /\ Change
    /\ EnvOf[cat] = EnvOf[c.cat]
    /\ \A d \in catalogs \ {c} : d.cat # cat
    /\ catalogs' = (catalogs \ {c}) \cup {[c EXCEPT !.cat = cat, !.src = src]}
    /\ templates' = Unjoined(c.cat)
                      \cup {[t EXCEPT !.cat = cat] : t \in templates \ Unjoined(c.cat)}
    /\ Known(cat, src)
    /\ UNCHANGED lastId

Delete(c) ==
    /\ Change
    /\ catalogs' = catalogs \ {c}
    /\ templates' = Unjoined(c.cat)
    /\ UNCHANGED <<lastId, known>>

Create(cat, src) ==
    /\ Change
    /\ \A c \in catalogs : c.cat # cat
    /\ catalogs' = catalogs \cup {[cat |-> cat, src |-> src, commit |-> 0]}
    /\ Known(cat, src)
    /\ UNCHANGED <<templates, lastId>>

TableNext ==
    \/ \E row \in known, commit \in Commits : Refresh(row[1], row[2], commit)
    \/ \E c \in catalogs, cat \in Catalogs, src \in Sources : Edit(c, cat, src)
    \/ \E c \in catalogs : Delete(c)
    \/ \E cat \in Catalogs, src \in Sources : Create(cat, src)

-----------------------------------------------------------------------------
(* The queries.                                                            *)

\* The join: the templates of the project and the global ones.
Visible == {t \in templates : EnvOf[t.cat] \in {Project, Global}}

RowOf(cat) == CHOOSE c \in catalogs : c.cat = cat

\* logicalID is computed of the catalog row as it is now, not as it was when
\* the template was indexed.
Identity(t) == <<t.cat, RowOf(t.cat).src, t.folder>>

\* It has an error for a URL it cannot bind, and the query stops there.
Identified(S) == \A t \in S : RowOf(t.cat).src \notin Unparsable

IdentitiesIn(S) == {Identity(t) : t \in S}

\* ORDER BY t.id ASC LIMIT n
Limit(S, n) == {t \in S : Cardinality({u \in S : u.id < t.id}) < n}

LastOf(S) == CHOOSE t \in S : \A u \in S : u.id <= t.id

=============================================================================
