--------------------------- MODULE LaunchMaterial ---------------------------
(***************************************************************************)
(* What a client does with the identity of a template                      *)
(* (internal/aimetadata/versions.go, launch.go, launch_validate.go): it    *)
(* lists its versions page by page, asks for the material of one of them,  *)
(* and has a launch of such material validated.  Each request resolves the *)
(* identity to a row and goes on by the key of that row, in statements of  *)
(* their own, and the tables may change before each.  LaunchForm adds what *)
(* is made of the answers that come with a validation.  Requests refused   *)
(* before the first statement are left out, and so are the bounds on rows, *)
(* files and bytes beyond which there is a 503 or 422.                     *)
(***************************************************************************)
EXTENDS MetadataTables

CONSTANTS
    VersionPage,    \* rows of a page of versions
    Versions,       \* what a version is known by: its string and its revision
    Unsupported     \* places with questions that cannot be asked

VARIABLES
    pc,             \* the statement to come, or the answer to the last request
    req,            \* the request under way
    parent,         \* the key its template was found to have
    row,            \* a version, <<template key, n>>: the one selected, or the
                    \* last one listed (the marker)
    meta,           \* what was read of the version selected
    given,          \* versions listed so far
    handed          \* materials handed out

requestVars == <<pc, req, parent, row, meta>>
vars == <<tableVars, requestVars, given, handed>>

ASSUME LaunchAssumption ==
    /\ VersionPage \in Nat \ {0}
    /\ \A src \in Sources, commit \in Commits, folder \in Folders :
         Repo[<<src, commit, folder>>] \in Seq(Versions)

\* Where a version was read from: its row and its files are of that place.
Place == [src : Sources, commit : Commits, folder : Folders, version : Versions]

\* catalog-launch-v1: what the digest is taken of.
Digests == [asked : Identities, version : Versions, commit : 0..MaxCommit,
            files : Place]

Material == [digest : Digests, meta : Place, files : Place]

Requests == [kind : {"list"}, asked : Identities]
              \cup [kind : {"launch"}, asked : Identities, version : Versions]
              \cup [kind : {"validate"}, asked : Identities, version : Versions,
                    digest : Digests]

NoRequest == [kind |-> "none"]
NoRow == <<0, 0>>

Statements == {"parent", "anchor", "page", "select", "files"}

\* 200, 409, 404, 503 and 422; and nothing asked yet.
Answers == {"ok", "changed", "missing", "unavailable", "unsupported", "none"}

LaunchTypeOK ==
    /\ pc \in Statements \cup Answers
    /\ req \in Requests \cup {NoRequest}
    /\ pc \in Statements <=> req # NoRequest
    /\ parent \in Nat /\ parent <= lastId
    /\ row \in Nat \X Nat /\ row[1] <= lastId
    /\ meta \subseteq Place
    /\ given \subseteq (Nat \ {0}) \X (Nat \ {0})
    /\ handed \subseteq Material

LaunchInit ==
    /\ pc = "none" /\ req = NoRequest
    /\ parent = 0 /\ row = NoRow /\ meta = {}
    /\ given = {}
    /\ handed = {}

-----------------------------------------------------------------------------

Ask(request) ==
    /\ pc \in Answers
    /\ pc' = "parent"
    /\ req' = request
    /\ UNCHANGED <<tableVars, parent, row, meta, handed>>

ListVersions ==
    /\ \E id \in Identities : Ask([kind |-> "list", asked |-> id])
    /\ given' = {}

Launch ==
    /\ \E id \in Identities, v \in Versions :
         Ask([kind |-> "launch", asked |-> id, version |-> v])
    /\ UNCHANGED given

\* The client has the digest from the material it was handed.
Validate ==
    /\ \E m \in handed :
         Ask([kind |-> "validate", asked |-> m.digest.asked,
              version |-> m.digest.version, digest |-> m.digest])
    /\ UNCHANGED given

Answer(answer) ==
    /\ pc' = answer
    /\ req' = NoRequest
    /\ parent' = 0 /\ row' = NoRow /\ meta' = {}

\* A validation says of what is not found that it has changed.
NotFound == Answer(IF req.kind = "validate" THEN "changed" ELSE "missing")

\* The exact detail of the source: identities of all the rows are computed.
ReadParent ==
    /\ pc = "parent"
    /\ LET found == {t \in Visible : Identity(t) = req.asked}
       IN  IF ~Identified(Visible) THEN Answer("unavailable")
           ELSE IF found = {} THEN NotFound
           ELSE /\ \E t \in Limit(found, 1) : parent' = t.id
                /\ pc' = IF req.kind # "list" THEN "select"
                         ELSE IF row # NoRow THEN "anchor" ELSE "page"
                /\ UNCHANGED <<req, row, meta>>
    /\ UNCHANGED <<tableVars, given, handed>>

-----------------------------------------------------------------------------
(* The statement on versions: those of the template with a given key.  Its *)
(* every row has its identity computed anew and compared.                  *)

VersionsOf(t) == Repo[<<t.src, t.commit, t.folder>>]

VersionRows(key) ==
    UNION {{[of |-> t, n |-> n] : n \in DOMAIN VersionsOf(t)} :
             t \in {u \in Visible : u.id = key}}

Label(v) == VersionsOf(v.of)[v.n]

PlaceOf(v) == [src |-> v.of.src, commit |-> v.of.commit, folder |-> v.of.folder,
               version |-> Label(v)]

\* Mutant: the rows are those of the key, whatever identity it has now.
NotRechecked(rows) == TRUE

Rechecked(rows) == \A v \in rows : Identity(v.of) = req.asked

\* The handler gives no version identity twice.
Distinct(rows) == \A v, w \in rows : Label(v) = Label(w) => v = w

FirstRows(rows, count) == {v \in rows : Cardinality({w \in rows : w.n < v.n}) < count}

\* Mutant: a marker whose version is gone is only a place to go on from.
ReadVersionAnchorLax ==
    /\ pc = "anchor"
    /\ pc' = "page"
    /\ UNCHANGED <<tableVars, req, parent, row, meta, given, handed>>

\* The version of the marker has to be one of the template, as it is now.
ReadVersionAnchor ==
    /\ pc = "anchor"
    /\ LET anchor == {v \in VersionRows(parent) : <<parent, v.n>> = row}
       IN  IF anchor # {} /\ Rechecked(anchor)
           THEN pc' = "page" /\ UNCHANGED <<req, parent, row, meta>>
           ELSE Answer("changed")
    /\ UNCHANGED <<tableVars, given, handed>>

\* A page with a marker is followed by a request with that marker, which
\* resolves the identity again.
ReadVersionPage ==
    /\ pc = "page"
    /\ LET after == {v \in VersionRows(parent) : v.n > row[2]}
           rows == FirstRows(after, VersionPage + 1)
           page == FirstRows(rows, VersionPage)
       IN  IF ~Rechecked(rows) THEN Answer("changed") /\ UNCHANGED given
           ELSE IF ~Distinct(rows) THEN Answer("unavailable") /\ UNCHANGED given
           ELSE /\ given' = given \cup {<<parent, v.n>> : v \in page}
                /\ IF rows = page THEN Answer("ok")
                   ELSE /\ pc' = "parent"
                        /\ row' = <<parent, row[2] + VersionPage>>
                        /\ parent' = 0
                        /\ UNCHANGED <<req, meta>>
    /\ UNCHANGED <<tableVars, handed>>

SelectVersion ==
    /\ pc = "select"
    /\ LET rows == VersionRows(parent)
           selected == {v \in rows : Label(v) = req.version}
       IN  IF ~Rechecked(rows) THEN Answer("changed")
           ELSE IF selected = {} THEN NotFound
           ELSE /\ pc' = "files"
                /\ \E v \in FirstRows(selected, 1) :
                     row' = <<parent, v.n>> /\ meta' = {PlaceOf(v)}
                /\ UNCHANGED <<req, parent>>
    /\ UNCHANGED <<tableVars, given, handed>>

-----------------------------------------------------------------------------
(* The statement on files: those of the version with a given key, joined   *)
(* with its template and its catalog.                                      *)

\* Mutant: the version is looked up by its identity, not by its key.
FilesRowsByIdentity ==
    UNION {{v \in VersionRows(t.id) : Label(v) = req.version} :
             t \in {u \in Visible : Identity(u) = req.asked}}

FilesRows == {v \in VersionRows(row[1]) : v.n = row[2]}

\* Mutant: neither the commit nor the files are part of the digest.
DigestOfVersion(v) ==
    [asked |-> req.asked, version |-> req.version, commit |-> 0,
     files |-> CHOOSE p \in Place : TRUE]

Digest(v) == [asked |-> req.asked, version |-> req.version,
              commit |-> RowOf(v.of.cat).commit, files |-> PlaceOf(v)]

Made(v) == [digest |-> Digest(v), meta |-> CHOOSE m \in meta : TRUE,
            files |-> PlaceOf(v)]

\* The identities of template and version are those that were asked for.
Current == Rechecked(FilesRows) /\ \A v \in FilesRows : Label(v) = req.version

\* Its questions are parsed and built before it is handed out.
HandOut(v) ==
    \/ PlaceOf(v) \in Unsupported /\ Answer("unsupported") /\ UNCHANGED handed
    \/ /\ PlaceOf(v) \notin Unsupported
       /\ Answer("ok")
       /\ handed' = handed \cup {Made(v)}

\* The digest the client sent with its answers is that of the files now.
Compare(v) ==
    /\ Answer(IF Digest(v) = req.digest THEN "ok" ELSE "changed")
    /\ UNCHANGED handed

ReadFiles ==
    /\ pc = "files"
    /\ \/ FilesRows = {} /\ NotFound /\ UNCHANGED handed
       \/ ~Current /\ Answer("changed") /\ UNCHANGED handed
       \/ /\ Current
          /\ \E v \in FilesRows : IF req.kind = "launch" THEN HandOut(v) ELSE Compare(v)
    /\ UNCHANGED <<tableVars, given>>

TablesChange == TableNext /\ UNCHANGED <<requestVars, given, handed>>

Next ==
    \/ ListVersions \/ Launch \/ Validate
    \/ ReadParent \/ ReadVersionAnchor \/ ReadVersionPage
    \/ SelectVersion \/ ReadFiles
    \/ TablesChange

Init == TableInit /\ LaunchInit

Spec == Init /\ [][Next]_vars

-----------------------------------------------------------------------------
(* Properties.                                                             *)

TypeOK == TableTypeOK /\ LaunchTypeOK

\* The pages of a listing of versions are of one indexing of the template,
\* although each page resolves the identity again (the anchor is a version of
\* the row the identity has now).
OneIndexing == \A v, w \in given : v[1] = w[1]

\* The versions of a page belong to the identity that was asked for at the
\* moment they are read, whatever happened to the catalog since the identity
\* was resolved (the recheck of every row).
VersionsOfAsked ==
    [][\A v \in given' \ given :
         \E t \in Visible : t.id = v[1] /\ Identity(t) = req.asked]_vars

\* The material that is handed out is whole: what it says of the version and
\* the files are of one indexing, although two statements read them.
MaterialWhole == \A m \in handed : m.meta = m.files

\* What the statements rely on of what those before them have found.  From
\* the selection of a version to the statement on its files, what is known of
\* it is what the row of that key was read from, if that row is still there.
Selected ==
    pc = "files" =>
      \E place \in Place :
        /\ meta = {place}
        /\ \A t \in templates :
             t.id = row[1] => place = PlaceOf([of |-> t, n |-> row[2]])

\* The versions listed are of the template of the marker, and so is the next
\* page; a request is over with its answer.
Marked ==
    /\ pc \in Answers => row = NoRow
    /\ pc \in {"anchor", "page"} => req.kind = "list"
    /\ req.kind = "list" =>
         /\ pc \in {"parent", "anchor", "page"}
         /\ IF row = NoRow THEN given = {} ELSE \A v \in given : v[1] = row[1]
         /\ pc = "page" /\ row # NoRow => parent = row[1]

\* A digest stands for the files it was handed out with, and a client
\* validates what it was handed.
Kept ==
    /\ \A m \in handed : m.digest.files = m.files
    /\ req.kind = "validate" => \E m \in handed : m.digest = req.digest

\* The inductive invariant: what a request has read stays true of the row it
\* goes on with, or there is no such row (keys are not used again, and
\* ReadLaunch goes on by key).
LaunchInv == TypeOK /\ OneIndexing /\ MaterialWhole /\ Selected /\ Marked /\ Kept

\* A validation that is accepted is of the very files that were handed out:
\* no refresh or edit since has left the version with others.
AcceptedAsHanded ==
    [][pc = "files" /\ req.kind = "validate" /\ pc' = "ok"
         => \E m \in handed : /\ m.digest = req.digest
                              /\ \E v \in FilesRows : m.files = PlaceOf(v)]_vars

\* docs/releases/catalog-service-0.20.16.md of template IDs: "a changed source
\* or reused cache row cannot rebind a prior ID".  So an ID that was handed out
\* with files of one source is never handed out with those of another.
NeverRebound ==
    \A m, l \in handed : m.digest.asked = l.digest.asked => m.files.src = l.files.src

=============================================================================
