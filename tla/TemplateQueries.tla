--------------------------- MODULE TemplateQueries ---------------------------
(***************************************************************************)
(* The GETs of templates and versions (service/template.go, catalog.go):   *)
(* each puts a response together from several queries (model/template.go,  *)
(* model/version.go) with no transaction around them, while requests       *)
(* change the catalogs and a refresh replaces rows (UpdateTx).  Queries    *)
(* after the first go on from the keys of template rows, which are never   *)
(* used again; two of them go by name.                                     *)
(***************************************************************************)
EXTENDS UpdateTx

CONSTANTS
    Tagged,         \* <<t, c>>: in commit c template t is in a category
    Queries         \* GETs that may be asked

VARIABLES
    get             \* the GET in progress, with what its queries returned

vars == <<storeVars, apiVars, txVars, get>>

AnyName == Empty
Blank   == Empty

\* What a GET asks: templates of one catalog or of all, in the category or not;
\* of GET .../catalogs/<name>/templates and of a template or a version the name
\* is in the path.
Query == [kind : {"templates", "catalogTemplates", "template", "version"},
          env : AllEnvs, name : Names \cup {AnyName},
          category : {"any", "is", "isNot"}, template : Templates]

ASSUME QueryAssumption ==
    /\ Queries \subseteq {q \in Query : q.kind # "templates" => q.name # AnyName}
    /\ Tagged \subseteq Templates \X Commits

\* A template row: its catalog_id, its folder, and the commit its contents are
\* of, which no column says.
Item == [id : Nat, template : Templates, commit : Commits]

Name == Names \cup {Blank}

NoGet == [pc |-> "idle", asked |-> CHOOSE q \in Query : TRUE, items |-> {},
          tagged |-> {}, whole |-> {}, names |-> {}, version |-> {}]

QueryTypeOK ==
    get \in [pc : {"idle", "templates", "categories", "versions", "catalogs",
                   "duplicates", "template", "ofTemplate", "version", "files",
                   "respond"},
             asked : Query, items : SUBSET Item, tagged : SUBSET Item,
             whole : SUBSET Item, names : SUBSET (Nat \X Name),
             version : SUBSET Item]

-----------------------------------------------------------------------------
(* What the queries find.                                                  *)

Catalogs(asked) ==
    {r \in rows : /\ r.cat.env \in {asked.env, Global}
                  /\ asked.name \in {AnyName, r.cat.name}}

ItemsOf(r) ==
    {[id |-> r.id, template |-> t, commit |-> r.index[t]] :
       t \in {u \in Templates : r.index[u] # Missing}}

\* catalog_template joined with catalog.
TemplatesOf(asked) == UNION {ItemsOf(r) : r \in Catalogs(asked)}

\* What references a template row goes with it; a template whose catalog was
\* deleted without a cascade is still there, and so is what references it.
StillThere(i) ==
    \/ \E r \in rows : r.id = i.id /\ r.index[i.template] # Missing
    \/ <<i.id, i.template>> \in left

Found == {i \in get.items : StillThere(i)}

-----------------------------------------------------------------------------
(* A GET, a query a step.                                                  *)

StartGet ==
    /\ get.pc = "idle"
    /\ \E q \in Queries :
         get' = [NoGet EXCEPT !.asked = q,
                   !.pc = IF q.kind \in {"template", "version"} THEN "template"
                          ELSE "templates"]

\* Mutant: the versions are read before the categories.
VersionsFirst ==
    [templates |-> "versions", versions |-> "categories", categories |-> "catalogs",
     ofTemplate |-> IF get.asked.kind = "version" THEN "version" ELSE "respond",
     catalogs |-> IF get.asked.kind = "templates" THEN "duplicates" ELSE "respond",
     duplicates |-> "respond", template |-> "ofTemplate", version |-> "files",
     files |-> "respond"]

\* The query that follows: LookupTemplates, and removeDuplicateCatalogTemplate
\* in getTemplates; LookupTemplate, and LookupVersionBy... in getTemplate.
\* (Queries for labels are left out, as is the catalog of one template.)
Following ==
    [templates |-> "categories", categories |-> "versions", versions |-> "catalogs",
     ofTemplate |-> IF get.asked.kind = "version" THEN "version" ELSE "respond",
     catalogs |-> IF get.asked.kind = "templates" THEN "duplicates" ELSE "respond",
     duplicates |-> "respond", template |-> "ofTemplate", version |-> "files",
     files |-> "respond"]

\* The query at pc, and with it what it found under field.
Reads(pc, field, found) ==
    /\ get.pc = pc
    /\ get' = [get EXCEPT !.pc = Following[pc], ![field] = found]

ReadTemplates == Reads("templates", "items", TemplatesOf(get.asked))

ReadCategories ==
    Reads("categories", "tagged", {i \in Found : <<i.template, i.commit>> \in Tagged})

ReadVersions == Reads("versions", "whole", Found)

\* catalogMap: a name for each catalog that still has one of the templates.
ReadCatalogNames ==
    Reads("catalogs", "names",
          {<<r.id, r.cat.name>> : r \in {q \in rows : \E i \in Found : i.id = q.id}})

Last(S) == CHOOSE r \in S : \A q \in S : q.id <= r.id

\* The catalogs of the templates that were found, as they are now.
NamedAlike(n) == {r \in rows : r.cat.name = n /\ \E i \in get.items : i.id = r.id}

\* removeDuplicateCatalogTemplate goes through them by key.  The first of a name
\* is kept until a global one follows, which is kept instead; what is dropped in
\* the end is one catalog of each name, the last that was found a duplicate.
Dropped(S) ==
    LET last    == Last(S)
        globals == {r \in S \ {last} : r.cat.env = Global}
        kept    == IF globals # {} THEN Last(globals) ELSE First(S \ {last})
    IN  IF last.cat.env = Global THEN kept ELSE last

Duplicates ==
    {Dropped(NamedAlike(n)) :
       n \in {m \in Names : \E r, q \in NamedAlike(m) : r # q}}

RemoveDuplicates ==
    Reads("duplicates", "items", {i \in get.items : \A r \in Duplicates : r.id # i.id})

Response404 == get' = NoGet

\* LookupTemplate: one row of that catalog name and folder.
ReadTemplate ==
    /\ get.pc = "template"
    /\ LET found == {i \in TemplatesOf(get.asked) : i.template = get.asked.template}
       IN  \/ \E i \in found : Reads("template", "items", {i})
           \/ found = {} /\ Response404

\* fillInTemplate: its versions, by its key.
ReadVersionsOfTemplate == Reads("ofTemplate", "whole", Found)

\* Mutant: the name of the catalog is left out of the query.
ReadVersionByFolder ==
    /\ get.pc = "version"
    /\ LET found == {i \in TemplatesOf([get.asked EXCEPT !.name = AnyName]) :
                      i.template = get.asked.template}
       IN  \/ \E i \in found : Reads("version", "version", {i})
           \/ found = {} /\ Response404

\* LookupVersionByRevision, ...ByVersion: by the names again.
ReadVersion ==
    /\ get.pc = "version"
    /\ LET found == {i \in TemplatesOf(get.asked) : i.template = get.asked.template}
       IN  \/ \E i \in found : Reads("version", "version", {i})
           \/ found = {} /\ Response404

\* lookupFiles, by the key of the version.
ReadFiles == Reads("files", "whole", {i \in get.version : StillThere(i)})

Respond ==
    /\ get.pc = "respond"
    /\ get' = NoGet

GetStep ==
    \/ StartGet \/ ReadTemplates \/ ReadCategories \/ ReadVersions \/ ReadCatalogNames
    \/ RemoveDuplicates \/ ReadTemplate \/ ReadVersionsOfTemplate \/ ReadVersion
    \/ ReadFiles \/ Respond

Init == ApiInitAll /\ TxInit /\ get = NoGet

Next ==
    \/ GetStep /\ UNCHANGED <<storeVars, apiVars, txVars>>
    \/ TxNext /\ UNCHANGED <<apiVars, get>>
    \/ RequestStep /\ UNCHANGED get

Spec == Init /\ [][Next]_vars

-----------------------------------------------------------------------------
(* Properties.                                                             *)

TypeOK == StoreTypeOK /\ ApiTypeOK /\ TxTypeOK /\ QueryTypeOK

Filtered == [any |-> get.items, is |-> get.tagged, isNot |-> get.items \ get.tagged]

\* The templates of a listing: those that pass its filter and have a version to
\* link to (getTemplates and getCatalogTemplates leave out the others).
Listed ==
    IF get.pc = "respond" /\ get.asked.kind \in {"templates", "catalogTemplates"}
    THEN get.items \cap get.whole \cap Filtered[get.asked.category] ELSE {}

NamesOf(i) == {n \in Names : <<i.id, n>> \in get.names}

\* A template in a listing by category is in that category, and none in a
\* listing that leaves it out is, although the links to categories are read
\* after the templates, and may be gone by then: so are the versions, which are
\* read later still.
FilterSound ==
    \A i \in Listed : get.asked.category # "any" =>
        (get.asked.category = "is" <=> <<i.template, i.commit>> \in Tagged)

\* A listing has a catalog's templates all or not at all: it never shows half of
\* what updateDb wrote, or half of what it deletes.
ListedWhole ==
    get.asked.category = "any" =>
      \A i \in Listed :
        {j.template : j \in {k \in Listed : k.id = i.id}}
          = {t \in Templates : IndexOf(i.commit)[t] # Missing}

\* No two templates of GET .../templates have one id (catalog name and folder):
\* the names are read some queries after the templates, when catalogs may have
\* been renamed, created or replaced.  Of a name that a refresh has added there
\* may be two: removeDuplicateCatalogTemplate asks for the catalogs once more, and
\* finds no duplicate when one of them is gone by then.
ListedOnce ==
    get.asked.kind = "templates" =>
      \A i, j \in Listed :
        i.template = j.template /\ (NamesOf(i) \cap NamesOf(j)) \ added # {} => i = j

\* The version getTemplate joins with a template is found by the names in the
\* path, not by the template's key; it is nonetheless that template's own, as
\* long as the template is still there under its name and no refresh has added a
\* catalog of that name.
VersionOfTemplate ==
    [][get.pc = "version" /\ get'.pc = "files" /\ get.asked.name \notin added =>
         \A i \in get.items \cap TemplatesOf(get.asked) : get'.version = {i}]_vars

-----------------------------------------------------------------------------
(* The inductive invariant the proofs rest on.                             *)

Listing == {"templates", "catalogTemplates"}

\* The templates indexed with i.
Mates(i) ==
    {[id |-> i.id, template |-> t, commit |-> i.commit] :
       t \in {u \in Templates : IndexOf(i.commit)[u] # Missing}}

ById(S) == \A i \in S : {j \in S : j.id = i.id} = Mates(i)

\* A template row that was read is of the whole index its catalog row has, if it
\* is there; when the catalog was deleted all of the index is left or none.
Known(i) ==
    /\ i.id < nextId
    /\ IndexOf(i.commit)[i.template] # Missing
    /\ \A r \in rows : r.id = i.id => r.index = IndexOf(i.commit)
    /\ \A t \in Templates : IndexOf(i.commit)[t] # Missing =>
         (<<i.id, t>> \in left <=> <<i.id, i.template>> \in left)

HasTag(i) == <<i.template, i.commit>> \in Tagged

\* A listing has read catalogs by the whole, and what it missed of the category
\* is gone for good.
ListingRead ==
    /\ ById(get.items) /\ ById(get.whole)
    /\ \A i \in get.items : Known(i)
    /\ \A i \in get.tagged : HasTag(i)
    /\ get.pc \in {"templates", "categories", "versions"} => get.whole = {}
    /\ get.pc = "versions" =>
         \A i \in get.items \ get.tagged : HasTag(i) => ~StillThere(i)
    /\ \A i \in get.whole : HasTag(i) => i \in get.tagged

GetRead ==
    /\ get.pc # "idle" => get.asked \in Queries
    /\ get.pc \in {"templates", "categories", "versions", "catalogs", "duplicates"}
         => get.asked.kind \in Listing
    /\ get.pc \in {"template", "ofTemplate", "version", "files"}
         => get.asked.kind \notin Listing
    /\ IF get.asked.kind \in Listing THEN ListingRead
       ELSE \A i \in get.items : i.template = get.asked.template

\* Everything is well-typed, a transaction has changed nothing but its own
\* catalog, and what a GET has read so far is true of the tables still, or has
\* gone from them for good: how the queries of one GET fit together although
\* nothing but the order they run in ties them to each other.
QueriesInv == TypeOK /\ TxInv /\ GetRead

\* A listing is of catalogs its environment sees, and no two of its catalogs had
\* one name when the names were read, but for names a refresh had added.
VisibleRead ==
    get.asked.kind = "templates" =>
      /\ \A i \in get.items, r \in rows :
           r.id = i.id => r.cat.env \in {get.asked.env, Global}
      /\ \A m, n \in get.names : m[2] = n[2] /\ m[2] \notin added => m[1] = n[1]

\* Of requests one after the other: but for names that a refresh has added, names
\* are unique, what a check has found of a name is so until the write that relies
\* on it, and a listing has read each name of one catalog.
SequentialInv == NamesInv /\ VisibleRead

=============================================================================
