---------------------------- MODULE CatalogStore ----------------------------
(***************************************************************************)
(* The catalog table and the template rows that hang off it, with the      *)
(* statements manager/db.go, model/catalog.go and service/catalog.go run   *)
(* on them.  A row carries its index (the templates, versions and files    *)
(* that reference its id with ON DELETE CASCADE); every query reads them   *)
(* through a join with the catalog row, so they live and die with it.      *)
(* A statement, or a transaction, is one atomic step.                      *)
(***************************************************************************)
EXTENDS CatalogTypes

CONSTANTS
    InitialRows,    \* the table when the service starts
    InitialId,      \* and its AUTOINCREMENT counter
    Empty           \* the empty string in a PUT body

VARIABLES
    rows,           \* table catalog: [id, cat, index]
    nextId          \* AUTOINCREMENT

storeVars == <<rows, nextId>>

Row == [id : Nat, cat : Cat, index : Index]

ASSUME InitialRowsAssumption ==
    /\ InitialRows \subseteq Row
    /\ InitialId \in Nat
    /\ \A r \in InitialRows : r.id < InitialId
    /\ \A r, q \in InitialRows : r.id = q.id => r = q

StoreTypeOK ==
    /\ rows \subseteq Row
    /\ nextId \in Nat

StoreInit ==
    /\ rows = InitialRows
    /\ nextId = InitialId

-----------------------------------------------------------------------------

Keyed(r, e, n) == r.cat.env = e /\ r.cat.name = n

Named(e, n) == {r \in rows : Keyed(r, e, n)}

\* gorm's First orders by primary key.
First(S) == CHOOSE r \in S : \A q \in S : r.id <= q.id

\* catalogHasTemplates: the rows are joined by name and environment, not by
\* the id the caller read.
HasTemplates(e, n) ==
    /\ \E r \in Named(e, n), t \in Templates : r.index[t] # Missing
    /\ \A r \in Named(e, n), t \in Templates : r.index[t] # Unnamed

NewRow(cat, index) == [id |-> nextId, cat |-> cat, index |-> index]

\* Mutant: what is deleted is the row the caller read, field by field.
ReplaceCatalogByRow(cat, commit, index) ==
    /\ rows' = {r \in rows : r.cat # cat}
                 \cup {NewRow([cat EXCEPT !.commit = commit], index)}
    /\ nextId' = nextId + 1

\* updateDb, one transaction: the rows of that name and environment go, and
\* the caller's copy of the catalog comes back with the new commit and index.
ReplaceCatalog(cat, commit, index) ==
    /\ rows' = {r \in rows : ~Keyed(r, cat.env, cat.name)}
                 \cup {NewRow([cat EXCEPT !.commit = commit], index)}
    /\ nextId' = nextId + 1

CreateCatalog(cat) ==
    /\ rows' = rows \cup {NewRow(cat, Nothing)}
    /\ nextId' = nextId + 1

DeleteCatalogs(envs, n) ==
    /\ rows' = {r \in rows : ~(r.cat.env \in envs /\ r.cat.name = n)}
    /\ UNCHANGED nextId

\* gorm's Updates with a struct writes only the non-zero fields, so an empty
\* field of the request keeps the column, and commit_id is never touched.
Overlay(cat, new) ==
    [cat EXCEPT !.name = IF new.name = Empty THEN cat.name ELSE new.name,
                !.src  = IF new.src = Empty THEN cat.src ELSE new.src,
                !.pin  = IF new.pin = NoPin THEN cat.pin ELSE new.pin]

UpdateCatalogs(e, n, new) ==
    /\ rows' = {IF Keyed(r, e, n) THEN [r EXCEPT !.cat = Overlay(r.cat, new)] ELSE r
                  : r \in rows}
    /\ UNCHANGED nextId

-----------------------------------------------------------------------------

\* Primary keys are unique and the counter is ahead of all of them, so a row
\* written by a refresh is told from every row it replaces.
IdsFresh ==
    /\ \A r \in rows : r.id < nextId
    /\ \A r, q \in rows : r.id = q.id => r = q

\* There is never a second row of a catalog, although no unique index says so
\* and refreshes race one another (updateDb deletes by name and environment).
OneRowPerCatalog ==
    \A r, q \in rows : Keyed(q, r.cat.env, r.cat.name) => r = q

=============================================================================
