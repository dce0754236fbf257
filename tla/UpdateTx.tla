------------------------------ MODULE UpdateTx ------------------------------
(***************************************************************************)
(* updateDb (manager/db.go) a statement at a time, beside the requests     *)
(* that change catalogs.  CatalogStore takes it for one step; what makes   *)
(* it one is the transaction: the database lets no other writer in after   *)
(* its first write, readers see what is committed, and whatever fails      *)
(* rolls everything back.                                                  *)
(*                                                                         *)
(* What updateDb writes is a copy of a catalog that the refresh took long  *)
(* before, of a row or of the configuration, and it writes it whether or   *)
(* not the row is there still.  So a catalog that was deleted may be back, *)
(* beside whatever took its name meanwhile.                                *)
(***************************************************************************)
EXTENDS CatalogAPI

CONSTANTS
    Configured,     \* the global catalogs of the configuration: Cat, no commit
    Cascading,      \* whether a connection of the pool has foreign_keys on:
                    \* the values there may be
    MaxUpdates      \* bound: transactions begun

VARIABLES
    tx,             \* the transaction under way, with the tables as it sees them
    left,           \* template rows whose catalog row is gone: <<id, template>>
    updates,        \* how many were begun
    copies,         \* the catalogs that refreshes go on with
    added           \* history: names a transaction gave a catalog that no row
                    \* had, and names such a catalog was renamed to

txVars == <<tx, left, updates, copies, added>>

Keys == Nat \X Templates

NoTx == [pc |-> "none", cat |-> NoCat, commit |-> NoCommit,
         rows |-> {}, left |-> {}, at |-> 1]

Indexes == {Nothing} \cup {IndexOf(c) : c \in Commits}

\* Template rows without a folder name, from old releases, are left out.
\* The configuration is the same throughout and names the global rows, so that
\* removeCatalogsNotInConfig finds none to remove (CatalogRefresh has it).
ASSUME TxAssumption ==
    /\ \A r \in InitialRows : r.index \in Indexes
    /\ Configured \subseteq {c \in Cat : c.env = Global /\ c.commit = NoCommit}
    /\ \A r \in InitialRows : r.cat.env = Global => \E c \in Configured : c.name = r.cat.name
    /\ Cascading \subseteq BOOLEAN /\ Cascading # {}
    /\ MaxUpdates \in Nat

TxTypeOK ==
    /\ tx \in [pc : {"none", "create", "templates", "commit"},
               cat : Cat, commit : 0..MaxCommit, rows : SUBSET Row,
               left : SUBSET Keys, at : 1..(NumTemplates + 1)]
    /\ left \subseteq Keys
    /\ \A r \in rows : r.id < nextId
    /\ updates \in 0..MaxUpdates
    /\ copies \subseteq Cat
    /\ added \subseteq Names

TxInit ==
    /\ tx = NoTx
    /\ left = {}
    /\ updates = 0
    /\ copies = {}
    /\ added = {}

-----------------------------------------------------------------------------

TemplateKeys(S) == {k \in {r.id : r \in S} \X Templates :
                      \E r \in S : r.id = k[1] /\ r.index[k[2]] # Missing}

\* What a DELETE of the catalog rows in S leaves behind: nothing with
\* ON DELETE CASCADE, their templates, versions and files without.
Leaves(S) == \E cascades \in Cascading :
                 left' = left \cup (IF cascades THEN {} ELSE TemplateKeys(S))

\* lookupCatalogs: the catalogs of an environment, or those of all of them.
ReadCatalogs ==
    /\ updates < MaxUpdates
    /\ \E envs \in {AllEnvs} \cup {{e} : e \in Envs} :
         copies' = copies \cup {r.cat : r \in {q \in rows : q.cat.env \in envs}}
    /\ UNCHANGED <<storeVars, tx, left, updates, added>>

\* refreshConfigCatalogs goes on with the row of a configured catalog if that is
\* of the source and the pin the configuration has, with a new one otherwise.
Existing(cat) ==
    LET found == Named(Global, cat.name)
    IN  IF found # {} /\ First(found).cat.src = cat.src /\ First(found).cat.pin = cat.pin
        THEN First(found).cat ELSE cat

ReadConfigured ==
    /\ updates < MaxUpdates
    /\ \E cat \in Configured : copies' = copies \cup {Existing(cat)}
    /\ UNCHANGED <<storeVars, tx, left, updates, added>>

\* Begin takes no lock; the DELETE, the first write, does, and from then on the
\* tables the transaction works on are its own.  Other refreshes may have the
\* same copy, so it stays.
DeleteOldRow ==
    /\ tx.pc = "none"
    /\ updates < MaxUpdates
    /\ updates' = updates + 1
    /\ \E cat \in copies, c \in Commits, cascades \in Cascading :
         LET old == Named(cat.env, cat.name)
         IN  tx' = [pc |-> "create", cat |-> cat, commit |-> c, rows |-> rows \ old,
                    left |-> left \cup (IF cascades THEN {} ELSE TemplateKeys(old)),
                    at |-> 1]
    /\ UNCHANGED <<storeVars, left, copies, added>>

CreateNewRow ==
    /\ tx.pc = "create"
    /\ tx' = [tx EXCEPT !.pc = "templates",
                        !.rows = @ \cup {NewRow([tx.cat EXCEPT !.commit = tx.commit], Nothing)}]
    /\ UNCHANGED <<storeVars, left, updates, copies, added>>

\* A template row with its labels, links to categories, versions and files.
WithTemplate(t) ==
    {IF r.id = nextId THEN [r EXCEPT !.index[t] = IndexOf(tx.commit)[t]] ELSE r : r \in tx.rows}

NextTemplate == IF tx.at = NumTemplates THEN "commit" ELSE "templates"

\* Mutant: each template is committed by itself.
CreateTemplateAutocommit ==
    /\ tx.pc = "templates"
    /\ tx' = [tx EXCEPT !.pc = NextTemplate, !.at = @ + 1, !.rows = WithTemplate(tx.at)]
    /\ rows' = WithTemplate(tx.at)
    /\ UNCHANGED <<nextId, left, updates, copies, added>>

CreateTemplate ==
    /\ tx.pc = "templates"
    /\ tx' = [tx EXCEPT !.pc = NextTemplate, !.at = @ + 1, !.rows = WithTemplate(tx.at)]
    /\ UNCHANGED <<storeVars, left, updates, copies, added>>

\* For the history: the name of a catalog that is not replaced but put in.
AddedNames == IF Named(tx.cat.env, tx.cat.name) = {} THEN {tx.cat.name} ELSE {}

\* Mutant: the key of the new row is free again.
CommitReusesKey ==
    /\ tx.pc = "commit"
    /\ rows' = tx.rows
    /\ left' = tx.left
    /\ tx' = NoTx
    /\ added' = added \cup AddedNames
    /\ UNCHANGED <<nextId, updates, copies>>

Commit ==
    /\ tx.pc = "commit"
    /\ rows' = tx.rows
    /\ nextId' = nextId + 1
    /\ left' = tx.left
    /\ tx' = NoTx
    /\ added' = added \cup AddedNames
    /\ UNCHANGED <<updates, copies>>

\* Mutant: what was done so far is committed when a statement fails.
RollbackCommits ==
    /\ tx.pc # "none"
    /\ tx' = NoTx
    /\ rows' = tx.rows
    /\ nextId' = nextId + 1
    /\ left' = tx.left
    /\ added' = added \cup AddedNames
    /\ UNCHANGED <<updates, copies>>

\* A statement fails, the commit does, or the process dies.
Rollback ==
    /\ tx.pc # "none"
    /\ tx' = NoTx
    /\ UNCHANGED <<storeVars, left, updates, copies, added>>

TxNext ==
    \/ ReadCatalogs \/ ReadConfigured
    \/ DeleteOldRow \/ CreateNewRow \/ CreateTemplate
    \/ Commit \/ Rollback

\* For the history: the names that catalogs of an added name are renamed to.
Renamed == {q.cat.name : q \in {p \in rows' : \E r \in rows : r.id = p.id /\ r.cat.name \in added}}

\* A statement of a request; one that writes waits for the lock.
RequestStep ==
    /\ ApiNext
    /\ tx.pc = "none" \/ storeVars' = storeVars
    /\ Leaves({r \in rows : \A q \in rows' : q.id # r.id})
    /\ added' = added \cup Renamed
    /\ UNCHANGED <<tx, updates, copies>>

-----------------------------------------------------------------------------
(* Properties.                                                             *)

\* What others see of updateDb is one step, the one CatalogStore takes it for:
\* the row of the catalog replaced, under a new key, by a row with the whole
\* index of the commit.  A transaction that fails half way is not seen at all.
UpdateIsAtomic ==
    [][tx.pc # "none" /\ rows' # rows =>
         ReplaceCatalog(tx.cat, tx.commit, IndexOf(tx.commit))]_<<storeVars, txVars>>

\* A name stands for one catalog in each environment, counting the global ones
\* that it sees, although no unique index says so and refreshes write beside
\* requests: unless a refresh has put a catalog in under a name that none had,
\* which a request may have been checking, or have taken.
NamesUnique ==
    \A r, q \in rows :
      /\ r.cat.name = q.cat.name
      /\ r.cat.env = q.cat.env \/ Global \in {r.cat.env, q.cat.env}
      => r = q \/ r.cat.name \in added

-----------------------------------------------------------------------------
(* The inductive invariant the proofs rest on.                             *)

\* What is written of the index of commit c before template n.
Partial(c, n) == [t \in Templates |-> IF t < n THEN IndexOf(c)[t] ELSE Missing]

NewRowInTx == NewRow([tx.cat EXCEPT !.commit = tx.commit], Partial(tx.commit, tx.at))

\* The tables of a transaction are everybody's but for its catalog, which has a
\* new row with as much of the index as was written.
TxTables ==
    tx.pc # "none" =>
      /\ tx.commit \in Commits
      /\ tx.pc = "create" => tx.at = 1
      /\ tx.pc = "templates" => tx.at <= NumTemplates
      /\ tx.pc = "commit" => tx.at = NumTemplates + 1
      /\ tx.rows = (rows \ Named(tx.cat.env, tx.cat.name))
                     \cup (IF tx.pc = "create" THEN {} ELSE {NewRowInTx})
      /\ \/ tx.left = left
         \/ tx.left = left \cup TemplateKeys(Named(tx.cat.env, tx.cat.name))

\* The template rows that were left have keys of no catalog, and of no future one.
LeftGone == \A k \in left : k[1] < nextId /\ \A r \in rows : r.id # k[1]

RowsIndexed == \A r \in rows : r.index \in Indexes

GlobalNames == {r.cat.name : r \in {q \in InitialRows : q.cat.env = Global}}

\* Requests come one after the other and are about environments, and no PUT asks
\* for the name of a global catalog (isDuplicateGlobalName would let it).
Sequential ==
    /\ \A c, d \in Clients : c = d
    /\ \A cat \in Creates : cat.env # Global
    /\ \A u \in Updates : u.env # Global /\ u.new.name \notin GlobalNames

GlobalsKnown == \A r \in rows : r.cat.env = Global => r.cat.name \in GlobalNames \cup added

\* What the checks of a request have found of a name is still so when it writes,
\* but for names that a refresh has added.
StillChecked ==
    \A c \in Clients :
      LET new == call[c].new.name
      IN  /\ call[c].pc # "idle" => call[c].env # Global
          /\ call[c].pc = "insert" => new \in added \/ ~IsDuplicateName(call[c].env, new)
          /\ call[c].pc \in {"dupGlobal", "dupEnv", "exists", "write"} => new \notin GlobalNames
          /\ call[c].pc \in {"exists", "write"}
               => new \in added \/ ~IsDuplicateEnvName(call[c].env, new, call[c].name)

NamesInv == NamesUnique /\ GlobalsKnown /\ StillChecked

TxInv == IdsFresh /\ CreatesNamed /\ TxTables /\ LeftGone /\ RowsIndexed

=============================================================================
