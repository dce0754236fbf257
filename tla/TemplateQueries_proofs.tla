----------------------- MODULE TemplateQueries_proofs -----------------------
(***************************************************************************)
(* updateDb is one step to everybody else, and the GETs of templates read  *)
(* catalogs by the whole, for every number of catalogs, templates,         *)
(* commits, requests and refreshes.                                        *)
(***************************************************************************)
EXTENDS TemplateQueries, UpdateTx_proofs, WellFoundedInduction

-----------------------------------------------------------------------------
(* Rows and indexes.                                                       *)

LEMMA Numbers ==
  /\ MaxCommit \in Nat \ {0} /\ NumTemplates \in Nat \ {0}
  /\ Commits \subseteq Nat \ {0} /\ Commits \subseteq 0..MaxCommit
  /\ Templates \subseteq Nat \ {0} /\ 1 \in Templates
  /\ Commits \subseteq Unnamed..MaxCommit /\ Missing \in Unnamed..MaxCommit
BY BoundsAssumption DEF Commits, Templates, Unnamed, Missing

LEMMA IndexIs ==
  ASSUME NEW c \in Commits
  PROVE  /\ IndexOf(c) \in Index
         /\ \A t \in Templates : IndexOf(c)[t] # Missing => IndexOf(c)[t] = c
BY Numbers DEF IndexOf, Index, Missing

LEMMA PartialIs ==
  ASSUME NEW c \in Commits
  PROVE  /\ \A n : Partial(c, n) \in Index
         /\ Partial(c, 1) = Nothing
         /\ Partial(c, NumTemplates + 1) = IndexOf(c)
         /\ \A n \in Templates :
              [Partial(c, n) EXCEPT ![n] = IndexOf(c)[n]] = Partial(c, n + 1)
<1>1. \A n : Partial(c, n) \in Index
  BY Numbers, IndexIs DEF Partial, Index
<1>2. Partial(c, 1) = Nothing
  BY Numbers DEF Partial, Nothing, Templates
<1>3. Partial(c, NumTemplates + 1) = IndexOf(c)
  <2>1. \A t \in Templates : t < NumTemplates + 1
    BY Numbers DEF Templates
  <2>2. IndexOf(c) = [t \in Templates |-> IndexOf(c)[t]]
    BY DEF IndexOf
  <2> QED
    BY <2>1, <2>2 DEF Partial
<1>4. ASSUME NEW n \in Templates
      PROVE  [Partial(c, n) EXCEPT ![n] = IndexOf(c)[n]] = Partial(c, n + 1)
  <2>1. \A t \in Templates : t < n + 1 <=> t < n \/ t = n
    BY Numbers
  <2> QED
    BY <2>1 DEF Partial
<1> QED
  BY <1>1, <1>2, <1>3, <1>4

\* A template that is in the index of a row is of the commit of that index.
LEMMA RowIndex ==
  ASSUME TypeOK, RowsIndexed, NEW r \in rows, NEW t \in Templates, r.index[t] # Missing
  PROVE  r.index[t] \in Commits /\ r.index = IndexOf(r.index[t])
<1>1. r.index # Nothing
  BY DEF Nothing
<1>2. PICK c \in Commits : r.index = IndexOf(c)
  BY <1>1 DEF RowsIndexed, Indexes
<1> QED
  BY <1>2, IndexIs

LEMMA KeysOf ==
  ASSUME TypeOK, NEW S \in SUBSET rows
  PROVE  /\ TemplateKeys(S) \subseteq Keys
         /\ \A k \in TemplateKeys(S) : \E r \in S : r.id = k[1]
         /\ \A r \in S, t \in Templates : r.index[t] # Missing => <<r.id, t>> \in TemplateKeys(S)
         /\ \A id, t : <<id, t>> \in TemplateKeys(S) =>
              \E r \in S : r.id = id /\ r.index[t] # Missing
<1>1. \A r \in S : r.id \in Nat
  BY DEF TypeOK, StoreTypeOK, Row
<1> QED
  BY <1>1 DEF TemplateKeys, Keys

-----------------------------------------------------------------------------
(* What any step does to the tables.                                       *)

\* Rows keep their index as long as they are there, keys are not used again, and
\* what is left are templates of rows that went.
TablesMove ==
  /\ nextId' \in Nat /\ nextId <= nextId'
  /\ \A r \in rows' : r.id < nextId => \E q \in rows : q.id = r.id /\ q.index = r.index
  /\ \E S \in SUBSET rows :
       /\ left' = left \/ left' = left \cup TemplateKeys(S)
       /\ \A r \in S, q \in rows' : r.id # q.id

LEMMA ApiInvOf == TypeOK /\ TxInv => ApiInv
BY DEF TypeOK, TxInv, ApiInv

\* An API step, as it is seen by a row.
LEMMA ApiMoves ==
  ASSUME TypeOK, TxInv, ApiNext
  PROVE  /\ nextId' \in Nat /\ nextId <= nextId'
         /\ \A r \in rows' : r.id < nextId => \E q \in rows : q.id = r.id /\ q.index = r.index
         /\ RowsIndexed'
<1>1. ApiInv /\ nextId \in Nat /\ StoreTypeOK /\ IdsFresh /\ RowsIndexed
  BY ApiInvOf DEF TypeOK, StoreTypeOK, TxInv
<1>2. CASE UNCHANGED storeVars
  BY <1>1, <1>2 DEF storeVars, RowsIndexed
<1>3. ASSUME NEW cat \in Cat, CreateCatalog(cat)
      PROVE  /\ nextId' \in Nat /\ nextId <= nextId'
             /\ \A r \in rows' : r.id < nextId => \E q \in rows : q.id = r.id /\ q.index = r.index
             /\ RowsIndexed'
  <2> DEFINE new == NewRow(cat, Nothing)
  <2>1. rows' = rows \cup {new} /\ nextId' = nextId + 1
    BY <1>3 DEF CreateCatalog
  <2>2. new.id = nextId /\ new.index \in Indexes
    BY DEF NewRow, Indexes
  <2> HIDE DEF new
  <2> QED
    BY <1>1, <2>1, <2>2 DEF RowsIndexed
<1>4. ASSUME NEW e, NEW n, NEW new \in Body, UpdateCatalogs(e, n, new)
      PROVE  /\ nextId' \in Nat /\ nextId <= nextId'
             /\ \A r \in rows' : r.id < nextId => \E q \in rows : q.id = r.id /\ q.index = r.index
             /\ RowsIndexed'
  <2>1. nextId' = nextId
    BY <1>4 DEF UpdateCatalogs
  <2>2. \A r \in rows' : \E q \in rows : r.id = q.id /\ r.index = q.index
    BY <1>1, <1>4, EditStore
  <2> QED
    BY <1>1, <2>1, <2>2 DEF RowsIndexed
<1>5. ASSUME NEW envs, NEW n, DeleteCatalogs(envs, n)
      PROVE  /\ nextId' \in Nat /\ nextId <= nextId'
             /\ \A r \in rows' : r.id < nextId => \E q \in rows : q.id = r.id /\ q.index = r.index
             /\ RowsIndexed'
  BY <1>1, <1>5 DEF DeleteCatalogs, RowsIndexed
<1> QED
  BY <1>1, <1>2, <1>3, <1>4, <1>5, ApiRows

LEMMA RequestMoves ==
  ASSUME TypeOK, TxInv, RequestStep
  PROVE  TablesMove /\ RowsIndexed'
<1> DEFINE S == {r \in rows : \A q \in rows' : q.id # r.id}
<1>1. S \in SUBSET rows /\ \A r \in S, q \in rows' : r.id # q.id
  OBVIOUS
<1>2. left' = left \/ left' = left \cup TemplateKeys(S)
  BY DEF RequestStep, Leaves
<1> HIDE DEF S
<1> QED
  BY <1>1, <1>2, ApiMoves DEF RequestStep, TablesMove

\* The row a transaction writes.
LEMMA NewRowIs ==
  ASSUME TypeOK, TxInv, tx.pc # "none"
  PROVE  /\ NewRowInTx \in Row /\ NewRowInTx.id = nextId
         /\ NewRowInTx.index = Partial(tx.commit, tx.at)
         /\ NewRowInTx.cat = [tx.cat EXCEPT !.commit = tx.commit]
         /\ tx.commit \in Commits
<1>1. tx.commit \in Commits /\ tx.cat \in Cat /\ nextId \in Nat
  BY DEF TxInv, TxTables, TypeOK, TxTypeOK, StoreTypeOK
<1>2. [tx.cat EXCEPT !.commit = tx.commit] \in Cat
  BY <1>1, Numbers DEF Cat
<1> QED
  BY <1>1, <1>2, PartialIs DEF NewRowInTx, NewRow, Row

LEMMA CommitMoves ==
  ASSUME TypeOK, TxInv, Commit
  PROVE  TablesMove /\ RowsIndexed'
<1> DEFINE old == Named(tx.cat.env, tx.cat.name)
<1>1. /\ tx.pc = "commit" /\ tx.at = NumTemplates + 1 /\ nextId \in Nat
      /\ rows' = (rows \ old) \cup {NewRowInTx} /\ nextId' = nextId + 1
      /\ left' = left \/ left' = left \cup TemplateKeys(old)
  BY DEF Commit, TxInv, TxTables, TypeOK, StoreTypeOK
<1>2. NewRowInTx.id = nextId /\ NewRowInTx.index \in Indexes
  BY <1>1, NewRowIs, PartialIs DEF Indexes
<1>3. \A r \in rows : r.id < nextId /\ r.id \in Nat
  BY DEF TxInv, IdsFresh, TypeOK, StoreTypeOK, Row
<1>4. old \in SUBSET rows
  BY DEF Named
<1>5. \A r \in old, q \in rows' : r.id # q.id
  BY <1>1, <1>2, <1>3, <1>4 DEF TxInv, IdsFresh
<1> HIDE DEF old
<1>6. RowsIndexed'
  BY <1>1, <1>2 DEF TxInv, RowsIndexed
<1> QED
  BY <1>1, <1>2, <1>3, <1>4, <1>5, <1>6 DEF TablesMove

\* Nothing of the other steps is seen outside of the transaction.
LEMMA StillMoves ==
  ASSUME TypeOK, TxInv, UNCHANGED <<storeVars, left>>
  PROVE  TablesMove /\ RowsIndexed'
<1>1. rows' = rows /\ nextId' = nextId /\ left' = left /\ nextId \in Nat
  BY DEF storeVars, TypeOK, StoreTypeOK
<1>2. \E S \in SUBSET rows :
        /\ left' = left \/ left' = left \cup TemplateKeys(S)
        /\ \A r \in S, q \in rows' : r.id # q.id
  <2>1. {} \in SUBSET rows
    OBVIOUS
  <2>2. left' = left /\ \A r \in {}, q \in rows' : r.id # q.id
    BY <1>1
  <2> QED
    BY <2>1, <2>2
<1>3. TablesMove
  <2>1. \A r \in rows' : \E q \in rows : q.id = r.id /\ q.index = r.index
    BY <1>1
  <2> QED
    BY <1>1, <1>2, <2>1 DEF TablesMove
<1> QED
  BY <1>1, <1>3 DEF TxInv, RowsIndexed

LEMMA StepMoves ==
  ASSUME TypeOK, TxInv, [Next]_vars
  PROVE  TablesMove /\ RowsIndexed'
<1>1. CASE GetStep /\ UNCHANGED <<storeVars, apiVars, txVars>>
  BY <1>1, StillMoves DEF txVars
<1>2. CASE TxNext
  BY <1>2, StillMoves, CommitMoves
     DEF TxNext, ReadCatalogs, ReadConfigured, DeleteOldRow, CreateNewRow, CreateTemplate, Rollback
<1>3. CASE RequestStep
  BY <1>3, RequestMoves
<1>4. CASE UNCHANGED vars
  BY <1>4, StillMoves DEF vars, txVars
<1> QED
  BY <1>1, <1>2, <1>3, <1>4 DEF Next

LEMMA LeftStaysGone ==
  ASSUME TypeOK, TxInv, TablesMove
  PROVE  LeftGone' /\ left' \subseteq Keys
<1>1. PICK S \in SUBSET rows :
        /\ left' = left \/ left' = left \cup TemplateKeys(S)
        /\ \A r \in S, q \in rows' : r.id # q.id
  BY DEF TablesMove
<1>2. \A r \in rows : r.id < nextId /\ r.id \in Nat
  BY DEF TxInv, IdsFresh, TypeOK, StoreTypeOK, Row
<1>3. left \subseteq Keys /\ TemplateKeys(S) \subseteq Keys
  BY KeysOf DEF TypeOK, TxTypeOK
<1>4. nextId \in Nat /\ nextId' \in Nat /\ nextId <= nextId'
  BY DEF TablesMove, TypeOK, StoreTypeOK
<1>5. ASSUME NEW k \in left
      PROVE  k[1] < nextId' /\ \A r \in rows' : r.id # k[1]
  <2>1. k[1] \in Nat /\ k[1] < nextId /\ \A r \in rows : r.id # k[1]
    BY <1>3 DEF TxInv, LeftGone, Keys
  <2> QED
    BY <1>4, <2>1 DEF TablesMove
<1>6. ASSUME NEW k \in TemplateKeys(S)
      PROVE  k[1] < nextId' /\ \A r \in rows' : r.id # k[1]
  BY <1>1, <1>2, <1>4, KeysOf
<1> QED
  BY <1>1, <1>3, <1>5, <1>6 DEF LeftGone

-----------------------------------------------------------------------------
(* The transaction.                                                        *)

\* One of several rows has the first key.
LEMMA SmallestId ==
  ASSUME NEW S, S # {}, \A r \in S : r.id \in Nat
  PROVE  \E r \in S : \A q \in S : r.id <= q.id
<1> DEFINE T == {r.id : r \in S}
<1>1. T \in SUBSET Nat /\ T # {}
  OBVIOUS
<1> HIDE DEF T
<1>2. PICK n \in T : \A m \in T : <<m, n>> \notin OpToRel(<, Nat)
  BY <1>1, NatLessThanWellFounded, WFMin
<1>3. ASSUME NEW m \in T
      PROVE  n <= m
  <2>1. <<m, n>> \in Nat \X Nat /\ ~(<<m, n>>[1] < <<m, n>>[2])
    BY <1>1, <1>2 DEF OpToRel
  <2> QED
    BY <2>1
<1> QED
  BY <1>3 DEF T

LEMMA TxFacts ==
  ASSUME TypeOK
  PROVE  /\ rows \subseteq Row /\ nextId \in Nat /\ left \subseteq Keys
         /\ tx.cat \in Cat /\ tx.commit \in 0..MaxCommit /\ tx.rows \subseteq Row
         /\ tx.left \subseteq Keys /\ tx.at \in 1..(NumTemplates + 1)
         /\ tx = [pc |-> tx.pc, cat |-> tx.cat, commit |-> tx.commit, rows |-> tx.rows,
                  left |-> tx.left, at |-> tx.at]
         /\ updates \in 0..MaxUpdates /\ copies \subseteq Cat /\ added \subseteq Names
BY DEF TypeOK, StoreTypeOK, TxTypeOK

TxType == [pc : {"none", "create", "templates", "commit"},
           cat : Cat, commit : 0..MaxCommit, rows : SUBSET Row,
           left : SUBSET Keys, at : 1..(NumTemplates + 1)]

LEMMA NoTxType == NoTx \in TxType
<1>1. (CHOOSE n \in Names : TRUE) \in Names /\ (CHOOSE s \in Sources : TRUE) \in Sources
  BY NamesAssumption
<1>2. [env |-> Global, name |-> CHOOSE n \in Names : TRUE, src |-> CHOOSE s \in Sources : TRUE,
       pin |-> 0, commit |-> 0] \in Cat
  BY <1>1, Numbers DEF Cat, AllEnvs
<1>3. NoCat \in Cat
  BY <1>2 DEF NoCat
<1> QED
  BY <1>3, Numbers DEF NoTx, TxType, NoCommit

\* A step within the transaction.
LEMMA TxStep ==
  ASSUME TypeOK, TxInv, UNCHANGED <<storeVars, left>>, tx' \in TxType,
         updates' \in 0..MaxUpdates, copies' \subseteq Cat, added' \subseteq Names
  PROVE  StoreTypeOK' /\ TxTypeOK' /\ IdsFresh' /\ LeftGone' /\ RowsIndexed'
BY DEF TypeOK, StoreTypeOK, TxTypeOK, TxInv, IdsFresh, LeftGone, RowsIndexed, TxType, storeVars

\* A refresh reads: catalogs of the table, or one of the configuration.
LEMMA CopiesKeep ==
  ASSUME TypeOK, TxInv, ReadCatalogs \/ ReadConfigured
  PROVE  StoreTypeOK' /\ TxTypeOK' /\ IdsFresh' /\ LeftGone' /\ RowsIndexed' /\ TxTables'
<1>1. UNCHANGED <<storeVars, tx, left, updates, added>>
  BY DEF ReadCatalogs, ReadConfigured
<1>2. \A r \in rows : r.cat \in Cat /\ r.id \in Nat
  BY TxFacts DEF Row
<1>3. ASSUME NEW cat \in Configured
      PROVE  Existing(cat) \in Cat
  <2> DEFINE found == Named(Global, cat.name)
  <2>1. cat \in Cat
    BY TxAssumption
  <2>2. CASE Existing(cat) = cat
    BY <2>1, <2>2
  <2>3. CASE Existing(cat) # cat
    <3>1. found # {} /\ Existing(cat) = First(found).cat
      BY <2>3 DEF Existing
    <3>2. found \subseteq rows
      BY DEF Named
    <3>3. First(found) \in found
      <4> HIDE DEF found
      <4>1. \E r \in found : \A q \in found : r.id <= q.id
        BY <1>2, <3>1, <3>2, SmallestId
      <4> QED
        BY <4>1 DEF First
    <3> QED
      BY <1>2, <3>1, <3>2, <3>3
  <2> QED
    BY <2>2, <2>3
<1>4. copies' \subseteq Cat
  <2>1. CASE ReadCatalogs
    BY <1>2, <2>1, TxFacts DEF ReadCatalogs
  <2>2. CASE ReadConfigured
    BY <1>3, <2>2, TxFacts DEF ReadConfigured
  <2> QED
    BY <2>1, <2>2
<1>5. tx' \in TxType
  BY <1>1, TxFacts DEF TypeOK, TxTypeOK, TxType
<1>6. TxTables'
  BY <1>1 DEF TxInv, TxTables, Named, TemplateKeys, NewRowInTx, NewRow, storeVars
<1> QED
  BY <1>1, <1>4, <1>5, <1>6, TxStep, TxFacts

LEMMA DeleteOldRowKeeps ==
  ASSUME TypeOK, TxInv, DeleteOldRow
  PROVE  StoreTypeOK' /\ TxTypeOK' /\ IdsFresh' /\ LeftGone' /\ RowsIndexed' /\ TxTables'
<1>1. PICK cat \in copies, c \in Commits, cascades \in Cascading :
        tx' = [pc |-> "create", cat |-> cat, commit |-> c,
               rows |-> rows \ Named(cat.env, cat.name),
               left |-> left \cup (IF cascades THEN {}
                                   ELSE TemplateKeys(Named(cat.env, cat.name))),
               at |-> 1]
  BY DEF DeleteOldRow
<1> DEFINE old == Named(cat.env, cat.name)
<1>2. rows' = rows /\ nextId' = nextId /\ left' = left
  BY DEF DeleteOldRow, storeVars
<1>3. updates' \in 0..MaxUpdates /\ copies' = copies /\ added' = added
  BY TxFacts, TxAssumption DEF DeleteOldRow
<1>4. old \in SUBSET rows
  BY DEF Named
<1>5. TemplateKeys(old) \subseteq Keys
  BY <1>4, KeysOf
<1>6. cat \in Cat
  BY TxFacts
<1>7. tx' \in TxType
  <2>1. rows \ old \in SUBSET Row /\ 1 \in 1..(NumTemplates + 1) /\ c \in 0..MaxCommit
    BY TxFacts, Numbers
  <2>2. left \cup (IF cascades THEN {} ELSE TemplateKeys(old)) \in SUBSET Keys
    BY <1>5, TxFacts
  <2> HIDE DEF old
  <2> QED
    BY <1>1, <1>6, <2>1, <2>2 DEF TxType, old
<1>8. TxTables'
  <2>2. tx'.cat = cat /\ tx'.pc = "create" /\ tx'.commit = c /\ tx'.at = 1
        /\ tx'.rows = rows \ old
        /\ (tx'.left = left \/ tx'.left = left \cup TemplateKeys(old))
    BY <1>1
  <2> HIDE DEF old
  <2>3. (Named(tx.cat.env, tx.cat.name))' = old
    BY <1>2, <2>2 DEF Named, old
  <2>4. (TemplateKeys(Named(tx.cat.env, tx.cat.name)))' = TemplateKeys(old)
    BY <2>3 DEF TemplateKeys
  <2> QED
    BY <1>2, <2>2, <2>3, <2>4 DEF TxTables
<1> QED
  BY <1>2, <1>3, <1>7, <1>8, TxStep, TxFacts DEF storeVars

\* While a transaction is open everybody else's tables stay as they are, and so
\* does what it deletes of them.
LEMMA TxStays ==
  ASSUME TypeOK, TxInv, UNCHANGED <<storeVars, left>>, tx'.cat = tx.cat, tx'.left = tx.left,
         tx'.commit = tx.commit, tx.pc # "none"
  PROVE  /\ (Named(tx.cat.env, tx.cat.name))' = Named(tx.cat.env, tx.cat.name)
         /\ \/ tx'.left = left'
            \/ tx'.left = left' \cup (TemplateKeys(Named(tx.cat.env, tx.cat.name)))'
         /\ tx'.commit \in Commits
<1> DEFINE old == Named(tx.cat.env, tx.cat.name)
<1>1. rows' = rows /\ left' = left
  BY DEF storeVars
<1>2. (Named(tx.cat.env, tx.cat.name))' = old
  BY <1>1 DEF Named
<1> HIDE DEF old
<1>3. (TemplateKeys(Named(tx.cat.env, tx.cat.name)))' = TemplateKeys(old)
  BY <1>2 DEF TemplateKeys
<1> QED
  BY <1>1, <1>2, <1>3 DEF TxInv, TxTables, old

LEMMA CreateNewRowKeeps ==
  ASSUME TypeOK, TxInv, CreateNewRow
  PROVE  StoreTypeOK' /\ TxTypeOK' /\ IdsFresh' /\ LeftGone' /\ RowsIndexed' /\ TxTables'
<1> DEFINE old == Named(tx.cat.env, tx.cat.name)
           new == NewRow([tx.cat EXCEPT !.commit = tx.commit], Nothing)
<1>1. /\ tx.pc = "create" /\ UNCHANGED <<storeVars, left, updates, copies, added>>
      /\ tx' = [tx EXCEPT !.pc = "templates", !.rows = @ \cup {new}]
  BY DEF CreateNewRow
<1>2. /\ tx.rows = rows \ old /\ tx.at = 1 /\ tx.commit \in Commits
  BY <1>1 DEF TxInv, TxTables
<1>3. new = NewRowInTx /\ new \in Row
  BY <1>1, <1>2, PartialIs, NewRowIs DEF NewRowInTx
<1>4. /\ tx'.pc = "templates" /\ tx'.rows = tx.rows \cup {new} /\ tx'.cat = tx.cat
      /\ tx'.commit = tx.commit /\ tx'.left = tx.left /\ tx'.at = tx.at
      /\ tx' \in TxType
  <2> HIDE DEF new
  <2> QED
    BY <1>1, <1>3, TxFacts DEF TxType
<1>5. TxTables'
  <2>1. NewRowInTx' = NewRowInTx
    BY <1>1, <1>4 DEF NewRowInTx, NewRow, storeVars
  <2>2. old' = old /\ (tx'.left = left' \/ tx'.left = left' \cup (TemplateKeys(old))')
        /\ tx'.commit \in Commits
    BY <1>1, <1>4, TxStays
  <2>3. tx'.rows = (rows' \ old') \cup {NewRowInTx'}
    <3> HIDE DEF old, new
    <3> QED
      BY <1>1, <1>2, <1>3, <1>4, <2>1, <2>2 DEF storeVars
  <2>4. tx'.at <= NumTemplates
    BY <1>2, <1>4, Numbers
  <2> HIDE DEF new
  <2> QED
    BY <1>4, <2>2, <2>3, <2>4 DEF TxTables
<1> QED
  BY <1>1, <1>4, <1>5, TxStep, TxFacts

LEMMA CreateTemplateKeeps ==
  ASSUME TypeOK, TxInv, CreateTemplate
  PROVE  StoreTypeOK' /\ TxTypeOK' /\ IdsFresh' /\ LeftGone' /\ RowsIndexed' /\ TxTables'
<1> DEFINE old == Named(tx.cat.env, tx.cat.name)
           new == NewRow([tx.cat EXCEPT !.commit = tx.commit], Partial(tx.commit, tx.at + 1))
<1>1. /\ tx.pc = "templates" /\ UNCHANGED <<storeVars, left, updates, copies, added>>
      /\ tx' = [tx EXCEPT !.pc = NextTemplate, !.at = @ + 1, !.rows = WithTemplate(tx.at)]
  BY DEF CreateTemplate
<1>2. /\ tx.rows = (rows \ old) \cup {NewRowInTx} /\ tx.at \in Templates
      /\ tx.commit \in Commits
  BY <1>1, TxFacts, Numbers DEF TxInv, TxTables, Templates
<1>3. [NewRowInTx EXCEPT !.index[tx.at] = IndexOf(tx.commit)[tx.at]] = new
  <2> DEFINE cat == [tx.cat EXCEPT !.commit = tx.commit]
             now == Partial(tx.commit, tx.at)
             t == tx.at
             value == IndexOf(tx.commit)[t]
  <2>1. NewRowInTx = NewRow(cat, now)
    BY DEF NewRowInTx
  <2>2. [now EXCEPT ![t] = value] = Partial(tx.commit, t + 1)
    BY <1>2, PartialIs
  <2> HIDE DEF cat, now, t, value
  <2>3. [NewRow(cat, now) EXCEPT !.index[t] = value] = NewRow(cat, [now EXCEPT ![t] = value])
    BY DEF NewRow
  <2>4. [NewRowInTx EXCEPT !.index[t] = value] = NewRow(cat, Partial(tx.commit, t + 1))
    BY <2>1, <2>2, <2>3
  <2> QED
    BY <2>4 DEF cat, t, value
<1>4. \A r \in rows : r.id # nextId
  BY TxFacts DEF TxInv, IdsFresh, Row
<1>5. WithTemplate(tx.at) = (rows \ old) \cup {new}
  <2>1. NewRowInTx.id = nextId
    BY <1>1, NewRowIs
  <2> HIDE DEF old, new
  <2> QED
    BY <1>2, <1>3, <1>4, <2>1 DEF WithTemplate
<1>6. new \in Row
  BY <1>2, TxFacts, PartialIs, Numbers DEF NewRow, Row, Cat
<1>7. /\ tx'.pc = NextTemplate /\ tx'.rows = (rows \ old) \cup {new} /\ tx'.cat = tx.cat
      /\ tx'.commit = tx.commit /\ tx'.left = tx.left /\ tx'.at = tx.at + 1
      /\ tx' \in TxType
  <2>1. NextTemplate \in {"templates", "commit"} /\ tx.at + 1 \in 1..(NumTemplates + 1)
    BY <1>2, Numbers DEF NextTemplate, Templates
  <2>2. (rows \ old) \cup {new} \in SUBSET Row
    BY <1>6, TxFacts
  <2> HIDE DEF old, new
  <2> QED
    BY <1>1, <1>5, <2>1, <2>2, TxFacts DEF TxType
<1>8. TxTables'
  <2>1. NewRowInTx' = new
    BY <1>1, <1>7 DEF NewRowInTx, NewRow, storeVars
  <2>2. old' = old /\ (tx'.left = left' \/ tx'.left = left' \cup (TemplateKeys(old))')
        /\ tx'.commit \in Commits
    BY <1>1, <1>7, TxStays
  <2>3. tx'.rows = (rows' \ old') \cup {NewRowInTx'}
    <3> HIDE DEF old, new
    <3> QED
      BY <1>1, <1>7, <2>1, <2>2 DEF storeVars
  <2>4. /\ tx'.pc = "templates" => tx'.at <= NumTemplates
        /\ tx'.pc = "commit" => tx'.at = NumTemplates + 1
        /\ tx'.pc \in {"templates", "commit"}
    BY <1>2, <1>7, Numbers DEF NextTemplate, Templates
  <2> HIDE DEF new
  <2> QED
    BY <2>2, <2>3, <2>4 DEF TxTables
<1> QED
  BY <1>1, <1>7, <1>8, TxStep, TxFacts

LEMMA RollbackKeeps ==
  ASSUME TypeOK, TxInv, Rollback
  PROVE  StoreTypeOK' /\ TxTypeOK' /\ IdsFresh' /\ LeftGone' /\ RowsIndexed' /\ TxTables'
<1>1. tx' = NoTx /\ UNCHANGED <<storeVars, left, updates, copies, added>> /\ NoTx.pc = "none"
  BY DEF Rollback, NoTx
<1> QED
  BY <1>1, NoTxType, TxStep, TxFacts DEF TxTables

LEMMA CommitKeeps ==
  ASSUME TypeOK, TxInv, Commit
  PROVE  StoreTypeOK' /\ TxTypeOK' /\ IdsFresh' /\ LeftGone' /\ RowsIndexed' /\ TxTables'
<1> DEFINE old == Named(tx.cat.env, tx.cat.name)
<1>1. /\ tx.pc = "commit" /\ tx' = NoTx /\ NoTx.pc = "none" /\ rows' = tx.rows
      /\ nextId' = nextId + 1 /\ updates' = updates /\ copies' = copies
      /\ tx.rows = (rows \ old) \cup {NewRowInTx}
  BY DEF Commit, NoTx, TxInv, TxTables
<1>2. NewRowInTx \in Row /\ NewRowInTx.id = nextId
  BY <1>1, NewRowIs
<1>3. TablesMove /\ RowsIndexed'
  BY CommitMoves
<1>4. LeftGone' /\ left' \subseteq Keys
  BY <1>3, LeftStaysGone
<1>5. \A r \in rows : r.id \in Nat /\ r.id < nextId
  BY TxFacts DEF TxInv, IdsFresh, Row
<1>6. StoreTypeOK' /\ IdsFresh'
  <2>1. rows' \subseteq Row /\ nextId' \in Nat
    BY <1>1, TxFacts
  <2>2. \A r \in rows' : r.id < nextId'
    BY <1>1, <1>2, <1>5, TxFacts
  <2>3. \A r, q \in rows' : r.id = q.id => r = q
    BY <1>1, <1>2, <1>5, TxFacts DEF TxInv, IdsFresh
  <2> QED
    BY <2>1, <2>2, <2>3 DEF StoreTypeOK, IdsFresh
<1>7. TxTypeOK' /\ TxTables'
  <2>1. tx.cat.name \in Names
    BY TxFacts DEF Cat
  <2>2. added' \subseteq Names
    BY <2>1, TxFacts DEF Commit, AddedNames
  <2> QED
    BY <1>1, <1>4, <1>6, <2>2, NoTxType, TxFacts DEF TxTypeOK, TxTables, TxType, IdsFresh
<1> QED
  BY <1>3, <1>4, <1>6, <1>7

LEMMA RequestKeeps ==
  ASSUME TypeOK, TxInv, RequestStep
  PROVE  StoreTypeOK' /\ TxTypeOK' /\ IdsFresh' /\ LeftGone' /\ RowsIndexed' /\ TxTables'
         /\ ApiTypeOK' /\ CreatesNamed'
<1>1. ApiInv /\ ApiNext /\ tx' = tx /\ updates' = updates /\ copies' = copies
  BY ApiInvOf DEF RequestStep
<1>2. StoreTypeOK' /\ IdsFresh' /\ ApiTypeOK' /\ CreatesNamed'
  BY <1>1, ApiKeepsStore, ApiStepType
<1>3. TablesMove /\ RowsIndexed'
  BY RequestMoves
<1>4. LeftGone' /\ left' \subseteq Keys
  BY <1>3, LeftStaysGone
<1>5. TxTypeOK'
  <2>1. \A r \in rows' : r.cat.name \in Names
    BY <1>2 DEF StoreTypeOK, Row, Cat
  <2>2. added' \subseteq Names
    BY <2>1, TxFacts DEF RequestStep, Renamed
  <2> QED
    BY <1>1, <1>2, <1>4, <2>2 DEF TypeOK, TxTypeOK, IdsFresh
<1>6. TxTables'
  <2>1. CASE tx.pc = "none"
    BY <1>1, <2>1 DEF TxTables
  <2>2. CASE storeVars' = storeVars
    <3>1. rows' = rows /\ nextId' = nextId
      BY <2>2 DEF storeVars
    <3>2. {r \in rows : \A q \in rows' : q.id # r.id} = {}
      BY <3>1
    <3>3. TemplateKeys({}) = {}
      BY DEF TemplateKeys
    <3>4. left' = left
      BY <3>2, <3>3 DEF RequestStep, Leaves
    <3> QED
      BY <1>1, <3>1, <3>4 DEF TxInv, TxTables, Named, TemplateKeys, NewRowInTx, NewRow
  <2> QED
    BY <2>1, <2>2 DEF RequestStep
<1> QED
  BY <1>2, <1>3, <1>4, <1>5, <1>6

LEMMA TablesKeep ==
  ASSUME TypeOK, TxInv, [Next]_vars
  PROVE  StoreTypeOK' /\ ApiTypeOK' /\ TxTypeOK' /\ TxInv'
<1>1. CASE UNCHANGED <<storeVars, apiVars, txVars>>
  BY <1>1 DEF TypeOK, StoreTypeOK, ApiTypeOK, TxTypeOK, TxInv, IdsFresh, CreatesNamed, TxTables,
     LeftGone, RowsIndexed, Named, TemplateKeys, NewRowInTx, NewRow, storeVars, apiVars, txVars
<1>2. CASE TxNext /\ UNCHANGED <<apiVars, get>>
  <2>1. ApiTypeOK' /\ CreatesNamed'
    BY <1>2 DEF TypeOK, ApiTypeOK, TxInv, CreatesNamed, apiVars
  <2> QED
    BY <1>2, <2>1, CopiesKeep, DeleteOldRowKeeps, CreateNewRowKeeps, CreateTemplateKeeps, CommitKeeps,
       RollbackKeeps DEF TxNext, TxInv
<1>3. CASE RequestStep
  BY <1>3, RequestKeeps DEF TxInv
<1> QED
  BY <1>1, <1>2, <1>3 DEF Next, vars

\* What others see of a transaction is all of it.
LEMMA AtomicStep ==
  TypeOK /\ TxInv /\ [Next]_vars =>
    [tx.pc # "none" /\ rows' # rows =>
       ReplaceCatalog(tx.cat, tx.commit, IndexOf(tx.commit))]_<<storeVars, txVars>>
<1> SUFFICES ASSUME TypeOK, TxInv, [Next]_vars, tx.pc # "none", rows' # rows
             PROVE  ReplaceCatalog(tx.cat, tx.commit, IndexOf(tx.commit))
  OBVIOUS
<1>1. Commit
  BY DEF Next, TxNext, ReadCatalogs, ReadConfigured, DeleteOldRow, CreateNewRow, CreateTemplate,
         Rollback, RequestStep, storeVars, vars
<1>2. /\ rows' = (rows \ Named(tx.cat.env, tx.cat.name)) \cup {NewRowInTx}
      /\ nextId' = nextId + 1 /\ tx.at = NumTemplates + 1 /\ tx.commit \in Commits
  BY <1>1 DEF Commit, TxInv, TxTables
<1>3. NewRowInTx = NewRow([tx.cat EXCEPT !.commit = tx.commit], IndexOf(tx.commit))
  BY <1>2, PartialIs DEF NewRowInTx
<1>4. rows \ Named(tx.cat.env, tx.cat.name) = {r \in rows : ~Keyed(r, tx.cat.env, tx.cat.name)}
  BY DEF Named
<1> QED
  BY <1>2, <1>3, <1>4 DEF ReplaceCatalog

-----------------------------------------------------------------------------
(* What the queries find.                                                  *)

LEMMA GetFacts ==
  ASSUME TypeOK
  PROVE  /\ get.asked \in Query /\ get.items \subseteq Item /\ get.tagged \subseteq Item
         /\ get.whole \subseteq Item /\ get.names \subseteq Nat \X Name
         /\ get.version \subseteq Item
         /\ get.asked.template \in Templates
BY DEF TypeOK, QueryTypeOK, Query

LEMMA ItemIs ==
  ASSUME TypeOK, TxInv, NEW asked, NEW i \in TemplatesOf(asked)
  PROVE  /\ i \in Item
         /\ \E r \in Catalogs(asked) : /\ r \in rows /\ i.id = r.id
                                      /\ r.index = IndexOf(i.commit)
                                      /\ r.index[i.template] # Missing
<1>1. PICK r \in Catalogs(asked) : i \in ItemsOf(r)
  BY DEF TemplatesOf
<1>2. PICK t \in Templates :
        r.index[t] # Missing /\ i = [id |-> r.id, template |-> t, commit |-> r.index[t]]
  BY <1>1 DEF ItemsOf
<1>3. r \in rows /\ r.id \in Nat
  BY TxFacts DEF Catalogs, Row
<1>4. r.index[t] \in Commits /\ r.index = IndexOf(r.index[t])
  BY <1>2, <1>3, RowIndex DEF TxInv
<1> QED
  BY <1>1, <1>2, <1>3, <1>4 DEF Item

\* A query on templates finds those of a catalog row all together.
LEMMA FoundById ==
  ASSUME TypeOK, TxInv, NEW asked
  PROVE  ById(TemplatesOf(asked))
<1> SUFFICES ASSUME NEW i \in TemplatesOf(asked)
             PROVE  {j \in TemplatesOf(asked) : j.id = i.id} = Mates(i)
  BY DEF ById
<1>1. PICK r \in Catalogs(asked) : /\ r \in rows /\ i.id = r.id /\ i.commit \in Commits
                                  /\ r.index = IndexOf(i.commit)
  BY ItemIs DEF Item
<1>2. ASSUME NEW j \in TemplatesOf(asked), j.id = i.id
      PROVE  j \in Mates(i)
  <2>1. PICK q \in rows : /\ j.id = q.id /\ q.index = IndexOf(j.commit)
                         /\ q.index[j.template] # Missing
    BY ItemIs
  <2>2. q = r
    BY <1>1, <1>2, <2>1 DEF TxInv, IdsFresh
  <2>3. j \in Item
    BY ItemIs
  <2>4. j.commit = i.commit
    BY <1>1, <2>1, <2>2, <2>3, IndexIs DEF Item
  <2>5. j = [id |-> i.id, template |-> j.template, commit |-> i.commit] /\ j.template \in Templates
    BY <1>2, <2>3, <2>4 DEF Item
  <2> QED
    BY <1>1, <2>1, <2>2, <2>5 DEF Mates
<1>3. ASSUME NEW j \in Mates(i)
      PROVE  j \in TemplatesOf(asked) /\ j.id = i.id
  <2>1. PICK t \in Templates :
          IndexOf(i.commit)[t] # Missing
          /\ j = [id |-> i.id, template |-> t, commit |-> i.commit]
    BY DEF Mates
  <2>2. r.index[t] = i.commit /\ r.index[t] # Missing
    BY <1>1, <2>1, IndexIs
  <2>3. j \in ItemsOf(r)
    BY <1>1, <2>1, <2>2 DEF ItemsOf
  <2> QED
    BY <2>1, <2>3 DEF TemplatesOf
<1> QED
  BY <1>2, <1>3

LEMMA FoundKnown ==
  ASSUME TypeOK, TxInv, NEW asked, NEW i \in TemplatesOf(asked)
  PROVE  Known(i)
<1>1. PICK r \in rows : /\ i.id = r.id /\ r.index = IndexOf(i.commit)
                       /\ r.index[i.template] # Missing
  BY ItemIs
<1>2. \A q \in rows : q.id = i.id => q = r
  BY <1>1 DEF TxInv, IdsFresh
<1>3. i.id < nextId
  BY <1>1 DEF TxInv, IdsFresh
<1>4. \A t : <<i.id, t>> \notin left
  BY <1>1 DEF TxInv, LeftGone
<1> QED
  BY <1>1, <1>2, <1>3, <1>4 DEF Known

\* What is known of a template row stays true, and when it has gone it does not
\* come back.
LEMMA KnownStays ==
  ASSUME TypeOK, TxInv, TablesMove, NEW i \in Item, Known(i)
  PROVE  Known(i)' /\ (StillThere(i)' => StillThere(i))
<1>1. PICK S \in SUBSET rows :
        /\ left' = left \/ left' = left \cup TemplateKeys(S)
        /\ \A r \in S, q \in rows' : r.id # q.id
  BY DEF TablesMove
<1>2. i.id \in Nat /\ i.template \in Templates /\ nextId \in Nat /\ nextId' \in Nat
  BY TxFacts DEF Item, TablesMove
<1>3. i.id < nextId'
  BY <1>2 DEF TablesMove, Known
<1>4. \A r \in rows' : r.id = i.id => r.index = IndexOf(i.commit)
  BY DEF TablesMove, Known
<1>5. ASSUME NEW t \in Templates, IndexOf(i.commit)[t] # Missing
      PROVE  <<i.id, t>> \in TemplateKeys(S) <=> \E r \in S : r.id = i.id
  BY <1>5, KeysOf DEF Known
<1>6. \A t \in Templates : IndexOf(i.commit)[t] # Missing =>
        (<<i.id, t>> \in left' <=> <<i.id, i.template>> \in left')
  BY <1>1, <1>2, <1>5 DEF Known
<1>7. Known(i)'
  BY <1>3, <1>4, <1>6 DEF Known
<1>8. ASSUME StillThere(i)'
      PROVE  StillThere(i)
  <2>1. CASE \E r \in rows' : r.id = i.id /\ r.index[i.template] # Missing
    BY <2>1 DEF StillThere, TablesMove, Known
  <2>2. CASE <<i.id, i.template>> \in left'
    <3>1. CASE <<i.id, i.template>> \in left
      BY <3>1 DEF StillThere
    <3>2. CASE <<i.id, i.template>> \in TemplateKeys(S)
      BY <3>2, KeysOf DEF StillThere
    <3> QED
      BY <1>1, <2>2, <3>1, <3>2
  <2> QED
    BY <1>8, <2>1, <2>2 DEF StillThere
<1> QED
  BY <1>7, <1>8

\* The templates of one index are all there or none of them is.
LEMMA StillThereById ==
  ASSUME TypeOK, ById(get.items), \A i \in get.items : Known(i)
  PROVE  ById(Found)
<1> SUFFICES ASSUME NEW i \in Found
             PROVE  {j \in Found : j.id = i.id} = Mates(i)
  BY DEF ById
<1>1. i \in get.items /\ StillThere(i) /\ i \in Item /\ Known(i)
  BY GetFacts DEF Found
<1>2. {j \in get.items : j.id = i.id} = Mates(i)
  BY <1>1 DEF ById
<1>3. ASSUME NEW j \in Mates(i)
      PROVE  StillThere(j)
  <2>1. PICK t \in Templates :
          IndexOf(i.commit)[t] # Missing
          /\ j = [id |-> i.id, template |-> t, commit |-> i.commit]
    BY DEF Mates
  <2> QED
    BY <1>1, <2>1 DEF StillThere, Known
<1> QED
  BY <1>2, <1>3 DEF Found

-----------------------------------------------------------------------------
(* A GET.                                                                  *)

\* What a query returns replaces what there was under its field, and only that.
LEMMA ReadsIs ==
  ASSUME TypeOK, NEW found
  PROVE  /\ \A pc : Reads(pc, "items", found) => get' = [get EXCEPT !.pc = Following[pc], !.items = found]
         /\ \A pc : Reads(pc, "tagged", found) => get' = [get EXCEPT !.pc = Following[pc], !.tagged = found]
         /\ \A pc : Reads(pc, "whole", found) => get' = [get EXCEPT !.pc = Following[pc], !.whole = found]
         /\ \A pc : Reads(pc, "names", found) => get' = [get EXCEPT !.pc = Following[pc], !.names = found]
         /\ \A pc : Reads(pc, "version", found) => get' = [get EXCEPT !.pc = Following[pc], !.version = found]
BY DEF Reads

LEMMA FollowingIs ==
  /\ Following["templates"] = "categories" /\ Following["categories"] = "versions"
  /\ Following["versions"] = "catalogs"
  /\ Following["catalogs"] \in {"duplicates", "respond"} /\ Following["duplicates"] = "respond"
  /\ Following["template"] = "ofTemplate" /\ Following["ofTemplate"] \in {"version", "respond"}
  /\ Following["version"] = "files" /\ Following["files"] = "respond"
BY DEF Following

LEMMA NoGetType ==
  /\ NoGet.pc = "idle" /\ NoGet.items = {} /\ NoGet.tagged = {} /\ NoGet.whole = {}
  /\ NoGet.asked \in Query
  /\ (get' = NoGet => QueryTypeOK')
<1>1. (CHOOSE n \in Names : TRUE) \in Names
  BY NamesAssumption
<1>2. [kind |-> "templates", env |-> Global, name |-> CHOOSE n \in Names : TRUE,
       category |-> "any", template |-> 1] \in Query
  BY <1>1, Numbers DEF Query, AllEnvs
<1>3. (CHOOSE q \in Query : TRUE) \in Query
  BY <1>2
<1> QED
  BY <1>3 DEF NoGet, QueryTypeOK

LEMMA SameTables ==
  ASSUME UNCHANGED <<storeVars, txVars>>, NEW i
  PROVE  (Known(i)' <=> Known(i)) /\ (StillThere(i)' <=> StillThere(i))
BY DEF Known, StillThere, storeVars, txVars

LEMMA NoneById == ById({})
BY DEF ById

LEMMA ResponseKeeps ==
  ASSUME QueriesInv, get' = NoGet
  PROVE  QueryTypeOK' /\ GetRead'
BY NoGetType, NoneById DEF GetRead, ListingRead

LEMMA StartGetKeeps ==
  ASSUME QueriesInv, StartGet
  PROVE  QueryTypeOK' /\ GetRead'
<1>1. PICK q \in Queries :
        get' = [NoGet EXCEPT !.asked = q,
                  !.pc = IF q.kind \in {"template", "version"} THEN "template" ELSE "templates"]
  BY DEF StartGet
<1>2. /\ q \in Query /\ q.kind \in {"templates", "catalogTemplates", "template", "version"}
  BY QueryAssumption DEF Query
<1>3. /\ get'.asked = q /\ get'.items = {} /\ get'.tagged = {} /\ get'.whole = {}
      /\ get'.pc = IF q.kind \in Listing THEN "templates" ELSE "template"
  BY <1>1, <1>2 DEF NoGet, Listing
<1>4. QueryTypeOK'
  BY <1>1, <1>2 DEF NoGet, QueryTypeOK
<1>5. GetRead'
  BY <1>3, NoneById DEF GetRead, ListingRead
<1> QED
  BY <1>4, <1>5

LEMMA ReadTemplatesKeeps ==
  ASSUME QueriesInv, ReadTemplates, UNCHANGED <<storeVars, txVars>>
  PROVE  QueryTypeOK' /\ GetRead'
<1> DEFINE found == TemplatesOf(get.asked)
<1>1. TypeOK /\ TxInv /\ GetRead
  BY DEF QueriesInv
<1>2. get' = [get EXCEPT !.pc = "categories", !.items = found] /\ get.pc = "templates"
  BY <1>1, ReadsIs, FollowingIs DEF ReadTemplates, Reads
<1>3. found \subseteq Item /\ ById(found) /\ \A i \in found : Known(i)'
  BY <1>1, ItemIs, FoundById, FoundKnown, SameTables
<1> HIDE DEF found
<1>4. QueryTypeOK'
  BY <1>1, <1>2, <1>3 DEF TypeOK, QueryTypeOK
<1>5. GetRead'
  <2>1. /\ get'.pc = "categories" /\ get'.items = found /\ get'.asked = get.asked
        /\ get'.tagged = get.tagged /\ get'.whole = get.whole
    BY <1>1, <1>2 DEF TypeOK, QueryTypeOK
  <2>2. get.asked \in Queries /\ get.asked.kind \in Listing /\ ListingRead
    BY <1>1, <1>2 DEF GetRead
  <2> QED
    BY <1>2, <1>3, <2>1, <2>2 DEF GetRead, ListingRead
<1> QED
  BY <1>4, <1>5

LEMMA ReadCategoriesKeeps ==
  ASSUME QueriesInv, ReadCategories, UNCHANGED <<storeVars, txVars>>
  PROVE  QueryTypeOK' /\ GetRead'
<1> DEFINE found == {i \in Found : <<i.template, i.commit>> \in Tagged}
<1>1. TypeOK /\ TxInv /\ GetRead
  BY DEF QueriesInv
<1>2. get' = [get EXCEPT !.pc = "versions", !.tagged = found] /\ get.pc = "categories"
  BY <1>1, ReadsIs, FollowingIs DEF ReadCategories, Reads
<1>3. /\ found \subseteq get.items /\ \A i \in found : HasTag(i)
      /\ \A i \in get.items \ found : HasTag(i) => ~StillThere(i)
  BY DEF Found, HasTag
<1> HIDE DEF found
<1>4. QueryTypeOK'
  BY <1>1, <1>2, <1>3, GetFacts DEF TypeOK, QueryTypeOK
<1>5. GetRead'
  <2>1. /\ get'.pc = "versions" /\ get'.items = get.items /\ get'.asked = get.asked
        /\ get'.tagged = found /\ get'.whole = get.whole
    BY <1>1, <1>2 DEF TypeOK, QueryTypeOK
  <2>2. get.asked \in Queries /\ get.asked.kind \in Listing /\ ListingRead /\ get.whole = {}
    BY <1>1, <1>2 DEF GetRead, ListingRead
  <2>3. \A i \in get.items : Known(i)' /\ (i \notin found /\ HasTag(i) => ~StillThere(i)')
    BY <1>3, <2>2, SameTables DEF ListingRead
  <2> QED
    BY <1>3, <2>1, <2>2, <2>3 DEF GetRead, ListingRead, HasTag
<1> QED
  BY <1>4, <1>5

LEMMA ReadVersionsKeeps ==
  ASSUME QueriesInv, ReadVersions, UNCHANGED <<storeVars, txVars>>
  PROVE  QueryTypeOK' /\ GetRead'
<1>1. TypeOK /\ TxInv /\ GetRead
  BY DEF QueriesInv
<1>2. get' = [get EXCEPT !.pc = "catalogs", !.whole = Found] /\ get.pc = "versions"
  BY <1>1, ReadsIs, FollowingIs DEF ReadVersions, Reads
<1>3. get.asked \in Queries /\ get.asked.kind \in Listing /\ ListingRead
  BY <1>1, <1>2 DEF GetRead
<1>4. ById(Found) /\ Found \subseteq get.items /\ \A i \in Found : StillThere(i)
  BY <1>1, <1>3, StillThereById DEF ListingRead, Found
<1>5. QueryTypeOK'
  BY <1>1, <1>2, <1>4, GetFacts DEF TypeOK, QueryTypeOK
<1>6. GetRead'
  <2>1. /\ get'.pc = "catalogs" /\ get'.items = get.items /\ get'.asked = get.asked
        /\ get'.tagged = get.tagged /\ get'.whole = Found
    BY <1>1, <1>2 DEF TypeOK, QueryTypeOK
  <2>2. \A i \in get.items : Known(i)'
    BY <1>3, SameTables DEF ListingRead
  <2>3. \A i \in Found : HasTag(i) => i \in get.tagged
    BY <1>2, <1>3, <1>4 DEF ListingRead
  <2> QED
    BY <1>3, <1>4, <2>1, <2>2, <2>3 DEF GetRead, ListingRead, HasTag
<1> QED
  BY <1>5, <1>6

LEMMA ReadCatalogNamesKeeps ==
  ASSUME QueriesInv, ReadCatalogNames, UNCHANGED <<storeVars, txVars>>
  PROVE  QueryTypeOK' /\ GetRead'
<1> DEFINE found == {<<r.id, r.cat.name>> : r \in {q \in rows : \E i \in Found : i.id = q.id}}
<1>1. TypeOK /\ TxInv /\ GetRead
  BY DEF QueriesInv
<1>2. /\ get' = [get EXCEPT !.pc = Following["catalogs"], !.names = found]
      /\ get.pc = "catalogs" /\ Following["catalogs"] \in {"duplicates", "respond"}
  BY <1>1, ReadsIs, FollowingIs DEF ReadCatalogNames, Reads
<1>3. found \subseteq Nat \X Name
  <2>1. \A r \in rows : r.id \in Nat /\ r.cat.name \in Name
    BY <1>1, TxFacts DEF Row, Cat, Name
  <2> QED
    BY <2>1
<1> HIDE DEF found
<1>4. QueryTypeOK'
  BY <1>1, <1>2, <1>3 DEF TypeOK, QueryTypeOK
<1>5. GetRead'
  <2>1. /\ get'.pc \in {"duplicates", "respond"} /\ get'.items = get.items
        /\ get'.asked = get.asked /\ get'.tagged = get.tagged /\ get'.whole = get.whole
    BY <1>1, <1>2 DEF TypeOK, QueryTypeOK
  <2>2. get.asked \in Queries /\ get.asked.kind \in Listing /\ ListingRead
    BY <1>1, <1>2 DEF GetRead
  <2>3. \A i \in get.items : Known(i)'
    BY <2>2, SameTables DEF ListingRead
  <2> QED
    BY <2>1, <2>2, <2>3 DEF GetRead, ListingRead, HasTag
<1> QED
  BY <1>4, <1>5

LEMMA RemoveDuplicatesKeeps ==
  ASSUME QueriesInv, RemoveDuplicates, UNCHANGED <<storeVars, txVars>>
  PROVE  QueryTypeOK' /\ GetRead'
<1> DEFINE found == {i \in get.items : \A r \in Duplicates : r.id # i.id}
<1>1. TypeOK /\ TxInv /\ GetRead
  BY DEF QueriesInv
<1>2. get' = [get EXCEPT !.pc = "respond", !.items = found] /\ get.pc = "duplicates"
  BY <1>1, ReadsIs, FollowingIs DEF RemoveDuplicates, Reads
<1>3. get.asked \in Queries /\ get.asked.kind \in Listing /\ ListingRead
  BY <1>1, <1>2 DEF GetRead
<1>4. found \subseteq get.items /\ ById(found)
  <2>1. ASSUME NEW i \in found
        PROVE  {j \in found : j.id = i.id} = {j \in get.items : j.id = i.id}
    OBVIOUS
  <2> QED
    BY <1>3, <2>1 DEF ListingRead, ById
<1> HIDE DEF found
<1>5. QueryTypeOK'
  BY <1>1, <1>2, <1>4, GetFacts DEF TypeOK, QueryTypeOK
<1>6. GetRead'
  <2>1. /\ get'.pc = "respond" /\ get'.items = found /\ get'.asked = get.asked
        /\ get'.tagged = get.tagged /\ get'.whole = get.whole
    BY <1>1, <1>2 DEF TypeOK, QueryTypeOK
  <2>2. \A i \in found : Known(i)'
    BY <1>3, <1>4, SameTables DEF ListingRead
  <2> QED
    BY <1>3, <1>4, <2>1, <2>2 DEF GetRead, ListingRead, HasTag
<1> QED
  BY <1>5, <1>6

LEMMA ReadTemplateKeeps ==
  ASSUME QueriesInv, ReadTemplate, UNCHANGED <<storeVars, txVars>>
  PROVE  QueryTypeOK' /\ GetRead'
<1>1. TypeOK /\ TxInv /\ GetRead
  BY DEF QueriesInv
<1>2. CASE Response404
  BY <1>2, ResponseKeeps DEF Response404
<1>3. ASSUME NEW i \in {j \in TemplatesOf(get.asked) : j.template = get.asked.template},
             Reads("template", "items", {i})
      PROVE  QueryTypeOK' /\ GetRead'
  <2>1. get' = [get EXCEPT !.pc = "ofTemplate", !.items = {i}] /\ get.pc = "template"
    BY <1>1, <1>3, ReadsIs, FollowingIs DEF Reads
  <2>2. {i} \subseteq Item /\ i.template = get.asked.template
    BY <1>1, <1>3, ItemIs
  <2>3. QueryTypeOK'
    BY <1>1, <2>1, <2>2 DEF TypeOK, QueryTypeOK
  <2>4. get'.pc = "ofTemplate" /\ get'.items = {i} /\ get'.asked = get.asked
    BY <1>1, <2>1 DEF TypeOK, QueryTypeOK
  <2> QED
    BY <1>1, <2>1, <2>2, <2>3, <2>4 DEF GetRead
<1> QED
  BY <1>2, <1>3 DEF ReadTemplate

\* The queries of a template or version that leave its template row alone.
LEMMA TemplateQueryKeeps ==
  ASSUME QueriesInv, NEW next \in {"version", "files", "respond"},
         get.pc \in {"ofTemplate", "version", "files"}, QueryTypeOK',
         get'.pc = next, get'.items = get.items, get'.asked = get.asked
  PROVE  GetRead'
BY DEF QueriesInv, GetRead

LEMMA TemplateQueriesKeep ==
  ASSUME QueriesInv, ReadVersionsOfTemplate \/ ReadVersion \/ ReadFiles,
         UNCHANGED <<storeVars, txVars>>
  PROVE  QueryTypeOK' /\ GetRead'
<1>1. TypeOK /\ TxInv /\ GetRead /\ QueryTypeOK
  BY DEF QueriesInv, TypeOK
<1>2. CASE ReadVersionsOfTemplate
  <2>1. /\ get' = [get EXCEPT !.pc = Following["ofTemplate"], !.whole = Found]
        /\ get.pc = "ofTemplate" /\ Following["ofTemplate"] \in {"version", "respond"}
    BY <1>1, <1>2, ReadsIs, FollowingIs DEF ReadVersionsOfTemplate, Reads
  <2>2. Found \subseteq Item
    BY <1>1, GetFacts DEF Found
  <2>3. QueryTypeOK' /\ get'.items = get.items /\ get'.asked = get.asked
        /\ get'.pc \in {"version", "respond"}
    BY <1>1, <2>1, <2>2 DEF QueryTypeOK
  <2> QED
    BY <2>1, <2>3, TemplateQueryKeeps
<1>3. CASE Response404
  BY <1>3, ResponseKeeps DEF Response404
<1>4. ASSUME NEW i \in TemplatesOf(get.asked), Reads("version", "version", {i})
      PROVE  QueryTypeOK' /\ GetRead'
  <2>1. get' = [get EXCEPT !.pc = "files", !.version = {i}] /\ get.pc = "version"
    BY <1>1, <1>4, ReadsIs, FollowingIs DEF Reads
  <2>2. i \in Item
    BY <1>1, ItemIs
  <2>3. QueryTypeOK' /\ get'.items = get.items /\ get'.asked = get.asked /\ get'.pc = "files"
    BY <1>1, <2>1, <2>2 DEF QueryTypeOK
  <2> QED
    BY <2>1, <2>3, TemplateQueryKeeps
<1>5. CASE ReadFiles
  <2> DEFINE found == {i \in get.version : StillThere(i)}
  <2>1. get' = [get EXCEPT !.pc = "respond", !.whole = found] /\ get.pc = "files"
    BY <1>1, <1>5, ReadsIs, FollowingIs DEF ReadFiles, Reads
  <2>2. found \subseteq Item
    BY <1>1, GetFacts
  <2> HIDE DEF found
  <2>3. QueryTypeOK' /\ get'.items = get.items /\ get'.asked = get.asked /\ get'.pc = "respond"
    BY <1>1, <2>1, <2>2 DEF QueryTypeOK
  <2> QED
    BY <2>1, <2>3, TemplateQueryKeeps
<1> QED
  BY <1>2, <1>3, <1>4, <1>5 DEF ReadVersion

LEMMA GetStepKeeps ==
  ASSUME QueriesInv, GetStep, UNCHANGED <<storeVars, txVars>>
  PROVE  QueryTypeOK' /\ GetRead'
BY StartGetKeeps, ReadTemplatesKeeps, ReadCategoriesKeeps, ReadVersionsKeeps,
   ReadCatalogNamesKeeps, RemoveDuplicatesKeeps, ReadTemplateKeeps, TemplateQueriesKeep,
   ResponseKeeps DEF GetStep, Respond

\* Meanwhile the tables move.
LEMMA TablesKeepGet ==
  ASSUME QueriesInv, TablesMove, UNCHANGED get
  PROVE  QueryTypeOK' /\ GetRead'
<1>1. TypeOK /\ TxInv /\ GetRead
  BY DEF QueriesInv
<1>2. \A i \in Item : Known(i) => Known(i)' /\ (StillThere(i)' => StillThere(i))
  BY <1>1, KnownStays
<1>3. get.asked.kind \in Listing => ListingRead'
  BY <1>1, <1>2, GetFacts DEF GetRead, ListingRead, HasTag
<1> QED
  BY <1>1, <1>3 DEF TypeOK, QueryTypeOK, GetRead

-----------------------------------------------------------------------------
(* The theorems.                                                           *)

LEMMA QueriesInit == Init => QueriesInv
<1> SUFFICES ASSUME Init
             PROVE  QueriesInv
  OBVIOUS
<1>1. ApiInv
  BY ApiInitInv DEF Init
<1>2. TxTypeOK
  BY <1>1, NoTxType, TxAssumption DEF Init, TxInit, TxTypeOK, TxType, ApiInv, IdsFresh
<1>3. TxInv
  BY <1>1, TxAssumption
     DEF Init, TxInit, ApiInitAll, StoreInit, TxInv, ApiInv, TxTables, LeftGone, RowsIndexed, NoTx
<1>4. QueryTypeOK
  <2>1. (CHOOSE n \in Names : TRUE) \in Names
    BY NamesAssumption
  <2>2. [kind |-> "templates", env |-> Global, name |-> CHOOSE n \in Names : TRUE,
         category |-> "any", template |-> 1] \in Query
    BY <2>1, Numbers DEF Query, AllEnvs
  <2>3. NoGet.asked \in Query
    BY <2>2 DEF NoGet
  <2> QED
    BY <2>3 DEF Init, NoGet, QueryTypeOK
<1>5. GetRead
  BY NoneById DEF Init, NoGet, GetRead, ListingRead
<1> QED
  BY <1>1, <1>2, <1>3, <1>4, <1>5 DEF QueriesInv, TypeOK, ApiInv

LEMMA QueriesNext == QueriesInv /\ [Next]_vars => QueriesInv'
<1> SUFFICES ASSUME QueriesInv, [Next]_vars
             PROVE  QueriesInv'
  OBVIOUS
<1>1. TypeOK /\ TxInv
  BY DEF QueriesInv
<1>2. StoreTypeOK' /\ ApiTypeOK' /\ TxTypeOK' /\ TxInv'
  BY <1>1, TablesKeep
<1>3. QueryTypeOK' /\ GetRead'
  <2>1. CASE GetStep /\ UNCHANGED <<storeVars, apiVars, txVars>>
    BY <2>1, GetStepKeeps
  <2>2. CASE UNCHANGED get
    BY <1>1, <2>2, StepMoves, TablesKeepGet
  <2> QED
    BY <2>1, <2>2 DEF Next, vars
<1> QED
  BY <1>2, <1>3 DEF QueriesInv, TypeOK

\* Whatever overlaps, the tables a transaction sees and those a listing has read
\* are what the invariant says.
THEOREM QueriesInvariant == Spec => []QueriesInv
BY QueriesInit, QueriesNext, PTL DEF Spec

\* updateDb is one step to everybody but itself, although requests and GETs run
\* between its statements and any of them may fail.
THEOREM UpdateOfOneStep == Spec => UpdateIsAtomic
<1>1. QueriesInv => TypeOK /\ TxInv
  BY DEF QueriesInv
<1> QED
  BY <1>1, AtomicStep, QueriesInvariant, PTL DEF Spec, UpdateIsAtomic

\* A filter by category is kept to although the templates, the links to
\* categories and the versions are read one after the other.
THEOREM FilterIsSound == Spec => []FilterSound
<1>1. ASSUME QueriesInv
      PROVE  FilterSound
  <2> SUFFICES ASSUME NEW i \in Listed, get.asked.category # "any"
               PROVE  get.asked.category = "is" <=> HasTag(i)
    BY DEF FilterSound, HasTag
  <2>1. /\ get.asked.kind \in Listing
        /\ i \in get.items \cap get.whole \cap Filtered[get.asked.category]
    BY DEF Listed, Listing
  <2>2. ListingRead /\ TypeOK
    BY <1>1, <2>1 DEF QueriesInv, GetRead
  <2>3. get.asked.category \in {"is", "isNot"}
    BY <2>2, GetFacts DEF Query
  <2>4. Filtered["is"] = get.tagged /\ Filtered["isNot"] = get.items \ get.tagged
    BY DEF Filtered
  <2> QED
    BY <2>1, <2>2, <2>3, <2>4 DEF ListingRead
<1> QED
  BY <1>1, QueriesInvariant, PTL

\* A listing has all the templates of an index or none of them.
THEOREM ListingIsWhole == Spec => []ListedWhole
<1>1. ASSUME QueriesInv
      PROVE  ListedWhole
  <2> SUFFICES ASSUME get.asked.category = "any", NEW i \in Listed
               PROVE  {j.template : j \in {k \in Listed : k.id = i.id}}
                        = {t \in Templates : IndexOf(i.commit)[t] # Missing}
    BY DEF ListedWhole
  <2>1. Filtered["any"] = get.items
    BY DEF Filtered
  <2>2. get.asked.kind \in Listing /\ Listed = get.items \cap get.whole
    BY <2>1 DEF Listed, Listing
  <2>3. ListingRead
    BY <1>1, <2>2 DEF QueriesInv, GetRead
  <2>4. /\ {j \in get.items : j.id = i.id} = Mates(i)
        /\ {j \in get.whole : j.id = i.id} = Mates(i)
    BY <2>2, <2>3 DEF ListingRead, ById
  <2>5. {k \in Listed : k.id = i.id} = Mates(i)
    BY <2>2, <2>4
  <2>6. {j.template : j \in Mates(i)} = {t \in Templates : IndexOf(i.commit)[t] # Missing}
    <3> DEFINE There  == {t \in Templates : IndexOf(i.commit)[t] # Missing}
               RowOf(t) == [id |-> i.id, template |-> t, commit |-> i.commit]
    <3>1. Mates(i) = {RowOf(t) : t \in There}
      BY DEF Mates
    <3>2. \A t \in There : RowOf(t).template = t
      OBVIOUS
    <3> HIDE DEF There, RowOf
    <3>3. \A x : x \in {j.template : j \in Mates(i)} <=> x \in There
      BY <3>1, <3>2
    <3>4. {j.template : j \in Mates(i)} = There
      BY <3>3
    <3> QED
      BY <3>4 DEF There
  <2> QED
    BY <2>5, <2>6
<1> QED
  BY <1>1, QueriesInvariant, PTL

\* The name that a template is asked for by is added, or stands for one catalog of
\* those its environment sees.
Unambiguous ==
  \A r, q \in rows :
    /\ {r.cat.env, q.cat.env} \subseteq {get.asked.env, Global}
    /\ r.cat.name = get.asked.name /\ q.cat.name = get.asked.name
    => r = q \/ get.asked.name \in added

\* As long as it does, the version that is found by the names in a path is the
\* template's own.
THEOREM VersionIsOfTemplate ==
  Spec /\ []Unambiguous => VersionOfTemplate
<1>1. QueriesInv /\ Unambiguous /\ [Next]_vars =>
        [get.pc = "version" /\ get'.pc = "files" /\ get.asked.name \notin added =>
           \A i \in get.items \cap TemplatesOf(get.asked) : get'.version = {i}]_vars
  <2> SUFFICES ASSUME QueriesInv, Unambiguous, [Next]_vars, get.pc = "version",
                      get'.pc = "files", get.asked.name \notin added,
                      NEW i \in get.items \cap TemplatesOf(get.asked)
               PROVE  get'.version = {i}
    OBVIOUS
  <2>1. TypeOK /\ TxInv /\ GetRead
    BY DEF QueriesInv
  <2>2. ReadVersion
    BY <2>1, FollowingIs DEF Next, GetStep, StartGet, ReadTemplates, ReadCategories, ReadVersions,
       ReadCatalogNames, RemoveDuplicates, ReadTemplate, ReadVersionsOfTemplate, ReadFiles,
       Respond, Reads, vars
  <2>3. get.asked \in Queries /\ get.asked.kind \notin Listing /\ i.template = get.asked.template
    BY <2>1 DEF GetRead
  <2>4. get.asked.name # AnyName
    BY <2>3, QueryAssumption DEF Listing
  <2>5. PICK j \in TemplatesOf(get.asked) :
          j.template = get.asked.template /\ Reads("version", "version", {j})
    <3>1. NoGet.pc # "files"
      BY DEF NoGet
    <3> QED
      BY <2>2, <3>1 DEF ReadVersion, Response404
  <2>6. get'.version = {j}
    <3>1. get' = [get EXCEPT !.pc = Following["version"], !.version = {j}]
      BY <2>1, <2>5, ReadsIs
    <3> QED
      BY <2>1, <3>1 DEF TypeOK, QueryTypeOK
  <2>7. PICK r \in Catalogs(get.asked) :
          r \in rows /\ i.id = r.id /\ r.index = IndexOf(i.commit) /\ r.index[i.template] # Missing
    BY <2>1, ItemIs
  <2>8. PICK q \in Catalogs(get.asked) :
          q \in rows /\ j.id = q.id /\ q.index = IndexOf(j.commit) /\ q.index[j.template] # Missing
    BY <2>1, ItemIs
  <2>9. r = q
    <3>1. /\ r.cat.name = get.asked.name /\ q.cat.name = get.asked.name
          /\ {r.cat.env, q.cat.env} \subseteq {get.asked.env, Global}
      BY <2>4, <2>7, <2>8 DEF Catalogs
    <3> QED
      BY <2>7, <2>8, <3>1 DEF Unambiguous
  <2>10. i \in Item /\ j \in Item
    BY <2>1, ItemIs
  <2>11. i.commit = j.commit
    BY <2>3, <2>5, <2>7, <2>8, <2>9, <2>10, IndexIs DEF Item
  <2>12. i = j
    BY <2>3, <2>5, <2>7, <2>8, <2>9, <2>10, <2>11 DEF Item
  <2> QED
    BY <2>6, <2>12
<1> QED
  BY <1>1, QueriesInvariant, PTL DEF Spec, VersionOfTemplate

-----------------------------------------------------------------------------
(* Requests one after the other: names, and a listing that goes by them.   *)

\* A name that was not added is as much in use after a commit as before.
LEMMA CommitKeepsUse ==
  ASSUME TypeOK, TxInv, Commit
  PROVE  /\ rows' = (rows \ Named(tx.cat.env, tx.cat.name)) \cup {NewRowInTx}
         /\ NewRowInTx.cat.env = tx.cat.env /\ NewRowInTx.cat.name = tx.cat.name
         /\ tx.pc # "none" /\ added \subseteq added'
         /\ Named(tx.cat.env, tx.cat.name) # {} \/ tx.cat.name \in added'
         /\ \A e, n : n \in added' \/ (Named(e, n)' = {} <=> Named(e, n) = {})
<1> DEFINE old == Named(tx.cat.env, tx.cat.name)
           new == NewRowInTx
<1>1. /\ rows' = (rows \ old) \cup {new} /\ tx.pc # "none"
      /\ added' = added \cup AddedNames
  BY DEF Commit, TxInv, TxTables
<1>2. new.cat.env = tx.cat.env /\ new.cat.name = tx.cat.name
  BY <1>1, NewRowIs, TxFacts DEF Cat
<1>3. old # {} \/ tx.cat.name \in added'
  BY <1>1 DEF AddedNames
<1>4. \A q \in rows : q \in old <=> q.cat.env = tx.cat.env /\ q.cat.name = tx.cat.name
  BY DEF Named, Keyed
<1>5. old \subseteq rows
  BY DEF Named
<1> HIDE DEF old, new
<1>6. ASSUME NEW e, NEW n, n \notin added'
      PROVE  Named(e, n)' = {} <=> Named(e, n) = {}
  <2>1. \A q \in rows : q \in old => old # {}
    OBVIOUS
  <2>2. (\E q \in rows' : q.cat.env = e /\ q.cat.name = n)
          <=> (\E q \in rows : q.cat.env = e /\ q.cat.name = n)
    BY <1>1, <1>2, <1>3, <1>4, <1>5, <1>6
  <2> QED
    BY <2>2 DEF Named, Keyed
<1> QED
  BY <1>1, <1>2, <1>3, <1>6 DEF old, new

\* A transaction puts a catalog back under the name it had, or adds the name.
LEMMA CommitKeepsNames ==
  ASSUME TypeOK, TxInv, NamesInv, Commit, UNCHANGED apiVars
  PROVE  NamesInv'
<1> DEFINE old == Named(tx.cat.env, tx.cat.name)
           new == NewRowInTx
<1>1. /\ rows' = (rows \ old) \cup {new} /\ call' = call /\ added \subseteq added'
      /\ new.cat.env = tx.cat.env /\ new.cat.name = tx.cat.name
      /\ old # {} \/ new.cat.name \in added'
  BY CommitKeepsUse DEF apiVars
<1>2. \A q \in rows : q \in old <=> q.cat.env = new.cat.env /\ q.cat.name = new.cat.name
  BY <1>1 DEF Named, Keyed
<1>3. NamesUnique /\ GlobalsKnown /\ old \subseteq rows
  BY DEF NamesInv, Named
<1>4. ASSUME NEW e, NEW n, NEW o, n \notin added'
      PROVE  /\ IsDuplicateName(e, n)' <=> IsDuplicateName(e, n)
             /\ IsDuplicateEnvName(e, n, o)' <=> IsDuplicateEnvName(e, n, o)
  <2>1. (Named(e, n)' = {} <=> Named(e, n) = {}) /\ (Named(Global, n)' = {} <=> Named(Global, n) = {})
    BY <1>4, CommitKeepsUse
  <2> QED
    BY <2>1 DEF IsDuplicateName, IsDuplicateEnvName
<1> HIDE DEF old, new
<1>5. ASSUME NEW q \in rows, q \notin old, q.cat.name = new.cat.name,
             q.cat.env = new.cat.env \/ Global \in {q.cat.env, new.cat.env}
      PROVE  new.cat.name \in added'
  <2>1. CASE old # {}
    <3>1. PICK r \in old : r \in rows /\ r.cat.env = new.cat.env /\ r.cat.name = new.cat.name
      BY <1>2, <1>3, <2>1
    <3>2. r # q
      BY <1>5
    <3> QED
      BY <1>1, <1>3, <1>5, <3>1, <3>2 DEF NamesUnique
  <2> QED
    BY <1>1, <2>1
<1>6. NamesUnique'
  <2> SUFFICES ASSUME NEW p \in rows', NEW q \in rows', p.cat.name = q.cat.name,
                      p.cat.env = q.cat.env \/ Global \in {p.cat.env, q.cat.env}
               PROVE  p = q \/ p.cat.name \in added'
    BY DEF NamesUnique
  <2>1. CASE p \in rows /\ q \in rows
    BY <1>1, <1>3, <2>1 DEF NamesUnique
  <2>2. CASE p = new /\ q \in rows \ old
    BY <1>5, <2>2
  <2>3. CASE q = new /\ p \in rows \ old
    BY <1>5, <2>3
  <2> QED
    BY <1>1, <2>1, <2>2, <2>3
<1>7. GlobalsKnown'
  <2>1. new.cat.env = Global => new.cat.name \in GlobalNames \cup added'
    BY <1>1, <1>2, <1>3 DEF GlobalsKnown
  <2> QED
    BY <1>1, <1>3, <2>1 DEF GlobalsKnown
<1>8. StillChecked'
  <2> SUFFICES ASSUME NEW c \in Clients
               PROVE  LET n == call[c].new.name
                      IN  /\ call[c].pc # "idle" => call[c].env # Global
                          /\ call[c].pc = "insert" =>
                               n \in added' \/ ~IsDuplicateName(call[c].env, n)'
                          /\ call[c].pc \in {"dupGlobal", "dupEnv", "exists", "write"}
                               => n \notin GlobalNames
                          /\ call[c].pc \in {"exists", "write"} =>
                               n \in added' \/ ~IsDuplicateEnvName(call[c].env, n, call[c].name)'
    BY <1>1 DEF StillChecked
  <2> QED
    BY <1>1, <1>4 DEF NamesInv, StillChecked
<1> QED
  BY <1>6, <1>7, <1>8 DEF NamesInv

LEMMA SameNames ==
  ASSUME NamesInv, rows' = rows, UNCHANGED <<apiVars, added>>
  PROVE  NamesInv'
<1>1. \A e, n, o : /\ IsDuplicateName(e, n)' <=> IsDuplicateName(e, n)
                   /\ IsDuplicateEnvName(e, n, o)' <=> IsDuplicateEnvName(e, n, o)
  BY DEF IsDuplicateName, IsDuplicateEnvName, Named
<1> QED
  BY <1>1, DeleteKeepsNames DEF NamesInv, StillChecked, apiVars

LEMMA NamesKeep ==
  ASSUME Sequential, TypeOK, TxInv, NamesInv, [Next]_vars
  PROVE  NamesInv' /\ added \subseteq added'
<1>1. CASE rows' = rows /\ UNCHANGED <<apiVars, added>>
  BY <1>1, SameNames
<1>2. CASE Commit /\ UNCHANGED apiVars
  BY <1>2, CommitKeepsNames, CommitKeepsUse
<1>3. CASE RequestStep
  BY <1>3, ApiInvOf, ApiKeepsNames DEF RequestStep
<1> QED
  BY <1>1, <1>2, <1>3
     DEF Next, TxNext, ReadCatalogs, ReadConfigured, DeleteOldRow, CreateNewRow, CreateTemplate,
         Rollback, vars, storeVars, txVars

\* A row stays in its environment as long as it has its key.
LEMMA EnvsStay ==
  ASSUME TypeOK, TxInv, [Next]_vars
  PROVE  \A r \in rows' : r.id < nextId => \E q \in rows : q.id = r.id /\ q.cat.env = r.cat.env
<1>1. ApiInv /\ nextId \in Nat /\ StoreTypeOK
  BY ApiInvOf DEF TypeOK, StoreTypeOK
<1>2. CASE rows' = rows
  BY <1>2
<1>3. CASE Commit
  <2>1. rows' \subseteq rows \cup {NewRowInTx} /\ NewRowInTx.id = nextId
    BY <1>3, NewRowIs DEF Commit, TxInv, TxTables
  <2> QED
    BY <1>1, <2>1
<1>4. ASSUME NEW cat \in Cat, CreateCatalog(cat)
      PROVE  \A r \in rows' : r.id < nextId => \E q \in rows : q.id = r.id /\ q.cat.env = r.cat.env
  <2>1. rows' = rows \cup {NewRow(cat, Nothing)} /\ NewRow(cat, Nothing).id = nextId
    BY <1>4 DEF CreateCatalog, NewRow
  <2> QED
    BY <1>1, <2>1
<1>5. ASSUME NEW e, NEW n, NEW new \in Body, UpdateCatalogs(e, n, new)
      PROVE  \A r \in rows' : r.id < nextId => \E q \in rows : q.id = r.id /\ q.cat.env = r.cat.env
  <2> DEFINE edited(q) == IF Keyed(q, e, n) THEN [q EXCEPT !.cat = Overlay(q.cat, new)]
                          ELSE q
  <2>1. rows' = {edited(q) : q \in rows}
    BY <1>5 DEF UpdateCatalogs
  <2>2. ASSUME NEW q \in rows
        PROVE  edited(q).id = q.id /\ edited(q).cat.env = q.cat.env
    <3>1. q \in Row /\ q.cat \in Cat
      BY <1>1 DEF StoreTypeOK, Row
    <3>2. Overlay(q.cat, new).env = q.cat.env
      BY <3>1, OverlayIs
    <3>3. [q EXCEPT !.cat = Overlay(q.cat, new)].cat = Overlay(q.cat, new)
          /\ [q EXCEPT !.cat = Overlay(q.cat, new)].id = q.id
      BY <3>1 DEF Row
    <3> QED
      BY <3>2, <3>3
  <2> HIDE DEF edited
  <2> QED
    BY <2>1, <2>2
<1>6. ASSUME NEW envs, NEW n, DeleteCatalogs(envs, n)
      PROVE  \A r \in rows' : r.id < nextId => \E q \in rows : q.id = r.id /\ q.cat.env = r.cat.env
  BY <1>6 DEF DeleteCatalogs
<1>7. CASE RequestStep
  BY <1>1, <1>2, <1>4, <1>5, <1>6, <1>7, ApiRows DEF RequestStep, storeVars
<1> QED
  BY <1>2, <1>3, <1>7
     DEF Next, TxNext, ReadCatalogs, ReadConfigured, DeleteOldRow, CreateNewRow, CreateTemplate,
         Rollback, vars, storeVars

LEMMA TablesKeepVisible ==
  ASSUME QueriesInv, VisibleRead, [Next]_vars, UNCHANGED get, added \subseteq added'
  PROVE  VisibleRead'
<1>1. SUFFICES ASSUME get.asked.kind = "templates", NEW i \in get.items, NEW r \in rows',
                      r.id = i.id
               PROVE  r.cat.env \in {get.asked.env, Global}
  BY DEF VisibleRead
<1>2. i.id < nextId
  BY <1>1 DEF QueriesInv, GetRead, ListingRead, Known, Listing
<1> QED
  BY <1>1, <1>2, EnvsStay DEF QueriesInv, VisibleRead

\* The names of the catalogs are read together.
LEMMA NamesReadOnce ==
  ASSUME QueriesInv, NamesUnique, VisibleRead, ReadCatalogNames, UNCHANGED <<storeVars, txVars>>
  PROVE  VisibleRead'
<1> DEFINE found == {<<r.id, r.cat.name>> : r \in {q \in rows : \E i \in Found : i.id = q.id}}
<1>1. TypeOK /\ get.asked \in Query
  BY GetFacts DEF QueriesInv
<1>2. get' = [get EXCEPT !.pc = Following["catalogs"], !.names = found]
  BY <1>1, ReadsIs DEF ReadCatalogNames
<1>3. /\ get'.asked = get.asked /\ get'.items = get.items /\ get'.names = found
      /\ rows' = rows /\ added' = added
  BY <1>1, <1>2 DEF TypeOK, QueryTypeOK, storeVars, txVars
<1>4. ASSUME get.asked.kind = "templates", NEW m \in found, NEW n \in found, m[2] = n[2],
             m[2] \notin added
      PROVE  m[1] = n[1]
  <2>1. PICK r \in rows : m = <<r.id, r.cat.name>> /\ \E i \in Found : i.id = r.id
    OBVIOUS
  <2>2. PICK q \in rows : n = <<q.id, q.cat.name>> /\ \E i \in Found : i.id = q.id
    OBVIOUS
  <2>3. {r.cat.env, q.cat.env} \subseteq {get.asked.env, Global}
    BY <1>4, <2>1, <2>2 DEF Found, VisibleRead
  <2>4. r.cat.name = q.cat.name /\ r.cat.name \notin added
    BY <1>4, <2>1, <2>2
  <2>5. r = q
    BY <2>3, <2>4 DEF NamesUnique
  <2> QED
    BY <2>1, <2>2, <2>5
<1> HIDE DEF found
<1> QED
  BY <1>3, <1>4 DEF VisibleRead

LEMMA GetKeepsVisible ==
  ASSUME QueriesInv, NamesUnique, VisibleRead, GetStep, UNCHANGED <<storeVars, txVars>>
  PROVE  VisibleRead'
<1>1. TypeOK /\ TxInv /\ rows' = rows /\ added' = added /\ QueryTypeOK /\ GetRead
  BY DEF QueriesInv, TypeOK, storeVars, txVars
<1>2. CASE get' = NoGet
  BY <1>2 DEF NoGet, VisibleRead
<1>3. CASE StartGet
  <2>1. get'.items = {} /\ get'.names = {}
    BY <1>3 DEF StartGet, NoGet
  <2> QED
    BY <2>1 DEF VisibleRead
<1>4. CASE ReadTemplates
  <2>1. get' = [get EXCEPT !.pc = Following["templates"], !.items = TemplatesOf(get.asked)]
    BY <1>1, <1>4, ReadsIs DEF ReadTemplates
  <2>2. /\ get'.asked = get.asked /\ get'.names = get.names
        /\ get'.items = TemplatesOf(get.asked)
    BY <1>1, <2>1 DEF QueryTypeOK
  <2>3. ASSUME NEW i \in TemplatesOf(get.asked), NEW r \in rows, r.id = i.id
        PROVE  r.cat.env \in {get.asked.env, Global}
    <3>1. PICK q \in rows : q.id = i.id /\ q.cat.env \in {get.asked.env, Global}
      BY <1>1, ItemIs DEF Catalogs
    <3> QED
      BY <1>1, <2>3, <3>1 DEF TxInv, IdsFresh
  <2> QED
    BY <1>1, <2>2, <2>3 DEF VisibleRead
<1>5. CASE ReadCategories \/ ReadVersions
  <2>1. get'.asked = get.asked /\ get'.names = get.names /\ get'.items = get.items
    BY <1>1, <1>5 DEF ReadCategories, ReadVersions, Reads, QueryTypeOK
  <2> QED
    BY <1>1, <2>1 DEF VisibleRead
<1>6. CASE ReadCatalogNames
  BY <1>6, NamesReadOnce
<1>7. CASE RemoveDuplicates
  <2>1. /\ get'.asked = get.asked /\ get'.names = get.names /\ get'.items \subseteq get.items
    BY <1>1, <1>7 DEF RemoveDuplicates, Reads, QueryTypeOK
  <2> QED
    BY <1>1, <2>1 DEF VisibleRead
<1>8. CASE (ReadTemplate \/ ReadVersionsOfTemplate \/ ReadVersion \/ ReadFiles) /\ get' # NoGet
  <2>1. get.pc \in {"template", "ofTemplate", "version", "files"}
    BY <1>8 DEF ReadTemplate, ReadVersionsOfTemplate, ReadVersion, ReadFiles, Reads
  <2>2. get.asked.kind # "templates"
    BY <1>1, <2>1 DEF GetRead, Listing
  <2>3. get'.asked = get.asked
    BY <1>1, <1>8
       DEF ReadTemplate, ReadVersionsOfTemplate, ReadVersion, ReadFiles, Reads, Response404,
           QueryTypeOK
  <2> QED
    BY <2>2, <2>3 DEF VisibleRead
<1> QED
  BY <1>2, <1>3, <1>4, <1>5, <1>6, <1>7, <1>8 DEF GetStep, Respond

LEMMA SequentialNext ==
  Sequential => (QueriesInv /\ SequentialInv /\ [Next]_vars => SequentialInv')
<1> SUFFICES ASSUME Sequential, QueriesInv, SequentialInv, [Next]_vars
             PROVE  SequentialInv'
  OBVIOUS
<1>1. NamesInv' /\ added \subseteq added'
  BY NamesKeep DEF QueriesInv, SequentialInv
<1>2. NamesUnique /\ VisibleRead
  BY DEF SequentialInv, NamesInv
<1>3. CASE GetStep /\ UNCHANGED <<storeVars, apiVars, txVars>>
  BY <1>1, <1>2, <1>3, GetKeepsVisible DEF SequentialInv
<1>4. CASE UNCHANGED get
  BY <1>1, <1>2, <1>4, TablesKeepVisible DEF SequentialInv
<1> QED
  BY <1>3, <1>4 DEF Next, vars

LEMMA SequentialStart ==
  Init /\ OneRowPerCatalog /\ NoShadow => SequentialInv
BY NamesStart DEF Init, NoGet, SequentialInv, VisibleRead

\* Where requests come one after the other, what their checks have found is so
\* when they write, and a listing has read its names when no two of its catalogs
\* had one: but for names that a refresh has added, whose copy of a catalog was
\* older than a delete, or than the row that took its name.
THEOREM SequentialInvariant ==
  Sequential => (Spec /\ OneRowPerCatalog /\ NoShadow => []SequentialInv)
<1> SUFFICES ASSUME Sequential
             PROVE  Spec /\ OneRowPerCatalog /\ NoShadow => []SequentialInv
  OBVIOUS
<1>1. QueriesInv /\ SequentialInv /\ [Next]_vars => SequentialInv'
  BY SequentialNext
<1> QED
  BY <1>1, SequentialStart, QueriesInvariant, PTL DEF Spec

\* So every other name stays that of one catalog, in an environment and among the
\* global catalogs that it sees, although refreshes write copies from before.
THEOREM NamesStayUnique ==
  Sequential => (Spec /\ OneRowPerCatalog /\ NoShadow => []NamesUnique)
<1>1. SequentialInv => NamesUnique
  BY DEF SequentialInv, NamesInv
<1> QED
  BY <1>1, SequentialInvariant, PTL

\* No two templates of GET .../templates have one id of such a name, although
\* catalogs are renamed, created and replaced between its queries.
THEOREM ListingHasNothingTwice ==
  Sequential => (Spec /\ OneRowPerCatalog /\ NoShadow => []ListedOnce)
<1>1. ASSUME QueriesInv, SequentialInv
      PROVE  ListedOnce
  <2> SUFFICES ASSUME get.asked.kind = "templates", NEW i \in Listed, NEW j \in Listed,
                      i.template = j.template, (NamesOf(i) \cap NamesOf(j)) \ added # {}
               PROVE  i = j
    BY DEF ListedOnce
  <2>1. i \in get.items /\ j \in get.items /\ ById(get.items)
    BY <1>1 DEF Listed, QueriesInv, GetRead, ListingRead, Listing
  <2>2. PICK n : <<i.id, n>> \in get.names /\ <<j.id, n>> \in get.names /\ n \notin added
    BY DEF NamesOf
  <2>3. i.id = j.id
    BY <1>1, <2>2 DEF SequentialInv, VisibleRead
  <2>4. j \in Mates(i)
    BY <2>1, <2>3 DEF ById
  <2>5. j.commit = i.commit
    BY <2>4 DEF Mates
  <2>6. i \in Item /\ j \in Item
    BY <1>1, <2>1, GetFacts DEF QueriesInv
  <2> QED
    BY <2>3, <2>5, <2>6 DEF Item
<1> QED
  BY <1>1, SequentialInvariant, QueriesInvariant, PTL

\* Nor is a version joined with another catalog's template under such a name.
THEOREM VersionIsOfTemplateInSequence ==
  Sequential => (Spec /\ OneRowPerCatalog /\ NoShadow => VersionOfTemplate)
<1>1. QueriesInv /\ SequentialInv => Unambiguous
  BY DEF SequentialInv, NamesInv, NamesUnique, Unambiguous
<1> QED
  BY <1>1, SequentialInvariant, VersionIsOfTemplate, QueriesInvariant, PTL

=============================================================================
