--------------------------- MODULE Metadata_proofs ---------------------------
(***************************************************************************)
(* The AI metadata: what every change of the catalog tables keeps; a       *)
(* listing by key and marker skips nothing that was there all along;       *)
(* versions, launch material, and the answers of a launch.  For every      *)
(* number of catalogs, templates, versions, questions, requests and        *)
(* changes between their statements, and every size of page.               *)
(***************************************************************************)
EXTENDS MetadataPaging, LaunchForm, TLAPS, WellFoundedInduction, FiniteSetTheorems

-----------------------------------------------------------------------------
(* What every change of the tables keeps.                                  *)

\* Of some numbers there is a least.
LEMMA FirstIs ==
  ASSUME NEW S \in SUBSET Nat, S # {}
  PROVE  \E m \in S : \A n \in S : m <= n
<1>1. PICK m \in S : \A n \in S : <<n, m>> \notin OpToRel(<, Nat)
  BY NatLessThanWellFounded, WFMin
<1>2. ASSUME NEW n \in S
      PROVE  m <= n
  <2>1. <<n, m>> \in Nat \X Nat /\ ~(<<n, m>>[1] < <<n, m>>[2])
    BY <1>1 DEF OpToRel
  <2> QED
    BY <2>1
<1> QED
  BY <1>2

LEMMA Numbers ==
  /\ NumFolders \in Nat /\ MaxCommit \in Nat /\ MaxChanges \in Nat
  /\ Commits \subseteq 0..MaxCommit /\ Commits \subseteq Nat /\ Folders \subseteq Nat \ {0}
BY TableAssumption DEF Commits, Folders

LEMMA TableTypeInit ==
  ASSUME TableInit
  PROVE  TableTypeOK
<1>1. InitialCatalogs \subseteq CatalogRow
  BY Numbers, TableAssumption DEF CatalogRow
<1>2. \A c, d \in InitialCatalogs : c.cat = d.cat => c = d
  BY TableAssumption
<1>3. {<<c.cat, c.src>> : c \in InitialCatalogs} \subseteq Catalogs \X Sources
  BY <1>1 DEF CatalogRow
<1> QED
  BY <1>1, <1>2, <1>3, Numbers DEF TableInit, TableTypeOK

\* The rows a refresh inserts have keys of their own, above all others.
LEMMA IndexedType ==
  ASSUME TableTypeOK, NEW cat \in Catalogs, NEW src \in Sources, NEW commit \in Commits
  PROVE  /\ Indexed(cat, src, commit) \subseteq TemplateRow
         /\ \A t \in Indexed(cat, src, commit) :
              /\ t.cat = cat
              /\ lastId < t.id /\ t.id <= lastId + NumFolders
         /\ \A t, u \in Indexed(cat, src, commit) : t.id = u.id => t = u
<1> DEFINE new(f) == [id |-> lastId + f, cat |-> cat, folder |-> f, src |-> src,
                      commit |-> commit]
<1>1. lastId \in Nat /\ Held(src, commit) \subseteq Folders
  BY DEF TableTypeOK, Held
<1>2. ASSUME NEW f \in Folders
      PROVE  /\ new(f) \in TemplateRow /\ new(f).cat = cat
             /\ lastId < new(f).id /\ new(f).id <= lastId + NumFolders
  BY <1>1, Numbers DEF TemplateRow, Folders
<1>3. ASSUME NEW f \in Folders, NEW g \in Folders, new(f).id = new(g).id
      PROVE  new(f) = new(g)
  BY <1>1, <1>3, Numbers
<1> QED
  BY <1>1, <1>2, <1>3 DEF Indexed

LEMMA RefreshType ==
  ASSUME TableTypeOK, NEW cat \in Catalogs, NEW src \in Sources, NEW commit \in Commits,
         Refresh(cat, src, commit)
  PROVE  TableTypeOK'
<1> DEFINE new == [cat |-> cat, src |-> src, commit |-> commit]
<1>1. lastId \in Nat /\ lastId' = lastId + NumFolders /\ lastId' \in Nat
  BY Numbers DEF Refresh, TableTypeOK
<1>2. catalogs' \subseteq CatalogRow /\ \A c, d \in catalogs' : c.cat = d.cat => c = d
  BY Numbers DEF Refresh, TableTypeOK, Without, CatalogRow
<1>3. templates' \subseteq TemplateRow
  BY IndexedType DEF Refresh, TableTypeOK, Unjoined
<1>4. ASSUME NEW t \in templates'
      PROVE  t.id <= lastId' /\ \E c \in catalogs' : c.cat = t.cat
  <2>1. CASE t \in Indexed(cat, src, commit)
    <3>1. t.cat = cat /\ t.id <= lastId'
      BY <1>1, <2>1, IndexedType
    <3>2. new \in catalogs' /\ new.cat = cat
      BY DEF Refresh
    <3> QED
      BY <3>1, <3>2
  <2>2. CASE t \in Unjoined(cat)
    <3>1. t \in templates /\ t.cat # cat /\ t.id \in Nat /\ t.id <= lastId
      BY <2>2 DEF Unjoined, TableTypeOK, TemplateRow
    <3>2. PICK c \in catalogs : c.cat = t.cat
      BY <3>1 DEF TableTypeOK
    <3>3. c \in catalogs'
      BY <3>1, <3>2 DEF Refresh, Without
    <3> QED
      BY <1>1, <3>1, <3>2, <3>3, Numbers
  <2> QED
    BY <1>4, <2>1, <2>2 DEF Refresh
<1>5. ASSUME NEW t \in templates', NEW u \in templates', t.id = u.id
      PROVE  t = u
  <2>1. \A v \in Unjoined(cat) : v \in templates /\ v.id \in Nat /\ v.id <= lastId
    BY DEF Unjoined, TableTypeOK, TemplateRow
  <2>2. \A v \in Indexed(cat, src, commit) : v.id \in Nat /\ lastId < v.id
    BY IndexedType DEF TemplateRow
  <2>3. templates' = Unjoined(cat) \cup Indexed(cat, src, commit)
    BY DEF Refresh
  <2>4. CASE t \in Unjoined(cat) /\ u \in Unjoined(cat)
    BY <1>5, <2>1, <2>4 DEF TableTypeOK
  <2>5. CASE t \in Indexed(cat, src, commit) /\ u \in Indexed(cat, src, commit)
    BY <1>5, <2>5, IndexedType
  <2> QED
    BY <1>1, <1>5, <2>1, <2>2, <2>3, <2>4, <2>5
<1>6. known' \subseteq Catalogs \X Sources /\ changes' \in 0..MaxChanges
  BY Numbers DEF Refresh, Change, TableTypeOK
<1> QED
  BY <1>1, <1>2, <1>3, <1>4, <1>5, <1>6 DEF TableTypeOK

LEMMA EditType ==
  ASSUME TableTypeOK, NEW c \in catalogs, NEW cat \in Catalogs, NEW src \in Sources,
         Edit(c, cat, src)
  PROVE  TableTypeOK'
<1> DEFINE edited == [c EXCEPT !.cat = cat, !.src = src]
           moved(t) == [t EXCEPT !.cat = cat]
           mine == templates \ Unjoined(c.cat)
<1>1. edited \in CatalogRow /\ edited.cat = cat
  BY DEF TableTypeOK, CatalogRow
<1>2. catalogs' = (catalogs \ {c}) \cup {edited}
  BY DEF Edit
<1>3. catalogs' \subseteq CatalogRow /\ \A d, e \in catalogs' : d.cat = e.cat => d = e
  BY <1>1, <1>2 DEF Edit, TableTypeOK
<1>4. templates' = Unjoined(c.cat) \cup {moved(t) : t \in mine}
  BY DEF Edit
<1>5. \A t \in mine : moved(t) \in TemplateRow /\ moved(t).id = t.id /\ moved(t).cat = cat
  BY DEF TableTypeOK, TemplateRow
<1>6. templates' \subseteq TemplateRow
  BY <1>4, <1>5 DEF Unjoined, TableTypeOK
<1>7. ASSUME NEW t \in templates'
      PROVE  t.id <= lastId' /\ \E d \in catalogs' : d.cat = t.cat
  <2>1. lastId' = lastId
    BY DEF Edit
  <2>2. CASE t \in Unjoined(c.cat)
    <3>1. t \in templates /\ t.cat # c.cat
      BY <2>2 DEF Unjoined
    <3>2. PICK d \in catalogs : d.cat = t.cat
      BY <3>1 DEF TableTypeOK
    <3> QED
      BY <1>2, <2>1, <3>1, <3>2 DEF TableTypeOK
  <2>3. CASE t \in {moved(u) : u \in mine}
    <3>1. PICK u \in mine : t = moved(u)
      BY <2>3
    <3>2. t.id = u.id /\ t.cat = cat /\ u \in templates
      BY <1>5, <3>1
    <3>3. edited \in catalogs'
      BY <1>2
    <3> HIDE DEF edited, moved
    <3> QED
      BY <1>1, <2>1, <3>2, <3>3 DEF TableTypeOK
  <2> QED
    BY <1>4, <1>7, <2>2, <2>3
<1>8. ASSUME NEW t \in templates', NEW u \in templates', t.id = u.id
      PROVE  t = u
  <2>1. PICK v \in templates : v.id = t.id /\ t = IF v \in mine THEN moved(v) ELSE v
    BY <1>4, <1>5 DEF Unjoined
  <2>2. PICK w \in templates : w.id = u.id /\ u = IF w \in mine THEN moved(w) ELSE w
    BY <1>4, <1>5 DEF Unjoined
  <2>3. v = w
    BY <1>8, <2>1, <2>2 DEF TableTypeOK
  <2> QED
    BY <2>1, <2>2, <2>3
<1>9. known' \subseteq Catalogs \X Sources /\ changes' \in 0..MaxChanges /\ lastId' \in Nat
  BY Numbers DEF Edit, Known, Change, TableTypeOK
<1> QED
  BY <1>3, <1>6, <1>7, <1>8, <1>9 DEF TableTypeOK

LEMMA DeleteType ==
  ASSUME TableTypeOK, NEW c \in catalogs, Delete(c)
  PROVE  TableTypeOK'
<1>1. templates' \subseteq templates /\ \A t \in templates' : t.cat # c.cat
  BY DEF Delete, Unjoined
<1>2. ASSUME NEW t \in templates'
      PROVE  t.id <= lastId' /\ \E d \in catalogs' : d.cat = t.cat
  <2>1. PICK d \in catalogs : d.cat = t.cat
    BY <1>1, <1>2 DEF TableTypeOK
  <2>2. d # c
    BY <1>1, <1>2, <2>1
  <2> QED
    BY <1>1, <1>2, <2>1, <2>2 DEF Delete, TableTypeOK
<1>3. changes' \in 0..MaxChanges
  BY Numbers DEF Delete, Change, TableTypeOK
<1> QED
  BY <1>1, <1>2, <1>3 DEF Delete, TableTypeOK

LEMMA CreateType ==
  ASSUME TableTypeOK, NEW cat \in Catalogs, NEW src \in Sources, Create(cat, src)
  PROVE  TableTypeOK'
<1>1. [cat |-> cat, src |-> src, commit |-> 0] \in CatalogRow
  BY Numbers DEF CatalogRow
<1>2. catalogs' \subseteq CatalogRow /\ \A c, d \in catalogs' : c.cat = d.cat => c = d
  BY <1>1 DEF Create, TableTypeOK
<1>3. known' \subseteq Catalogs \X Sources /\ changes' \in 0..MaxChanges
  BY Numbers DEF Create, Known, Change, TableTypeOK
<1> QED
  BY <1>2, <1>3 DEF Create, TableTypeOK

\* Every change keeps the type of the tables, its keys among it.
LEMMA TableTypeNext ==
  ASSUME TableTypeOK, TableNext
  PROVE  TableTypeOK'
<1>1. ASSUME NEW r \in known, NEW commit \in Commits, Refresh(r[1], r[2], commit)
      PROVE  TableTypeOK'
  BY <1>1, RefreshType DEF TableTypeOK
<1> QED
  BY <1>1, EditType, DeleteType, CreateType DEF TableNext

\* A key is never used again, nor changed in what it stands for: the row of a
\* key that was there before a change is the row it was, under another name at
\* most.
LEMMA RowsStay ==
  ASSUME TableTypeOK, TableNext, NEW t \in templates', t.id <= lastId
  PROVE  \E u \in templates : /\ u.id = t.id /\ u.src = t.src
                              /\ u.commit = t.commit /\ u.folder = t.folder
<1>1. ASSUME NEW r \in known, NEW commit \in Commits, Refresh(r[1], r[2], commit)
      PROVE  t \in templates
  <2>1. r[1] \in Catalogs /\ r[2] \in Sources /\ lastId \in Nat
    BY <1>1 DEF TableTypeOK
  <2>2. t \notin Indexed(r[1], r[2], commit)
    BY <1>1, <2>1, IndexedType DEF TemplateRow
  <2> QED
    BY <1>1, <2>2 DEF Refresh, Unjoined
<1>2. ASSUME NEW c \in catalogs, NEW cat \in Catalogs, NEW src \in Sources,
             Edit(c, cat, src)
      PROVE  \E u \in templates : /\ u.id = t.id /\ u.src = t.src
                                  /\ u.commit = t.commit /\ u.folder = t.folder
  <2>1. CASE t \in templates
    BY <2>1
  <2>2. CASE \E u \in templates : t = [u EXCEPT !.cat = cat]
    BY <2>2 DEF TableTypeOK, TemplateRow
  <2> QED
    BY <1>2, <2>1, <2>2 DEF Edit, Unjoined
<1>3. ASSUME NEW c \in catalogs, Delete(c)
      PROVE  t \in templates
  BY <1>3 DEF Delete, Unjoined
<1>4. ASSUME NEW cat \in Catalogs, NEW src \in Sources, Create(cat, src)
      PROVE  t \in templates
  BY <1>4 DEF Create
<1> QED
  BY <1>1, <1>2, <1>3, <1>4 DEF TableNext

LEMMA KeysGrow ==
  ASSUME TableTypeOK, TableNext
  PROVE  lastId \in Nat /\ lastId' \in Nat /\ lastId <= lastId'
<1>1. lastId' = lastId \/ lastId' = lastId + NumFolders
  BY DEF TableNext, Refresh, Edit, Delete, Create
<1> QED
  BY <1>1, Numbers DEF TableTypeOK

-----------------------------------------------------------------------------
(* Rows in the order of their keys.                                        *)

\* Of finitely many rows or of none: what the ORDER BY and the LIMIT need.
Keyed(S) == /\ IsFiniteSet(S)
            /\ \A t \in S : t.id \in Nat
            /\ \A t, u \in S : t.id = u.id => t = u

Below(S, t) == {u \in S : u.id < t.id}

LEMMA KeyedSubset ==
  ASSUME NEW S, Keyed(S), NEW T \in SUBSET S
  PROVE  Keyed(T)
BY FS_Subset DEF Keyed

LEMMA BelowIsFinite ==
  ASSUME NEW S, Keyed(S), NEW t
  PROVE  /\ IsFiniteSet(Below(S, t)) /\ Cardinality(Below(S, t)) \in Nat
<1>1. Below(S, t) \in SUBSET S
  BY DEF Below
<1> QED
  BY <1>1, FS_Subset, FS_CardinalityType DEF Keyed

\* The number of rows below a row grows with the row.
LEMMA BelowGrows ==
  ASSUME NEW S, Keyed(S), NEW t \in S, NEW u \in S, u.id <= t.id
  PROVE  Cardinality(Below(S, u)) <= Cardinality(Below(S, t))
<1>1. Below(S, u) \in SUBSET Below(S, t)
  BY DEF Below, Keyed
<1> QED
  BY <1>1, BelowIsFinite, FS_Subset

LEMMA FirstRow ==
  ASSUME NEW S, Keyed(S), S # {}
  PROVE  \E t \in S : \A u \in S : t.id <= u.id
<1> DEFINE ids == {t.id : t \in S}
<1>1. ids \in SUBSET Nat /\ ids # {}
  BY DEF Keyed
<1>2. PICK m \in ids : \A n \in ids : m <= n
  BY <1>1, FirstIs
<1> QED
  BY <1>2

LEMMA LastRow ==
  ASSUME NEW S, Keyed(S), S # {}, NEW bound \in Nat, \A t \in S : t.id <= bound
  PROVE  LastOf(S) \in S /\ \A u \in S : u.id <= LastOf(S).id
<1> DEFINE gaps == {bound - t.id : t \in S}
<1>1. gaps \in SUBSET Nat /\ gaps # {}
  BY DEF Keyed
<1>2. PICK m \in gaps : \A n \in gaps : m <= n
  BY <1>1, FirstIs
<1>3. PICK t \in S : m = bound - t.id
  BY <1>2
<1>4. \A u \in S : t.id \in Nat /\ u.id \in Nat /\ bound - t.id <= bound - u.id
  BY <1>2, <1>3 DEF Keyed
<1>5. \A u \in S : u.id <= t.id
  BY <1>4
<1> QED
  BY <1>5 DEF LastOf

\* A page takes every row below one it takes.
LEMMA LimitIsPrefix ==
  ASSUME NEW S, Keyed(S), NEW n \in Nat, NEW t \in Limit(S, n), NEW u \in S,
         u.id <= t.id
  PROVE  u \in Limit(S, n)
<1>1. t \in S /\ Cardinality(Below(S, t)) < n
  BY DEF Limit, Below
<1>2. Cardinality(Below(S, u)) <= Cardinality(Below(S, t))
  BY <1>1, BelowGrows
<1>3. Cardinality(Below(S, u)) < n
  BY <1>1, <1>2, BelowIsFinite
<1> QED
  BY <1>3 DEF Limit, Below

\* A page of a look-ahead is a page of the rows.
LEMMA LimitOfLimit ==
  ASSUME NEW S, Keyed(S), NEW n \in Nat
  PROVE  Limit(Limit(S, n + 1), n) = Limit(S, n)
<1> DEFINE ahead == Limit(S, n + 1)
<1>1. ahead \subseteq S
  BY DEF Limit
<1>2. ASSUME NEW t \in ahead
      PROVE  Below(ahead, t) = Below(S, t)
  <2>1. \A u \in S : u.id < t.id => u \in ahead
    BY <1>1, <1>2, LimitIsPrefix DEF Keyed
  <2> QED
    BY <1>1, <2>1 DEF Below
<1>3. ASSUME NEW t \in Limit(S, n)
      PROVE  t \in ahead
  <2>1. t \in S /\ Cardinality(Below(S, t)) < n
    BY <1>3 DEF Limit, Below
  <2>2. Cardinality(Below(S, t)) < n + 1
    BY <2>1, BelowIsFinite
  <2> QED
    BY <2>1, <2>2 DEF Limit, Below
<1>4. \A t \in Limit(S, n) : t \in S /\ Cardinality(Below(S, t)) < n
  BY DEF Limit, Below
<1>5. \A t \in S : Cardinality(Below(S, t)) < n => t \in Limit(S, n)
  BY DEF Limit, Below
<1>6. \A t \in Limit(ahead, n) : t \in ahead /\ Cardinality(Below(ahead, t)) < n
  BY DEF Limit, Below
<1>7. \A t \in ahead : Cardinality(Below(ahead, t)) < n => t \in Limit(ahead, n)
  BY DEF Limit, Below
<1> HIDE DEF ahead
<1>8. Limit(ahead, n) \subseteq Limit(S, n)
  BY <1>1, <1>2, <1>5, <1>6
<1>9. Limit(S, n) \subseteq Limit(ahead, n)
  BY <1>2, <1>3, <1>4, <1>7
<1>10. Limit(ahead, n) = Limit(S, n)
  BY <1>8, <1>9
<1> QED
  BY <1>10 DEF ahead

\* The first row is on every page.
LEMMA FirstIsOnPage ==
  ASSUME NEW S, Keyed(S), S # {}, NEW n \in Nat \ {0}
  PROVE  Limit(S, n) # {}
<1>1. PICK t \in S : \A u \in S : t.id <= u.id
  BY FirstRow
<1>2. Below(S, t) = {}
  BY <1>1 DEF Below, Keyed
<1>3. Cardinality(Below(S, t)) < n
  BY <1>2, FS_EmptySet
<1> QED
  BY <1>3 DEF Limit, Below

\* A page that does not grow with its limit has all rows.
LEMMA FullPage ==
  ASSUME NEW S, Keyed(S), NEW n \in Nat \ {0}, Limit(S, n + 1) = Limit(S, n),
         NEW bound \in Nat, \A t \in S : t.id <= bound
  PROVE  Limit(S, n) = S
<1> DEFINE rest == S \ Limit(S, n)
<1>1. Limit(S, n) \subseteq S
  BY DEF Limit
<1>2. SUFFICES ASSUME rest # {} PROVE FALSE
  BY <1>1
<1>3. rest \in SUBSET S
  OBVIOUS
<1>4. PICK t \in rest : \A u \in rest : t.id <= u.id
  BY <1>2, <1>3, KeyedSubset, FirstRow
<1> DEFINE B == Below(S, t)
<1>5. B \in SUBSET S /\ \A u \in B : u \in Limit(S, n) /\ u.id < t.id
  BY <1>4 DEF Below, Keyed
<1>6. t \in S /\ t.id \in Nat /\ Keyed(B) /\ IsFiniteSet(B) /\ Cardinality(B) \in Nat
  BY <1>4, <1>5, KeyedSubset, BelowIsFinite DEF Keyed
<1>7. ~(Cardinality(B) < n + 1)
  <2>1. t \notin Limit(S, n + 1)
    BY <1>4
  <2> QED
    BY <1>6, <2>1 DEF Limit, Below
<1>8. B # {}
  BY <1>6, <1>7, FS_EmptySet
<1>9. PICK x \in B : \A u \in B : u.id <= x.id
  BY <1>5, <1>6, <1>8, LastRow
<1>10. x \in S /\ x \in Limit(S, n) /\ x.id \in Nat /\ x.id < t.id
  BY <1>5, <1>9 DEF Keyed
<1>11. Cardinality(Below(S, x)) < n
  BY <1>10 DEF Limit, Below
<1>12. B \ {x} \in SUBSET Below(S, x)
  <2>1. ASSUME NEW u \in B, u # x
        PROVE  u.id < x.id
    <3>1. u \in S /\ u.id \in Nat /\ u.id <= x.id /\ u.id # x.id
      BY <1>5, <1>9, <1>10, <2>1 DEF Keyed
    <3> QED
      BY <1>10, <3>1
  <2> QED
    BY <1>5, <2>1 DEF Below
<1>13. Cardinality(B \ {x}) = Cardinality(B) - 1
  BY <1>6, <1>9, FS_RemoveElement
<1>14. Cardinality(B \ {x}) <= Cardinality(Below(S, x)) /\ Cardinality(Below(S, x)) \in Nat
  BY <1>10, <1>12, BelowIsFinite, FS_Subset
<1> HIDE DEF B
<1> QED
  BY <1>6, <1>7, <1>11, <1>13, <1>14

-----------------------------------------------------------------------------
(* The invariant, one action after the other.                              *)

\* The template rows have keys of their own, up to the last one given.
LEMMA TemplatesKeyed ==
  ASSUME TableTypeOK
  PROVE  /\ Keyed(templates) /\ Keyed(Listed)
         /\ \A t \in templates : t.id \in Nat \ {0} /\ t.id <= lastId
         /\ Listed \subseteq templates
<1> DEFINE key == [t \in templates |-> t.id]
<1>1. /\ lastId \in Nat
      /\ \A t \in templates : t.id \in Nat \ {0} /\ t.id <= lastId
      /\ \A t, u \in templates : t.id = u.id => t = u
  BY DEF TableTypeOK, TemplateRow
<1>2. \A t \in templates : t.id \in 1..lastId
  BY <1>1
<1>3. key \in Injection(templates, 1..lastId)
  BY <1>1, <1>2 DEF Injection, IsInjective
<1>4. IsFiniteSet(1..lastId)
  BY <1>1, FS_Interval
<1>5. IsFiniteSet(templates)
  BY <1>3, <1>4, FS_Injection
<1>6. Keyed(templates) /\ Listed \in SUBSET templates
  BY <1>1, <1>5 DEF Keyed, Listed, Visible
<1> QED
  BY <1>1, <1>6, KeyedSubset

LEMMA IdentityType ==
  ASSUME TableTypeOK, NEW t \in templates
  PROVE  Identity(t) \in Identities
<1>1. PICK c \in catalogs : c.cat = t.cat
  BY DEF TableTypeOK
<1>2. RowOf(t.cat) \in catalogs
  BY <1>1 DEF RowOf
<1> QED
  BY <1>2 DEF Identity, Identities, TableTypeOK, TemplateRow, CatalogRow

\* What a page reads: the first rows of those that are left, in order.
LEMMA PageOf ==
  ASSUME TableTypeOK, NEW id \in Nat
  PROVE  /\ Keyed(After(id)) /\ After(id) \subseteq Listed /\ After(id) \subseteq templates
         /\ \A t \in After(id) : t.id <= lastId
BY TemplatesKeyed, KeyedSubset DEF After

LEMMA StartInv ==
  ASSUME PagingInv, StartListing
  PROVE  PagingInv'
<1> USE DEF PagingInv, ListingTypeOK
<1>1. TableTypeOK' /\ OneRowPerFolder'
  BY DEF StartListing, TableTypeOK, OneRowPerFolder, tableVars
<1>2. Listed' = Listed /\ \A S : IdentitiesIn(S)' = IdentitiesIn(S)
  BY DEF StartListing, tableVars, Listed, Visible, IdentitiesIn, Identity, RowOf
<1>3. \A t \in Listed : Identity(t) \in Identities /\ Identity(t)' = Identity(t)
                       /\ t.id > 0
  BY TemplatesKeyed, IdentityType DEF StartListing, tableVars, Identity, RowOf
<1>4. PagingTypeOK'
  BY <1>3 DEF StartListing, tableVars, PagingTypeOK, NoMarker, IdentitiesIn, TableTypeOK
<1>5. stable' \subseteq IdentitiesIn(Listed)'
  BY <1>2 DEF StartListing, IdentitiesIn, tableVars, Identity, RowOf
<1>6. SeenOrAhead'
  BY <1>2, <1>3 DEF SeenOrAhead, Ahead, StartListing, IdentitiesIn, NoMarker
<1>7. NothingSkipped'
  BY DEF NothingSkipped, StartListing
<1> QED
  BY <1>1, <1>4, <1>5, <1>6, <1>7

\* A request that reads no rows leaves the tables and what was seen alone.
LEMMA TurnInv ==
  ASSUME PagingInv, NEW at \in {"page", "stale", "unavailable"}, Ends(at),
         list.pc \in {"page", "anchor"}, UNCHANGED <<tableVars, seen, stable>>
  PROVE  PagingInv'
<1> USE DEF PagingInv, ListingTypeOK
<1>1. list'.pc = at /\ list'.marker = list.marker
  BY DEF Ends, PagingTypeOK
<1>2. TableTypeOK' /\ OneRowPerFolder'
  BY DEF TableTypeOK, OneRowPerFolder, tableVars
<1>3. PagingTypeOK'
  BY DEF PagingTypeOK, Ends, tableVars
<1>4. stable' \subseteq IdentitiesIn(Listed)'
  BY DEF Listed, Visible, IdentitiesIn, Identity, RowOf, tableVars
<1>5. SeenOrAhead'
  BY <1>1 DEF SeenOrAhead, Ahead, Listed, Visible, Identity, RowOf, tableVars
<1>6. NothingSkipped'
  BY <1>1 DEF NothingSkipped
<1> QED
  BY <1>2, <1>3, <1>4, <1>5, <1>6

LEMMA ReadPageInv ==
  ASSUME PagingInv, ReadPage
  PROVE  PagingInv'
<1> USE DEF PagingInv, ListingTypeOK
<1> DEFINE A == After(list.marker.id)
<1>1. list.marker.id \in Nat /\ lastId \in Nat /\ list.pc = "page"
  BY DEF PagingTypeOK, NoMarker, TableTypeOK, ReadPage
<1>2. /\ Keyed(A) /\ A \subseteq Listed /\ A \subseteq templates
      /\ \A t \in A : t.id <= lastId /\ t.id \in Nat \ {0}
  BY <1>1, PageOf, TemplatesKeyed
<1>3. PageSize \in Nat \ {0} /\ PageSize + 1 \in Nat \ {0}
  BY PagingAssumption
<1>4. Lookahead = Limit(A, PageSize + 1) /\ Page = Limit(A, PageSize)
  BY <1>2, <1>3, LimitOfLimit DEF Lookahead, Page
<1>5. Page \subseteq A /\ Lookahead \subseteq A
  BY <1>4 DEF Limit
<1>6. \A t \in A : Identity(t) \in Identities /\ Identity(t)' = Identity(t)
  BY <1>2, IdentityType DEF ReadPage, tableVars, Identity, RowOf
<1>7. \A i \in stable : i \in seen \/ \E t \in A : Identity(t) = i
  BY <1>1 DEF SeenOrAhead, Ahead, After
<1>8. seen' = seen \cup IdentitiesIn(Page) /\ stable' = stable
  BY DEF ReadPage
<1>9. TableTypeOK' /\ OneRowPerFolder'
  BY DEF ReadPage, TableTypeOK, OneRowPerFolder, tableVars
<1>10. stable' \subseteq IdentitiesIn(Listed)'
  BY DEF ReadPage, Listed, Visible, IdentitiesIn, Identity, RowOf, tableVars
<1>11. seen' \subseteq Identities /\ stable' \subseteq Identities /\ lastId' = lastId
  BY <1>5, <1>6, <1>8 DEF PagingTypeOK, IdentitiesIn, ReadPage, tableVars
<1>12. CASE Lookahead = Page
  <2>1. Page = A
    BY <1>1, <1>2, <1>3, <1>4, <1>12, FullPage
  <2>2. list'.pc = "end" /\ list' = [list EXCEPT !.pc = "end"]
    BY <1>12 DEF ReadPage, Ends, PagingTypeOK
  <2>3. PagingTypeOK'
    BY <1>11, <2>2 DEF PagingTypeOK
  <2>4. stable' \subseteq seen'
    BY <1>7, <1>8, <2>1 DEF IdentitiesIn
  <2> QED
    BY <1>9, <1>10, <2>2, <2>3, <2>4 DEF SeenOrAhead, NothingSkipped
<1>13. CASE Lookahead # Page
  <2>1. list' = [pc |-> "anchor", marker |-> PageMarker]
    BY <1>13 DEF ReadPage
  <2>2. A # {}
    BY <1>4, <1>5, <1>13
  <2>3. Page # {} /\ Keyed(Page) /\ \A t \in Page : t.id <= lastId
    BY <1>2, <1>3, <1>4, <1>5, <2>2, FirstIsOnPage, KeyedSubset
  <2> DEFINE last == LastOf(Page)
  <2>4. last \in Page /\ \A u \in Page : u.id <= last.id
    BY <1>1, <2>3, LastRow
  <2>5. last \in A /\ last.id \in Nat \ {0} /\ last.id <= lastId
    BY <1>2, <1>5, <2>4
  <2>6. PageMarker = [id |-> last.id, identity |-> Identity(last)]
    BY DEF PageMarker
  <2>7. ASSUME NEW t \in A, t \notin Page
        PROVE  t.id > last.id
    <3>1. ~(t.id <= last.id)
      BY <1>2, <1>3, <1>4, <2>4, <2>7, LimitIsPrefix
    <3> QED
      BY <1>2, <2>5, <3>1
  <2> HIDE DEF A, last
  <2>8. PageMarker.id = last.id
    BY <2>6
  <2>9. PageMarker \in [id : Nat \ {0}, identity : Identities]
    BY <1>6, <2>5, <2>6
  <2>10. list'.pc = "anchor" /\ list'.marker = PageMarker
    BY <2>1
  <2>11. PagingTypeOK'
    BY <1>11, <2>1, <2>5, <2>8, <2>9, <2>10 DEF PagingTypeOK
  <2>12. ASSUME NEW i \in stable, i \notin seen'
         PROVE  \E t \in Listed : Identity(t) = i /\ t.id > last.id
    <3>1. i \notin seen
      BY <1>8, <2>12
    <3>2. PICK t \in A : Identity(t) = i
      BY <1>7, <3>1
    <3>3. t \notin Page
      BY <1>8, <2>12, <3>2 DEF IdentitiesIn
    <3> QED
      BY <1>2, <2>7, <3>2, <3>3
  <2>13. \A t : Identity(t)' = Identity(t)
    BY DEF ReadPage, tableVars, Identity, RowOf
  <2>14. Listed' = Listed
    BY DEF ReadPage, tableVars, Listed, Visible
  <2>15. SeenOrAhead'
    BY <1>8, <2>8, <2>10, <2>12, <2>13, <2>14 DEF SeenOrAhead, Ahead
  <2>16. NothingSkipped'
    BY <2>10 DEF NothingSkipped
  <2> QED
    BY <1>9, <1>10, <2>11, <2>15, <2>16
<1> QED
  BY <1>12, <1>13

-----------------------------------------------------------------------------
(* The tables change between the statements.                               *)

\* Only a refresh gives a folder a row, and it gives it a new one.
LEMMA FolderKeepsRow ==
  ASSUME TableTypeOK, OneRowPerFolder, TableNext,
         NEW t \in templates, NEW u \in templates', t.cat = u.cat, t.folder = u.folder
  PROVE  u.id = t.id \/ u.id > lastId
<1>1. ASSUME NEW r \in known, NEW commit \in Commits, Refresh(r[1], r[2], commit)
      PROVE  u.id = t.id \/ u.id > lastId
  <2>1. r[1] \in Catalogs /\ r[2] \in Sources
    BY DEF TableTypeOK
  <2>2. CASE u \in Indexed(r[1], r[2], commit)
    BY <2>1, <2>2, IndexedType
  <2>3. CASE u \in templates
    BY <2>3 DEF OneRowPerFolder
  <2> QED
    BY <1>1, <2>2, <2>3 DEF Refresh, Unjoined
<1>2. ASSUME NEW c \in catalogs, NEW cat \in Catalogs, NEW src \in Sources,
             Edit(c, cat, src)
      PROVE  u.id = t.id \/ u.id > lastId
  <2>1. CASE u \in templates
    BY <2>1 DEF OneRowPerFolder
  <2>2. CASE \E v \in templates \ Unjoined(c.cat) : u = [v EXCEPT !.cat = cat]
    <3>1. PICK v \in templates \ Unjoined(c.cat) : u = [v EXCEPT !.cat = cat]
      BY <2>2
    <3>2. v \in TemplateRow /\ v.cat = c.cat
      BY DEF Unjoined, TableTypeOK
    <3>3. u.id = v.id /\ u.cat = cat /\ u.folder = v.folder
      BY <3>1, <3>2 DEF TemplateRow
    <3>4. PICK d \in catalogs : d.cat = t.cat
      BY DEF TableTypeOK
    <3>5. d = c
      BY <1>2, <3>3, <3>4 DEF Edit
    <3> QED
      BY <3>2, <3>3, <3>4, <3>5 DEF OneRowPerFolder
  <2> QED
    BY <1>2, <2>1, <2>2 DEF Edit, Unjoined
<1>3. ASSUME NEW c \in catalogs, Delete(c)
      PROVE  u.id = t.id \/ u.id > lastId
  BY <1>3 DEF Delete, Unjoined, OneRowPerFolder
<1>4. ASSUME NEW cat \in Catalogs, NEW src \in Sources, Create(cat, src)
      PROVE  u.id = t.id \/ u.id > lastId
  BY <1>4 DEF Create, OneRowPerFolder
<1> QED
  BY <1>1, <1>2, <1>3, <1>4 DEF TableNext

LEMMA OneRowPerFolderNext ==
  ASSUME TableTypeOK, OneRowPerFolder, TableNext
  PROVE  OneRowPerFolder'
<1> SUFFICES ASSUME NEW t \in templates', NEW u \in templates',
                    t.cat = u.cat, t.folder = u.folder
             PROVE  t = u
  BY DEF OneRowPerFolder
<1>1. ASSUME NEW r \in known, NEW commit \in Commits, Refresh(r[1], r[2], commit)
      PROVE  t = u
  <2>1. r[1] \in Catalogs /\ r[2] \in Sources
    BY DEF TableTypeOK
  <2>2. \A v \in Indexed(r[1], r[2], commit) : v.cat = r[1]
    BY <2>1, IndexedType
  <2>3. ASSUME NEW v \in Indexed(r[1], r[2], commit), NEW w \in Indexed(r[1], r[2], commit),
               v.folder = w.folder
        PROVE  v = w
    BY <2>3 DEF Indexed
  <2>4. \A v \in Unjoined(r[1]) : v \in templates /\ v.cat # r[1]
    BY DEF Unjoined
  <2>5. templates' = Unjoined(r[1]) \cup Indexed(r[1], r[2], commit)
    BY <1>1 DEF Refresh
  <2>6. CASE t \in Indexed(r[1], r[2], commit)
    <3>1. u \in Indexed(r[1], r[2], commit)
      BY <2>2, <2>4, <2>5, <2>6
    <3> QED
      BY <2>3, <2>6, <3>1
  <2>7. CASE t \in Unjoined(r[1])
    <3>1. u \in Unjoined(r[1])
      BY <2>2, <2>4, <2>5, <2>7
    <3> QED
      BY <2>4, <2>7, <3>1 DEF OneRowPerFolder
  <2> QED
    BY <2>5, <2>6, <2>7
<1>2. ASSUME NEW c \in catalogs, NEW cat \in Catalogs, NEW src \in Sources,
             Edit(c, cat, src)
      PROVE  t = u
  <2> DEFINE mine == templates \ Unjoined(c.cat)
             moved(v) == [v EXCEPT !.cat = cat]
  <2>1. \A v \in mine : /\ v \in templates /\ v.cat = c.cat
                        /\ moved(v).cat = cat /\ moved(v).folder = v.folder
    BY DEF Unjoined, TableTypeOK, TemplateRow
  <2>2. \A v \in Unjoined(c.cat) : v \in templates /\ v.cat # c.cat
    BY DEF Unjoined
  <2>3. templates' = Unjoined(c.cat) \cup {moved(v) : v \in mine}
    BY <1>2 DEF Edit
  <2>4. ASSUME NEW v \in Unjoined(c.cat)
        PROVE  v.cat # cat
    <3>1. PICK d \in catalogs : d.cat = v.cat
      BY <2>2 DEF TableTypeOK
    <3>2. d # c
      BY <2>2, <3>1
    <3> QED
      BY <1>2, <3>1, <3>2 DEF Edit
  <2>5. CASE t \in Unjoined(c.cat)
    <3>1. u \in Unjoined(c.cat)
      BY <2>1, <2>3, <2>4, <2>5
    <3> QED
      BY <2>2, <2>5, <3>1 DEF OneRowPerFolder
  <2>6. CASE t \in {moved(v) : v \in mine}
    <3>1. PICK v \in mine : t = moved(v)
      BY <2>6
    <3>2. u \notin Unjoined(c.cat)
      BY <2>1, <2>4, <3>1
    <3>3. PICK w \in mine : u = moved(w)
      BY <2>3, <3>2
    <3>4. v.cat = w.cat /\ v.folder = w.folder
      BY <2>1, <3>1, <3>3
    <3>5. v = w
      BY <2>1, <3>4 DEF OneRowPerFolder
    <3> QED
      BY <3>1, <3>3, <3>5
  <2> QED
    BY <2>3, <2>5, <2>6
<1>3. ASSUME NEW c \in catalogs, Delete(c)
      PROVE  t = u
  BY <1>3 DEF Delete, Unjoined, OneRowPerFolder
<1>4. ASSUME NEW cat \in Catalogs, NEW src \in Sources, Create(cat, src)
      PROVE  t = u
  BY <1>4 DEF Create, OneRowPerFolder
<1> QED
  BY <1>1, <1>2, <1>3, <1>4 DEF TableNext

LEMMA TablesChangeInv ==
  ASSUME PagingInv, TablesChangeMeanwhile
  PROVE  PagingInv'
<1> USE DEF PagingInv, ListingTypeOK
<1>1. TableTypeOK' /\ OneRowPerFolder' /\ lastId \in Nat /\ lastId' \in Nat
      /\ lastId <= lastId'
  BY TableTypeNext, OneRowPerFolderNext, KeysGrow DEF TablesChangeMeanwhile
<1>2. list' = list /\ seen' = seen /\ stable' = stable \cap IdentitiesIn(Listed)'
  BY DEF TablesChangeMeanwhile
<1>3. list.marker.id \in Nat /\ list.marker.id <= lastId
  BY DEF PagingTypeOK, NoMarker
<1>4. PagingTypeOK'
  BY <1>1, <1>2, <1>3 DEF PagingTypeOK
<1>5. ASSUME NEW i \in stable', i \notin seen', list'.pc \in {"page", "anchor"}
      PROVE  Ahead(i)'
  <2>1. PICK u \in Listed' : Identity(u)' = i
    BY <1>2 DEF IdentitiesIn
  <2>2. PICK t \in Listed : Identity(t) = i /\ t.id > list.marker.id
    BY <1>2, <1>5 DEF SeenOrAhead, Ahead
  <2>3. t.cat = u.cat /\ t.folder = u.folder
    BY <2>1, <2>2 DEF Identity
  <2>4. t \in templates /\ u \in templates' /\ t.id \in Nat /\ u.id \in Nat
    BY <1>1, <2>1, <2>2 DEF Listed, Visible, TableTypeOK, TemplateRow
  <2>5. u.id = t.id \/ u.id > lastId
    BY <2>3, <2>4, FolderKeepsRow DEF TablesChangeMeanwhile
  <2>6. u.id > list.marker.id
    BY <1>1, <1>3, <2>2, <2>4, <2>5
  <2> QED
    BY <1>2, <2>1, <2>6 DEF Ahead
<1>6. SeenOrAhead'
  BY <1>5 DEF SeenOrAhead
<1>7. NothingSkipped' /\ stable' \subseteq IdentitiesIn(Listed)'
  BY <1>2 DEF NothingSkipped
<1> QED
  BY <1>1, <1>4, <1>6, <1>7

\* However the tables change between its statements, what a listing still has
\* to give is behind its marker.
THEOREM PagingInvariant == ListingSpec => []PagingInv
<1>1. ListingInit => PagingInv
  <2> SUFFICES ASSUME ListingInit PROVE PagingInv
    OBVIOUS
  <2>1. TableTypeOK /\ OneRowPerFolder
    BY TableTypeInit DEF ListingInit, TableInit, OneRowPerFolder
  <2>2. PagingTypeOK
    BY <2>1 DEF ListingInit, PagingInit, PagingTypeOK, NoMarker, TableTypeOK
  <2> QED
    BY <2>1, <2>2 DEF ListingInit, PagingInit, PagingInv, ListingTypeOK, SeenOrAhead, NothingSkipped
<1>2. PagingInv /\ [ListingNext]_listingVars => PagingInv'
  <2> SUFFICES ASSUME PagingInv, [ListingNext]_listingVars PROVE PagingInv'
    OBVIOUS
  <2>1. CASE ReadAnchor
    <3>1. PICK at \in {"page", "stale", "unavailable"} : Ends(at)
      BY <2>1 DEF ReadAnchor
    <3> QED
      BY <2>1, <3>1, TurnInv DEF ReadAnchor
  <2>2. CASE ReadUnavailable
    BY <2>2, TurnInv DEF ReadUnavailable
  <2>3. CASE UNCHANGED listingVars
    BY <2>3 DEF listingVars, tableVars, pagingVars, PagingInv, ListingTypeOK, TableTypeOK, PagingTypeOK,
                OneRowPerFolder, SeenOrAhead, Ahead, NothingSkipped, Listed, Visible,
                IdentitiesIn, Identity, RowOf
  <2> QED
    BY <2>1, <2>2, <2>3, StartInv, ReadPageInv, TablesChangeInv DEF ListingNext, ListingStep
<1> QED
  BY <1>1, <1>2, PTL DEF ListingSpec

\* A listing that comes to its end has skipped nothing that was there from its
\* first page to its last.
THEOREM NothingIsSkipped == ListingSpec => []NothingSkipped
<1>1. PagingInv => NothingSkipped
  BY DEF PagingInv
<1> QED
  BY <1>1, PagingInvariant, PTL

-----------------------------------------------------------------------------
(* The statements of the requests.                                         *)

\* The rows of the statement on versions are versions of the template that has
\* the key, each with the place it was read from.
LEMMA VersionRowsAre ==
  ASSUME NEW key, NEW v \in VersionRows(key)
  PROVE  /\ v = [of |-> v.of, n |-> v.n]
         /\ v.of \in Visible /\ v.of \in templates /\ v.of.id = key
         /\ v.n \in DOMAIN VersionsOf(v.of)
BY DEF VersionRows, Visible

LEMMA PlaceIsPlace ==
  ASSUME TableTypeOK, NEW key, NEW v \in VersionRows(key)
  PROVE  /\ PlaceOf(v) \in Place
         /\ key \in Nat \ {0} /\ v.n \in Nat \ {0}
         /\ RowOf(v.of.cat).commit \in 0..MaxCommit
<1>1. v.of \in TemplateRow /\ v.of \in templates /\ v.of.id = key
      /\ v.n \in DOMAIN VersionsOf(v.of)
  BY VersionRowsAre DEF TableTypeOK
<1>2. VersionsOf(v.of) \in Seq(Versions)
  BY <1>1, LaunchAssumption DEF VersionsOf, TemplateRow
<1>3. Label(v) \in Versions /\ v.n \in Nat \ {0}
  BY <1>1, <1>2 DEF Label
<1>4. RowOf(v.of.cat) \in catalogs
  BY <1>1 DEF RowOf, TableTypeOK
<1> QED
  BY <1>1, <1>3, <1>4 DEF PlaceOf, Place, TemplateRow, TableTypeOK, CatalogRow

\* The answers and the statements to come are different things.
LEMMA Labels ==
  /\ Answers \cap Statements = {}
  /\ {"ok", "changed", "missing", "unavailable", "unsupported"} \subseteq Answers
BY DEF Answers, Statements

LEMMA RequestKinds ==
  ASSUME NEW r \in Requests
  PROVE  /\ r.asked \in Identities /\ r # NoRequest
         /\ r.kind \in {"list", "launch", "validate"}
         /\ r.kind # "list" => r.version \in Versions
         /\ r.kind = "validate" => r.digest \in Digests
BY DEF Requests, NoRequest

\* A request that ends leaves nothing behind.
LEMMA AnswerKeeps ==
  ASSUME LaunchInv, NEW answer \in Answers, Answer(answer), UNCHANGED <<tableVars, given>>,
         handed' \subseteq Material,
         \A m \in handed' : m.meta = m.files /\ m.digest.files = m.files
  PROVE  LaunchInv'
<1>1. TypeOK'
  <2>1. TableTypeOK'
    BY DEF LaunchInv, TypeOK, TableTypeOK, tableVars
  <2>2. LaunchTypeOK'
    BY Labels, Numbers DEF LaunchInv, TypeOK, TableTypeOK, LaunchTypeOK, Answer, NoRow, NoRequest, tableVars
  <2> QED
    BY <2>1, <2>2 DEF TypeOK
<1>2. OneIndexing' /\ MaterialWhole'
  BY DEF LaunchInv, OneIndexing, MaterialWhole
<1>3. Selected' /\ Marked' /\ Kept'
  BY Labels DEF Selected, Marked, Kept, Answer, NoRequest, Statements
<1> QED
  BY <1>1, <1>2, <1>3 DEF LaunchInv

LEMMA AnswerOnlyKeeps ==
  ASSUME LaunchInv, NEW answer \in Answers, Answer(answer),
         UNCHANGED <<tableVars, given, handed>>
  PROVE  LaunchInv'
BY AnswerKeeps DEF LaunchInv, TypeOK, LaunchTypeOK, MaterialWhole, Kept

LEMMA NotFoundAnswers ==
  ASSUME NotFound
  PROVE  \E answer \in Answers : Answer(answer)
BY Labels DEF NotFound

-----------------------------------------------------------------------------
(* The invariant, one action after the other.                              *)

LEMMA LaunchInvInit ==
  ASSUME Init
  PROVE  LaunchInv
<1>1. TypeOK
  BY TableTypeInit, Labels DEF Init, LaunchInit, TypeOK, TableInit, LaunchTypeOK, NoRow, Answers
<1> QED
  BY <1>1, Labels DEF Init, LaunchInit, LaunchInv, OneIndexing, MaterialWhole, Selected,
                     Marked, Kept, NoRequest

LEMMA AskKeeps ==
  ASSUME LaunchInv, NEW r \in Requests, Ask(r),
         IF r.kind = "list" THEN given' = {} ELSE UNCHANGED given,
         r.kind = "validate" => \E m \in handed : m.digest = r.digest
  PROVE  LaunchInv'
<1>1. TypeOK'
  <2>1. TableTypeOK'
    BY DEF LaunchInv, TypeOK, TableTypeOK, Ask, tableVars
  <2>2. LaunchTypeOK'
    BY RequestKinds
    DEF LaunchInv, TypeOK, LaunchTypeOK, Ask, tableVars, Statements
  <2> QED
    BY <2>1, <2>2 DEF TypeOK
<1>2. OneIndexing' /\ MaterialWhole'
  BY DEF LaunchInv, OneIndexing, MaterialWhole, Ask
<1>3. row' = NoRow /\ pc' = "parent" /\ req' = r
  BY DEF LaunchInv, Marked, Ask
<1>4. Selected' /\ Marked' /\ Kept'
  BY <1>3 DEF LaunchInv, Selected, Marked, Kept, Ask, Answers
<1> QED
  BY <1>1, <1>2, <1>4 DEF LaunchInv

LEMMA RequestsKeep ==
  ASSUME LaunchInv, ListVersions \/ Launch \/ Validate
  PROVE  LaunchInv'
<1>1. CASE ListVersions
  <2>1. PICK id \in Identities : Ask([kind |-> "list", asked |-> id])
    BY <1>1 DEF ListVersions
  <2> QED
    BY <1>1, <2>1, AskKeeps DEF ListVersions, Requests
<1>2. CASE Launch
  <2>1. PICK id \in Identities, v \in Versions :
          Ask([kind |-> "launch", asked |-> id, version |-> v])
    BY <1>2 DEF Launch
  <2> QED
    BY <1>2, <2>1, AskKeeps DEF Launch, Requests
<1>3. CASE Validate
  <2>1. PICK m \in handed :
          Ask([kind |-> "validate", asked |-> m.digest.asked,
               version |-> m.digest.version, digest |-> m.digest])
    BY <1>3 DEF Validate
  <2>2. m.digest \in Digests /\ m.digest.asked \in Identities /\ m.digest.version \in Versions
    BY DEF LaunchInv, TypeOK, LaunchTypeOK, Material, Digests
  <2> QED
    BY <1>3, <2>1, <2>2, AskKeeps DEF Validate, Requests
<1> QED
  BY <1>1, <1>2, <1>3

LEMMA ReadParentKeeps ==
  ASSUME LaunchInv, ReadParent
  PROVE  LaunchInv'
<1> DEFINE found == {t \in Visible : Identity(t) = req.asked}
<1>1. CASE ~Identified(Visible) \/ found = {}
  BY <1>1, NotFoundAnswers, AnswerOnlyKeeps, Labels DEF ReadParent
<1>2. CASE Identified(Visible) /\ found # {}
  <2>1. PICK t \in Visible : parent' = t.id
    BY <1>2 DEF ReadParent, Limit
  <2>2. /\ pc' = IF req.kind # "list" THEN "select"
                 ELSE IF row # NoRow THEN "anchor" ELSE "page"
        /\ UNCHANGED <<req, row, meta, tableVars, given, handed>>
        /\ pc = "parent"
    BY <1>2 DEF ReadParent
  <2>3. parent' \in Nat /\ parent' <= lastId
    BY <2>1 DEF Visible, LaunchInv, TypeOK, TableTypeOK, TemplateRow
  <2>4. TableTypeOK'
    BY <2>2 DEF LaunchInv, TypeOK, TableTypeOK, tableVars
  <2>5. LaunchTypeOK'
    BY <2>2, <2>3 DEF LaunchInv, TypeOK, LaunchTypeOK, Statements, tableVars
  <2>6. OneIndexing' /\ MaterialWhole' /\ Kept'
    BY <2>2 DEF LaunchInv, OneIndexing, MaterialWhole, Kept
  <2>7. Selected' /\ Marked'
    BY <2>2 DEF LaunchInv, Selected, Marked, Answers
  <2> QED
    BY <2>4, <2>5, <2>6, <2>7 DEF LaunchInv, TypeOK
<1> QED
  BY <1>1, <1>2

LEMMA ReadVersionAnchorKeeps ==
  ASSUME LaunchInv, ReadVersionAnchor
  PROVE  LaunchInv'
<1> DEFINE anchor == {v \in VersionRows(parent) : <<parent, v.n>> = row}
<1>1. CASE ~(anchor # {} /\ Rechecked(anchor))
  BY <1>1, AnswerOnlyKeeps, Labels DEF ReadVersionAnchor
<1>2. CASE anchor # {} /\ Rechecked(anchor)
  <2>1. /\ pc = "anchor" /\ pc' = "page"
        /\ UNCHANGED <<req, parent, row, meta, tableVars, given, handed>>
        /\ parent = row[1]
    BY <1>2 DEF ReadVersionAnchor
  <2>2. TypeOK'
    BY <2>1 DEF LaunchInv, TypeOK, TableTypeOK, LaunchTypeOK, Statements, tableVars
  <2>3. OneIndexing' /\ MaterialWhole' /\ Kept'
    BY <2>1 DEF LaunchInv, OneIndexing, MaterialWhole, Kept
  <2>4. Selected' /\ Marked'
    BY <2>1 DEF LaunchInv, Selected, Marked, Answers
  <2> QED
    BY <2>2, <2>3, <2>4 DEF LaunchInv
<1> QED
  BY <1>1, <1>2

\* Every version of a page is of the template with the key of the parent.
LEMMA PageKeys ==
  ASSUME LaunchInv, NEW S, S \subseteq VersionRows(parent)
  PROVE  /\ {<<parent, v.n>> : v \in S} \subseteq (Nat \ {0}) \X (Nat \ {0})
         /\ \A x \in {<<parent, v.n>> : v \in S} : x[1] = parent
BY PlaceIsPlace DEF LaunchInv, TypeOK

\* The listing before a page is read: of the parent, or there is none.
LEMMA GivenOfParent ==
  ASSUME LaunchInv, pc = "page"
  PROVE  /\ req \in Requests /\ req.kind = "list"
         /\ \A v \in given : v[1] = parent
<1>1. req \in Requests /\ req.kind = "list"
  BY DEF LaunchInv, TypeOK, LaunchTypeOK, Statements, Marked, Requests
<1> QED
  BY <1>1 DEF LaunchInv, Marked

LEMMA ReadVersionPageKeeps ==
  ASSUME LaunchInv, ReadVersionPage
  PROVE  LaunchInv'
<1> DEFINE after == {v \in VersionRows(parent) : v.n > row[2]}
           rows == FirstRows(after, VersionPage + 1)
           page == FirstRows(rows, VersionPage)
<1>1. CASE ~Rechecked(rows) \/ ~Distinct(rows)
  BY <1>1, AnswerOnlyKeeps, Labels DEF ReadVersionPage
<1>2. CASE Rechecked(rows) /\ Distinct(rows)
  <2>1. /\ given' = given \cup {<<parent, v.n>> : v \in page}
        /\ UNCHANGED <<tableVars, handed>> /\ pc = "page"
    BY <1>2 DEF ReadVersionPage
  <2>2. page \subseteq VersionRows(parent)
    BY DEF FirstRows
  <2>3. /\ given' \subseteq (Nat \ {0}) \X (Nat \ {0})
        /\ \A v \in given' : v[1] = parent
    BY <2>1, <2>2, PageKeys, GivenOfParent DEF LaunchInv, TypeOK, LaunchTypeOK
  <2>4. TableTypeOK' /\ OneIndexing' /\ MaterialWhole'
    BY <2>1, <2>3 DEF LaunchInv, TypeOK, TableTypeOK, OneIndexing, MaterialWhole, tableVars
  <2>5. CASE rows = page
    <3>1. Answer("ok")
      BY <1>2, <2>5 DEF ReadVersionPage
    <3>2. LaunchTypeOK'
      <4>1. /\ pc' \in Answers /\ pc' \notin Statements /\ req' = NoRequest
            /\ parent' = 0 /\ row' = <<0, 0>> /\ meta' = {}
        BY <3>1, Labels DEF Answer, NoRow
      <4>2. lastId \in Nat /\ lastId' = lastId /\ handed' \subseteq Material
        BY <2>1 DEF LaunchInv, TypeOK, TableTypeOK, LaunchTypeOK, tableVars
      <4> QED
        BY <2>3, <4>1, <4>2 DEF LaunchTypeOK
    <3>3. Selected' /\ Marked' /\ Kept'
      BY <2>1, <3>1, Labels DEF LaunchInv, Selected, Marked, Kept, Answer, NoRequest, Statements
    <3> QED
      BY <2>4, <3>2, <3>3 DEF LaunchInv, TypeOK
  <2>6. CASE rows # page
    <3>1. /\ pc' = "parent" /\ row' = <<parent, row[2] + VersionPage>> /\ parent' = 0
          /\ UNCHANGED <<req, meta>>
      BY <1>2, <2>6 DEF ReadVersionPage
    <3>2. row[2] \in Nat /\ parent \in Nat /\ parent <= lastId /\ VersionPage \in Nat \ {0}
      BY LaunchAssumption DEF LaunchInv, TypeOK, LaunchTypeOK
    <3>3. row' \in Nat \X Nat /\ row'[1] = parent /\ row' # NoRow
      BY <3>1, <3>2 DEF NoRow
    <3>4. LaunchTypeOK'
      <4>1. pc' \in Statements /\ req' \in Requests /\ req' # NoRequest
        BY <2>1, <3>1 DEF LaunchInv, TypeOK, LaunchTypeOK, Statements
      <4>2. lastId \in Nat /\ lastId' = lastId
        BY <2>1 DEF LaunchInv, TypeOK, TableTypeOK, tableVars
      <4>3. /\ parent' \in Nat /\ parent' <= lastId'
            /\ row' \in Nat \X Nat /\ row'[1] <= lastId'
        BY <3>1, <3>2, <3>3, <4>2
      <4>4. meta' \subseteq Place /\ handed' \subseteq Material
        BY <2>1, <3>1 DEF LaunchInv, TypeOK, LaunchTypeOK
      <4> QED
        BY <2>3, <4>1, <4>3, <4>4 DEF LaunchTypeOK
    <3>5. Selected' /\ Marked' /\ Kept'
      BY <2>1, <2>3, <3>1, <3>3 DEF LaunchInv, Selected, Marked, Kept, Answers
    <3> QED
      BY <2>4, <3>4, <3>5 DEF LaunchInv, TypeOK
  <2> QED
    BY <2>5, <2>6
<1> QED
  BY <1>1, <1>2

LEMMA SelectVersionKeeps ==
  ASSUME LaunchInv, SelectVersion
  PROVE  LaunchInv'
<1> DEFINE rows == VersionRows(parent)
           selected == {v \in rows : Label(v) = req.version}
<1>1. CASE ~Rechecked(rows) \/ selected = {}
  BY <1>1, NotFoundAnswers, AnswerOnlyKeeps, Labels DEF SelectVersion
<1>2. CASE Rechecked(rows) /\ selected # {}
  <2>1. PICK v \in rows : row' = <<parent, v.n>> /\ meta' = {PlaceOf(v)}
    BY <1>2 DEF SelectVersion, FirstRows
  <2>2. /\ pc = "select" /\ pc' = "files"
        /\ UNCHANGED <<req, parent, tableVars, given, handed>>
    BY <1>2 DEF SelectVersion
  <2>3. /\ v = [of |-> v.of, n |-> v.n]
        /\ v.of \in templates /\ v.of.id = parent /\ v.n \in Nat
        /\ PlaceOf(v) \in Place
    BY VersionRowsAre, PlaceIsPlace DEF LaunchInv, TypeOK
  <2>4. TableTypeOK' /\ OneIndexing' /\ MaterialWhole' /\ Kept'
    BY <2>2 DEF LaunchInv, TypeOK, TableTypeOK, OneIndexing, MaterialWhole, Kept, tableVars
  <2>5. row' \in Nat \X Nat /\ row'[1] = parent /\ row'[2] = v.n
    BY <2>1, <2>3 DEF LaunchInv, TypeOK, LaunchTypeOK
  <2>6. LaunchTypeOK'
    BY <2>1, <2>2, <2>3, <2>5 DEF LaunchInv, TypeOK, LaunchTypeOK, Statements, tableVars
  <2>7. Selected'
    <3>1. \A t \in templates' : t.id = row'[1] => t = v.of
      BY <2>2, <2>3, <2>5 DEF LaunchInv, TypeOK, TableTypeOK, tableVars
    <3>2. \A t \in templates' : t.id = row'[1]
                => PlaceOf(v) = PlaceOf([of |-> t, n |-> row'[2]])
      BY <2>3, <2>5, <3>1
    <3> QED
      BY <2>1, <2>2, <2>3, <3>2 DEF Selected, PlaceOf, Label, VersionsOf
  <2>8. Marked'
    BY <2>2 DEF LaunchInv, Marked, Answers
  <2> QED
    BY <2>4, <2>6, <2>7, <2>8 DEF LaunchInv, TypeOK
<1> QED
  BY <1>1, <1>2

\* The files are of the place that was noted when the version was selected.
LEMMA FilesOfSelected ==
  ASSUME LaunchInv, pc = "files", NEW v \in FilesRows
  PROVE  /\ PlaceOf(v) \in Place /\ meta = {PlaceOf(v)}
         /\ req \in Requests /\ req.kind \in {"launch", "validate"}
<1>1. /\ v = [of |-> v.of, n |-> row[2]]
      /\ v.of \in templates /\ v.of.id = row[1] /\ PlaceOf(v) \in Place
  BY VersionRowsAre, PlaceIsPlace DEF FilesRows, LaunchInv, TypeOK
<1>2. meta = {PlaceOf(v)}
  BY <1>1 DEF LaunchInv, Selected
<1>3. req \in Requests /\ req.kind # "list"
  BY DEF LaunchInv, TypeOK, LaunchTypeOK, Statements, Marked
<1> QED
  BY <1>1, <1>2, <1>3, RequestKinds

LEMMA HandOutKeeps ==
  ASSUME LaunchInv, pc = "files", Current, req.kind = "launch",
         NEW v \in FilesRows, HandOut(v), UNCHANGED <<tableVars, given>>
  PROVE  LaunchInv'
<1>1. Made(v).meta = PlaceOf(v) /\ Made(v).files = PlaceOf(v)
  BY FilesOfSelected DEF Made
<1>2. Made(v).digest.files = PlaceOf(v)
  BY DEF Made, Digest
<1>3. Digest(v) \in Digests
  <2>1. RowOf(v.of.cat).commit \in 0..MaxCommit
    BY PlaceIsPlace DEF FilesRows, LaunchInv, TypeOK
  <2> QED
    BY <2>1, FilesOfSelected, RequestKinds DEF Digest, Digests
<1>4. Made(v) \in Material
  BY <1>1, <1>3, FilesOfSelected DEF Made, Material
<1> SUFFICES ASSUME PlaceOf(v) \notin Unsupported
             PROVE  LaunchInv'
  BY AnswerOnlyKeeps, Labels DEF HandOut
<1>5. handed' = handed \cup {Made(v)} /\ Answer("ok")
  BY DEF HandOut
<1>6. handed' \subseteq Material /\ \A m \in handed' : m.meta = m.files /\ m.digest.files = m.files
  BY <1>1, <1>2, <1>4, <1>5 DEF LaunchInv, TypeOK, LaunchTypeOK, MaterialWhole, Kept
<1> QED
  BY <1>5, <1>6, AnswerKeeps, Labels

LEMMA ReadFilesKeeps ==
  ASSUME LaunchInv, ReadFiles
  PROVE  LaunchInv'
<1>1. CASE FilesRows = {} /\ NotFound /\ UNCHANGED handed
  BY <1>1, NotFoundAnswers, AnswerOnlyKeeps DEF ReadFiles
<1>2. CASE ~Current /\ Answer("changed") /\ UNCHANGED handed
  BY <1>2, AnswerOnlyKeeps, Labels DEF ReadFiles
<1>3. ASSUME Current, NEW v \in FilesRows,
             IF req.kind = "launch" THEN HandOut(v) ELSE Compare(v)
      PROVE  LaunchInv'
  <2>1. CASE req.kind = "launch"
    BY <1>3, <2>1, HandOutKeeps DEF ReadFiles
  <2>2. CASE req.kind # "launch"
    BY <1>3, <2>2, AnswerOnlyKeeps, Labels DEF ReadFiles, Compare
  <2> QED
    BY <2>1, <2>2
<1> QED
  BY <1>1, <1>2, <1>3 DEF ReadFiles

LEMMA TablesChangeKeeps ==
  ASSUME LaunchInv, TablesChange
  PROVE  LaunchInv'
<1>1. TableNext /\ UNCHANGED <<requestVars, given, handed>>
  BY DEF TablesChange
<1>2. TableTypeOK /\ TableTypeOK' /\ lastId \in Nat /\ lastId' \in Nat /\ lastId <= lastId'
  BY <1>1, TableTypeNext, KeysGrow DEF LaunchInv, TypeOK
<1>3. LaunchTypeOK'
  BY <1>1, <1>2 DEF LaunchInv, TypeOK, LaunchTypeOK, requestVars
<1>4. OneIndexing' /\ MaterialWhole' /\ Marked' /\ Kept'
  BY <1>1 DEF LaunchInv, OneIndexing, MaterialWhole, Marked, Kept, requestVars
<1>5. ASSUME pc = "files"
      PROVE  \A t \in templates' : t.id = row[1] => meta = {PlaceOf([of |-> t, n |-> row[2]])}
  <2>1. SUFFICES ASSUME NEW t \in templates', t.id = row[1]
                 PROVE  meta = {PlaceOf([of |-> t, n |-> row[2]])}
    OBVIOUS
  <2>2. t.id <= lastId
    BY <2>1 DEF LaunchInv, TypeOK, LaunchTypeOK
  <2>3. PICK u \in templates : /\ u.id = t.id /\ u.src = t.src
                               /\ u.commit = t.commit /\ u.folder = t.folder
    BY <1>1, <1>2, <2>2, RowsStay
  <2>4. meta = {PlaceOf([of |-> u, n |-> row[2]])}
    BY <1>5, <2>1, <2>3 DEF LaunchInv, Selected
  <2>5. PlaceOf([of |-> u, n |-> row[2]]) = PlaceOf([of |-> t, n |-> row[2]])
    BY <2>3 DEF PlaceOf, Label, VersionsOf
  <2> QED
    BY <2>4, <2>5
<1>6. Selected'
  <2> SUFFICES ASSUME pc = "files" PROVE Selected'
    BY <1>1 DEF Selected, requestVars
  <2>1. PICK place \in Place : meta = {place}
    BY DEF LaunchInv, Selected
  <2>2. \A t \in templates' : t.id = row[1] => place = PlaceOf([of |-> t, n |-> row[2]])
    BY <1>5, <2>1
  <2> QED
    BY <1>1, <2>1, <2>2 DEF Selected, requestVars, PlaceOf, Label, VersionsOf
<1> QED
  BY <1>2, <1>3, <1>4, <1>6 DEF LaunchInv, TypeOK

LEMMA LaunchInvNext ==
  ASSUME LaunchInv, [Next]_vars
  PROVE  LaunchInv'
<1>1. CASE UNCHANGED vars
  BY <1>1 DEF vars, tableVars, requestVars, LaunchInv, TypeOK, TableTypeOK, LaunchTypeOK,
     OneIndexing, MaterialWhole, Selected, Marked, Kept, PlaceOf, Label, VersionsOf
<1> QED
  BY <1>1, RequestsKeep, ReadParentKeeps, ReadVersionAnchorKeeps, ReadVersionPageKeeps,
     SelectVersionKeeps, ReadFilesKeeps, TablesChangeKeeps DEF Next

-----------------------------------------------------------------------------
(* What follows.                                                           *)

\* Whatever changes between its statements, what a request goes on with is
\* true of the row it goes on with (versions.go, launch.go).
THEOREM LaunchInvariant == Spec => []LaunchInv
BY LaunchInvInit, LaunchInvNext, PTL DEF Spec

\* The types, with a key for one template row at a time.
THEOREM LaunchTypeCorrect == Spec => []TypeOK
<1>1. LaunchInv => TypeOK
  BY DEF LaunchInv
<1> QED
  BY <1>1, LaunchInvariant, PTL

\* Material is never put together of two indexings.
THEOREM MaterialIsWhole == Spec => []MaterialWhole
<1>1. LaunchInv => MaterialWhole
  BY DEF LaunchInv
<1> QED
  BY <1>1, LaunchInvariant, PTL

\* Nor is a listing of versions.
THEOREM ListingIsOfOneIndexing == Spec => []OneIndexing
<1>1. LaunchInv => OneIndexing
  BY DEF LaunchInv
<1> QED
  BY <1>1, LaunchInvariant, PTL

\* Every version listed is one of the identity asked for when it is read.
THEOREM ListedVersionsAreOfAsked == Spec => VersionsOfAsked
<1> DEFINE Step == \A v \in given' \ given :
                     \E t \in Visible : t.id = v[1] /\ Identity(t) = req.asked
<1>1. ASSUME [Next]_vars
      PROVE  Step \/ UNCHANGED vars
  <2>1. CASE ReadVersionPage
    <3> DEFINE after == {v \in VersionRows(parent) : v.n > row[2]}
               rows == FirstRows(after, VersionPage + 1)
               page == FirstRows(rows, VersionPage)
    <3>1. \/ given' = given
          \/ Rechecked(rows) /\ given' = given \cup {<<parent, v.n>> : v \in page}
      BY <2>1 DEF ReadVersionPage
    <3>2. page \subseteq rows /\ rows \subseteq VersionRows(parent)
      BY DEF FirstRows
    <3>3. ASSUME Rechecked(rows), NEW v \in page
          PROVE  v.of \in Visible /\ v.of.id = parent /\ Identity(v.of) = req.asked
      BY <3>2, <3>3, VersionRowsAre DEF Rechecked
    <3> QED
      BY <3>1, <3>3
  <2>2. CASE ~ReadVersionPage /\ Next
    <3>1. given' \subseteq given
      BY <2>2 DEF Next, ListVersions, Launch, Validate, ReadParent, ReadVersionAnchor,
         SelectVersion, ReadFiles, TablesChange
    <3> QED
      BY <3>1
  <2> QED
    BY <1>1, <2>1, <2>2
<1> QED
  BY <1>1, PTL DEF Spec, VersionsOfAsked

\* What is accepted is what was handed out, down to its files.
THEOREM AcceptedIsAsHanded == Spec => AcceptedAsHanded
<1> DEFINE Step == pc = "files" /\ req.kind = "validate" /\ pc' = "ok"
                     => \E m \in handed : /\ m.digest = req.digest
                                          /\ \E v \in FilesRows : m.files = PlaceOf(v)
<1>1. ASSUME LaunchInv, [Next]_vars
      PROVE  Step
  <2>1. SUFFICES ASSUME pc = "files", req.kind = "validate", pc' = "ok"
                 PROVE  \E m \in handed : /\ m.digest = req.digest
                                          /\ \E v \in FilesRows : m.files = PlaceOf(v)
    OBVIOUS
  <2>2. ReadFiles
    BY <1>1, <2>1 DEF Next, ListVersions, Launch, Validate, Ask, ReadParent, ReadVersionAnchor,
       ReadVersionPage, SelectVersion, TablesChange, Answers, requestVars, vars
  <2>3. PICK v \in FilesRows : Compare(v)
    BY <2>1, <2>2 DEF ReadFiles, NotFound, Answer
  <2>4. Digest(v) = req.digest
    BY <2>1, <2>3 DEF Compare, Answer
  <2>5. PICK m \in handed : m.digest = req.digest
    BY <1>1, <2>1 DEF LaunchInv, Kept
  <2>6. m.files = PlaceOf(v)
    BY <1>1, <2>4, <2>5 DEF LaunchInv, Kept, Digest
  <2> QED
    BY <2>3, <2>5, <2>6
<1> QED
  BY <1>1, LaunchInvariant, PTL DEF Spec, AcceptedAsHanded

-----------------------------------------------------------------------------
(* Options.                                                                *)

\* No error goes by the name of success.
LEMMA ErrorsAreErrors ==
  ASSUME NEW questions, NEW form
  PROVE  /\ "none" \notin PublicErrors(questions, form)
         /\ "none" \notin Misdirected(questions, form, "human", "invalid")
         /\ "none" \notin Misdirected(questions, form, "reference", "invalid")
         /\ \A q : "none" \notin ErrorsOf(q, form)
<1>1. \A channel, error : error # "none" => "none" \notin Misdirected(questions, form, channel, error)
  BY DEF Misdirected
<1>2. \A q, value : "none" \notin WrongWith(q, value)
  BY DEF WrongWith
<1> QED
  BY <1>1, <1>2 DEF PublicErrors, ErrorsOf

\* A launch is accepted only when every check of ValidateLaunch found nothing.
LEMMA AcceptedMeans ==
  ASSUME NEW questions \in Seq(Question), NEW form,
         NEW outcome \in ValidateLaunch(questions, form), outcome.error = "none"
  PROVE  /\ outcome = Values(questions, form)
         /\ Builds(questions)
         /\ PublicErrors(questions, form) = {}
         /\ ~PublicMissing(questions, form)
         /\ Misdirected(questions, form, "human", "invalid") = {}
         /\ \A i \in DOMAIN questions : ErrorsOf(questions[i], form) = {}
<1> DEFINE wrong == {i \in DOMAIN questions : ErrorsOf(questions[i], form) # {}}
           first == UNION {ErrorsOf(questions[i], form) :
                             i \in {j \in wrong : \A k \in wrong : j <= k}}
           stages == <<IF Builds(questions) THEN {} ELSE {"unsupported"},
                       PublicErrors(questions, form),
                       IF PublicMissing(questions, form) THEN {"invalid"} ELSE {},
                       Misdirected(questions, form, "human", "invalid"),
                       Misdirected(questions, form, "reference", "invalid"),
                       first>>
           failed == {n \in DOMAIN stages : stages[n] # {}}
<1>1. /\ DOMAIN stages = 1..6
      /\ stages[1] = IF Builds(questions) THEN {} ELSE {"unsupported"}
      /\ stages[2] = PublicErrors(questions, form)
      /\ stages[3] = IF PublicMissing(questions, form) THEN {"invalid"} ELSE {}
      /\ stages[4] = Misdirected(questions, form, "human", "invalid")
      /\ stages[5] = Misdirected(questions, form, "reference", "invalid")
      /\ stages[6] = first
  OBVIOUS
<1>2. "none" \notin first
  BY ErrorsAreErrors
<1>3. \A n \in 1..6 : "none" \notin stages[n]
  <2> HIDE DEF first, stages
  <2>1. \A n \in 1..6 : n = 1 \/ n = 2 \/ n = 3 \/ n = 4 \/ n = 5 \/ n = 6
    OBVIOUS
  <2> QED
    BY <1>1, <1>2, <2>1, ErrorsAreErrors
<1>4. failed = {}
  <2> SUFFICES ASSUME failed # {} PROVE FALSE
    OBVIOUS
  <2> DEFINE n == CHOOSE n \in failed : \A m \in failed : n <= m
  <2>1. failed \in SUBSET Nat
    BY <1>1
  <2>2. n \in failed
    <3> HIDE DEF failed
    <3> QED BY <2>1, FirstIs
  <2>3. outcome \in Failures(stages[n])
    BY DEF ValidateLaunch
  <2>4. n \in 1..6
    BY <1>1, <2>2
  <2> HIDE DEF stages, failed, n
  <2>5. PICK e \in stages[n] : outcome = [error |-> e]
    BY <2>3 DEF Failures
  <2> QED
    BY <1>3, <2>4, <2>5
<1>5. \A n \in 1..6 : stages[n] = {}
  <2> HIDE DEF stages
  <2> QED
    BY <1>1, <1>4
<1>6. outcome \in {Values(questions, form)}
  BY <1>4 DEF ValidateLaunch
<1>7. wrong = {}
  <2> SUFFICES ASSUME wrong # {} PROVE FALSE
    OBVIOUS
  <2>1. wrong \in SUBSET Nat
    OBVIOUS
  <2>2. PICK i \in wrong : \A k \in wrong : i <= k
    <3> HIDE DEF wrong
    <3> QED BY <2>1, FirstIs
  <2>3. ErrorsOf(questions[i], form) \subseteq first /\ ErrorsOf(questions[i], form) # {}
    BY <2>2
  <2> HIDE DEF stages, first
  <2>4. first = {}
    BY <1>1, <1>5
  <2> QED
    BY <2>3, <2>4
<1>8. \A i \in DOMAIN questions : ErrorsOf(questions[i], form) = {}
  BY <1>7
<1>9. outcome = Values(questions, form)
  BY <1>6
<1>10. Builds(questions) /\ ~PublicMissing(questions, form)
  <2>1. stages[1] = {} /\ stages[3] = {}
    <3> HIDE DEF stages
    <3> QED BY <1>5
  <2> HIDE DEF stages
  <2> QED BY <1>1, <2>1
<1>11. /\ PublicErrors(questions, form) = {}
       /\ Misdirected(questions, form, "human", "invalid") = {}
  <2> HIDE DEF stages
  <2> QED BY <1>1, <1>5
<1> QED
  BY <1>8, <1>9, <1>10, <1>11

\* The answer by the channel of q, if there is one.
LEMMA AnswersToIs ==
  ASSUME NEW q, NEW form
  PROVE  AnswersTo(q, form) = IF q.name \in DOMAIN form[Channel(q)]
                                THEN {form[Channel(q)][q.name]} ELSE {}
BY DEF AnswersTo

LEMMA Channels ==
  ASSUME NEW q
  PROVE  /\ Channel(q) \in {"safe", "human", "reference"}
         /\ Channel(q) = "reference" <=> q.kind = "service"
         /\ Channel(q) = "safe" <=> q.kind \in Primitive /\ ~q.sensitive
BY DEF Channel, Primitive

\* A name that is asked for is answered by the channel of its question only.
LEMMA ByItsChannel ==
  ASSUME NEW questions, NEW form, Builds(questions), NEW i \in DOMAIN questions,
         NEW channel, NEW error, Misdirected(questions, form, channel, error) = {},
         questions[i].name \in DOMAIN form[channel]
  PROVE  Channel(questions[i]) = channel
<1> DEFINE asked == {j \in DOMAIN questions : questions[j].name = questions[i].name}
<1>1. channel \in {Channel(questions[j]) : j \in asked}
  BY DEF Misdirected
<1>2. \A j \in asked : j = i
  BY DEF Builds
<1> QED
  BY <1>1, <1>2

\* What has nothing wrong with it is permitted.
LEMMA NothingWrong ==
  ASSUME NEW q \in Question, NEW value, WrongWith(q, value) = {}, value # Blank,
         Channel(q) = "reference" => value.type = "text"
  PROVE  Permitted(q, value)
<1>1. MaxLength(q) \in Int /\ (q.maxLength > 0 => MaxLength(q) = q.maxLength)
  BY OptionsAssumption DEF MaxLength, Question
<1>2. value.type = "text" => value.text \notin q.forbidden
  BY DEF WrongWith, ForbiddenText
<1>3. CASE Channel(q) = "reference"
  BY <1>2, <1>3, Channels DEF Permitted
<1>4. ASSUME NEW kind, ValidValue(q, kind, value), q.kind = "enum" => kind = "enum"
      PROVE  Permitted(q, value)
  <2>1. value.type = "text" => Fits(q, value) /\ (kind = "enum" => value.text \in q.options)
    BY <1>4 DEF ValidValue, Fits
  <2>2. value.type = "text" => /\ Units[value.text] >= q.minLength
                               /\ q.maxLength > 0 => Units[value.text] <= q.maxLength
    BY <1>1, <2>1 DEF Fits
  <2>3. value.type = "number" => AtLeast(q, value.number) /\ AtMost(q, value.number)
    BY <1>4 DEF ValidValue, Fits
  <2> QED
    BY <1>2, <1>4, <2>1, <2>2, <2>3 DEF Permitted, AtLeast, AtMost
<1>5. CASE Channel(q) = "safe"
  BY <1>4, <1>5 DEF WrongWith
<1>6. CASE Channel(q) = "human"
  <2>1. ~InvalidHuman(q, value)
    BY <1>6 DEF WrongWith
  <2> QED
    BY <1>4, <2>1 DEF InvalidHuman, Primitive
<1> QED
  BY <1>3, <1>5, <1>6, Channels

-----------------------------------------------------------------------------
(* The invariant: an accepted launch is one of the questions in the files  *)
(* its digest stands for, and it is so whatever the tables have become.    *)

ReplyInv ==
    Accepted =>
      /\ reply.form \in Forms /\ reply.digest.files \in Place
      /\ \E outcome \in ValidateLaunch(QuestionsOf[reply.digest.files], reply.form) :
           /\ outcome.error = "none"
           /\ reply.values = outcome.values /\ reply.pending = outcome.pending

FormInv == LaunchInv /\ ReplyInv

LEMMA AnswersValidatedKeep ==
  ASSUME LaunchInv, AnswersValidated
  PROVE  ReplyInv'
<1>1. ReadFiles /\ pc = "files" /\ req.kind = "validate" /\ pc' = "ok"
  BY DEF AnswersValidated, ReadFiles
<1>2. PICK v \in FilesRows, form \in Forms :
        \E outcome \in ValidateLaunch(QuestionsOf[PlaceOf(v)], form) :
          reply' = IF outcome.error = "none"
                   THEN [error |-> "none", digest |-> req.digest, form |-> form,
                         values |-> outcome.values, pending |-> outcome.pending]
                   ELSE [error |-> Code(outcome.error)]
  BY DEF AnswersValidated
<1>3. PICK outcome \in ValidateLaunch(QuestionsOf[PlaceOf(v)], form) :
        reply' = IF outcome.error = "none"
                 THEN [error |-> "none", digest |-> req.digest, form |-> form,
                       values |-> outcome.values, pending |-> outcome.pending]
                 ELSE [error |-> Code(outcome.error)]
  BY <1>2
<1>4. PICK w \in FilesRows : Compare(w)
  BY <1>1 DEF ReadFiles, NotFound, Answer
<1>5. req.digest = Digest(w)
  BY <1>1, <1>4 DEF Compare, Answer
<1>6. PlaceOf(v) \in Place /\ PlaceOf(w) = PlaceOf(v)
  BY <1>1, FilesOfSelected
<1>7. req.digest.files = PlaceOf(v)
  BY <1>5, <1>6 DEF Digest
<1>8. CASE outcome.error = "none"
  <2>1. /\ reply'.error = "none" /\ reply'.digest = req.digest /\ reply'.form = form
        /\ reply'.values = outcome.values /\ reply'.pending = outcome.pending
    BY <1>3, <1>8
  <2> QED
    BY <1>6, <1>7, <1>8, <2>1 DEF ReplyInv
<1>9. CASE outcome.error # "none"
  BY <1>3, <1>9 DEF ReplyInv, Accepted, Code
<1> QED
  BY <1>8, <1>9

\* What LaunchMaterial does is all that becomes of its part of the state.
THEOREM FormInvariant == FormSpec => []FormInv
<1>1. FormInit => FormInv
  BY LaunchInvInit DEF FormInit, FormInv, ReplyInv, Accepted, NoReply
<1>2. FormInv /\ [FormNext]_<<vars, reply>> => FormInv'
  <2> SUFFICES ASSUME FormInv, [FormNext]_<<vars, reply>>
               PROVE  FormInv'
    OBVIOUS
  <2>1. [Next]_vars
    BY DEF FormNext, AnswersValidated, Next
  <2>2. LaunchInv'
    BY <2>1, LaunchInvNext DEF FormInv
  <2>3. CASE AnswersValidated
    BY <2>2, <2>3, AnswersValidatedKeep DEF FormInv
  <2>4. CASE reply' = NoReply
    BY <2>2, <2>4 DEF FormInv, ReplyInv, Accepted, NoReply
  <2>5. CASE UNCHANGED <<vars, reply>>
    BY <2>2, <2>5 DEF FormInv, ReplyInv, Accepted
  <2> QED
    BY <2>3, <2>4, <2>5 DEF FormNext
<1> QED
  BY <1>1, <1>2, PTL DEF FormSpec

\* What an accepted launch says of a question the client was shown.
LEMMA OfShown ==
  ASSUME FormInv, Accepted, NEW questions \in Shown, NEW i \in DOMAIN questions
  PROVE  /\ questions[i] \in Question /\ reply.form \in Forms
         /\ Builds(questions)
         /\ Misdirected(questions, reply.form, "safe", "needsHuman") = {}
         /\ Misdirected(questions, reply.form, "human", "invalid") = {}
         /\ ~PublicMissing(questions, reply.form)
         /\ ErrorsOf(questions[i], reply.form) = {}
         /\ reply.values[i] = ValueOf(questions[i], reply.form)
         /\ i \in reply.pending <=> Pending(questions[i], reply.form)
<1>1. questions = QuestionsOf[reply.digest.files]
  BY DEF Shown, FormInv, LaunchInv, Kept
<1>2. questions \in Seq(Question)
  BY <1>1, FormAssumption DEF FormInv, ReplyInv
<1>3. PICK outcome \in ValidateLaunch(questions, reply.form) :
        /\ outcome.error = "none"
        /\ reply.values = outcome.values /\ reply.pending = outcome.pending
  BY <1>1 DEF FormInv, ReplyInv
<1>4. /\ outcome = Values(questions, reply.form) /\ Builds(questions)
      /\ PublicErrors(questions, reply.form) = {} /\ ~PublicMissing(questions, reply.form)
      /\ Misdirected(questions, reply.form, "human", "invalid") = {}
      /\ ErrorsOf(questions[i], reply.form) = {}
  BY <1>2, <1>3, AcceptedMeans
<1>5. Misdirected(questions, reply.form, "safe", "needsHuman") = {}
  BY <1>4 DEF PublicErrors
<1>6. /\ reply.values = [j \in DOMAIN questions |-> ValueOf(questions[j], reply.form)]
      /\ reply.pending = {j \in DOMAIN questions : Pending(questions[j], reply.form)}
  BY <1>3, <1>4 DEF Values
<1> QED
  BY <1>2, <1>4, <1>5, <1>6 DEF FormInv, ReplyInv

\* A question has the value that was given by its channel, or a blank.
LEMMA ValueGiven ==
  ASSUME NEW q, NEW form
  PROVE  \/ AnswersTo(q, form) = {} /\ ValueOf(q, form) = Blank
         \/ /\ q.name \in DOMAIN form[Channel(q)]
            /\ ValueOf(q, form) = form[Channel(q)][q.name]
            /\ AnswersTo(q, form) = {ValueOf(q, form)}
BY AnswersToIs DEF ValueOf

\* The answers of a launch that is accepted fit the questions that were handed
\* out with its digest, however the template was indexed in the meantime.
THEOREM AcceptedAnswersFit == FormSpec => []AnswersFit
<1>1. FormInv => AnswersFit
  <2> SUFFICES ASSUME FormInv, Accepted, NEW questions \in Shown, NEW i \in DOMAIN questions
               PROVE  /\ \/ reply.values[i] = Blank
                         \/ Permitted(questions[i], reply.values[i])
                      /\ questions[i].sensitive \/ questions[i].kind \in {"password", "service"}
                           => questions[i].name \notin DOMAIN reply.form.safe
                      /\ questions[i].kind = "service"
                           => questions[i].name \notin DOMAIN reply.form.human
    BY DEF AnswersFit
  <2> DEFINE q == questions[i]
             value == ValueOf(q, reply.form)
  <2>1. reply.values[i] = value /\ q \in Question /\ ErrorsOf(q, reply.form) = {}
    BY OfShown
  <2>2. value = Blank \/ Permitted(q, value)
    <3> SUFFICES ASSUME value # Blank PROVE Permitted(q, value)
      OBVIOUS
    <3>1. /\ q.name \in DOMAIN reply.form[Channel(q)]
          /\ value = reply.form[Channel(q)][q.name] /\ value \in AnswersTo(q, reply.form)
      BY ValueGiven
    <3>2. WrongWith(q, value) = {}
      BY <2>1, <3>1 DEF ErrorsOf
    <3>3. Channel(q) = "reference" => value.type = "text"
      BY <3>1, OfShown, FormAssumption
    <3> QED
      BY <2>1, <3>2, <3>3, NothingWrong
  <2>3. q.sensitive \/ q.kind \in {"password", "service"} => Channel(q) # "safe"
    BY Channels DEF Primitive
  <2>4. q.name \in DOMAIN reply.form.safe => Channel(q) = "safe"
    BY OfShown, ByItsChannel
  <2>5. q.name \in DOMAIN reply.form.human => Channel(q) = "human"
    BY OfShown, ByItsChannel
  <2> QED
    BY <2>1, <2>2, <2>3, <2>4, <2>5, Channels
<1> QED
  BY <1>1, FormInvariant, PTL

\* Nothing takes the place of an answer that was not given.
THEOREM AcceptedAssumesNothing == FormSpec => []NothingAssumed
<1>1. FormInv => NothingAssumed
  <2> SUFFICES ASSUME FormInv, Accepted, NEW questions \in Shown, NEW i \in DOMAIN questions
               PROVE  LET q == questions[i]
                          provided == UNION {{reply.form[c][n] :
                                                n \in DOMAIN reply.form[c] \cap {q.name}} :
                                               c \in {"safe", "human", "reference"}}
                          value == reply.values[i]
                      IN  /\ value = Blank \/ value \in provided
                          /\ value = Blank /\ q.required => i \in reply.pending
                          /\ provided = {} /\ (q.sensitive \/ q.kind \notin Primitive)
                               => i \in reply.pending
    BY DEF NothingAssumed
  <2> DEFINE q == questions[i]
             provided == UNION {{reply.form[c][n] : n \in DOMAIN reply.form[c] \cap {q.name}} :
                                  c \in {"safe", "human", "reference"}}
             value == reply.values[i]
  <2>1. value = ValueOf(q, reply.form) /\ (i \in reply.pending <=> Pending(q, reply.form))
    BY OfShown
  <2>2. AnswersTo(q, reply.form) \subseteq provided
    BY Channels DEF AnswersTo
  <2>3. value = Blank \/ value \in provided
    <3>1. value = Blank \/ AnswersTo(q, reply.form) = {value}
      BY <2>1, ValueGiven
    <3> HIDE DEF provided, q, value
    <3> QED
      BY <2>2, <3>1
  <2>4. ASSUME value = Blank, q.required
        PROVE  i \in reply.pending
    <3>1. AnswersTo(q, reply.form) = {} \/ AnswersTo(q, reply.form) = {Blank}
      <4>1. AnswersTo(q, reply.form) = {} \/ AnswersTo(q, reply.form) = {value}
        BY <2>1, ValueGiven
      <4> QED
        BY <2>4, <4>1
    <3>2. Channel(q) # "safe"
      BY <2>4, <3>1, OfShown DEF PublicMissing
    <3> QED
      BY <2>1, <2>4, <3>1, <3>2 DEF Pending
  <2>5. ASSUME provided = {}, q.sensitive \/ q.kind \notin Primitive
        PROVE  i \in reply.pending
    <3>1. AnswersTo(q, reply.form) = {} /\ Channel(q) # "safe"
      BY <2>2, <2>5, Channels
    <3> QED
      BY <2>1, <3>1 DEF Pending
  <2> QED
    BY <2>3, <2>4, <2>5
<1> QED
  BY <1>1, FormInvariant, PTL

=============================================================================
