--------------------------- MODULE UpdateTx_proofs ---------------------------
(***************************************************************************)
(* What requests that come one after the other keep of the names of        *)
(* catalogs while refreshes put rows back beside them, for every number of *)
(* catalogs, requests and refreshes.                                       *)
(***************************************************************************)
EXTENDS UpdateTx, CatalogAPI_proofs

\* A name that is inserted is in nobody's way.
LEMMA InsertKeepsNames ==
  ASSUME NamesUnique, GlobalsKnown, NEW cat, cat.env # Global,
         cat.name \in added \/ ~IsDuplicateName(cat.env, cat.name),
         CreateCatalog(cat), added \subseteq added'
  PROVE  NamesUnique' /\ GlobalsKnown'
<1> DEFINE new == NewRow(cat, Nothing)
<1>1. rows' = rows \cup {new} /\ new.cat = cat
  BY DEF CreateCatalog, NewRow
<1>2. cat.name \in added \/ \A r \in rows : r.cat.env \in {cat.env, Global} => r.cat.name # cat.name
  BY NamedIs
<1> HIDE DEF new
<1> QED
  BY <1>1, <1>2 DEF NamesUnique, GlobalsKnown

\* Neither is one that a catalog is given.
LEMMA RenameKeepsNames ==
  ASSUME NamesUnique, GlobalsKnown, StoreTypeOK, NEW e, NEW n \in Names, NEW new \in Body,
         e # Global, new.name \notin GlobalNames,
         new.name \in added \/ ~IsDuplicateEnvName(e, new.name, n),
         UpdateCatalogs(e, n, new), added' = added \cup Renamed
  PROVE  NamesUnique' /\ GlobalsKnown'
<1> DEFINE edited(q) == IF Keyed(q, e, n) THEN [q EXCEPT !.cat = Overlay(q.cat, new)]
                        ELSE q
           name == IF new.name = Empty THEN n ELSE new.name
<1>1. rows' = {edited(q) : q \in rows}
  BY DEF UpdateCatalogs
<1>2. ASSUME NEW q \in rows
      PROVE  /\ edited(q).id = q.id /\ edited(q).cat.env = q.cat.env
             /\ edited(q).cat.name = IF Keyed(q, e, n) THEN name ELSE q.cat.name
             /\ ~Keyed(q, e, n) => edited(q) = q
  <2>1. q \in Row /\ q.cat \in Cat
    BY DEF StoreTypeOK, Row
  <2>2. CASE Keyed(q, e, n)
    <3>1. edited(q).cat = Overlay(q.cat, new) /\ edited(q).id = q.id
      BY <2>1, <2>2 DEF Row
    <3> QED
      BY <2>1, <2>2, <3>1, OverlayIs DEF Keyed
  <2> QED
    BY <2>2
<1> HIDE DEF edited
<1>3. ASSUME NEW q \in rows, edited(q).cat.name \notin added'
      PROVE  q.cat.name \notin added /\ edited(q).cat.name \notin added
  BY <1>1, <1>2, <1>3 DEF Renamed
<1>4. new.name \in added \/ name = n \/ \A r \in rows : ~(r.cat.env = e /\ r.cat.name = name)
  BY NamedIs DEF IsDuplicateEnvName
<1>5. name = n \/ (name = new.name /\ name \notin GlobalNames)
  <2>1. CASE new.name = Empty
    BY <2>1
  <2>2. CASE new.name # Empty
    BY <2>2
  <2> QED
    BY <2>1, <2>2
<1> HIDE DEF name
<1>6. ASSUME NEW q \in rows, NEW r \in rows, Keyed(q, e, n), ~Keyed(r, e, n),
             edited(q).cat.name = edited(r).cat.name, r.cat.env \in {e, Global},
             edited(q).cat.name \notin added'
      PROVE  FALSE
  <2>1. r.cat.name = name /\ q.cat.env = e /\ q.cat.name = n
    BY <1>2, <1>6 DEF Keyed
  <2>2. n \notin added /\ name \notin added
    BY <1>2, <1>3, <1>6, <2>1
  <2>3. q # r
    BY <1>6
  <2>4. name # n
    BY <1>6, <2>1, <2>2, <2>3 DEF NamesUnique, Keyed
  <2>5. name = new.name /\ name \notin GlobalNames
    BY <1>5, <2>4
  <2>6. r.cat.env # Global
    BY <2>1, <2>2, <2>5 DEF GlobalsKnown
  <2> QED
    BY <1>4, <1>6, <2>1, <2>2, <2>4, <2>5, <2>6
<1>7. NamesUnique'
  <2> SUFFICES ASSUME NEW q \in rows, NEW r \in rows,
                      edited(q).cat.name = edited(r).cat.name,
                      edited(q).cat.env = edited(r).cat.env
                        \/ Global \in {edited(q).cat.env, edited(r).cat.env},
                      edited(q).cat.name \notin added'
               PROVE  edited(q) = edited(r)
    BY <1>1 DEF NamesUnique
  <2>1. q.cat.env = r.cat.env \/ Global \in {q.cat.env, r.cat.env}
    BY <1>2
  <2>2. q.cat.name \notin added /\ r.cat.name \notin added
    BY <1>3
  <2>3. CASE Keyed(q, e, n) /\ Keyed(r, e, n)
    BY <2>2, <2>3 DEF NamesUnique, Keyed
  <2>4. CASE Keyed(q, e, n) /\ ~Keyed(r, e, n)
    BY <1>6, <2>1, <2>4 DEF Keyed
  <2>5. CASE ~Keyed(q, e, n) /\ Keyed(r, e, n)
    BY <1>6, <2>1, <2>5 DEF Keyed
  <2>6. CASE ~Keyed(q, e, n) /\ ~Keyed(r, e, n)
    BY <1>2, <2>1, <2>2, <2>6 DEF NamesUnique
  <2> QED
    BY <2>3, <2>4, <2>5, <2>6
<1>8. GlobalsKnown'
  BY <1>1, <1>2 DEF GlobalsKnown, Keyed
<1> QED
  BY <1>7, <1>8

LEMMA DeleteKeepsNames ==
  ASSUME NamesUnique, GlobalsKnown, rows' \subseteq rows, added \subseteq added'
  PROVE  NamesUnique' /\ GlobalsKnown'
BY DEF NamesUnique, GlobalsKnown

\* The one request there is.
LEMMA OnlyCall ==
  ASSUME Sequential, ApiInv, NEW c \in Clients, NEW x, call' = [call EXCEPT ![c] = x]
  PROVE  \A d \in Clients : call'[d] = x
BY BodyFacts DEF Sequential

LEMMA RespondsChecked ==
  ASSUME Sequential, ApiInv, NEW c \in Clients, Responds(c)
  PROVE  StillChecked'
<1>1. \A d \in Clients : call'[d].pc = "idle"
  BY OnlyCall DEF Responds, NoCall
<1> QED
  BY <1>1 DEF StillChecked

\* A check leaves the table as it is, so what it finds is so.
LEMMA CheckKeepsChecked ==
  ASSUME Sequential, ApiInv, NamesInv, NEW c \in Clients, Serve(c), ~InsertCatalog(c),
         ~UpdateCatalog(c), added \subseteq added'
  PROVE  NamesInv'
<1>1. UNCHANGED storeVars /\ rows' = rows
  BY DEF Serve, CheckCreate, CheckGlobalName, CheckEnvName, CheckExists, Check, storeVars
<1>2. NamesUnique' /\ GlobalsKnown'
  BY <1>1, DeleteKeepsNames DEF NamesInv
<1>3. CASE Responds(c)
  BY <1>2, <1>3, RespondsChecked DEF NamesInv
<1>4. ASSUME NEW next, Proceeds(c, next)
      PROVE  \A d \in Clients : /\ d = c /\ call'[d].pc = next
                                /\ call'[d].env = call[c].env /\ call'[d].new = call[c].new
                                /\ call'[d].name = call[c].name
  BY <1>4, BodyFacts DEF Proceeds, Sequential, Call
<1>5. StillChecked /\ \A e, n, o : /\ IsDuplicateName(e, n)' <=> IsDuplicateName(e, n)
                                   /\ IsDuplicateEnvName(e, n, o)' <=> IsDuplicateEnvName(e, n, o)
  BY <1>1 DEF NamesInv, IsDuplicateName, IsDuplicateEnvName, Named
<1>6. CASE CheckCreate(c) /\ ~Responds(c)
  <2>1. /\ call[c].pc = "create" /\ ~IsDuplicateName(call[c].env, call[c].new.name)
        /\ Proceeds(c, "insert")
    BY <1>6 DEF CheckCreate, Check, In
  <2>2. StillChecked'
    BY <1>4, <1>5, <2>1 DEF StillChecked
  <2> QED
    BY <1>2, <2>2 DEF NamesInv
<1>7. CASE CheckGlobalName(c) /\ ~Responds(c)
  <2>1. call[c].pc = "dupGlobal" /\ Proceeds(c, "dupEnv")
    BY <1>7 DEF CheckGlobalName, Check, In
  <2>2. StillChecked'
    BY <1>4, <1>5, <2>1 DEF StillChecked
  <2> QED
    BY <1>2, <2>2 DEF NamesInv
<1>8. CASE CheckEnvName(c) /\ ~Responds(c)
  <2>1. /\ call[c].pc = "dupEnv" /\ Proceeds(c, "exists")
        /\ ~IsDuplicateEnvName(call[c].env, call[c].new.name, call[c].name)
    BY <1>8 DEF CheckEnvName, Check, In
  <2>2. StillChecked'
    BY <1>4, <1>5, <2>1 DEF StillChecked
  <2> QED
    BY <1>2, <2>2 DEF NamesInv
<1>9. CASE CheckExists(c) /\ ~Responds(c)
  <2>1. call[c].pc = "exists" /\ Proceeds(c, "write")
    BY <1>9 DEF CheckExists, Check, In
  <2>2. StillChecked'
    BY <1>4, <1>5, <2>1 DEF StillChecked
  <2> QED
    BY <1>2, <2>2 DEF NamesInv
<1> QED
  BY <1>3, <1>6, <1>7, <1>8, <1>9 DEF Serve

LEMMA ApiKeepsNames ==
  ASSUME Sequential, ApiInv, NamesInv, ApiNext, added' = added \cup Renamed
  PROVE  NamesInv'
<1>1. PICK c \in Clients :
        StartCreate(c) \/ StartUpdate(c) \/ DeleteCatalog(c) \/ Serve(c)
  BY DEF ApiNext
<1>2. NamesUnique /\ GlobalsKnown /\ StillChecked /\ StoreTypeOK /\ added \subseteq added'
  BY DEF NamesInv, ApiInv
<1>3. CASE StartCreate(c)
  <2>1. PICK cat \in Creates :
          call' = [call EXCEPT ![c] =
                     [pc |-> "create", env |-> cat.env, name |-> cat.name,
                      new |-> [name |-> cat.name, src |-> cat.src, pin |-> cat.pin]]]
    BY <1>3 DEF StartCreate
  <2> DEFINE x == [pc |-> "create", env |-> cat.env, name |-> cat.name,
                   new |-> [name |-> cat.name, src |-> cat.src, pin |-> cat.pin]]
  <2>2. x.pc = "create" /\ x.env # Global
    BY DEF Sequential
  <2>3. call' = [call EXCEPT ![c] = x]
    BY <2>1
  <2> HIDE DEF x
  <2>4. StillChecked'
    BY <2>2, <2>3, OnlyCall DEF StillChecked
  <2>5. NamesUnique' /\ GlobalsKnown'
    BY <1>2, <1>3, DeleteKeepsNames DEF StartCreate, storeVars
  <2> QED
    BY <2>4, <2>5 DEF NamesInv
<1>4. CASE StartUpdate(c)
  <2>1. PICK u \in Updates :
          call' = [call EXCEPT ![c] = [pc |-> "dupGlobal", env |-> u.env,
                                       name |-> u.name, new |-> u.new]]
    BY <1>4 DEF StartUpdate
  <2> DEFINE x == [pc |-> "dupGlobal", env |-> u.env, name |-> u.name, new |-> u.new]
  <2>2. x.pc = "dupGlobal" /\ x.env # Global /\ x.new.name \notin GlobalNames
    BY DEF Sequential
  <2>3. call' = [call EXCEPT ![c] = x]
    BY <2>1
  <2> HIDE DEF x
  <2>4. StillChecked'
    BY <2>2, <2>3, OnlyCall DEF StillChecked
  <2>5. NamesUnique' /\ GlobalsKnown'
    BY <1>2, <1>4, DeleteKeepsNames DEF StartUpdate, storeVars
  <2> QED
    BY <2>4, <2>5 DEF NamesInv
<1>5. CASE DeleteCatalog(c)
  <2>1. \A d \in Clients : call'[d].pc = "idle"
    BY <1>5 DEF DeleteCatalog, Begin, In, Sequential
  <2>2. StillChecked'
    BY <2>1 DEF StillChecked
  <2>3. NamesUnique' /\ GlobalsKnown'
    BY <1>2, <1>5, DeleteKeepsNames DEF DeleteCatalog, DeleteCatalogs
  <2> QED
    BY <2>2, <2>3 DEF NamesInv
<1>6. CASE InsertCatalog(c)
  <2> DEFINE cat == [env |-> call[c].env, name |-> call[c].new.name,
                     src |-> call[c].new.src, pin |-> call[c].new.pin,
                     commit |-> NoCommit]
  <2>1. CreateCatalog(cat) /\ call[c].pc = "insert" /\ Responds(c)
    BY <1>6 DEF InsertCatalog, In
  <2>2. cat.env # Global /\ (cat.name \in added \/ ~IsDuplicateName(cat.env, cat.name))
    BY <1>2, <2>1 DEF StillChecked
  <2> HIDE DEF cat
  <2> QED
    BY <1>2, <2>1, <2>2, InsertKeepsNames, RespondsChecked DEF NamesInv
<1>7. CASE UpdateCatalog(c)
  <2>1. /\ call[c].pc = "write" /\ Responds(c)
        /\ UpdateCatalogs(call[c].env, call[c].name, call[c].new)
    BY <1>7 DEF UpdateCatalog, In
  <2>2. NamesUnique' /\ GlobalsKnown'
    BY <1>2, <2>1, BodyFacts, RenameKeepsNames DEF StillChecked
  <2> QED
    BY <2>1, <2>2, RespondsChecked DEF NamesInv
<1> QED
  BY <1>1, <1>3, <1>4, <1>5, <1>6, <1>7, CheckKeepsChecked

LEMMA NamesStart ==
  ASSUME ApiInitAll, TxInit, OneRowPerCatalog, NoShadow
  PROVE  NamesInv
<1>1. rows = InitialRows /\ \A c \in Clients : call[c].pc = "idle"
  BY DEF ApiInitAll, StoreInit, ApiInit, NoCall
<1>2. NamesUnique
  BY DEF OneRowPerCatalog, NoShadow, NamesUnique, Keyed
<1>3. GlobalsKnown
  BY <1>1 DEF GlobalsKnown, GlobalNames
<1> QED
  BY <1>1, <1>2, <1>3 DEF NamesInv, StillChecked

=============================================================================
