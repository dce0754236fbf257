-------------------------- MODULE CatalogAPI_proofs --------------------------
(***************************************************************************)
(* What the requests that change catalogs do to the table, and what they   *)
(* keep, for every number of clients, catalogs and requests.               *)
(***************************************************************************)
EXTENDS CatalogAPI, TLAPS

(* The statements of the requests.                                         *)

LEMMA BodyFacts ==
  ASSUME ApiInv, NEW c \in Clients
  PROVE  /\ call \in [Clients -> Call]
         /\ call[c].env \in AllEnvs /\ call[c].name \in Names
         /\ call[c].new \in Body
BY DEF ApiInv, ApiTypeOK, Call

LEMMA InsertStore ==
  ASSUME StoreTypeOK, IdsFresh, NEW cat \in Cat, CreateCatalog(cat)
  PROVE  /\ StoreTypeOK' /\ IdsFresh'
         /\ \A r \in rows' : r \in rows \/ r.cat = cat
<1>1. NewRow(cat, Nothing) \in Row
  BY BoundsAssumption DEF NewRow, Row, Nothing, Index, Missing, Unnamed, StoreTypeOK
<1>2. NewRow(cat, Nothing).id = nextId /\ NewRow(cat, Nothing).cat = cat
  BY DEF NewRow
<1> DEFINE new == NewRow(cat, Nothing)
<1>3. rows' = rows \cup {new} /\ nextId' = nextId + 1
  BY DEF CreateCatalog
<1> HIDE DEF new
<1>4. StoreTypeOK'
  BY <1>1, <1>3 DEF StoreTypeOK, new
<1>5. \A r \in rows : r.id < nextId /\ r.id \in Nat
  BY DEF IdsFresh, StoreTypeOK, Row
<1>6. IdsFresh'
  BY <1>2, <1>3, <1>5 DEF IdsFresh, StoreTypeOK, new
<1> QED
  BY <1>2, <1>3, <1>4, <1>6 DEF new

LEMMA OverlayType ==
  ASSUME NEW cat \in Cat, NEW new \in Body
  PROVE  Overlay(cat, new) \in Cat /\ Overlay(cat, new).commit = cat.commit
BY DEF Overlay, Cat, Body

\* An edit keeps the key, the commit and the index of a row.
LEMMA EditStore ==
  ASSUME StoreTypeOK, IdsFresh, NEW e, NEW n, NEW new \in Body,
         UpdateCatalogs(e, n, new)
  PROVE  /\ StoreTypeOK' /\ IdsFresh'
         /\ \A r \in rows' : \E q \in rows : /\ r.id = q.id /\ r.index = q.index
                                             /\ r.cat.commit = q.cat.commit
<1> DEFINE edited(q) == IF Keyed(q, e, n) THEN [q EXCEPT !.cat = Overlay(q.cat, new)]
                        ELSE q
<1>1. rows' = {edited(q) : q \in rows} /\ nextId' = nextId
  BY DEF UpdateCatalogs
<1>2. ASSUME NEW q \in rows
      PROVE  /\ edited(q) \in Row /\ edited(q).id = q.id /\ edited(q).index = q.index
             /\ edited(q).cat.commit = q.cat.commit
  <2>1. q \in Row /\ q.cat \in Cat
    BY DEF StoreTypeOK, Row
  <2>2. Overlay(q.cat, new) \in Cat /\ Overlay(q.cat, new).commit = q.cat.commit
    BY <2>1, OverlayType
  <2> QED
    BY <2>1, <2>2 DEF Row
<1> HIDE DEF edited
<1>3. StoreTypeOK'
  BY <1>1, <1>2 DEF StoreTypeOK
<1>4. IdsFresh'
  BY <1>1, <1>2 DEF IdsFresh
<1> QED
  BY <1>1, <1>2, <1>3, <1>4

\* What a request may do to the table.
LEMMA ApiRows ==
  ASSUME ApiInv, ApiNext
  PROVE  \/ UNCHANGED storeVars
         \/ \E cat \in Cat : cat.commit = NoCommit /\ CreateCatalog(cat)
         \/ \E e, n, new : new \in Body /\ UpdateCatalogs(e, n, new)
         \/ \E envs, n : DeleteCatalogs(envs, n)
<1>1. PICK c \in Clients :
        StartCreate(c) \/ StartUpdate(c) \/ DeleteCatalog(c) \/ Serve(c)
  BY DEF ApiNext
<1>2. CASE StartCreate(c) \/ StartUpdate(c)
  BY <1>2 DEF StartCreate, StartUpdate
<1>3. CASE DeleteCatalog(c)
  BY <1>3 DEF DeleteCatalog
<1>4. CASE CheckCreate(c) \/ CheckGlobalName(c) \/ CheckEnvName(c) \/ CheckExists(c)
  BY <1>4 DEF CheckCreate, CheckGlobalName, CheckEnvName, CheckExists, Check
<1>5. CASE InsertCatalog(c)
  <2> DEFINE cat == [env |-> call[c].env, name |-> call[c].new.name,
                     src |-> call[c].new.src, pin |-> call[c].new.pin,
                     commit |-> NoCommit]
  <2>1. CreateCatalog(cat) /\ call[c].pc = "insert"
    BY <1>5 DEF InsertCatalog, In
  <2>2. call[c].new.name \in Names /\ call[c].new.src \in Sources
    BY <2>1, BodyFacts DEF ApiInv, CreatesNamed, Body
  <2>3. cat \in Cat
    BY <2>2, BodyFacts, BoundsAssumption DEF Cat, Body, NoCommit
  <2>4. cat.commit = NoCommit
    OBVIOUS
  <2> HIDE DEF cat
  <2> QED
    BY <2>1, <2>3, <2>4
<1>6. CASE UpdateCatalog(c)
  BY <1>6, BodyFacts DEF UpdateCatalog
<1> QED
  BY <1>1, <1>2, <1>3, <1>4, <1>5, <1>6 DEF Serve

-----------------------------------------------------------------------------
(* The requests themselves.                                                *)

LEMMA NoCallType == NoCall \in Call
<1>1. (CHOOSE n \in Names : TRUE) \in Names
  BY NamesAssumption
<1> QED
  BY <1>1, BoundsAssumption DEF NoCall, Call, Body, AllEnvs, NoPin

LEMMA CallUpdate ==
  ASSUME ApiInv, NEW c \in Clients, NEW x \in Call,
         call' = [call EXCEPT ![c] = x],
         x.pc \in {"create", "insert"} => x.new.name # Empty /\ x.new.src # Empty
  PROVE  call' \in [Clients -> Call] /\ CreatesNamed'
<1>1. call \in [Clients -> Call]
  BY BodyFacts DEF ApiInv, ApiTypeOK
<1> QED
  BY <1>1 DEF ApiInv, CreatesNamed

LEMMA CheckType ==
  ASSUME ApiInv, NEW c \in Clients, NEW ok, NEW label, NEW next,
         <<label, next>> \in {<<"create", "insert">>, <<"dupGlobal", "dupEnv">>,
                              <<"dupEnv", "exists">>, <<"exists", "write">>},
         Check(c, label, ok, next)
  PROVE  call' \in [Clients -> Call] /\ CreatesNamed'
<1> DEFINE x == [call[c] EXCEPT !.pc = next]
<1>1. call \in [Clients -> Call] /\ call[c].pc = label
  BY DEF ApiInv, ApiTypeOK, Check, In
<1>2. CASE ok
  <2>1. call' = [call EXCEPT ![c] = x]
    BY <1>2 DEF Check, Proceeds
  <2>2. x \in Call /\ x.pc = next /\ x.new = call[c].new
    BY <1>1 DEF Call
  <2>3. x.pc \in {"create", "insert"} => x.new.name # Empty /\ x.new.src # Empty
    BY <1>1, <2>2 DEF ApiInv, CreatesNamed
  <2> HIDE DEF x
  <2> QED
    BY <2>1, <2>2, <2>3, CallUpdate
<1>3. CASE ~ok
  <2>1. call' = [call EXCEPT ![c] = NoCall]
    BY <1>3 DEF Check, Responds
  <2>2. NoCall.pc = "idle"
    BY DEF NoCall
  <2> QED
    BY <2>1, <2>2, NoCallType, CallUpdate
<1> QED
  BY <1>2, <1>3

LEMMA RespondsType ==
  ASSUME ApiInv, NEW c \in Clients, Responds(c)
  PROVE  call' \in [Clients -> Call] /\ CreatesNamed'
<1>1. NoCall.pc = "idle"
  BY DEF NoCall
<1> QED
  BY <1>1, NoCallType, CallUpdate DEF Responds

LEMMA ApiStepType ==
  ASSUME ApiInv, ApiNext
  PROVE  ApiTypeOK' /\ CreatesNamed'
<1>1. PICK c \in Clients :
        StartCreate(c) \/ StartUpdate(c) \/ DeleteCatalog(c) \/ Serve(c)
  BY DEF ApiNext
<1>2. calls' \in 0..MaxCalls
  BY <1>1, ApiAssumption
     DEF ApiInv, ApiTypeOK, StartCreate, StartUpdate, DeleteCatalog, Serve,
         Begin, CheckCreate, CheckGlobalName, CheckEnvName, CheckExists, Check,
         InsertCatalog, UpdateCatalog
<1>3. call' \in [Clients -> Call] /\ CreatesNamed'
  <2>1. CASE StartCreate(c)
    <3>1. PICK cat \in Creates :
            call' = [call EXCEPT ![c] =
                       [pc |-> "create", env |-> cat.env, name |-> cat.name,
                        new |-> [name |-> cat.name, src |-> cat.src, pin |-> cat.pin]]]
      BY <2>1 DEF StartCreate
    <3> DEFINE x == [pc |-> "create", env |-> cat.env, name |-> cat.name,
                     new |-> [name |-> cat.name, src |-> cat.src, pin |-> cat.pin]]
    <3>2. cat \in Cat
      BY ApiAssumption
    <3>3. x \in Call /\ x.new.name # Empty /\ x.new.src # Empty
      BY <3>2, ApiAssumption DEF Cat, Call, Body
    <3> HIDE DEF x
    <3>4. call' = [call EXCEPT ![c] = x]
      BY <3>1 DEF x
    <3> QED
      BY <3>3, <3>4, CallUpdate
  <2>2. CASE StartUpdate(c)
    <3>1. PICK u \in Updates :
            call' = [call EXCEPT ![c] = [pc |-> "dupGlobal", env |-> u.env,
                                         name |-> u.name, new |-> u.new]]
      BY <2>2 DEF StartUpdate
    <3> DEFINE x == [pc |-> "dupGlobal", env |-> u.env, name |-> u.name, new |-> u.new]
    <3>2. x \in Call /\ x.pc = "dupGlobal"
      BY ApiAssumption DEF Call
    <3> HIDE DEF x
    <3>3. call' = [call EXCEPT ![c] = x]
      BY <3>1 DEF x
    <3> QED
      BY <3>2, <3>3, CallUpdate
  <2>3. CASE DeleteCatalog(c)
    BY <2>3 DEF DeleteCatalog, ApiInv, ApiTypeOK, CreatesNamed
  <2>4. CASE Serve(c)
    BY <2>4, CheckType, RespondsType
       DEF Serve, CheckCreate, CheckGlobalName, CheckEnvName, CheckExists,
           InsertCatalog, UpdateCatalog
  <2> QED
    BY <1>1, <2>1, <2>2, <2>3, <2>4
<1> QED
  BY <1>2, <1>3 DEF ApiTypeOK

-----------------------------------------------------------------------------
(* The invariant.                                                          *)

LEMMA DeleteStore ==
  ASSUME StoreTypeOK, IdsFresh, NEW envs, NEW n, DeleteCatalogs(envs, n)
  PROVE  /\ StoreTypeOK' /\ IdsFresh'
         /\ rows' \subseteq rows
BY DEF DeleteCatalogs, StoreTypeOK, IdsFresh

LEMMA ApiKeepsStore ==
  ASSUME ApiInv, ApiNext
  PROVE  StoreTypeOK' /\ IdsFresh'
<1>1. StoreTypeOK /\ IdsFresh
  BY DEF ApiInv
<1>2. CASE UNCHANGED storeVars
  BY <1>1, <1>2 DEF StoreTypeOK, IdsFresh, storeVars
<1> QED
  BY <1>1, <1>2, ApiRows, InsertStore, EditStore, DeleteStore

LEMMA ApiInitInv == ApiInitAll => ApiInv
<1> SUFFICES ASSUME ApiInitAll
             PROVE  ApiInv
  OBVIOUS
<1>1. StoreTypeOK /\ IdsFresh
  BY InitialRowsAssumption DEF ApiInitAll, StoreInit, StoreTypeOK, IdsFresh
<1>2. ApiTypeOK
  BY NoCallType, ApiAssumption DEF ApiInitAll, ApiInit, ApiTypeOK
<1>3. CreatesNamed
  BY DEF ApiInitAll, ApiInit, CreatesNamed, NoCall
<1> QED
  BY <1>1, <1>2, <1>3 DEF ApiInv

LEMMA ApiNextInv ==
  ASSUME ApiInv, [ApiNext]_<<storeVars, apiVars>>
  PROVE  ApiInv'
<1>1. CASE ApiNext
  BY <1>1, ApiKeepsStore, ApiStepType DEF ApiInv
<1>2. CASE UNCHANGED <<storeVars, apiVars>>
  BY <1>2 DEF ApiInv, StoreTypeOK, IdsFresh, ApiTypeOK, CreatesNamed, storeVars, apiVars
<1> QED
  BY <1>1, <1>2

-----------------------------------------------------------------------------
(* Names.                                                                  *)

\* The catalogs named in the table decide what the checks find.
LEMMA NamedIs ==
  ASSUME NEW e, NEW n
  PROVE  /\ Named(e, n) = {} <=> \A r \in rows : ~(r.cat.env = e /\ r.cat.name = n)
         /\ IsDuplicateName(e, n) <=>
              \E r \in rows : r.cat.env \in {e, Global} /\ r.cat.name = n
BY DEF Named, Keyed, IsDuplicateName

LEMMA OverlayIs ==
  ASSUME NEW cat \in Cat, NEW new \in Body
  PROVE  LET o == Overlay(cat, new)
         IN  /\ o.env = cat.env
             /\ o.name = IF new.name = Empty THEN cat.name ELSE new.name
BY DEF Overlay, Cat

=============================================================================
