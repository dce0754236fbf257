----------------------- MODULE CatalogService_proofs -----------------------
(***************************************************************************)
(* What holds of the refreshes, of CatalogRefresh by itself and with the   *)
(* requests of CatalogAPI beside it, for every number of goroutines,       *)
(* clients, catalogs, sources, templates and commits.                      *)
(*                                                                         *)
(* First the steps of a refresh.  Then the service: requests that create,  *)
(* edit and delete catalogs do not disturb what the refreshes establish,   *)
(* and what a client reads of the table is what CatalogView promises of    *)
(* it, when one refresh is alone in the caches.                            *)
(***************************************************************************)
EXTENDS CatalogService, CatalogAPI_proofs

-----------------------------------------------------------------------------
(* The refresh.                                                            *)

\* The zero value of a catalog is a catalog: there are a name and a source.
LEMMA NoCatIsCat == NoCat \in Cat
<1>1. PICK n \in Names, s \in Sources : TRUE
  BY NamesAssumption
<1>2. MaxCommit \in Nat
  BY BoundsAssumption
<1>3. [env |-> Global, name |-> n, src |-> s, pin |-> 0, commit |-> 0] \in Cat
  BY <1>1, <1>2 DEF Cat, AllEnvs
<1> QED
  BY <1>3 DEF NoCat

\* So is the idle goroutine's state a goroutine's state.
LEMMA IdleIsLocal == Idle \in Local
<1>1. MaxCommit \in Nat /\ NumTemplates \in Nat /\ NumTemplates >= 1
  BY BoundsAssumption
<1>2. Nothing \in Index
  BY <1>1 DEF Nothing, Index, Missing, Unnamed
<1>3. << >> \in Seq(AllEnvs \cup {All})
  OBVIOUS
<1> QED
  BY <1>1, <1>2, <1>3, NoCatIsCat DEF Idle, Local, Labels

\* What a refresh takes from the table, and what it takes from the
\* configuration, are keys with catalogs.
LEMMA ItemsAreItems ==
  ASSUME StoreTypeOK, NEW S, S \subseteq rows
  PROVE  Items(S) \subseteq Item
BY DEF StoreTypeOK, Items, Item, Row

LEMMA ConfigItemsAreItems ==
  ASSUME config \in Config
  PROVE  ConfigItems \subseteq Item
<1>1. MaxCommit \in Nat
  BY BoundsAssumption
<1>2. PICK S \in SUBSET Names : config \in [S -> Entry]
  BY DEF Config
<1>3. \A n \in DOMAIN config : n \in Names /\ config[n].src \in Sources
                                 /\ config[n].pin \in 0..MaxCommit
  BY <1>2 DEF Entry
<1>4. \A n \in DOMAIN config :
        [env |-> Global, name |-> n, src |-> config[n].src,
         pin |-> config[n].pin, commit |-> NoCommit] \in Cat
  BY <1>1, <1>3 DEF Cat, AllEnvs, NoCommit
<1> QED
  BY <1>4 DEF ConfigItems, Item

\* A goroutine's new state is all an action has to get right of proc.
LEMMA ProcUpdate ==
  ASSUME proc \in [Procs -> Local], NEW p \in Procs, NEW x \in Local,
         Become(p, x)
  PROVE  proc' \in [Procs -> Local]
BY DEF Become

\* Going on to another label and returning to the loop keep the type.
LEMMA GotoType ==
  ASSUME proc \in [Procs -> Local], NEW p \in Procs, NEW label \in Labels,
         Goto(p, label)
  PROVE  proc' \in [Procs -> Local]
<1>1. [proc[p] EXCEPT !.pc = label] \in Local
  BY DEF Local
<1> QED
  BY <1>1, ProcUpdate DEF Goto

LEMMA ReturnType ==
  ASSUME proc \in [Procs -> Local], NEW p \in Procs, NEW failed \in BOOLEAN,
         Return(p, failed)
  PROVE  proc' \in [Procs -> Local]
<1> DEFINE x == [Idle EXCEPT !.pc = "next", !.plan = proc[p].plan,
                             !.todo = proc[p].todo,
                             !.failed = proc[p].failed \/ failed]
<1>1. x \in Local
  BY IdleIsLocal DEF Local, Labels
<1> QED
  BY <1>1, ProcUpdate DEF Return

-----------------------------------------------------------------------------
(* The git commands keep the types of the cache.                           *)

LEMMA DirOfIsKey ==
  ASSUME NEW cat \in Cat
  PROVE  DirOf(cat) \in DirKeys
BY DEF DirOf, DirKeys, Cat

LEMMA ContentType ==
  ASSUME NEW c \in 0..MaxCommit
  PROVE  Content(c) \in [Templates -> 0..MaxCommit]
BY BoundsAssumption DEF Content, Missing

\* A directory's new state is all a command has to get right of dirs.
LEMMA DirUpdate ==
  ASSUME GitTypeOK, NEW d \in DirKeys, NEW x \in Dir,
         dirs' = [dirs EXCEPT ![d] = x], UNCHANGED remote
  PROVE  GitTypeOK'
BY DEF GitTypeOK

LEMMA EmptyDirType == EmptyDir \in Dir
BY BoundsAssumption DEF EmptyDir, Dir, Nothing, Missing

LEMMA FetchedType ==
  ASSUME GitTypeOK, NEW d \in DirKeys
  PROVE  /\ remote[d[2]] \in Commits
         /\ remote[d[2]] \in 0..MaxCommit
         /\ 1..remote[d[2]] \subseteq Commits
BY BoundsAssumption DEF GitTypeOK, DirKeys, Commits

\* Every command on a directory keeps the types.
LEMMA GitCommandType ==
  ASSUME GitTypeOK, NEW d \in DirKeys,
         NEW t \in Templates, NEW c \in 0..MaxCommit,
         \/ CloneInit(d) \/ CloneFetch(d) \/ CloneAbort(d) \/ Fetch(d)
         \/ Lock(d) \/ WriteTemplate(d, t, c) \/ MoveHead(d, c) \/ Unlock(d)
  PROVE  GitTypeOK'
<1> dirs[d] \in Dir
  BY DEF GitTypeOK
<1>1. CASE CloneInit(d)
  <2>1. [dirs[d] EXCEPT !.exists = TRUE] \in Dir
    BY DEF Dir
  <2> QED
    BY <1>1, <2>1, DirUpdate DEF CloneInit
<1>2. CASE CloneFetch(d)
  <2>1. [dirs[d] EXCEPT !.head = remote[d[2]], !.ref = remote[d[2]],
                        !.objs = @ \cup 1..remote[d[2]]] \in Dir
    BY FetchedType DEF Dir
  <2> QED
    BY <1>2, <2>1, DirUpdate DEF CloneFetch
<1>3. CASE CloneAbort(d)
  BY <1>3, EmptyDirType, DirUpdate DEF CloneAbort
<1>4. CASE Fetch(d)
  <2>1. [dirs[d] EXCEPT !.ref = remote[d[2]],
                        !.objs = @ \cup 1..remote[d[2]]] \in Dir
    BY FetchedType DEF Dir
  <2> QED
    BY <1>4, <2>1, DirUpdate DEF Fetch
<1>5. CASE Lock(d)
  <2>1. [dirs[d] EXCEPT !.locked = TRUE] \in Dir
    BY DEF Dir
  <2> QED
    BY <1>5, <2>1, DirUpdate DEF Lock
<1>6. CASE WriteTemplate(d, t, c)
  <2>1. [dirs[d].tree EXCEPT ![t] = Content(c)[t]] \in [Templates -> 0..MaxCommit]
    BY ContentType DEF Dir
  <2>2. [dirs[d] EXCEPT !.tree = [dirs[d].tree EXCEPT ![t] = Content(c)[t]]] \in Dir
    BY <2>1 DEF Dir
  <2> QED
    BY <1>6, <2>2, DirUpdate DEF WriteTemplate
<1>7. CASE MoveHead(d, c)
  <2>1. [dirs[d] EXCEPT !.head = c, !.locked = FALSE] \in Dir
    BY DEF Dir
  <2> QED
    BY <1>7, <2>1, DirUpdate DEF MoveHead
<1>8. CASE Unlock(d)
  <2>1. [dirs[d] EXCEPT !.locked = FALSE] \in Dir
    BY DEF Dir
  <2> QED
    BY <1>8, <2>1, DirUpdate DEF Unlock
<1> QED
  BY <1>1, <1>2, <1>3, <1>4, <1>5, <1>6, <1>7, <1>8

-----------------------------------------------------------------------------
(* The statements keep the types of the table.                             *)

LEMMA ReplaceCatalogType ==
  ASSUME StoreTypeOK, NEW cat \in Cat, NEW commit \in 0..MaxCommit,
         NEW index \in Index, ReplaceCatalog(cat, commit, index)
  PROVE  StoreTypeOK'
<1>1. [cat EXCEPT !.commit = commit] \in Cat
  BY DEF Cat
<1>2. NewRow([cat EXCEPT !.commit = commit], index) \in Row
  BY <1>1 DEF NewRow, Row, StoreTypeOK
<1> QED
  BY <1>2 DEF ReplaceCatalog, StoreTypeOK

LEMMA DeleteCatalogsType ==
  ASSUME StoreTypeOK, NEW envs, NEW n, DeleteCatalogs(envs, n)
  PROVE  StoreTypeOK'
BY DEF DeleteCatalogs, StoreTypeOK

-----------------------------------------------------------------------------
(* Every step of a refresh keeps the types.                                *)

\* The three ways a step of a goroutine disturbs the state beside proc: not
\* at all, by a git command, by a statement.
LEMMA OnlyProc ==
  ASSUME TypeOK, proc' \in [Procs -> Local], UNCHANGED <<storeVars, gitVars, Others>>
  PROVE  TypeOK'
BY DEF TypeOK, StoreTypeOK, GitTypeOK, RefreshTypeOK, storeVars, gitVars, Others

LEMMA ProcAndGit ==
  ASSUME TypeOK, proc' \in [Procs -> Local], GitTypeOK', UNCHANGED <<storeVars, Others>>
  PROVE  TypeOK'
BY DEF TypeOK, StoreTypeOK, RefreshTypeOK, storeVars, Others

LEMMA ProcAndStore ==
  ASSUME TypeOK, proc' \in [Procs -> Local], StoreTypeOK', UNCHANGED <<gitVars, Others>>
  PROVE  TypeOK'
BY DEF TypeOK, GitTypeOK, RefreshTypeOK, gitVars, Others

LEMMA LocalFacts ==
  ASSUME TypeOK, NEW p \in Procs
  PROVE  /\ proc \in [Procs -> Local]
         /\ proc[p] \in Local
         /\ proc[p].cat \in Cat
         /\ D(p) \in DirKeys
         /\ dirs[D(p)] \in Dir
BY DirOfIsKey DEF TypeOK, RefreshTypeOK, GitTypeOK, Local, D

\* The first row of a name is one of them, when there is exactly one.
LEMMA FirstOfOne ==
  ASSUME NEW r \in Row
  PROVE  First({r}) = r
BY DEF First, Row

LEMMA LookupCatalogType ==
  ASSUME TypeOK, NEW p \in Procs, LookupCatalog(p)
  PROVE  TypeOK'
<1> DEFINE cat  == proc[p].cat
           same == {r \in Named(Global, cat.name) :
                      r = First(Named(Global, cat.name))
                        /\ r.cat.src = cat.src /\ r.cat.pin = cat.pin}
           new  == IF same = {} THEN cat ELSE First(same).cat
<1>1. new \in Cat
  <2>1. CASE same = {}
    BY <2>1, LocalFacts
  <2>2. CASE same # {}
    <3>1. PICK r \in same : TRUE
      BY <2>2
    <3>2. same = {r}
      BY <3>1
    <3>3. r \in Row
      BY <3>1 DEF Named, TypeOK, StoreTypeOK
    <3>4. First(same) = r
      BY <3>2, <3>3, FirstOfOne
    <3> QED
      BY <2>2, <3>3, <3>4 DEF Row
  <2> QED
    BY <2>1, <2>2
<1>2. [proc[p] EXCEPT !.pc = "prepare", !.cat = new] \in Local
  <2>1. proc[p] \in Local
    BY LocalFacts
  <2> HIDE DEF new, same, cat
  <2> QED
    BY <1>1, <2>1 DEF Local, Labels
<1>3. proc' \in [Procs -> Local]
  BY <1>2, LocalFacts, ProcUpdate DEF LookupCatalog
<1> QED
  BY <1>3, OnlyProc DEF LookupCatalog

\* The steps that choose the catalogs to refresh.
LEMMA ScopeStepType ==
  ASSUME TypeOK, NEW p \in Procs,
         \/ ReadConfig(p) \/ FindGlobalCatalogs(p) \/ RemoveCatalogNotInConfig(p)
         \/ RangeConfig(p) \/ LookupCatalogs(p) \/ NextCatalog(p) \/ ScopeDone(p)
  PROVE  TypeOK'
<1> proc \in [Procs -> Local] /\ proc[p] \in Local
  BY LocalFacts
<1>1. CASE ReadConfig(p)
  <2>1. proc' \in [Procs -> Local]
    BY <1>1, GotoType DEF ReadConfig, Labels
  <2>2. config' \in Config
    BY <1>1, RefreshAssumption DEF ReadConfig, TypeOK, RefreshTypeOK
  <2> QED
    BY <1>1, <2>1, <2>2
    DEF ReadConfig, TypeOK, StoreTypeOK, GitTypeOK, RefreshTypeOK, storeVars, gitVars
<1>2. CASE FindGlobalCatalogs(p)
  <2> DEFINE new == Items({r \in rows : r.cat.env = Global})
  <2>1. new \subseteq Item
    BY ItemsAreItems DEF TypeOK
  <2>2. [proc[p] EXCEPT !.pc = "prune", !.todo = new] \in Local
    BY <2>1 DEF Local, Labels
  <2>3. proc' \in [Procs -> Local]
    BY <1>2, <2>2, ProcUpdate DEF FindGlobalCatalogs
  <2> QED
    BY <1>2, <2>3, OnlyProc DEF FindGlobalCatalogs
<1>3. CASE RemoveCatalogNotInConfig(p)
  <2>1. PICK i \in proc[p].todo :
          /\ Become(p, [proc[p] EXCEPT !.todo = proc[p].todo \ {i}])
          /\ \/ UNCHANGED storeVars
             \/ DeleteCatalogs({Global}, i.cat.name)
    BY <1>3 DEF RemoveCatalogNotInConfig
  <2>2. [proc[p] EXCEPT !.todo = proc[p].todo \ {i}] \in Local
    BY DEF Local
  <2>3. proc' \in [Procs -> Local]
    BY <2>1, <2>2, ProcUpdate
  <2>4. StoreTypeOK'
    BY <2>1, DeleteCatalogsType DEF TypeOK, StoreTypeOK, storeVars
  <2> QED
    BY <1>3, <2>3, <2>4, ProcAndStore DEF RemoveCatalogNotInConfig
<1>4. CASE RangeConfig(p)
  <2>1. ConfigItems \subseteq Item
    BY ConfigItemsAreItems DEF TypeOK, RefreshTypeOK
  <2>2. [proc[p] EXCEPT !.pc = "next", !.todo = ConfigItems] \in Local
    BY <2>1 DEF Local, Labels
  <2>3. proc' \in [Procs -> Local]
    BY <1>4, <2>2, ProcUpdate DEF RangeConfig
  <2> QED
    BY <1>4, <2>3, OnlyProc DEF RangeConfig
<1>5. CASE LookupCatalogs(p)
  <2> DEFINE new == Items({r \in rows : Head(proc[p].plan) \in {All, r.cat.env}})
  <2>1. new \subseteq Item
    BY ItemsAreItems DEF TypeOK
  <2>2. [proc[p] EXCEPT !.pc = "next", !.todo = new] \in Local
    BY <2>1 DEF Local, Labels
  <2>3. proc' \in [Procs -> Local]
    BY <1>5, <2>2, ProcUpdate DEF LookupCatalogs
  <2> QED
    BY <1>5, <2>3, OnlyProc DEF LookupCatalogs
<1>6. CASE NextCatalog(p)
  <2> DEFINE label == IF Head(proc[p].plan) = Global THEN "lookup" ELSE "prepare"
  <2>1. PICK i \in proc[p].todo :
          Become(p, [proc[p] EXCEPT !.todo = proc[p].todo \ {i},
                                    !.cat = i.cat, !.pc = label])
    BY <1>6 DEF NextCatalog
  <2>2. i.cat \in Cat
    BY DEF Local, Item
  <2>3. label \in Labels
    BY DEF Labels
  <2>4. [proc[p] EXCEPT !.todo = proc[p].todo \ {i}, !.cat = i.cat,
                        !.pc = label] \in Local
    <3> HIDE DEF label
    <3> QED
      BY <2>2, <2>3 DEF Local
  <2>5. proc' \in [Procs -> Local]
    BY <2>1, <2>4, ProcUpdate
  <2> QED
    BY <1>6, <2>5, OnlyProc DEF NextCatalog
<1>7. CASE ScopeDone(p)
  <2>1. CASE Become(p, Idle)
    BY <1>7, <2>1, IdleIsLocal, ProcUpdate, OnlyProc DEF ScopeDone
  <2>2. CASE /\ ~(Len(proc[p].plan) <= 1)
             /\ Become(p, [proc[p] EXCEPT !.pc = "scope", !.plan = Tail(proc[p].plan)])
    <3>1. proc[p].plan \in Seq(AllEnvs \cup {All}) /\ proc[p].plan # << >>
      BY <2>2 DEF Local
    <3>2. Tail(proc[p].plan) \in Seq(AllEnvs \cup {All})
      BY <3>1
    <3>3. [proc[p] EXCEPT !.pc = "scope", !.plan = Tail(proc[p].plan)] \in Local
      BY <3>2 DEF Local, Labels
    <3>4. proc' \in [Procs -> Local]
      BY <2>2, <3>3, ProcUpdate
    <3> QED
      BY <1>7, <3>4, OnlyProc DEF ScopeDone
  <2> QED
    BY <1>7, <2>1, <2>2 DEF ScopeDone
<1> QED
  BY <1>1, <1>2, <1>3, <1>4, <1>5, <1>6, <1>7

\* A git command, and where the goroutine goes on.
LEMMA CheckoutType ==
  ASSUME TypeOK, NEW p \in Procs, NEW c \in 0..MaxCommit, NEW initial \in BOOLEAN,
         NEW label \in Labels, StartCheckout(p, c, initial, label),
         UNCHANGED <<storeVars, Others>>
  PROVE  TypeOK'
<1> proc \in [Procs -> Local] /\ proc[p] \in Local /\ D(p) \in DirKeys
  BY LocalFacts
<1> GitTypeOK
  BY DEF TypeOK
<1>1. CASE CanCheckout(D(p), c) /\ Lock(D(p))
  <2> DEFINE at == IF ~initial /\ dirs[D(p)].head = c THEN NumTemplates + 1 ELSE 1
  <2>1. at \in 1..(NumTemplates + 1)
    BY BoundsAssumption
  <2>2. [proc[p] EXCEPT !.pc = label, !.target = c, !.at = at] \in Local
    <3> HIDE DEF at
    <3> QED
      BY <2>1 DEF Local
  <2>3. proc' \in [Procs -> Local]
    BY <1>1, <2>2, ProcUpdate DEF StartCheckout
  <2>4. PICK t \in Templates : TRUE
    BY BoundsAssumption DEF Templates
  <2>5. GitTypeOK'
    BY <1>1, <2>4, GitCommandType
  <2> QED
    BY <2>3, <2>5, ProcAndGit
<1>2. CASE Return(p, TRUE) /\ UNCHANGED gitVars
  <2>1. proc' \in [Procs -> Local]
    BY <1>2, ReturnType
  <2> QED
    BY <1>2, <2>1, OnlyProc
<1> QED
  BY <1>1, <1>2 DEF StartCheckout

\* The steps that bring the cache directory to the wanted commit.
LEMMA GitStepType ==
  ASSUME TypeOK, NEW p \in Procs,
         \/ DirEmpty(p) \/ StartClone(p) \/ FetchClone(p) \/ PopulateClone(p)
         \/ PinnedHeadCommit(p) \/ CheckoutCommit(p) \/ RemoteShaChanged(p)
         \/ UpdateFetch(p) \/ UpdateCheckout(p) \/ WriteTree(p) \/ CheckoutDone(p)
         \/ HeadCommit(p)
  PROVE  TypeOK'
<1> /\ proc \in [Procs -> Local] /\ proc[p] \in Local
    /\ D(p) \in DirKeys /\ dirs[D(p)] \in Dir
  BY LocalFacts
<1> GitTypeOK
  BY DEF TypeOK
<1> USE DEF Labels
<1>0. PICK t0 \in Templates : TRUE
  BY BoundsAssumption DEF Templates
<1>a. 0 \in 0..MaxCommit
  BY BoundsAssumption
<1>1. CASE DirEmpty(p)
  <2>1. proc' \in [Procs -> Local]
    BY <1>1, GotoType, ReturnType DEF DirEmpty
  <2> QED
    BY <1>1, <2>1, OnlyProc DEF DirEmpty
<1>2. CASE StartClone(p)
  <2>1. proc' \in [Procs -> Local]
    BY <1>2, GotoType, ReturnType DEF StartClone
  <2>2. GitTypeOK'
    BY <1>2, <1>0, <1>a, GitCommandType DEF StartClone, GitTypeOK, gitVars
  <2> QED
    BY <1>2, <2>1, <2>2, ProcAndGit DEF StartClone
<1>3. CASE FetchClone(p)
  <2>1. remote[D(p)[2]] \in 0..MaxCommit
    BY FetchedType
  <2>2. [proc[p] EXCEPT !.pc = "cloneLock", !.target = remote[D(p)[2]]] \in Local
    BY <2>1 DEF Local
  <2>3. proc' \in [Procs -> Local]
    BY <1>3, <2>2, ProcUpdate DEF FetchClone
  <2>4. GitTypeOK'
    BY <1>3, <1>0, <1>a, GitCommandType DEF FetchClone
  <2> QED
    BY <1>3, <2>3, <2>4, ProcAndGit DEF FetchClone
<1>4. CASE PopulateClone(p)
  BY <1>4, CheckoutType DEF PopulateClone, Local
<1>5. CASE PinnedHeadCommit(p)
  <2>1. proc' \in [Procs -> Local]
    BY <1>5, GotoType, ReturnType DEF PinnedHeadCommit
  <2> QED
    BY <1>5, <2>1, OnlyProc DEF PinnedHeadCommit
<1>6. CASE CheckoutCommit(p)
  <2>1. proc[p].cat.pin \in 0..MaxCommit
    BY DEF Local, Cat
  <2> QED
    BY <1>6, <2>1, CheckoutType DEF CheckoutCommit
<1>7. CASE RemoteShaChanged(p)
  <2>1. proc' \in [Procs -> Local]
    BY <1>7, GotoType DEF RemoteShaChanged
  <2>2. spent' \in [requests : 0..MaxRequests, faults : 0..MaxFaults,
                    crashes : 0..MaxCrashes]
    BY <1>7, RefreshAssumption DEF RemoteShaChanged, TypeOK, RefreshTypeOK
  <2> QED
    BY <1>7, <2>1, <2>2
    DEF RemoteShaChanged, TypeOK, StoreTypeOK, RefreshTypeOK, GitTypeOK,
        storeVars, gitVars
<1>8. CASE UpdateFetch(p)
  <2>1. proc' \in [Procs -> Local]
    BY <1>8, GotoType, ReturnType DEF UpdateFetch
  <2>2. GitTypeOK'
    BY <1>8, <1>0, <1>a, GitCommandType DEF UpdateFetch, GitTypeOK, gitVars
  <2> QED
    BY <1>8, <2>1, <2>2, ProcAndGit DEF UpdateFetch
<1>9. CASE UpdateCheckout(p)
  <2>1. dirs[D(p)].ref \in 0..MaxCommit
    BY DEF Dir
  <2> QED
    BY <1>9, <2>1, CheckoutType DEF UpdateCheckout
<1>10. CASE WriteTree(p)
  <2>1. proc[p].at \in Templates /\ proc[p].at + 1 \in 1..(NumTemplates + 1)
    BY <1>10, BoundsAssumption DEF WriteTree, Local, Templates
  <2>2. [proc[p] EXCEPT !.at = proc[p].at + 1] \in Local
    BY <2>1 DEF Local
  <2>3. proc' \in [Procs -> Local]
    BY <1>10, <2>2, ProcUpdate DEF WriteTree
  <2>4. proc[p].target \in 0..MaxCommit
    BY DEF Local
  <2>5. GitTypeOK'
    BY <1>10, <2>1, <2>4, GitCommandType DEF WriteTree
  <2> QED
    BY <1>10, <2>3, <2>5, ProcAndGit DEF WriteTree
<1>11. CASE CheckoutDone(p)
  <2> DEFINE label == IF At(p, "cloneWrite") /\ proc[p].cat.pin # NoPin
                      THEN "pinLock" ELSE "head"
  <2>1. label \in Labels
    OBVIOUS
  <2>2. 1 \in 1..(NumTemplates + 1)
    BY BoundsAssumption
  <2>3. [proc[p] EXCEPT !.at = 1, !.target = 0, !.pc = label] \in Local
    <3> HIDE DEF label
    <3> QED
      BY <1>a, <2>1, <2>2 DEF Local
  <2>4. proc' \in [Procs -> Local]
    BY <1>11, <2>3, ProcUpdate DEF CheckoutDone
  <2>5. proc[p].target \in 0..MaxCommit
    BY DEF Local
  <2>6. GitTypeOK'
    BY <1>11, <1>0, <2>5, GitCommandType DEF CheckoutDone
  <2> QED
    BY <1>11, <2>4, <2>6, ProcAndGit DEF CheckoutDone
<1>12. CASE HeadCommit(p)
  <2>1. [proc[p] EXCEPT !.pc = "compare", !.commit = dirs[D(p)].head] \in Local
    BY DEF Local, Dir
  <2>2. proc' \in [Procs -> Local]
    BY <1>12, <2>1, ProcUpdate, ReturnType DEF HeadCommit
  <2> QED
    BY <1>12, <2>2, OnlyProc DEF HeadCommit
<1> QED
  BY <1>1, <1>2, <1>3, <1>4, <1>5, <1>6, <1>7, <1>8, <1>9, <1>10, <1>11, <1>12

\* The steps that index the working tree.
LEMMA IndexStepType ==
  ASSUME TypeOK, NEW p \in Procs,
         Compare(p) \/ TraverseTemplate(p) \/ TraverseDone(p) \/ UpdateDb(p)
  PROVE  TypeOK'
<1> /\ proc \in [Procs -> Local] /\ proc[p] \in Local
    /\ D(p) \in DirKeys /\ dirs[D(p)] \in Dir
  BY LocalFacts
<1>1. CASE Compare(p)
  <2>1. proc' \in [Procs -> Local]
    BY <1>1, GotoType, ReturnType DEF Compare, Labels
  <2> QED
    BY <1>1, <2>1, OnlyProc DEF Compare
<1>2. CASE TraverseTemplate(p)
  <2> DEFINE t   == proc[p].at
             c   == dirs[D(p)].tree[t]
             got == IF <<t, c>> \in Broken THEN Missing ELSE c
             bad == proc[p].errs \/ <<t, c>> \in Broken
  <2>1. t \in Templates /\ t + 1 \in 1..(NumTemplates + 1)
    BY <1>2, BoundsAssumption DEF TraverseTemplate, Local, Templates
  <2>2. c \in 0..MaxCommit
    BY <2>1 DEF Dir
  <2>3. got \in Unnamed..MaxCommit
    BY <2>2, BoundsAssumption DEF Missing, Unnamed
  <2>4. [proc[p].read EXCEPT ![t] = got] \in Index
    <3> HIDE DEF t, got
    <3> QED
      BY <2>3 DEF Local, Index
  <2>5. bad \in BOOLEAN
    BY DEF Local
  <2>6. [proc[p] EXCEPT !.at = t + 1, !.read = [proc[p].read EXCEPT ![t] = got],
                        !.errs = bad] \in Local
    <3> HIDE DEF t, got, bad
    <3> QED
      BY <2>1, <2>4, <2>5 DEF Local
  <2>7. proc' \in [Procs -> Local]
    BY <1>2, <2>6, ProcUpdate DEF TraverseTemplate
  <2> QED
    BY <1>2, <2>7, OnlyProc DEF TraverseTemplate
<1>3. CASE TraverseDone(p)
  <2>1. proc' \in [Procs -> Local]
    BY <1>3, GotoType, ReturnType DEF TraverseDone, Labels
  <2> QED
    BY <1>3, <2>1, OnlyProc DEF TraverseDone
<1>4. CASE UpdateDb(p)
  <2>1. proc' \in [Procs -> Local]
    BY <1>4, ReturnType DEF UpdateDb
  <2>2. proc[p].commit \in 0..MaxCommit /\ proc[p].read \in Index /\ proc[p].cat \in Cat
    BY DEF Local
  <2>3. StoreTypeOK'
    BY <1>4, <2>2, ReplaceCatalogType DEF UpdateDb, TypeOK
  <2> QED
    BY <1>4, <2>1, <2>3, ProcAndStore DEF UpdateDb
<1> QED
  BY <1>1, <1>2, <1>3, <1>4

LEMMA FaultType ==
  ASSUME TypeOK, NEW p \in Procs, Fault(p)
  PROVE  TypeOK'
<1> /\ proc \in [Procs -> Local] /\ D(p) \in DirKeys
  BY LocalFacts
<1>1. spent' \in [requests : 0..MaxRequests, faults : 0..MaxFaults,
                  crashes : 0..MaxCrashes]
  BY RefreshAssumption DEF Fault, TypeOK, RefreshTypeOK
<1>2. PICK t \in Templates : 0 \in 0..MaxCommit
  BY BoundsAssumption DEF Templates
<1>3. GitTypeOK'
  <2>1. GitTypeOK
    BY DEF TypeOK
  <2>2. UNCHANGED gitVars \/ CloneAbort(D(p)) \/ Unlock(D(p))
    BY DEF Fault, GiveUp
  <2> QED
    BY <2>1, <2>2, <1>2, GitCommandType DEF GitTypeOK, gitVars
<1>4. proc' \in [Procs -> Local]
  <2>1. \/ Return(p, TRUE) \/ Become(p, Idle)
        \/ Goto(p, "prune") \/ Goto(p, "prepare")
    BY DEF Fault, GiveUp
  <2> QED
    BY <2>1, IdleIsLocal, ProcUpdate, GotoType, ReturnType DEF Labels
<1> QED
  BY <1>1, <1>3, <1>4 DEF Fault, TypeOK, StoreTypeOK, RefreshTypeOK, storeVars

LEMMA ShortPlans ==
  ASSUME NEW S, NEW a \in S, NEW b \in S
  PROVE  <<a>> \in Seq(S) /\ <<a, b>> \in Seq(S)
OBVIOUS

LEMMA RefreshNextType ==
  ASSUME TypeOK, [RefreshNext]_vars
  PROVE  TypeOK'
<1>1. CASE AutoTick
  <2>1. <<Global, All>> \in Seq(AllEnvs \cup {All})
    BY ShortPlans DEF AllEnvs
  <2>2. AutoRefresh \in Procs
    BY DEF Procs
  <2>a. proc \in [Procs -> Local] /\ proc[AutoRefresh] \in Local
    BY <2>2, LocalFacts
  <2>3. [proc[AutoRefresh] EXCEPT !.pc = "scope", !.plan = <<Global, All>>] \in Local
    BY <2>1, <2>a DEF Local, Labels
  <2>4. proc' \in [Procs -> Local]
    BY <1>1, <2>2, <2>a, <2>3, ProcUpdate DEF AutoTick
  <2>b. rounds \in 0..2
    BY DEF TypeOK, RefreshTypeOK
  <2>5. rounds' \in 0..2
    BY <1>1, <2>b DEF AutoTick
  <2> QED
    BY <1>1, <2>4, <2>5
    DEF AutoTick, TypeOK, StoreTypeOK, GitTypeOK, RefreshTypeOK, storeVars, gitVars
<1>2. ASSUME NEW h \in Handlers, NEW e \in AllEnvs, RefreshTemplates(h, e)
      PROVE  TypeOK'
  <2> DEFINE plan == IF e = Global THEN <<e>> ELSE <<e, Global>>
  <2>1. plan \in Seq(AllEnvs \cup {All})
    <3>1. e \in AllEnvs \cup {All} /\ Global \in AllEnvs \cup {All}
      BY DEF AllEnvs
    <3>2. <<e>> \in Seq(AllEnvs \cup {All}) /\ <<e, Global>> \in Seq(AllEnvs \cup {All})
      BY <3>1, ShortPlans
    <3> QED
      BY <3>2
  <2>2. h \in Procs
    BY DEF Procs
  <2>a. proc \in [Procs -> Local] /\ proc[h] \in Local
    BY <2>2, LocalFacts
  <2>3. [proc[h] EXCEPT !.pc = "scope", !.plan = plan] \in Local
    <3> HIDE DEF plan
    <3> QED
      BY <2>1, <2>a DEF Local, Labels
  <2>4. proc' \in [Procs -> Local]
    BY <1>2, <2>2, <2>a, <2>3, ProcUpdate DEF RefreshTemplates
  <2>5. spent' \in [requests : 0..MaxRequests, faults : 0..MaxFaults,
                    crashes : 0..MaxCrashes]
    BY <1>2, RefreshAssumption DEF RefreshTemplates, TypeOK, RefreshTypeOK
  <2> QED
    BY <1>2, <2>4, <2>5
    DEF RefreshTemplates, TypeOK, StoreTypeOK, GitTypeOK, RefreshTypeOK, storeVars, gitVars
<1>3. ASSUME NEW p \in Procs, Proceed(p)
      PROVE  TypeOK'
  BY <1>3, ScopeStepType, LookupCatalogType, GitStepType, IndexStepType DEF Proceed
<1>4. ASSUME NEW p \in Procs, Fault(p)
      PROVE  TypeOK'
  BY <1>4, FaultType
<1>5. CASE EditConfig
  <2>1. configAt' \in 1..Len(ConfigFiles)
    BY <1>5, RefreshAssumption DEF EditConfig, TypeOK, RefreshTypeOK
  <2> QED
    BY <1>5, <2>1
    DEF EditConfig, TypeOK, StoreTypeOK, GitTypeOK, RefreshTypeOK, storeVars, gitVars
<1>6. CASE PushBranch
  <2>1. PICK s \in Sources, c \in Commits : Push(s, c)
    BY <1>6 DEF PushBranch
  <2>2. GitTypeOK'
    BY <2>1 DEF Push, TypeOK, GitTypeOK
  <2> QED
    BY <1>6, <2>2 DEF PushBranch, TypeOK, StoreTypeOK, RefreshTypeOK, storeVars, refreshVars
<1>7. CASE Crash
  <2>1. NoConfig \in Config
    <3>1. NoConfig \in [{} -> Entry]
      BY DEF NoConfig
    <3> QED
      BY <3>1 DEF Config
  <2>2. proc' \in [Procs -> Local]
    BY <1>7, IdleIsLocal DEF Crash
  <2>3. spent' \in [requests : 0..MaxRequests, faults : 0..MaxFaults,
                    crashes : 0..MaxCrashes]
    BY <1>7, RefreshAssumption DEF Crash, TypeOK, RefreshTypeOK
  <2> QED
    BY <1>7, <2>1, <2>2, <2>3
    DEF Crash, TypeOK, StoreTypeOK, GitTypeOK, RefreshTypeOK, storeVars, gitVars
<1>8. CASE UNCHANGED vars
  BY <1>8
  DEF vars, TypeOK, StoreTypeOK, GitTypeOK, RefreshTypeOK, storeVars, gitVars, refreshVars
<1> QED
  BY <1>1, <1>2, <1>3, <1>4, <1>5, <1>6, <1>7, <1>8 DEF RefreshNext, RefreshStep

LEMMA InitType == Init => TypeOK
<1> SUFFICES ASSUME Init
             PROVE  TypeOK
  OBVIOUS
<1>1. StoreTypeOK
  BY InitialRowsAssumption DEF Init, StoreInit, StoreTypeOK
<1>2. GitTypeOK
  BY GitAssumption DEF Init, GitInit, GitTypeOK
<1>3. RefreshTypeOK
  <2>1. NoConfig \in [{} -> Entry]
    BY DEF NoConfig
  <2>2. NoConfig \in Config
    BY <2>1 DEF Config
  <2>3. Len(ConfigFiles) >= 1 /\ Len(ConfigFiles) \in Nat
    BY RefreshAssumption
  <2> QED
    BY <2>2, <2>3, IdleIsLocal, RefreshAssumption DEF Init, RefreshInit, RefreshTypeOK
<1> QED
  BY <1>1, <1>2, <1>3 DEF TypeOK

\* Whatever refreshes, pushes, edits, failures and crashes do, table, caches
\* and goroutines hold values of their types.
THEOREM RefreshTypeCorrect == Spec => []TypeOK
<1>1. Init => TypeOK
  BY InitType
<1>2. TypeOK /\ [RefreshNext]_vars => TypeOK'
  BY RefreshNextType
<1> QED
  BY <1>1, <1>2, PTL DEF Spec

-----------------------------------------------------------------------------
(* The table under any number of refreshes.                                *)

\* Two kinds of steps write the table: a global catalog that is not in the
\* configuration is deleted, or updateDb replaces a catalog.
LEMMA RowsChange ==
  ASSUME [RefreshNext]_vars
  PROVE  \/ UNCHANGED storeVars
         \/ \E n : /\ n \notin DOMAIN config
                   /\ UNCHANGED config
                   /\ DeleteCatalogs({Global}, n)
         \/ \E p \in Procs : UpdateDb(p)
<1>1. ASSUME NEW p \in Procs, RemoveCatalogNotInConfig(p)
      PROVE  \/ UNCHANGED storeVars
             \/ \E n : /\ n \notin DOMAIN config
                       /\ UNCHANGED config
                       /\ DeleteCatalogs({Global}, n)
  BY <1>1 DEF RemoveCatalogNotInConfig, Others
<1>2. ASSUME NEW p \in Procs, Proceed(p),
             ~RemoveCatalogNotInConfig(p), ~UpdateDb(p)
      PROVE  UNCHANGED storeVars
  BY <1>2
  DEF Proceed, ReadConfig, FindGlobalCatalogs, RangeConfig, LookupCatalogs,
      NextCatalog, ScopeDone, LookupCatalog, DirEmpty, StartClone, FetchClone,
      PopulateClone, PinnedHeadCommit, CheckoutCommit, RemoteShaChanged,
      UpdateFetch, UpdateCheckout, WriteTree, CheckoutDone, HeadCommit, Compare,
      TraverseTemplate, TraverseDone
<1>3. CASE UNCHANGED vars
  BY <1>3 DEF vars
<1>4. CASE \/ AutoTick \/ EditConfig \/ PushBranch \/ Crash
           \/ \E h \in Handlers, e \in AllEnvs : RefreshTemplates(h, e)
           \/ \E p \in Procs : Fault(p)
  BY <1>4 DEF AutoTick, EditConfig, PushBranch, Crash, RefreshTemplates, Fault
<1> QED
  BY <1>1, <1>2, <1>3, <1>4 DEF RefreshNext, RefreshStep

LEMMA ReplaceIds ==
  ASSUME StoreTypeOK, IdsFresh, NEW cat, NEW commit, NEW index,
         ReplaceCatalog(cat, commit, index)
  PROVE  IdsFresh'
<1> DEFINE kept == {r \in rows : ~Keyed(r, cat.env, cat.name)}
           new  == NewRow([cat EXCEPT !.commit = commit], index)
<1>1. rows' = kept \cup {new} /\ nextId' = nextId + 1
  BY DEF ReplaceCatalog
<1>2. \A r \in kept : r \in rows /\ r.id \in Nat /\ r.id < nextId
  BY DEF StoreTypeOK, Row, IdsFresh
<1>3. new.id = nextId /\ nextId \in Nat
  BY DEF NewRow, StoreTypeOK
<1>4. \A r \in rows' : r.id < nextId'
  <2> HIDE DEF kept, new
  <2> QED
    BY <1>1, <1>2, <1>3
<1>5. \A r, q \in rows' : r.id = q.id => r = q
  <2>1. \A r, q \in kept : r.id = q.id => r = q
    BY <1>2 DEF IdsFresh
  <2> HIDE DEF kept, new
  <2> QED
    BY <1>1, <1>2, <1>3, <2>1
<1> QED
  BY <1>4, <1>5 DEF IdsFresh

LEMMA DeleteIds ==
  ASSUME IdsFresh, NEW envs, NEW n, DeleteCatalogs(envs, n)
  PROVE  IdsFresh'
BY DEF IdsFresh, DeleteCatalogs

LEMMA RefreshIds ==
  ASSUME TypeOK, IdsFresh, [RefreshNext]_vars
  PROVE  IdsFresh'
<1>1. CASE UNCHANGED storeVars
  BY <1>1 DEF IdsFresh, storeVars
<1>2. ASSUME NEW n, DeleteCatalogs({Global}, n)
      PROVE  IdsFresh'
  BY <1>2, DeleteIds
<1>3. ASSUME NEW p \in Procs, UpdateDb(p)
      PROVE  IdsFresh'
  BY <1>3, ReplaceIds DEF UpdateDb, TypeOK
<1> QED
  BY <1>1, <1>2, <1>3, RowsChange

USE DEF Indexing

\* What a goroutine becomes keeps to the pin.
LEMMA PinUpdate ==
  ASSUME TypeOK, PinPrepared, NEW p \in Procs, NEW x, Become(p, x),
         x.pc \in Indexing /\ x.cat.pin # NoPin
           => x.commit = x.cat.pin
  PROVE  PinPrepared'
<1>1. \A q \in Procs : proc'[q] = IF q = p THEN x ELSE proc[q]
  BY DEF TypeOK, RefreshTypeOK, Become
<1> QED
  BY <1>1 DEF PinPrepared

\* The same when it goes to a label before the pin is checked, gives the
\* catalog up, or goes from one of the three labels to the next.
LEMMA PinGoto ==
  ASSUME TypeOK, PinPrepared, NEW p \in Procs, NEW label,
         Goto(p, label),
         label \in Indexing
           => proc[p].pc \in Indexing
  PROVE  PinPrepared'
<1> DEFINE x == [proc[p] EXCEPT !.pc = label]
<1>1. proc[p] \in Local
  BY LocalFacts
<1>2. x.pc = label /\ x.cat = proc[p].cat /\ x.commit = proc[p].commit
  BY <1>1 DEF Local
<1>3. x.pc \in Indexing /\ x.cat.pin # NoPin
        => x.commit = x.cat.pin
  <2> HIDE DEF x
  <2> QED
    BY <1>2 DEF PinPrepared
<1>4. Become(p, x)
  BY DEF Goto
<1> HIDE DEF x
<1> QED
  BY <1>3, <1>4, PinUpdate

LEMMA PinReturn ==
  ASSUME TypeOK, PinPrepared, NEW p \in Procs, NEW failed \in BOOLEAN, Return(p, failed)
  PROVE  PinPrepared'
<1> DEFINE x == [Idle EXCEPT !.pc = "next", !.plan = proc[p].plan,
                             !.todo = proc[p].todo,
                             !.failed = proc[p].failed \/ failed]
<1>1. x.pc = "next"
  BY DEF Idle
<1>2. Become(p, x)
  BY DEF Return
<1> HIDE DEF x
<1> QED
  BY <1>1, <1>2, PinUpdate

\* The same again for a step to a record whose label comes before the check.
LEMMA PinEarly ==
  ASSUME TypeOK, PinPrepared, NEW p \in Procs, NEW x, Become(p, x),
         x.pc \in Labels \ Indexing
  PROVE  PinPrepared'
BY PinUpdate

LEMMA PinCheckout ==
  ASSUME TypeOK, PinPrepared, NEW p \in Procs, NEW c, NEW initial \in BOOLEAN,
         NEW label \in Writing, StartCheckout(p, c, initial, label)
  PROVE  PinPrepared'
<1> DEFINE at == IF ~initial /\ dirs[D(p)].head = c THEN NumTemplates + 1 ELSE 1
           x  == [proc[p] EXCEPT !.pc = label, !.target = c, !.at = at]
<1>1. CASE Become(p, x)
  <2>1. x.pc = label
    BY LocalFacts DEF Local
  <2> HIDE DEF x
  <2> QED
    BY <1>1, <2>1, PinEarly DEF Writing, Labels
<1>2. CASE Return(p, TRUE)
  BY <1>2, PinReturn
<1> QED
  BY <1>1, <1>2 DEF StartCheckout

LEMMA PinProceed ==
  ASSUME TypeOK, PinPrepared, NEW p \in Procs, Proceed(p)
  PROVE  PinPrepared'
<1> proc \in [Procs -> Local] /\ proc[p] \in Local
  BY LocalFacts
<1>1. CASE ReadConfig(p)
  BY <1>1, PinGoto DEF ReadConfig
<1>2. CASE FindGlobalCatalogs(p)
  BY <1>2, PinEarly DEF FindGlobalCatalogs, Labels, Local
<1>3. CASE RemoveCatalogNotInConfig(p)
  <2>1. PICK i \in proc[p].todo : Become(p, [proc[p] EXCEPT !.todo = proc[p].todo \ {i}])
    BY <1>3 DEF RemoveCatalogNotInConfig
  <2>2. [proc[p] EXCEPT !.todo = proc[p].todo \ {i}].pc = "prune"
    BY <1>3 DEF RemoveCatalogNotInConfig, At, Local
  <2> QED
    BY <2>1, <2>2, PinEarly DEF Labels
<1>4. CASE RangeConfig(p)
  BY <1>4, PinEarly DEF RangeConfig, Labels, Local
<1>5. CASE LookupCatalogs(p)
  BY <1>5, PinEarly DEF LookupCatalogs, Labels, Local
<1>6. CASE NextCatalog(p)
  <2> DEFINE label == IF Head(proc[p].plan) = Global THEN "lookup" ELSE "prepare"
  <2>1. PICK i \in proc[p].todo :
          Become(p, [proc[p] EXCEPT !.todo = proc[p].todo \ {i},
                                    !.cat = i.cat, !.pc = label])
    BY <1>6 DEF NextCatalog
  <2>2. [proc[p] EXCEPT !.todo = proc[p].todo \ {i},
                        !.cat = i.cat, !.pc = label].pc = label
    BY DEF Local
  <2>3. label \in Labels \ Indexing
    BY DEF Labels
  <2> HIDE DEF label
  <2> QED
    BY <2>1, <2>2, <2>3, PinEarly
<1>7. CASE ScopeDone(p)
  <2>1. Idle.pc = "idle"
    BY DEF Idle
  <2>2. [proc[p] EXCEPT !.pc = "scope", !.plan = Tail(proc[p].plan)].pc = "scope"
    BY DEF Local
  <2> QED
    BY <1>7, <2>1, <2>2, PinEarly DEF ScopeDone, Labels
<1>8. CASE LookupCatalog(p)
  <2>1. PICK new : Become(p, [proc[p] EXCEPT !.pc = "prepare", !.cat = new])
    BY <1>8 DEF LookupCatalog
  <2>2. [proc[p] EXCEPT !.pc = "prepare", !.cat = new].pc = "prepare"
    BY DEF Local
  <2> QED
    BY <2>1, <2>2, PinEarly DEF Labels
<1>9. CASE DirEmpty(p)
  BY <1>9, PinGoto, PinReturn DEF DirEmpty
<1>10. CASE StartClone(p)
  BY <1>10, PinGoto, PinReturn DEF StartClone
<1>11. CASE FetchClone(p)
  BY <1>11, PinEarly DEF FetchClone, Labels, Local
<1>12. CASE PopulateClone(p)
  BY <1>12, PinCheckout DEF PopulateClone, Writing
<1>13. CASE PinnedHeadCommit(p)
  BY <1>13, PinGoto, PinReturn DEF PinnedHeadCommit
<1>14. CASE CheckoutCommit(p)
  BY <1>14, PinCheckout DEF CheckoutCommit, Writing
<1>15. CASE RemoteShaChanged(p)
  BY <1>15, PinGoto DEF RemoteShaChanged
<1>16. CASE UpdateFetch(p)
  BY <1>16, PinGoto, PinReturn DEF UpdateFetch
<1>17. CASE UpdateCheckout(p)
  BY <1>17, PinCheckout DEF UpdateCheckout, Writing
<1>18. CASE WriteTree(p)
  <2>1. [proc[p] EXCEPT !.at = proc[p].at + 1].pc \in Writing
    BY <1>18 DEF WriteTree, Local
  <2> QED
    BY <1>18, <2>1, PinEarly DEF WriteTree, Writing, Labels
<1>19. CASE CheckoutDone(p)
  <2> DEFINE label == IF At(p, "cloneWrite") /\ proc[p].cat.pin # NoPin
                      THEN "pinLock" ELSE "head"
  <2>1. [proc[p] EXCEPT !.at = 1, !.target = 0, !.pc = label].pc = label
    BY DEF Local
  <2>2. label \in Labels \ Indexing
    BY DEF Labels
  <2>3. Become(p, [proc[p] EXCEPT !.at = 1, !.target = 0, !.pc = label])
    BY <1>19 DEF CheckoutDone
  <2> HIDE DEF label
  <2> QED
    BY <2>1, <2>2, <2>3, PinEarly
<1>20. CASE HeadCommit(p)
  <2> DEFINE head == dirs[D(p)].head
             x    == [proc[p] EXCEPT !.pc = "compare", !.commit = head]
  <2>1. CASE Return(p, TRUE)
    BY <2>1, PinReturn
  <2>2. CASE Become(p, x) /\ ~(proc[p].cat.pin # NoPin /\ head # proc[p].cat.pin)
    <3>1. x.cat = proc[p].cat /\ x.commit = head
      BY DEF Local
    <3> HIDE DEF x
    <3> QED
      BY <2>2, <3>1, PinUpdate
  <2> QED
    BY <1>20, <2>1, <2>2 DEF HeadCommit
<1>21. CASE Compare(p)
  BY <1>21, PinGoto, PinReturn DEF Compare, At
<1>22. CASE TraverseTemplate(p)
  <2>1. PICK at, read, errs :
          Become(p, [proc[p] EXCEPT !.at = at, !.read = read, !.errs = errs])
    BY <1>22 DEF TraverseTemplate
  <2> DEFINE x == [proc[p] EXCEPT !.at = at, !.read = read, !.errs = errs]
  <2>2. x.pc = proc[p].pc /\ x.cat = proc[p].cat /\ x.commit = proc[p].commit
    BY DEF Local
  <2> HIDE DEF x
  <2>3. Become(p, x)
    BY <2>1 DEF x
  <2> QED
    BY <2>2, <2>3, PinUpdate DEF PinPrepared
<1>23. CASE TraverseDone(p)
  BY <1>23, PinGoto, PinReturn DEF TraverseDone, At
<1>24. CASE UpdateDb(p)
  BY <1>24, PinReturn DEF UpdateDb
<1> QED
  BY <1>1, <1>2, <1>3, <1>4, <1>5, <1>6, <1>7, <1>8, <1>9, <1>10, <1>11, <1>12,
     <1>13, <1>14, <1>15, <1>16, <1>17, <1>18, <1>19, <1>20, <1>21, <1>22, <1>23,
     <1>24 DEF Proceed

LEMMA PinNext ==
  ASSUME TypeOK, PinPrepared, [RefreshNext]_vars
  PROVE  PinPrepared'
<1>1. CASE AutoTick
  <2>1. AutoRefresh \in Procs
    BY DEF Procs
  <2>2. proc[AutoRefresh] \in Local
    BY <2>1, LocalFacts
  <2> QED
    BY <1>1, <2>1, <2>2, PinEarly DEF AutoTick, Labels, Local
<1>2. ASSUME NEW h \in Handlers, NEW e \in AllEnvs, RefreshTemplates(h, e)
      PROVE  PinPrepared'
  <2>1. h \in Procs
    BY DEF Procs
  <2>2. proc[h] \in Local
    BY <2>1, LocalFacts
  <2>3. PICK plan : Become(h, [proc[h] EXCEPT !.pc = "scope", !.plan = plan])
    BY <1>2 DEF RefreshTemplates
  <2>4. [proc[h] EXCEPT !.pc = "scope", !.plan = plan].pc = "scope"
    BY <2>2 DEF Local
  <2> QED
    BY <2>1, <2>3, <2>4, PinEarly DEF Labels
<1>3. ASSUME NEW p \in Procs, Proceed(p)
      PROVE  PinPrepared'
  BY <1>3, PinProceed
<1>4. ASSUME NEW p \in Procs, Fault(p)
      PROVE  PinPrepared'
  <2>1. \/ Return(p, TRUE) \/ Become(p, Idle)
        \/ Goto(p, "prune") \/ Goto(p, "prepare")
    BY <1>4 DEF Fault, GiveUp
  <2>2. Idle.pc = "idle"
    BY DEF Idle
  <2> QED
    BY <2>1, <2>2, PinReturn, PinEarly, PinGoto DEF Labels
<1>5. CASE EditConfig \/ PushBranch \/ UNCHANGED vars
  BY <1>5 DEF EditConfig, PushBranch, vars, refreshVars, PinPrepared
<1>6. CASE Crash
  BY <1>6 DEF Crash, PinPrepared, Idle
<1> QED
  BY <1>1, <1>2, <1>3, <1>4, <1>5, <1>6 DEF RefreshNext, RefreshStep

-----------------------------------------------------------------------------
(* The theorems.                                                           *)

LEMMA InitInv == Init => RefreshInv
<1> SUFFICES ASSUME Init
             PROVE  RefreshInv
  OBVIOUS
<1>1. IdsFresh
  BY InitialRowsAssumption DEF Init, StoreInit, IdsFresh
<1>2. PinPrepared
  BY DEF Init, RefreshInit, PinPrepared, Idle
<1> QED
  BY <1>1, <1>2, InitType DEF RefreshInv

LEMMA NextInv == RefreshInv /\ [RefreshNext]_vars => RefreshInv'
BY RefreshNextType, RefreshIds, PinNext DEF RefreshInv

\* The invariant of any number of concurrent refreshes: types, fresh primary
\* keys, and a pin held from the last check of prepareGitRepoPath to updateDb.
THEOREM RefreshInvariant == Spec => []RefreshInv
BY InitInv, NextInv, PTL DEF Spec

\* What a step that replaces a catalog writes.
LEMMA ReplacedRow ==
  ASSUME TypeOK, IdsFresh, NEW p \in Procs, UpdateDb(p), NEW r \in rows',
         r.id >= nextId
  PROVE  r.cat = [proc[p].cat EXCEPT !.commit = proc[p].commit]
<1>1. \/ r \in rows
      \/ r = NewRow([proc[p].cat EXCEPT !.commit = proc[p].commit], proc[p].read)
  BY DEF UpdateDb, ReplaceCatalog
<1>2. r \notin rows
  BY DEF IdsFresh, TypeOK, StoreTypeOK, Row
<1> QED
  BY <1>1, <1>2 DEF NewRow

LEMMA PinStep == RefreshInv /\ [RefreshNext]_vars => IndexesAtPin
<1> SUFFICES ASSUME RefreshInv, [RefreshNext]_vars
             PROVE  IndexesAtPin
  OBVIOUS
<1> USE DEF RefreshInv
<1>1. ASSUME NEW r \in rows', r.id >= nextId, NEW p \in Procs, UpdateDb(p),
             r.cat.pin # NoPin
      PROVE  r.cat.commit = r.cat.pin
  <2>1. r.cat = [proc[p].cat EXCEPT !.commit = proc[p].commit]
    BY <1>1, ReplacedRow
  <2>2. r.cat.pin = proc[p].cat.pin /\ r.cat.commit = proc[p].commit
    BY <2>1, LocalFacts DEF Cat
  <2>3. proc[p].pc = "update"
    BY <1>1 DEF UpdateDb, At
  <2> QED
    BY <1>1, <2>2, <2>3 DEF PinPrepared
<1>2. ASSUME NEW r \in rows', r \in rows, r.id >= nextId
      PROVE  FALSE
  BY <1>2 DEF IdsFresh, TypeOK, StoreTypeOK, Row
<1>3. CASE UNCHANGED storeVars
  BY <1>2, <1>3 DEF IndexesAtPin, storeVars
<1>4. ASSUME NEW n, DeleteCatalogs({Global}, n)
      PROVE  IndexesAtPin
  BY <1>2, <1>4 DEF IndexesAtPin, DeleteCatalogs
<1>5. ASSUME NEW p \in Procs, UpdateDb(p)
      PROVE  IndexesAtPin
  BY <1>1, <1>5 DEF IndexesAtPin
<1> QED
  BY <1>3, <1>4, <1>5, RowsChange

\* A pinned catalog is only ever indexed at its pin, whatever other refreshes,
\* pushes, failures and crashes do to the caches meanwhile.
THEOREM PinsHold == Spec => PinHolds
<1>1. RefreshInv /\ [RefreshNext]_vars => [IndexesAtPin]_vars
  BY PinStep
<1> QED
  BY <1>1, RefreshInvariant, PTL DEF Spec, PinHolds

LEMMA OneRowStep ==
  ASSUME TypeOK, OneRowPerCatalog, [RefreshNext]_vars
  PROVE  OneRowPerCatalog'
<1>1. CASE UNCHANGED storeVars
  BY <1>1 DEF OneRowPerCatalog, Keyed, storeVars
<1>2. ASSUME NEW n, DeleteCatalogs({Global}, n)
      PROVE  OneRowPerCatalog'
  BY <1>2 DEF OneRowPerCatalog, Keyed, DeleteCatalogs
<1>3. ASSUME NEW p \in Procs, UpdateDb(p)
      PROVE  OneRowPerCatalog'
  <2> DEFINE cat  == proc[p].cat
             new  == NewRow([cat EXCEPT !.commit = proc[p].commit], proc[p].read)
  <2>1. rows' = {r \in rows : ~Keyed(r, cat.env, cat.name)} \cup {new}
    BY <1>3 DEF UpdateDb, ReplaceCatalog
  <2>2. new.cat.env = cat.env /\ new.cat.name = cat.name
    BY LocalFacts DEF NewRow, Cat
  <2> HIDE DEF new
  <2> QED
    BY <2>1, <2>2 DEF OneRowPerCatalog, Keyed
<1> QED
  BY <1>1, <1>2, <1>3, RowsChange

\* However many refreshes run at once, they never make a second row of a
\* catalog: the delete and the create of updateDb are one transaction.
THEOREM RefreshKeepsRowsUnique == Spec /\ OneRowPerCatalog => []OneRowPerCatalog
<1>1. TypeOK /\ OneRowPerCatalog /\ [RefreshNext]_vars => OneRowPerCatalog'
  BY OneRowStep
<1> QED
  BY <1>1, RefreshTypeCorrect, PTL DEF Spec

LEMMA KeepsStep == TypeOK /\ [RefreshNext]_vars => KeepsCatalogs
<1> SUFFICES ASSUME TypeOK, [RefreshNext]_vars
             PROVE  KeepsCatalogs
  OBVIOUS
<1>1. CASE UNCHANGED storeVars
  BY <1>1 DEF KeepsCatalogs, Keyed, storeVars
<1>2. ASSUME NEW n, n \notin DOMAIN config, DeleteCatalogs({Global}, n)
      PROVE  KeepsCatalogs
  BY <1>2 DEF KeepsCatalogs, Keyed, DeleteCatalogs
<1>3. ASSUME NEW p \in Procs, UpdateDb(p)
      PROVE  KeepsCatalogs
  <2> DEFINE cat  == proc[p].cat
             new  == NewRow([cat EXCEPT !.commit = proc[p].commit], proc[p].read)
  <2>1. rows' = {r \in rows : ~Keyed(r, cat.env, cat.name)} \cup {new}
    BY <1>3 DEF UpdateDb, ReplaceCatalog
  <2>2. new.cat.env = cat.env /\ new.cat.name = cat.name
    BY LocalFacts DEF NewRow, Cat
  <2> HIDE DEF new
  <2> QED
    BY <2>1, <2>2 DEF KeepsCatalogs, Keyed
<1> QED
  BY <1>1, <1>2, <1>3, RowsChange

\* No refresh takes away a catalog of an environment, or a global one that is
\* in the configuration: a failure leaves the row, a success replaces it.
THEOREM RefreshesKeepCatalogs == Spec => RefreshKeepsCatalogs
<1>1. TypeOK /\ [RefreshNext]_vars => [KeepsCatalogs]_vars
  BY KeepsStep
<1> QED
  BY <1>1, RefreshTypeCorrect, PTL DEF Spec, RefreshKeepsCatalogs

-----------------------------------------------------------------------------
(* A refresh that is alone in its cache directories records what it reads: *)
(* the index of a row is the index of the commit in the row.  Alone means  *)
(* that no request for a refresh is served (no Handlers) and that a git    *)
(* command once begun ends; pushes, edits of the configuration, failures   *)
(* between the commands and crashes outside them may happen at any time.   *)

Solo == Handlers = {} /\ ~HalfDoneGit

\* Labels at which no git command and no indexing is under way.
Quiet == Labels \ (Writing \cup Cloning \cup Indexing)

USE DEF Indexing, Writing, Cloning

LEMMA ContentFacts ==
  ASSUME NEW c \in 0..MaxCommit
  PROVE  /\ Content(c) \in [Templates -> 0..MaxCommit]
         /\ \A t \in Templates : Content(c)[t] = Missing \/ Content(c)[t] = c
BY ContentType DEF Content

\* Where no git command is at work, everything is clean.
LEMMA CleanBetween ==
  ASSUME SoloInv, proc[AutoRefresh].pc \notin Writing \cup Cloning
  PROVE  CachesClean
BY DEF SoloInv, SoloOK, CachesClean

LEMMA QuietOK ==
  ASSUME NEW g, NEW ds, g.pc \in Quiet, g.at = 1,
         \A k \in DirKeys : Clean(ds[k])
  PROVE  SoloOK(g, ds)
BY DEF SoloOK, Quiet

\* The goroutine returns to the loop, or goes on at a quiet label, from one
\* where no git command was at work.
LEMMA QuietStep ==
  ASSUME TypeOK, SoloInv, CachesClean, NEW g, Become(AutoRefresh, g),
         g.pc \in Quiet, g.at = 1, UNCHANGED dirs
  PROVE  SoloInv'
<1>1. proc'[AutoRefresh] = g
  BY DEF Become, TypeOK, RefreshTypeOK, Procs
<1>2. \A k \in DirKeys : Clean(dirs[k])
  BY DEF CachesClean
<1>3. SoloOK(g, dirs)
  BY <1>2, QuietOK
<1>4. SoloOK(proc'[AutoRefresh], dirs')
  BY <1>1, <1>3
<1> QED
  BY <1>4 DEF SoloInv

LEMMA SoloReturn ==
  ASSUME TypeOK, SoloInv, CachesClean, NEW failed \in BOOLEAN,
         Return(AutoRefresh, failed), UNCHANGED dirs
  PROVE  SoloInv'
<1> DEFINE g == [Idle EXCEPT !.pc = "next", !.plan = proc[AutoRefresh].plan,
                             !.todo = proc[AutoRefresh].todo,
                             !.failed = proc[AutoRefresh].failed \/ failed]
<1>1. g.pc = "next" /\ g.at = 1
  BY DEF Idle
<1>2. Become(AutoRefresh, g)
  BY DEF Return
<1> HIDE DEF g
<1> QED
  BY <1>1, <1>2, QuietStep DEF Quiet, Labels

LEMMA SoloGoto ==
  ASSUME TypeOK, SoloInv, proc[AutoRefresh].pc \in Quiet, NEW label \in Quiet,
         Goto(AutoRefresh, label), UNCHANGED dirs
  PROVE  SoloInv'
<1> DEFINE g == [proc[AutoRefresh] EXCEPT !.pc = label]
<1>1. proc[AutoRefresh] \in Local
  BY LocalFacts DEF Procs
<1>2. proc[AutoRefresh].at = 1
  BY DEF SoloInv, SoloOK, Quiet
<1>3. g.pc = label /\ g.at = 1
  BY <1>1, <1>2 DEF Local
<1>4. CachesClean
  BY CleanBetween DEF Quiet
<1>5. Become(AutoRefresh, g)
  BY DEF Goto
<1> HIDE DEF g
<1> QED
  BY <1>3, <1>4, <1>5, QuietStep

\* The steps that choose the catalogs to refresh, and those that only look.
LEMMA SoloScope ==
  ASSUME TypeOK, SoloInv, NEW p, p = AutoRefresh,
         \/ ReadConfig(p) \/ FindGlobalCatalogs(p) \/ RemoveCatalogNotInConfig(p)
         \/ RangeConfig(p) \/ LookupCatalogs(p) \/ NextCatalog(p) \/ ScopeDone(p)
         \/ LookupCatalog(p) \/ DirEmpty(p) \/ PinnedHeadCommit(p)
         \/ RemoteShaChanged(p)
  PROVE  SoloInv'
<1> p \in Procs /\ proc[p] \in Local /\ proc[p].pc \in Labels
  BY LocalFacts DEF Procs, Local
<1> USE DEF Quiet, Labels
<1>1. UNCHANGED dirs /\ proc[p].pc \in Quiet
  BY DEF ReadConfig, FindGlobalCatalogs, RemoveCatalogNotInConfig, RangeConfig,
         LookupCatalogs, NextCatalog, ScopeDone, LookupCatalog, DirEmpty,
         PinnedHeadCommit, RemoteShaChanged, At, gitVars
<1>2. CachesClean /\ proc[p].at = 1
  BY <1>1, CleanBetween DEF SoloInv, SoloOK
<1>3. CASE ReadConfig(p)
  BY <1>1, <1>3, SoloGoto DEF ReadConfig
<1>4. CASE FindGlobalCatalogs(p)
  <2>1. PICK todo : Become(p, [proc[p] EXCEPT !.pc = "prune", !.todo = todo])
    BY <1>4 DEF FindGlobalCatalogs
  <2>2. /\ [proc[p] EXCEPT !.pc = "prune", !.todo = todo].pc = "prune"
        /\ [proc[p] EXCEPT !.pc = "prune", !.todo = todo].at = 1
    BY <1>2 DEF Local
  <2> QED
    BY <1>1, <1>2, <2>1, <2>2, QuietStep
<1>5. CASE RemoveCatalogNotInConfig(p)
  <2>1. PICK todo : Become(p, [proc[p] EXCEPT !.todo = todo])
    BY <1>5 DEF RemoveCatalogNotInConfig
  <2>2. /\ [proc[p] EXCEPT !.todo = todo].pc \in Quiet
        /\ [proc[p] EXCEPT !.todo = todo].at = 1
    BY <1>1, <1>2 DEF Local
  <2> QED
    BY <1>1, <1>2, <2>1, <2>2, QuietStep
<1>6. CASE RangeConfig(p) \/ LookupCatalogs(p)
  <2>1. PICK todo : Become(p, [proc[p] EXCEPT !.pc = "next", !.todo = todo])
    BY <1>6 DEF RangeConfig, LookupCatalogs
  <2>2. /\ [proc[p] EXCEPT !.pc = "next", !.todo = todo].pc = "next"
        /\ [proc[p] EXCEPT !.pc = "next", !.todo = todo].at = 1
    BY <1>2 DEF Local
  <2> QED
    BY <1>1, <1>2, <2>1, <2>2, QuietStep
<1>7. CASE NextCatalog(p)
  <2> DEFINE g(i) == [proc[p] EXCEPT
                        !.todo = proc[p].todo \ {i}, !.cat = i.cat,
                        !.pc = IF Head(proc[p].plan) = Global
                               THEN "lookup" ELSE "prepare"]
  <2>1. PICK i \in proc[p].todo : Become(p, g(i))
    BY <1>7 DEF NextCatalog
  <2>2. g(i).pc \in Quiet /\ g(i).at = 1
    BY <1>2 DEF Local
  <2> HIDE DEF g
  <2> QED
    BY <1>1, <1>2, <2>1, <2>2, QuietStep
<1>8. CASE ScopeDone(p)
  <2>1. Idle.pc = "idle" /\ Idle.at = 1
    BY DEF Idle
  <2>2. /\ [proc[p] EXCEPT !.pc = "scope", !.plan = Tail(proc[p].plan)].pc = "scope"
        /\ [proc[p] EXCEPT !.pc = "scope", !.plan = Tail(proc[p].plan)].at = 1
    BY <1>2 DEF Local
  <2> QED
    BY <1>1, <1>2, <1>8, <2>1, <2>2, QuietStep DEF ScopeDone
<1>9. CASE LookupCatalog(p)
  <2>1. PICK cat : Become(p, [proc[p] EXCEPT !.pc = "prepare", !.cat = cat])
    BY <1>9 DEF LookupCatalog
  <2>2. /\ [proc[p] EXCEPT !.pc = "prepare", !.cat = cat].pc = "prepare"
        /\ [proc[p] EXCEPT !.pc = "prepare", !.cat = cat].at = 1
    BY <1>2 DEF Local
  <2> QED
    BY <1>1, <1>2, <2>1, <2>2, QuietStep
<1>10. CASE DirEmpty(p)
  BY <1>1, <1>2, <1>10, SoloGoto, SoloReturn DEF DirEmpty
<1>11. CASE PinnedHeadCommit(p)
  BY <1>1, <1>2, <1>11, SoloGoto, SoloReturn DEF PinnedHeadCommit
<1>12. CASE RemoteShaChanged(p)
  BY <1>1, <1>12, SoloGoto DEF RemoteShaChanged
<1> QED
  BY <1>3, <1>4, <1>5, <1>6, <1>7, <1>8, <1>9, <1>10, <1>11, <1>12

-----------------------------------------------------------------------------
(* The git commands.                                                       *)

\* SoloOK, the other directories apart.
OwnOK(g, w) ==
    /\ g.pc \in Cloning => ~w.locked
    /\ g.pc = "cloneLock" => g.target \in w.objs
    /\ g.pc \in {"cloneLock", "cloneWrite"} => w.head = g.target
    /\ g.pc \in Writing => Written(g, w)
    /\ g.pc \in Indexing => w.head = g.commit /\ g.commit # NoCommit
    /\ g.pc \in {"traverse", "update"} => Read(g)
    /\ g.pc = "update" => g.at = NumTemplates + 1
    /\ g.pc \notin Writing \cup {"traverse", "update"} => g.at = 1

LEMMA SoloParts ==
  ASSUME NEW g, NEW ds
  PROVE  SoloOK(g, ds) <=> /\ \A k \in DirKeys : ~Clean(ds[k]) =>
                                g.pc \in Writing \cup Cloning /\ k = DirOf(g.cat)
                           /\ OwnOK(g, ds[DirOf(g.cat)])
BY DEF SoloOK, OwnOK

\* A step inside the directory of the catalog being refreshed.
LEMMA GitStep ==
  ASSUME TypeOK, SoloInv, NEW g, NEW w, Become(AutoRefresh, g),
         g.cat = proc[AutoRefresh].cat,
         dirs' = [dirs EXCEPT ![D(AutoRefresh)] = w],
         ~Clean(w) => g.pc \in Writing \cup Cloning, OwnOK(g, w)
  PROVE  SoloInv'
<1> DEFINE d == D(AutoRefresh)
           new == [dirs EXCEPT ![d] = w]
<1>1. AutoRefresh \in Procs /\ d \in DirKeys /\ dirs \in [DirKeys -> Dir]
  BY LocalFacts DEF Procs, TypeOK, GitTypeOK
<1>2. proc'[AutoRefresh] = g
  BY <1>1, LocalFacts DEF Become
<1>3. d = DirOf(g.cat)
  BY DEF D
<1>4. \A k \in DirKeys : ~Clean(dirs[k]) => k = d
  BY SoloParts DEF SoloInv, D
<1>5. new[d] = w /\ \A k \in DirKeys : k # d => new[k] = dirs[k]
  BY <1>1
<1> HIDE DEF new, d
<1>6. SoloOK(g, new)
  BY <1>3, <1>4, <1>5, SoloParts
<1> QED
  BY <1>2, <1>6 DEF SoloInv, new, d

LEMMA SoloClone ==
  ASSUME TypeOK, SoloInv, NEW p, p = AutoRefresh,
         StartClone(p) \/ FetchClone(p) \/ UpdateFetch(p)
  PROVE  SoloInv'
<1> p \in Procs /\ proc[p] \in Local /\ D(p) \in DirKeys /\ dirs[D(p)] \in Dir
  BY LocalFacts DEF Procs
<1> dirs \in [DirKeys -> Dir]
  BY DEF TypeOK, GitTypeOK
<1> DEFINE w == dirs[D(p)]
           c == remote[D(p)[2]]
<1>1. c \in Commits /\ c # NoCommit
  BY FetchedType DEF TypeOK, Commits, NoCommit
<1>2. CASE StartClone(p)
  <2>1. proc[p].pc = "clone" /\ proc[p].at = 1 /\ CachesClean
    BY <1>2, CleanBetween DEF StartClone, At, SoloInv, SoloOK
  <2>2. CASE CloneInit(D(p)) /\ Goto(p, "cloneFetch")
    <3> DEFINE g == [proc[p] EXCEPT !.pc = "cloneFetch"]
               x == [w EXCEPT !.exists = TRUE]
    <3>1. dirs' = [dirs EXCEPT ![D(p)] = x]
      BY <2>2 DEF CloneInit
    <3>2. g.pc = "cloneFetch" /\ g.at = 1 /\ g.cat = proc[p].cat /\ ~x.locked
      BY <2>1 DEF Local, Dir, CachesClean, Clean
    <3>3. Become(p, g)
      BY <2>2 DEF Goto
    <3> HIDE DEF g, x
    <3> QED
      BY <3>1, <3>2, <3>3, GitStep DEF OwnOK
  <2> QED
    BY <1>2, <2>1, <2>2, SoloReturn DEF StartClone, gitVars
<1>3. CASE FetchClone(p)
  <2>1. proc[p].pc = "cloneFetch" /\ proc[p].at = 1 /\ ~w.locked
    BY <1>3 DEF FetchClone, At, SoloInv, SoloOK, D
  <2> DEFINE g == [proc[p] EXCEPT !.pc = "cloneLock", !.target = c]
             x == [w EXCEPT !.head = c, !.ref = c, !.objs = w.objs \cup 1..c]
  <2>2. dirs' = [dirs EXCEPT ![D(p)] = x]
    BY <1>3 DEF FetchClone, CloneFetch
  <2>3. /\ g.pc = "cloneLock" /\ g.at = 1 /\ g.cat = proc[p].cat
        /\ g.target = c /\ x.head = c /\ ~x.locked
    BY <2>1 DEF Local, Dir
  <2>4. c \in x.objs
    BY <1>1 DEF Dir, Commits
  <2>5. Become(p, g)
    BY <1>3 DEF FetchClone
  <2> HIDE DEF g, x
  <2> QED
    BY <2>2, <2>3, <2>4, <2>5, GitStep DEF OwnOK
<1>4. CASE UpdateFetch(p)
  <2>1. proc[p].pc = "fetch" /\ proc[p].at = 1 /\ CachesClean
    BY <1>4, CleanBetween DEF UpdateFetch, At, SoloInv, SoloOK
  <2>2. CASE Fetch(D(p)) /\ Goto(p, "refLock")
    <3> DEFINE g == [proc[p] EXCEPT !.pc = "refLock"]
               x == [w EXCEPT !.ref = c, !.objs = w.objs \cup 1..c]
    <3>1. dirs' = [dirs EXCEPT ![D(p)] = x]
      BY <2>2 DEF Fetch
    <3>2. g.pc = "refLock" /\ g.at = 1 /\ g.cat = proc[p].cat
      BY <2>1 DEF Local
    <3>3. Clean(x)
      BY <2>1 DEF Clean, CachesClean, Dir
    <3>4. Become(p, g)
      BY <2>2 DEF Goto
    <3> HIDE DEF g, x
    <3> QED
      BY <3>1, <3>2, <3>3, <3>4, GitStep DEF OwnOK
  <2> QED
    BY <1>4, <2>1, <2>2, SoloReturn DEF UpdateFetch, gitVars
<1> QED
  BY <1>2, <1>3, <1>4

\* A checkout from a clean directory that has the commit: what is there
\* already need not be written.
LEMMA SoloCheckout ==
  ASSUME TypeOK, SoloInv, NEW p, p = AutoRefresh, NEW c \in 0..MaxCommit,
         CachesClean, StartCheckout(p, c, FALSE, "write")
  PROVE  SoloInv'
<1> p \in Procs /\ proc[p] \in Local /\ D(p) \in DirKeys /\ dirs[D(p)] \in Dir
  BY LocalFacts DEF Procs
<1> dirs \in [DirKeys -> Dir]
  BY DEF TypeOK, GitTypeOK
<1> DEFINE w == dirs[D(p)]
           at == IF w.head = c THEN NumTemplates + 1 ELSE 1
           g == [proc[p] EXCEPT !.pc = "write", !.target = c, !.at = at]
           x == [w EXCEPT !.locked = TRUE]
<1>1. CASE CanCheckout(D(p), c) /\ Lock(D(p)) /\ Become(p, g)
  <2>1. dirs' = [dirs EXCEPT ![D(p)] = x]
    BY <1>1 DEF Lock
  <2>2. c # NoCommit
    BY <1>1 DEF CanCheckout, Dir, Commits, NoCommit
  <2>3. g.pc = "write" /\ g.target = c /\ g.at = at /\ g.cat = proc[p].cat
    BY DEF Local
  <2>4. x.tree = w.tree
    BY DEF Dir
  <2>5. w.head = c => w.tree = Content(c)
    BY <2>2 DEF CachesClean, Clean
  <2>6. Written(g, x)
    <3> HIDE DEF g, x, w
    <3> QED
      BY <2>3, <2>4, <2>5 DEF Written, Templates
  <2> HIDE DEF g, x
  <2> QED
    BY <1>1, <2>1, <2>3, <2>6, GitStep DEF OwnOK
<1>2. CASE Return(p, TRUE) /\ UNCHANGED gitVars
  BY <1>2, SoloReturn DEF gitVars
<1> QED
  BY <1>1, <1>2 DEF StartCheckout

LEMMA SoloCheckouts ==
  ASSUME TypeOK, SoloInv, NEW p, p = AutoRefresh,
         PopulateClone(p) \/ CheckoutCommit(p) \/ UpdateCheckout(p)
  PROVE  SoloInv'
<1> p \in Procs /\ proc[p] \in Local /\ D(p) \in DirKeys /\ dirs[D(p)] \in Dir
  BY LocalFacts DEF Procs
<1> dirs \in [DirKeys -> Dir]
  BY DEF TypeOK, GitTypeOK
<1> DEFINE w == dirs[D(p)]
<1>1. CASE PopulateClone(p)
  <2> DEFINE c == proc[p].target
             g == [proc[p] EXCEPT !.pc = "cloneWrite", !.target = c, !.at = 1]
             x == [w EXCEPT !.locked = TRUE]
  <2>1. c \in w.objs /\ ~w.locked /\ w.head = c
    BY <1>1 DEF PopulateClone, At, SoloInv, SoloOK, D
  <2>2. dirs' = [dirs EXCEPT ![D(p)] = x] /\ Become(p, g)
    BY <1>1, <2>1 DEF PopulateClone, StartCheckout, CanCheckout, Lock
  <2>3. /\ g.pc = "cloneWrite" /\ g.target = c /\ g.at = 1
        /\ g.cat = proc[p].cat /\ x.head = c
    BY <2>1 DEF Local, Dir
  <2>4. Written(g, x)
    <3> HIDE DEF g, x, w
    <3> QED
      BY <2>3, BoundsAssumption DEF Written, Templates
  <2> HIDE DEF g, x
  <2> QED
    BY <2>2, <2>3, <2>4, GitStep DEF OwnOK
<1>2. CASE CheckoutCommit(p)
  <2>1. proc[p].cat.pin \in 0..MaxCommit /\ CachesClean
    BY <1>2, CleanBetween DEF CheckoutCommit, At, Local, Cat
  <2> QED
    BY <1>2, <2>1, SoloCheckout DEF CheckoutCommit
<1>3. CASE UpdateCheckout(p)
  <2>1. w.ref \in 0..MaxCommit /\ CachesClean
    BY <1>3, CleanBetween DEF UpdateCheckout, At, Dir
  <2> QED
    BY <1>3, <2>1, SoloCheckout DEF UpdateCheckout
<1> QED
  BY <1>1, <1>2, <1>3

LEMMA SoloWriteTree ==
  ASSUME TypeOK, SoloInv, NEW p, p = AutoRefresh, WriteTree(p)
  PROVE  SoloInv'
<1> p \in Procs /\ proc[p] \in Local /\ D(p) \in DirKeys /\ dirs[D(p)] \in Dir
  BY LocalFacts DEF Procs
<1> dirs \in [DirKeys -> Dir]
  BY DEF TypeOK, GitTypeOK
<1> DEFINE w == dirs[D(p)]
           t == proc[p].at
           c == proc[p].target
           g == [proc[p] EXCEPT !.at = t + 1]
           x == [w EXCEPT !.tree = [w.tree EXCEPT ![t] = Content(c)[t]]]
<1>1. /\ proc[p].pc \in Writing /\ t \in Templates /\ Written(proc[p], w)
      /\ proc[p].pc = "cloneWrite" => w.head = c
  BY BoundsAssumption DEF WriteTree, SoloInv, SoloOK, D, Local, Templates
<1>2. dirs' = [dirs EXCEPT ![D(p)] = x] /\ Become(p, g)
  BY DEF WriteTree, WriteTemplate
<1>3. /\ g.pc = proc[p].pc /\ g.at = t + 1 /\ g.target = c
      /\ g.cat = proc[p].cat /\ x.head = w.head
  BY DEF Local, Dir
<1>4. x.tree = [w.tree EXCEPT ![t] = Content(c)[t]] /\ w.tree \in [Templates -> 0..MaxCommit]
  BY DEF Dir
<1>5. \A u \in Templates : u < t => w.tree[u] = Content(c)[u]
  BY <1>1 DEF Written
<1>6. Written(g, x)
  <2> HIDE DEF g, x, w, t, c
  <2>1. \A u \in Templates : u < t + 1 => u < t \/ u = t
    BY <1>1 DEF Templates
  <2> QED
    BY <1>1, <1>3, <1>4, <1>5, <2>1 DEF Written
<1> HIDE DEF g, x
<1> QED
  BY <1>1, <1>2, <1>3, <1>6, GitStep DEF OwnOK

\* When the whole tree is written it is the commit.
LEMMA SoloCheckoutDone ==
  ASSUME TypeOK, SoloInv, NEW p, p = AutoRefresh, CheckoutDone(p)
  PROVE  SoloInv'
<1> p \in Procs /\ proc[p] \in Local /\ D(p) \in DirKeys /\ dirs[D(p)] \in Dir
  BY LocalFacts DEF Procs
<1> dirs \in [DirKeys -> Dir]
  BY DEF TypeOK, GitTypeOK
<1> DEFINE w == dirs[D(p)]
           c == proc[p].target
           label == IF At(p, "cloneWrite") /\ proc[p].cat.pin # NoPin
                    THEN "pinLock" ELSE "head"
           g == [proc[p] EXCEPT !.at = 1, !.target = 0, !.pc = label]
           x == [w EXCEPT !.head = c, !.locked = FALSE]
<1>1. /\ proc[p].pc \in Writing /\ Written(proc[p], w)
      /\ proc[p].pc = "cloneWrite" => w.head = c
      /\ proc[p].at = NumTemplates + 1
  BY DEF CheckoutDone, SoloInv, SoloOK, D
<1>2. dirs' = [dirs EXCEPT ![D(p)] = x]
  <2>1. CASE At(p, "write")
    BY <2>1 DEF CheckoutDone, MoveHead
  <2>2. CASE ~At(p, "write")
    <3>1. w.head = c
      BY <1>1, <2>2 DEF At
    <3>2. x = [w EXCEPT !.locked = FALSE]
      BY <3>1 DEF Dir
    <3> QED
      BY <2>2, <3>2 DEF CheckoutDone, Unlock
  <2> QED
    BY <2>1, <2>2
<1>3. Become(p, g)
  BY DEF CheckoutDone
<1>4. /\ g.pc \in {"pinLock", "head"} /\ g.at = 1 /\ g.cat = proc[p].cat
      /\ x.head = c /\ ~x.locked /\ x.tree = w.tree
  BY DEF Local, Dir
<1>5. w.tree = Content(c)
  <2>1. w.tree \in [Templates -> 0..MaxCommit] /\ c \in 0..MaxCommit
    BY DEF Dir, Local
  <2>2. Content(c) \in [Templates -> 0..MaxCommit]
    BY <2>1, ContentType
  <2>3. \A t \in Templates : w.tree[t] = Content(c)[t]
    BY <1>1, BoundsAssumption DEF Written, Templates
  <2> HIDE DEF w, c
  <2> QED
    BY <2>1, <2>2, <2>3
<1>6. Clean(x)
  BY <1>4, <1>5 DEF Clean
<1> HIDE DEF g, x
<1> QED
  BY <1>2, <1>3, <1>4, <1>6, GitStep DEF OwnOK

-----------------------------------------------------------------------------
(* Indexing.                                                               *)

\* A step that only reads a clean directory.
LEMMA ReadStep ==
  ASSUME TypeOK, SoloInv, CachesClean, NEW g, Become(AutoRefresh, g),
         g.cat = proc[AutoRefresh].cat, UNCHANGED dirs,
         OwnOK(g, dirs[D(AutoRefresh)])
  PROVE  SoloInv'
<1> DEFINE w == dirs[D(AutoRefresh)]
<1>1. D(AutoRefresh) \in DirKeys /\ dirs \in [DirKeys -> Dir]
  BY LocalFacts DEF Procs, TypeOK, GitTypeOK
<1>2. dirs' = [dirs EXCEPT ![D(AutoRefresh)] = w]
  BY <1>1
<1>3. Clean(w)
  BY <1>1 DEF CachesClean
<1> QED
  BY <1>2, <1>3, GitStep

LEMMA SoloIndex ==
  ASSUME TypeOK, SoloInv, NEW p, p = AutoRefresh,
         HeadCommit(p) \/ Compare(p) \/ TraverseTemplate(p)
           \/ TraverseDone(p) \/ UpdateDb(p)
  PROVE  SoloInv'
<1> p \in Procs /\ proc[p] \in Local /\ D(p) \in DirKeys /\ dirs[D(p)] \in Dir
  BY LocalFacts DEF Procs
<1> DEFINE w == dirs[D(p)]
<1>1. proc[p].pc \in {"head", "compare", "traverse", "update"} /\ UNCHANGED dirs
  BY DEF HeadCommit, Compare, TraverseTemplate, TraverseDone, UpdateDb, At, gitVars
<1>2. CachesClean
  BY <1>1, CleanBetween
<1>3. proc[p].pc \in {"head", "compare"} => proc[p].at = 1
  BY DEF SoloInv, SoloOK
<1>4. proc[p].pc \in Indexing => w.head = proc[p].commit /\ proc[p].commit # NoCommit
  BY DEF SoloInv, SoloOK, D
<1>5. CASE HeadCommit(p)
  <2> DEFINE g == [proc[p] EXCEPT !.pc = "compare", !.commit = w.head]
  <2>1. CASE Return(p, TRUE)
    BY <1>1, <1>2, <2>1, SoloReturn
  <2>2. CASE w.head # 0 /\ Become(p, g)
    <3>1. g.pc = "compare" /\ g.commit = w.head /\ g.at = 1 /\ g.cat = proc[p].cat
      BY <1>3, <1>5 DEF HeadCommit, At, Local
    <3> HIDE DEF g
    <3> QED
      BY <1>1, <1>2, <2>2, <3>1, ReadStep DEF OwnOK, NoCommit
  <2> QED
    BY <1>5, <2>1, <2>2 DEF HeadCommit
<1>6. CASE Compare(p)
  <2> DEFINE g == [proc[p] EXCEPT !.pc = "traverse"]
  <2>1. CASE Return(p, FALSE)
    BY <1>1, <1>2, <2>1, SoloReturn
  <2>2. CASE Become(p, g)
    <3>1. /\ g.pc = "traverse" /\ g.commit = proc[p].commit /\ g.at = 1
          /\ g.cat = proc[p].cat /\ w.head = g.commit /\ g.commit # NoCommit
      BY <1>3, <1>4, <1>6 DEF Compare, At, Local
    <3>2. Read(g)
      <4> HIDE DEF g
      <4> QED
        BY <3>1, BoundsAssumption DEF Read, Templates
    <3> HIDE DEF g
    <3> QED
      BY <1>1, <1>2, <2>2, <3>1, <3>2, ReadStep DEF OwnOK
  <2> QED
    BY <1>6, <2>1, <2>2 DEF Compare, Goto
<1>7. CASE TraverseTemplate(p)
  <2> DEFINE t == proc[p].at
             c == w.tree[t]
             broken == <<t, c>> \in Broken
             new == [proc[p].read EXCEPT ![t] = IF broken THEN Missing ELSE c]
             g == [proc[p] EXCEPT !.at = t + 1, !.read = new,
                                  !.errs = proc[p].errs \/ broken]
  <2>1. /\ proc[p].pc = "traverse" /\ t \in Templates /\ Read(proc[p])
        /\ w.head = proc[p].commit /\ w.head # NoCommit
    BY <1>4, <1>7 DEF TraverseTemplate, At, SoloInv, SoloOK, Local, Templates
  <2>2. w.tree = Content(w.head)
    BY <1>2, <2>1 DEF CachesClean, Clean
  <2>3. new[t] = IndexOf(w.head)[t]
    <3>1. proc[p].read \in [Templates -> Unnamed..MaxCommit]
      BY DEF Local, Index
    <3> HIDE DEF w, t
    <3> QED
      BY <2>1, <2>2, <3>1 DEF Content, IndexOf
  <2>4. \A u \in Templates : u < t + 1 => u = t \/ (u < t /\ new[u] = proc[p].read[u])
    BY <2>1 DEF Templates, Local, Index
  <2>5. /\ g.pc = "traverse" /\ g.at = t + 1 /\ g.read = new
        /\ g.commit = proc[p].commit /\ g.cat = proc[p].cat
    <3> HIDE DEF new, broken
    <3> QED
      BY <2>1 DEF Local
  <2>6. Become(p, g)
    BY <1>7 DEF TraverseTemplate
  <2>7. Read(g)
    <3> SUFFICES ASSUME NEW u \in Templates, u < t + 1
                 PROVE  new[u] = IndexOf(proc[p].commit)[u]
      BY <2>5 DEF Read
    <3>1. CASE u = t
      BY <2>1, <2>3, <3>1
    <3>2. CASE u < t /\ new[u] = proc[p].read[u]
      BY <2>1, <3>2 DEF Read
    <3> QED
      BY <2>4, <3>1, <3>2
  <2> HIDE DEF g
  <2> QED
    BY <1>1, <1>2, <2>1, <2>5, <2>6, <2>7, ReadStep DEF OwnOK
<1>8. CASE TraverseDone(p)
  <2> DEFINE g == [proc[p] EXCEPT !.pc = "update"]
  <2>1. CASE Return(p, TRUE)
    BY <1>1, <1>2, <2>1, SoloReturn
  <2>2. CASE Become(p, g)
    <3>1. proc[p].pc = "traverse" /\ proc[p].at = NumTemplates + 1 /\ Read(proc[p])
      BY <1>8 DEF TraverseDone, At, SoloInv, SoloOK
    <3>2. /\ g.pc = "update" /\ g.at = proc[p].at /\ g.read = proc[p].read
          /\ g.commit = proc[p].commit /\ g.cat = proc[p].cat
      BY DEF Local
    <3>3. Read(g)
      BY <3>1, <3>2 DEF Read
    <3> HIDE DEF g
    <3> QED
      BY <1>1, <1>2, <1>4, <2>2, <3>1, <3>2, <3>3, ReadStep DEF OwnOK
  <2> QED
    BY <1>8, <2>1, <2>2 DEF TraverseDone, Goto
<1>9. CASE UpdateDb(p)
  BY <1>1, <1>2, <1>9, SoloReturn DEF UpdateDb
<1> QED
  BY <1>5, <1>6, <1>7, <1>8, <1>9

-----------------------------------------------------------------------------
(* Failures, and every step together.                                      *)

LEMMA SoloFault ==
  ASSUME Solo, TypeOK, SoloInv, NEW p, p = AutoRefresh, Fault(p)
  PROVE  SoloInv'
<1> p \in Procs /\ proc[p] \in Local /\ D(p) \in DirKeys
  BY LocalFacts DEF Procs
<1> dirs \in [DirKeys -> Dir]
  BY DEF TypeOK, GitTypeOK
<1> USE DEF Quiet, Labels
<1>1. ASSUME proc[p].pc \notin Writing \cup Cloning, Return(p, TRUE), UNCHANGED gitVars
      PROVE  SoloInv'
  BY <1>1, CleanBetween, SoloReturn DEF gitVars
<1>2. ASSUME At(p, "cloneFetch"), Return(p, TRUE), CloneAbort(D(p))
      PROVE  SoloInv'
  <2> DEFINE g == [Idle EXCEPT !.pc = "next", !.plan = proc[p].plan,
                               !.todo = proc[p].todo,
                               !.failed = proc[p].failed \/ TRUE]
  <2>1. g.pc = "next" /\ g.at = 1
    BY DEF Idle
  <2>2. proc'[p] = g
    BY <1>2, LocalFacts DEF Return, Become
  <2>3. dirs' = [dirs EXCEPT ![D(p)] = EmptyDir]
    BY <1>2 DEF CloneAbort
  <2>4. Clean(EmptyDir)
    BY DEF EmptyDir, Clean, NoCommit
  <2>5. \A k \in DirKeys : ~Clean(dirs[k]) => k = D(p)
    BY DEF SoloInv, SoloOK, D
  <2>6. \A k \in DirKeys : Clean(dirs'[k])
    BY <2>3, <2>4, <2>5
  <2> HIDE DEF g
  <2>7. SoloOK(g, dirs')
    BY <2>1, <2>6, QuietOK
  <2> QED
    BY <2>2, <2>7 DEF SoloInv
<1>3. CASE GiveUp(p)
  BY <1>1, <1>2, <1>3 DEF GiveUp, Solo, At
<1>4. ASSUME At(p, "scope") \/ At(p, "prune"), Become(p, Idle), UNCHANGED gitVars
      PROVE  SoloInv'
  <2>1. Idle.pc = "idle" /\ Idle.at = 1
    BY DEF Idle
  <2>2. CachesClean
    BY <1>4, CleanBetween DEF At
  <2> QED
    BY <1>4, <2>1, <2>2, QuietStep DEF gitVars
<1>5. CASE At(p, "find") /\ Goto(p, "prune") /\ UNCHANGED gitVars
  BY <1>5, SoloGoto DEF At, gitVars
<1>6. CASE At(p, "lookup") /\ Goto(p, "prepare") /\ UNCHANGED gitVars
  BY <1>6, SoloGoto DEF At, gitVars
<1> QED
  BY <1>3, <1>4, <1>5, <1>6 DEF Fault

LEMMA SoloCrash ==
  ASSUME Solo, TypeOK, SoloInv, Crash
  PROVE  SoloInv'
<1>1. AutoRefresh \in Procs
  BY DEF Procs
<1>2. CachesClean
  BY <1>1, CleanBetween DEF Crash, Solo
<1>3. proc'[AutoRefresh] = Idle /\ UNCHANGED dirs
  BY <1>1 DEF Crash, gitVars
<1>4. Idle.pc = "idle" /\ Idle.at = 1
  BY DEF Idle
<1>5. \A k \in DirKeys : Clean(dirs[k])
  BY <1>2 DEF CachesClean
<1>6. SoloOK(Idle, dirs)
  BY <1>4, <1>5, QuietOK DEF Quiet, Labels
<1>7. SoloOK(proc'[AutoRefresh], dirs')
  BY <1>3, <1>6
<1> QED
  BY <1>7 DEF SoloInv

LEMMA SoloProceed ==
  ASSUME TypeOK, SoloInv, NEW p, p = AutoRefresh, Proceed(p)
  PROVE  SoloInv'
BY SoloScope, SoloClone, SoloCheckouts, SoloWriteTree, SoloCheckoutDone, SoloIndex
   DEF Proceed

LEMMA SoloNext ==
  ASSUME Solo, TypeOK, SoloInv, [RefreshNext]_vars
  PROVE  SoloInv'
<1>1. CASE AutoTick
  <2> DEFINE g == [proc[AutoRefresh] EXCEPT !.pc = "scope", !.plan = <<Global, All>>]
  <2>1. proc[AutoRefresh].pc = "idle" /\ proc[AutoRefresh].at = 1
    BY <1>1 DEF AutoTick, At, SoloInv, SoloOK
  <2>2. g.pc = "scope" /\ g.at = 1
    BY <2>1, LocalFacts DEF Local, Procs
  <2>3. CachesClean
    BY <2>1, CleanBetween
  <2>4. Become(AutoRefresh, g) /\ UNCHANGED dirs
    BY <1>1 DEF AutoTick, gitVars
  <2> HIDE DEF g
  <2> QED
    BY <2>2, <2>3, <2>4, QuietStep DEF Quiet, Labels
<1>2. CASE \E h \in Handlers, e \in AllEnvs : RefreshTemplates(h, e)
  BY <1>2 DEF Solo
<1>3. ASSUME NEW p \in Procs, Proceed(p) \/ Fault(p)
      PROVE  SoloInv'
  <2>1. p = AutoRefresh
    BY DEF Procs, Solo
  <2> QED
    BY <1>3, <2>1, SoloProceed, SoloFault
<1>4. CASE EditConfig \/ PushBranch \/ UNCHANGED vars
  <2>1. UNCHANGED <<proc, dirs>>
    BY <1>4 DEF EditConfig, PushBranch, Push, vars, gitVars, refreshVars
  <2> QED
    BY <2>1 DEF SoloInv
<1>5. CASE Crash
  BY <1>5, SoloCrash
<1> QED
  BY <1>1, <1>2, <1>3, <1>4, <1>5 DEF RefreshNext, RefreshStep

-----------------------------------------------------------------------------
(* What the table holds.                                                   *)

LEMMA HonestStep ==
  ASSUME Solo, TypeOK, SoloInv, HonestIndex, [RefreshNext]_vars
  PROVE  HonestIndex'
<1>1. CASE UNCHANGED storeVars
  BY <1>1 DEF HonestIndex, Legacy, storeVars
<1>2. ASSUME NEW n, DeleteCatalogs({Global}, n)
      PROVE  HonestIndex'
  BY <1>2 DEF HonestIndex, Legacy, DeleteCatalogs
<1>3. ASSUME NEW p \in Procs, UpdateDb(p)
      PROVE  HonestIndex'
  <2> DEFINE g   == proc[p]
             new == NewRow([g.cat EXCEPT !.commit = g.commit], g.read)
  <2>1. p = AutoRefresh /\ g.pc = "update" /\ g \in Local
    BY <1>3, LocalFacts DEF Procs, Solo, UpdateDb, At
  <2>2. rows' \subseteq rows \cup {new}
    BY <1>3 DEF UpdateDb, ReplaceCatalog
  <2>3. \A t \in Templates : g.read[t] = IndexOf(g.commit)[t]
    BY <2>1, BoundsAssumption DEF SoloInv, SoloOK, Read, Templates
  <2>4. g.read = IndexOf(g.commit)
    <3>1. g.read \in [Templates -> Unnamed..MaxCommit] /\ g.commit \in 0..MaxCommit
      BY <2>1 DEF Local, Index
    <3>2. IndexOf(g.commit) = [t \in Templates |-> IndexOf(g.commit)[t]]
      BY DEF IndexOf
    <3> HIDE DEF g
    <3> QED
      BY <2>3, <3>1, <3>2
  <2>5. new.index = IndexOf(g.commit) /\ new.cat.commit = g.commit
    BY <2>1, <2>4 DEF NewRow, Local, Cat
  <2> HIDE DEF new, g
  <2> QED
    BY <2>2, <2>5 DEF HonestIndex, Legacy
<1> QED
  BY <1>1, <1>2, <1>3, RowsChange

LEMMA CleanStart == Init /\ CachesClean => SoloInv
<1> SUFFICES ASSUME Init, CachesClean
             PROVE  SoloInv
  OBVIOUS
<1>1. proc[AutoRefresh] = Idle
  BY DEF Init, RefreshInit, Procs
<1>2. Idle.pc = "idle" /\ Idle.at = 1
  BY DEF Idle
<1>3. SoloOK(Idle, dirs)
  BY <1>2, QuietOK DEF CachesClean, Quiet, Labels
<1> QED
  BY <1>1, <1>3 DEF SoloInv

LEMMA SoloInductive ==
  Solo /\ (TypeOK /\ SoloInv /\ HonestIndex) /\ [RefreshNext]_vars
    => (TypeOK /\ SoloInv /\ HonestIndex)'
BY RefreshNextType, SoloNext, HonestStep

\* Started on clean caches, a refresh that is alone in them keeps them so, but
\* for the directory its own git command works in, and what it has read of a
\* commit is the index of that commit.
THEOREM SoloInvariant == Solo => (Spec /\ CachesClean => []SoloInv)
<1> SUFFICES ASSUME Solo
             PROVE  Spec /\ CachesClean => []SoloInv
  OBVIOUS
<1>1. TypeOK /\ SoloInv /\ [RefreshNext]_vars => (TypeOK /\ SoloInv)'
  BY RefreshNextType, SoloNext
<1>2. Init /\ CachesClean => TypeOK /\ SoloInv
  BY InitType, CleanStart
<1> QED
  BY <1>1, <1>2, PTL DEF Spec

\* The templates of a row are those of the commit in its commit column: a
\* refresh that is alone in its caches never records one commit's templates
\* under another.
THEOREM SoloIndexIsHonest ==
  Solo => (Spec /\ CachesClean /\ HonestIndex => []HonestIndex)
<1> SUFFICES ASSUME Solo
             PROVE  Spec /\ CachesClean /\ HonestIndex => []HonestIndex
  OBVIOUS
<1> DEFINE Inv == TypeOK /\ SoloInv /\ HonestIndex
<1>1. Inv /\ [RefreshNext]_vars => Inv'
  BY SoloInductive
<1>2. Init /\ CachesClean /\ HonestIndex => Inv
  BY InitType, CleanStart
<1>3. Inv => HonestIndex
  OBVIOUS
<1> QED
  BY <1>1, <1>2, <1>3, PTL DEF Spec

-----------------------------------------------------------------------------
(* What --validate keeps out of the table.                                 *)

\* A step to a label at which nothing is traversed.
LEMMA StrictEarly ==
  ASSUME TypeOK, NEW x, Become(AutoRefresh, x), x.pc \notin {"traverse", "update"}
  PROVE  StrictInv'
<1>1. proc'[AutoRefresh] = x
  BY DEF Become, TypeOK, RefreshTypeOK, Procs
<1> QED
  BY <1>1 DEF StrictInv, StrictOK

LEMMA StrictGoto ==
  ASSUME TypeOK, NEW label, Goto(AutoRefresh, label), label \notin {"traverse", "update"}
  PROVE  StrictInv'
<1> DEFINE x == [proc[AutoRefresh] EXCEPT !.pc = label]
<1>1. x.pc = label
  BY LocalFacts DEF Procs, Local
<1>2. Become(AutoRefresh, x)
  BY DEF Goto
<1> HIDE DEF x
<1> QED
  BY <1>1, <1>2, StrictEarly

LEMMA StrictReturn ==
  ASSUME TypeOK, NEW failed, Return(AutoRefresh, failed)
  PROVE  StrictInv'
<1> DEFINE x == [Idle EXCEPT !.pc = "next", !.plan = proc[AutoRefresh].plan,
                             !.todo = proc[AutoRefresh].todo,
                             !.failed = proc[AutoRefresh].failed \/ failed]
<1>1. x.pc = "next"
  BY DEF Idle
<1>2. Become(AutoRefresh, x)
  BY DEF Return
<1> HIDE DEF x
<1> QED
  BY <1>1, <1>2, StrictEarly

LEMMA StrictCheckout ==
  ASSUME TypeOK, NEW p, p = AutoRefresh, NEW c, NEW initial \in BOOLEAN,
         NEW label \in Writing, StartCheckout(p, c, initial, label)
  PROVE  StrictInv'
<1>1. CASE Return(p, TRUE)
  BY <1>1, StrictReturn
<1>2. ASSUME NEW at, Become(p, [proc[p] EXCEPT !.pc = label, !.target = c, !.at = at])
      PROVE  StrictInv'
  <2>1. [proc[p] EXCEPT !.pc = label, !.target = c, !.at = at].pc = label
    BY LocalFacts DEF Procs, Local
  <2> QED
    BY <1>2, <2>1, StrictEarly
<1> QED
  BY <1>1, <1>2 DEF StartCheckout

\* The steps that choose a catalog.
LEMMA StrictScope ==
  ASSUME TypeOK, NEW p, p = AutoRefresh,
         \/ ReadConfig(p) \/ FindGlobalCatalogs(p) \/ RemoveCatalogNotInConfig(p)
         \/ RangeConfig(p) \/ LookupCatalogs(p) \/ NextCatalog(p) \/ ScopeDone(p)
         \/ LookupCatalog(p)
  PROVE  StrictInv'
<1> proc[p] \in Local
  BY LocalFacts DEF Procs
<1>1. CASE ReadConfig(p)
  BY <1>1, StrictGoto DEF ReadConfig
<1>2. ASSUME NEW label \in Labels \ {"traverse", "update"}, NEW todo,
             Become(p, [proc[p] EXCEPT !.pc = label, !.todo = todo])
      PROVE  StrictInv'
  <2>1. [proc[p] EXCEPT !.pc = label, !.todo = todo].pc = label
    BY DEF Local
  <2> QED
    BY <1>2, <2>1, StrictEarly
<1>3. CASE FindGlobalCatalogs(p) \/ RangeConfig(p) \/ LookupCatalogs(p)
  BY <1>2, <1>3 DEF FindGlobalCatalogs, RangeConfig, LookupCatalogs, Labels
<1>4. CASE RemoveCatalogNotInConfig(p)
  <2>1. PICK i \in proc[p].todo : Become(p, [proc[p] EXCEPT !.todo = proc[p].todo \ {i}])
    BY <1>4 DEF RemoveCatalogNotInConfig
  <2>2. [proc[p] EXCEPT !.todo = proc[p].todo \ {i}].pc = "prune"
    BY <1>4 DEF RemoveCatalogNotInConfig, At, Local
  <2> QED
    BY <2>1, <2>2, StrictEarly
<1>5. CASE NextCatalog(p)
  <2> DEFINE label == IF Head(proc[p].plan) = Global THEN "lookup" ELSE "prepare"
  <2>1. PICK i \in proc[p].todo :
          Become(p, [proc[p] EXCEPT !.todo = proc[p].todo \ {i},
                                    !.cat = i.cat, !.pc = label])
    BY <1>5 DEF NextCatalog
  <2>2. [proc[p] EXCEPT !.todo = proc[p].todo \ {i},
                        !.cat = i.cat, !.pc = label].pc = label
    BY DEF Local
  <2>3. label \notin {"traverse", "update"}
    OBVIOUS
  <2> HIDE DEF label
  <2> QED
    BY <2>1, <2>2, <2>3, StrictEarly
<1>6. CASE ScopeDone(p)
  <2>1. Idle.pc = "idle"
    BY DEF Idle
  <2>2. [proc[p] EXCEPT !.pc = "scope", !.plan = Tail(proc[p].plan)].pc = "scope"
    BY DEF Local
  <2> QED
    BY <1>6, <2>1, <2>2, StrictEarly DEF ScopeDone
<1>7. CASE LookupCatalog(p)
  <2>1. PICK new : Become(p, [proc[p] EXCEPT !.pc = "prepare", !.cat = new])
    BY <1>7 DEF LookupCatalog
  <2>2. [proc[p] EXCEPT !.pc = "prepare", !.cat = new].pc = "prepare"
    BY DEF Local
  <2> QED
    BY <2>1, <2>2, StrictEarly
<1> QED
  BY <1>1, <1>3, <1>4, <1>5, <1>6, <1>7

\* The steps that bring its directory to the wanted commit.
LEMMA StrictPrepare ==
  ASSUME TypeOK, NEW p, p = AutoRefresh,
         \/ DirEmpty(p) \/ StartClone(p) \/ FetchClone(p)
         \/ PopulateClone(p) \/ PinnedHeadCommit(p) \/ CheckoutCommit(p)
         \/ RemoteShaChanged(p) \/ UpdateFetch(p) \/ UpdateCheckout(p)
         \/ WriteTree(p) \/ CheckoutDone(p) \/ HeadCommit(p)
  PROVE  StrictInv'
<1> proc[p] \in Local
  BY LocalFacts DEF Procs
<1>1. CASE DirEmpty(p)
  BY <1>1, StrictGoto, StrictReturn DEF DirEmpty
<1>2. CASE StartClone(p) \/ UpdateFetch(p)
  BY <1>2, StrictGoto, StrictReturn DEF StartClone, UpdateFetch
<1>3. CASE FetchClone(p)
  <2>1. PICK c : Become(p, [proc[p] EXCEPT !.pc = "cloneLock", !.target = c])
    BY <1>3 DEF FetchClone
  <2>2. [proc[p] EXCEPT !.pc = "cloneLock", !.target = c].pc = "cloneLock"
    BY DEF Local
  <2> QED
    BY <2>1, <2>2, StrictEarly
<1>4. CASE PopulateClone(p) \/ CheckoutCommit(p) \/ UpdateCheckout(p)
  BY <1>4, StrictCheckout DEF PopulateClone, CheckoutCommit, UpdateCheckout
<1>5. CASE PinnedHeadCommit(p)
  BY <1>5, StrictGoto, StrictReturn DEF PinnedHeadCommit
<1>6. CASE RemoteShaChanged(p)
  BY <1>6, StrictGoto DEF RemoteShaChanged
<1>7. CASE WriteTree(p)
  <2>1. [proc[p] EXCEPT !.at = proc[p].at + 1].pc \in Writing
    BY <1>7 DEF WriteTree, Local
  <2> QED
    BY <1>7, <2>1, StrictEarly DEF WriteTree
<1>8. CASE CheckoutDone(p)
  <2> DEFINE label == IF At(p, "cloneWrite") /\ proc[p].cat.pin # NoPin
                      THEN "pinLock" ELSE "head"
  <2>1. [proc[p] EXCEPT !.at = 1, !.target = 0, !.pc = label].pc = label
    BY DEF Local
  <2>2. label \notin {"traverse", "update"}
    OBVIOUS
  <2>3. Become(p, [proc[p] EXCEPT !.at = 1, !.target = 0, !.pc = label])
    BY <1>8 DEF CheckoutDone
  <2> HIDE DEF label
  <2> QED
    BY <2>1, <2>2, <2>3, StrictEarly
<1>9. CASE HeadCommit(p)
  <2>1. ASSUME NEW c, Become(p, [proc[p] EXCEPT !.pc = "compare", !.commit = c])
        PROVE  StrictInv'
    <3>1. [proc[p] EXCEPT !.pc = "compare", !.commit = c].pc = "compare"
      BY DEF Local
    <3> QED
      BY <2>1, <3>1, StrictEarly
  <2> QED
    BY <1>9, <2>1, StrictReturn DEF HeadCommit
<1> QED
  BY <1>1, <1>2, <1>3, <1>4, <1>5, <1>6, <1>7, <1>8, <1>9

\* The traversal: the working tree is that of the commit, so that an error met
\* in the one is an error of the other.
LEMMA StrictIndex ==
  ASSUME TypeOK, SoloInv, StrictInv, NEW p, p = AutoRefresh,
         Compare(p) \/ TraverseTemplate(p) \/ TraverseDone(p) \/ UpdateDb(p)
  PROVE  StrictInv'
<1> p \in Procs /\ proc[p] \in Local /\ D(p) \in DirKeys /\ dirs[D(p)] \in Dir
  BY LocalFacts DEF Procs
<1> DEFINE g == proc[p]
           w == dirs[D(p)]
<1>1. ASSUME NEW x, Become(p, x), StrictOK(x)
      PROVE  StrictInv'
  <2>1. proc'[p] = x
    BY <1>1 DEF Become, TypeOK, RefreshTypeOK
  <2> QED
    BY <1>1, <2>1 DEF StrictInv, StrictOK
<1>2. CASE Compare(p)
  <2> DEFINE x == [proc[p] EXCEPT !.pc = "traverse"]
  <2>1. CASE Return(p, FALSE)
    BY <2>1, StrictReturn
  <2>2. CASE Become(p, x)
    <3>1. x.pc = "traverse" /\ x.at = 1
      BY <1>2 DEF Compare, At, SoloInv, SoloOK, Local
    <3>2. StrictOK(x)
      <4> HIDE DEF x
      <4> QED
        BY <3>1, BoundsAssumption DEF StrictOK, Templates
    <3> HIDE DEF x
    <3> QED
      BY <1>1, <2>2, <3>2
  <2> QED
    BY <1>2, <2>1, <2>2 DEF Compare, Goto
<1>3. CASE TraverseTemplate(p)
  <2> DEFINE t == g.at
             broken == <<t, w.tree[t]>> \in Broken
  <2>1. g.pc = "traverse" /\ t \in Templates
    BY <1>3 DEF TraverseTemplate, At, Local, Templates
  <2>2. w.tree = Content(g.commit)
    BY <2>1, CleanBetween DEF SoloInv, SoloOK, D, CachesClean, Clean
  <2>3. PICK read :
          Become(p, [proc[p] EXCEPT !.at = t + 1, !.read = read,
                                    !.errs = proc[p].errs \/ broken])
    BY <1>3 DEF TraverseTemplate
  <2> DEFINE x == [proc[p] EXCEPT !.at = t + 1, !.read = read,
                                  !.errs = proc[p].errs \/ broken]
  <2>4. /\ x.pc = "traverse" /\ x.at = t + 1 /\ x.commit = g.commit
        /\ ~x.errs => ~g.errs /\ ~broken
    <3> HIDE DEF broken
    <3> QED
      BY <2>1 DEF Local
  <2>5. Become(p, x)
    BY <2>3
  <2>6. \A u \in Templates : u < t + 1 => u = t \/ u < t
    BY <2>1 DEF Templates
  <2> HIDE DEF x
  <2>7. StrictOK(x)
    <3> SUFFICES ASSUME ~x.errs, NEW u \in Templates, u < t + 1
                 PROVE  <<u, Content(g.commit)[u]>> \notin Broken
      BY <2>4 DEF StrictOK
    <3>1. CASE u = t
      BY <2>2, <2>4, <3>1
    <3>2. CASE u < t
      BY <2>1, <2>4, <3>2 DEF StrictInv, StrictOK
    <3> QED
      BY <2>6, <3>1, <3>2
  <2> QED
    BY <1>1, <2>5, <2>7
<1>4. CASE TraverseDone(p)
  <2> DEFINE x == [proc[p] EXCEPT !.pc = "update"]
  <2>1. CASE Return(p, TRUE)
    BY <2>1, StrictReturn
  <2>2. CASE Become(p, x) /\ ~(Strict /\ g.errs)
    <3>1. /\ x.pc = "update" /\ x.at = g.at /\ x.commit = g.commit /\ x.errs = g.errs
          /\ g.pc = "traverse"
      BY <1>4 DEF TraverseDone, At, Local
    <3> HIDE DEF x
    <3>2. StrictOK(x)
      BY <2>2, <3>1 DEF StrictInv, StrictOK
    <3> QED
      BY <1>1, <2>2, <3>2
  <2> QED
    BY <1>4, <2>1, <2>2 DEF TraverseDone, Goto
<1>5. CASE UpdateDb(p)
  BY <1>5, StrictReturn DEF UpdateDb
<1> QED
  BY <1>2, <1>3, <1>4, <1>5

LEMMA StrictNext ==
  ASSUME Solo, TypeOK, SoloInv, StrictInv, [RefreshNext]_vars
  PROVE  StrictInv'
<1> AutoRefresh \in Procs /\ proc[AutoRefresh] \in Local
  BY LocalFacts DEF Procs
<1>1. CASE AutoTick
  <2>1. PICK plan : Become(AutoRefresh, [proc[AutoRefresh] EXCEPT !.pc = "scope", !.plan = plan])
    BY <1>1 DEF AutoTick
  <2>2. [proc[AutoRefresh] EXCEPT !.pc = "scope", !.plan = plan].pc = "scope"
    BY DEF Local
  <2> QED
    BY <2>1, <2>2, StrictEarly
<1>2. CASE \E h \in Handlers, e \in AllEnvs : RefreshTemplates(h, e)
  BY <1>2 DEF Solo
<1>3. ASSUME NEW p \in Procs, Proceed(p) \/ Fault(p)
      PROVE  StrictInv'
  <2>1. p = AutoRefresh
    BY DEF Procs, Solo
  <2>2. CASE Proceed(p)
    BY <2>1, <2>2, StrictScope, StrictPrepare, StrictIndex DEF Proceed
  <2>3. CASE Fault(p)
    <3>1. \/ Return(p, TRUE) \/ Become(p, Idle)
          \/ Goto(p, "prune") \/ Goto(p, "prepare")
      BY <2>3 DEF Fault, GiveUp
    <3>2. Idle.pc = "idle"
      BY DEF Idle
    <3> QED
      BY <2>1, <3>1, <3>2, StrictReturn, StrictEarly, StrictGoto
  <2> QED
    BY <1>3, <2>2, <2>3
<1>4. CASE EditConfig \/ PushBranch \/ UNCHANGED vars
  <2>1. UNCHANGED proc
    BY <1>4 DEF EditConfig, PushBranch, vars, refreshVars
  <2> QED
    BY <2>1 DEF StrictInv, StrictOK
<1>5. CASE Crash
  BY <1>5 DEF Crash, StrictInv, StrictOK, Idle
<1> QED
  BY <1>1, <1>2, <1>3, <1>4, <1>5 DEF RefreshNext, RefreshStep

LEMMA StrictStep ==
  ASSUME Solo, RefreshInv, SoloInv, StrictInv, [RefreshNext]_vars, Strict
  PROVE  \A r \in rows' : r.id >= nextId => Parses(r.cat.commit)
<1> SUFFICES ASSUME NEW r \in rows', r.id >= nextId
             PROVE  Parses(r.cat.commit)
  OBVIOUS
<1> USE DEF RefreshInv
<1>1. r \notin rows
  BY DEF IdsFresh, TypeOK, StoreTypeOK, Row
<1>2. PICK p \in Procs : UpdateDb(p)
  BY <1>1, RowsChange DEF storeVars, DeleteCatalogs
<1>3. p = AutoRefresh /\ proc[p].pc = "update"
  BY <1>2 DEF Procs, Solo, UpdateDb, At
<1>4. r.cat.commit = proc[p].commit
  BY <1>2, ReplacedRow, LocalFacts DEF Cat
<1>5. proc[p].at = NumTemplates + 1
  BY <1>3 DEF SoloInv, SoloOK
<1>6. \A t \in Templates : <<t, Content(proc[p].commit)[t]>> \notin Broken
  BY <1>3, <1>5, BoundsAssumption DEF StrictInv, StrictOK, Templates
<1> QED
  BY <1>4, <1>6 DEF Parses

\* A --validate run started on clean caches writes no catalog that has a
\* template that does not parse.
THEOREM StrictRefreshKeepsOut == Solo => (Spec /\ CachesClean => StrictKeepsOut)
<1> SUFFICES ASSUME Solo
             PROVE  Spec /\ CachesClean => StrictKeepsOut
  OBVIOUS
<1> DEFINE Inv == RefreshInv /\ SoloInv /\ StrictInv
           Kept == Strict => \A r \in rows' : r.id >= nextId => Parses(r.cat.commit)
<1>1. Inv /\ [RefreshNext]_vars => Inv'
  BY NextInv, SoloNext, StrictNext DEF RefreshInv
<1>2. Init /\ CachesClean => Inv
  <2>1. Init => StrictInv
    BY DEF Init, RefreshInit, Procs, StrictInv, StrictOK, Idle
  <2> QED
    BY <2>1, InitInv, CleanStart
<1>3. Inv /\ [RefreshNext]_vars => [Kept]_vars
  BY StrictStep
<1> HIDE DEF Inv, Kept
<1>4. Spec /\ CachesClean => [][Kept]_vars
  BY <1>1, <1>2, <1>3, PTL DEF Spec
<1> QED
  BY <1>4 DEF StrictKeepsOut, Kept

-----------------------------------------------------------------------------
(* The service.                                                            *)

(* The invariant.                                                          *)
LEMMA ServiceIsApi == ServiceInv => ApiInv
BY DEF ServiceInv, RefreshInv, TypeOK, ApiInv

LEMMA ServiceNextInv == ServiceInv /\ [ServiceNext]_serviceVars => ServiceInv'
<1> SUFFICES ASSUME ServiceInv, [ServiceNext]_serviceVars
             PROVE  ServiceInv'
  OBVIOUS
<1> USE DEF ServiceInv
<1>1. CASE RefreshStep /\ UNCHANGED apiVars
  <2>1. RefreshInv'
    BY <1>1, NextInv DEF RefreshNext
  <2> QED
    BY <1>1, <2>1 DEF apiVars, ApiTypeOK, CreatesNamed
<1>2. CASE ServiceCrash
  <2>1. RefreshInv'
    BY <1>2, NextInv DEF RefreshNext, ServiceCrash
  <2>2. ApiTypeOK'
    BY <1>2, NoCallType DEF ServiceCrash, ApiTypeOK
  <2>3. CreatesNamed'
    BY <1>2 DEF ServiceCrash, CreatesNamed, NoCall
  <2> QED
    BY <2>1, <2>2, <2>3
<1>3. CASE ApiNext /\ UNCHANGED <<gitVars, refreshVars>>
  <2>1. GitTypeOK' /\ RefreshTypeOK' /\ PinPrepared'
    BY <1>3 DEF RefreshInv, TypeOK, GitTypeOK, RefreshTypeOK, PinPrepared,
                gitVars, refreshVars
  <2> QED
    BY <1>3, <2>1, ServiceIsApi, ApiKeepsStore, ApiStepType DEF RefreshInv, TypeOK
<1>4. CASE UNCHANGED serviceVars
  <2>1. RefreshInv'
    BY <1>4, NextInv DEF serviceVars
  <2> QED
    BY <1>4, <2>1 DEF serviceVars, apiVars, ApiTypeOK, CreatesNamed
<1> QED
  BY <1>1, <1>2, <1>3, <1>4 DEF ServiceNext

LEMMA ServiceInitInv == ServiceInit => ServiceInv
<1> SUFFICES ASSUME ServiceInit
             PROVE  ServiceInv
  OBVIOUS
<1>1. RefreshInv
  BY InitInv DEF ServiceInit
<1>2. ApiTypeOK
  BY NoCallType, ApiAssumption DEF ServiceInit, ApiInit, ApiTypeOK
<1>3. CreatesNamed
  BY DEF ServiceInit, ApiInit, CreatesNamed, NoCall
<1> QED
  BY <1>1, <1>2, <1>3 DEF ServiceInv

\* Requests and refreshes together keep the types, the freshness of primary
\* keys and the pins of the catalogs being indexed.
THEOREM ServiceInvariant == ServiceSpec => []ServiceInv
BY ServiceInitInv, ServiceNextInv, PTL DEF ServiceSpec

-----------------------------------------------------------------------------
(* Pins and honest indexes.                                                *)

LEMMA ServiceSteps ==
  ASSUME [ServiceNext]_serviceVars
  PROVE  \/ [RefreshNext]_vars
         \/ ApiNext /\ UNCHANGED <<gitVars, refreshVars>>
<1>1. CASE RefreshStep
  BY <1>1 DEF RefreshNext
<1>2. CASE ServiceCrash
  BY <1>2 DEF ServiceCrash, RefreshNext
<1>3. CASE UNCHANGED serviceVars
  <2>1. UNCHANGED vars
    BY <1>3 DEF serviceVars
  <2> QED
    BY <2>1
<1> QED
  BY <1>1, <1>2, <1>3 DEF ServiceNext

\* A request creates a row without a commit and gives no other a new key.
LEMMA ServicePinStep ==
  ServiceInv /\ [ServiceNext]_serviceVars => [IndexesAtPin]_vars
<1> SUFFICES ASSUME ServiceInv, [ServiceNext]_serviceVars
             PROVE  [IndexesAtPin]_vars
  OBVIOUS
<1>1. RefreshInv /\ StoreTypeOK /\ IdsFresh
  BY DEF ServiceInv, RefreshInv, TypeOK
<1>2. CASE [RefreshNext]_vars
  BY <1>1, <1>2, PinStep
<1>3. CASE ApiNext
  <2>1. ASSUME NEW r \in rows', NEW q \in rows, r.id = q.id
        PROVE  ~(r.id >= nextId)
    BY <1>1, <2>1 DEF IdsFresh, StoreTypeOK, Row
  <2>2. CASE UNCHANGED storeVars
    BY <2>1, <2>2 DEF IndexesAtPin, storeVars
  <2>3. ASSUME NEW cat \in Cat, cat.commit = NoCommit, CreateCatalog(cat)
        PROVE  IndexesAtPin
    BY <1>1, <2>1, <2>3, InsertStore DEF IndexesAtPin
  <2>4. ASSUME NEW e, NEW n, NEW new \in Body, UpdateCatalogs(e, n, new)
        PROVE  IndexesAtPin
    BY <1>1, <2>1, <2>4, EditStore DEF IndexesAtPin
  <2>5. ASSUME NEW envs, NEW n, DeleteCatalogs(envs, n)
        PROVE  IndexesAtPin
    BY <2>1, <2>5 DEF IndexesAtPin, DeleteCatalogs
  <2> QED
    BY <1>3, <2>2, <2>3, <2>4, <2>5, ServiceIsApi, ApiRows
<1> QED
  BY <1>2, <1>3, ServiceSteps

\* Whatever requests change meanwhile, a catalog that is pinned when it is
\* written is written at its pin.
THEOREM ServicePinsHold == ServiceSpec => PinHolds
BY ServicePinStep, ServiceInvariant, PTL DEF ServiceSpec, PinHolds

LEMMA ServiceSoloStep ==
  ASSUME Solo, ServiceInv, SoloInv, HonestIndex, [ServiceNext]_serviceVars
  PROVE  SoloInv' /\ HonestIndex'
<1>1. TypeOK /\ StoreTypeOK /\ IdsFresh
  BY DEF ServiceInv, RefreshInv, TypeOK
<1>2. CASE [RefreshNext]_vars
  BY <1>1, <1>2, SoloNext, HonestStep
<1>3. CASE ApiNext /\ UNCHANGED <<gitVars, refreshVars>>
  <2>1. SoloInv'
    BY <1>3 DEF SoloInv, gitVars, refreshVars
  <2>2. CASE UNCHANGED storeVars
    BY <2>1, <2>2 DEF HonestIndex, Legacy, storeVars
  <2>3. ASSUME NEW cat \in Cat, cat.commit = NoCommit, CreateCatalog(cat)
        PROVE  SoloInv' /\ HonestIndex'
    BY <1>1, <2>1, <2>3, InsertStore DEF HonestIndex, Legacy
  <2>4. ASSUME NEW e, NEW n, NEW new \in Body, UpdateCatalogs(e, n, new)
        PROVE  SoloInv' /\ HonestIndex'
    BY <1>1, <2>1, <2>4, EditStore DEF HonestIndex, Legacy
  <2>5. ASSUME NEW envs, NEW n, DeleteCatalogs(envs, n)
        PROVE  SoloInv' /\ HonestIndex'
    BY <2>1, <2>5 DEF HonestIndex, Legacy, DeleteCatalogs
  <2> QED
    BY <1>3, <2>1, <2>2, <2>3, <2>4, <2>5, ServiceIsApi, ApiRows
<1> QED
  BY <1>2, <1>3, ServiceSteps

\* Beside any number of requests, a refresh alone in its caches never records
\* one commit's templates under another.
THEOREM ServiceIndexIsHonest ==
  Solo => (ServiceSpec /\ CachesClean /\ HonestIndex => []HonestIndex)
<1> SUFFICES ASSUME Solo
             PROVE  ServiceSpec /\ CachesClean /\ HonestIndex => []HonestIndex
  OBVIOUS
<1> DEFINE Inv == ServiceInv /\ SoloInv /\ HonestIndex
<1>1. Inv /\ [ServiceNext]_serviceVars => Inv'
  BY ServiceNextInv, ServiceSoloStep
<1>2. ServiceInit /\ CachesClean /\ HonestIndex => Inv
  BY ServiceInitInv, CleanStart DEF ServiceInit
<1>3. Inv => HonestIndex
  OBVIOUS
<1> QED
  BY <1>1, <1>2, <1>3, PTL DEF ServiceSpec

-----------------------------------------------------------------------------
(* The table as the service's readers see it.  A refresh that is alone in  *)
(* its caches implements CatalogView: every step of it is one of the       *)
(* abstract table's or none that a reader can see.                         *)

USE DEF Indexing, Writing, Cloning

\* Labels at which no catalog has been chosen.
Free == {"idle", "scope", "find", "prune", "next"}

Held == ViewOK(proc[AutoRefresh], dirs)

LEMMA RowCat ==
  ASSUME TypeOK, NEW r \in rows
  PROVE  /\ r.cat \in Cat /\ r \in Row
         /\ DirOf(r.cat) \in DirKeys
         /\ DirOf(r.cat)[2] = r.cat.src /\ DirOf(r.cat)[3] = r.cat.pin
         /\ dirs[DirOf(r.cat)] \in Dir
         /\ r.cat.commit \in Nat /\ r.cat.pin \in Nat
         /\ remote[r.cat.src] \in Nat
<1>1. r \in Row /\ r.cat \in Cat
  BY DEF TypeOK, StoreTypeOK, Row
<1>2. DirOf(r.cat) \in DirKeys
  BY <1>1, DirOfIsKey
<1>3. r.cat.src \in Sources /\ remote \in [Sources -> Commits] /\ dirs \in [DirKeys -> Dir]
  BY <1>1 DEF Cat, TypeOK, GitTypeOK
<1>4. r.cat.commit \in 0..MaxCommit /\ r.cat.pin \in 0..MaxCommit
  BY <1>1 DEF Cat
<1> QED
  BY <1>1, <1>2, <1>3, <1>4, BoundsAssumption DEF DirOf, Commits

-----------------------------------------------------------------------------
(* No row and no working copy gets ahead.                                  *)

\* A step inside one directory.
LEMMA AheadInDir ==
  ASSUME TypeOK, NothingAhead, NEW d \in DirKeys, NEW w,
         dirs' = [dirs EXCEPT ![d] = w], UNCHANGED <<rows, remote>>,
         d[3] = NoPin =>
           /\ w.head <= remote[d[2]] /\ w.ref <= remote[d[2]]
           /\ w.head # NoCommit =>
                \A r \in rows : DirOf(r.cat) = d => r.cat.commit <= w.head
  PROVE  NothingAhead'
<1>1. dirs \in [DirKeys -> Dir]
  BY DEF TypeOK, GitTypeOK
<1>2. \A k \in DirKeys : dirs'[k] = IF k = d THEN w ELSE dirs[k]
  BY <1>1
<1>3. ASSUME NEW k \in DirKeys
      PROVE  CopyBehind(k)'
  BY <1>2, <1>3 DEF CopyBehind, NothingAhead
<1>4. ASSUME NEW r \in rows
      PROVE  RowBehind(r)'
  <2>1. RowBehind(r) /\ DirOf(r.cat) \in DirKeys /\ DirOf(r.cat)[3] = r.cat.pin
    BY <1>4, RowCat DEF NothingAhead
  <2>2. CASE DirOf(r.cat) = d
    BY <1>2, <1>4, <2>1, <2>2 DEF RowBehind
  <2>3. CASE DirOf(r.cat) # d
    BY <1>2, <2>1, <2>3 DEF RowBehind
  <2> QED
    BY <2>2, <2>3
<1> QED
  BY <1>3, <1>4 DEF NothingAhead

LEMMA AheadElsewhere ==
  ASSUME NothingAhead, UNCHANGED <<dirs, remote>>, rows' \subseteq rows
  PROVE  NothingAhead'
BY DEF NothingAhead, CopyBehind, RowBehind

LEMMA AheadPush ==
  ASSUME TypeOK, NothingAhead, ~Rewinds, PushBranch
  PROVE  NothingAhead'
<1>1. PICK s \in Sources, c \in Commits : Push(s, c)
  BY DEF PushBranch
<1>2. remote' = [remote EXCEPT ![s] = c] /\ c > remote[s] /\ UNCHANGED <<rows, dirs>>
  BY <1>1 DEF Push, PushBranch, storeVars
<1>3. remote \in [Sources -> Commits] /\ dirs \in [DirKeys -> Dir]
  BY DEF TypeOK, GitTypeOK
<1>4. \A u \in Sources : remote'[u] \in Nat /\ remote[u] \in Nat /\ remote[u] <= remote'[u]
  BY <1>2, <1>3, BoundsAssumption DEF Commits
<1>5. ASSUME NEW k \in DirKeys
      PROVE  CopyBehind(k)'
  <2>1. k[2] \in Sources /\ dirs[k].head \in 0..MaxCommit /\ dirs[k].ref \in 0..MaxCommit
    BY <1>3 DEF DirKeys, Dir
  <2> QED
    BY <1>2, <1>4, <2>1, BoundsAssumption DEF CopyBehind, NothingAhead
<1>6. ASSUME NEW r \in rows
      PROVE  RowBehind(r)'
  <2>1. r.cat.src \in Sources /\ r.cat.commit \in Nat
    BY RowCat DEF Cat
  <2> QED
    BY <1>2, <1>4, <2>1 DEF RowBehind, NothingAhead
<1> QED
  BY <1>2, <1>5, <1>6 DEF NothingAhead

\* The commands of a clone and an update.
LEMMA AheadGit ==
  ASSUME TypeOK, ViewInv, NEW p, p = AutoRefresh,
         \/ StartClone(p) \/ FetchClone(p) \/ PopulateClone(p) \/ CheckoutCommit(p)
         \/ UpdateFetch(p) \/ UpdateCheckout(p) \/ WriteTree(p) \/ CheckoutDone(p)
  PROVE  NothingAhead'
<1> DEFINE d == D(p)
           w == dirs[d]
           c == remote[d[2]]
<1>a. p \in Procs /\ proc[p] \in Local /\ d \in DirKeys /\ w \in Dir
  BY LocalFacts DEF Procs
<1>b. UNCHANGED rows /\ NothingAhead
  BY DEF StartClone, FetchClone, PopulateClone, CheckoutCommit, UpdateFetch,
         UpdateCheckout, WriteTree, CheckoutDone, storeVars, ViewInv
<1>c. c \in Nat /\ w.head \in Nat /\ w.ref \in Nat
  BY <1>a, FetchedType, BoundsAssumption DEF Dir, TypeOK, Commits
<1>d. d[3] = NoPin =>
        /\ w.head <= c /\ w.ref <= c
        /\ \A r \in rows : DirOf(r.cat) = d =>
             /\ r.cat.commit <= c
             /\ w.head # NoCommit => r.cat.commit <= w.head
  BY <1>a, <1>b, RowCat DEF NothingAhead, CopyBehind, RowBehind
<1>e. d = DirOf(proc[p].cat)
  BY DEF D
<1>1. ASSUME UNCHANGED gitVars
      PROVE  NothingAhead'
  BY <1>b, <1>1, AheadElsewhere DEF gitVars
<1>2. ASSUME NEW x, dirs' = [dirs EXCEPT ![d] = x], UNCHANGED remote,
             x.head = w.head, x.ref = w.ref
      PROVE  NothingAhead'
  <2> HIDE DEF d, w, c
  <2> QED
    BY <1>a, <1>b, <1>d, <1>2, AheadInDir DEF c
<1>3. CASE FetchClone(p)
  <2> DEFINE x == [w EXCEPT !.head = c, !.ref = c, !.objs = w.objs \cup 1..c]
  <2>1. dirs' = [dirs EXCEPT ![d] = x] /\ UNCHANGED remote
    BY <1>3 DEF FetchClone, CloneFetch
  <2>2. x.head = c /\ x.ref = c
    BY <1>a DEF Dir
  <2> HIDE DEF d, w, x, c
  <2>3. d[3] = NoPin =>
          /\ x.head <= c /\ x.ref <= c
          /\ x.head # NoCommit => \A r \in rows : DirOf(r.cat) = d => r.cat.commit <= x.head
    BY <1>c, <1>d, <2>2
  <2> QED
    BY <1>a, <1>b, <2>1, <2>3, AheadInDir DEF c
<1>4. CASE UpdateFetch(p) /\ Fetch(d)
  <2> DEFINE x == [w EXCEPT !.ref = c, !.objs = w.objs \cup 1..c]
  <2>1. dirs' = [dirs EXCEPT ![d] = x] /\ UNCHANGED remote
    BY <1>4 DEF Fetch
  <2>2. x.head = w.head /\ x.ref = c
    BY <1>a DEF Dir
  <2> HIDE DEF d, w, x, c
  <2>3. d[3] = NoPin =>
          /\ x.head <= c /\ x.ref <= c
          /\ x.head # NoCommit => \A r \in rows : DirOf(r.cat) = d => r.cat.commit <= x.head
    BY <1>c, <1>d, <2>2
  <2> QED
    BY <1>a, <1>b, <2>1, <2>3, AheadInDir DEF c
<1>5. CASE StartClone(p)
  <2>1. CASE CloneInit(d)
    <3>1. [w EXCEPT !.exists = TRUE].head = w.head /\ [w EXCEPT !.exists = TRUE].ref = w.ref
      BY <1>a DEF Dir
    <3> QED
      BY <1>2, <2>1, <3>1 DEF CloneInit
  <2> QED
    BY <1>1, <1>5, <2>1 DEF StartClone
<1>6. CASE PopulateClone(p) \/ CheckoutCommit(p) \/ UpdateCheckout(p)
  <2>1. Lock(d) \/ UNCHANGED gitVars
    BY <1>6 DEF PopulateClone, CheckoutCommit, UpdateCheckout, StartCheckout
  <2>2. [w EXCEPT !.locked = TRUE].head = w.head /\ [w EXCEPT !.locked = TRUE].ref = w.ref
    BY <1>a DEF Dir
  <2> QED
    BY <1>1, <1>2, <2>1, <2>2 DEF Lock
<1>7. CASE WriteTree(p)
  <2>1. PICK tree : dirs' = [dirs EXCEPT ![d] = [w EXCEPT !.tree = tree]] /\ UNCHANGED remote
    BY <1>7 DEF WriteTree, WriteTemplate
  <2>2. [w EXCEPT !.tree = tree].head = w.head /\ [w EXCEPT !.tree = tree].ref = w.ref
    BY <1>a DEF Dir
  <2> QED
    BY <1>2, <2>1, <2>2
<1>8. CASE CheckoutDone(p)
  <2>1. CASE Unlock(d)
    <3>1. [w EXCEPT !.locked = FALSE].head = w.head /\ [w EXCEPT !.locked = FALSE].ref = w.ref
      BY <1>a DEF Dir
    <3> QED
      BY <1>2, <2>1, <3>1 DEF Unlock
  <2>2. CASE MoveHead(d, proc[p].target)
    <3> DEFINE x == [w EXCEPT !.head = proc[p].target, !.locked = FALSE]
    <3>1. dirs' = [dirs EXCEPT ![d] = x] /\ UNCHANGED remote
      BY <2>2 DEF MoveHead
    <3>2. x.head = proc[p].target /\ x.ref = w.ref
      BY <1>a DEF Dir
    <3>3. Forward(d, proc[p].target)
      BY <1>8 DEF CheckoutDone, ViewInv, ViewOK, D
    <3> HIDE DEF d, w, x, c
    <3> QED
      BY <1>a, <1>b, <1>d, <3>1, <3>2, <3>3, AheadInDir DEF Forward, c
  <2> QED
    BY <1>8, <2>1, <2>2 DEF CheckoutDone
<1>9. CASE UpdateFetch(p) /\ ~Fetch(d)
  BY <1>1, <1>9 DEF UpdateFetch
<1> QED
  BY <1>3, <1>4, <1>5, <1>6, <1>7, <1>8, <1>9

\* The row that updateDb writes is at the HEAD of its directory, or at its pin.
LEMMA AheadUpdate ==
  ASSUME TypeOK, PinPrepared, ViewInv, NEW p, p = AutoRefresh, UpdateDb(p)
  PROVE  NothingAhead'
<1> DEFINE g   == proc[p]
           w   == dirs[D(p)]
           new == NewRow([g.cat EXCEPT !.commit = g.commit], g.read)
<1>1. p \in Procs /\ g \in Local /\ g.pc = "update" /\ D(p) \in DirKeys
  BY LocalFacts DEF Procs, UpdateDb, At
<1>2. w.head = g.commit /\ g.commit # NoCommit
  BY <1>1 DEF ViewInv, SoloInv, SoloOK, D
<1>3. g.cat.pin # NoPin => g.commit = g.cat.pin
  BY <1>1 DEF PinPrepared
<1>4. rows' \subseteq rows \cup {new} /\ UNCHANGED <<dirs, remote>>
  BY DEF UpdateDb, ReplaceCatalog, gitVars
<1>5. /\ new.cat.commit = g.commit /\ new.cat.src = g.cat.src /\ new.cat.pin = g.cat.pin
      /\ DirOf(new.cat) = D(p)
  BY <1>1 DEF NewRow, Local, Cat, DirOf, D
<1>6. NothingAhead /\ g.commit \in Nat /\ D(p)[2] = g.cat.src /\ D(p)[3] = g.cat.pin
  BY <1>1, BoundsAssumption DEF ViewInv, Local, D, DirOf
<1>7. g.cat.pin = NoPin => g.commit <= remote[g.cat.src]
  BY <1>1, <1>2, <1>6 DEF NothingAhead, CopyBehind
<1> HIDE DEF new, g
<1>8. new.cat.pin # NoPin => new.cat.commit <= new.cat.pin
  BY <1>3, <1>5, <1>6
<1>9. new.cat.pin = NoPin => /\ new.cat.commit <= remote[new.cat.src]
                             /\ new.cat.commit <= dirs[DirOf(new.cat)].head
  BY <1>2, <1>5, <1>6, <1>7
<1>10. \A r \in rows' : r \in rows \/ r = new
  BY <1>4
<1> QED
  BY <1>4, <1>6, <1>8, <1>9, <1>10 DEF NothingAhead, CopyBehind, RowBehind

LEMMA AheadNext ==
  ASSUME Solo, ~Rewinds, TypeOK, PinPrepared, ViewInv, [RefreshNext]_vars
  PROVE  NothingAhead'
<1> NothingAhead
  BY DEF ViewInv
<1>1. CASE UNCHANGED <<rows, dirs, remote>>
  BY <1>1, AheadElsewhere
<1>2. CASE PushBranch
  BY <1>2, AheadPush
<1>3. ASSUME NEW p \in Procs, Proceed(p)
      PROVE  NothingAhead'
  <2>1. p = AutoRefresh
    BY DEF Procs, Solo
  <2>2. CASE UpdateDb(p)
    BY <2>1, <2>2, AheadUpdate
  <2>3. CASE \/ StartClone(p) \/ FetchClone(p) \/ PopulateClone(p) \/ CheckoutCommit(p)
             \/ UpdateFetch(p) \/ UpdateCheckout(p) \/ WriteTree(p) \/ CheckoutDone(p)
    BY <2>1, <2>3, AheadGit
  <2>4. CASE RemoveCatalogNotInConfig(p)
    BY <2>4, AheadElsewhere DEF RemoveCatalogNotInConfig, DeleteCatalogs, storeVars, gitVars
  <2>5. CASE \/ ReadConfig(p) \/ FindGlobalCatalogs(p) \/ RangeConfig(p)
             \/ LookupCatalogs(p) \/ NextCatalog(p) \/ ScopeDone(p) \/ LookupCatalog(p)
             \/ DirEmpty(p) \/ PinnedHeadCommit(p) \/ RemoteShaChanged(p)
             \/ HeadCommit(p) \/ Compare(p) \/ TraverseTemplate(p) \/ TraverseDone(p)
    BY <1>1, <2>5 DEF ReadConfig, FindGlobalCatalogs, RangeConfig, LookupCatalogs,
      NextCatalog, ScopeDone, LookupCatalog, DirEmpty, PinnedHeadCommit,
      RemoteShaChanged, HeadCommit, Compare, TraverseTemplate, TraverseDone,
      storeVars, gitVars
  <2> QED
    BY <1>3, <2>2, <2>3, <2>4, <2>5 DEF Proceed
<1>4. ASSUME NEW p \in Procs, Fault(p)
      PROVE  NothingAhead'
  <2>1. D(p) \in DirKeys /\ UNCHANGED rows
    BY <1>4, LocalFacts DEF Fault, storeVars
  <2>2. CASE UNCHANGED gitVars
    BY <1>1, <2>1, <2>2 DEF gitVars
  <2>3. CASE CloneAbort(D(p))
    <3>1. remote[D(p)[2]] \in Nat
      BY <2>1, FetchedType, BoundsAssumption DEF TypeOK
    <3>2. EmptyDir.head = NoCommit /\ EmptyDir.ref = NoCommit
      BY DEF EmptyDir, NoCommit
    <3>3. NoCommit <= remote[D(p)[2]]
      BY <3>1 DEF NoCommit
    <3> QED
      BY <2>1, <2>3, <3>2, <3>3, AheadInDir DEF CloneAbort
  <2> QED
    BY <1>4, <2>2, <2>3 DEF Fault, GiveUp, Solo
<1>5. CASE \/ AutoTick \/ EditConfig \/ Crash \/ UNCHANGED vars
           \/ \E h \in Handlers, e \in AllEnvs : RefreshTemplates(h, e)
  BY <1>1, <1>5 DEF AutoTick, EditConfig, Crash, RefreshTemplates, vars, storeVars, gitVars
<1> QED
  BY <1>2, <1>3, <1>4, <1>5 DEF RefreshNext, RefreshStep

-----------------------------------------------------------------------------
(* What the refresh holds is neither ahead nor gone.                       *)

\* What a goroutine becomes, in directories ds, by a step that leaves the rows
\* and the branches alone.
LEMMA HeldStep ==
  ASSUME TypeOK, NEW g, NEW ds, Become(AutoRefresh, g), dirs' = ds,
         UNCHANGED <<rows, remote>>, ViewOK(g, ds)
  PROVE  Held'
<1>1. proc'[AutoRefresh] = g
  BY LocalFacts DEF Become, Procs
<1>2. \A k, c : Forward(k, c)' <=> Forward(k, c)
  BY DEF Forward
<1>3. \A cat : Stored(cat)' <=> Stored(cat)
  BY DEF Stored, View!SameSource, View!SameKey
<1> QED
  BY <1>1, <1>2, <1>3 DEF Held, ViewOK

\* The same when it goes on with the catalog and the list it has, to a label
\* at which it holds no commit.
LEMMA HeldGoOn ==
  ASSUME TypeOK, ViewInv, NEW g, Become(AutoRefresh, g), UNCHANGED <<rows, remote>>,
         g.todo \subseteq proc[AutoRefresh].todo,
         g.pc \notin Writing \cup {"refLock"},
         g.pc \in Free \/ (proc[AutoRefresh].pc \notin Free
                             /\ g.cat = proc[AutoRefresh].cat)
  PROVE  Held'
<1>1. /\ \A i \in proc[AutoRefresh].todo : Stored(i.cat)
      /\ proc[AutoRefresh].pc \notin Free => Stored(proc[AutoRefresh].cat)
  BY DEF ViewInv, ViewOK, Free
<1> DEFINE ds == dirs'
<1>2. ASSUME NEW x, x = dirs'
      PROVE  ViewOK(g, x)
  BY <1>1 DEF ViewOK, Free
<1> QED
  BY <1>2, HeldStep

LEMMA HeldReturn ==
  ASSUME TypeOK, ViewInv, NEW failed, Return(AutoRefresh, failed),
         UNCHANGED <<rows, remote>>
  PROVE  Held'
<1> DEFINE x == [Idle EXCEPT !.pc = "next", !.plan = proc[AutoRefresh].plan,
                             !.todo = proc[AutoRefresh].todo,
                             !.failed = proc[AutoRefresh].failed \/ failed]
<1>1. x.pc = "next" /\ x.todo = proc[AutoRefresh].todo
  BY DEF Idle
<1>2. Become(AutoRefresh, x)
  BY DEF Return
<1> HIDE DEF x
<1> QED
  BY <1>1, <1>2, HeldGoOn DEF Free

LEMMA HeldGoto ==
  ASSUME TypeOK, ViewInv, NEW label, Goto(AutoRefresh, label), UNCHANGED <<rows, remote>>,
         label \notin Writing \cup {"refLock"},
         label \in Free \/ proc[AutoRefresh].pc \notin Free
  PROVE  Held'
<1> DEFINE x == [proc[AutoRefresh] EXCEPT !.pc = label]
<1>1. /\ x.pc = label /\ x.todo = proc[AutoRefresh].todo
      /\ x.cat = proc[AutoRefresh].cat
  BY LocalFacts DEF Procs, Local
<1>2. Become(AutoRefresh, x)
  BY DEF Goto
<1> HIDE DEF x
<1> QED
  BY <1>1, <1>2, HeldGoOn

\* What is taken from the table is in the table.
LEMMA ItemsStored ==
  ASSUME NEW S, S \subseteq rows
  PROVE  \A i \in Items(S) : Stored(i.cat)
<1> SUFFICES ASSUME NEW i \in Items(S)
             PROVE  Stored(i.cat)
  OBVIOUS
<1>1. PICK r \in S : i.cat = r.cat
  BY DEF Items
<1> QED
  BY <1>1 DEF Stored, View!SameSource, View!SameKey

LEMMA HeldScope ==
  ASSUME TypeOK, ViewInv, NEW p, p = AutoRefresh,
         \/ ReadConfig(p) \/ FindGlobalCatalogs(p)
         \/ RangeConfig(p) \/ LookupCatalogs(p) \/ NextCatalog(p) \/ ScopeDone(p)
         \/ LookupCatalog(p)
  PROVE  Held'
<1> p \in Procs /\ proc[p] \in Local
  BY LocalFacts DEF Procs
<1>1. UNCHANGED <<rows, remote>>
  BY DEF ReadConfig, FindGlobalCatalogs, RangeConfig, LookupCatalogs, NextCatalog,
         ScopeDone, LookupCatalog, storeVars, gitVars
<1>2. /\ \A i \in proc[p].todo : Stored(i.cat)
      /\ proc[p].pc \notin Free => Stored(proc[p].cat)
  BY DEF ViewInv, ViewOK, Free
<1>3. CASE ReadConfig(p)
  BY <1>1, <1>3, HeldGoto DEF ReadConfig, Free
<1>4. ASSUME NEW label \in {"prune", "next"}, NEW todo,
             Become(p, [proc[p] EXCEPT !.pc = label, !.todo = todo]),
             \A i \in todo : Stored(i.cat)
      PROVE  Held'
  <2> DEFINE x == [proc[p] EXCEPT !.pc = label, !.todo = todo]
  <2>1. x.pc = label /\ x.todo = todo
    BY DEF Local
  <2> HIDE DEF x
  <2>2. ASSUME NEW ds
        PROVE  ViewOK(x, ds)
    BY <1>4, <2>1 DEF ViewOK
  <2> QED
    BY <1>1, <1>4, <2>2, HeldStep DEF x
<1>5. CASE FindGlobalCatalogs(p)
  BY <1>4, <1>5, ItemsStored DEF FindGlobalCatalogs
<1>6. CASE RangeConfig(p)
  <2>1. \A i \in ConfigItems : i.cat.env = Global
    BY DEF ConfigItems
  <2> QED
    BY <1>4, <1>6, <2>1 DEF RangeConfig, Stored
<1>7. CASE LookupCatalogs(p)
  BY <1>4, <1>7, ItemsStored DEF LookupCatalogs
<1>8. CASE NextCatalog(p)
  <2> DEFINE label == IF Head(proc[p].plan) = Global THEN "lookup" ELSE "prepare"
             x(i) == [proc[p] EXCEPT !.todo = proc[p].todo \ {i}, !.cat = i.cat,
                                     !.pc = label]
  <2>1. PICK i \in proc[p].todo : Become(p, x(i))
    BY <1>8 DEF NextCatalog
  <2>2. /\ x(i).pc \in {"lookup", "prepare"} /\ x(i).cat = i.cat
        /\ x(i).todo = proc[p].todo \ {i}
    BY DEF Local
  <2> HIDE DEF x
  <2>3. ASSUME NEW ds
        PROVE  ViewOK(x(i), ds)
    BY <1>2, <2>2 DEF ViewOK
  <2> QED
    BY <1>1, <2>1, <2>3, HeldStep
<1>9. CASE ScopeDone(p)
  <2>1. Idle.pc = "idle" /\ Idle.todo = {}
    BY DEF Idle
  <2> DEFINE x == [proc[p] EXCEPT !.pc = "scope", !.plan = Tail(proc[p].plan)]
  <2>2. x.pc = "scope" /\ x.todo = proc[p].todo
    BY DEF Local
  <2>3. Become(p, Idle) \/ Become(p, x)
    BY <1>9 DEF ScopeDone
  <2> HIDE DEF x
  <2> QED
    BY <1>1, <2>1, <2>2, <2>3, HeldGoOn DEF Free
<1>10. CASE LookupCatalog(p)
  <2> DEFINE cat  == proc[p].cat
             same == {r \in Named(Global, cat.name) :
                        r = First(Named(Global, cat.name))
                          /\ r.cat.src = cat.src /\ r.cat.pin = cat.pin}
             new  == IF same = {} THEN cat ELSE First(same).cat
             x    == [proc[p] EXCEPT !.pc = "prepare", !.cat = new]
  <2>1. Become(p, x)
    BY <1>10 DEF LookupCatalog
  <2>2. x.pc = "prepare" /\ x.todo = proc[p].todo /\ x.cat = new
    <3> HIDE DEF new
    <3> QED
      BY DEF Local
  <2>3. Stored(new)
    <3>1. CASE same = {}
      BY <1>2, <1>10, <3>1 DEF LookupCatalog, At, Free
    <3>2. CASE same # {}
      <4>1. PICK r \in same : TRUE
        BY <3>2
      <4>2. same = {r}
        BY <4>1
      <4>3. r \in Row /\ r.cat.env = Global
        BY <4>1 DEF Named, Keyed, TypeOK, StoreTypeOK
      <4>4. new = r.cat
        <5> HIDE DEF same
        <5> QED
          BY <3>2, <4>2, <4>3, FirstOfOne
      <4> HIDE DEF new, same
      <4> QED
        BY <4>3, <4>4 DEF Stored
    <3> QED
      BY <3>1, <3>2
  <2> HIDE DEF x, new
  <2>4. ASSUME NEW ds
        PROVE  ViewOK(x, ds)
    BY <1>2, <2>2, <2>3 DEF ViewOK
  <2> QED
    BY <1>1, <2>1, <2>4, HeldStep
<1> QED
  BY <1>3, <1>5, <1>6, <1>7, <1>8, <1>9, <1>10

\* The steps that go on without holding a commit to check out.
LEMMA HeldPrepare ==
  ASSUME TypeOK, ViewInv, NEW p, p = AutoRefresh,
         \/ DirEmpty(p) \/ StartClone(p) \/ FetchClone(p) \/ PinnedHeadCommit(p)
         \/ RemoteShaChanged(p) \/ CheckoutDone(p) \/ HeadCommit(p) \/ Compare(p)
         \/ TraverseTemplate(p) \/ TraverseDone(p)
  PROVE  Held'
<1> p \in Procs /\ proc[p] \in Local
  BY LocalFacts DEF Procs
<1>1. UNCHANGED <<rows, remote>>
  BY DEF DirEmpty, StartClone, FetchClone, PinnedHeadCommit, RemoteShaChanged,
         CheckoutDone, HeadCommit, Compare, TraverseTemplate, TraverseDone,
         CloneInit, CloneFetch, MoveHead, Unlock, storeVars, gitVars
<1>2. proc[p].pc \notin Free
  BY DEF DirEmpty, StartClone, FetchClone, PinnedHeadCommit, RemoteShaChanged,
         CheckoutDone, HeadCommit, Compare, TraverseTemplate, TraverseDone, At, Free
<1>3. CASE \E failed : Return(p, failed)
  BY <1>1, <1>3, HeldReturn
<1>4. CASE \E label \in {"clone", "pinHead", "remote", "head", "cloneFetch", "pinLock",
                         "fetch", "traverse", "update"} : Goto(p, label)
  BY <1>1, <1>2, <1>4, HeldGoto
<1>5. CASE DirEmpty(p) \/ StartClone(p) \/ PinnedHeadCommit(p) \/ RemoteShaChanged(p)
             \/ Compare(p) \/ TraverseDone(p)
  BY <1>3, <1>4, <1>5 DEF DirEmpty, StartClone, PinnedHeadCommit, RemoteShaChanged,
                          Compare, TraverseDone
<1>6. ASSUME NEW x, Become(p, x), x.todo = proc[p].todo, x.cat = proc[p].cat,
             x.pc \notin Writing \cup {"refLock"}
      PROVE  Held'
  BY <1>1, <1>2, <1>6, HeldGoOn
<1>7. CASE FetchClone(p)
  <2>1. PICK c : Become(p, [proc[p] EXCEPT !.pc = "cloneLock", !.target = c])
    BY <1>7 DEF FetchClone
  <2> DEFINE x == [proc[p] EXCEPT !.pc = "cloneLock", !.target = c]
  <2>2. x.pc = "cloneLock" /\ x.todo = proc[p].todo /\ x.cat = proc[p].cat
    BY DEF Local
  <2> HIDE DEF x
  <2> QED
    BY <1>6, <2>1, <2>2 DEF x
<1>8. CASE CheckoutDone(p)
  <2> DEFINE label == IF At(p, "cloneWrite") /\ proc[p].cat.pin # NoPin
                      THEN "pinLock" ELSE "head"
             x == [proc[p] EXCEPT !.at = 1, !.target = 0, !.pc = label]
  <2>1. Become(p, x)
    BY <1>8 DEF CheckoutDone
  <2>2. x.pc \in {"pinLock", "head"} /\ x.todo = proc[p].todo /\ x.cat = proc[p].cat
    BY DEF Local
  <2> HIDE DEF x
  <2> QED
    BY <1>6, <2>1, <2>2
<1>9. CASE HeadCommit(p)
  <2> DEFINE x == [proc[p] EXCEPT !.pc = "compare", !.commit = dirs[D(p)].head]
  <2>1. Become(p, x) \/ Return(p, TRUE)
    BY <1>9 DEF HeadCommit
  <2>2. x.pc = "compare" /\ x.todo = proc[p].todo /\ x.cat = proc[p].cat
    BY DEF Local
  <2> HIDE DEF x
  <2> QED
    BY <1>3, <1>6, <2>1, <2>2
<1>10. CASE TraverseTemplate(p)
  <2>1. PICK at, read, errs :
          Become(p, [proc[p] EXCEPT !.at = at, !.read = read, !.errs = errs])
    BY <1>10 DEF TraverseTemplate
  <2> DEFINE x == [proc[p] EXCEPT !.at = at, !.read = read, !.errs = errs]
  <2>2. x.pc = proc[p].pc /\ x.todo = proc[p].todo /\ x.cat = proc[p].cat
    BY DEF Local
  <2>3. proc[p].pc = "traverse"
    BY <1>10 DEF TraverseTemplate, At
  <2>4. Become(p, x)
    BY <2>1
  <2> HIDE DEF x
  <2> QED
    BY <1>6, <2>2, <2>3, <2>4
<1> QED
  BY <1>5, <1>7, <1>8, <1>9, <1>10

\* A checkout that begins is no step back.
LEMMA HeldCheckout ==
  ASSUME TypeOK, ViewInv, NEW p, p = AutoRefresh, proc[p].pc \notin Free,
         NEW c, NEW initial \in BOOLEAN, NEW label \in Writing,
         StartCheckout(p, c, initial, label), UNCHANGED <<rows, remote>>,
         CanCheckout(D(p), c) => Forward(D(p), c)
  PROVE  Held'
<1> p \in Procs /\ proc[p] \in Local
  BY LocalFacts DEF Procs
<1>1. CASE Return(p, TRUE)
  BY <1>1, HeldReturn
<1>2. ASSUME NEW at, Become(p, [proc[p] EXCEPT !.pc = label, !.target = c, !.at = at]),
             CanCheckout(D(p), c)
      PROVE  Held'
  <2> DEFINE x == [proc[p] EXCEPT !.pc = label, !.target = c, !.at = at]
  <2>1. /\ x.pc = label /\ x.target = c
        /\ x.todo = proc[p].todo /\ x.cat = proc[p].cat
    BY DEF Local
  <2>2. /\ \A i \in proc[p].todo : Stored(i.cat)
        /\ Stored(proc[p].cat)
    BY DEF ViewInv, ViewOK, Free
  <2> HIDE DEF x
  <2>3. ASSUME NEW ds
        PROVE  ViewOK(x, ds)
    BY <1>2, <2>1, <2>2 DEF ViewOK, D
  <2> QED
    BY <1>2, <2>3, HeldStep DEF x
<1> QED
  BY <1>1, <1>2 DEF StartCheckout

LEMMA HeldGit ==
  ASSUME TypeOK, ViewInv, NEW p, p = AutoRefresh,
         \/ PopulateClone(p) \/ CheckoutCommit(p) \/ UpdateFetch(p)
         \/ UpdateCheckout(p) \/ WriteTree(p)
  PROVE  Held'
<1> DEFINE d == D(p)
           w == dirs[d]
           c == remote[d[2]]
<1> p \in Procs /\ proc[p] \in Local /\ d \in DirKeys /\ w \in Dir
  BY LocalFacts DEF Procs
<1>1. UNCHANGED <<rows, remote>>
  BY DEF PopulateClone, CheckoutCommit, UpdateFetch, UpdateCheckout, WriteTree,
         StartCheckout, Lock, Fetch, WriteTemplate, storeVars, gitVars
<1>2. proc[p].pc \notin Free /\ d = DirOf(proc[p].cat) /\ d[3] = proc[p].cat.pin
  BY DEF PopulateClone, CheckoutCommit, UpdateFetch, UpdateCheckout, WriteTree, At,
         Free, D, DirOf
<1>3. /\ \A i \in proc[p].todo : Stored(i.cat)
      /\ Stored(proc[p].cat)
  BY <1>2 DEF ViewInv, ViewOK, Free
<1>4. d[3] = NoPin =>
        /\ w.head <= c
        /\ \A r \in rows : DirOf(r.cat) = d =>
             /\ r.cat.commit <= c
             /\ w.head # NoCommit => r.cat.commit <= w.head
  BY RowCat DEF ViewInv, NothingAhead, CopyBehind, RowBehind
<1>5. NoCommit \notin w.objs
  BY DEF Dir, Commits, NoCommit
<1>6. c \in Nat
  BY FetchedType, BoundsAssumption DEF TypeOK, Commits
<1>7. CASE PopulateClone(p)
  <2>1. proc[p].target = w.head
    BY <1>7 DEF PopulateClone, At, ViewInv, SoloInv, SoloOK, D
  <2>2. CanCheckout(d, proc[p].target) => Forward(d, proc[p].target)
    BY <1>4, <1>5, <2>1 DEF CanCheckout, Forward
  <2> QED
    BY <1>1, <1>2, <1>7, <2>2, HeldCheckout DEF PopulateClone
<1>8. CASE CheckoutCommit(p)
  <2>1. CanCheckout(d, proc[p].cat.pin) => Forward(d, proc[p].cat.pin)
    BY <1>2, <1>5 DEF CanCheckout, Forward, NoPin, NoCommit
  <2> QED
    BY <1>1, <1>2, <1>8, <2>1, HeldCheckout DEF CheckoutCommit
<1>9. CASE UpdateCheckout(p)
  <2>1. Forward(d, w.ref)
    BY <1>9 DEF UpdateCheckout, At, ViewInv, ViewOK, D
  <2> QED
    BY <1>1, <1>2, <1>9, <2>1, HeldCheckout DEF UpdateCheckout
<1>10. CASE UpdateFetch(p)
  <2> DEFINE x == [proc[p] EXCEPT !.pc = "refLock"]
             v == [w EXCEPT !.ref = c, !.objs = w.objs \cup 1..c]
             ds == [dirs EXCEPT ![d] = v]
  <2>1. CASE Fetch(d) /\ Goto(p, "refLock")
    <3>1. dirs' = ds /\ Become(p, x)
      BY <2>1 DEF Fetch, Goto
    <3>2. x.pc = "refLock" /\ x.todo = proc[p].todo /\ x.cat = proc[p].cat
      BY DEF Local
    <3>3. ds[d].ref = c
      <4>1. dirs \in [DirKeys -> Dir] /\ v.ref = c
        BY DEF TypeOK, GitTypeOK, Dir
      <4> HIDE DEF v
      <4> QED
        BY <4>1
    <3>4. Forward(d, c)
      BY <1>4, <1>6 DEF Forward
    <3>5. d = DirOf(x.cat)
      BY <1>2, <3>2
    <3> HIDE DEF x, ds, d
    <3>6. ViewOK(x, ds)
      BY <1>3, <3>2, <3>3, <3>4, <3>5 DEF ViewOK
    <3> QED
      BY <1>1, <3>1, <3>6, HeldStep
  <2> QED
    BY <1>1, <1>10, <2>1, HeldReturn DEF UpdateFetch
<1>11. CASE WriteTree(p)
  <2> DEFINE x == [proc[p] EXCEPT !.at = proc[p].at + 1]
  <2>1. /\ x.pc = proc[p].pc /\ x.target = proc[p].target
        /\ x.todo = proc[p].todo /\ x.cat = proc[p].cat
    BY DEF Local
  <2>2. Become(p, x) /\ proc[p].pc \in Writing
    BY <1>11 DEF WriteTree
  <2>3. Forward(d, x.target)
    BY <2>1, <2>2 DEF ViewInv, ViewOK, D
  <2>4. d = DirOf(x.cat)
    BY <1>2, <2>1
  <2> HIDE DEF x, d
  <2>5. ASSUME NEW ds
        PROVE  ViewOK(x, ds)
    BY <1>3, <2>1, <2>2, <2>3, <2>4 DEF ViewOK
  <2> QED
    BY <1>1, <2>2, <2>5, HeldStep
<1> QED
  BY <1>7, <1>8, <1>9, <1>10, <1>11

\* The steps that write the table take away no catalog that is held.
LEMMA HeldTable ==
  ASSUME TypeOK, ViewInv, NEW p, p = AutoRefresh,
         RemoveCatalogNotInConfig(p) \/ UpdateDb(p)
  PROVE  Held'
<1> p \in Procs /\ proc[p] \in Local
  BY LocalFacts DEF Procs
<1>1. \A i \in proc[p].todo : Stored(i.cat)
  BY DEF ViewInv, ViewOK
<1>2. ASSUME NEW x, Become(p, x), x.pc \in {"prune", "next"},
             x.todo \subseteq proc[p].todo,
             \A cat : Stored(cat) => Stored(cat)'
      PROVE  Held'
  <2>1. proc'[p] = x
    BY <1>2 DEF Become, TypeOK, RefreshTypeOK
  <2> QED
    BY <1>1, <1>2, <2>1 DEF Held, ViewOK
<1>3. CASE RemoveCatalogNotInConfig(p)
  <2>1. PICK i \in proc[p].todo :
          /\ Become(p, [proc[p] EXCEPT !.todo = proc[p].todo \ {i}])
          /\ UNCHANGED storeVars \/ DeleteCatalogs({Global}, i.cat.name)
    BY <1>3 DEF RemoveCatalogNotInConfig
  <2> DEFINE x == [proc[p] EXCEPT !.todo = proc[p].todo \ {i}]
  <2>2. x.pc = "prune" /\ x.todo = proc[p].todo \ {i}
    BY <1>3 DEF RemoveCatalogNotInConfig, At, Local
  <2>3. \A cat : Stored(cat) => Stored(cat)'
    BY <2>1 DEF Stored, DeleteCatalogs, storeVars, View!SameSource, View!SameKey
  <2> HIDE DEF x
  <2> QED
    BY <1>2, <2>1, <2>2, <2>3 DEF x
<1>4. CASE UpdateDb(p)
  <2> DEFINE own == proc[p].cat
             new == NewRow([own EXCEPT !.commit = proc[p].commit], proc[p].read)
             x == [Idle EXCEPT !.pc = "next", !.plan = proc[p].plan,
                               !.todo = proc[p].todo,
                               !.failed = proc[p].failed \/ FALSE]
  <2>1. rows' = {r \in rows : ~Keyed(r, own.env, own.name)} \cup {new}
    BY <1>4 DEF UpdateDb, ReplaceCatalog
  <2>2. View!SameSource(new.cat, own)
    BY DEF NewRow, Local, Cat, View!SameSource, View!SameKey
  <2>3. Stored(own) /\ OneRowPerCatalog
    BY <1>4 DEF UpdateDb, At, ViewInv, ViewOK
  <2> HIDE DEF new
  <2>4. ASSUME NEW cat, Stored(cat), cat.env # Global
        PROVE  \E r \in rows' : View!SameSource(r.cat, cat)
    <3>1. PICK r \in rows : View!SameSource(r.cat, cat)
      BY <2>4 DEF Stored
    <3>2. CASE Keyed(r, own.env, own.name)
      <4>1. own.env # Global
        BY <2>4, <3>1, <3>2 DEF View!SameSource, View!SameKey, Keyed
      <4>2. PICK q \in rows : View!SameSource(q.cat, own)
        BY <2>3, <4>1 DEF Stored
      <4>3. q = r
        BY <2>3, <3>2, <4>2 DEF OneRowPerCatalog, Keyed, View!SameSource, View!SameKey
      <4>4. View!SameSource(new.cat, cat)
        BY <2>2, <3>1, <4>2, <4>3 DEF View!SameSource, View!SameKey
      <4> QED
        BY <2>1, <4>4
    <3> QED
      BY <2>1, <3>1, <3>2
  <2>5. \A cat : Stored(cat) => Stored(cat)'
    BY <2>4 DEF Stored
  <2>6. Become(p, x)
    BY <1>4 DEF UpdateDb, Return
  <2>7. x.pc = "next" /\ x.todo = proc[p].todo
    BY DEF Idle
  <2> HIDE DEF x
  <2> QED
    BY <1>2, <2>5, <2>6, <2>7
<1> QED
  BY <1>3, <1>4

LEMMA HeldNext ==
  ASSUME Solo, ~Rewinds, TypeOK, ViewInv, [RefreshNext]_vars
  PROVE  Held'
<1> AutoRefresh \in Procs /\ proc[AutoRefresh] \in Local
  BY LocalFacts DEF Procs
<1>1. CASE AutoTick
  <2>1. PICK plan : Become(AutoRefresh, [proc[AutoRefresh] EXCEPT !.pc = "scope", !.plan = plan])
    BY <1>1 DEF AutoTick
  <2> DEFINE x == [proc[AutoRefresh] EXCEPT !.pc = "scope", !.plan = plan]
  <2>2. x.pc = "scope" /\ x.todo = proc[AutoRefresh].todo
    BY DEF Local
  <2> HIDE DEF x
  <2> QED
    BY <1>1, <2>1, <2>2, HeldGoOn DEF x, Free, AutoTick, storeVars, gitVars
<1>2. CASE \E h \in Handlers, e \in AllEnvs : RefreshTemplates(h, e)
  BY <1>2 DEF Solo
<1>3. ASSUME NEW p \in Procs, Proceed(p) \/ Fault(p)
      PROVE  Held'
  <2>1. p = AutoRefresh
    BY DEF Procs, Solo
  <2>2. CASE Proceed(p)
    BY <2>1, <2>2, HeldScope, HeldPrepare, HeldGit, HeldTable DEF Proceed
  <2>3. CASE Fault(p)
    <3>1. UNCHANGED <<rows, remote>>
      BY <2>3 DEF Fault, GiveUp, CloneAbort, Unlock, storeVars, gitVars
    <3>2. \/ Return(p, TRUE) \/ Become(p, Idle)
          \/ Goto(p, "prune")
          \/ At(p, "lookup") /\ Goto(p, "prepare")
      BY <2>3 DEF Fault, GiveUp
    <3>3. Idle.pc = "idle" /\ Idle.todo = {}
      BY DEF Idle
    <3> QED
      BY <2>1, <3>1, <3>2, <3>3, HeldReturn, HeldGoOn, HeldGoto DEF Free, At
  <2> QED
    BY <1>3, <2>2, <2>3
<1>4. CASE UNCHANGED <<proc, rows, dirs, remote>>
  BY <1>4 DEF ViewInv, Held, ViewOK, Forward, Stored, View!SameSource, View!SameKey
<1>5. CASE EditConfig \/ UNCHANGED vars
  BY <1>4, <1>5 DEF EditConfig, vars, storeVars, gitVars, refreshVars
<1>6. CASE PushBranch
  <2>1. PICK s \in Sources, c \in Commits : Push(s, c)
    BY <1>6 DEF PushBranch
  <2>2. remote' = [remote EXCEPT ![s] = c] /\ c > remote[s] /\ UNCHANGED <<proc, rows, dirs>>
    BY <1>6, <2>1 DEF Push, PushBranch, storeVars, refreshVars
  <2>3. remote \in [Sources -> Commits]
    BY DEF TypeOK, GitTypeOK
  <2>4. \A u \in Sources : remote'[u] \in Nat /\ remote[u] \in Nat /\ remote[u] <= remote'[u]
    BY <2>2, <2>3, BoundsAssumption DEF Commits
  <2>5. ASSUME NEW k \in DirKeys, NEW b \in 0..MaxCommit, Forward(k, b)
        PROVE  Forward(k, b)'
    <3>1. k[2] \in Sources
      BY DEF DirKeys
    <3> QED
      BY <2>2, <2>4, <2>5, <3>1, BoundsAssumption DEF Forward
  <2>6. /\ D(AutoRefresh) \in DirKeys
        /\ dirs[D(AutoRefresh)].ref \in 0..MaxCommit
        /\ proc[AutoRefresh].target \in 0..MaxCommit
    BY LocalFacts DEF Local, Dir
  <2>7. \A cat : Stored(cat) => Stored(cat)'
    BY <2>2 DEF Stored, View!SameSource, View!SameKey
  <2> QED
    BY <2>2, <2>5, <2>6, <2>7 DEF ViewInv, Held, ViewOK, D
<1>7. CASE Crash
  <2>1. proc'[AutoRefresh] = Idle
    BY <1>7 DEF Crash
  <2>2. Idle.pc = "idle" /\ Idle.todo = {}
    BY DEF Idle
  <2> QED
    BY <2>1, <2>2 DEF Held, ViewOK
<1> QED
  BY <1>1, <1>2, <1>3, <1>5, <1>6, <1>7 DEF RefreshNext, RefreshStep

LEMMA ViewInvNext ==
  Solo /\ ~Rewinds /\ (RefreshInv /\ ViewInv) /\ [RefreshNext]_vars
    => (RefreshInv /\ ViewInv)'
<1> SUFFICES ASSUME Solo, ~Rewinds, RefreshInv, ViewInv, [RefreshNext]_vars
             PROVE  (RefreshInv /\ ViewInv)'
  OBVIOUS
<1>1. RefreshInv'
  BY NextInv
<1>2. SoloInv' /\ OneRowPerCatalog'
  BY SoloNext, OneRowStep DEF RefreshInv, ViewInv
<1>3. NothingAhead' /\ Held'
  BY AheadNext, HeldNext DEF RefreshInv
<1> QED
  BY <1>1, <1>2, <1>3 DEF ViewInv, Held

-----------------------------------------------------------------------------
(* What a reader sees of a step.                                           *)

Seen == {[cat |-> r.cat, index |-> r.index] : r \in rows}

USE DEF View!AllEnvs, AllEnvs, View!Commits, View!Templates

\* The abstract table is about the same catalogs and indexes.
LEMMA ViewSame ==
  /\ View!Cat = Cat
  /\ View!Index = Index
  /\ \A c : View!IndexOf(c) = IndexOf(c)
  /\ View!NoCommit = NoCommit /\ View!NoPin = NoPin
BY DEF View!Cat, Cat, View!Index, Index, View!Unnamed, Unnamed, View!IndexOf, IndexOf,
       View!Missing, Missing, View!NoCommit, NoCommit, View!NoPin, NoPin, Templates

LEMMA ViewStart == Init /\ OneRowPerCatalog => View!ViewInit
<1> SUFFICES ASSUME Init, OneRowPerCatalog
             PROVE  View!ViewInit
  OBVIOUS
<1>1. TypeOK
  BY InitType
<1>2. Seen \subseteq [cat : Cat, index : Index]
  BY <1>1 DEF Seen, TypeOK, StoreTypeOK, Row
<1>3. \A v, u \in Seen : v.cat.env = u.cat.env /\ v.cat.name = u.cat.name => v = u
  <2> SUFFICES ASSUME NEW v \in Seen, NEW u \in Seen,
                      v.cat.env = u.cat.env, v.cat.name = u.cat.name
               PROVE  v = u
    OBVIOUS
  <2>1. PICK r \in rows : v = [cat |-> r.cat, index |-> r.index]
    BY DEF Seen
  <2>2. PICK q \in rows : u = [cat |-> q.cat, index |-> q.index]
    BY DEF Seen
  <2>3. r = q
    BY <2>1, <2>2 DEF OneRowPerCatalog, Keyed
  <2> QED
    BY <2>1, <2>2, <2>3
<1>4. remote \in [Sources -> Commits]
  BY <1>1 DEF TypeOK, GitTypeOK
<1> QED
  BY <1>2, <1>3, <1>4, ViewSame DEF View!ViewInit, View!Entries, View!SameKey, Seen, Commits

\* updateDb publishes the index of the commit it read.
LEMMA ViewUpdate ==
  ASSUME Solo, RefreshInv, ViewInv, NEW p, p = AutoRefresh, UpdateDb(p)
  PROVE  \E cat \in View!Cat, c \in View!Commits :
           cat.commit = View!NoCommit /\ View!Publish(cat, c)
<1> DEFINE g   == proc[p]
           w   == dirs[D(p)]
           own == [g.cat EXCEPT !.commit = NoCommit]
           new == NewRow([g.cat EXCEPT !.commit = g.commit], g.read)
<1>1. p \in Procs /\ g \in Local /\ g.pc = "update" /\ TypeOK /\ D(p) \in DirKeys
  BY LocalFacts DEF Procs, UpdateDb, At, RefreshInv
<1>2. /\ w.head = g.commit /\ g.commit # NoCommit /\ g.commit \in Commits
      /\ Read(g) /\ g.at = NumTemplates + 1
  BY <1>1, BoundsAssumption DEF ViewInv, SoloInv, SoloOK, D, Local, Commits, NoCommit
<1>3. g.read = IndexOf(g.commit)
  <2>1. \A t \in Templates : g.read[t] = IndexOf(g.commit)[t]
    BY <1>2, BoundsAssumption DEF Read, Templates
  <2>2. g.read \in [Templates -> Unnamed..MaxCommit]
    BY <1>1 DEF Local, Index
  <2>3. IndexOf(g.commit) = [t \in Templates |-> IndexOf(g.commit)[t]]
    BY DEF IndexOf
  <2> HIDE DEF g
  <2> QED
    BY <2>1, <2>2, <2>3
<1>4. /\ own \in Cat /\ own.commit = NoCommit
      /\ own.env = g.cat.env /\ own.name = g.cat.name
      /\ own.src = g.cat.src /\ own.pin = g.cat.pin
      /\ [own EXCEPT !.commit = g.commit] = [g.cat EXCEPT !.commit = g.commit]
  <2>1. g.cat \in Cat /\ NoCommit \in 0..MaxCommit
    BY <1>1, BoundsAssumption DEF Local, NoCommit
  <2> HIDE DEF g
  <2> QED
    BY <2>1 DEF Cat
<1>5. /\ g.cat.pin # NoPin => g.commit = g.cat.pin
      /\ g.cat.pin = NoPin => g.commit <= remote[g.cat.src]
  <2>1. D(p)[2] = g.cat.src /\ D(p)[3] = g.cat.pin
    BY DEF D, DirOf
  <2> QED
    BY <1>1, <1>2, <2>1 DEF RefreshInv, PinPrepared, ViewInv, NothingAhead, CopyBehind
<1>6. g.cat.env # Global => \E v \in Seen : View!SameSource(v.cat, own)
  <2> SUFFICES ASSUME g.cat.env # Global
               PROVE  \E v \in Seen : View!SameSource(v.cat, own)
    OBVIOUS
  <2>1. PICK r \in rows : View!SameSource(r.cat, g.cat)
    BY <1>1 DEF ViewInv, ViewOK, Stored
  <2>2. [cat |-> r.cat, index |-> r.index] \in Seen
    BY <2>1 DEF Seen
  <2> HIDE DEF own
  <2> QED
    BY <1>4, <2>1, <2>2 DEF View!SameSource, View!SameKey
<1>7. \A v \in Seen : View!SameSource(v.cat, own) => v.cat.commit <= g.commit
  <2> SUFFICES ASSUME NEW r \in rows, View!SameSource(r.cat, own)
               PROVE  r.cat.commit <= g.commit
    BY DEF Seen
  <2>1. /\ r.cat.env = g.cat.env /\ r.cat.src = g.cat.src /\ r.cat.pin = g.cat.pin
        /\ DirOf(r.cat) = D(p)
    BY <1>4 DEF View!SameSource, View!SameKey, DirOf, D
  <2>2. RowBehind(r)
    BY DEF ViewInv, NothingAhead
  <2> QED
    BY <1>2, <1>5, <2>1, <2>2 DEF RowBehind
<1>8. rows' = {r \in rows : ~Keyed(r, g.cat.env, g.cat.name)} \cup {new}
  BY DEF UpdateDb, ReplaceCatalog
<1>9. [cat |-> new.cat, index |-> new.index]
        = [cat |-> [own EXCEPT !.commit = g.commit], index |-> IndexOf(g.commit)]
  BY <1>3, <1>4 DEF NewRow
<1> HIDE DEF new, own, g
<1>10. Seen' = {v \in Seen : ~View!SameKey(v.cat, own)}
                 \cup {[cat |-> [own EXCEPT !.commit = g.commit], index |-> IndexOf(g.commit)]}
  BY <1>4, <1>8, <1>9 DEF Seen, Keyed, View!SameKey
<1>11. UNCHANGED remote
  BY DEF UpdateDb, gitVars
<1>12. View!Publish(own, g.commit)
  BY <1>4, <1>5, <1>6, <1>7, <1>10, <1>11, ViewSame
  DEF View!Publish, View!MayPublish, View!Offers, Seen
<1> QED
  BY <1>2, <1>4, <1>12, ViewSame DEF Commits, View!Publish, View!MayPublish, View!Offers

LEMMA ViewDelete ==
  ASSUME TypeOK, NEW n \in Names, DeleteCatalogs({Global}, n), UNCHANGED remote
  PROVE  View!Retire(n)
<1>1. rows' = {r \in rows : ~(r.cat.env \in {Global} /\ r.cat.name = n)}
  BY DEF DeleteCatalogs
<1>2. Seen' = {v \in Seen : ~(v.cat.env = Global /\ v.cat.name = n)}
  BY <1>1 DEF Seen
<1> QED
  BY <1>2 DEF View!Retire, Seen

LEMMA ViewPush ==
  ASSUME TypeOK, ~Rewinds, PushBranch
  PROVE  \E s \in Sources, c \in View!Commits : View!Advance(s, c)
<1>1. PICK s \in Sources, c \in Commits : Push(s, c)
  BY DEF PushBranch
<1>2. c > remote[s] /\ remote' = [remote EXCEPT ![s] = c] /\ UNCHANGED rows
  BY <1>1 DEF Push, PushBranch, storeVars
<1> QED
  BY <1>1, <1>2 DEF View!Advance, Commits

\* Every step of the service is a step of the abstract table or no step of it.
LEMMA ViewStep ==
  Solo /\ ~Rewinds /\ (RefreshInv /\ ViewInv) /\ [RefreshNext]_vars
    => [View!ViewNext]_(View!viewVars)
<1> SUFFICES ASSUME Solo, ~Rewinds, RefreshInv, ViewInv, [RefreshNext]_vars
             PROVE  View!ViewNext \/ UNCHANGED View!viewVars
  OBVIOUS
<1>1. CASE UNCHANGED <<rows, remote>>
  BY <1>1 DEF View!viewVars
<1>2. CASE PushBranch
  BY <1>2, ViewPush DEF View!ViewNext, RefreshInv
<1>3. ASSUME NEW p \in Procs, Proceed(p)
      PROVE  View!ViewNext \/ UNCHANGED View!viewVars
  <2>1. p = AutoRefresh
    BY DEF Procs, Solo
  <2>2. CASE UpdateDb(p)
    BY <2>1, <2>2, ViewUpdate DEF View!ViewNext
  <2>3. CASE RemoveCatalogNotInConfig(p)
    <3>1. PICK i \in proc[p].todo : UNCHANGED storeVars \/ DeleteCatalogs({Global}, i.cat.name)
      BY <2>3 DEF RemoveCatalogNotInConfig
    <3>2. i.cat.name \in Names
      BY LocalFacts DEF RefreshInv, Local, Item, Cat
    <3>3. UNCHANGED remote
      BY <2>3 DEF RemoveCatalogNotInConfig, gitVars
    <3> QED
      BY <1>1, <3>1, <3>2, <3>3, ViewDelete DEF View!ViewNext, RefreshInv, storeVars
  <2>4. CASE ~UpdateDb(p) /\ ~RemoveCatalogNotInConfig(p)
    <3>1. UNCHANGED <<rows, remote>>
      BY <1>3, <2>4
      DEF Proceed, ReadConfig, FindGlobalCatalogs, RangeConfig, LookupCatalogs,
          NextCatalog, ScopeDone, LookupCatalog, DirEmpty, StartClone, FetchClone,
          PopulateClone, PinnedHeadCommit, CheckoutCommit, RemoteShaChanged,
          UpdateFetch, UpdateCheckout, WriteTree, CheckoutDone, HeadCommit, Compare,
          TraverseTemplate, TraverseDone, StartCheckout, CloneInit, CloneFetch, Lock,
          Fetch, WriteTemplate, MoveHead, Unlock, storeVars, gitVars
    <3> QED
      BY <1>1, <3>1
  <2> QED
    BY <2>2, <2>3, <2>4
<1>4. ASSUME NEW p \in Procs, Fault(p)
      PROVE  UNCHANGED <<rows, remote>>
  BY <1>4 DEF Fault, GiveUp, CloneAbort, Unlock, storeVars, gitVars
<1>5. CASE \/ AutoTick \/ EditConfig \/ Crash \/ UNCHANGED vars
           \/ \E h \in Handlers, e \in AllEnvs : RefreshTemplates(h, e)
  BY <1>1, <1>5 DEF AutoTick, EditConfig, Crash, RefreshTemplates, vars, storeVars, gitVars
<1> QED
  BY <1>1, <1>2, <1>3, <1>4, <1>5 DEF RefreshNext, RefreshStep

-----------------------------------------------------------------------------
(* The theorems.                                                           *)

LEMMA ViewInvStart == Init /\ CachesClean /\ OneRowPerCatalog /\ NothingAhead => ViewInv
<1> SUFFICES ASSUME Init, CachesClean, OneRowPerCatalog, NothingAhead
             PROVE  ViewInv
  OBVIOUS
<1>1. proc[AutoRefresh] = Idle
  BY DEF Init, RefreshInit, Procs
<1>2. Idle.pc = "idle" /\ Idle.todo = {}
  BY DEF Idle
<1> QED
  BY <1>1, <1>2, CleanStart DEF ViewInv, ViewOK

\* No row gets ahead of its source or of the working copy it is refreshed
\* from, and a catalog that is being refreshed is still in the table.
THEOREM ViewInvariant ==
  Solo /\ ~Rewinds =>
    (Spec /\ CachesClean /\ OneRowPerCatalog /\ NothingAhead => []ViewInv)
<1> SUFFICES ASSUME Solo, ~Rewinds
             PROVE  Spec /\ CachesClean /\ OneRowPerCatalog /\ NothingAhead => []ViewInv
  OBVIOUS
<1>1. (RefreshInv /\ ViewInv) /\ [RefreshNext]_vars => (RefreshInv /\ ViewInv)'
  BY ViewInvNext
<1> QED
  BY <1>1, InitInv, ViewInvStart, PTL DEF Spec

\* A refresh that is alone in its caches implements the abstract table: whole
\* catalogs are replaced one by one, each by the exact index of a commit its
\* branch has had, or of its pin, and never by an older one.
THEOREM SoloImplementsView ==
  Solo /\ ~Rewinds =>
    (Spec /\ CachesClean /\ OneRowPerCatalog /\ NothingAhead => ImplementsView)
<1> SUFFICES ASSUME Solo, ~Rewinds
             PROVE  Spec /\ CachesClean /\ OneRowPerCatalog /\ NothingAhead => ImplementsView
  OBVIOUS
<1>1. Init /\ OneRowPerCatalog => View!ViewInit
  BY ViewStart
<1>2. (RefreshInv /\ ViewInv) /\ [RefreshNext]_vars => (RefreshInv /\ ViewInv)'
  BY ViewInvNext
<1>3. (RefreshInv /\ ViewInv) /\ [RefreshNext]_vars => [View!ViewNext]_(View!viewVars)
  BY ViewStep
<1> QED
  BY <1>1, <1>2, <1>3, InitInv, ViewInvStart, PTL DEF Spec, ImplementsView, View!ViewSpec

=============================================================================
