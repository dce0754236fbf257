--------------------------- MODULE CatalogRefresh ---------------------------
(***************************************************************************)
(* The refresh of the catalogs (manager/manager.go, manager/local.go,      *)
(* manager/config.go, the first half of manager/db.go, cmd/root.go's       *)
(* autoRefresh and service/template.go's refreshTemplates).                *)
(*                                                                         *)
(* One goroutine, AutoRefresh, calls RefreshAll once with update=false,    *)
(* once with update=true, and then at every tick; an HTTP request for a    *)
(* refresh runs in its handler's goroutine.  Nothing excludes them from    *)
(* one another: they share the database, the cache directories and the     *)
(* m.config pointer.  Each action below is what one of them does between two points *)
(* at which another can be observed: a database statement, a git command   *)
(* or a part of one, a read of one template.                               *)
(*                                                                         *)
(* Catalogs of kind native, and helm catalogs in a git repository, are     *)
(* refreshed this way; helm catalogs served as an HTTP index are not here. *)
(***************************************************************************)
EXTENDS CatalogStore, GitCache, Sequences

CONSTANTS
    AutoRefresh,    \* the autoRefresh goroutine
    Handlers,       \* goroutines serving a refresh request
    All,            \* the "" refreshEnvironmentCatalogs is given by RefreshAll
    GitHub,         \* sources whose branch head the GitHub API is asked for
    Refused,        \* <<src, pin>> turned down before the cache is touched:
                    \* source not authorised, pin not a full SHA
    Strict,         \* --validate-only
    Periodic,       \* the refresh interval is positive
    ConfigFiles,    \* the successive contents of the configuration file
    MaxRequests,    \* bound: refresh requests
    MaxFaults,      \* bound: network, git and database failures
    MaxCrashes,     \* bound: crashes of the service
    HalfDoneGit     \* a checkout may stop half way (a kill, a full disk)

VARIABLES
    proc,           \* the goroutines and their local variables
    rounds,         \* RefreshAll calls autoRefresh has begun, up to two
    config,         \* m.config
    configAt,       \* position in ConfigFiles of what is on disk
    spent           \* use made of the bounds

refreshVars == <<proc, rounds, config, configAt, spent>>
vars == <<storeVars, gitVars, refreshVars>>

Procs == {AutoRefresh} \cup Handlers

NoConfig == [n \in {} |-> NoCat]

Entry == [src : Sources, pin : 0..MaxCommit]
Config == UNION {[S -> Entry] : S \in SUBSET Names}

ASSUME RefreshAssumption ==
    /\ AutoRefresh \notin Handlers
    /\ Global \notin Envs
    /\ All \notin AllEnvs
    /\ ConfigFiles \in Seq(Config) /\ ConfigFiles # << >>
    /\ Strict \in BOOLEAN /\ Periodic \in BOOLEAN /\ HalfDoneGit \in BOOLEAN
    /\ MaxRequests \in Nat /\ MaxFaults \in Nat /\ MaxCrashes \in Nat

Item == [id : Nat, cat : Cat]   \* a row's key and its model.Catalog

Labels == {"idle", "scope", "find", "prune", "next", "lookup", "prepare",
           "clone", "cloneFetch", "cloneLock", "cloneWrite", "pinHead",
           "pinLock", "remote", "fetch", "refLock", "write", "head",
           "compare", "traverse", "update"}

\* Where the tree of a directory is being rewritten, and where a clone has
\* not yet populated it.
Writing == {"cloneWrite", "write"}
Cloning == {"cloneFetch", "cloneLock"}

\* Between the last check of prepareGitRepoPath and updateDb.
Indexing == {"compare", "traverse", "update"}

Local == [pc     : Labels,
          plan   : Seq(AllEnvs \cup {All}),  \* refreshes still to run
          todo   : SUBSET Item,              \* catalogs still to visit
          failed : BOOLEAN,                  \* len(refreshErrors) > 0
          cat    : Cat,                      \* the catalog being refreshed
          target : 0..MaxCommit,             \* commit being checked out
          commit : 0..MaxCommit,             \* HEAD as prepareRepoPath saw it
          at     : 1..(NumTemplates + 1),    \* next template to write or read
          read   : Index,                    \* templates read so far
          errs   : BOOLEAN]                  \* a template did not parse

Idle == [pc |-> "idle", plan |-> << >>, todo |-> {}, failed |-> FALSE,
         cat |-> NoCat, target |-> 0, commit |-> 0, at |-> 1,
         read |-> Nothing, errs |-> FALSE]

RefreshTypeOK ==
    /\ proc \in [Procs -> Local]
    /\ rounds \in 0..2
    /\ config \in Config
    /\ configAt \in 1..Len(ConfigFiles)
    /\ spent \in [requests : 0..MaxRequests, faults : 0..MaxFaults,
                  crashes : 0..MaxCrashes]

RefreshInit ==
    /\ proc = [p \in Procs |-> Idle]
    /\ rounds = 0
    /\ config = NoConfig
    /\ configAt = 1
    /\ spent = [requests |-> 0, faults |-> 0, crashes |-> 0]

-----------------------------------------------------------------------------

At(p, label) == proc[p].pc = label

Become(p, state) == proc' = [proc EXCEPT ![p] = state]

Goto(p, label) == Become(p, [proc[p] EXCEPT !.pc = label])

\* refreshCatalog returns to the loop over the catalogs.
Return(p, failed) ==
    Become(p, [Idle EXCEPT !.pc = "next", !.plan = proc[p].plan,
                           !.todo = proc[p].todo,
                           !.failed = proc[p].failed \/ failed])

Others == <<rounds, config, configAt, spent>>

D(p) == DirOf(proc[p].cat)

\* autoRefresh passes update=false in the first call after a start only; a
\* refresh request always passes true.
Updating(p) == p # AutoRefresh \/ rounds = 2

Items(S) == {[id |-> r.id, cat |-> r.cat] : r \in S}

ConfigItems == {[id |-> 0,
                 cat |-> [env |-> Global, name |-> n, src |-> config[n].src,
                          pin |-> config[n].pin, commit |-> NoCommit]]
                  : n \in DOMAIN config}

-----------------------------------------------------------------------------
(* RefreshAll and Refresh: which catalogs are refreshed, in which order.   *)

\* --validate-only makes a single call, with update=true, and exits.
AutoTick ==
    /\ At(AutoRefresh, "idle")
    /\ rounds < 2 \/ (Periodic /\ ~Strict)
    /\ Become(AutoRefresh, [proc[AutoRefresh] EXCEPT !.pc = "scope",
                                                     !.plan = <<Global, All>>])
    /\ rounds' = IF rounds < 2 /\ ~Strict THEN rounds + 1 ELSE 2
    /\ UNCHANGED <<storeVars, gitVars, config, configAt, spent>>

RefreshTemplates(h, e) ==
    /\ At(h, "idle") /\ ~Strict
    /\ spent.requests < MaxRequests
    /\ spent' = [spent EXCEPT !.requests = @ + 1]
    /\ Become(h, [proc[h] EXCEPT
                    !.pc = "scope",
                    !.plan = IF e = Global THEN <<e>> ELSE <<e, Global>>])
    /\ UNCHANGED <<storeVars, gitVars, rounds, config, configAt>>

\* Mutant: the file is read in the first refresh only.
ReadConfigOnce(p) ==
    /\ At(p, "scope")
    /\ Head(proc[p].plan) = Global
    /\ config' = IF config = NoConfig THEN ConfigFiles[configAt] ELSE config
    /\ Goto(p, "find")
    /\ UNCHANGED <<storeVars, gitVars, rounds, configAt, spent>>

\* A config without "catalogs" is the empty function: every name is gone.
ReadConfig(p) ==
    /\ At(p, "scope")
    /\ Head(proc[p].plan) = Global
    /\ config' = ConfigFiles[configAt]
    /\ Goto(p, "find")
    /\ UNCHANGED <<storeVars, gitVars, rounds, configAt, spent>>

FindGlobalCatalogs(p) ==
    /\ At(p, "find")
    /\ Become(p, [proc[p] EXCEPT
                    !.pc = "prune",
                    !.todo = Items({r \in rows : r.cat.env = Global})])
    /\ UNCHANGED <<storeVars, gitVars, Others>>

\* removeCatalogsNotInConfig deletes row by row, and looks at m.config anew
\* for each of them.
RemoveCatalogNotInConfig(p) ==
    /\ At(p, "prune")
    /\ \E i \in proc[p].todo :
         /\ Become(p, [proc[p] EXCEPT !.todo = proc[p].todo \ {i}])
         /\ IF i.cat.name \in DOMAIN config
            THEN UNCHANGED storeVars
            ELSE DeleteCatalogs({Global}, i.cat.name)
    /\ UNCHANGED <<gitVars, Others>>

RangeConfig(p) ==
    /\ At(p, "prune")
    /\ proc[p].todo = {}
    /\ Become(p, [proc[p] EXCEPT !.pc = "next", !.todo = ConfigItems])
    /\ UNCHANGED <<storeVars, gitVars, Others>>

\* Mutant: the "" of RefreshAll is taken for an environment.
LookupCatalogsOf(p) ==
    /\ At(p, "scope")
    /\ Head(proc[p].plan) # Global
    /\ LET e == Head(proc[p].plan)
       IN  Become(p, [proc[p] EXCEPT
                        !.pc = "next",
                        !.todo = Items({r \in rows : r.cat.env = e})])
    /\ UNCHANGED <<storeVars, gitVars, Others>>

LookupCatalogs(p) ==
    /\ At(p, "scope")
    /\ Head(proc[p].plan) # Global
    /\ LET e == Head(proc[p].plan)
       IN  Become(p, [proc[p] EXCEPT
                        !.pc = "next",
                        !.todo = Items({r \in rows : e \in {All, r.cat.env}})])
    /\ UNCHANGED <<storeVars, gitVars, Others>>

NextCatalog(p) ==
    /\ At(p, "next")
    /\ \E i \in proc[p].todo :
         Become(p, [proc[p] EXCEPT
                      !.todo = proc[p].todo \ {i}, !.cat = i.cat,
                      !.pc = IF Head(proc[p].plan) = Global
                             THEN "lookup" ELSE "prepare"])
    /\ UNCHANGED <<storeVars, gitVars, Others>>

\* The catalogs of one scope are done; an error keeps RefreshAll, or the
\* handler, from the next scope.
ScopeDone(p) ==
    /\ At(p, "next")
    /\ proc[p].todo = {}
    /\ IF proc[p].failed \/ Len(proc[p].plan) <= 1
       THEN Become(p, Idle)
       ELSE Become(p, [proc[p] EXCEPT !.pc = "scope", !.plan = Tail(proc[p].plan)])
    /\ UNCHANGED <<storeVars, gitVars, Others>>

\* Mutant: the stored row is taken whatever its URL, branch and pin.
LookupCatalogByName(p) ==
    /\ At(p, "lookup")
    /\ LET found == Named(Global, proc[p].cat.name)
       IN  Become(p, [proc[p] EXCEPT
                        !.pc = "prepare",
                        !.cat = IF found = {} THEN proc[p].cat ELSE First(found).cat])
    /\ UNCHANGED <<storeVars, gitVars, Others>>

\* A config catalog goes on as the stored row when the row has its URL,
\* branch and pin, and as a catalog never indexed otherwise.
LookupCatalog(p) ==
    /\ At(p, "lookup")
    /\ LET cat   == proc[p].cat
           same  == {r \in Named(Global, cat.name) :
                       r = First(Named(Global, cat.name))
                         /\ r.cat.src = cat.src /\ r.cat.pin = cat.pin}
       IN  Become(p, [proc[p] EXCEPT
                        !.pc = "prepare",
                        !.cat = IF same = {} THEN cat ELSE First(same).cat])
    /\ UNCHANGED <<storeVars, gitVars, Others>>

-----------------------------------------------------------------------------
(* prepareGitRepoPath: bring the cache directory to the wanted commit.     *)

DirEmpty(p) ==
    /\ At(p, "prepare")
    /\ LET cat == proc[p].cat
       IN  IF <<cat.src, cat.pin>> \in Refused THEN Return(p, TRUE)
           ELSE Goto(p, IF ~dirs[D(p)].exists THEN "clone"
                        ELSE IF cat.pin # NoPin THEN "pinHead"
                        ELSE IF Updating(p) THEN "remote" ELSE "head")
    /\ UNCHANGED <<storeVars, gitVars, Others>>

StartClone(p) ==
    /\ At(p, "clone")
    /\ \/ CloneInit(D(p)) /\ Goto(p, "cloneFetch")
       \/ dirs[D(p)].exists /\ Return(p, TRUE) /\ UNCHANGED gitVars
    /\ UNCHANGED <<storeVars, Others>>

FetchClone(p) ==
    /\ At(p, "cloneFetch")
    /\ CloneFetch(D(p))
    /\ Become(p, [proc[p] EXCEPT !.pc = "cloneLock", !.target = remote[D(p)[2]]])
    /\ UNCHANGED <<storeVars, Others>>

\* Mutant: the branch, not HEAD, tells that there is nothing to write.
StartCheckoutByRef(p, c, initial, label) ==
    \/ /\ CanCheckout(D(p), c)
       /\ Lock(D(p))
       /\ Become(p, [proc[p] EXCEPT
                       !.pc = label, !.target = c,
                       !.at = IF ~initial /\ dirs[D(p)].ref = c
                              THEN NumTemplates + 1 ELSE 1])
    \/ ~CanCheckout(D(p), c) /\ Return(p, TRUE) /\ UNCHANGED gitVars

\* A checkout of c: fails when c is not in the clone or index.lock is taken,
\* and has nothing to write when HEAD is there already (an initial checkout
\* writes everything).
StartCheckout(p, c, initial, label) ==
    \/ /\ CanCheckout(D(p), c)
       /\ Lock(D(p))
       /\ Become(p, [proc[p] EXCEPT
                       !.pc = label, !.target = c,
                       !.at = IF ~initial /\ dirs[D(p)].head = c
                              THEN NumTemplates + 1 ELSE 1])
    \/ ~CanCheckout(D(p), c) /\ Return(p, TRUE) /\ UNCHANGED gitVars

PopulateClone(p) ==
    /\ At(p, "cloneLock")
    /\ StartCheckout(p, proc[p].target, TRUE, "cloneWrite")
    /\ UNCHANGED <<storeVars, Others>>

PinnedHeadCommit(p) ==
    /\ At(p, "pinHead")
    /\ LET head == dirs[D(p)].head
       IN  IF head = 0 THEN Return(p, TRUE)
           ELSE Goto(p, IF head = proc[p].cat.pin THEN "head" ELSE "pinLock")
    /\ UNCHANGED <<storeVars, gitVars, Others>>

CheckoutCommit(p) ==
    /\ At(p, "pinLock")
    /\ StartCheckout(p, proc[p].cat.pin, FALSE, "write")
    /\ UNCHANGED <<storeVars, Others>>

\* Mutant: the status of the answer is not looked at.
RemoteShaIgnored(p) ==
    /\ At(p, "remote")
    /\ Goto(p, IF proc[p].cat.src \in GitHub THEN "head" ELSE "fetch")
    /\ UNCHANGED <<storeVars, gitVars, Others>>

\* The question is asked with the commit of the catalog's row, not with the
\* HEAD of the directory.  Any answer but 304, and any error but a timeout
\* (see Fault), counts as changed.
RemoteShaChanged(p) ==
    /\ At(p, "remote")
    /\ LET cat == proc[p].cat
           notModified == cat.src \in GitHub /\ remote[cat.src] = cat.commit
       IN  \/ Goto(p, IF notModified THEN "head" ELSE "fetch") /\ UNCHANGED spent
           \/ /\ notModified
              /\ spent.faults < MaxFaults
              /\ spent' = [spent EXCEPT !.faults = @ + 1]
              /\ Goto(p, "fetch")
    /\ UNCHANGED <<storeVars, gitVars, rounds, config, configAt>>

UpdateFetch(p) ==
    /\ At(p, "fetch")
    /\ \/ dirs[D(p)].exists /\ Fetch(D(p)) /\ Goto(p, "refLock")
       \/ ~dirs[D(p)].exists /\ Return(p, TRUE) /\ UNCHANGED gitVars
    /\ UNCHANGED <<storeVars, Others>>

UpdateCheckout(p) ==
    /\ At(p, "refLock")
    /\ StartCheckout(p, dirs[D(p)].ref, FALSE, "write")
    /\ UNCHANGED <<storeVars, Others>>

WriteTree(p) ==
    /\ proc[p].pc \in Writing
    /\ proc[p].at <= NumTemplates
    /\ WriteTemplate(D(p), proc[p].at, proc[p].target)
    /\ Become(p, [proc[p] EXCEPT !.at = proc[p].at + 1])
    /\ UNCHANGED <<storeVars, Others>>

\* Mutant: the files of the commit are checked out, HEAD stays.
CheckoutDoneFilesOnly(p) ==
    /\ proc[p].pc \in Writing
    /\ proc[p].at = NumTemplates + 1
    /\ Unlock(D(p))
    /\ Become(p, [proc[p] EXCEPT
                    !.at = 1, !.target = 0,
                    !.pc = IF At(p, "cloneWrite") /\ proc[p].cat.pin # NoPin
                           THEN "pinLock" ELSE "head"])
    /\ UNCHANGED <<storeVars, Others>>

\* After a clone a pinned catalog still has its commit to check out.
CheckoutDone(p) ==
    /\ proc[p].pc \in Writing
    /\ proc[p].at = NumTemplates + 1
    /\ IF At(p, "write") THEN MoveHead(D(p), proc[p].target) ELSE Unlock(D(p))
    /\ Become(p, [proc[p] EXCEPT
                    !.at = 1, !.target = 0,
                    !.pc = IF At(p, "cloneWrite") /\ proc[p].cat.pin # NoPin
                           THEN "pinLock" ELSE "head"])
    /\ UNCHANGED <<storeVars, Others>>

\* Mutant: the commit is that of the remote branch, HEAD is only checked.
HeadCommitOfBranch(p) ==
    /\ At(p, "head")
    /\ LET head == dirs[D(p)].head
           pin  == proc[p].cat.pin
       IN  IF head = 0 \/ (pin # NoPin /\ head # pin)
           THEN Return(p, TRUE)
           ELSE Become(p, [proc[p] EXCEPT !.pc = "compare",
                                          !.commit = dirs[D(p)].ref])
    /\ UNCHANGED <<storeVars, gitVars, Others>>

HeadCommit(p) ==
    /\ At(p, "head")
    /\ LET head == dirs[D(p)].head
           pin  == proc[p].cat.pin
       IN  IF head = 0 \/ (pin # NoPin /\ head # pin)
           THEN Return(p, TRUE)
           ELSE Become(p, [proc[p] EXCEPT !.pc = "compare", !.commit = head])
    /\ UNCHANGED <<storeVars, gitVars, Others>>

-----------------------------------------------------------------------------
(* The rest of refreshCatalog: index the working tree, replace the rows.   *)

\* Mutant: the same commit is enough to be up to date.
CompareCommits(p) ==
    /\ At(p, "compare")
    /\ IF proc[p].commit = proc[p].cat.commit
       THEN Return(p, FALSE)
       ELSE Goto(p, "traverse")
    /\ UNCHANGED <<storeVars, gitVars, Others>>

Compare(p) ==
    /\ At(p, "compare")
    /\ LET cat == proc[p].cat
       IN  IF proc[p].commit = cat.commit /\ HasTemplates(cat.env, cat.name)
           THEN Return(p, FALSE)
           ELSE Goto(p, "traverse")
    /\ UNCHANGED <<storeVars, gitVars, Others>>

\* The tree is read while others may be rewriting it.
TraverseTemplate(p) ==
    /\ At(p, "traverse")
    /\ proc[p].at <= NumTemplates
    /\ LET t == proc[p].at
           c == dirs[D(p)].tree[t]
           broken == <<t, c>> \in Broken
       IN  Become(p, [proc[p] EXCEPT
                        !.at = t + 1,
                        !.read = [proc[p].read EXCEPT
                                    ![t] = IF broken THEN Missing ELSE c],
                        !.errs = proc[p].errs \/ broken])
    /\ UNCHANGED <<storeVars, gitVars, Others>>

TraverseDone(p) ==
    /\ At(p, "traverse")
    /\ proc[p].at = NumTemplates + 1
    /\ IF Strict /\ proc[p].errs THEN Return(p, TRUE) ELSE Goto(p, "update")
    /\ UNCHANGED <<storeVars, gitVars, Others>>

\* Mutant: a create that fails leaves the deletes before it.
UpdateDbNoRollback(p) ==
    /\ At(p, "update")
    /\ LET cat == proc[p].cat
       IN  \/ ReplaceCatalog(cat, proc[p].commit, proc[p].read) /\ Return(p, FALSE)
           \/ DeleteCatalogs({cat.env}, cat.name) /\ Return(p, TRUE)
    /\ UNCHANGED <<gitVars, Others>>

\* Mutant: the settings are read again before they are written back.
UpdateDbRereads(p) ==
    /\ At(p, "update")
    /\ LET cat == proc[p].cat
           now == Named(cat.env, cat.name)
       IN  ReplaceCatalog(IF now = {} THEN cat ELSE First(now).cat,
                          proc[p].commit, proc[p].read)
    /\ Return(p, FALSE)
    /\ UNCHANGED <<gitVars, Others>>

UpdateDb(p) ==
    /\ At(p, "update")
    /\ ReplaceCatalog(proc[p].cat, proc[p].commit, proc[p].read)
    /\ Return(p, FALSE)
    /\ UNCHANGED <<gitVars, Others>>

-----------------------------------------------------------------------------
(* Failures, and what happens outside the service.                         *)

\* A timeout, a failed git command or traversal, a statement of updateDb
\* that fails and rolls the transaction back: the catalog is given up with
\* the database as it was.
GiveUp(p) ==
    \/ /\ proc[p].pc \in {"prepare", "clone", "pinHead", "remote", "fetch",
                          "head", "compare", "traverse", "update"}
       /\ Return(p, TRUE)
       /\ UNCHANGED gitVars
    \/ /\ At(p, "cloneFetch")
       /\ Return(p, TRUE)
       /\ CloneAbort(D(p))
    \/ /\ HalfDoneGit
       /\ proc[p].pc \in Writing
       /\ Return(p, TRUE)
       /\ Unlock(D(p))

\* Outside refreshCatalog: a config that cannot be read, a failed lookup of
\* the catalogs or a failed delete ends the whole refresh; the error of the
\* Find is not looked at, and a failed lookup counts as no such row.
Fault(p) ==
    /\ spent.faults < MaxFaults
    /\ spent' = [spent EXCEPT !.faults = @ + 1]
    /\ \/ GiveUp(p)
       \/ /\ At(p, "scope") \/ (At(p, "prune") /\ proc[p].todo # {})
          /\ Become(p, Idle)
          /\ UNCHANGED gitVars
       \/ At(p, "find") /\ Goto(p, "prune") /\ UNCHANGED gitVars
       \/ At(p, "lookup") /\ Goto(p, "prepare") /\ UNCHANGED gitVars
    /\ UNCHANGED <<storeVars, rounds, config, configAt>>

\* The process dies and is started again; the database and the cache
\* directories, index.lock included, stay.
Crash ==
    /\ spent.crashes < MaxCrashes
    /\ HalfDoneGit \/ \A p \in Procs : proc[p].pc \notin Writing \cup Cloning
    /\ spent' = [spent EXCEPT !.crashes = @ + 1]
    /\ proc' = [p \in Procs |-> Idle]
    /\ rounds' = 0
    /\ config' = NoConfig
    /\ UNCHANGED <<storeVars, gitVars, configAt>>

EditConfig ==
    /\ configAt < Len(ConfigFiles)
    /\ configAt' = configAt + 1
    /\ UNCHANGED <<storeVars, gitVars, proc, rounds, config, spent>>

PushBranch ==
    /\ \E s \in Sources, c \in Commits : Push(s, c)
    /\ UNCHANGED <<storeVars, refreshVars>>

-----------------------------------------------------------------------------

\* What a goroutine does once its refresh has begun, failures aside.
Proceed(p) ==
    \/ ReadConfig(p) \/ FindGlobalCatalogs(p) \/ RemoveCatalogNotInConfig(p)
    \/ RangeConfig(p) \/ LookupCatalogs(p) \/ NextCatalog(p) \/ ScopeDone(p)
    \/ LookupCatalog(p) \/ DirEmpty(p) \/ StartClone(p) \/ FetchClone(p)
    \/ PopulateClone(p) \/ PinnedHeadCommit(p) \/ CheckoutCommit(p)
    \/ RemoteShaChanged(p) \/ UpdateFetch(p) \/ UpdateCheckout(p)
    \/ WriteTree(p) \/ CheckoutDone(p) \/ HeadCommit(p) \/ Compare(p)
    \/ TraverseTemplate(p) \/ TraverseDone(p) \/ UpdateDb(p)

RefreshStep ==
    \/ AutoTick
    \/ \E h \in Handlers, e \in AllEnvs : RefreshTemplates(h, e)
    \/ \E p \in Procs : Proceed(p) \/ Fault(p)
    \/ EditConfig
    \/ PushBranch

RefreshNext == RefreshStep \/ Crash

Init == StoreInit /\ GitInit /\ RefreshInit

Spec == Init /\ [][RefreshNext]_vars

\* The goroutines are scheduled and what they wait for ends: git commands
\* (which run without a timeout), statements, HTTP calls; the ticker ticks.
Fairness ==
    /\ WF_vars(AutoTick)
    /\ \A p \in Procs : WF_vars(Proceed(p))

FairSpec == Spec /\ Fairness

-----------------------------------------------------------------------------
(* Properties.                                                             *)

TypeOK == StoreTypeOK /\ GitTypeOK /\ RefreshTypeOK

Legacy(r) == \E t \in Templates : r.index[t] = Unnamed

\* What the row of a catalog says was indexed is what was indexed: the
\* templates of a row are those of the commit in its commit column, all of
\* them and no others (refreshCatalog reads HEAD and then the tree).
HonestIndex ==
    \A r \in rows : r.cat.commit # NoCommit /\ ~Legacy(r)
                      => r.index = IndexOf(r.cat.commit)

IndexesAtPin ==
    \A r \in rows' : r.id >= nextId /\ r.cat.commit # NoCommit /\ r.cat.pin # NoPin
                       => r.cat.commit = r.cat.pin

\* A catalog with a pinned commit is only ever indexed at that commit,
\* whatever else uses the cache directory or moves the branch meanwhile
\* (the last check of prepareGitRepoPath).
PinHolds == [][IndexesAtPin]_vars

SameCatalog(r, q) ==
    Keyed(q, r.cat.env, r.cat.name) /\ q.cat.src = r.cat.src /\ q.cat.pin = r.cat.pin

KeepsCatalogs ==
    \A r \in rows :
      r.cat.env # Global \/ r.cat.name \in DOMAIN config
        => \E q \in rows' : Keyed(q, r.cat.env, r.cat.name)

\* To a reader a refresh replaces a catalog, it never takes one away: only a
\* global catalog that is no longer in the configuration disappears
\* (updateDb deletes and creates in one transaction).
RefreshKeepsCatalogs == [][KeepsCatalogs]_vars

\* Every template of a commit parses.
Parses(c) == \A t \in Templates : <<t, Content(c)[t]>> \notin Broken

\* With --validate-only a catalog that has a template that does not parse
\* never gets into the database, and stays as it was if it is there (the
\* strict return between traverseFiles and updateDb, which goes by errors met
\* in a working tree and not by the commit that is recorded).
StrictKeepsOut ==
    [][Strict => \A r \in rows' : r.id >= nextId => Parses(r.cat.commit)]_vars

Wanted(cat) == IF cat.pin # NoPin THEN cat.pin ELSE remote[cat.src]

\* Once pushes, edits and failures stop, the automatic refresh brings every
\* catalog to the head of its branch (or to its pin) and leaves it there
\* with that commit's templates, rows of old releases with unnamed templates
\* included.
Converges ==
    <>[](\A r \in rows : /\ r.cat.commit = Wanted(r.cat)
                         /\ r.index = IndexOf(Wanted(r.cat)))

\* The global catalogs settle on what the configuration file lists, from the
\* sources it lists, even when a refresh that began under an older file is
\* still at work.
GlobalsFollowConfig ==
    <>[](LET file == ConfigFiles[configAt]
         IN  {<<r.cat.name, r.cat.src, r.cat.pin>>
                : r \in {q \in rows : q.cat.env = Global}}
             = {<<n, file[n].src, file[n].pin>> : n \in DOMAIN file})

\* Both of them where refreshes race and may also fail, when none does: a git
\* command that stopped half way may have left a directory that no later
\* refresh mends.
NothingFails == [](spent.faults = 0)
ConvergesUnfailing == NothingFails => Converges
GlobalsFollowUnfailing == NothingFails => GlobalsFollowConfig

-----------------------------------------------------------------------------
(* The inductive invariants the proofs rest on.                            *)

\* A goroutine that indexes a pinned catalog holds the pin as the commit it is
\* going to record.
PinPrepared ==
    \A p \in Procs :
      proc[p].pc \in Indexing /\ proc[p].cat.pin # NoPin
        => proc[p].commit = proc[p].cat.pin

\* What any number of refreshes preserve.
RefreshInv == TypeOK /\ IdsFresh /\ PinPrepared

\* A working copy no git command is at work in: what HEAD names, if it names
\* anything, is what the tree holds.
Clean(w) == ~w.locked /\ (w.head # NoCommit => w.tree = Content(w.head))

CachesClean == \A k \in DirKeys : Clean(dirs[k])

\* The tree is written, and the index read, up to the template at.
Written(g, w) ==
    \A t \in Templates : t < g.at => w.tree[t] = Content(g.target)[t]

Read(g) == \A t \in Templates : t < g.at => g.read[t] = IndexOf(g.commit)[t]

\* What a refresh alone in its caches preserves.  Every directory but the one
\* a git command is at work in is clean; step by step its tree becomes the
\* commit, HEAD is set to it, and the index is read from it.
SoloOK(g, ds) ==
    LET own == DirOf(g.cat)
        w   == ds[own]
    IN  /\ \A k \in DirKeys :
             ~Clean(ds[k]) => g.pc \in Writing \cup Cloning /\ k = own
        /\ g.pc \in Cloning => ~w.locked
        /\ g.pc = "cloneLock" => g.target \in w.objs
        /\ g.pc \in {"cloneLock", "cloneWrite"} => w.head = g.target
        /\ g.pc \in Writing => Written(g, w)
        /\ g.pc \in Indexing => w.head = g.commit /\ g.commit # NoCommit
        /\ g.pc \in {"traverse", "update"} => Read(g)
        /\ g.pc = "update" => g.at = NumTemplates + 1
        /\ g.pc \notin Writing \cup {"traverse", "update"} => g.at = 1

SoloInv == SoloOK(proc[AutoRefresh], dirs)

\* What a strict refresh goes by: no error yet, and what it has traversed of the
\* commit parses.
StrictOK(g) ==
    /\ g.pc \in {"traverse", "update"} /\ ~g.errs =>
         \A t \in Templates : t < g.at => <<t, Content(g.commit)[t]>> \notin Broken
    /\ g.pc = "update" /\ Strict => ~g.errs

StrictInv == StrictOK(proc[AutoRefresh])

-----------------------------------------------------------------------------
(* With one refresh at a time the service implements CatalogView.          *)

View == INSTANCE CatalogView WITH
          view <- {[cat |-> r.cat, index |-> r.index] : r \in rows},
          heads <- remote

\* Readers see whole catalogs replaced one by one, each by the exact index of
\* a commit its branch has had, or of its pin, never an older one (all of
\* refreshCatalog, against the abstract table).
ImplementsView == View!ViewSpec

\* Of a source without a pin, no working copy is ahead of the branch and no row
\* ahead of either; an empty clone (HEAD fails) is behind every row.
CopyBehind(k) ==
    k[3] = NoPin => dirs[k].head <= remote[k[2]] /\ dirs[k].ref <= remote[k[2]]

RowBehind(r) ==
    LET cat == r.cat
        w   == dirs[DirOf(cat)]
    IN  /\ cat.pin # NoPin => cat.commit <= cat.pin
        /\ cat.pin = NoPin => /\ cat.commit <= remote[cat.src]
                              /\ w.head # NoCommit => cat.commit <= w.head

NothingAhead ==
    /\ \A k \in DirKeys : CopyBehind(k)
    /\ \A r \in rows : RowBehind(r)

\* A checkout of c in directory k takes no row back.
Forward(k, c) ==
    k[3] = NoPin => /\ c <= remote[k[2]]
                    /\ \A r \in rows : DirOf(r.cat) = k => r.cat.commit <= c

\* A catalog of an environment that a refresh holds a copy of is still there.
Stored(cat) == cat.env # Global => \E r \in rows : View!SameSource(r.cat, cat)

\* What a refresh alone in its caches holds is neither ahead nor gone.
ViewOK(g, ds) ==
    /\ g.pc = "refLock" => Forward(DirOf(g.cat), ds[DirOf(g.cat)].ref)
    /\ g.pc \in Writing => Forward(DirOf(g.cat), g.target)
    /\ \A i \in g.todo : Stored(i.cat)
    /\ g.pc \notin {"idle", "scope", "find", "prune", "next"} => Stored(g.cat)

\* Of a refresh alone in its caches: every directory but the one git works in is
\* clean (SoloInv), and nothing that is stored, cloned or held on the way to the
\* table is ahead of its branch, which is what a step of CatalogView needs.
ViewInv ==
    /\ SoloInv
    /\ OneRowPerCatalog
    /\ NothingAhead
    /\ ViewOK(proc[AutoRefresh], dirs)

=============================================================================
