----------------------------- MODULE CatalogAPI -----------------------------
(***************************************************************************)
(* The handlers that change catalogs: POST, PUT and DELETE under           *)
(* /v1-catalog/catalogs (service/catalog.go).  Each runs in the goroutine  *)
(* of its request; the checks and the write are separate statements with   *)
(* no transaction around them, and the table has no unique index, so       *)
(* anything may happen in between.  Requests refused before the first      *)
(* statement (400: no environment, unreadable body, missing name or url)   *)
(* change nothing and are left out.                                        *)
(***************************************************************************)
EXTENDS CatalogStore

CONSTANTS
    Clients,        \* requests that may be in progress at the same time
    Creates,        \* catalogs a POST may ask for: subset of Cat, no commit
    Updates,        \* PUTs: [env, name, new], new an Overlay
    Deletes,        \* DELETEs: [env, name]
    MaxCalls        \* bound: requests served

VARIABLES
    call,           \* the requests in progress
    calls           \* how many were begun

apiVars == <<call, calls>>

Body == [name : Names \cup {Empty}, src : Sources \cup {Empty},
         pin : 0..MaxCommit]

ASSUME ApiAssumption ==
    /\ Empty \notin Names /\ Empty \notin Sources
    /\ Creates \subseteq {c \in Cat : c.commit = NoCommit}
    /\ Updates \subseteq [env : AllEnvs, name : Names, new : Body]
    /\ Deletes \subseteq [env : AllEnvs, name : Names]
    /\ MaxCalls \in Nat

\* env and name are the request's environment and, but for a POST, the name
\* in its path.
Call == [pc : {"idle", "create", "insert", "dupGlobal", "dupEnv", "exists",
               "write"},
         env : AllEnvs, name : Names, new : Body]

NoCall == [pc |-> "idle", env |-> Global, name |-> CHOOSE n \in Names : TRUE,
           new |-> [name |-> Empty, src |-> Empty, pin |-> NoPin]]

ApiTypeOK ==
    /\ call \in [Clients -> Call]
    /\ calls \in 0..MaxCalls

ApiInit ==
    /\ call = [c \in Clients |-> NoCall]
    /\ calls = 0

-----------------------------------------------------------------------------

In(c, label) == call[c].pc = label

Proceeds(c, label) == call' = [call EXCEPT ![c].pc = label]

\* The response is written: 200, 404 or 422.
Responds(c) == call' = [call EXCEPT ![c] = NoCall]

\* A check: 422 or 404 when it fails, the next statement otherwise.
Check(c, label, ok, next) ==
    /\ In(c, label)
    /\ IF ok THEN Proceeds(c, next) ELSE Responds(c)
    /\ UNCHANGED <<storeVars, calls>>

Begin(c) ==
    /\ In(c, "idle")
    /\ calls < MaxCalls
    /\ calls' = calls + 1

StartCreate(c) ==
    /\ Begin(c)
    /\ \E cat \in Creates :
         call' = [call EXCEPT ![c] =
                    [pc |-> "create", env |-> cat.env, name |-> cat.name,
                     new |-> [name |-> cat.name, src |-> cat.src, pin |-> cat.pin]]]
    /\ UNCHANGED storeVars

\* Mutants: half of the condition.
IsDuplicateAmongGlobals(e, n) == Named(Global, n) # {}
IsDuplicateInEnv(e, n) == Named(e, n) # {}

\* isDuplicateName: in the environment or among the global ones.
IsDuplicateName(e, n) == Named(e, n) \cup Named(Global, n) # {}

CheckCreate(c) ==
    Check(c, "create", ~IsDuplicateName(call[c].env, call[c].new.name), "insert")

InsertCatalog(c) ==
    /\ In(c, "insert")
    /\ CreateCatalog([env |-> call[c].env, name |-> call[c].new.name,
                      src |-> call[c].new.src, pin |-> call[c].new.pin,
                      commit |-> NoCommit])
    /\ Responds(c)
    /\ UNCHANGED calls

\* Mutant: the old name is taken from the body.
StartUpdateByBody(c) ==
    /\ Begin(c)
    /\ \E u \in Updates :
         call' = [call EXCEPT ![c] = [pc |-> "dupGlobal", env |-> u.env,
                                      name |-> u.new.name, new |-> u.new]]
    /\ UNCHANGED storeVars

StartUpdate(c) ==
    /\ Begin(c)
    /\ \E u \in Updates :
         call' = [call EXCEPT ![c] = [pc |-> "dupGlobal", env |-> u.env,
                                      name |-> u.name, new |-> u.new]]
    /\ UNCHANGED storeVars

\* isDuplicateGlobalName: its query has one placeholder, for the name, and is
\* given the environment id first and the name second.  SQLite binds the
\* environment id and ignores the rest.
IsDuplicateGlobalName(e, n) == \E r \in rows : r.cat.env = Global /\ r.cat.name = e

CheckGlobalName(c) ==
    Check(c, "dupGlobal", ~IsDuplicateGlobalName(call[c].env, call[c].new.name),
          "dupEnv")

\* Mutant: the condition turned around.
IsDuplicateEnvNameKept(e, n, old) == n = old /\ Named(e, n) # {}

\* isDuplicateEnvName: keeping the name is no duplicate.
IsDuplicateEnvName(e, n, old) == n # old /\ Named(e, n) # {}

CheckEnvName(c) ==
    Check(c, "dupEnv",
          ~IsDuplicateEnvName(call[c].env, call[c].new.name, call[c].name),
          "exists")

CheckExists(c) ==
    Check(c, "exists", Named(call[c].env, call[c].name) # {}, "write")

UpdateCatalog(c) ==
    /\ In(c, "write")
    /\ UpdateCatalogs(call[c].env, call[c].name, call[c].new)
    /\ Responds(c)
    /\ UNCHANGED calls

\* DELETE asked in an environment also removes the global catalog of that
\* name.
DeleteCatalog(c) ==
    /\ Begin(c)
    /\ \E d \in Deletes : DeleteCatalogs({d.env, Global}, d.name)
    /\ UNCHANGED call

Serve(c) ==
    \/ CheckCreate(c) \/ InsertCatalog(c)
    \/ CheckGlobalName(c) \/ CheckEnvName(c) \/ CheckExists(c)
    \/ UpdateCatalog(c)

ApiNext ==
    \E c \in Clients : StartCreate(c) \/ StartUpdate(c) \/ DeleteCatalog(c) \/ Serve(c)

ApiInitAll == StoreInit /\ ApiInit

ApiSpec == ApiInitAll /\ [][ApiNext]_<<storeVars, apiVars>>

-----------------------------------------------------------------------------
(* Properties.                                                             *)

\* A name an environment uses is not the name of a global catalog as well:
\* createCatalog and updateCatalog both answer 422 "Catalog name ... already
\* exists" for it, since a lookup by name could not tell the two apart.
NoShadow ==
    \A r, q \in rows : r.cat.env = Global /\ q.cat.env # Global
                         => r.cat.name # q.cat.name

-----------------------------------------------------------------------------
(* The inductive invariant the proofs rest on.                             *)

\* A create goes on with the name and the URL its body was found to have.
CreatesNamed ==
    \A c \in Clients : call[c].pc \in {"create", "insert"}
                         => call[c].new.name # Empty /\ call[c].new.src # Empty

ApiInv == StoreTypeOK /\ IdsFresh /\ ApiTypeOK /\ CreatesNamed

=============================================================================
