--------------------------- MODULE CatalogService ---------------------------
(***************************************************************************)
(* The whole service: the refreshing goroutines of CatalogRefresh and the  *)
(* requests of CatalogAPI over one catalog table, with nothing but the     *)
(* atomicity of the database's statements and transactions between them.   *)
(***************************************************************************)
EXTENDS CatalogRefresh, CatalogAPI

serviceVars == <<vars, apiVars>>

ServiceInit == Init /\ ApiInit

\* A crash takes the requests in progress with it.
ServiceCrash ==
    /\ Crash
    /\ call' = [c \in Clients |-> NoCall]
    /\ UNCHANGED calls

ServiceNext ==
    \/ RefreshStep /\ UNCHANGED apiVars
    \/ ServiceCrash
    \/ ApiNext /\ UNCHANGED <<gitVars, refreshVars>>

ServiceSpec == ServiceInit /\ [][ServiceNext]_serviceVars

\* Request handlers run to their end like the refreshes do.
ServiceFairness ==
    /\ WF_serviceVars(AutoTick /\ UNCHANGED apiVars)
    /\ \A p \in Procs : WF_serviceVars(Proceed(p) /\ UNCHANGED apiVars)
    /\ \A c \in Clients : WF_serviceVars(Serve(c) /\ UNCHANGED <<gitVars, refreshVars>>)

ServiceFairSpec == ServiceSpec /\ ServiceFairness

-----------------------------------------------------------------------------
(* Properties.                                                             *)

\* What a refresh writes for a catalog of an environment has the settings
\* that catalog has in the table at that moment: an edited catalog keeps the
\* edit and a deleted one stays deleted (refreshCatalog works for long on a
\* copy of the row, which updateDb then writes back).
RefreshKeepsEdits ==
    [][\A q \in rows' :
         q.id >= nextId /\ q.cat.commit # NoCommit /\ q.cat.env # Global
           => \E r \in rows : SameCatalog(r, q)]_serviceVars

-----------------------------------------------------------------------------
(* The inductive invariant the proofs rest on.                             *)

\* What refreshes and requests preserve together.
ServiceInv == RefreshInv /\ ApiTypeOK /\ CreatesNamed

=============================================================================
