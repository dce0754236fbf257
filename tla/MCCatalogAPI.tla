---------------------------- MODULE MCCatalogAPI ----------------------------
(***************************************************************************)
(* Small instances of CatalogAPI alone: one environment with one catalog   *)
(* beside one global catalog, and requests whose names meet.               *)
(***************************************************************************)
EXTENDS CatalogAPI

CONSTANTS e1, n1, n2, n3, s1, s2

CatIn(e, n, s, pin, commit) ==
    [env |-> e, name |-> n, src |-> s, pin |-> pin, commit |-> commit]

\* A catalog of the environment, indexed, and a global one.
TwoRows ==
    {[id |-> 1, cat |-> CatIn(e1, n1, s1, 0, 1), index |-> IndexOf(1)],
     [id |-> 2, cat |-> CatIn(Global, n3, s2, 0, 1), index |-> IndexOf(1)]}

NewCatalogs == {CatIn(e1, n, s, 0, 0) : n \in Names, s \in Sources}

Put(n, name, src, pin) ==
    [env |-> e1, name |-> n, new |-> [name |-> name, src |-> src, pin |-> pin]]

\* Renames within the environment, a change of source and a pin.
Renames == {Put(n1, n2, Empty, 0), Put(n2, n1, s2, 0), Put(n2, n2, Empty, 1),
            Put(n1, Empty, s2, 0)}

RenameToGlobal == {Put(n1, n3, Empty, 0)}

Removals == {[env |-> e1, name |-> n] : n \in Names}

None == {}

=============================================================================
