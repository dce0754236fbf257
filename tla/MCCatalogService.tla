-------------------------- MODULE MCCatalogService --------------------------
(***************************************************************************)
(* Small instances of CatalogService and, with no refresh, of CatalogAPI:  *)
(* one environment, at most four catalogs, requests that meet them.        *)
(***************************************************************************)
EXTENDS CatalogService, TLC

CONSTANTS e1, n1, n2, n3, s1, s2

CatIn(e, n, s, pin, commit) ==
    [env |-> e, name |-> n, src |-> s, pin |-> pin, commit |-> commit]

RowOf(id, cat, index) == [id |-> id, cat |-> cat, index |-> index]

OneRow == {RowOf(1, CatIn(e1, n1, s1, 0, 1), IndexOf(1))}

\* The branches are cloned, pinned commits were never asked for.
WarmDirs == [d \in DirKeys |-> IF d[3] = NoPin THEN CleanDir(1) ELSE EmptyDir]
FirstCommit == [s \in Sources |-> 1]

NoGlobals == << NoConfig >>
Body1(n, s, pin) == [name |-> n, src |-> s, pin |-> pin]
Put(e, n, body) == [env |-> e, name |-> n, new |-> body]

NewCatalogs == {CatIn(e1, n1, s2, 0, 0), CatIn(e1, n2, s1, 0, 0)}
\* A rename that moves the source as well, a pin, and a change of nothing but
\* the source.
Edits == {Put(e1, n1, Body1(n2, s2, 0)), Put(e1, n2, Body1(Empty, Empty, 1)),
          Put(e1, n1, Body1(Empty, s2, 0))}

Removals == {[env |-> e1, name |-> n1], [env |-> e1, name |-> n2]}
=============================================================================
