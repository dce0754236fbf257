-------------------------- MODULE MCCatalogRefresh --------------------------
(***************************************************************************)
(* Small instances of CatalogRefresh: two sources, one environment, at     *)
(* most three catalogs, two template folders, two or three commits.        *)
(***************************************************************************)
EXTENDS CatalogRefresh, TLC

CONSTANTS e1, n1, n2, s1, s2, h1

CatIn(e, n, s, pin, commit) ==
    [env |-> e, name |-> n, src |-> s, pin |-> pin, commit |-> commit]

RowOf(id, cat, index) == [id |-> id, cat |-> cat, index |-> index]

\* One catalog of an environment, created but not refreshed yet.
OneNewRow == {RowOf(1, CatIn(e1, n1, s1, 0, 0), Nothing)}

\* An environment's catalog at commit 1 and a global one left by a release
\* that stored templates without a folder name.
LegacyRows ==
    {RowOf(1, CatIn(e1, n1, s1, 0, 1), IndexOf(1)),
     RowOf(2, CatIn(Global, n2, s2, 0, 1), [t \in Templates |-> Unnamed])}

ColdDirs == [d \in DirKeys |-> EmptyDir]

\* Pinned ones were cloned when the branch was, for a while, at its second commit.
WarmBesidePins ==
    [d \in DirKeys |-> IF d[3] = NoPin THEN CleanDir(1)
                       ELSE [CleanDir(2) EXCEPT !.head = d[3], !.tree = Content(d[3])]]

FirstCommit == [s \in Sources |-> 1]

\* To another source, and to a commit of it that its branch may have passed.
GlobalMoves == << (n2 :> [src |-> s2, pin |-> NoPin]),
                  (n2 :> [src |-> s1, pin |-> 1]) >>
PinnedGlobalGoes == << (n2 :> [src |-> s1, pin |-> 1]), NoConfig >>

None == {}
SecondAbsent == {<<2, 2>>}
OldBroken == {<<1, 1>>}

=============================================================================
