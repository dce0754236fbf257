-------------------------- MODULE MCTemplateQueries --------------------------
(***************************************************************************)
(* A small instance of TemplateQueries: one environment with two catalogs  *)
(* beside one global catalog, requests one after the other whose names     *)
(* meet, refreshes, and a GET of each kind.                                *)
(***************************************************************************)
EXTENDS TemplateQueries

CONSTANTS e1, n1, n2, n3, s1

CatIn(e, n, s, pin, commit) ==
    [env |-> e, name |-> n, src |-> s, pin |-> pin, commit |-> commit]

\* Two catalogs of the environment, indexed, and a global one.
ThreeRows ==
    {[id |-> 1, cat |-> CatIn(e1, n1, s1, 0, 1), index |-> IndexOf(1)],
     [id |-> 2, cat |-> CatIn(e1, n2, s1, 0, 1), index |-> IndexOf(1)],
     [id |-> 3, cat |-> CatIn(Global, n3, s1, 0, 1), index |-> IndexOf(1)]}

InConfiguration == {CatIn(Global, n3, s1, 0, 0)}

NewCatalogs == {CatIn(e1, n, s1, 0, 0) : n \in {n1, n3}}

Put(n, name, pin) ==
    [env |-> e1, name |-> n, new |-> [name |-> name, src |-> Empty, pin |-> pin]]

\* Renames within the environment, and a pin.
Renames == {Put(n1, n2, 0), Put(n2, n2, 1)}

Removals == {[env |-> e1, name |-> n] : n \in Names}

\* The second template is in the category, from the second commit on not.
InCategory == {<<2, 1>>}

Ask(kind, name, category) ==
    [kind |-> kind, env |-> e1, name |-> name, category |-> category, template |-> 2]

Gets == {Ask("templates", AnyName, "any"), Ask("templates", n1, "is"),
         Ask("catalogTemplates", n1, "isNot"),
         Ask("template", n1, "any"), Ask("version", n1, "any")}

=============================================================================
