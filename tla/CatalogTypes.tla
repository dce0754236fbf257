---------------------------- MODULE CatalogTypes ----------------------------
(***************************************************************************)
(* The values every part of the catalog service shares: a catalog as the   *)
(* Go type model.Catalog carries it, the commits of the repositories it is *)
(* read from, and the index (the template rows) a refresh makes of a       *)
(* commit.                                                                 *)
(*                                                                         *)
(* Commits are the positions of one linear history, so that two branches   *)
(* (two sources) may share commits; 0 stands for the empty string in the   *)
(* columns commit_id and pinned_commit.  A template folder is told apart   *)
(* only by the commit its files were written by.                           *)
(***************************************************************************)
EXTENDS Integers, FiniteSets

CONSTANTS
    Envs,           \* environments (projects) other than the global one
    Global,         \* the environment id "global"
    Names,          \* catalog names
    Sources,        \* what is cloned: a URL with its branch
    MaxCommit,      \* length of the history
    NumTemplates,   \* template folders a repository may hold
    Absent,         \* <<t, c>>: commit c has no folder for template t
    Broken          \* <<t, c>>: in commit c the config of t does not parse

ASSUME NamesAssumption == Names # {} /\ Sources # {}
ASSUME BoundsAssumption == MaxCommit \in Nat \ {0} /\ NumTemplates \in Nat \ {0}

AllEnvs == Envs \cup {Global}

NoCommit == 0
NoPin    == 0
Missing  == 0
Unnamed  == -1   \* a template row with a blank folder_name, left by old releases

Commits   == 1..MaxCommit
Templates == 1..NumTemplates

Cat == [env : AllEnvs, name : Names, src : Sources,
        pin : 0..MaxCommit, commit : 0..MaxCommit]

Index == [Templates -> Unnamed..MaxCommit]

Nothing == [t \in Templates |-> Missing]

\* The zero value of model.Catalog, where no catalog is being worked on.
NoCat == CHOOSE c \in Cat : TRUE

\* The working tree of commit c, and the index a refresh is to make of it.
Content(c) == [t \in Templates |-> IF <<t, c>> \in Absent THEN Missing ELSE c]

IndexOf(c) == [t \in Templates |->
                 IF <<t, c>> \in Absent \cup Broken THEN Missing ELSE c]

=============================================================================
