---------------------------- MODULE CatalogView -----------------------------
(***************************************************************************)
(* What a refresh promises to those who read the catalogs: a table of      *)
(* catalogs in which one entry at a time is replaced, as a whole, by one   *)
(* that is exactly the index of a commit its source has had, never older   *)
(* than the one replaced.  No cache directories, no goroutines, no ids.    *)
(***************************************************************************)
EXTENDS CatalogTypes

VARIABLES
    view,           \* the catalogs with their index
    heads           \* heads[s]: newest commit of the branch of s

viewVars == <<view, heads>>

Entries == [cat : Cat, index : Index]

SameKey(a, b) == a.env = b.env /\ a.name = b.name
SameSource(a, b) == SameKey(a, b) /\ a.src = b.src /\ a.pin = b.pin

ViewInit ==
    /\ view \subseteq Entries
    /\ \A v, w \in view : SameKey(v.cat, w.cat) => v = w
    /\ heads \in [Sources -> Commits]

\* A pinned catalog offers its pin, any other what its branch has had.
Offers(cat, c) == IF cat.pin # NoPin THEN c = cat.pin ELSE c <= heads[cat.src]

\* An environment's catalog keeps the settings it was given through the API,
\* a global one takes those of the configuration.
MayPublish(cat, c) ==
    /\ Offers(cat, c)
    /\ cat.env # Global => \E v \in view : SameSource(v.cat, cat)
    /\ \A v \in view : SameSource(v.cat, cat) => v.cat.commit <= c

Publish(cat, c) ==
    /\ MayPublish(cat, c)
    /\ view' = {v \in view : ~SameKey(v.cat, cat)}
                 \cup {[cat |-> [cat EXCEPT !.commit = c], index |-> IndexOf(c)]}
    /\ UNCHANGED heads

\* A global catalog leaves the configuration.
Retire(n) ==
    /\ view' = {v \in view : ~(v.cat.env = Global /\ v.cat.name = n)}
    /\ UNCHANGED heads

Advance(s, c) ==
    /\ c > heads[s]
    /\ heads' = [heads EXCEPT ![s] = c]
    /\ UNCHANGED view

ViewNext ==
    \/ \E cat \in Cat, c \in Commits : cat.commit = NoCommit /\ Publish(cat, c)
    \/ \E n \in Names : Retire(n)
    \/ \E s \in Sources, c \in Commits : Advance(s, c)

ViewSpec == ViewInit /\ [][ViewNext]_viewVars

=============================================================================
