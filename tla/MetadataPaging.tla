--------------------------- MODULE MetadataPaging ---------------------------
(***************************************************************************)
(* GET /v1-catalog/ai/templates (internal/aimetadata/handler.go,           *)
(* source.go, identity.go): a client lists the templates its project sees  *)
(* page by page, with a marker that names the last row it was given and    *)
(* that row's logical identity.  A page takes one statement, or two when   *)
(* it goes on from a marker, and the tables may change before each.        *)
(* Requests refused before the first statement (method, caller, project,   *)
(* malformed query: 403, 405, 422) read nothing and are left out.          *)
(***************************************************************************)
EXTENDS MetadataTables

CONSTANTS
    PageSize,
    Matching,       \* folders whose template has a name the query matches
    UnsafeKeys      \* folders of sources whose names are no keys: safeTemplateKey

VARIABLES
    list,           \* the listing: where it is, and its marker
    seen,           \* identities the client was given
    stable          \* identities to be listed ever since it began

pagingVars == <<list, seen, stable>>
listingVars == <<tableVars, pagingVars>>

ASSUME PagingAssumption ==
    /\ PageSize \in Nat \ {0}
    /\ Matching \subseteq Folders
    /\ UnsafeKeys \subseteq Sources \X Folders

NoMarker == [id |-> 0, identity |-> << >>]

PagingTypeOK ==
    /\ list \in [pc : {"idle", "anchor", "page", "end", "stale", "unavailable"},
                 marker : [id : Nat \ {0}, identity : Identities] \cup {NoMarker}]
    /\ list.marker.id <= lastId
    /\ seen \subseteq Identities
    /\ stable \subseteq Identities

PagingInit ==
    /\ list = [pc |-> "idle", marker |-> NoMarker]
    /\ seen = {}
    /\ stable = {}

-----------------------------------------------------------------------------

Listed == {t \in Visible : t.folder \in Matching}

\* Mutant: the row of the marker is listed again.
AfterOrAt(id) == {t \in Listed : t.id >= id}

After(id) == {t \in Listed : t.id > id}

Ends(pc) == list' = [list EXCEPT !.pc = pc]

StartListing ==
    /\ list.pc = "idle"
    /\ list' = [pc |-> "page", marker |-> NoMarker]
    /\ seen' = {}
    /\ stable' = IdentitiesIn(Listed)
    /\ UNCHANGED tableVars

\* The row of the marker is read again and has to have the identity it had.
ReadAnchor ==
    /\ list.pc = "anchor"
    /\ LET anchor == {t \in Visible : t.id = list.marker.id}
       IN  Ends(IF ~Identified(anchor) THEN "unavailable"
                ELSE IF IdentitiesIn(anchor) = {list.marker.identity} THEN "page"
                ELSE "stale")
    /\ UNCHANGED <<tableVars, seen, stable>>

\* One row more than the page is read, to know whether there are more.
Lookahead == Limit(After(list.marker.id), PageSize + 1)

Page == Limit(Lookahead, PageSize)

\* Mutant: the marker is of the row that was only looked at.
LookaheadMarker == [id |-> LastOf(Lookahead).id, identity |-> Identity(LastOf(Lookahead))]

PageMarker == [id |-> LastOf(Page).id, identity |-> Identity(LastOf(Page))]

\* The source identifies every row, and the handler gives no identity twice and
\* no row whose folder is no safe key.
Readable == /\ Identified(Lookahead)
            /\ \A t \in Lookahead : <<t.src, t.folder>> \notin UnsafeKeys
            /\ Cardinality(IdentitiesIn(Lookahead)) = Cardinality(Lookahead)

ReadUnavailable ==
    /\ list.pc = "page" /\ ~Readable
    /\ Ends("unavailable")
    /\ UNCHANGED <<tableVars, seen, stable>>

\* A page with a marker is followed by a request with that marker.
ReadPage ==
    /\ list.pc = "page" /\ Readable
    /\ seen' = seen \cup IdentitiesIn(Page)
    /\ IF Lookahead = Page THEN Ends("end")
       ELSE list' = [pc |-> "anchor", marker |-> PageMarker]
    /\ UNCHANGED <<tableVars, stable>>

ListingStep == StartListing \/ ReadAnchor \/ ReadUnavailable \/ ReadPage

TablesChangeMeanwhile ==
    /\ TableNext
    /\ stable' = stable \cap IdentitiesIn(Listed)'
    /\ UNCHANGED <<list, seen>>

ListingNext == ListingStep \/ TablesChangeMeanwhile

ListingInit == TableInit /\ PagingInit

ListingSpec == ListingInit /\ [][ListingNext]_listingVars

\* The server answers, and the client goes on until it has no marker.
FairSpec == ListingSpec /\ WF_listingVars(ListingStep)

-----------------------------------------------------------------------------
(* Properties.                                                             *)

ListingTypeOK == TableTypeOK /\ PagingTypeOK

\* A listing that comes to its end has given the client every template that
\* was there from its first page to its last, however often refreshes gave
\* the templates new keys meanwhile (the keyset condition t.id > ? and the
\* marker of the last row).
NothingSkipped == list.pc = "end" => stable \subseteq seen

\* A listing comes to an end: complete, or told that its marker is stale, or
\* that the metadata is not available (the pages progress).
ListingEnds ==
    list.pc = "page" ~> list.pc \in {"end", "stale", "unavailable"}

-----------------------------------------------------------------------------
(* The inductive invariant.                                                *)

\* A template keeps its row until the next refresh of its catalog, which gives
\* its folder one row again.
OneRowPerFolder ==
    \A t, u \in templates : t.cat = u.cat /\ t.folder = u.folder => t = u

\* What is left to be listed is behind the marker.
Ahead(i) == \E t \in Listed : Identity(t) = i /\ t.id > list.marker.id

SeenOrAhead ==
    list.pc \in {"page", "anchor"} => \A i \in stable : i \in seen \/ Ahead(i)

\* What is to be listed has been given to the client, or is behind its marker.
PagingInv ==
    /\ ListingTypeOK
    /\ OneRowPerFolder
    /\ stable \subseteq IdentitiesIn(Listed)
    /\ SeenOrAhead
    /\ NothingSkipped

=============================================================================
