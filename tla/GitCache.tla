------------------------------ MODULE GitCache ------------------------------
(***************************************************************************)
(* The remote repositories and the working copies under the cache          *)
(* directory (git/git.go).  git itself is not part of the repository: its  *)
(* commands are modelled from how git.go uses them, at the granularity     *)
(* another process can observe.                                            *)
(*                                                                         *)
(* A clone first makes the directory non-empty, then fetches and points    *)
(* HEAD at the branch, and only then populates the working tree; a         *)
(* checkout holds index.lock, rewrites the tree one entry after another    *)
(* and moves HEAD last.  Two checkouts of one directory exclude each other *)
(* by index.lock, a reader of the tree or of HEAD is not excluded.         *)
(*                                                                         *)
(* The directory is keyed as prepareGitRepoPath keys it: environment, then *)
(* URL with branch, then pinned commit.                                    *)
(***************************************************************************)
EXTENDS CatalogTypes

CONSTANTS
    InitialRemote,  \* branch heads when the service starts
    InitialDirs,    \* cache directories when the service starts
    Rewinds         \* TRUE: a branch may be moved to an older commit

VARIABLES
    remote,         \* remote[s]: the commit the branch of s points to
    dirs            \* dirs[d]: the working copy in directory d

gitVars == <<remote, dirs>>

DirKeys == AllEnvs \X Sources \X (0..MaxCommit)

DirOf(cat) == <<cat.env, cat.src, cat.pin>>

Dir == [exists : BOOLEAN,            \* the directory is not empty
        head   : 0..MaxCommit,       \* git rev-parse HEAD, 0: it fails
        ref    : 0..MaxCommit,       \* refs/remotes/origin/<branch>
        objs   : SUBSET Commits,     \* commits in the object store
        locked : BOOLEAN,            \* index.lock is there
        tree   : [Templates -> 0..MaxCommit]]

EmptyDir == [exists |-> FALSE, head |-> 0, ref |-> 0, objs |-> {},
             locked |-> FALSE, tree |-> Nothing]

\* A working copy left by an undisturbed clone or update to commit c.
CleanDir(c) == [exists |-> TRUE, head |-> c, ref |-> c, objs |-> 1..c,
                locked |-> FALSE, tree |-> Content(c)]

ASSUME GitAssumption ==
    /\ InitialRemote \in [Sources -> Commits]
    /\ InitialDirs \in [DirKeys -> Dir]
    /\ Rewinds \in BOOLEAN

GitTypeOK ==
    /\ remote \in [Sources -> Commits]
    /\ dirs \in [DirKeys -> Dir]

GitInit ==
    /\ remote = InitialRemote
    /\ dirs = InitialDirs

-----------------------------------------------------------------------------

\* Somebody pushes to the branch of s.
Push(s, c) ==
    /\ c # remote[s]
    /\ Rewinds \/ c > remote[s]
    /\ remote' = [remote EXCEPT ![s] = c]
    /\ UNCHANGED dirs

\* git clone refuses a directory that is not empty.
CloneInit(d) ==
    /\ ~dirs[d].exists
    /\ dirs' = [dirs EXCEPT ![d].exists = TRUE]
    /\ UNCHANGED remote

CloneFetch(d) ==
    LET c == remote[d[2]]
    IN  /\ dirs' = [dirs EXCEPT ![d] = [@ EXCEPT !.head = c, !.ref = c,
                                                  !.objs = dirs[d].objs \cup 1..c]]
        /\ UNCHANGED remote

\* A clone that fails before its checkout empties the directory again.
CloneAbort(d) ==
    /\ dirs' = [dirs EXCEPT ![d] = EmptyDir]
    /\ UNCHANGED remote

Fetch(d) ==
    LET c == remote[d[2]]
    IN  /\ dirs' = [dirs EXCEPT ![d] = [@ EXCEPT !.ref = c,
                                                  !.objs = dirs[d].objs \cup 1..c]]
        /\ UNCHANGED remote

CanCheckout(d, c) == c \in dirs[d].objs /\ ~dirs[d].locked

Lock(d) ==
    /\ dirs' = [dirs EXCEPT ![d].locked = TRUE]
    /\ UNCHANGED remote

WriteTemplate(d, t, c) ==
    /\ dirs' = [dirs EXCEPT ![d].tree[t] = Content(c)[t]]
    /\ UNCHANGED remote

\* The end of a checkout --detach, and of the checkout a clone ends with
\* (which leaves HEAD on the branch, where CloneFetch put it).
MoveHead(d, c) ==
    /\ dirs' = [dirs EXCEPT ![d] = [@ EXCEPT !.head = c, !.locked = FALSE]]
    /\ UNCHANGED remote

Unlock(d) ==
    /\ dirs' = [dirs EXCEPT ![d].locked = FALSE]
    /\ UNCHANGED remote

=============================================================================
