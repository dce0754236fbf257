---------------------------- MODULE UpgradePath -----------------------------
(***************************************************************************)
(* A template version that is installed, and the upgrade links the API     *)
(* shows of it (versionResource, showUpgradeVersion in service/utils.go):   *)
(* whoever follows them installs another version of the template, and the  *)
(* platform is upgraded meanwhile.                                         *)
(***************************************************************************)
EXTENDS VersionOrder

CONSTANTS
    Templates,      \* templates there may be: sets of versions
    Platforms,      \* versions of the platform a request may name, {} for none
    Means(_)        \* range |-> the versions it is to stand for

\* A version has its name, the least and the greatest platform, and a range of
\* versions it can be an upgrade of; {} for what is not given.
Names(template) == {v.name : v \in template}

ASSUME UpgradeAssumption ==
    \A template \in Templates :
      \A v, w \in template : v.name = w.name => v = w

VARIABLES
    template,       \* the versions
    configured,     \* default version of its config.yml, if any
    installed,      \* name of the version that is installed
    platform,       \* as the last request named it
    links,          \* upgradeVersionLinks of the last response
    defaultLink     \* and its defaultUpgradeVersion

vars == <<template, configured, installed, platform, links, defaultLink>>

Init ==
    /\ template \in Templates
    /\ configured \in {{}} \cup {{v} : v \in Names(template)}
    /\ installed \in Names(template)
    /\ platform = {} /\ links = {} /\ defaultLink = {}

ShowUpgradeVersion(v, upgrade, requested) ==
    /\ GreaterThan(upgrade.name, v)
    /\ VersionBetween(upgrade.min, requested, upgrade.max)
    /\ \A range \in upgrade.from : VersionSatisfiesRange(v, range)

\* {v} for the version that sort.Sort leaves in the last place, {} for none.
LastSorted(names) == {v \in names : \A w \in names : ~Less(v, w)}

DefaultUpgrade(shown) ==
    IF configured \cap shown # {} THEN configured \cap shown ELSE LastSorted(shown)

GetVersion ==
    /\ platform' \in Platforms
    /\ LET shown == Names({w \in template : ShowUpgradeVersion(installed, w, platform')})
       IN  links' = shown /\ defaultLink' = DefaultUpgrade(shown)
    /\ UNCHANGED <<template, configured, installed>>

\* A client follows a link, and has the response of another version to ask for.
Upgrade ==
    /\ installed' \in links
    /\ links' = {} /\ defaultLink' = {}
    /\ UNCHANGED <<template, configured, platform>>

Next == GetVersion \/ Upgrade

Spec == Init /\ [][Next]_vars

-----------------------------------------------------------------------------
(* Properties.                                                             *)

\* The order that version_test.go lists versions in: by release, then by
\* suffix, where a word comes before nothing and nothing before a number.

Kind(p) == IF p.word # NoWord THEN 1 ELSE 3

Padded(v, n) ==
    [i \in 1..n |-> IF i <= Len(v.suffix)
                    THEN <<Kind(v.suffix[i]), v.suffix[i].word, v.suffix[i].number>>
                    ELSE <<2, NoWord, NoNumber>>]

Ahead(s, t) ==
    \E i \in DOMAIN s : s[i] > t[i] /\ \A j \in 1..(i - 1) : s[j] = t[j]

Newer(v, w) ==
    LET n == IF Len(v.suffix) > Len(w.suffix) THEN Len(v.suffix) ELSE Len(w.suffix)
        s == Padded(v, n)
        t == Padded(w, n)
    IN  \/ Ahead(v.release, w.release)
        \/ /\ v.release = w.release
           /\ \E i \in 1..n : Ahead(s[i], t[i]) /\ \A j \in 1..(i - 1) : s[j] = t[j]

Within(v) ==
    /\ \A bound \in v.min, p \in platform : bound = p \/ Newer(p, bound)
    /\ \A bound \in v.max, p \in platform : bound = p \/ Newer(bound, p)

\* The links lead to newer versions only, for this platform and from the
\* version that is installed (showUpgradeVersion), by the order and the
\* meaning of ranges that the tests give.  The default upgrade is one of them,
\* whatever default the template configures.
LinksLeadUp ==
    /\ defaultLink \subseteq links
    /\ \A w \in template : w.name \in links =>
         /\ Newer(w.name, installed) /\ Within(w)
         /\ \A range \in w.from : installed \in Means(range)

\* And to all of them: a version that shows no link has nothing to be upgraded
\* to (the order is total on what GreaterThan is made for).
LinksMissNothing ==
    [][GetVersion =>
         \A w \in template :
           (/\ Newer(w.name, installed) /\ Within(w)'
            /\ \A range \in w.from : installed \in Means(range))
              => w.name \in links']_vars

\* Following upgrade links comes to an end: no series of them leads back.
UpgradesEnd == <>[][~Upgrade]_vars

-----------------------------------------------------------------------------
(* What GreaterThan is made for.                                           *)

Version == [release : Seq(Nat),
            suffix : {s \in Seq(Piece) : \A i \in DOMAIN s : s[i].word # NoWord \/ HasNumber(s[i])}]

\* Words are compared with words and numbers with numbers.
Alike(v, w) ==
    /\ Len(v.release) = Len(w.release)
    /\ \A i \in DOMAIN v.suffix \cap DOMAIN w.suffix :
         v.suffix[i].word = NoWord <=> w.suffix[i].word = NoWord

Compared(versions) ==
    Names(versions) \cup (UNION {v.min \cup v.max : v \in versions}) \cup (UNION Platforms)

VersionsAlike ==
    \A versions \in Templates : \A v, w \in Compared(versions) : v \in Version /\ Alike(v, w)

RangesMean ==
    \A versions \in Templates : \A v, w \in versions : \A range \in w.from :
      v.name \in Means(range) <=> VersionSatisfiesRange(v.name, range)

=============================================================================
