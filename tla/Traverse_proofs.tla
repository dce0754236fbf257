--------------------------- MODULE Traverse_proofs ---------------------------
(***************************************************************************)
(* The index traverseGitFiles returns is that of the tree, for every set   *)
(* of files and every order in which they may be met.                      *)
(***************************************************************************)
EXTENDS Traverse, WellFoundedInduction, TLAPS

(* The order of the walk.                                                  *)

LEMMA OrderIs ==
  ASSUME NEW f \in ToSet(Walk)
  PROVE  Order(f) \in DOMAIN Walk /\ Walk[Order(f)] = f /\ Order(f) \in Nat
<1>1. \E i \in DOMAIN Walk : Walk[i] = f
  BY DEF ToSet
<1>2. Order(f) \in DOMAIN Walk /\ Walk[Order(f)] = f
  BY <1>1 DEF Order, Position
<1>3. DOMAIN Walk = 1..Len(Walk) /\ Len(Walk) \in Nat
  BY WalkAssumption
<1> QED
  BY <1>2, <1>3

LEMMA OrderOf ==
  ASSUME NEW i \in DOMAIN Walk
  PROVE  Walk[i] \in ToSet(Walk) /\ Order(Walk[i]) = i
<1>1. Walk[i] \in ToSet(Walk)
  BY DEF ToSet
<1> QED
  BY <1>1, OrderIs, WalkAssumption

\* The next file is the first of those that are left.
LEMMA HereIs ==
  ASSUME rest # {}, rest \subseteq ToSet(Walk)
  PROVE  /\ Here \in rest
         /\ \A g \in rest \ {Here} : Order(Here) < Order(g)
<1> DEFINE left == {i \in DOMAIN Walk : Walk[i] \in rest}
           first(i) == Walk[i] \in rest /\ \A j \in 1..(i - 1) : Walk[j] \notin rest
<1>1. DOMAIN Walk = 1..Len(Walk) /\ Len(Walk) \in Nat
  BY WalkAssumption
<1>2. left \in SUBSET Nat /\ left # {}
  BY <1>1, OrderIs
<1>3. PICK m \in left : \A n \in left : <<n, m>> \notin OpToRel(<, Nat)
  BY <1>2, NatLessThanWellFounded, WFMin
<1>4. \A n \in left : ~(n < m)
  <2> SUFFICES ASSUME NEW n \in left, n < m PROVE FALSE
    OBVIOUS
  <2>1. <<n, m>> \in Nat \X Nat /\ <<n, m>>[1] < <<n, m>>[2]
    BY <1>2
  <2> QED
    BY <1>3, <2>1 DEF OpToRel
<1>5. m \in DOMAIN Walk /\ first(m)
  BY <1>1, <1>4
<1> DEFINE i == CHOOSE i \in DOMAIN Walk : first(i)
<1>6. i \in DOMAIN Walk /\ first(i) /\ Here = Walk[i]
  BY <1>5 DEF Here
<1> HIDE DEF i
<1>7. ASSUME NEW g \in rest \ {Here}
      PROVE  Order(Here) < Order(g)
  <2>1. Order(g) \in DOMAIN Walk /\ Walk[Order(g)] = g
    BY OrderIs
  <2>2. Order(g) # i /\ ~(Order(g) \in 1..(i - 1))
    BY <1>6, <2>1
  <2> QED
    BY <1>1, <1>6, <2>1, <2>2, OrderOf
<1> QED
  BY <1>6, <1>7

LEMMA LastOfIs ==
  ASSUME NEW S \in SUBSET ToSet(Walk)
  PROVE  \A f \in LastOf(S) : f \in S /\ LastOf(S) = {f}
<1> SUFFICES ASSUME NEW f \in LastOf(S), NEW g \in LastOf(S)
             PROVE  f \in S /\ f = g
  BY DEF LastOf
<1>1. f \in S /\ g \in S /\ Order(f) <= Order(g) /\ Order(g) <= Order(f)
  BY DEF LastOf
<1>2. Order(f) = Order(g)
  BY <1>1, OrderIs
<1> QED
  BY <1>1, <1>2, OrderIs

LEMMA LastOfMore ==
  ASSUME NEW S \in SUBSET ToSet(Walk), NEW h \in ToSet(Walk),
         \A f \in S : Order(f) < Order(h)
  PROVE  LastOf(S \cup {h}) = {h}
<1>1. \A f \in S \cup {h} : Order(f) \in Nat
  BY OrderIs
<1> QED
  BY <1>1 DEF LastOf

-----------------------------------------------------------------------------
(* What one more file says.                                                *)

LEMMA OfKindMore ==
  ASSUME NEW files \in SUBSET ToSet(Walk), NEW h \in ToSet(Walk), NEW kind,
         \A f \in files : Order(f) < Order(h)
  PROVE  OfKind(files \cup {h}, kind) = IF h.kind = kind THEN {h} ELSE OfKind(files, kind)
<1> DEFINE kinds(S) == {f \in S : f.kind = kind}
<1>1. CASE h.kind = kind
  <2>1. kinds(files \cup {h}) = kinds(files) \cup {h}
    BY <1>1
  <2>2. LastOf(kinds(files) \cup {h}) = {h}
    BY LastOfMore
  <2> QED
    BY <1>1, <2>1, <2>2 DEF OfKind
<1>2. CASE h.kind # kind
  <2>1. kinds(files \cup {h}) = kinds(files)
    BY <1>2
  <2> QED
    BY <1>2, <2>1 DEF OfKind
<1> QED
  BY <1>1, <1>2

LEMMA ConfigMore ==
  ASSUME NEW files \in SUBSET ToSet(Walk), NEW h \in ToSet(Walk),
         \A f \in files : Order(f) < Order(h)
  PROVE  ConfigOf(files \cup {h}) = IF h.kind = "config" /\ h.ok THEN {h} ELSE ConfigOf(files)
<1> DEFINE configs(S) == {f \in S : f.kind = "config" /\ f.ok}
<1>1. CASE h.kind = "config" /\ h.ok
  <2>1. configs(files \cup {h}) = configs(files) \cup {h}
    BY <1>1
  <2>2. LastOf(configs(files) \cup {h}) = {h}
    BY LastOfMore
  <2> QED
    BY <1>1, <2>1, <2>2 DEF ConfigOf
<1>2. CASE ~(h.kind = "config" /\ h.ok)
  <2>1. configs(files \cup {h}) = configs(files)
    BY <1>2
  <2> QED
    BY <1>2, <2>1 DEF ConfigOf
<1> QED
  BY <1>1, <1>2

LEMMA ReadmeMore ==
  ASSUME NEW files \in SUBSET ToSet(Walk), NEW h \in ToSet(Walk),
         \A f \in files : Order(f) < Order(h)
  PROVE  ReadmeOf(files \cup {h}) = IF h.kind = "readme" /\ h.folder = Root THEN {h}
                                    ELSE ReadmeOf(files)
<1> DEFINE here(S) == {f \in S : f.folder = Root}
<1>1. CASE h.folder = Root
  <2>1. here(files \cup {h}) = here(files) \cup {h}
    BY <1>1
  <2>2. OfKind(here(files) \cup {h}, "readme")
          = IF h.kind = "readme" THEN {h} ELSE OfKind(here(files), "readme")
    BY OfKindMore
  <2> QED
    BY <1>1, <2>1, <2>2 DEF ReadmeOf
<1>2. CASE h.folder # Root
  <2>1. here(files \cup {h}) = here(files)
    BY <1>2
  <2> QED
    BY <1>2, <2>1 DEF ReadmeOf
<1> QED
  BY <1>1, <1>2

LEMMA VersionsSame ==
  ASSUME NEW files, NEW h,
         ~(h.kind \in VersionFileKinds /\ IsVersionFolder(h.folder))
  PROVE  FolderVersions(files \cup {h}) = FolderVersions(files)
<1>1. InVersions(files \cup {h}) = InVersions(files)
  BY DEF InVersions
<1> QED
  BY <1>1 DEF FolderVersions

\* The files of a version that are together in its folders.
FilesIn(files, of) == {f \in InVersions(files) : VersionOf(f.folder) = of}

LEMMA FolderVersionsAre ==
  ASSUME NEW files
  PROVE  /\ \A f \in InVersions(files) :
              [of |-> VersionOf(f.folder), files |-> FilesIn(files, VersionOf(f.folder))]
                \in FolderVersions(files)
         /\ \A v \in FolderVersions(files) :
              /\ v = [of |-> v.of, files |-> FilesIn(files, v.of)]
              /\ \E f \in InVersions(files) : VersionOf(f.folder) = v.of
<1> DEFINE ofs == {VersionOf(f.folder) : f \in InVersions(files)}
<1>1. FolderVersions(files) = {[of |-> o, files |-> FilesIn(files, o)] : o \in ofs}
  BY DEF FolderVersions, FilesIn
<1>2. \A f \in InVersions(files) : VersionOf(f.folder) \in ofs
  OBVIOUS
<1>3. \A o \in ofs : \E f \in InVersions(files) : VersionOf(f.folder) = o
  OBVIOUS
<1> HIDE DEF ofs
<1>4. ASSUME NEW v \in FolderVersions(files)
      PROVE  /\ v = [of |-> v.of, files |-> FilesIn(files, v.of)]
             /\ \E f \in InVersions(files) : VersionOf(f.folder) = v.of
  <2>1. PICK o \in ofs : v = [of |-> o, files |-> FilesIn(files, o)]
    BY <1>1, <1>4
  <2>2. v.of = o
    BY <2>1
  <2> QED
    BY <1>3, <2>1, <2>2
<1> QED
  BY <1>1, <1>2, <1>4

WithFile(v, h) == [v EXCEPT !.files = @ \cup {h}]

LEMMA WithFileIs ==
  ASSUME NEW o, NEW S, NEW h
  PROVE  WithFile([of |-> o, files |-> S], h) = [of |-> o, files |-> S \cup {h}]
BY DEF WithFile

\* A version is there once.
Once(versions) == \A i, j \in DOMAIN versions : versions[i].of = versions[j].of => i = j

LEMMA AddFileIs ==
  ASSUME NEW files \in SUBSET tree, NEW h \in tree, h \notin files,
         h.kind \in VersionFileKinds, IsVersionFolder(h.folder),
         NEW versions \in Seq(Version), ToSet(versions) = FolderVersions(files), Once(versions)
  PROVE  /\ AddFile(versions, h) \in Seq(Version)
         /\ ToSet(AddFile(versions, h)) = FolderVersions(files \cup {h})
         /\ Once(AddFile(versions, h))
<1> DEFINE of == VersionOf(h.folder)
           same == {i \in DOMAIN versions : versions[i].of = of}
           more == files \cup {h}
           after == AddFile(versions, h)
<1>1. /\ of \in {VersionOf(d) : d \in DOMAIN RevisionOf \cup SemVer}
      /\ DOMAIN versions = 1..Len(versions) /\ Len(versions) \in Nat
      /\ \A i \in DOMAIN versions : versions[i] \in Version /\ versions[i] \in FolderVersions(files)
  <2>1. of \in {VersionOf(d) : d \in DOMAIN RevisionOf \cup SemVer}
    BY DEF IsVersionFolder
  <2>2. \A i \in DOMAIN versions : versions[i] \in Version
    OBVIOUS
  <2>3. \A i \in DOMAIN versions : versions[i] \in FolderVersions(files)
    BY DEF ToSet
  <2> QED
    BY <2>1, <2>2, <2>3
<1>2. /\ InVersions(more) = InVersions(files) \cup {h}
      /\ FilesIn(more, of) = FilesIn(files, of) \cup {h}
      /\ \A o : o # of => FilesIn(more, o) = FilesIn(files, o)
  BY DEF InVersions, FilesIn
<1> HIDE DEF of, more
<1>3. \A f \in InVersions(files) : \E i \in DOMAIN versions : versions[i].of = VersionOf(f.folder)
  <2> SUFFICES ASSUME NEW f \in InVersions(files)
               PROVE  \E i \in DOMAIN versions : versions[i].of = VersionOf(f.folder)
    OBVIOUS
  <2>1. [of |-> VersionOf(f.folder), files |-> FilesIn(files, VersionOf(f.folder))]
          \in ToSet(versions)
    BY FolderVersionsAre
  <2> QED
    BY <2>1 DEF ToSet
<1>4. CASE same = {}
  <2> DEFINE new == [of |-> of, files |-> {h}]
  <2>1. after = Append(versions, new)
    BY <1>4 DEF AddFile, of
  <2>2. FilesIn(files, of) = {}
    BY <1>3, <1>4 DEF FilesIn
  <2>3. new \in Version
    BY <1>1 DEF Version
  <2>4. after \in Seq(Version)
    BY <2>1, <2>3
  <2>5. /\ DOMAIN after = 1..(Len(versions) + 1) /\ after[Len(versions) + 1] = new
        /\ \A i \in DOMAIN versions : i \in DOMAIN after /\ after[i] = versions[i]
    <3> HIDE DEF new, after
    <3> QED
      BY <1>1, <2>1, <2>3
  <2>6. ToSet(after) = ToSet(versions) \cup {new}
    <3> HIDE DEF new, after
    <3> QED
      BY <1>1, <2>5 DEF ToSet
  <2>7. FolderVersions(more) = FolderVersions(files) \cup {new}
    <3>1. ASSUME NEW v \in FolderVersions(more)
          PROVE  v \in FolderVersions(files) \cup {new}
      <4>1. v = [of |-> v.of, files |-> FilesIn(more, v.of)]
            /\ \E f \in InVersions(more) : VersionOf(f.folder) = v.of
        BY FolderVersionsAre
      <4>2. CASE v.of = of
        BY <1>2, <2>2, <4>1, <4>2
      <4>3. CASE v.of # of
        <5>1. PICK f \in InVersions(files) : VersionOf(f.folder) = v.of
          BY <1>2, <4>1, <4>3 DEF of
        <5>2. v = [of |-> v.of, files |-> FilesIn(files, v.of)]
          BY <1>2, <4>1, <4>3
        <5> QED
          BY <5>1, <5>2, FolderVersionsAre
      <4> QED
        BY <4>2, <4>3
    <3>2. ASSUME NEW v \in FolderVersions(files)
          PROVE  v \in FolderVersions(more)
      <4>1. PICK f \in InVersions(files) :
              VersionOf(f.folder) = v.of /\ v = [of |-> v.of, files |-> FilesIn(files, v.of)]
        BY FolderVersionsAre
      <4>2. v.of # of
        <5>1. f \in FilesIn(files, v.of)
          BY <4>1 DEF FilesIn
        <5> QED
          BY <2>2, <5>1
      <4>3. f \in InVersions(more) /\ FilesIn(more, v.of) = FilesIn(files, v.of)
        BY <1>2, <4>2
      <4> QED
        BY <4>1, <4>3, FolderVersionsAre
    <3>3. new \in FolderVersions(more)
      <4>1. h \in InVersions(more) /\ FilesIn(more, of) = {h}
        BY <1>2, <2>2
      <4> QED
        BY <4>1, FolderVersionsAre DEF of
    <3> QED
      BY <3>1, <3>2, <3>3
  <2>8. Once(after)
    <3>1. new.of = of /\ \A i \in DOMAIN versions : versions[i].of # of
      BY <1>4
    <3> HIDE DEF new, after, same
    <3> QED
      BY <1>1, <2>5, <3>1 DEF Once
  <2> QED
    BY <2>4, <2>6, <2>7, <2>8 DEF more
<1>5. ASSUME NEW m \in same
      PROVE  /\ after \in Seq(Version)
             /\ ToSet(after) = FolderVersions(more)
             /\ Once(after)
  <2>1. m \in DOMAIN versions /\ versions[m].of = of /\ \A i \in same : i = m
    BY <1>5 DEF Once
  <2> DEFINE new == WithFile(versions[m], h)
  <2>2. after = [i \in DOMAIN versions |-> IF i = m THEN new ELSE versions[i]]
    <3>1. \A i \in DOMAIN versions : i \in same <=> i = m
      BY <2>1
    <3> QED
      BY <2>1, <3>1 DEF AddFile, WithFile, of
  <2>3. versions[m] = [of |-> of, files |-> FilesIn(files, of)]
    BY <1>1, <2>1, FolderVersionsAre
  <2>4. new = [of |-> of, files |-> FilesIn(more, of)]
    <3>1. FilesIn(more, of) = FilesIn(files, of) \cup {h}
      BY <1>2
    <3> HIDE DEF same
    <3> QED
      BY <2>3, <3>1, WithFileIs
  <2>5. versions[m] \in Version
    BY <1>1, <2>1
  <2>6. new \in Version
    BY <2>5 DEF Version, WithFile
  <2> HIDE DEF new, after
  <2>7. after \in Seq(Version)
    BY <1>1, <2>2, <2>6
  <2>8. /\ DOMAIN after = DOMAIN versions /\ after[m] = new /\ new.of = of
        /\ \A i \in DOMAIN versions : i # m => after[i] = versions[i]
    BY <2>1, <2>2, <2>4
  <2>9. Once(after)
    BY <2>1, <2>8 DEF Once
  <2>10. ToSet(after) \subseteq FolderVersions(more)
    <3> SUFFICES ASSUME NEW i \in DOMAIN versions
                 PROVE  after[i] \in FolderVersions(more)
      BY <2>8 DEF ToSet
    <3>1. CASE i = m
      <4>1. h \in InVersions(more) /\ VersionOf(h.folder) = of
        BY <1>2 DEF of
      <4> QED
        BY <2>4, <2>8, <3>1, <4>1, FolderVersionsAre
    <3>2. CASE i # m
      <4>1. versions[i].of # of
        BY <2>1, <3>2
      <4>2. PICK f \in InVersions(files) :
              /\ VersionOf(f.folder) = versions[i].of
              /\ versions[i] = [of |-> versions[i].of, files |-> FilesIn(files, versions[i].of)]
        BY <1>1, FolderVersionsAre
      <4>3. f \in InVersions(more) /\ FilesIn(more, versions[i].of) = FilesIn(files, versions[i].of)
        BY <1>2, <4>1
      <4> QED
        BY <2>8, <3>2, <4>2, <4>3, FolderVersionsAre
    <3> QED
      BY <3>1, <3>2
  <2>11. FolderVersions(more) \subseteq ToSet(after)
    <3> SUFFICES ASSUME NEW v \in FolderVersions(more)
                 PROVE  \E i \in DOMAIN versions : after[i] = v
      BY <2>8 DEF ToSet
    <3>1. v = [of |-> v.of, files |-> FilesIn(more, v.of)]
          /\ \E f \in InVersions(more) : VersionOf(f.folder) = v.of
      BY FolderVersionsAre
    <3>2. CASE v.of = of
      BY <2>1, <2>4, <2>8, <3>1, <3>2
    <3>3. CASE v.of # of
      <4>1. PICK f \in InVersions(files) : VersionOf(f.folder) = v.of
        BY <1>2, <3>1, <3>3 DEF of
      <4>2. PICK i \in DOMAIN versions : versions[i].of = v.of
        BY <1>3, <4>1
      <4>3. versions[i] = [of |-> v.of, files |-> FilesIn(files, v.of)]
        BY <1>1, <4>2, FolderVersionsAre
      <4>4. versions[i] = v /\ i # m
        BY <1>2, <2>1, <3>1, <3>3, <4>2, <4>3
      <4> QED
        BY <2>8, <4>4
    <3> QED
      BY <3>2, <3>3
  <2> QED
    BY <2>7, <2>9, <2>10, <2>11
<1> QED
  BY <1>4, <1>5 DEF more

-----------------------------------------------------------------------------
(* What was met of a template, and one more file of it.                    *)

WithInfo(t, h) == [t EXCEPT !.info = {h}]
WithIcon(t, h) == [t EXCEPT !.icon = {h}]
WithReadme(t, h) == [t EXCEPT !.readme = {h}]
WithVersions(t, h) == [t EXCEPT !.versions = AddFile(@, h)]

HasParts(t, a, b, c, d) == t = [info |-> a, icon |-> b, readme |-> c, versions |-> d]

LEMMA WithIs ==
  ASSUME NEW a, NEW b, NEW c, NEW d, NEW h,
         NEW t, HasParts(t, a, b, c, d)
  PROVE  /\ WithInfo(t, h) = [info |-> {h}, icon |-> b, readme |-> c, versions |-> d]
         /\ WithIcon(t, h) = [info |-> a, icon |-> {h}, readme |-> c, versions |-> d]
         /\ WithReadme(t, h) = [info |-> a, icon |-> b, readme |-> {h}, versions |-> d]
         /\ WithVersions(t, h) = [info |-> a, icon |-> b, readme |-> c, versions |-> AddFile(d, h)]
<1> DEFINE r == [info |-> a, icon |-> b, readme |-> c, versions |-> d]
<1>1. WithInfo(r, h) = [info |-> {h}, icon |-> b, readme |-> c, versions |-> d]
  BY DEF WithInfo
<1>2. WithIcon(r, h) = [info |-> a, icon |-> {h}, readme |-> c, versions |-> d]
  BY DEF WithIcon
<1>3. WithReadme(r, h) = [info |-> a, icon |-> b, readme |-> {h}, versions |-> d]
  BY DEF WithReadme
<1>4. WithVersions(r, h) = [info |-> a, icon |-> b, readme |-> c, versions |-> AddFile(d, h)]
  BY DEF WithVersions
<1>5. t = r
  BY DEF HasParts
<1> HIDE DEF r
<1> QED
  BY <1>1, <1>2, <1>3, <1>4, <1>5

\* A template of these parts matches the files that say them.
LEMMA PartsMatch ==
  ASSUME NEW files, NEW versions,
         versions \in Seq(Version), ToSet(versions) = FolderVersions(files), Once(versions)
  PROVE  Matches([info |-> ConfigOf(files), icon |-> OfKind(files, "icon"),
                  readme |-> ReadmeOf(files), versions |-> versions], files)
BY DEF Matches, Once

LEMMA PartsOf ==
  ASSUME NEW files, NEW t, Matches(t, files)
  PROVE  /\ t = [info |-> ConfigOf(files), icon |-> OfKind(files, "icon"),
                 readme |-> ReadmeOf(files), versions |-> t.versions]
         /\ t.versions \in Seq(Version)
         /\ ToSet(t.versions) = FolderVersions(files)
         /\ Once(t.versions)
BY DEF Matches, Once

LEMMA RootIsNoVersion == ~IsVersionFolder(Root)
BY WalkAssumption DEF IsVersionFolder

\* Each kind of file changes its own part of a template.
LEMMA MatchesMore ==
  ASSUME tree \subseteq ToSet(Walk), NEW files \in SUBSET tree, NEW h \in tree, h \notin files,
         \A f \in files : Order(f) < Order(h),
         NEW t, Matches(t, files)
  PROVE  /\ h.kind = "config" => Matches(IF h.ok THEN WithInfo(t, h) ELSE t, files \cup {h})
         /\ h.kind = "icon" => Matches(WithIcon(t, h), files \cup {h})
         /\ h.kind = "readme" /\ h.folder = Root => Matches(WithReadme(t, h), files \cup {h})
         /\ h.kind \in VersionFileKinds /\ (h.kind = "readme" => h.folder # Root)
              => Matches(IF IsVersionFolder(h.folder) THEN WithVersions(t, h) ELSE t, files \cup {h})
<1> DEFINE more == files \cup {h}
           versions == t.versions
<1>1. /\ t = [info |-> ConfigOf(files), icon |-> OfKind(files, "icon"),
              readme |-> ReadmeOf(files), versions |-> versions]
      /\ versions \in Seq(Version) /\ ToSet(versions) = FolderVersions(files) /\ Once(versions)
  BY PartsOf
<1>2. ConfigOf(more) = IF h.kind = "config" /\ h.ok THEN {h} ELSE ConfigOf(files)
  BY ConfigMore
<1>3. OfKind(more, "icon") = IF h.kind = "icon" THEN {h} ELSE OfKind(files, "icon")
  BY OfKindMore
<1>4. ReadmeOf(more) = IF h.kind = "readme" /\ h.folder = Root THEN {h} ELSE ReadmeOf(files)
  BY ReadmeMore
<1>5. ~(h.kind \in VersionFileKinds /\ IsVersionFolder(h.folder))
        => FolderVersions(more) = FolderVersions(files)
  BY VersionsSame
<1>6. h.kind \in VersionFileKinds /\ IsVersionFolder(h.folder)
        => /\ AddFile(versions, h) \in Seq(Version)
           /\ ToSet(AddFile(versions, h)) = FolderVersions(more)
           /\ Once(AddFile(versions, h))
  BY <1>1, AddFileIs
<1>7. {"config", "icon"} \cap VersionFileKinds = {}
  BY DEF VersionFileKinds
<1>12. /\ WithInfo(t, h) = [info |-> {h}, icon |-> OfKind(files, "icon"),
                             readme |-> ReadmeOf(files), versions |-> versions]
       /\ WithIcon(t, h) = [info |-> ConfigOf(files), icon |-> {h},
                             readme |-> ReadmeOf(files), versions |-> versions]
       /\ WithReadme(t, h) = [info |-> ConfigOf(files), icon |-> OfKind(files, "icon"),
                               readme |-> {h}, versions |-> versions]
       /\ WithVersions(t, h) = [info |-> ConfigOf(files), icon |-> OfKind(files, "icon"),
                                 readme |-> ReadmeOf(files), versions |-> AddFile(versions, h)]
  <2> DEFINE a == ConfigOf(files)
             b == OfKind(files, "icon")
             c == ReadmeOf(files)
  <2>1. HasParts(t, a, b, c, versions)
    BY <1>1 DEF HasParts
  <2> HIDE DEF a, b, c, versions
  <2>2. /\ WithInfo(t, h) = [info |-> {h}, icon |-> b, readme |-> c, versions |-> versions]
        /\ WithIcon(t, h) = [info |-> a, icon |-> {h}, readme |-> c, versions |-> versions]
        /\ WithReadme(t, h) = [info |-> a, icon |-> b, readme |-> {h}, versions |-> versions]
        /\ WithVersions(t, h)
             = [info |-> a, icon |-> b, readme |-> c, versions |-> AddFile(versions, h)]
    BY <2>1, WithIs
  <2> QED
    BY <2>2 DEF a, b, c
<1> HIDE DEF more, versions
<1>8. CASE h.kind = "config"
  <2>1. /\ FolderVersions(more) = FolderVersions(files)
        /\ OfKind(more, "icon") = OfKind(files, "icon") /\ ReadmeOf(more) = ReadmeOf(files)
    BY <1>3, <1>4, <1>5, <1>7, <1>8
  <2>2. CASE h.ok
    <3>1. ConfigOf(more) = {h}
      BY <1>2, <1>8, <2>2
    <3>2. WithInfo(t, h) = [info |-> ConfigOf(more), icon |-> OfKind(more, "icon"),
                            readme |-> ReadmeOf(more), versions |-> versions]
      BY <1>12, <2>1, <3>1
    <3>3. Matches(WithInfo(t, h), more)
      BY <1>1, <2>1, <3>2, PartsMatch
    <3> QED
      BY <1>7, <1>8, <2>2, <3>3 DEF more
  <2>3. CASE ~h.ok
    <3>1. ConfigOf(more) = ConfigOf(files)
      BY <1>2, <2>3
    <3>2. Matches(t, more)
      BY <1>1, <2>1, <3>1, PartsMatch
    <3> QED
      BY <1>7, <1>8, <2>3, <3>2 DEF more
  <2> QED
    BY <2>2, <2>3
<1>9. CASE h.kind = "icon"
  <2>1. /\ FolderVersions(more) = FolderVersions(files) /\ ConfigOf(more) = ConfigOf(files)
        /\ OfKind(more, "icon") = {h} /\ ReadmeOf(more) = ReadmeOf(files)
    BY <1>2, <1>3, <1>4, <1>5, <1>7, <1>9
  <2>2. WithIcon(t, h) = [info |-> ConfigOf(more), icon |-> OfKind(more, "icon"),
                          readme |-> ReadmeOf(more), versions |-> versions]
    BY <1>12, <2>1
  <2>3. Matches(WithIcon(t, h), more)
    BY <1>1, <2>1, <2>2, PartsMatch
  <2> QED
    BY <1>7, <1>9, <2>3 DEF more
<1>10. CASE h.kind = "readme" /\ h.folder = Root
  <2>1. /\ FolderVersions(more) = FolderVersions(files) /\ ConfigOf(more) = ConfigOf(files)
        /\ OfKind(more, "icon") = OfKind(files, "icon") /\ ReadmeOf(more) = {h}
    BY <1>2, <1>3, <1>4, <1>5, <1>10, RootIsNoVersion
  <2>2. WithReadme(t, h) = [info |-> ConfigOf(more), icon |-> OfKind(more, "icon"),
                            readme |-> ReadmeOf(more), versions |-> versions]
    BY <1>12, <2>1
  <2>3. Matches(WithReadme(t, h), more)
    BY <1>1, <2>1, <2>2, PartsMatch
  <2> QED
    BY <1>10, <2>3 DEF more
<1>11. CASE h.kind \in VersionFileKinds /\ (h.kind = "readme" => h.folder # Root)
  <2>1. /\ ConfigOf(more) = ConfigOf(files)
        /\ OfKind(more, "icon") = OfKind(files, "icon") /\ ReadmeOf(more) = ReadmeOf(files)
    BY <1>2, <1>3, <1>4, <1>7, <1>11
  <2>2. CASE IsVersionFolder(h.folder)
    <3>1. WithVersions(t, h) = [info |-> ConfigOf(more), icon |-> OfKind(more, "icon"),
                                readme |-> ReadmeOf(more), versions |-> AddFile(versions, h)]
      BY <1>12, <2>1
    <3>2. Matches(WithVersions(t, h), more)
      BY <1>6, <1>11, <2>2, <3>1, PartsMatch
    <3> QED
      BY <1>7, <1>11, <2>2, <3>2 DEF more
  <2>3. CASE ~IsVersionFolder(h.folder)
    <3>1. FolderVersions(more) = FolderVersions(files)
      BY <1>5, <2>3
    <3>2. Matches(t, more)
      BY <1>1, <2>1, <3>1, PartsMatch
    <3> QED
      BY <1>7, <1>11, <2>3, <3>2 DEF more
  <2> QED
    BY <2>2, <2>3
<1> QED
  BY <1>8, <1>9, <1>10, <1>11

-----------------------------------------------------------------------------
(* One file of the walk.                                                   *)

\* What a file adds to those that can be read.
ReadOf(h) == IF h.read THEN {h} ELSE {}

LEMMA ReadOfIs ==
  ASSUME NEW h
  PROVE  /\ h.read => ReadOf(h) = {h}
         /\ ~h.read => ReadOf(h) = {}
BY DEF ReadOf

\* The errors of the walk, by the kind of a file.
LEMMA FailingIs ==
  ASSUME NEW h
  PROVE  /\ h.kind = "config" => (Failing(h) <=> ~(h.read /\ h.ok))
         /\ h.kind = "icon" => (Failing(h) <=> ~h.read)
         /\ h.kind = "readme" /\ h.folder = Root => (Failing(h) <=> ~h.read)
         /\ h.kind \in VersionFileKinds /\ (h.kind = "readme" => h.folder # Root)
              => (Failing(h) <=> IsVersionFolder(h.folder) /\ ~h.read)
BY RootIsNoVersion DEF Failing, Parses, VersionFileKinds

LEMMA PutIs ==
  ASSUME NEW f, NEW t, Put(f, t), NEW key, key = Key(f.base, f.name)
  PROVE  /\ DOMAIN templateIndex' = DOMAIN templateIndex \cup {key}
         /\ \A k : MetUnder(k)' = IF k = key THEN t ELSE MetUnder(k)
<1>1. templateIndex' = [k \in DOMAIN templateIndex \cup {key} |->
                          IF k = key THEN t ELSE templateIndex[k]]
  BY DEF Put
<1> QED
  BY <1>1 DEF MetUnder

LEMMA EntryIs ==
  ASSUME NEW f
  PROVE  Entry(f) = MetUnder(Key(f.base, f.name))
BY DEF Entry, MetUnder

LEMMA HandlesHere ==
  ASSUME WalkInv, NEW kinds, Handles(kinds)
  PROVE  /\ Here.kind \in kinds /\ Here \in rest /\ Here \in tree /\ Here \in ToSet(Walk)
         /\ Here \notin Walked /\ \A f \in Walked : Order(f) < Order(Here)
         /\ ~returned /\ returned' = returned /\ tree' = tree
         /\ rest' = rest \ {Here} /\ Walked' = Walked \cup {Here}
         /\ \A f \in Walked', g \in rest' : Order(f) < Order(g)
<1>1. Here \in rest /\ \A g \in rest \ {Here} : Order(Here) < Order(g)
  BY HereIs DEF WalkInv, Handles
<1>2. Here \in tree /\ Here \in ToSet(Walk) /\ Here \notin Walked
  BY <1>1 DEF WalkInv, Walked
<1>3. \A f \in Walked : Order(f) < Order(Here)
  BY <1>1 DEF WalkInv
<1>4. ~returned /\ returned' = returned /\ tree' = tree /\ rest' = rest \ {Here}
  BY <1>1 DEF WalkInv, Handles
<1> DEFINE h == Here
<1>5. h = Here
  OBVIOUS
<1> HIDE DEF h
<1>6. Walked' = Walked \cup {h}
  BY <1>1, <1>2, <1>4, <1>5 DEF Walked
<1>7. \A f \in Walked', g \in rest' : Order(f) < Order(g)
  BY <1>1, <1>4, <1>5, <1>6 DEF WalkInv
<1> QED
  BY <1>1, <1>2, <1>3, <1>4, <1>5, <1>6, <1>7 DEF Handles

\* A step that handles a file keeps the invariant if the entry of its key comes
\* to match what has been walked under that key.
LEMMA HandledWell ==
  ASSUME WalkInv, NEW kinds, Handles(kinds), NEW key, key = Key(Here.base, Here.name),
         NEW t, Matches(t, WalkedUnder(key) \cup ReadOf(Here)),
         MetUnder(key)' = t, \A k : k # key => MetUnder(k)' = MetUnder(k),
         DOMAIN templateIndex' \subseteq DOMAIN templateIndex \cup {key},
         errors' = IF Failing(Here) THEN errors \cup {Here} ELSE errors
  PROVE  WalkInv'
<1> DEFINE h == Here
<1>1. /\ h \in tree /\ ~returned /\ ~returned' /\ tree' = tree
      /\ rest' = rest \ {h} /\ Walked' = Walked \cup {h}
      /\ \A f \in Walked', g \in rest' : Order(f) < Order(g)
      /\ key = Key(h.base, h.name) /\ Matches(t, WalkedUnder(key) \cup ReadOf(h))
      /\ errors' = IF Failing(h) THEN errors \cup {h} ELSE errors
  BY HandlesHere
<1> HIDE DEF h
<1>2. (tree \subseteq ToSet(Walk) /\ rest \subseteq tree)'
  BY <1>1 DEF WalkInv
<1>3. key \in KeysOf(tree) /\ KeysOf(tree)' = KeysOf(tree)
  BY <1>1 DEF KeysOf
<1>4. (DOMAIN templateIndex \subseteq KeysOf(tree))'
  BY <1>3 DEF WalkInv
<1>5. Version' = Version
  BY <1>1 DEF Version
<1>6. ASSUME NEW k \in KeysOf(tree)
      PROVE  Matches(MetUnder(k), WalkedUnder(k))'
  <2>1. CASE k = key
    <3>1. WalkedUnder(k)' = WalkedUnder(key) \cup ReadOf(h)
      BY <1>1, <2>1 DEF WalkedUnder, ReadOf
    <3>2. MetUnder(k)' = t
      BY <2>1
    <3> QED
      BY <1>1, <1>5, <3>1, <3>2 DEF Matches
  <2>2. CASE k # key
    <3>1. WalkedUnder(k)' = WalkedUnder(k)
      BY <1>1, <2>2 DEF WalkedUnder
    <3>2. MetUnder(k)' = MetUnder(k)
      BY <2>2
    <3>3. Matches(MetUnder(k), WalkedUnder(k))
      BY DEF WalkInv
    <3> QED
      BY <1>5, <3>1, <3>2, <3>3 DEF Matches
  <2> QED
    BY <2>1, <2>2
<1>7. (errors = {f \in Walked : Failing(f)} /\ errors \subseteq tree)'
  <2>1. errors = {f \in Walked : Failing(f)} /\ errors \subseteq tree
    BY <1>1 DEF WalkInv
  <2>2. \A f : Failing(f)' <=> Failing(f)
    BY DEF Failing, Parses
  <2> QED
    BY <1>1, <2>1, <2>2
<1>8. (\A k \in KeysOf(tree) : Matches(MetUnder(k), WalkedUnder(k)))'
  BY <1>3, <1>6
<1>9. (\A f \in Walked, g \in rest : Order(f) < Order(g))'
  BY <1>1
<1>10. (returned \in BOOLEAN /\ (returned => rest = {}))'
  BY <1>1 DEF WalkInv, Handles
<1> QED
  BY <1>2, <1>4, <1>7, <1>8, <1>9, <1>10 DEF WalkInv

\* What the entry of the next file and the files walked under its key satisfy.
LEMMA NextMatches ==
  ASSUME WalkInv, NEW kinds, Handles(kinds), NEW key, key = Key(Here.base, Here.name),
         NEW t, t = MetUnder(key), NEW h, h = Here
  PROVE  /\ Matches(t, WalkedUnder(key) \cup {})
         /\ h.kind = "config"
              => Matches(IF h.ok THEN WithInfo(t, h) ELSE t, WalkedUnder(key) \cup {h})
         /\ h.kind = "icon" => Matches(WithIcon(t, h), WalkedUnder(key) \cup {h})
         /\ h.kind = "readme" /\ h.folder = Root
              => Matches(WithReadme(t, h), WalkedUnder(key) \cup {h})
         /\ h.kind \in VersionFileKinds /\ (h.kind = "readme" => h.folder # Root)
              => Matches(IF IsVersionFolder(h.folder) THEN WithVersions(t, h) ELSE t,
                         WalkedUnder(key) \cup {h})
<1>1. h \in tree /\ h \notin Walked /\ \A f \in Walked : Order(f) < Order(h)
  BY HandlesHere
<1>2. tree \subseteq ToSet(Walk)
  BY DEF WalkInv
<1>3. WalkedUnder(key) \in SUBSET tree /\ WalkedUnder(key) \subseteq Walked
  BY DEF WalkedUnder, Walked
<1>4. Matches(t, WalkedUnder(key))
  <2>1. key \in KeysOf(tree)
    BY <1>1 DEF KeysOf
  <2> QED
    BY <2>1 DEF WalkInv
<1>5. h \notin WalkedUnder(key) /\ \A f \in WalkedUnder(key) : Order(f) < Order(h)
  BY <1>1, <1>3
<1> QED
  <2>1. WalkedUnder(key) \cup {} = WalkedUnder(key)
    OBVIOUS
  <2> QED
    BY <1>1, <1>2, <1>3, <1>4, <1>5, <2>1, MatchesMore

\* Storing what a handler makes of the entry.
LEMMA PutWell ==
  ASSUME WalkInv, NEW kinds, Handles(kinds), NEW h, h = Here, NEW key, key = Key(h.base, h.name),
         NEW t, Put(h, t), Matches(t, WalkedUnder(key) \cup ReadOf(h)),
         errors' = IF Failing(h) THEN errors \cup {h} ELSE errors
  PROVE  WalkInv'
<1>1. /\ DOMAIN templateIndex' = DOMAIN templateIndex \cup {key}
      /\ \A k : MetUnder(k)' = IF k = key THEN t ELSE MetUnder(k)
  BY PutIs
<1>2. MetUnder(key)' = t /\ \A k : k # key => MetUnder(k)' = MetUnder(k)
  BY <1>1
<1> QED
  BY <1>1, <1>2, HandledWell

LEMMA LeaveWell ==
  ASSUME WalkInv, NEW kinds, Handles(kinds), NEW h, h = Here, NEW key, key = Key(h.base, h.name),
         UNCHANGED templateIndex, Matches(MetUnder(key), WalkedUnder(key) \cup ReadOf(h)),
         errors' = IF Failing(h) THEN errors \cup {h} ELSE errors
  PROVE  WalkInv'
<1>1. \A k : MetUnder(k)' = MetUnder(k)
  BY DEF MetUnder
<1> DEFINE t == MetUnder(key)
<1>2. MetUnder(key)' = t
  BY <1>1
<1>3. Matches(t, WalkedUnder(key) \cup ReadOf(h))
  OBVIOUS
<1> HIDE DEF t
<1> QED
  BY <1>1, <1>2, <1>3, HandledWell

LEMMA ConfigKeepsWalk == WalkInv /\ HandleConfig => WalkInv'
<1> SUFFICES ASSUME WalkInv, HandleConfig PROVE WalkInv'
  OBVIOUS
<1> DEFINE h == Here
           key == Key(h.base, h.name)
           t == MetUnder(key)
<1>1. Handles({"config"})
  BY DEF HandleConfig
<1>2. h.kind = "config"
  BY <1>1, HandlesHere
<1>3. h = Here /\ key = Key(h.base, h.name) /\ key = Key(Here.base, Here.name)
      /\ t = MetUnder(key)
  OBVIOUS
<1>4. h.read /\ h.ok => Put(h, WithInfo(t, h)) /\ errors' = errors
  BY EntryIs DEF HandleConfig, Use, WithInfo
<1>5. ~(h.read /\ h.ok) => UNCHANGED templateIndex /\ errors' = errors \cup {h}
  BY DEF HandleConfig, Use
<1> HIDE DEF h, key, t
<1>6. /\ Matches(t, WalkedUnder(key) \cup {})
      /\ Matches(IF h.ok THEN WithInfo(t, h) ELSE t, WalkedUnder(key) \cup {h})
  BY <1>1, <1>2, <1>3, NextMatches
<1>7. Failing(h) <=> ~(h.read /\ h.ok)
  BY <1>2, FailingIs
<1>8. CASE h.read /\ h.ok
  <2>1. Matches(WithInfo(t, h), WalkedUnder(key) \cup ReadOf(h))
    BY <1>6, <1>8, ReadOfIs
  <2> QED
    BY <1>1, <1>3, <1>4, <1>7, <1>8, <2>1, PutWell
<1>9. CASE ~(h.read /\ h.ok)
  <2>1. Matches(t, WalkedUnder(key) \cup ReadOf(h))
    BY <1>6, <1>9, ReadOfIs
  <2> QED
    BY <1>1, <1>3, <1>5, <1>7, <1>9, <2>1, LeaveWell
<1> QED
  BY <1>8, <1>9

LEMMA IconKeepsWalk == WalkInv /\ HandleIcon => WalkInv'
<1> SUFFICES ASSUME WalkInv, HandleIcon PROVE WalkInv'
  OBVIOUS
<1> DEFINE h == Here
           key == Key(h.base, h.name)
           t == MetUnder(key)
<1>1. Handles({"icon"})
  BY DEF HandleIcon
<1>2. h.kind = "icon"
  BY <1>1, HandlesHere
<1>3. h = Here /\ key = Key(h.base, h.name) /\ key = Key(Here.base, Here.name)
      /\ t = MetUnder(key)
  OBVIOUS
<1>4. h.read => Put(h, WithIcon(t, h)) /\ errors' = errors
  BY EntryIs DEF HandleIcon, Use, WithIcon
<1>5. ~h.read => UNCHANGED templateIndex /\ errors' = errors \cup {h}
  BY DEF HandleIcon, Use
<1> HIDE DEF h, key, t
<1>6. /\ Matches(t, WalkedUnder(key) \cup {})
      /\ Matches(WithIcon(t, h), WalkedUnder(key) \cup {h})
  BY <1>1, <1>2, <1>3, NextMatches
<1>7. Failing(h) <=> ~h.read
  BY <1>1, <1>2, FailingIs
<1>8. CASE h.read
  <2>1. Matches(WithIcon(t, h), WalkedUnder(key) \cup ReadOf(h))
    BY <1>6, <1>8, ReadOfIs
  <2> QED
    BY <1>1, <1>3, <1>4, <1>7, <1>8, <2>1, PutWell
<1>9. CASE ~h.read
  <2>1. Matches(t, WalkedUnder(key) \cup ReadOf(h))
    BY <1>6, <1>9, ReadOfIs
  <2> QED
    BY <1>1, <1>3, <1>5, <1>7, <1>9, <2>1, LeaveWell
<1> QED
  BY <1>8, <1>9

LEMMA ReadmeKeepsWalk == WalkInv /\ HandleReadme => WalkInv'
<1> SUFFICES ASSUME WalkInv, HandleReadme PROVE WalkInv'
  OBVIOUS
<1> DEFINE h == Here
           key == Key(h.base, h.name)
           t == MetUnder(key)
<1>1. Handles({"readme"}) /\ h.folder = Root
  BY DEF HandleReadme
<1>2. h.kind = "readme"
  BY <1>1, HandlesHere
<1>3. h = Here /\ key = Key(h.base, h.name) /\ key = Key(Here.base, Here.name)
      /\ t = MetUnder(key)
  OBVIOUS
<1>4. h.read => Put(h, WithReadme(t, h)) /\ errors' = errors
  BY EntryIs DEF HandleReadme, Use, WithReadme
<1>5. ~h.read => UNCHANGED templateIndex /\ errors' = errors \cup {h}
  BY DEF HandleReadme, Use
<1> HIDE DEF h, key, t
<1>6. /\ Matches(t, WalkedUnder(key) \cup {})
      /\ Matches(WithReadme(t, h), WalkedUnder(key) \cup {h})
  BY <1>1, <1>2, <1>3, NextMatches
<1>7. Failing(h) <=> ~h.read
  BY <1>1, <1>2, FailingIs
<1>8. CASE h.read
  <2>1. Matches(WithReadme(t, h), WalkedUnder(key) \cup ReadOf(h))
    BY <1>6, <1>8, ReadOfIs
  <2> QED
    BY <1>1, <1>3, <1>4, <1>7, <1>8, <2>1, PutWell
<1>9. CASE ~h.read
  <2>1. Matches(t, WalkedUnder(key) \cup ReadOf(h))
    BY <1>6, <1>9, ReadOfIs
  <2> QED
    BY <1>1, <1>3, <1>5, <1>7, <1>9, <2>1, LeaveWell
<1> QED
  BY <1>8, <1>9

LEMMA VersionFileKeepsWalk == WalkInv /\ HandleVersionFile => WalkInv'
<1> SUFFICES ASSUME WalkInv, HandleVersionFile PROVE WalkInv'
  OBVIOUS
<1> DEFINE h == Here
           key == Key(h.base, h.name)
           t == MetUnder(key)
<1>1. Handles(VersionFileKinds) /\ (h.kind = "readme" => h.folder # Root)
  BY DEF HandleVersionFile
<1>2. h.kind \in VersionFileKinds
  BY <1>1, HandlesHere
<1>3. h = Here /\ key = Key(h.base, h.name) /\ key = Key(Here.base, Here.name)
      /\ t = MetUnder(key)
  OBVIOUS
<1>4. IsVersionFolder(h.folder) /\ h.read => Put(h, WithVersions(t, h)) /\ errors' = errors
  BY EntryIs DEF HandleVersionFile, Use, WithVersions
<1>5. IsVersionFolder(h.folder) /\ ~h.read
        => UNCHANGED templateIndex /\ errors' = errors \cup {h}
  BY DEF HandleVersionFile, Use
<1>6. ~IsVersionFolder(h.folder) => UNCHANGED templateIndex /\ errors' = errors
  BY DEF HandleVersionFile
<1> HIDE DEF h, key, t
<1>7. /\ Matches(t, WalkedUnder(key) \cup {})
      /\ Matches(IF IsVersionFolder(h.folder) THEN WithVersions(t, h) ELSE t,
                 WalkedUnder(key) \cup {h})
  BY <1>1, <1>2, <1>3, NextMatches
<1>8. Failing(h) <=> IsVersionFolder(h.folder) /\ ~h.read
  BY <1>1, <1>2, FailingIs
<1>9. CASE IsVersionFolder(h.folder) /\ h.read
  <2>1. Matches(WithVersions(t, h), WalkedUnder(key) \cup ReadOf(h))
    BY <1>7, <1>9, ReadOfIs
  <2> QED
    BY <1>1, <1>3, <1>4, <1>8, <1>9, <2>1, PutWell
<1>10. CASE IsVersionFolder(h.folder) /\ ~h.read
  <2>1. Matches(t, WalkedUnder(key) \cup ReadOf(h))
    BY <1>7, <1>10, ReadOfIs
  <2> QED
    BY <1>1, <1>3, <1>5, <1>8, <1>10, <2>1, LeaveWell
<1>11. CASE ~IsVersionFolder(h.folder)
  <2>1. Matches(t, WalkedUnder(key) \cup ReadOf(h))
    BY <1>7, <1>11, ReadOfIs
  <2> QED
    BY <1>1, <1>3, <1>6, <1>8, <1>11, <2>1, LeaveWell
<1> QED
  BY <1>9, <1>10, <1>11

-----------------------------------------------------------------------------
(* The end of the walk.                                                    *)

LEMMA LastOfNone == LastOf({}) = {}
BY DEF LastOf

\* Of the files of a set there is a last one.
LEMMA LastOfSome ==
  ASSUME NEW S \in SUBSET ToSet(Walk), S # {}
  PROVE  LastOf(S) # {}
<1> DEFINE left(f) == Len(Walk) - Order(f)
           lefts == {left(f) : f \in S}
<1>1. \A f \in S : Order(f) \in Nat /\ left(f) \in Nat
  <2>1. DOMAIN Walk = 1..Len(Walk) /\ Len(Walk) \in Nat
    BY WalkAssumption
  <2> QED
    BY <2>1, OrderIs
<1>2. lefts \in SUBSET Nat /\ lefts # {}
  BY <1>1
<1>3. PICK m \in lefts : \A n \in lefts : <<n, m>> \notin OpToRel(<, Nat)
  BY <1>2, NatLessThanWellFounded, WFMin
<1>4. PICK f \in S : m = left(f)
  OBVIOUS
<1>5. ASSUME NEW g \in S
      PROVE  Order(g) <= Order(f)
  <2>1. left(g) \in lefts /\ left(g) \in Nat /\ m \in Nat
    BY <1>1, <1>2
  <2>2. <<left(g), m>> \notin OpToRel(<, Nat)
    BY <1>3, <2>1
  <2>3. ~(left(g) < m)
    <3> SUFFICES ASSUME left(g) < m PROVE FALSE
      OBVIOUS
    <3> HIDE DEF left, lefts
    <3>1. <<left(g), m>> \in Nat \X Nat /\ <<left(g), m>>[1] < <<left(g), m>>[2]
      BY <2>1
    <3> QED
      BY <2>2, <3>1 DEF OpToRel
  <2>4. Len(Walk) \in Nat /\ Order(f) \in Nat /\ Order(g) \in Nat
    BY <1>1, WalkAssumption
  <2> QED
    BY <1>4, <2>3, <2>4
<1> QED
  BY <1>5 DEF LastOf

LEMMA NothingMet ==
  ASSUME NEW files, files = {}
  PROVE  Matches(NoTemplate, files)
<1>1. ConfigOf(files) = {} /\ OfKind(files, "icon") = {} /\ ReadmeOf(files) = {}
  <2>1. {f \in files : f.kind = "config" /\ f.ok} = {} /\ {f \in files : f.kind = "icon"} = {}
        /\ {f \in {f \in files : f.folder = Root} : f.kind = "readme"} = {}
    OBVIOUS
  <2> QED
    BY <2>1, LastOfNone DEF ConfigOf, ReadmeOf, OfKind
<1>2. FolderVersions(files) = {}
  BY DEF FolderVersions, InVersions
<1> DEFINE none == << >>
<1>3. none \in Seq(Version) /\ DOMAIN none = {}
  OBVIOUS
<1> HIDE DEF none
<1>4. ToSet(none) = {} /\ Once(none)
  BY <1>3 DEF ToSet, Once
<1>5. NoTemplate = [info |-> ConfigOf(files), icon |-> OfKind(files, "icon"),
                    readme |-> ReadmeOf(files), versions |-> none]
  BY <1>1 DEF NoTemplate, none
<1> QED
  BY <1>2, <1>3, <1>4, <1>5, PartsMatch

LEMMA WalkStarts == Init => WalkInv
<1> SUFFICES ASSUME Init PROVE WalkInv
  OBVIOUS
<1>1. Walked = {}
  BY DEF Init, Walked
<1>2. ASSUME NEW k \in KeysOf(tree)
      PROVE  Matches(MetUnder(k), WalkedUnder(k))
  <2>1. MetUnder(k) = NoTemplate
    BY DEF Init, MetUnder
  <2>2. WalkedUnder(k) = {}
    BY <1>1 DEF WalkedUnder
  <2> QED
    BY <2>1, <2>2, NothingMet
<1>3. tree \subseteq ToSet(Walk) /\ rest = tree /\ DOMAIN templateIndex = {} /\ errors = {}
      /\ returned = FALSE
  BY DEF Init
<1> QED
  BY <1>1, <1>2, <1>3 DEF WalkInv

\* The entries that make templates are those of keys with a config that parses.
LEMMA ConfiguredAre ==
  ASSUME WalkInv, NEW t \in Configured
  PROVE  \E k \in KeysOf(tree) :
           t = MetUnder(k) /\ Matches(t, WalkedUnder(k)) /\ t.info = ConfigOf(WalkedUnder(k))
<1>1. PICK k \in DOMAIN templateIndex : t = templateIndex[k]
  BY DEF Configured, Range
<1>2. k \in KeysOf(tree) /\ t = MetUnder(k) /\ Matches(t, WalkedUnder(k))
  BY <1>1 DEF WalkInv, MetUnder
<1>3. t.info = ConfigOf(WalkedUnder(k))
  BY <1>2, PartsOf
<1> QED
  BY <1>2, <1>3

LEMMA EndKeepsWalk == WalkInv /\ TraverseEnd => WalkInv'
<1> SUFFICES ASSUME WalkInv, TraverseEnd PROVE WalkInv'
  OBVIOUS
<1>1. rest = {} /\ rest' = rest /\ tree' = tree /\ templateIndex' = templateIndex /\ returned' = TRUE
  BY DEF TraverseEnd
<1>2. Walked' = Walked /\ KeysOf(tree)' = KeysOf(tree) /\ Version' = Version
  BY <1>1 DEF Walked, KeysOf, Version
<1>3. ASSUME NEW k \in KeysOf(tree)
      PROVE  Matches(MetUnder(k), WalkedUnder(k))'
  <2>1. MetUnder(k)' = MetUnder(k) /\ WalkedUnder(k)' = WalkedUnder(k)
    BY <1>1, <1>2 DEF MetUnder, WalkedUnder
  <2>2. Matches(MetUnder(k), WalkedUnder(k))
    BY DEF WalkInv
  <2> QED
    BY <1>2, <2>1, <2>2 DEF Matches
<1>4. errors' \subseteq tree
  <2> DEFINE all == UNION {ToSet(t.versions) : t \in Configured}
  <2>1. ASSUME NEW v \in all
        PROVE  Broken(v.files) \subseteq tree
    <3>1. PICK t \in Configured : v \in ToSet(t.versions)
      BY <2>1
    <3>2. t.versions \in Seq(Version)
      BY ConfiguredAre, PartsOf
    <3>3. v \in Version
      BY <3>1, <3>2 DEF ToSet
    <3>4. v.files \subseteq tree
      BY <3>3 DEF Version
    <3>5. Broken(v.files) \subseteq v.files
      BY DEF Broken, Described, Filled, OfKind, LastOf
    <3> QED
      BY <3>4, <3>5
  <2>2. errors' = errors \cup UNION {Broken(v.files) : v \in all}
    BY DEF TraverseEnd
  <2>3. errors \subseteq tree
    BY DEF WalkInv
  <2> HIDE DEF all
  <2> QED
    BY <2>1, <2>2, <2>3
<1>5. (\A k \in KeysOf(tree) : Matches(MetUnder(k), WalkedUnder(k)))'
  BY <1>2, <1>3
<1> QED
  BY <1>1, <1>2, <1>4, <1>5 DEF WalkInv

LEMMA StillKeepsWalk == WalkInv /\ UNCHANGED vars => WalkInv'
<1> SUFFICES ASSUME WalkInv, UNCHANGED vars PROVE WalkInv'
  OBVIOUS
<1>1. /\ tree' = tree /\ rest' = rest /\ templateIndex' = templateIndex
      /\ errors' = errors /\ returned' = returned
  BY DEF vars
<1>2. Walked' = Walked /\ KeysOf(tree)' = KeysOf(tree) /\ Version' = Version
  BY <1>1 DEF Walked, KeysOf, Version
<1>3. ASSUME NEW k \in KeysOf(tree)
      PROVE  Matches(MetUnder(k), WalkedUnder(k))'
  <2>1. MetUnder(k)' = MetUnder(k) /\ WalkedUnder(k)' = WalkedUnder(k)
    BY <1>1, <1>2 DEF MetUnder, WalkedUnder
  <2>2. Matches(MetUnder(k), WalkedUnder(k))
    BY DEF WalkInv
  <2> QED
    BY <1>2, <2>1, <2>2 DEF Matches
<1>4. (\A k \in KeysOf(tree) : Matches(MetUnder(k), WalkedUnder(k)))'
  BY <1>2, <1>3
<1> QED
  BY <1>1, <1>2, <1>4 DEF WalkInv

\* Whatever keys the files have, an entry of the index is at every moment what
\* the files walked so far say of its key: what was met of a template before its
\* config is not lost, and no version is there twice (traverse.go:175-212).
THEOREM WalkInvariant == Spec => []WalkInv
<1>1. WalkInv /\ [Next]_vars => WalkInv'
  <2> SUFFICES ASSUME WalkInv, [Next]_vars PROVE WalkInv'
    OBVIOUS
  <2>1. CASE HandleConfig
    BY <2>1, ConfigKeepsWalk
  <2>2. CASE HandleIcon
    BY <2>2, IconKeepsWalk
  <2>3. CASE HandleReadme
    BY <2>3, ReadmeKeepsWalk
  <2>4. CASE HandleVersionFile
    BY <2>4, VersionFileKeepsWalk
  <2>5. CASE TraverseEnd
    BY <2>5, EndKeepsWalk
  <2>6. CASE UNCHANGED vars
    BY <2>6, StillKeepsWalk
  <2> QED
    BY <2>1, <2>2, <2>3, <2>4, <2>5, <2>6 DEF Next
<1> QED
  BY <1>1, WalkStarts, PTL DEF Spec

-----------------------------------------------------------------------------
(* The index that is returned.                                             *)

WithNamed(t) == [t EXCEPT !.versions = NamedVersions(t.versions)]

\* What becomes of an entry that matches the files of its template.
LEMMA WithNamedIs ==
  ASSUME NEW t, NEW files, Matches(t, files)
  PROVE  WithNamed(t) = Template(files)
<1> DEFINE a == ConfigOf(files)
           b == OfKind(files, "icon")
           c == ReadmeOf(files)
           d == t.versions
           named == NamedVersions(d)
           r == [info |-> a, icon |-> b, readme |-> c, versions |-> d]
<1>1. t = r /\ ToSet(d) = FolderVersions(files)
  BY PartsOf
<1>2. named = {v \in {Finished(w) : w \in FolderVersions(files)} : v.version # NotNamed}
  BY <1>1 DEF NamedVersions
<1>3. [r EXCEPT !.versions = named] = [info |-> a, icon |-> b, readme |-> c, versions |-> named]
  OBVIOUS
<1>4. WithNamed(t) = [t EXCEPT !.versions = named]
  BY DEF WithNamed
<1>5. Template(files) = [info |-> a, icon |-> b, readme |-> c, versions |-> named]
  BY <1>2 DEF Template
<1> HIDE DEF a, b, c, d, named, r
<1>6. [t EXCEPT !.versions = named] = [r EXCEPT !.versions = named]
  BY <1>1
<1> QED
  BY <1>3, <1>4, <1>5, <1>6

\* With different keys for different templates, and the whole tree walked, what
\* was walked under a key is the folder of its template.
LEMMA FolderIsKey ==
  ASSUME KeysDiffer, WalkInv, rest = {}, NEW f \in tree
  PROVE  WalkedUnder(Key(f.base, f.name)) = FolderFiles(f.base, f.name)
<1>1. Walked = tree /\ tree \subseteq ToSet(Walk)
  BY DEF Walked, WalkInv
<1>2. ASSUME NEW g \in tree
      PROVE  Key(g.base, g.name) = Key(f.base, f.name) <=> g.base = f.base /\ g.name = f.name
  BY <1>1 DEF KeysDiffer
<1> QED
  BY <1>1, <1>2 DEF WalkedUnder, FolderFiles

\* A config that parses makes a template of its folder, and is or gives way to
\* another config of the same folder.
LEMMA ConfigOfFolder ==
  ASSUME WalkInv, NEW f \in tree, Parses(f), NEW files, files = FolderFiles(f.base, f.name)
  PROVE  /\ ConfigOf(files) # {}
         /\ \A g \in ConfigOf(files) : g \in tree /\ g.base = f.base /\ g.name = f.name
<1> DEFINE S == {g \in files : Parses(g)}
<1>1. f \in S /\ S \subseteq tree /\ \A g \in S : g.base = f.base /\ g.name = f.name
  BY DEF FolderFiles, Parses
<1>2. S \in SUBSET ToSet(Walk)
  BY <1>1 DEF WalkInv
<1>3. ConfigOf(files) = LastOf(S)
  BY DEF ConfigOf, FolderFiles, Parses
<1> HIDE DEF S
<1>4. LastOf(S) # {} /\ LastOf(S) \subseteq S
  BY <1>1, <1>2, LastOfSome DEF LastOf
<1> QED
  BY <1>1, <1>3, <1>4

\* Each entry with a config is of the folder of one that parses, and each folder
\* of one that parses has its entry.
LEMMA ConfiguredIsFolder ==
  ASSUME KeysDiffer, WalkInv, rest = {}
  PROVE  /\ \A t \in Configured : \E f \in tree :
              Parses(f) /\ f \in t.info /\ Matches(t, FolderFiles(f.base, f.name))
         /\ \A f \in tree : Parses(f) => \E t \in Configured : Matches(t, FolderFiles(f.base, f.name))
<1>1. ASSUME NEW t \in Configured
      PROVE  \E f \in tree :
               Parses(f) /\ f \in t.info /\ Matches(t, FolderFiles(f.base, f.name))
  <2>1. PICK k \in KeysOf(tree) : Matches(t, WalkedUnder(k)) /\ t.info = ConfigOf(WalkedUnder(k))
    BY ConfiguredAre
  <2>2. PICK f \in t.info : TRUE
    BY DEF Configured
  <2>3. f \in WalkedUnder(k) /\ Parses(f)
    BY <2>1, <2>2 DEF ConfigOf, LastOf, WalkedUnder, Parses
  <2>4. f \in tree /\ k = Key(f.base, f.name)
    BY <2>3 DEF WalkedUnder, Walked
  <2>5. WalkedUnder(k) = FolderFiles(f.base, f.name)
    BY <2>4, FolderIsKey
  <2> QED
    BY <2>1, <2>2, <2>3, <2>4, <2>5
<1>2. ASSUME NEW f \in tree, Parses(f)
      PROVE  \E t \in Configured : Matches(t, FolderFiles(f.base, f.name))
  <2> DEFINE k == Key(f.base, f.name)
             t == MetUnder(k)
  <2>1. Matches(t, FolderFiles(f.base, f.name))
    <3>1. k \in KeysOf(tree)
      BY DEF KeysOf
    <3>2. Matches(MetUnder(k), WalkedUnder(k))
      BY <3>1 DEF WalkInv
    <3> QED
      BY <3>2, FolderIsKey
  <2>2. t.info # {}
    <3> HIDE DEF t
    <3> QED
      BY <1>2, <2>1, PartsOf, ConfigOfFolder
  <2>3. k \in DOMAIN templateIndex
    <3>1. NoTemplate.info = {}
      BY DEF NoTemplate
    <3> QED
      BY <2>2, <3>1 DEF MetUnder
  <2>4. t = templateIndex[k]
    BY <2>3 DEF MetUnder
  <2> HIDE DEF t, k
  <2>5. t \in Configured
    BY <2>2, <2>3, <2>4 DEF Configured, Range
  <2> QED
    BY <2>1, <2>5
<1> QED
  BY <1>1, <1>2

LEMMA EndReturnsTree ==
  ASSUME KeysDiffer, WalkInv, TraverseEnd
  PROVE  IndexIsOfTree'
<1>1. rest = {} /\ ~returned /\ tree' = tree
  BY DEF TraverseEnd
<1>2. \A t \in Configured : \E f \in tree :
        Parses(f) /\ f \in t.info /\ Matches(t, FolderFiles(f.base, f.name))
  BY <1>1, ConfiguredIsFolder
<1>3. \A f \in tree : Parses(f) => \E t \in Configured : Matches(t, FolderFiles(f.base, f.name))
  BY <1>1, ConfiguredIsFolder
<1>4. templates' = {WithNamed(t) : t \in Configured}
  BY DEF TraverseEnd, WithNamed
<1> DEFINE configs == {g \in tree : Parses(g)}
<1>5. TemplatesOfTree = {Template(FolderFiles(f.base, f.name)) : f \in configs}
  BY DEF TemplatesOfTree
<1>6. templates' = TemplatesOfTree
  <2>1. ASSUME NEW t \in Configured
        PROVE  WithNamed(t) \in TemplatesOfTree
    <3>1. PICK f \in configs : Matches(t, FolderFiles(f.base, f.name))
      BY <1>2
    <3>2. WithNamed(t) = Template(FolderFiles(f.base, f.name))
      BY <3>1, WithNamedIs
    <3> QED
      BY <1>5, <3>2
  <2>2. ASSUME NEW f \in configs
        PROVE  \E t \in Configured : WithNamed(t) = Template(FolderFiles(f.base, f.name))
    <3>1. PICK t \in Configured : Matches(t, FolderFiles(f.base, f.name))
      BY <1>3
    <3> QED
      BY <3>1, WithNamedIs
  <2> HIDE DEF configs
  <2> QED
    BY <1>4, <1>5, <2>1, <2>2
<1> DEFINE infos == UNION {u.info : u \in TemplatesOfTree}
           all == UNION {ToSet(t.versions) : t \in Configured}
           said == UNION {FolderVersions(FolderFiles(f.base, f.name)) : f \in infos}
<1>7. ASSUME NEW t \in Configured, NEW v \in ToSet(t.versions)
      PROVE  v \in said
  <2>1. PICK f \in configs : f \in t.info /\ Matches(t, FolderFiles(f.base, f.name))
    BY <1>2
  <2>2. /\ t.info = ConfigOf(FolderFiles(f.base, f.name))
        /\ ToSet(t.versions) = FolderVersions(FolderFiles(f.base, f.name))
    BY <2>1, PartsOf
  <2>3. Template(FolderFiles(f.base, f.name)).info = ConfigOf(FolderFiles(f.base, f.name))
    BY DEF Template
  <2>4. f \in infos
    BY <1>5, <2>1, <2>2, <2>3
  <2> HIDE DEF infos
  <2> QED
    BY <2>2, <2>4
<1>8. ASSUME NEW f \in infos, NEW v \in FolderVersions(FolderFiles(f.base, f.name))
      PROVE  v \in all
  <2>1. PICK g \in configs : f \in Template(FolderFiles(g.base, g.name)).info
    BY <1>5
  <2>2. f \in ConfigOf(FolderFiles(g.base, g.name))
    BY <2>1 DEF Template
  <2>3. f.base = g.base /\ f.name = g.name
    BY <2>2, ConfigOfFolder
  <2>4. PICK t \in Configured : Matches(t, FolderFiles(g.base, g.name))
    BY <1>3
  <2>5. ToSet(t.versions) = FolderVersions(FolderFiles(f.base, f.name))
    BY <2>3, <2>4, PartsOf
  <2> QED
    BY <2>5
<1>9. all = said
  <2> HIDE DEF infos
  <2> QED
    BY <1>7, <1>8
<1>10. errors' = errors \cup UNION {Broken(v.files) : v \in all}
  BY DEF TraverseEnd
<1>11. errors = {f \in tree : Failing(f)}
  BY <1>1 DEF WalkInv, Walked
<1>12. errors' = {f \in tree : Failing(f)}
                   \cup UNION {Broken(v.files) : v \in said}
  <2> HIDE DEF all, said
  <2> QED
    BY <1>9, <1>10, <1>11
<1>13. /\ TemplatesOfTree' = TemplatesOfTree
       /\ \A b, n : FolderFiles(b, n)' = FolderFiles(b, n)
  <2>1. \A b, n : FolderFiles(b, n)' = FolderFiles(b, n)
    BY <1>1 DEF FolderFiles
  <2>2. TemplatesOfTree' = TemplatesOfTree
    BY <1>1 DEF TemplatesOfTree, FolderFiles
  <2> QED
    BY <2>1, <2>2
<1>14. said' = said
  BY <1>1, <1>13 DEF FolderFiles
<1> HIDE DEF said, all, infos, configs
<1> QED
  BY <1>1, <1>6, <1>12, <1>13, <1>14 DEF IndexIsOfTree, said, infos

\* The order in which the files of a tree are met does not matter to the index
\* and the errors that are returned, for trees in which no two templates have
\* one key (base + name, traverse.go:303, is no injective key).
THEOREM IndexIsOfItsTree == KeysDiffer => (Spec => []IndexIsOfTree)
<1> SUFFICES ASSUME KeysDiffer PROVE Spec => []IndexIsOfTree
  OBVIOUS
<1>1. Init => IndexIsOfTree
  BY DEF Init, IndexIsOfTree
<1>2. WalkInv /\ IndexIsOfTree /\ [Next]_vars => IndexIsOfTree'
  <2> SUFFICES ASSUME WalkInv, IndexIsOfTree, [Next]_vars PROVE IndexIsOfTree'
    OBVIOUS
  <2>1. CASE TraverseEnd
    BY <2>1, EndReturnsTree
  <2>2. CASE UNCHANGED vars
    <3>1. tree' = tree /\ returned' = returned /\ templates' = templates /\ errors' = errors
      BY <2>2 DEF vars
    <3> DEFINE said == UNION {FolderVersions(FolderFiles(f.base, f.name)) :
                                f \in UNION {u.info : u \in TemplatesOfTree}}
    <3>2. TemplatesOfTree' = TemplatesOfTree /\ said' = said
      BY <3>1 DEF TemplatesOfTree, FolderFiles
    <3>3. IndexIsOfTree =
            (returned => templates = TemplatesOfTree
                         /\ errors = {f \in tree : Failing(f)}
                                       \cup UNION {Broken(v.files) : v \in said})
      BY DEF IndexIsOfTree
    <3>4. IndexIsOfTree' =
            (returned' => templates' = TemplatesOfTree'
                          /\ errors' = {f \in tree' : Failing(f)}
                                         \cup UNION {Broken(v.files) : v \in said'})
      BY DEF IndexIsOfTree
    <3> HIDE DEF said
    <3> QED
      BY <3>1, <3>2, <3>3, <3>4
  <2>3. ASSUME NEW kinds, Handles(kinds)
        PROVE  IndexIsOfTree'
    <3>1. ~returned'
      BY <2>3, HandlesHere
    <3> QED
      BY <3>1 DEF IndexIsOfTree
  <2> QED
    BY <2>1, <2>2, <2>3
       DEF Next, HandleConfig, HandleIcon, HandleReadme, HandleVersionFile
<1>3. Spec => []WalkInv
  BY WalkInvariant
<1> QED
  BY <1>1, <1>2, <1>3, PTL DEF Spec

=============================================================================
