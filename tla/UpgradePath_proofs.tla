------------------------- MODULE UpgradePath_proofs -------------------------
(***************************************************************************)
(* GreaterThan is the order of Newer on all versions it is made for, and   *)
(* upgrade links are the newer versions, whatever versions a template has. *)
(***************************************************************************)
EXTENDS UpgradePath, WellFoundedInduction, TLAPS

(* Pieces.                                                                 *)

\* A piece that has a word or a number, or both.
Proper == {p \in Piece : p.word # NoWord \/ HasNumber(p)}

Comparable(p, q) == p.word = NoWord <=> q.word = NoWord

Above(p, q) == p.word > q.word \/ (p.word = q.word /\ p.number > q.number)

LEMMA PieceAboveIs ==
  ASSUME NEW p \in Proper, NEW q \in Proper, Comparable(p, q)
  PROVE  PieceAbove(p, q) <=> Above(p, q)
BY DEF PieceAbove, Above, Proper, Piece, Comparable, HasNumber, LexicallyAbove, NoWord, NoNumber

\* Of two different pieces one is above the other, and not the other way round.
LEMMA AboveIsTotal ==
  ASSUME NEW p \in Proper, NEW q \in Proper
  PROVE  /\ ~(Above(p, q) /\ Above(q, p))
         /\ p # q => Above(p, q) \/ Above(q, p)
         /\ ~Above(p, p)
<1>1. /\ p.word \in Int /\ p.number \in Int /\ q.word \in Int /\ q.number \in Int
      /\ p = [word |-> p.word, number |-> p.number]
      /\ q = [word |-> q.word, number |-> q.number]
  BY DEF Proper, Piece, NoNumber
<1> QED
  BY <1>1 DEF Above

Triple(p) == <<Kind(p), p.word, p.number>>

LEMMA AheadOfThree ==
  ASSUME NEW a \in Int, NEW b \in Int, NEW c \in Int,
         NEW x \in Int, NEW y \in Int, NEW z \in Int
  PROVE  Ahead(<<a, b, c>>, <<x, y, z>>)
           <=> a > x \/ (a = x /\ b > y) \/ (a = x /\ b = y /\ c > z)
<1> DEFINE s == <<a, b, c>>
           t == <<x, y, z>>
<1>1. DOMAIN s = {1, 2, 3} /\ s[1] = a /\ s[2] = b /\ s[3] = c /\ t[1] = x /\ t[2] = y /\ t[3] = z
  OBVIOUS
<1>2. 1..(1 - 1) = {} /\ 1..(2 - 1) = {1} /\ 1..(3 - 1) = {1, 2}
  OBVIOUS
<1> HIDE DEF s, t
<1>3. Ahead(s, t) <=> \/ s[1] > t[1]
                      \/ s[2] > t[2] /\ s[1] = t[1]
                      \/ s[3] > t[3] /\ s[1] = t[1] /\ s[2] = t[2]
  BY <1>1, <1>2 DEF Ahead
<1> QED
  BY <1>1, <1>3 DEF s, t

LEMMA TripleAheadIs ==
  ASSUME NEW p \in Proper, NEW q \in Proper, Comparable(p, q)
  PROVE  Ahead(Triple(p), Triple(q)) <=> Above(p, q)
<1>1. /\ p.word \in Int /\ p.number \in Int /\ q.word \in Int /\ q.number \in Int
      /\ Kind(p) \in Int /\ Kind(q) \in Int /\ Kind(p) = Kind(q)
  BY DEF Proper, Piece, NoNumber, NoWord, Kind, Comparable
<1> QED
  BY <1>1, AheadOfThree DEF Triple, Above

\* Nothing is between a word and a number.
LEMMA TripleOfNothing ==
  ASSUME NEW p \in Proper
  PROVE  LET none == <<2, NoWord, NoNumber>>
         IN  /\ Ahead(Triple(p), none) <=> p.word = NoWord
             /\ Ahead(none, Triple(p)) <=> p.word # NoWord
<1>1. /\ p.word \in Int /\ p.number \in Int /\ NoWord \in Int /\ NoNumber \in Int
      /\ Kind(p) = IF p.word # NoWord THEN 1 ELSE 3
  BY DEF Proper, Piece, NoNumber, NoWord, Kind
<1> QED
  BY <1>1, AheadOfThree DEF Triple

-----------------------------------------------------------------------------
(* Versions as sequences of pieces.                                        *)

LEMMA VersionFacts ==
  ASSUME NEW v \in Version
  PROVE  /\ v = [release |-> v.release, suffix |-> v.suffix]
         /\ v.release \in Seq(Nat) /\ v.suffix \in Seq(Piece)
         /\ Len(v.release) \in Nat /\ Len(v.suffix) \in Nat
         /\ \A i \in 1..Len(v.release) : v.release[i] \in Nat
         /\ \A i \in 1..Len(v.suffix) : v.suffix[i] \in Proper
BY DEF Version, Proper

LEMMA ConcatenationIs ==
  ASSUME NEW s \in Seq(Piece), NEW t \in Seq(Piece)
  PROVE  /\ Len(s \o t) = Len(s) + Len(t) /\ DOMAIN (s \o t) = 1..(Len(s) + Len(t))
         /\ \A i \in 1..Len(s) : (s \o t)[i] = s[i]
         /\ \A i \in 1..Len(t) : (s \o t)[Len(s) + i] = t[i]
OBVIOUS

LEMMA Behind ==
  ASSUME NEW m \in Nat, NEW n \in Nat, NEW i \in 1..(m + n), i \notin 1..m
  PROVE  i - m \in 1..n /\ i - m \in Nat /\ m + (i - m) = i
OBVIOUS

\* A version is split into m numbers and n pieces of its suffix.
HasLengths(v, m, n) == m = Len(v.release) /\ n = Len(v.suffix)

SplitsInto(v, m, n) ==
    /\ m \in Nat /\ n \in Nat
    /\ Len(Split(v)) = m + n /\ DOMAIN Split(v) = 1..(m + n)
    /\ \A i \in 1..m : Split(v)[i] = Number(v.release[i])
    /\ \A i \in 1..n : Split(v)[m + i] = v.suffix[i]
    /\ \A i \in DOMAIN Split(v) : Split(v)[i] \in Proper

LEMMA SplitIs ==
  ASSUME NEW v \in Version, NEW m, NEW n, HasLengths(v, m, n)
  PROVE  SplitsInto(v, m, n)
<1> DEFINE numbers == [i \in 1..m |-> Number(v.release[i])]
           suffix == v.suffix
           pieces == Split(v)
<1>1. m \in Nat /\ n \in Nat /\ \A i \in 1..n : suffix[i] \in Proper
  BY VersionFacts DEF HasLengths
<1>2. \A i \in 1..m : Number(v.release[i]) \in Proper
  BY VersionFacts DEF HasLengths, Number, Proper, Piece, HasNumber, NoWord, NoNumber
<1>3. numbers \in Seq(Piece) /\ Len(numbers) = m
  BY <1>1, <1>2 DEF Proper
<1>4. pieces = numbers \o suffix /\ suffix \in Seq(Piece) /\ Len(suffix) = n
  BY VersionFacts DEF HasLengths, Split
<1>5. \A i \in 1..m : numbers[i] = Number(v.release[i])
  OBVIOUS
<1> HIDE DEF numbers, suffix, pieces
<1>6. /\ Len(pieces) = m + n /\ DOMAIN pieces = 1..(m + n)
      /\ \A i \in 1..m : pieces[i] = numbers[i]
      /\ \A i \in 1..n : pieces[m + i] = suffix[i]
  <2>1. /\ Len(numbers \o suffix) = Len(numbers) + Len(suffix)
        /\ DOMAIN (numbers \o suffix) = 1..(Len(numbers) + Len(suffix))
        /\ \A i \in 1..Len(numbers) : (numbers \o suffix)[i] = numbers[i]
        /\ \A i \in 1..Len(suffix) : (numbers \o suffix)[Len(numbers) + i] = suffix[i]
    BY <1>3, <1>4, ConcatenationIs
  <2> QED
    BY <1>3, <1>4, <2>1
<1>7. ASSUME NEW i \in DOMAIN pieces
      PROVE  pieces[i] \in Proper
  <2>1. CASE i \in 1..m
    BY <1>2, <1>5, <1>6, <2>1
  <2>2. CASE i \notin 1..m
    <3>1. i \in 1..(m + n)
      BY <1>6
    <3>2. i - m \in 1..n /\ m + (i - m) = i
      BY <1>1, <2>2, <3>1, Behind
    <3>3. pieces[m + (i - m)] = suffix[i - m]
      BY <1>6, <3>2
    <3> QED
      BY <1>1, <3>2, <3>3
  <2> QED
    BY <2>1, <2>2
<1> QED
  BY <1>1, <1>5, <1>6, <1>7 DEF pieces, suffix, SplitsInto

\* Positions that both versions have: of the release, and of the suffix.
Both(v, w) == DOMAIN Split(v) \cap DOMAIN Split(w)

LEMMA BothIs ==
  ASSUME NEW v \in Version, NEW w \in Version, Alike(v, w), NEW m, m = Len(v.release),
         NEW i \in Both(v, w)
  PROVE  /\ m = Len(w.release) /\ m \in Nat /\ i \in Nat \ {0}
         /\ \/ /\ i \in 1..m
               /\ Split(v)[i] = Number(v.release[i]) /\ Split(w)[i] = Number(w.release[i])
            \/ /\ i - m \in 1..Len(v.suffix) /\ i - m \in 1..Len(w.suffix) /\ i - m \in Nat
               /\ i - m \in DOMAIN v.suffix \cap DOMAIN w.suffix
               /\ Split(v)[i] = v.suffix[i - m] /\ Split(w)[i] = w.suffix[i - m]
<1>1. PICK n, o : n = Len(v.suffix) /\ o = Len(w.suffix)
  OBVIOUS
<1>2. m = Len(w.release) /\ HasLengths(v, m, n) /\ HasLengths(w, m, o)
  BY <1>1 DEF Alike, HasLengths
<1>3. /\ m \in Nat /\ n \in Nat /\ DOMAIN Split(v) = 1..(m + n)
      /\ \A j \in 1..m : Split(v)[j] = Number(v.release[j])
      /\ \A j \in 1..n : Split(v)[m + j] = v.suffix[j]
  <2>1. SplitsInto(v, m, n)
    BY <1>2, SplitIs
  <2> QED
    BY <2>1 DEF SplitsInto
<1>4. /\ o \in Nat /\ DOMAIN Split(w) = 1..(m + o)
      /\ \A j \in 1..m : Split(w)[j] = Number(w.release[j])
      /\ \A j \in 1..o : Split(w)[m + j] = w.suffix[j]
  <2>1. SplitsInto(w, m, o)
    BY <1>2, SplitIs
  <2> QED
    BY <2>1 DEF SplitsInto
<1>5. i \in 1..(m + n) /\ i \in 1..(m + o)
  BY <1>3, <1>4 DEF Both
<1>6. i \in Nat \ {0}
  BY <1>3, <1>5
<1>7. CASE i <= m
  <2>1. i \in 1..m
    BY <1>3, <1>6, <1>7
  <2> QED
    BY <1>2, <1>3, <1>4, <1>6, <2>1
<1>8. CASE ~(i <= m)
  <2>1. i - m \in 1..n /\ i - m \in 1..o /\ i - m \in Nat /\ m + (i - m) = i
    <3>1. i \notin 1..m
      BY <1>8
    <3> QED
      BY <1>3, <1>4, <1>5, <3>1, Behind
  <2>2. Split(v)[i] = v.suffix[i - m] /\ Split(w)[i] = w.suffix[i - m]
    <3>1. Split(v)[m + (i - m)] = v.suffix[i - m] /\ Split(w)[m + (i - m)] = w.suffix[i - m]
      BY <1>3, <1>4, <2>1
    <3> QED
      BY <2>1, <3>1
  <2>3. i - m \in DOMAIN v.suffix \cap DOMAIN w.suffix
    <3>1. v.suffix \in Seq(Piece) /\ w.suffix \in Seq(Piece)
      BY VersionFacts
    <3>2. DOMAIN v.suffix = 1..n /\ DOMAIN w.suffix = 1..o
      BY <1>1, <3>1
    <3> QED
      BY <2>1, <3>2
  <2> QED
    BY <1>1, <1>2, <1>3, <1>6, <2>1, <2>2, <2>3
<1> QED
  BY <1>7, <1>8

LEMMA BothComparable ==
  ASSUME NEW v \in Version, NEW w \in Version, Alike(v, w), NEW i \in Both(v, w)
  PROVE  /\ Split(v)[i] \in Proper /\ Split(w)[i] \in Proper
         /\ Comparable(Split(v)[i], Split(w)[i])
<1>1. Split(v)[i] \in Proper /\ Split(w)[i] \in Proper
  <2>1. HasLengths(v, Len(v.release), Len(v.suffix)) /\ HasLengths(w, Len(w.release), Len(w.suffix))
    BY DEF HasLengths
  <2> QED
    BY <2>1, SplitIs DEF Both, SplitsInto
<1> DEFINE m == Len(v.release)
<1>2. \/ Split(v)[i] = Number(v.release[i]) /\ Split(w)[i] = Number(w.release[i])
      \/ /\ i - m \in DOMAIN v.suffix \cap DOMAIN w.suffix
         /\ Split(v)[i] = v.suffix[i - m] /\ Split(w)[i] = w.suffix[i - m]
  BY BothIs
<1> HIDE DEF m
<1>3. Comparable(Split(v)[i], Split(w)[i])
  BY <1>2 DEF Comparable, Number, Alike
<1> QED
  BY <1>1, <1>3

-----------------------------------------------------------------------------
(* The first position at which two versions differ.                        *)

Differ(v, w, k) ==
    /\ k \in Both(v, w) /\ Split(v)[k] # Split(w)[k]
    /\ \A j \in 1..(k - 1) : Split(v)[j] = Split(w)[j]

NowhereDiffer(v, w) == \A i \in Both(v, w) : Split(v)[i] = Split(w)[i]

LEMMA BothDown ==
  ASSUME NEW v \in Version, NEW w \in Version, NEW i \in Both(v, w)
  PROVE  i \in Nat \ {0} /\ 1..i \subseteq Both(v, w)
<1>1. PICK m, n : HasLengths(v, m, n)
  BY DEF HasLengths
<1>2. PICK o, q : HasLengths(w, o, q)
  BY DEF HasLengths
<1>3. SplitsInto(v, m, n) /\ SplitsInto(w, o, q)
  BY <1>1, <1>2, SplitIs
<1>4. m + n \in Nat /\ o + q \in Nat /\ Both(v, w) = (1..(m + n)) \cap (1..(o + q))
  BY <1>3 DEF SplitsInto, Both
<1> QED
  BY <1>4

LEMMA DifferOrNot ==
  ASSUME NEW v \in Version, NEW w \in Version
  PROVE  NowhereDiffer(v, w) \/ \E k \in Nat \ {0} : Differ(v, w, k)
<1> SUFFICES ASSUME ~NowhereDiffer(v, w)
             PROVE  \E k \in Nat \ {0} : Differ(v, w, k)
  OBVIOUS
<1> DEFINE S == {i \in Both(v, w) : Split(v)[i] # Split(w)[i]}
<1>1. S \in SUBSET Nat /\ S # {}
  BY BothDown DEF NowhereDiffer
<1>2. PICK k \in S : \A n \in S : <<n, k>> \notin OpToRel(<, Nat)
  BY <1>1, NatLessThanWellFounded, WFMin
<1>3. ASSUME NEW j \in 1..(k - 1)
      PROVE  Split(v)[j] = Split(w)[j]
  <2>1. k \in Nat /\ j \in Nat /\ j < k /\ j \in 1..k
    BY <1>1
  <2>2. j \in Both(v, w)
    BY <2>1, BothDown
  <2>3. j \notin S
    <3> SUFFICES ASSUME j \in S PROVE FALSE
      OBVIOUS
    <3>1. <<j, k>> \in Nat \X Nat /\ <<j, k>>[1] < <<j, k>>[2]
      BY <2>1
    <3> QED
      BY <1>2, <3>1 DEF OpToRel
  <2> QED
    BY <2>2, <2>3
<1> QED
  BY <1>3, BothDown DEF Differ

-----------------------------------------------------------------------------
(* GreaterThan by the first difference.                                    *)

Matched(a, b) ==
    /\ Len(b) \in Nat /\ DOMAIN b = 1..Len(b)
    /\ \A i \in DOMAIN b : a[i] \in Proper /\ b[i] \in Proper /\ Comparable(a[i], b[i])

LEMMA DecidesIs ==
  ASSUME NEW a, NEW b, Matched(a, b), NEW i \in DOMAIN b
  PROVE  /\ Decides(a, b, i) <=> a[i] # b[i]
         /\ PieceAbove(a[i], b[i]) <=> Above(a[i], b[i])
<1>1. a[i] \in Proper /\ b[i] \in Proper /\ Comparable(a[i], b[i]) /\ Comparable(b[i], a[i])
  BY DEF Matched, Comparable
<1>2. /\ PieceAbove(a[i], b[i]) <=> Above(a[i], b[i])
      /\ PieceAbove(b[i], a[i]) <=> Above(b[i], a[i])
  BY <1>1, PieceAboveIs
<1> QED
  BY <1>1, <1>2, AboveIsTotal DEF Decides

LEMMA FromLeftAtDifference ==
  ASSUME NEW a, NEW b, Matched(a, b), NEW k \in DOMAIN b, a[k] # b[k],
         \A j \in 1..(k - 1) : a[j] = b[j]
  PROVE  AboveFromLeft(a, b) <=> Above(a[k], b[k])
<1>1. Len(b) \in Nat /\ DOMAIN b = 1..Len(b)
  BY DEF Matched
<1>2. \A j \in 1..(k - 1) : j \in DOMAIN b /\ ~Decides(a, b, j)
  BY <1>1, DecidesIs
<1>3. Decides(a, b, k)
  BY DecidesIs
<1>4. ASSUME NEW i \in DOMAIN b, PieceAbove(a[i], b[i]), \A j \in 1..(i - 1) : ~Decides(a, b, j)
      PROVE  i = k
  <2>1. Decides(a, b, i)
    BY <1>4 DEF Decides
  <2>2. ~(i < k)
    BY <1>1, <1>2, <2>1
  <2>3. ~(k < i)
    BY <1>1, <1>3, <1>4
  <2> QED
    BY <1>1, <2>2, <2>3
<1>5. AboveFromLeft(a, b) <=> PieceAbove(a[k], b[k])
  BY <1>2, <1>3, <1>4 DEF AboveFromLeft
<1> QED
  BY <1>5, DecidesIs

LEMMA FromLeftWithout ==
  ASSUME NEW a, NEW b, Matched(a, b), \A i \in DOMAIN b : a[i] = b[i]
  PROVE  AboveFromLeft(a, b) <=> Len(a) > Len(b) /\ a[Len(b) + 1].word = NoWord
<1>1. \A i \in DOMAIN b : ~Decides(a, b, i)
  BY DecidesIs
<1> QED
  BY <1>1 DEF AboveFromLeft

\* Which of two splits is walked: the one that is not longer.
LEMMA SplitsMatch ==
  ASSUME NEW v \in Version, NEW w \in Version, Alike(v, w),
         Len(Split(w)) <= Len(Split(v))
  PROVE  Matched(Split(v), Split(w)) /\ DOMAIN Split(w) = Both(v, w)
<1>1. PICK m, n : HasLengths(v, m, n)
  BY DEF HasLengths
<1>2. PICK o, q : HasLengths(w, o, q)
  BY DEF HasLengths
<1>3. SplitsInto(v, m, n) /\ SplitsInto(w, o, q)
  BY <1>1, <1>2, SplitIs
<1>4. /\ m + n \in Nat /\ o + q \in Nat /\ o + q <= m + n
      /\ DOMAIN Split(v) = 1..(m + n) /\ DOMAIN Split(w) = 1..(o + q) /\ Len(Split(w)) = o + q
  BY <1>3 DEF SplitsInto
<1>5. DOMAIN Split(w) = Both(v, w)
  BY <1>4 DEF Both
<1> QED
  BY <1>4, <1>5, BothComparable DEF Matched

LEMMA LengthsAre ==
  ASSUME NEW v \in Version
  PROVE  Len(Split(v)) \in Nat /\ Len(Split(v)) = Len(v.release) + Len(v.suffix)
<1> DEFINE m == Len(v.release)
           n == Len(v.suffix)
<1>1. HasLengths(v, m, n)
  BY DEF HasLengths
<1> HIDE DEF m, n
<1>2. SplitsInto(v, m, n)
  BY <1>1, SplitIs
<1>3. m \in Nat /\ n \in Nat /\ Len(Split(v)) = m + n
  BY <1>2 DEF SplitsInto
<1>4. Len(Split(v)) \in Nat /\ Len(Split(v)) = m + n
  BY <1>3
<1> QED
  BY <1>4 DEF m, n

LEMMA AlikeBack ==
  ASSUME NEW v, NEW w, Alike(v, w)
  PROVE  Alike(w, v) /\ Both(w, v) = Both(v, w)
BY DEF Alike, Both

LEMMA GreaterAtDifference ==
  ASSUME NEW v \in Version, NEW w \in Version, Alike(v, w), NEW k, Differ(v, w, k)
  PROVE  GreaterThan(v, w) <=> Above(Split(v)[k], Split(w)[k])
<1> DEFINE a == Split(v)
           b == Split(w)
<1>1. Len(a) \in Nat /\ Len(b) \in Nat
  BY LengthsAre
<1>2. /\ k \in Both(v, w) /\ a[k] # b[k] /\ \A j \in 1..(k - 1) : a[j] = b[j]
      /\ a[k] \in Proper /\ b[k] \in Proper
  BY BothComparable DEF Differ
<1>3. CASE Len(b) <= Len(a)
  <2>1. Matched(a, b) /\ k \in DOMAIN b
    BY <1>2, <1>3, SplitsMatch
  <2>2. AboveFromLeft(a, b) <=> Above(a[k], b[k])
    BY <1>2, <2>1, FromLeftAtDifference
  <2>3. ~(Len(b) > Len(a))
    BY <1>1, <1>3
  <2> QED
    BY <2>2, <2>3 DEF GreaterThan
<1>4. CASE Len(b) > Len(a)
  <2>1. Len(a) <= Len(b)
    BY <1>1, <1>4
  <2>2. Matched(b, a) /\ k \in DOMAIN a
    BY <1>2, <2>1, SplitsMatch, AlikeBack
  <2>3. AboveFromLeft(b, a) <=> Above(b[k], a[k])
    BY <1>2, <2>2, FromLeftAtDifference
  <2>4. Above(b[k], a[k]) <=> ~Above(a[k], b[k])
    BY <1>2, AboveIsTotal
  <2> QED
    BY <1>4, <2>3, <2>4 DEF GreaterThan
<1> QED
  BY <1>1, <1>3, <1>4

-----------------------------------------------------------------------------
(* Newer by the first difference.                                          *)

LEMMA AheadAtDifference ==
  ASSUME NEW n \in Nat, NEW s, NEW t, DOMAIN s = 1..n, NEW k \in 1..n,
         \A i \in 1..n : s[i] \in Int /\ t[i] \in Int, s[k] # t[k],
         \A j \in 1..(k - 1) : s[j] = t[j]
  PROVE  Ahead(s, t) <=> s[k] > t[k]
<1>1. ASSUME NEW i \in 1..n, s[i] > t[i], \A j \in 1..(i - 1) : s[j] = t[j]
      PROVE  i = k
  <2>1. s[i] # t[i]
    BY <1>1
  <2>2. ~(i < k)
    BY <2>1
  <2>3. ~(k < i)
    BY <1>1
  <2> QED
    BY <2>2, <2>3
<1> QED
  BY <1>1 DEF Ahead

LEMMA NotAheadOfItself ==
  ASSUME NEW s, NEW n \in Nat, DOMAIN s = 1..n, \A i \in 1..n : s[i] \in Int
  PROVE  ~Ahead(s, s)
BY DEF Ahead

\* The first of two sequences of triples that is ahead.
FirstAhead(s, t, n) == \E i \in 1..n : Ahead(s[i], t[i]) /\ \A j \in 1..(i - 1) : s[j] = t[j]

LEMMA FirstAheadAtDifference ==
  ASSUME NEW n \in Nat, NEW s, NEW t, NEW k \in 1..n, s[k] # t[k],
         \A j \in 1..(k - 1) : s[j] = t[j] /\ ~Ahead(s[j], s[j])
  PROVE  FirstAhead(s, t, n) <=> Ahead(s[k], t[k])
<1>1. ASSUME NEW i \in 1..n, Ahead(s[i], t[i]), \A j \in 1..(i - 1) : s[j] = t[j]
      PROVE  i = k
  <2>1. ~(i < k)
    <3> SUFFICES ASSUME i < k PROVE FALSE
      OBVIOUS
    <3>1. i \in 1..(k - 1)
      OBVIOUS
    <3>2. s[i] = t[i] /\ ~Ahead(s[i], s[i])
      BY <3>1
    <3> QED
      BY <1>1, <3>2
  <2>2. ~(k < i)
    BY <1>1
  <2> QED
    BY <2>1, <2>2
<1>2. \A j \in 1..(k - 1) : s[j] = t[j]
  OBVIOUS
<1> QED
  BY <1>1, <1>2 DEF FirstAhead

LEMMA FirstAheadNowhere ==
  ASSUME NEW n \in Nat, NEW s, \A i \in 1..n : ~Ahead(s[i], s[i])
  PROVE  ~FirstAhead(s, s, n)
BY DEF FirstAhead

Nothing == <<2, NoWord, NoNumber>>

LEMMA TriplesAre ==
  /\ ~Ahead(Nothing, Nothing)
  /\ \A p \in Proper : ~Ahead(Triple(p), Triple(p)) /\ Triple(p) # Nothing
  /\ \A p, q \in Proper : Triple(p) = Triple(q) => p = q
<1>1. ~Ahead(Nothing, Nothing)
  <2>1. NoWord \in Int /\ NoNumber \in Int
    BY DEF NoWord, NoNumber
  <2> QED
    BY <2>1, AheadOfThree DEF Nothing
<1>2. ASSUME NEW p \in Proper
      PROVE  ~Ahead(Triple(p), Triple(p)) /\ Triple(p) # Nothing
  <2>1. Comparable(p, p)
    BY DEF Comparable
  <2>2. ~Ahead(Triple(p), Triple(p))
    BY <2>1, TripleAheadIs, AboveIsTotal
  <2>3. Triple(p)[1] # 2 /\ Nothing[1] = 2
    BY DEF Triple, Kind, Nothing
  <2> QED
    BY <2>2, <2>3
<1>3. ASSUME NEW p \in Proper, NEW q \in Proper, Triple(p) = Triple(q)
      PROVE  p = q
  <2>1. /\ p = [word |-> p.word, number |-> p.number]
        /\ q = [word |-> q.word, number |-> q.number]
    BY DEF Proper, Piece
  <2>2. p.word = q.word /\ p.number = q.number
    <3>1. Triple(p)[2] = p.word /\ Triple(p)[3] = p.number
      BY DEF Triple
    <3>2. Triple(q)[2] = q.word /\ Triple(q)[3] = q.number
      BY DEF Triple
    <3> QED
      BY <1>3, <3>1, <3>2
  <2> QED
    BY <2>1, <2>2
<1> QED
  BY <1>1, <1>2, <1>3

LEMMA PaddedIs ==
  ASSUME NEW v \in Version, NEW n \in Nat, NEW i \in 1..n
  PROVE  /\ Padded(v, n)[i] = IF i <= Len(v.suffix) THEN Triple(v.suffix[i]) ELSE Nothing
         /\ ~Ahead(Padded(v, n)[i], Padded(v, n)[i])
<1>1. Padded(v, n)[i] = IF i <= Len(v.suffix) THEN Triple(v.suffix[i]) ELSE Nothing
  BY DEF Padded, Triple, Nothing
<1>2. i <= Len(v.suffix) => v.suffix[i] \in Proper
  BY VersionFacts
<1> QED
  BY <1>1, <1>2, TriplesAre

Longest(v, w) == IF Len(v.suffix) > Len(w.suffix) THEN Len(v.suffix) ELSE Len(w.suffix)

LEMMA NewerIs ==
  ASSUME NEW v, NEW w, NEW n, n = Longest(v, w)
  PROVE  Newer(v, w) <=> \/ Ahead(v.release, w.release)
                         \/ v.release = w.release /\ FirstAhead(Padded(v, n), Padded(w, n), n)
BY DEF Newer, FirstAhead, Longest

\* Releases that are nowhere different are the same, and not ahead of each other.
LEMMA SamePieces ==
  ASSUME NEW s \in Seq(Piece), NEW t \in Seq(Piece), Len(s) = Len(t),
         \A j \in 1..Len(s) : s[j] = t[j]
  PROVE  s = t
OBVIOUS

LEMMA SameSequences ==
  ASSUME NEW r \in Seq(Nat), NEW q \in Seq(Nat), Len(r) = Len(q),
         \A j \in 1..Len(r) : r[j] = q[j]
  PROVE  r = q
OBVIOUS

LEMMA ReleasesSame ==
  ASSUME NEW v \in Version, NEW w \in Version, Alike(v, w),
         \A j \in 1..Len(v.release) : v.release[j] = w.release[j]
  PROVE  v.release = w.release /\ ~Ahead(v.release, w.release)
<1> DEFINE r == v.release
           q == w.release
           m == Len(r)
<1>1. r \in Seq(Nat) /\ q \in Seq(Nat) /\ m \in Nat /\ Len(q) = m
  BY VersionFacts DEF Alike
<1>2. DOMAIN r = 1..m /\ DOMAIN q = 1..m /\ \A j \in 1..m : r[j] \in Int
  BY <1>1
<1>3. r = q
  BY <1>1, SameSequences
<1>4. ~Ahead(r, r)
  BY <1>1, <1>2, NotAheadOfItself
<1> QED
  BY <1>3, <1>4

LEMMA Within1 ==
  ASSUME NEW m \in Nat, NEW j \in 1..m, NEW n \in Nat
  PROVE  j \in Nat /\ j - m \notin 1..n
OBVIOUS

LEMMA NewerAtDifference ==
  ASSUME NEW v \in Version, NEW w \in Version, Alike(v, w), NEW k, Differ(v, w, k)
  PROVE  Newer(v, w) <=> Above(Split(v)[k], Split(w)[k])
<1> DEFINE r == v.release
           q == w.release
           m == Len(r)
           n == Longest(v, w)
           i == k - m
           s == Padded(v, n)
           t == Padded(w, n)
<1>1. /\ m \in Nat /\ Len(q) = m /\ r \in Seq(Nat) /\ q \in Seq(Nat)
      /\ Len(v.suffix) \in Nat /\ Len(w.suffix) \in Nat
  BY VersionFacts DEF Alike
<1>2. /\ k \in Both(v, w) /\ Split(v)[k] # Split(w)[k]
      /\ \A j \in 1..(k - 1) : Split(v)[j] = Split(w)[j] /\ j \in Both(v, w)
      /\ k \in Nat \ {0}
  <2>1. k \in Both(v, w) /\ Split(v)[k] # Split(w)[k]
        /\ \A j \in 1..(k - 1) : Split(v)[j] = Split(w)[j]
    BY DEF Differ
  <2>2. k \in Nat \ {0} /\ 1..k \subseteq Both(v, w)
    BY <2>1, BothDown
  <2> QED
    BY <2>1, <2>2
<1>3. Newer(v, w) <=> Ahead(r, q) \/ (r = q /\ FirstAhead(s, t, n))
  BY NewerIs
<1>4. ASSUME NEW j \in 1..(k - 1), j \in 1..m
      PROVE  r[j] = q[j]
  <2>1. j \in Nat /\ ~(j - m \in 1..Len(v.suffix))
    BY <1>1, <1>4, Within1
  <2>2. Split(v)[j] = Number(r[j]) /\ Split(w)[j] = Number(q[j])
    <3>1. j \in Both(v, w)
      BY <1>2
    <3> HIDE DEF m
    <3>2. \/ j \in 1..m /\ Split(v)[j] = Number(r[j]) /\ Split(w)[j] = Number(q[j])
          \/ j - m \in 1..Len(v.suffix)
      BY <3>1, BothIs DEF m
    <3> QED
      BY <2>1, <3>2
  <2>3. Number(r[j]) = Number(q[j])
    BY <1>2, <2>2
  <2> QED
    BY <2>3 DEF Number
<1>5. \/ /\ k \in 1..m
         /\ Split(v)[k] = Number(r[k]) /\ Split(w)[k] = Number(q[k])
      \/ /\ i \in 1..Len(v.suffix) /\ i \in 1..Len(w.suffix)
         /\ Split(v)[k] = v.suffix[i] /\ Split(w)[k] = w.suffix[i]
  <2>1. k \in Both(v, w)
    BY <1>2
  <2> HIDE DEF m
  <2> QED
    BY <2>1, BothIs DEF m
<1>6. CASE k \in 1..m /\ Split(v)[k] = Number(r[k]) /\ Split(w)[k] = Number(q[k])
  <2>1. /\ DOMAIN r = 1..m /\ \A j \in 1..m : r[j] \in Int /\ q[j] \in Int
    BY <1>1
  <2>2. r[k] # q[k]
    BY <1>2, <1>6
  <2>3. ASSUME NEW j \in 1..(k - 1)
        PROVE  r[j] = q[j]
    <3>1. m \in Nat /\ k \in 1..m
      BY <1>1, <1>6
    <3> HIDE DEF m
    <3>2. j \in 1..m
      BY <3>1
    <3> QED
      BY <3>2, <1>4 DEF m
  <2>4. Ahead(r, q) <=> r[k] > q[k]
    BY <1>1, <1>6, <2>1, <2>2, <2>3, AheadAtDifference
  <2>5. Above(Number(r[k]), Number(q[k])) <=> r[k] > q[k]
    BY <1>6, <2>1 DEF Above, Number, NoWord
  <2>6. r # q
    BY <2>2
  <2> QED
    BY <1>3, <1>6, <2>4, <2>5, <2>6
<1>7. CASE /\ i \in 1..Len(v.suffix) /\ i \in 1..Len(w.suffix)
           /\ Split(v)[k] = v.suffix[i] /\ Split(w)[k] = w.suffix[i]
  <2>1. r = q /\ ~Ahead(r, q)
    <3>1. \A j \in 1..m : j \in 1..(k - 1)
      BY <1>1, <1>2, <1>7
    <3> QED
      BY <1>4, <3>1, ReleasesSame
  <2>2. n \in Nat /\ i \in 1..n /\ Len(v.suffix) <= n /\ Len(w.suffix) <= n
    BY <1>1, <1>7 DEF Longest
  <2> HIDE DEF n, s, t, i
  <2>3. v.suffix[i] \in Proper /\ w.suffix[i] \in Proper /\ Comparable(v.suffix[i], w.suffix[i])
    BY <1>2, <1>7, BothComparable
  <2>4. s[i] = Triple(v.suffix[i]) /\ t[i] = Triple(w.suffix[i])
    <3>1. i <= Len(v.suffix) /\ i <= Len(w.suffix)
      BY <1>1, <1>7
    <3>2. Padded(v, n)[i] = Triple(v.suffix[i]) /\ Padded(w, n)[i] = Triple(w.suffix[i])
      BY <2>2, <3>1, PaddedIs
    <3> QED
      BY <3>2 DEF s, t
  <2>5. s[i] # t[i]
    BY <1>2, <1>7, <2>3, <2>4, TriplesAre
  <2>6. ASSUME NEW j \in 1..(i - 1)
        PROVE  s[j] = t[j] /\ ~Ahead(s[j], s[j])
    <3>1. j \in 1..n /\ j \in 1..Len(v.suffix) /\ j \in 1..Len(w.suffix)
      BY <1>1, <1>7, <2>2
    <3>2. m + j \in 1..(k - 1)
      BY <1>1, <1>2, <2>6 DEF i
    <3>3. Split(v)[m + j] = v.suffix[j] /\ Split(w)[m + j] = w.suffix[j]
      <4>1. m + j \notin 1..m /\ (m + j) - m = j
        BY <1>1, <3>1
      <4> QED
        BY <1>2, <3>2, <4>1, BothIs
    <3>4. v.suffix[j] = w.suffix[j]
      BY <1>2, <3>2, <3>3
    <3>5. j <= Len(v.suffix) /\ j <= Len(w.suffix)
      BY <1>1, <3>1
    <3>6. /\ Padded(v, n)[j] = Triple(v.suffix[j]) /\ Padded(w, n)[j] = Triple(w.suffix[j])
          /\ ~Ahead(Padded(v, n)[j], Padded(v, n)[j])
      BY <2>2, <3>1, <3>5, PaddedIs
    <3> QED
      BY <3>4, <3>6 DEF s, t
  <2>7. FirstAhead(s, t, n) <=> Ahead(s[i], t[i])
    BY <2>2, <2>5, <2>6, FirstAheadAtDifference
  <2>8. Ahead(s[i], t[i]) <=> Above(v.suffix[i], w.suffix[i])
    BY <2>3, <2>4, TripleAheadIs
  <2> QED
    BY <1>3, <1>7, <2>1, <2>7, <2>8
<1> QED
  BY <1>5, <1>6, <1>7

-----------------------------------------------------------------------------
(* Versions that differ nowhere: one has the pieces of the other and more.  *)

LEMMA EqualThroughout ==
  ASSUME NEW v \in Version, NEW w \in Version, Alike(v, w), NowhereDiffer(v, w)
  PROVE  /\ v.release = w.release /\ ~Ahead(v.release, w.release)
         /\ \A j \in 1..Len(v.suffix) :
              j \in 1..Len(w.suffix) => v.suffix[j] = w.suffix[j]
<1> DEFINE m == Len(v.release)
           n == Len(v.suffix)
           o == Len(w.suffix)
<1>1. HasLengths(v, m, n) /\ HasLengths(w, m, o)
  BY DEF Alike, HasLengths
<1> HIDE DEF m, n, o
<1>2. SplitsInto(v, m, n) /\ SplitsInto(w, m, o)
  BY <1>1, SplitIs
<1>3. /\ m \in Nat /\ n \in Nat /\ o \in Nat
      /\ Both(v, w) = (1..(m + n)) \cap (1..(m + o))
      /\ \A i \in 1..m : Split(v)[i] = Number(v.release[i]) /\ Split(w)[i] = Number(w.release[i])
      /\ \A i \in 1..n : Split(v)[m + i] = v.suffix[i]
      /\ \A i \in 1..o : Split(w)[m + i] = w.suffix[i]
  BY <1>2 DEF SplitsInto, Both
<1>4. ASSUME NEW j \in 1..m
      PROVE  v.release[j] = w.release[j]
  <2>1. j \in Both(v, w)
    BY <1>3
  <2>2. Number(v.release[j]) = Number(w.release[j])
    BY <1>3, <2>1 DEF NowhereDiffer
  <2> QED
    BY <2>2 DEF Number
<1>5. ASSUME NEW j \in 1..n, j \in 1..o
      PROVE  v.suffix[j] = w.suffix[j]
  <2>1. m + j \in Both(v, w)
    BY <1>3, <1>5
  <2> QED
    BY <1>3, <1>5, <2>1 DEF NowhereDiffer
<1>6. v.release = w.release /\ ~Ahead(v.release, w.release)
  BY <1>4, ReleasesSame DEF m
<1> QED
  BY <1>5, <1>6 DEF n, o

LEMMA LongerIs ==
  ASSUME NEW v \in Version, NEW w \in Version, Alike(v, w), NowhereDiffer(v, w),
         NEW k \in Nat, k = Len(w.suffix) + 1, k <= Len(v.suffix)
  PROVE  /\ v.suffix[k] \in Proper
         /\ Len(Split(v)) > Len(Split(w))
         /\ AboveFromLeft(Split(v), Split(w)) <=> v.suffix[k].word = NoWord
<1> DEFINE m == Len(v.release)
           n == Len(v.suffix)
           o == Len(w.suffix)
<1>1. HasLengths(v, m, n) /\ HasLengths(w, m, o) /\ k = o + 1 /\ k <= n
  BY DEF Alike, HasLengths
<1>2. \A i \in 1..n : v.suffix[i] \in Proper
  BY VersionFacts
<1> HIDE DEF m, n, o
<1>3. SplitsInto(v, m, n) /\ SplitsInto(w, m, o)
  BY <1>1, SplitIs
<1>4. /\ m \in Nat /\ n \in Nat /\ o \in Nat
      /\ Len(Split(v)) = m + n /\ Len(Split(w)) = m + o
      /\ \A i \in 1..n : Split(v)[m + i] = v.suffix[i]
  BY <1>3 DEF SplitsInto
<1>5. k \in 1..n /\ m + k = (m + o) + 1 /\ m + n > m + o /\ m + o <= m + n
  BY <1>1, <1>4
<1>6. Split(v)[Len(Split(w)) + 1] = v.suffix[k]
  BY <1>4, <1>5
<1>7. Matched(Split(v), Split(w)) /\ \A i \in DOMAIN Split(w) : Split(v)[i] = Split(w)[i]
  BY <1>4, <1>5, SplitsMatch DEF NowhereDiffer
<1>8. AboveFromLeft(Split(v), Split(w))
        <=> Len(Split(v)) > Len(Split(w)) /\ Split(v)[Len(Split(w)) + 1].word = NoWord
  BY <1>7, FromLeftWithout
<1> QED
  BY <1>2, <1>4, <1>5, <1>6, <1>8

LEMMA PaddedBeyond ==
  ASSUME NEW v \in Version, NEW w \in Version, Alike(v, w), NowhereDiffer(v, w),
         NEW k \in Nat, k = Len(w.suffix) + 1, NEW n \in Nat, n = Len(v.suffix), k <= n
  PROVE  /\ k \in 1..n
         /\ Padded(v, n)[k] = Triple(v.suffix[k]) /\ Padded(w, n)[k] = Nothing
         /\ \A j \in 1..(k - 1) : /\ Padded(v, n)[j] = Padded(w, n)[j]
                                  /\ ~Ahead(Padded(v, n)[j], Padded(v, n)[j])
                                  /\ ~Ahead(Padded(w, n)[j], Padded(w, n)[j])
<1> DEFINE o == Len(w.suffix)
<1>1. o \in Nat /\ k = o + 1
  BY VersionFacts
<1> HIDE DEF o
<1>2. k \in 1..n /\ k <= n /\ ~(k <= o)
  BY <1>1
<1>3. Padded(v, n)[k] = Triple(v.suffix[k]) /\ Padded(w, n)[k] = Nothing
  BY <1>2, PaddedIs DEF o
<1>4. ASSUME NEW j \in 1..(k - 1)
      PROVE  /\ Padded(v, n)[j] = Padded(w, n)[j]
             /\ ~Ahead(Padded(v, n)[j], Padded(v, n)[j])
             /\ ~Ahead(Padded(w, n)[j], Padded(w, n)[j])
  <2>1. j \in 1..n /\ j \in 1..o /\ j <= n /\ j <= o
    BY <1>1
  <2>2. v.suffix[j] = w.suffix[j]
    BY <2>1, EqualThroughout DEF o
  <2>3. /\ Padded(v, n)[j] = Triple(v.suffix[j]) /\ Padded(w, n)[j] = Triple(w.suffix[j])
        /\ ~Ahead(Padded(v, n)[j], Padded(v, n)[j])
        /\ ~Ahead(Padded(w, n)[j], Padded(w, n)[j])
    BY <2>1, PaddedIs DEF o
  <2> QED
    BY <2>2, <2>3
<1> QED
  BY <1>2, <1>3, <1>4

LEMMA NowhereDifferBack ==
  ASSUME NEW v, NEW w, NowhereDiffer(v, w)
  PROVE  NowhereDiffer(w, v)
BY DEF NowhereDiffer, Both

\* The longer one is the newer one if it goes on with a number.
LEMMA WhenLonger ==
  ASSUME NEW v \in Version, NEW w \in Version, Alike(v, w), NowhereDiffer(v, w),
         NEW k \in Nat, k = Len(w.suffix) + 1, k <= Len(v.suffix)
  PROVE  /\ GreaterThan(v, w) <=> v.suffix[k].word = NoWord
         /\ Newer(v, w) <=> v.suffix[k].word = NoWord
         /\ GreaterThan(w, v) <=> v.suffix[k].word # NoWord
         /\ Newer(w, v) <=> v.suffix[k].word # NoWord
<1>1. /\ v.suffix[k] \in Proper
      /\ Len(Split(v)) > Len(Split(w))
      /\ AboveFromLeft(Split(v), Split(w)) <=> v.suffix[k].word = NoWord
  BY LongerIs
<1>2. ~(Len(Split(w)) > Len(Split(v)))
  BY <1>1, LengthsAre
<1>3. /\ GreaterThan(v, w) <=> v.suffix[k].word = NoWord
      /\ GreaterThan(w, v) <=> v.suffix[k].word # NoWord
  BY <1>1, <1>2 DEF GreaterThan
<1> DEFINE n == Len(v.suffix)
           s == Padded(v, n)
           t == Padded(w, n)
<1>4. n \in Nat /\ n = Longest(v, w) /\ n = Longest(w, v) /\ k <= n
  BY VersionFacts DEF Longest
<1>5. /\ k \in 1..n
      /\ s[k] = Triple(v.suffix[k]) /\ t[k] = Nothing
      /\ \A j \in 1..(k - 1) : s[j] = t[j] /\ ~Ahead(s[j], s[j]) /\ ~Ahead(t[j], t[j])
  BY <1>4, PaddedBeyond
<1>6. v.release = w.release /\ ~Ahead(v.release, w.release) /\ ~Ahead(w.release, v.release)
  BY EqualThroughout
<1> HIDE DEF n
<1>7. /\ Newer(v, w) <=> FirstAhead(s, t, n)
      /\ Newer(w, v) <=> FirstAhead(t, s, n)
  BY <1>4, <1>6, NewerIs
<1> HIDE DEF s, t
<1>8. s[k] # t[k]
  BY <1>1, <1>5, TriplesAre
<1>9. /\ FirstAhead(s, t, n) <=> Ahead(s[k], t[k])
      /\ FirstAhead(t, s, n) <=> Ahead(t[k], s[k])
  <2>1. FirstAhead(s, t, n) <=> Ahead(s[k], t[k])
    <3>1. \A j \in 1..(k - 1) : s[j] = t[j] /\ ~Ahead(s[j], s[j])
      BY <1>5
    <3>2. n \in Nat /\ k \in 1..n
      BY <1>4, <1>5
    <3> QED
      BY <1>8, <3>1, <3>2, FirstAheadAtDifference
  <2>2. FirstAhead(t, s, n) <=> Ahead(t[k], s[k])
    <3>1. t[k] # s[k] /\ \A j \in 1..(k - 1) : t[j] = s[j] /\ ~Ahead(t[j], t[j])
      BY <1>5, <1>8
    <3>2. n \in Nat /\ k \in 1..n
      BY <1>4, <1>5
    <3> QED
      BY <3>1, <3>2, FirstAheadAtDifference
  <2> QED
    BY <2>1, <2>2
<1>10. /\ Ahead(s[k], t[k]) <=> v.suffix[k].word = NoWord
       /\ Ahead(t[k], s[k]) <=> v.suffix[k].word # NoWord
  BY <1>1, <1>5, TripleOfNothing DEF Nothing
<1> QED
  BY <1>3, <1>7, <1>9, <1>10

LEMMA WhenSameLength ==
  ASSUME NEW v \in Version, NEW w \in Version, Alike(v, w), NowhereDiffer(v, w),
         Len(v.suffix) = Len(w.suffix)
  PROVE  v = w /\ ~GreaterThan(v, w) /\ ~Newer(v, w)
<1>1. v.release = w.release /\ ~Ahead(v.release, w.release)
  BY EqualThroughout
<1>2. v.suffix = w.suffix
  <2>1. \A j \in 1..Len(v.suffix) : v.suffix[j] = w.suffix[j]
    BY EqualThroughout
  <2>2. v.suffix \in Seq(Piece) /\ w.suffix \in Seq(Piece)
    BY VersionFacts
  <2> QED
    BY <2>1, <2>2, SamePieces
<1>3. v = w
  BY <1>1, <1>2, VersionFacts
<1>4. ~GreaterThan(v, w)
  <2> DEFINE a == Split(v)
  <2>1. Len(a) \in Nat /\ Split(w) = a
    BY <1>3, LengthsAre
  <2>2. Matched(a, a)
    BY <1>3, <2>1, SplitsMatch
  <2>3. ~AboveFromLeft(a, a)
    <3> HIDE DEF a
    <3> QED
      BY <2>1, <2>2, FromLeftWithout
  <2> QED
    BY <2>1, <2>3 DEF GreaterThan
<1>5. ~Newer(v, w)
  <2> DEFINE n == Longest(v, v)
             s == Padded(v, n)
  <2>1. n \in Nat
    BY VersionFacts DEF Longest
  <2>2. \A i \in 1..n : ~Ahead(s[i], s[i])
    BY <2>1, PaddedIs
  <2>3. ~FirstAhead(s, s, n)
    <3> HIDE DEF s, n
    <3> QED
      BY <2>1, <2>2, FirstAheadNowhere
  <2>4. Newer(v, v) <=> Ahead(v.release, v.release) \/ FirstAhead(s, s, n)
    BY NewerIs
  <2>5. ~Newer(v, v)
    BY <1>1, <1>3, <2>3, <2>4
  <2> QED
    BY <1>3, <2>5
<1> QED
  BY <1>3, <1>4, <1>5

LEMMA LengthsCompare ==
  ASSUME NEW v \in Version, NEW w \in Version
  PROVE  \/ Len(v.suffix) = Len(w.suffix)
         \/ \E k \in Nat : k = Len(w.suffix) + 1 /\ k <= Len(v.suffix)
         \/ \E k \in Nat : k = Len(v.suffix) + 1 /\ k <= Len(w.suffix)
<1>1. Len(v.suffix) \in Nat /\ Len(w.suffix) \in Nat
  BY VersionFacts
<1> QED
  BY <1>1

\* The order of GreaterThan is the order that version_test.go lists versions
\* in, whatever the versions (utils/version.go).
THEOREM GreaterThanIsNewer ==
  ASSUME NEW v \in Version, NEW w \in Version, Alike(v, w)
  PROVE  GreaterThan(v, w) <=> Newer(v, w)
<1>1. CASE \E k \in Nat \ {0} : Differ(v, w, k)
  BY <1>1, GreaterAtDifference, NewerAtDifference
<1>2. CASE NowhereDiffer(v, w)
  <2>1. CASE Len(v.suffix) = Len(w.suffix)
    BY <1>2, <2>1, WhenSameLength
  <2>2. CASE \E k \in Nat : k = Len(w.suffix) + 1 /\ k <= Len(v.suffix)
    BY <1>2, <2>2, WhenLonger
  <2>3. CASE \E k \in Nat : k = Len(v.suffix) + 1 /\ k <= Len(w.suffix)
    BY <1>2, <2>3, WhenLonger, NowhereDifferBack, AlikeBack
  <2> QED
    BY <2>1, <2>2, <2>3, LengthsCompare
<1> QED
  BY <1>1, <1>2, DifferOrNot

\* Of two versions one is the greater, and not both (utils/version.go, whose
\* comparison of pieces is of neither letters nor numbers alone).
THEOREM GreaterThanIsTotal ==
  ASSUME NEW v \in Version, NEW w \in Version, Alike(v, w)
  PROVE  /\ ~(GreaterThan(v, w) /\ GreaterThan(w, v))
         /\ v # w => GreaterThan(v, w) \/ GreaterThan(w, v)
<1>1. CASE \E k \in Nat \ {0} : Differ(v, w, k)
  <2>1. PICK k \in Nat \ {0} : Differ(v, w, k)
    BY <1>1
  <2>2. /\ Split(v)[k] \in Proper /\ Split(w)[k] \in Proper /\ Split(v)[k] # Split(w)[k]
        /\ Differ(w, v, k) /\ Alike(w, v)
    BY <2>1, BothComparable, AlikeBack DEF Differ
  <2>3. /\ GreaterThan(v, w) <=> Above(Split(v)[k], Split(w)[k])
        /\ GreaterThan(w, v) <=> Above(Split(w)[k], Split(v)[k])
    BY <2>1, <2>2, GreaterAtDifference
  <2> QED
    BY <2>2, <2>3, AboveIsTotal
<1>2. CASE NowhereDiffer(v, w)
  <2>1. CASE Len(v.suffix) = Len(w.suffix)
    BY <1>2, <2>1, WhenSameLength
  <2>2. CASE \E k \in Nat : k = Len(w.suffix) + 1 /\ k <= Len(v.suffix)
    BY <1>2, <2>2, WhenLonger
  <2>3. CASE \E k \in Nat : k = Len(v.suffix) + 1 /\ k <= Len(w.suffix)
    BY <1>2, <2>3, WhenLonger, NowhereDifferBack, AlikeBack
  <2> QED
    BY <2>1, <2>2, <2>3, LengthsCompare
<1> QED
  BY <1>1, <1>2, DifferOrNot
-----------------------------------------------------------------------------
(* Newer leads on from one version to the next.                            *)

LEMMA AheadTransitive ==
  ASSUME NEW n \in Nat, NEW s, NEW t, NEW u, DOMAIN s = 1..n, DOMAIN t = 1..n,
         \A i \in 1..n : s[i] \in Int /\ t[i] \in Int /\ u[i] \in Int,
         Ahead(s, t), Ahead(t, u)
  PROVE  Ahead(s, u)
<1>1. PICK i \in 1..n : s[i] > t[i] /\ \A j \in 1..(i - 1) : s[j] = t[j]
  BY DEF Ahead
<1>2. PICK k \in 1..n : t[k] > u[k] /\ \A j \in 1..(k - 1) : t[j] = u[j]
  BY DEF Ahead
<1>3. \E l \in 1..n : s[l] > u[l] /\ \A j \in 1..(l - 1) : s[j] = u[j]
  <2>1. CASE i < k
    <3>1. s[i] > u[i] /\ \A j \in 1..(i - 1) : s[j] = u[j]
      BY <1>1, <1>2, <2>1
    <3> QED
      BY <3>1
  <2>2. CASE i = k
    <3>1. s[i] > u[i] /\ \A j \in 1..(i - 1) : s[j] = u[j]
      BY <1>1, <1>2, <2>2
    <3> QED
      BY <3>1
  <2>3. CASE i > k
    <3>1. s[k] > u[k] /\ \A j \in 1..(k - 1) : s[j] = u[j]
      BY <1>1, <1>2, <2>3
    <3> QED
      BY <3>1
  <2> QED
    BY <2>1, <2>2, <2>3
<1> QED
  BY <1>3 DEF Ahead

LEMMA FirstAheadTransitive ==
  ASSUME NEW n \in Nat, NEW s, NEW t, NEW u, FirstAhead(s, t, n), FirstAhead(t, u, n),
         \A i \in 1..n : Ahead(s[i], t[i]) /\ Ahead(t[i], u[i]) => Ahead(s[i], u[i])
  PROVE  FirstAhead(s, u, n)
<1>1. PICK i \in 1..n : Ahead(s[i], t[i]) /\ \A j \in 1..(i - 1) : s[j] = t[j]
  BY DEF FirstAhead
<1>2. PICK k \in 1..n : Ahead(t[k], u[k]) /\ \A j \in 1..(k - 1) : t[j] = u[j]
  BY DEF FirstAhead
<1>3. \E l \in 1..n : Ahead(s[l], u[l]) /\ \A j \in 1..(l - 1) : s[j] = u[j]
  <2>1. CASE i < k
    <3>1. Ahead(s[i], u[i]) /\ \A j \in 1..(i - 1) : s[j] = u[j]
      BY <1>1, <1>2, <2>1
    <3> QED
      BY <3>1
  <2>2. CASE i = k
    <3>1. Ahead(s[i], u[i]) /\ \A j \in 1..(i - 1) : s[j] = u[j]
      BY <1>1, <1>2, <2>2
    <3> QED
      BY <3>1
  <2>3. CASE i > k
    <3>1. Ahead(s[k], u[k]) /\ \A j \in 1..(k - 1) : s[j] = u[j]
      BY <1>1, <1>2, <2>3
    <3> QED
      BY <3>1
  <2> QED
    BY <2>1, <2>2, <2>3
<1> QED
  BY <1>3 DEF FirstAhead

\* What a padded suffix has in a place: three numbers.
Integers3(t) == DOMAIN t = 1..3 /\ \A i \in 1..3 : t[i] \in Int

LEMMA PaddedIsOfTriples ==
  ASSUME NEW v \in Version, NEW n \in Nat, NEW i \in 1..n
  PROVE  Integers3(Padded(v, n)[i])
<1>1. Integers3(Nothing)
  BY DEF Integers3, Nothing, NoWord, NoNumber
<1>2. ASSUME NEW p \in Proper
      PROVE  Integers3(Triple(p))
  <2>1. Kind(p) \in Int /\ p.word \in Int /\ p.number \in Int
    BY DEF Kind, Proper, Piece, NoNumber
  <2> QED
    BY <2>1 DEF Integers3, Triple
<1>3. i <= Len(v.suffix) => v.suffix[i] \in Proper
  BY VersionFacts
<1> QED
  BY <1>1, <1>2, <1>3, PaddedIs

\* More padding changes nothing.
LEMMA MorePadding ==
  ASSUME NEW v \in Version, NEW w \in Version, NEW n \in Nat, NEW o \in Nat,
         n = Longest(v, w), n <= o
  PROVE  FirstAhead(Padded(v, o), Padded(w, o), o) <=> FirstAhead(Padded(v, n), Padded(w, n), n)
<1>1. ASSUME NEW i \in 1..n
      PROVE  Padded(v, o)[i] = Padded(v, n)[i] /\ Padded(w, o)[i] = Padded(w, n)[i]
  <2>1. i \in 1..o
    OBVIOUS
  <2> QED
    BY <2>1, PaddedIs
<1>2. ASSUME NEW i \in 1..o, i \notin 1..n
      PROVE  ~Ahead(Padded(v, o)[i], Padded(w, o)[i])
  <2>1. ~(i <= Len(v.suffix)) /\ ~(i <= Len(w.suffix))
    BY <1>2, VersionFacts DEF Longest
  <2>2. Padded(v, o)[i] = Nothing /\ Padded(w, o)[i] = Nothing
    BY <2>1, PaddedIs
  <2> QED
    BY <2>2, TriplesAre
<1> DEFINE s == Padded(v, o)
           t == Padded(w, o)
           x == Padded(v, n)
           y == Padded(w, n)
<1>3. /\ \A i \in 1..n : s[i] = x[i] /\ t[i] = y[i]
      /\ \A i \in 1..o : i \notin 1..n => ~Ahead(s[i], t[i])
  BY <1>1, <1>2
<1> HIDE DEF s, t, x, y
<1>4. FirstAhead(s, t, o) => FirstAhead(x, y, n)
  <2> SUFFICES ASSUME NEW i \in 1..o, Ahead(s[i], t[i]), \A j \in 1..(i - 1) : s[j] = t[j]
               PROVE  FirstAhead(x, y, n)
    BY DEF FirstAhead
  <2>1. i \in 1..n /\ \A j \in 1..(i - 1) : j \in 1..n
    BY <1>3
  <2>2. Ahead(x[i], y[i]) /\ \A j \in 1..(i - 1) : x[j] = y[j]
    BY <1>3, <2>1
  <2> QED
    BY <2>1, <2>2 DEF FirstAhead
<1>5. FirstAhead(x, y, n) => FirstAhead(s, t, o)
  <2> SUFFICES ASSUME NEW i \in 1..n, Ahead(x[i], y[i]), \A j \in 1..(i - 1) : x[j] = y[j]
               PROVE  FirstAhead(s, t, o)
    BY DEF FirstAhead
  <2>1. i \in 1..o /\ \A j \in 1..(i - 1) : j \in 1..n
    OBVIOUS
  <2>2. Ahead(s[i], t[i]) /\ \A j \in 1..(i - 1) : s[j] = t[j]
    BY <1>3, <2>1
  <2> QED
    BY <2>1, <2>2 DEF FirstAhead
<1> QED
  BY <1>4, <1>5 DEF s, t, x, y

LEMMA EnoughPadding ==
  ASSUME NEW u \in Version, NEW v \in Version, NEW w \in Version
  PROVE  \E o \in Nat : /\ Longest(u, v) \in Nat /\ Longest(u, v) <= o
                        /\ Longest(v, w) \in Nat /\ Longest(v, w) <= o
                        /\ Longest(u, w) \in Nat /\ Longest(u, w) <= o
<1>1. PICK a, b, c : a = Len(u.suffix) /\ b = Len(v.suffix) /\ c = Len(w.suffix)
  OBVIOUS
<1>2. a \in Nat /\ b \in Nat /\ c \in Nat
  BY <1>1, VersionFacts
<1>3. a + b + c \in Nat
  BY <1>2
<1> QED
  BY <1>1, <1>2, <1>3 DEF Longest

LEMMA NumbersAre ==
  ASSUME NEW s \in Seq(Nat), NEW m, m = Len(s)
  PROVE  DOMAIN s = 1..m /\ \A i \in 1..m : s[i] \in Int
OBVIOUS

\* A version newer than one that is newer than a third is newer than that:
\* with GreaterThanIsTotal, no series of links leads back to its beginning.
THEOREM NewerIsTransitive ==
  ASSUME NEW u \in Version, NEW v \in Version, NEW w \in Version,
         Len(u.release) = Len(v.release), Len(v.release) = Len(w.release),
         Newer(u, v), Newer(v, w)
  PROVE  Newer(u, w)
<1>1. PICK o \in Nat : /\ Longest(u, v) \in Nat /\ Longest(u, v) <= o
                       /\ Longest(v, w) \in Nat /\ Longest(v, w) <= o
                       /\ Longest(u, w) \in Nat /\ Longest(u, w) <= o
  BY EnoughPadding
<1> DEFINE x == Padded(u, o)
           y == Padded(v, o)
           z == Padded(w, o)
<1>2. /\ Newer(u, v) <=> Ahead(u.release, v.release)
                           \/ (u.release = v.release /\ FirstAhead(x, y, o))
      /\ Newer(v, w) <=> Ahead(v.release, w.release)
                           \/ (v.release = w.release /\ FirstAhead(y, z, o))
      /\ Newer(u, w) <=> Ahead(u.release, w.release)
                           \/ (u.release = w.release /\ FirstAhead(x, z, o))
  BY <1>1, NewerIs, MorePadding
<1>3. Ahead(u.release, v.release) /\ Ahead(v.release, w.release) => Ahead(u.release, w.release)
  <2> DEFINE m == Len(u.release)
             a == u.release
             b == v.release
             c == w.release
  <2>1. /\ a \in Seq(Nat) /\ b \in Seq(Nat) /\ c \in Seq(Nat)
        /\ m \in Nat /\ m = Len(a) /\ m = Len(b) /\ m = Len(c)
    BY VersionFacts
  <2> HIDE DEF m, a, b, c
  <2>2. /\ DOMAIN a = 1..m /\ DOMAIN b = 1..m
        /\ \A i \in 1..m : a[i] \in Int /\ b[i] \in Int /\ c[i] \in Int
    BY <2>1, NumbersAre
  <2>3. Ahead(a, b) /\ Ahead(b, c) => Ahead(a, c)
    BY <2>1, <2>2, AheadTransitive
  <2> QED
    BY <2>3 DEF a, b, c
<1>4. ASSUME NEW i \in 1..o, Ahead(x[i], y[i]), Ahead(y[i], z[i])
      PROVE  Ahead(x[i], z[i])
  <2>1. Integers3(x[i]) /\ Integers3(y[i]) /\ Integers3(z[i])
    BY PaddedIsOfTriples
  <2> HIDE DEF x, y, z
  <2>2. PICK a, b, c : a = x[i] /\ b = y[i] /\ c = z[i]
    OBVIOUS
  <2>3. /\ 3 \in Nat /\ DOMAIN a = 1..3 /\ DOMAIN b = 1..3
        /\ \A j \in 1..3 : a[j] \in Int /\ b[j] \in Int /\ c[j] \in Int
    BY <2>1, <2>2 DEF Integers3
  <2>4. Ahead(a, b) /\ Ahead(b, c)
    BY <1>4, <2>2
  <2>5. Ahead(a, c)
    BY <2>3, <2>4, AheadTransitive
  <2> QED
    BY <2>2, <2>5
<1> HIDE DEF x, y, z
<1>5. FirstAhead(x, y, o) /\ FirstAhead(y, z, o) => FirstAhead(x, z, o)
  BY <1>4, FirstAheadTransitive
<1> QED
  BY <1>2, <1>3, <1>5

-----------------------------------------------------------------------------
(* The links.                                                              *)

\* The versions that a response links to.
ShownFrom(from, on) == {w \in template : ShowUpgradeVersion(from, w, on)}

\* A link is that of a version which is newer, within its bounds for this
\* platform, and meant to be an upgrade of this one.
Fits(w, from, on) ==
    /\ Newer(w.name, from)
    /\ \A bound \in w.min, p \in on : bound = p \/ Newer(p, bound)
    /\ \A bound \in w.max, p \in on : bound = p \/ Newer(bound, p)
    /\ \A range \in w.from : from \in Means(range)

Premises == VersionsAlike /\ RangesMean

\* What a template has is compared with what it is made for.
RequestOf(from, on) ==
    /\ template \in Templates /\ on \in Platforms
    /\ \E v \in template : v.name = from

LEMMA BoundIsNewer ==
  ASSUME NEW v \in Version, NEW w \in Version, Alike(v, w), Alike(w, v)
  PROVE  ~GreaterThan(v, w) <=> v = w \/ Newer(w, v)
<1>1. /\ GreaterThan(w, v) <=> Newer(w, v)
      /\ ~(GreaterThan(v, w) /\ GreaterThan(w, v))
      /\ v # w => GreaterThan(v, w) \/ GreaterThan(w, v)
  BY GreaterThanIsNewer, GreaterThanIsTotal
<1>2. v = w => ~GreaterThan(v, w)
  BY GreaterThanIsTotal
<1> QED
  BY <1>1, <1>2

LEMMA ShowsWhatFits ==
  ASSUME Premises, NEW on, NEW from, RequestOf(from, on), NEW w \in template
  PROVE  ShowUpgradeVersion(from, w, on) <=> Fits(w, from, on)
<1>1. PICK v \in template : v.name = from
  BY DEF RequestOf
<1> DEFINE all == Compared(template)
<1>2. /\ from \in all /\ w.name \in all
      /\ w.min \subseteq all /\ w.max \subseteq all /\ on \subseteq all
  <2>1. from \in Names(template) /\ w.name \in Names(template)
    BY <1>1 DEF Names
  <2>2. on \subseteq UNION Platforms
    BY DEF RequestOf
  <2>3. w.min \cup w.max \in {u.min \cup u.max : u \in template}
    OBVIOUS
  <2>4. w.min \cup w.max \subseteq UNION {u.min \cup u.max : u \in template}
    BY <2>3
  <2> QED
    BY <2>1, <2>2, <2>4 DEF Compared
<1>3. \A x, y \in all : x \in Version /\ Alike(x, y)
  BY DEF Premises, VersionsAlike, RequestOf
<1> HIDE DEF all
<1>4. GreaterThan(w.name, from) <=> Newer(w.name, from)
  BY <1>2, <1>3, GreaterThanIsNewer
<1>5. ASSUME NEW x \in all, NEW y \in all
      PROVE  ~GreaterThan(x, y) <=> x = y \/ Newer(y, x)
  BY <1>3, BoundIsNewer
<1>6. /\ (\A a \in w.min, b \in on : ~GreaterThan(a, b))
           <=> (\A bound \in w.min, p \in on : bound = p \/ Newer(p, bound))
      /\ (\A b \in on, c \in w.max : ~GreaterThan(b, c))
           <=> (\A bound \in w.max, p \in on : bound = p \/ Newer(bound, p))
  BY <1>2, <1>5
<1>7. \A range \in w.from : from \in Means(range) <=> VersionSatisfiesRange(from, range)
  BY <1>1 DEF Premises, RangesMean, RequestOf
<1> QED
  BY <1>4, <1>6, <1>7 DEF ShowUpgradeVersion, VersionBetween, Fits

\* There are no links, or they are those of the last request; and the version
\* that is installed is one of the template's.
LinksAreShown ==
    /\ template \in Templates
    /\ installed \in Names(template)
    /\ defaultLink \subseteq links
    /\ \/ links = {}
       \/ platform \in Platforms /\ links = Names(ShownFrom(installed, platform))

LEMMA LinksInitially == Init => LinksAreShown
BY DEF Init, LinksAreShown

LEMMA DefaultIsShown ==
  ASSUME NEW shown
  PROVE  DefaultUpgrade(shown) \subseteq shown
BY DEF DefaultUpgrade, LastSorted

LEMMA GetVersionKeepsLinks == LinksAreShown /\ GetVersion => LinksAreShown'
<1> SUFFICES ASSUME LinksAreShown, GetVersion
             PROVE  LinksAreShown'
  OBVIOUS
<1>1. /\ template' = template /\ installed' = installed /\ platform' \in Platforms
      /\ links' = Names(ShownFrom(installed, platform'))
      /\ defaultLink' \subseteq links'
  BY DefaultIsShown DEF GetVersion, ShownFrom
<1>2. links' = Names(ShownFrom(installed, platform))'
  BY <1>1 DEF Names, ShownFrom
<1> QED
  BY <1>1, <1>2 DEF LinksAreShown, Names

LEMMA UpgradeKeepsLinks == LinksAreShown /\ Upgrade => LinksAreShown'
<1> SUFFICES ASSUME LinksAreShown, Upgrade
             PROVE  LinksAreShown'
  OBVIOUS
<1>1. installed' \in Names(template)
  BY DEF LinksAreShown, Upgrade, Names, ShownFrom
<1> QED
  BY <1>1 DEF LinksAreShown, Upgrade, Names

LEMMA StuttersKeepLinks == LinksAreShown /\ UNCHANGED vars => LinksAreShown'
BY DEF LinksAreShown, vars, Names, ShownFrom

\* Links are those of a response to the version that is installed: an upgrade
\* takes away what was shown of the version before (versionResource).
LEMMA LinksAreOfTheLastResponse == Spec => []LinksAreShown
<1>1. LinksAreShown /\ [Next]_vars => LinksAreShown'
  BY GetVersionKeepsLinks, UpgradeKeepsLinks, StuttersKeepLinks DEF Next
<1> QED
  BY LinksInitially, <1>1, PTL DEF Spec

\* Links lead to newer versions only, within the bounds of the platform, and
\* from a version that their range means; the default is one of them
\* (showUpgradeVersion and versionResource of service/utils.go).
THEOREM LinksLeadUpAlways == VersionsAlike /\ RangesMean => (Spec => []LinksLeadUp)
<1> SUFFICES ASSUME VersionsAlike, RangesMean
             PROVE  Spec => []LinksLeadUp
  OBVIOUS
<1>1. LinksAreShown => LinksLeadUp
  <2> SUFFICES ASSUME LinksAreShown, NEW w \in template, w.name \in links
               PROVE  /\ Newer(w.name, installed) /\ Within(w)
                      /\ \A range \in w.from : installed \in Means(range)
    BY DEF LinksLeadUp, LinksAreShown
  <2>1. /\ platform \in Platforms /\ template \in Templates
        /\ \E u \in ShownFrom(installed, platform) : u.name = w.name
    BY DEF LinksAreShown, Names
  <2>2. PICK u \in template : u.name = w.name /\ ShowUpgradeVersion(installed, u, platform)
    BY <2>1 DEF ShownFrom
  <2>3. u = w
    BY <2>1, <2>2, UpgradeAssumption
  <2>4. RequestOf(installed, platform)
    BY <2>1 DEF LinksAreShown, RequestOf, Names
  <2>5. Fits(w, installed, platform)
    BY <2>2, <2>3, <2>4, ShowsWhatFits DEF Premises
  <2> QED
    BY <2>5 DEF Fits, Within
<1> QED
  BY <1>1, LinksAreOfTheLastResponse, PTL

\* A response misses no upgrade (versionResource): every version that is
\* newer, within its bounds and meant for the installed one has its link.
THEOREM NoUpgradeIsMissed == VersionsAlike /\ RangesMean => (Spec => LinksMissNothing)
<1> SUFFICES ASSUME VersionsAlike, RangesMean
             PROVE  Spec => LinksMissNothing
  OBVIOUS
<1> DEFINE Shows ==
      GetVersion =>
        \A w \in template :
          (/\ Newer(w.name, installed) /\ Within(w)'
           /\ \A range \in w.from : installed \in Means(range))
             => w.name \in links'
<1>1. LinksAreShown /\ [Next]_vars => [Shows]_vars
  <2> SUFFICES ASSUME LinksAreShown, GetVersion, NEW w \in template,
                      Newer(w.name, installed), Within(w)',
                      \A range \in w.from : installed \in Means(range)
               PROVE  w.name \in links'
    OBVIOUS
  <2>1. RequestOf(installed, platform')
    BY DEF GetVersion, LinksAreShown, RequestOf, Names
  <2>2. Fits(w, installed, platform')
    BY DEF Fits, Within
  <2>3. ShowUpgradeVersion(installed, w, platform')
    BY <2>1, <2>2, ShowsWhatFits DEF Premises
  <2> QED
    BY <2>3 DEF GetVersion, Names
<1> QED
  BY <1>1, LinksAreOfTheLastResponse, PTL DEF Spec, LinksMissNothing
\* Following a link of a response (upgradeVersionLinks of versionResource)
\* installs a newer version of the template than the one there was.
THEOREM UpgradesGoUp ==
  VersionsAlike /\ RangesMean => (Spec => [][Upgrade => Newer(installed', installed)]_vars)
<1> SUFFICES ASSUME VersionsAlike, RangesMean
             PROVE  Spec => [][Upgrade => Newer(installed', installed)]_vars
  OBVIOUS
<1>1. LinksAreShown /\ LinksLeadUp /\ [Next]_vars => [Upgrade => Newer(installed', installed)]_vars
  <2> SUFFICES ASSUME LinksAreShown, LinksLeadUp, Upgrade
               PROVE  Newer(installed', installed)
    OBVIOUS
  <2>1. PICK w \in template : w.name = installed' /\ w.name \in links
    BY DEF Upgrade, LinksAreShown, Names, ShownFrom
  <2> QED
    BY <2>1 DEF LinksLeadUp
<1>2. Spec => []LinksLeadUp
  BY LinksLeadUpAlways
<1> QED
  BY <1>1, <1>2, LinksAreOfTheLastResponse, PTL DEF Spec

=============================================================================
