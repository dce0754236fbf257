---------------------------- MODULE VersionOrder ----------------------------
(***************************************************************************)
(* The two orders of versions and what the API makes of them: upgrade links *)
(* by GreaterThan and VersionBetween (utils/version.go,                    *)
(* utils/version/version.go, service/utils.go), default versions by        *)
(* semantic version (model/version.go).                                    *)
(*                                                                         *)
(* A version is v1.2.3 with a suffix: release is its three numbers, suffix *)
(* what follows the dash, dots between.  A piece has a word, a number, or  *)
(* both, as "rancher12" has; words are numbered in lexical order.  Build   *)
(* metadata and a leading v are stripped by both orders and left out, and  *)
(* so are strings that are no semantic versions.                           *)
(***************************************************************************)
EXTENDS Integers, Sequences

NoWord == 0
NoNumber == -1

Piece == [word : Nat, number : Nat \cup {NoNumber}]

Number(n) == [word |-> NoWord, number |-> n]

\* periodDashSplit
Split(v) == [i \in 1..Len(v.release) |-> Number(v.release[i])] \o v.suffix

-----------------------------------------------------------------------------
(* GreaterThan                                                             *)

HasNumber(p) == p.number # NoNumber

\* Strings compare so when one of the pieces has no number: digits come before
\* letters, and a word before the same word with a number.
LexicallyAbove(p, q) ==
    p.word > q.word \/ (p.word = q.word /\ p.number > q.number)

\* Mutant: pieces that are equal decide.
PieceAtLeast(p, q) ==
    IF p.word # NoWord /\ q.word # NoWord /\ p.word # q.word THEN p.word > q.word
    ELSE IF ~HasNumber(p) \/ ~HasNumber(q) THEN LexicallyAbove(p, q)
    ELSE p.number >= q.number

PieceAbove(p, q) ==
    IF p.word # NoWord /\ q.word # NoWord /\ p.word # q.word THEN p.word > q.word
    ELSE IF ~HasNumber(p) \/ ~HasNumber(q) THEN LexicallyAbove(p, q)
    ELSE p.number > q.number

Decides(a, b, i) == PieceAbove(a[i], b[i]) \/ PieceAbove(b[i], a[i])

\* Mutant: the longer version is the greater one.
AboveIfLonger(a, b) ==
    IF \E i \in DOMAIN b : Decides(a, b, i)
    THEN \E i \in DOMAIN b : PieceAbove(a[i], b[i]) /\ \A j \in 1..(i - 1) : ~Decides(a, b, j)
    ELSE Len(a) > Len(b)

\* The first piece that decides; or else a has more pieces, and is greater if
\* the next one is a number (a is not shorter than b).
AboveFromLeft(a, b) ==
    IF \E i \in DOMAIN b : Decides(a, b, i)
    THEN \E i \in DOMAIN b : PieceAbove(a[i], b[i]) /\ \A j \in 1..(i - 1) : ~Decides(a, b, j)
    ELSE Len(a) > Len(b) /\ a[Len(b) + 1].word = NoWord

GreaterThan(v, w) ==
    LET a == Split(v)
        b == Split(w)
    IN  IF Len(b) > Len(a) THEN ~AboveFromLeft(b, a) ELSE AboveFromLeft(a, b)

-----------------------------------------------------------------------------
(* Bounds on the platform and ranges of versions to upgrade from.          *)

\* Mutant: the bounds themselves are outside.
VersionStrictlyBetween(min, platform, max) ==
    /\ \A a \in min, b \in platform : GreaterThan(b, a)
    /\ \A b \in platform, c \in max : GreaterThan(c, b)

\* {} stands for a bound, or a platform, that is not given.  A platform that
\* is not given is in all bounds.
VersionBetween(min, platform, max) ==
    /\ \A a \in min, b \in platform : ~GreaterThan(a, b)
    /\ \A b \in platform, c \in max : ~GreaterThan(b, c)

\* Precedence of semantic versions below 100: a release is above its
\* prereleases, a number below a word, and words compare as strings, digits
\* and all.
Lead(n) == IF n < 10 THEN n ELSE n \div 10

DigitsBelow(m, n) ==
    \/ Lead(m) < Lead(n)
    \/ Lead(m) = Lead(n) /\ m < n

IdentifierBelow(p, q) ==
    IF p.word # q.word THEN p.word < q.word
    ELSE IF p.word = NoWord THEN p.number < q.number
    ELSE IF p.number = NoNumber \/ q.number = NoNumber THEN p.number < q.number
    ELSE DigitsBelow(p.number, q.number)

FirstBelow(a, b, Below(_, _)) ==
    \E i \in DOMAIN a \cap DOMAIN b :
      Below(a[i], b[i]) /\ \A j \in 1..(i - 1) : a[j] = b[j]

IsPrefix(a, b) == Len(a) < Len(b) /\ \A i \in DOMAIN a : a[i] = b[i]

NumberBelow(m, n) == m < n

\* Versions.Less
Less(v, w) ==
    \/ FirstBelow(v.release, w.release, NumberBelow)
    \/ /\ v.release = w.release
       /\ \/ v.suffix # << >> /\ w.suffix = << >>
          \/ w.suffix # << >> /\ FirstBelow(v.suffix, w.suffix, IdentifierBelow)
          \/ v.suffix # << >> /\ IsPrefix(v.suffix, w.suffix)

Holds(v, expression) ==
    LET target == expression.target
    IN  CASE expression.op = "=" -> v = target
          [] expression.op = "!" -> v # target
          [] expression.op = ">" -> Less(target, v)
          [] expression.op = ">=" -> Less(target, v) \/ v = target
          [] expression.op = "<" -> Less(v, target)
          [] expression.op = "<=" -> Less(v, target) \/ v = target

\* A range is a sequence of alternatives, "||" between them, of expressions
\* that have to hold together.  A target that is no version is an error, when
\* the expressions before it hold.
Parses(expression) == expression.op # "bad"

Outcome(v, alternative) ==
    LET fails == {i \in DOMAIN alternative :
                    ~Parses(alternative[i]) \/ ~Holds(v, alternative[i])}
    IN  IF fails = {} THEN "matches"
        ELSE IF \E i \in fails : ~Parses(alternative[i]) /\ \A j \in fails : i <= j
        THEN "error" ELSE "fails"

VersionSatisfiesRange(v, range) ==
    \E i \in DOMAIN range : /\ Outcome(v, range[i]) = "matches"
                            /\ \A j \in 1..(i - 1) : Outcome(v, range[j]) = "fails"

=============================================================================
