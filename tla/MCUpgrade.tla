----------------------------- MODULE MCUpgrade ------------------------------
(***************************************************************************)
(* Small instances of UpgradePath.  The word 1 is "pre", 2 is "rancher".   *)
(***************************************************************************)
EXTENDS UpgradePath

V(major, minor, suffix) == [release |-> <<major, minor, 0>>, suffix |-> suffix]

Word(w) == [word |-> w, number |-> NoNumber]
WordNumber(w, n) == [word |-> w, number |-> n]

\* Suffixes whose second piece is a number, or that have none.
AllNames ==
    {V(1, 2, s) : s \in {<< >>, <<Word(2)>>, <<WordNumber(2, 9)>>,
                         <<WordNumber(2, 9), Number(2)>>, <<WordNumber(2, 9), Number(10)>>,
                         <<WordNumber(1, 10)>>}}
      \cup {V(1, 10, << >>), V(1, 10, <<WordNumber(2, 1)>>)}

Expression(op, target) == [op |-> op, target |-> target]

\* ">1.2.0-rancher9 <1.10.0"
Range1 == <<<<Expression(">", V(1, 2, <<WordNumber(2, 9)>>)), Expression("<", V(1, 10, << >>))>>>>

\* "=1.2.0-rancher || !1.2.0 <=1.2.0-rancher9"
Range2 == <<<<Expression("=", V(1, 2, <<Word(2)>>))>>,
            <<Expression("!", V(1, 2, << >>)), Expression("<=", V(1, 2, <<WordNumber(2, 9)>>))>>>>

\* ">=1.10.0-rancher1 nonsense || =1.2.0"
Range3 == <<<<Expression(">=", V(1, 10, <<WordNumber(2, 1)>>)), Expression("bad", << >>)>>,
            <<Expression("=", V(1, 2, << >>))>>>>

MeantBy(range) ==
    IF range = Range1
    THEN {V(1, 2, << >>), V(1, 2, <<WordNumber(2, 9), Number(2)>>),
          V(1, 2, <<WordNumber(2, 9), Number(10)>>), V(1, 10, <<WordNumber(2, 1)>>)}
    ELSE IF range = Range2
    THEN {V(1, 2, <<Word(2)>>), V(1, 2, <<WordNumber(2, 9)>>), V(1, 2, <<WordNumber(1, 10)>>)}
    ELSE {V(1, 2, << >>)}

Plain(name) == [name |-> name, min |-> {}, max |-> {}, from |-> {}]

\* Two versions without conditions, and one with.
Conditional(name) ==
    {[name |-> name, min |-> min, max |-> max, from |-> {}] :
       min \in {{}, {V(1, 2, <<WordNumber(2, 9)>>)}}, max \in {{}, {V(1, 2, << >>)}}}
      \cup {[Plain(name) EXCEPT !.from = {range}] : range \in {Range1, Range2, Range3}}

SmallTemplates ==
    UNION {{{Plain(a), Plain(b), c} : c \in Conditional(d)} :
             <<a, b, d>> \in {t \in AllNames \X AllNames \X AllNames :
                               t[1] # t[2] /\ t[1] # t[3] /\ t[2] # t[3]}}

AllPlatforms ==
    {{}, {V(1, 2, <<WordNumber(2, 9)>>)}, {V(1, 2, << >>)}, {V(1, 10, << >>)}}

\* What the theorems about upgrade links start from is so here.
ASSUME PremisesHold == VersionsAlike /\ RangesMean

=============================================================================
