---------------------------- MODULE MCLaunchForm ----------------------------
(***************************************************************************)
(* The instances of LaunchMaterial with questions, and answers to them:    *)
(* one for each of two questions, by any channel, or none.                 *)
(***************************************************************************)
EXTENDS LaunchForm, MCLaunch, TLC

CONSTANTS a, b, z, empty, one, day, path, long

AllTexts == {empty, one, day, path, long}

Lengths == (empty :> 0) @@ (one :> 1) @@ (day :> 2) @@ (path :> 2) @@ (long :> 3)

Plain == [name |-> a, kind |-> "string", sensitive |-> FALSE, required |-> FALSE,
          minLength |-> 0, maxLength |-> 2, min |-> 0, max |-> 0,
          options |-> {}, forbidden |-> {}]

Secret == [Plain EXCEPT !.name = b, !.sensitive = TRUE]

\* Both commits of s1 have the version 2, with other questions each; one
\* version of s2 asks twice for the same name.
Questions ==
    [x \in Sources \X Commits \X Versions |->
       CASE x = <<s1, 1, 1>> ->
              <<[Plain EXCEPT !.required = TRUE, !.minLength = 1, !.forbidden = {path}],
                [Secret EXCEPT !.required = TRUE]>>
         [] x = <<s1, 1, 2>> ->
              <<[Plain EXCEPT !.kind = "int", !.max = 1],
                [Secret EXCEPT !.kind = "service"]>>
         [] x = <<s1, 2, 2>> ->
              <<[Plain EXCEPT !.kind = "float", !.min = 1, !.sensitive = TRUE],
                [Plain EXCEPT !.name = b, !.kind = "enum", !.options = {one, day}]>>
         [] x = <<s2, 1, 1>> ->
              <<[Plain EXCEPT !.kind = "date"],
                [Plain EXCEPT !.name = b, !.kind = "boolean", !.required = TRUE]>>
         [] x = <<s2, 1, 2>> -> <<Plain, Plain>>
         [] OTHER ->
              <<[Plain EXCEPT !.kind = "other"],
                [Secret EXCEPT !.kind = "multiline", !.minLength = 2]>>]

QuestionsOfPlace == [p \in Place |-> Questions[<<p.src, p.commit, p.version>>]]

NotAsked == {p \in Place : p.src = s2 /\ p.commit = 1 /\ p.version = 2}

Given == {Text(t) : t \in AllTexts} \cup {Number(n, TRUE) : n \in 0..2}
           \cup {Number(1, FALSE), Truth(TRUE), Null}

FewGiven == {Text(t) : t \in {empty, one, long}} \cup {Truth(TRUE)}

Unanswered == [safe |-> <<>>, human |-> <<>>, reference |-> <<>>]

\* The forms, and those with the named question answered too.
Answered(forms, name, values) ==
    forms
    \cup {[f EXCEPT ![c] = (name :> v) @@ @] : f \in forms, c \in {"safe", "human"},
                                               v \in values}
    \cup {[f EXCEPT !.reference = (name :> v) @@ @] :
            f \in forms, v \in {w \in values : w.type = "text"}}

AllForms ==
    Answered(Answered({Unanswered}, a, Given), b, FewGiven)
    \cup {[Unanswered EXCEPT !.human = z :> Blank]}

=============================================================================
