--------------------------- MODULE LaunchOptions ---------------------------
(***************************************************************************)
(* The questions of a version and the answers to them                      *)
(* (internal/launchoptions/options.go): which questions are supported, by  *)
(* which channel each may be answered, and what a launch is given.         *)
(*                                                                         *)
(* A text is told apart by its length, by whether a question forbids its   *)
(* characters, and by whether it is a date or has the form of a reference. *)
(* Left out: labels, descriptions and the bounds on the length of these    *)
(* and of options, numbers beyond 2^53, and more answers than there may be *)
(* questions.                                                              *)
(***************************************************************************)
EXTENDS Integers, Sequences, FiniteSets

CONSTANTS
    Names,          \* of questions
    BadNames,       \* those that no question may have
    Texts,
    Units,          \* [Texts -> Nat], their lengths
    EmptyText,
    Dates,          \* texts that are dates
    Malformed,      \* texts that are no references
    MaxQuestions, DefaultMaxLength, MaxLengthLimit

ASSUME OptionsAssumption ==
    /\ Units \in [Texts -> Nat]
    /\ DefaultMaxLength \in Nat

\* "multiline" stands for masked too, "service" for every kind that names a
\* resource, "other" for those the program does not know.
Kinds == {"string", "int", "float", "boolean", "enum", "password", "multiline", "date",
          "service", "other"}

Primitive == {"string", "int", "float", "boolean", "enum"}

\* As it is written in the template; a bound of 0 on numbers is none.
\* sensitive: what the name looks like.  forbidden: texts with a character
\* that valid_chars does not list or invalid_chars lists.
Question == [name : Names, kind : Kinds, sensitive : BOOLEAN, required : BOOLEAN,
             minLength : Int, maxLength : Nat, min : Int, max : Int,
             options : SUBSET Texts, forbidden : SUBSET Texts]

Text(t) == [type |-> "text", text |-> t]
Number(n, whole) == [type |-> "number", number |-> n, whole |-> whole]
Truth(b) == [type |-> "boolean", boolean |-> b]
Null == [type |-> "null"]

Blank == Text(EmptyText)

-----------------------------------------------------------------------------
(* Build.                                                                  *)

MaxLength(q) == IF q.maxLength > 0 THEN q.maxLength ELSE DefaultMaxLength

\* Mutant: a name that looks sensitive does not matter.
ChannelOfKind(q) ==
    IF q.kind = "service" THEN "reference"
    ELSE IF q.kind \in Primitive THEN "safe" ELSE "human"

\* Who answers.  What is not known is for people, whatever its default.
Channel(q) ==
    IF q.kind = "service" THEN "reference"
    ELSE IF q.sensitive \/ q.kind \notin Primitive THEN "human"
    ELSE "safe"

Supported(q) ==
    /\ q.name \notin BadNames
    /\ q.minLength \in 0..MaxLength(q)
    /\ MaxLength(q) <= MaxLengthLimit
    /\ q.max # 0 => q.min <= q.max
    /\ q.kind = "enum" /\ Channel(q) = "safe" => q.options # {}

\* Build succeeds.
Builds(questions) ==
    /\ Len(questions) <= MaxQuestions
    /\ \A i \in DOMAIN questions : Supported(questions[i])
    /\ \A i, j \in DOMAIN questions : questions[i].name = questions[j].name => i = j

-----------------------------------------------------------------------------
(* A single answer.                                                        *)

Fits(q, value) == value.type = "text" /\ Units[value.text] \in q.minLength..MaxLength(q)

AtLeast(q, n) == q.min = 0 \/ n >= q.min

AtMost(q, n) == q.max = 0 \/ n <= q.max

ValidValue(q, kind, value) ==
    \/ kind = "string" /\ Fits(q, value)
    \/ kind = "enum" /\ Fits(q, value) /\ value.text \in q.options
    \/ kind = "boolean" /\ value.type = "boolean"
    \/ /\ kind \in {"int", "float"}
       /\ value.type = "number"
       /\ kind = "int" => value.whole
       /\ AtLeast(q, value.number) /\ AtMost(q, value.number)

\* A human's answer is of the kind that was written, as far as it is known.
InvalidHuman(q, value) ==
    \/ q.kind = "date" /\ (value.type # "text" \/ value.text \notin Dates \cup {EmptyText})
    \/ /\ value # Blank \/ q.required
       /\ ~ValidValue(q, IF q.kind \in Primitive THEN q.kind ELSE "string", value)

InvalidReference(q, value) == value.text \in Malformed \/ (q.required /\ value = Blank)

\* Whatever its channel, a text keeps to the characters of the question.
ForbiddenText(q, value) ==
    value.type = "text" /\ value # Blank /\ value.text \in q.forbidden

\* What is wrong with the value q is given by its channel, if anything.
WrongWith(q, value) ==
    IF Channel(q) = "human" /\ q.kind = "other" THEN {"unsupported"}
    ELSE IF \/ Channel(q) = "safe" /\ ~ValidValue(q, q.kind, value)
            \/ Channel(q) = "human" /\ InvalidHuman(q, value)
            \/ Channel(q) = "reference" /\ InvalidReference(q, value)
            \/ ForbiddenText(q, value)
      THEN {"invalid"}
    ELSE {}

-----------------------------------------------------------------------------
(* ValidateLaunch.  A form has the answers given by each channel, as       *)
(* functions on the names that are answered.                               *)

AnswersTo(q, form) ==
    LET answers == form[Channel(q)] IN {answers[n] : n \in DOMAIN answers \cap {q.name}}

\* Errors the answers of a channel give rise to, in the order of a map: names
\* nobody asked for, and those asked for by another channel.
Misdirected(questions, form, channel, error) ==
    LET channels(n) == {Channel(questions[i]) :
                          i \in {j \in DOMAIN questions : questions[j].name = n}}
    IN  {IF channels(n) = {} THEN "unknown" ELSE error :
           n \in {m \in DOMAIN form[channel] : channel \notin channels(m)}}

\* ValidatePublic checks the answers as it meets them.
PublicErrors(questions, form) ==
    Misdirected(questions, form, "safe", "needsHuman")
    \cup {"invalid" : i \in {j \in DOMAIN questions :
            /\ Channel(questions[j]) = "safe"
            /\ \E value \in AnswersTo(questions[j], form) :
                 ~ValidValue(questions[j], questions[j].kind, value)}}

PublicMissing(questions, form) ==
    \E i \in DOMAIN questions :
      /\ Channel(questions[i]) = "safe" /\ questions[i].required
      /\ AnswersTo(questions[i], form) \subseteq {Blank}

ErrorsOf(q, form) == UNION {WrongWith(q, value) : value \in AnswersTo(q, form)}

\* Mutant: only what was not given at all is pending.
PendingIfAbsent(q, form) == Channel(q) # "safe" /\ AnswersTo(q, form) = {}

Pending(q, form) ==
    /\ Channel(q) # "safe"
    /\ \/ AnswersTo(q, form) = {}
       \/ q.required /\ Blank \in AnswersTo(q, form)

ValueOf(q, form) ==
    IF AnswersTo(q, form) = {} THEN Blank
    ELSE CHOOSE value \in AnswersTo(q, form) : TRUE

\* Every question has a value, so that no default comes in its place.
Values(questions, form) ==
    [error |-> "none",
     values |-> [i \in DOMAIN questions |-> ValueOf(questions[i], form)],
     pending |-> {i \in DOMAIN questions : Pending(questions[i], form)}]

Failures(errors) == {[error |-> e] : e \in errors}

\* The possible outcomes: which of several errors is met first may depend on
\* the order in which a map is ranged over.
ValidateLaunch(questions, form) ==
    LET wrong == {i \in DOMAIN questions : ErrorsOf(questions[i], form) # {}}
        stages == <<IF Builds(questions) THEN {} ELSE {"unsupported"},
                    PublicErrors(questions, form),
                    IF PublicMissing(questions, form) THEN {"invalid"} ELSE {},
                    Misdirected(questions, form, "human", "invalid"),
                    Misdirected(questions, form, "reference", "invalid"),
                    UNION {ErrorsOf(questions[i], form) :
                             i \in {j \in wrong : \A k \in wrong : j <= k}}>>
        failed == {n \in DOMAIN stages : stages[n] # {}}
    IN  IF failed = {} THEN {Values(questions, form)}
        ELSE Failures(stages[CHOOSE n \in failed : \A m \in failed : n <= m])

=============================================================================
