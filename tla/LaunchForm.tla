----------------------------- MODULE LaunchForm -----------------------------
(***************************************************************************)
(* A launch: a client is handed material, has its questions answered while *)
(* the tables change, and has the answers validated                        *)
(* (internal/aimetadata/launch_validate.go).  LaunchMaterial says which    *)
(* files a request is about, LaunchOptions what becomes of the answers.    *)
(***************************************************************************)
EXTENDS LaunchMaterial, LaunchOptions

CONSTANTS
    QuestionsOf,    \* the questions in the files of a place
    Forms           \* what a client may answer

VARIABLE reply      \* to the answers sent with the last request

NoReply == [error |-> "unanswered"]

\* A reference is a text.
ASSUME FormAssumption ==
    /\ \A f \in Forms : \A n \in DOMAIN f.reference : f.reference[n].type = "text"
    /\ \A p \in Place : QuestionsOf[p] \in Seq(Question)
    /\ Unsupported = {p \in Place : ~Builds(QuestionsOf[p])}

FormInit == Init /\ reply = NoReply

\* That an answer was for a person to give is not said.
Code(error) == IF error \in {"unsupported", "unknown"} THEN error ELSE "invalid"

\* With the digest still the same, the answers are held against the questions
\* in the files that were just read.
AnswersValidated ==
    /\ ReadFiles
    /\ req.kind = "validate" /\ pc' = "ok"
    /\ \E v \in FilesRows, form \in Forms :
         \E outcome \in ValidateLaunch(QuestionsOf[PlaceOf(v)], form) :
           reply' = IF outcome.error = "none"
                    THEN [error |-> "none", digest |-> req.digest, form |-> form,
                          values |-> outcome.values, pending |-> outcome.pending]
                    ELSE [error |-> Code(outcome.error)]

FormNext ==
    \/ AnswersValidated
    \/ Next /\ ~(req.kind = "validate" /\ pc' = "ok") /\ reply' = NoReply

FormSpec == FormInit /\ [][FormNext]_<<vars, reply>>

-----------------------------------------------------------------------------
(* Properties.                                                             *)

Accepted == reply.error = "none"

\* The questions the client was handed with the digest it sent.
Shown == {QuestionsOf[m.files] : m \in {h \in handed : h.digest = reply.digest}}

\* Within what the question says a value may be; the length it gives is not
\* that of a resource's name.
Permitted(q, value) ==
    /\ value.type = "text" =>
         /\ value.text \notin q.forbidden
         /\ q.kind = "enum" => value.text \in q.options
         /\ q.kind # "service" =>
              /\ Units[value.text] >= q.minLength
              /\ q.maxLength > 0 => Units[value.text] <= q.maxLength
    /\ value.type = "number" =>
         /\ q.min # 0 => value.number >= q.min
         /\ q.max # 0 => value.number <= q.max

\* docs/ai-catalog-launch-owner.md:15.  A launch is accepted only with values
\* that fit the questions the client was shown, although the template may have
\* been indexed anew since: none that is set breaks a constraint of its
\* question, and none of a sensitive question came by the safe channel, which
\* is a model's, nor one of a resource but by that of references.
AnswersFit ==
    Accepted =>
      \A questions \in Shown : \A i \in DOMAIN questions :
        LET q == questions[i]
            value == reply.values[i]
        IN  /\ value = Blank \/ Permitted(q, value)
            /\ q.sensitive \/ q.kind \in {"password", "service"}
                 => q.name \notin DOMAIN reply.form.safe
            /\ q.kind = "service" => q.name \notin DOMAIN reply.form.human

\* docs/ai-catalog-launch-owner.md:15, docs/releases/catalog-service-0.20.17.md
\* of defaults and of empty input.  A question that is for a person or names a
\* resource is said to be missing when it was not answered, even if it is
\* optional, and when it is required and was answered with nothing; a required
\* one that is for a model is never without a value.  What has a value has the
\* one that was given.
NothingAssumed ==
    Accepted =>
      \A questions \in Shown : \A i \in DOMAIN questions :
        LET q == questions[i]
            provided == UNION {{reply.form[c][n] : n \in DOMAIN reply.form[c] \cap {q.name}} :
                               c \in {"safe", "human", "reference"}}
            value == reply.values[i]
        IN  /\ value = Blank \/ value \in provided
            /\ value = Blank /\ q.required => i \in reply.pending
            /\ provided = {} /\ (q.sensitive \/ q.kind \notin Primitive) => i \in reply.pending

=============================================================================
