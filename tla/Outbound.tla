------------------------------ MODULE Outbound ------------------------------
(***************************************************************************)
(* What the service may ask for over HTTP (outbound/policy.go): exact      *)
(* origins, checked for every request and every redirect.                  *)
(*                                                                         *)
(* A URL here is what the policy tells apart; a host is the name it has    *)
(* once in lower case and without a trailing dot, a port that is not       *)
(* written is 0.  URLs that do not parse are left out.                     *)
(***************************************************************************)
EXTENDS Integers, Sequences

CONSTANTS
    Hosts,          \* names of hosts
    Loopback,       \* those of the machine itself
    Paths,          \* paths, with their query
    Origins,        \* <<scheme, host, port>> the operator allows
    Redirects,      \* the URL a URL is redirected to, where it is
    MaxHops         \* requests one Get may make

Ports == {0, 80, 443, 8443, 65536}

URL == [scheme : {"http", "https", "other"}, host : Hosts, port : Ports,
        credentials : BOOLEAN, path : Paths]

\* A reference in a document: a URL, or a path beside the document.
Reference == [relative : {FALSE}, url : URL] \cup [relative : {TRUE}, path : Paths]

Origin == {"http", "https"} \X Hosts \X (1..65535)

ASSUME OutboundAssumption ==
    /\ Loopback \subseteq Hosts
    /\ Origins \subseteq Origin
    /\ DOMAIN Redirects \subseteq URL
    /\ \A u \in DOMAIN Redirects : Redirects[u] \in URL
    /\ MaxHops \in Nat \ {0}

-----------------------------------------------------------------------------

CanonicalOrigin(u) ==
    <<u.scheme, u.host,
      IF u.port # 0 THEN u.port ELSE IF u.scheme = "https" THEN 443 ELSE 80>>

\* parseHTTPURL accepts it.
HTTPURL(u) ==
    /\ u.scheme \in {"http", "https"}
    /\ ~u.credentials
    /\ u.scheme = "http" => u.host \in Loopback
    /\ u.port \in 0..65535

\* Mutant: the port is not compared.
AuthorizeURLOfHost(u) ==
    HTTPURL(u) /\ \E o \in Origins : o[1] = u.scheme /\ o[2] = u.host

AuthorizeURL(u) == HTTPURL(u) /\ CanonicalOrigin(u) \in Origins

ResolveReference(base, ref) ==
    IF ref.relative THEN [base EXCEPT !.path = ref.path] ELSE ref.url

\* Mutant: one redirect too many.
MayRedirectOnceMore(via, u) == Len(via) <= MaxHops /\ AuthorizeURL(u)

\* CheckRedirect: via holds the requests already made.
MayRedirect(via, u) == Len(via) < MaxHops /\ AuthorizeURL(u)

LastOf(via) == via[Len(via)]

FirstRequest(u) == IF AuthorizeURL(u) THEN <<u>> ELSE << >>

FollowRedirect(via) ==
    IF via # << >> /\ LastOf(via) \in DOMAIN Redirects
       /\ MayRedirect(via, Redirects[LastOf(via)])
    THEN Append(via, Redirects[LastOf(via)]) ELSE via

\* The requests a Get of u makes, in order: one, and one for each redirect it
\* may follow.
Requests(u) ==
    LET sent[n \in 0..MaxHops] ==
          IF n = 0 THEN FirstRequest(u) ELSE FollowRedirect(sent[n - 1])
    IN  sent[MaxHops]

Ends(u) == Requests(u) # << >> /\ LastOf(Requests(u)) \notin DOMAIN Redirects

\* The URLs a Get of which ends with an answer, not with an error, each with
\* the resource it comes to.
Answers == {<<u, LastOf(Requests(u)).path>> : u \in {v \in URL : Ends(v)}}

Answered == {a[1] : a \in Answers}

=============================================================================
