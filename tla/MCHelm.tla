------------------------------- MODULE MCHelm -------------------------------
(***************************************************************************)
(* A helm catalog whose source publishes a second index, with charts       *)
(* beside it, behind redirects, and where they cannot be had.              *)
(***************************************************************************)
EXTENDS HelmRefresh, TLC

CONSTANTS n1, e1, auto, here, there, elsewhere

Env == [n \in Catalogs |-> e1]

Url(scheme, host, port, path) ==
    [scheme |-> scheme, host |-> host, port |-> port, credentials |-> FALSE, path |-> path]

At443(path) == Url("https", there, 443, path)
Beside(path) == [relative |-> TRUE, path |-> path]
Elsewhere(path) == [relative |-> FALSE, url |-> Url("https", elsewhere, 0, path)]

IndexAt == [n \in Catalogs |-> Url("https", there, 0, "index")]

Allowed == {<<"https", there, 443>>, <<"http", here, 8443>>}

\* "a10" is had by three requests, the limit, the last to the machine itself;
\* "round" never ends, and "far" is sent on to a port that is not allowed.
Moved ==
    (Url("https", there, 0, "a10") :> At443("moved"))
    @@ (At443("moved") :> Url("http", here, 8443, "a10"))
    @@ (Url("https", there, 0, "round") :> At443("round")) @@ (At443("round") :> At443("round"))
    @@ (Url("https", there, 0, "far") :> Url("https", there, 8443, "a1"))

Chart(chart, version, urls) == [chart |-> chart, version |-> version, urls |-> urls]

\* One chart version of the first index cannot be had, nor two of the second:
\* redirected without end, and with an archive that repeats a name.  The one
\* between these comes in two archives.
Indexes ==
    << <<Chart("a", "1", <<Beside("a1")>>), Chart("b", "2", <<Beside("far"), Elsewhere("a1")>>)>>,
       <<Chart("a", "1", <<Beside("round")>>),
         Chart("b", "1.10", <<Beside("a1"), Beside("a10")>>),
         Chart("c", "2", <<Beside("twice")>>)>> >>

\* "1.10" cut short is another version, or none, and "a10" another archive.
CutVersions == [v \in Versions |-> IF v = "1.10" THEN {"1.1", ""} ELSE {}]

CutURLs ==
    [r \in Reference |->
       IF r = Beside("a10") THEN {Beside("a1")}
       ELSE IF r = Beside("a1") THEN {Beside("cut")} ELSE {}]

File(name, dotted) ==
    [type |-> "file", name |-> name, dotted |-> dotted, local |-> TRUE, size |-> 1]

Archive(entries) == [bytes |-> 1, stream |-> Len(entries), entries |-> entries]

AllArchives ==
    ("a1" :> Archive(<<File("f", FALSE)>>))
    @@ ("a10" :> Archive(<<File("g", TRUE), File("f", TRUE)>>))
    @@ ("twice" :> Archive(<<File("f", FALSE), File("f", TRUE)>>))

=============================================================================
