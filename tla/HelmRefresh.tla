---------------------------- MODULE HelmRefresh ----------------------------
(***************************************************************************)
(* The refresh of helm catalogs served as an HTTP index (manager/local.go  *)
(* prepareHelmRepoPath, manager/traverse.go traverseHelmFiles, helm/       *)
(* helm.go).  The index is downloaded, written to a cache directory named  *)
(* by the environment and the hash of the index, and read back from there; *)
(* then every chart it lists is fetched.  As for git catalogs the          *)
(* automatic refresh and refresh requests run beside one another and share *)
(* the database and the directories.                                       *)
(*                                                                         *)
(* Which catalogs a refresh visits, and edits of catalogs meanwhile, are   *)
(* CatalogRefresh's and CatalogService's subject: here it visits them all. *)
(* Left out are icons, readmes and charts without versions, which are but  *)
(* an error to a strict refresh.                                           *)
(*                                                                         *)
(* The file is not replaced as a whole: what is read of one that is being  *)
(* written, or whose write failed, may end anywhere, in the middle of a    *)
(* chart version too, and may still parse.  That is no failure here, but   *)
(* two refreshes at work; halved tells which catalogs it got into.         *)
(***************************************************************************)
EXTENDS Outbound, HelmChart, FiniteSets

CONSTANTS
    AutoRefresh,    \* the autoRefresh goroutine
    Handlers,       \* goroutines serving a refresh request
    Catalogs,       \* helm catalogs
    EnvOf,          \* environment of a catalog
    UrlOf,          \* URL of its index.yaml
    ChartNames,     \* names of charts
    Versions,       \* and their versions
    IndexFile,      \* the successive contents of an index: chart versions
    CutVersion,     \* what a version reads as that is cut short or left out
    CutURL,         \* what a URL reads as that is cut short
    Archives,       \* what is to be had at a path: archives
    Strict,         \* --validate-only
    MaxRequests,    \* bound: refresh requests
    MaxFaults,      \* bound: charts that fail to be fetched
    MaxRetries      \* bound: failures a later refresh makes up for, and crashes

VARIABLES
    served,         \* which contents each index URL answers with
    file,           \* the chart versions in the cached index.yaml of each directory
    rows,           \* what is stored of each catalog
    halved,         \* history: the catalogs stored from a part of an index
    proc,           \* the goroutines
    spent           \* use made of the bounds

Spent == [requests : 0..MaxRequests, faults : 0..MaxFaults, retries : 0..MaxRetries]

vars == <<served, file, rows, halved, proc, spent>>

Procs == {AutoRefresh} \cup Handlers
Hashes == DOMAIN IndexFile      \* contents stand for their SHA-256
NoHash == 0
Envs == {EnvOf[n] : n \in Catalogs}
IndexURLs == {UrlOf[n] : n \in Catalogs}

ChartVersion == [chart : ChartNames, version : Versions, urls : Seq(Reference)]

EntriesIn(b) == {b[i] : i \in DOMAIN b}

\* What a chart version reads as when the file ends within it.  The version is
\* written before the URLs, so that it may be all there is, itself cut short.
CutShort(e) ==
    {[e EXCEPT !.version = v, !.urls = << >>] : v \in {e.version} \cup CutVersion[e.version]}
    \cup {[e EXCEPT !.urls = SubSeq(e.urls, 1, k)] : k \in DOMAIN e.urls}
    \cup UNION {{[e EXCEPT !.urls = Append(SubSeq(e.urls, 1, k - 1), r)] :
                   r \in CutURL[e.urls[k]]} : k \in DOMAIN e.urls}

\* What an index may read as when its file is a part of it that parses.
Beginnings(h) ==
    {SubSeq(IndexFile[h], 1, k) : k \in 0..Len(IndexFile[h])}
    \cup UNION {{Append(SubSeq(IndexFile[h], 1, k - 1), e) : e \in CutShort(IndexFile[h][k])} :
                 k \in DOMAIN IndexFile[h]}

Row == [commit : {NoHash} \cup Hashes, charts : SUBSET ChartNames,
        versions : SUBSET ChartVersion]

NoRow == [commit |-> NoHash, charts |-> {}, versions |-> {}]

ASSUME HelmAssumption ==
    /\ AutoRefresh \notin Handlers
    /\ Catalogs # {}
    /\ \A n \in Catalogs : UrlOf[n] \in URL
    /\ IndexFile \in Seq(Seq(ChartVersion)) /\ IndexFile # << >>
    /\ CutVersion \in [Versions -> SUBSET Versions]
    /\ CutURL \in [Reference -> SUBSET Reference]
    /\ \A x \in DOMAIN Archives : IsArchive(Archives[x])
    /\ Strict \in BOOLEAN
    /\ MaxRequests \in Nat /\ MaxFaults \in Nat /\ MaxRetries \in Nat

Dirs == Envs \X Hashes

Local == [pc     : {"idle", "next", "download", "open", "save", "compare", "load",
                    "fetch", "update"},
          todo   : SUBSET (Catalogs \X ({NoHash} \cup Hashes)), \* with commit_id
          cat    : Catalogs,
          commit : {NoHash} \cup Hashes,        \* commit_id, as it was read
          hash   : {NoHash} \cup Hashes,        \* of the index downloaded
          index  : Seq(ChartVersion),           \* as loaded
          at     : Nat \ {0},                   \* next to fetch
          read   : Row,
          errs   : BOOLEAN]

Idle == [pc |-> "idle", todo |-> {}, cat |-> CHOOSE n \in Catalogs : TRUE,
         commit |-> NoHash, hash |-> NoHash, index |-> << >>, at |-> 1,
         read |-> NoRow, errs |-> FALSE]

Init ==
    /\ served = [u \in IndexURLs |-> 1]
    /\ file = [d \in Dirs |-> << >>]
    /\ rows = [n \in Catalogs |-> NoRow]
    /\ halved = {}
    /\ proc = [p \in Procs |-> Idle]
    /\ spent = [requests |-> 0, faults |-> 0, retries |-> 0]

-----------------------------------------------------------------------------

At(p, label) == proc[p].pc = label
Become(p, state) == proc' = [proc EXCEPT ![p] = state]
Goto(p, label) == Become(p, [proc[p] EXCEPT !.pc = label])

\* refreshCatalog returns to the loop over the catalogs.
Return(p) == Become(p, [Idle EXCEPT !.pc = "next", !.todo = proc[p].todo])

Fault == /\ spent.faults < MaxFaults
         /\ spent' = [spent EXCEPT !.faults = @ + 1]
Retry == /\ spent.retries < MaxRetries
         /\ spent' = [spent EXCEPT !.retries = @ + 1]

\* Mutant: a directory for each source.
DirOfSource(p) == <<EnvOf[proc[p].cat], 1>>

Dir(p) == <<EnvOf[proc[p].cat], proc[p].hash>>

LookupCatalogs(p) ==
    /\ At(p, "idle")
    /\ IF p = AutoRefresh THEN UNCHANGED spent
       ELSE /\ spent.requests < MaxRequests
            /\ spent' = [spent EXCEPT !.requests = @ + 1]
    /\ Become(p, [Idle EXCEPT !.pc = "next",
                              !.todo = {<<n, rows[n].commit>> : n \in Catalogs}])
    /\ UNCHANGED <<served, file, rows, halved>>

NextCatalog(p) ==
    /\ At(p, "next")
    /\ \/ \E i \in proc[p].todo :
            Become(p, [proc[p] EXCEPT !.pc = "download", !.cat = i[1], !.commit = i[2],
                                      !.todo = proc[p].todo \ {i}])
       \/ proc[p].todo = {} /\ Become(p, Idle)
    /\ UNCHANGED <<served, file, rows, halved, spent>>

\* The request may fail, or its answer not be an index.
DownloadIndex(p) ==
    /\ At(p, "download")
    /\ LET u == UrlOf[proc[p].cat]
       IN  \/ /\ u \in Answered
              /\ Become(p, [proc[p] EXCEPT !.pc = "open", !.hash = served[u]])
              /\ UNCHANGED spent
           \/ u \notin Answered /\ Return(p) /\ UNCHANGED spent
           \/ Retry /\ Return(p)
    /\ UNCHANGED <<served, file, rows, halved>>

\* SaveIndex opens the file, which empties it,
OpenIndex(p) ==
    /\ At(p, "open")
    /\ file' = [file EXCEPT ![Dir(p)] = << >>]
    /\ Goto(p, "save")
    /\ UNCHANGED <<served, rows, halved, spent>>

\* and writes it; the disk may be full, and what was written stays.
SaveIndex(p) ==
    /\ At(p, "save")
    /\ \/ /\ file' = [file EXCEPT ![Dir(p)] = IndexFile[proc[p].hash]]
          /\ Goto(p, "compare")
          /\ UNCHANGED spent
       \/ /\ \E b \in Beginnings(proc[p].hash) : file' = [file EXCEPT ![Dir(p)] = b]
          /\ Return(p)
          /\ Retry
    /\ UNCHANGED <<served, rows, halved>>

\* Mutant: the same hash is enough to be up to date.
CompareHashes(p) ==
    /\ At(p, "compare")
    /\ IF proc[p].hash = proc[p].commit THEN Return(p) ELSE Goto(p, "load")
    /\ UNCHANGED <<served, file, rows, halved, spent>>

\* Charts all of whose versions were left out count as templates too.
Compare(p) ==
    /\ At(p, "compare")
    /\ IF proc[p].hash = proc[p].commit /\ rows[proc[p].cat].charts # {}
       THEN Return(p) ELSE Goto(p, "load")
    /\ UNCHANGED <<served, file, rows, halved, spent>>

\* What a read of the file may find: what it holds or, while another refresh of
\* a catalog with this index writes it, any part of the index.
Readable(p) ==
    IF \E q \in Procs \ {p} : At(q, "save") /\ Dir(q) = Dir(p)
    THEN Beginnings(proc[p].hash) ELSE {file[Dir(p)]}

\* A part of the file may not parse; and where it ends before the name of a chart
\* version there is a null in the place of that, on which traverseHelmFiles
\* panics: the end of a request, or of the service (Crash).
LoadIndex(p) ==
    /\ At(p, "load")
    /\ \E found \in Readable(p) :
         \/ Become(p, [proc[p] EXCEPT !.pc = "fetch", !.index = found])
         \/ found # IndexFile[proc[p].hash] /\ Return(p)
         \/ found # IndexFile[proc[p].hash] /\ p # AutoRefresh /\ Become(p, Idle)
    /\ UNCHANGED <<served, file, rows, halved, spent>>

Base(p) == UrlOf[proc[p].cat]

URLs(p, v) == [i \in DOMAIN v.urls |-> ResolveReference(Base(p), v.urls[i])]

\* The URLs chart files are had from, each with its archive unpacked.
Unpacked ==
    {<<a[1], ExtractChartFiles(Archives[a[2]])>> : a \in {b \in Answers : b[2] \in DOMAIN Archives}}

Unpacking == {x[1] : x \in {y \in Unpacked : y[2].ok}}

\* All the files of chart version e of catalog n; one without URLs has none.
Fetchable(n, e) ==
    \A i \in DOMAIN e.urls : ResolveReference(UrlOf[n], e.urls[i]) \in Unpacking

Entry(p) == proc[p].index[proc[p].at]

WithChart(p, errs, versions) ==
    [proc[p] EXCEPT !.at = @ + 1,
                    !.errs = @ \/ errs,
                    !.read = [commit |-> NoHash,
                              charts |-> @.charts \cup {Entry(p).chart},
                              versions |-> @.versions \cup versions]]

WithFiles(p) == WithChart(p, FALSE, {Entry(p)})
WithoutFiles(p) == WithChart(p, TRUE, {})

\* Mutant: the versions after one that fails are left out as well.
FetchFilesBreak(p) ==
    /\ At(p, "fetch")
    /\ proc[p].at <= Len(proc[p].index)
    /\ IF Fetchable(proc[p].cat, Entry(p))
       THEN Become(p, WithFiles(p))
       ELSE Become(p, [WithoutFiles(p) EXCEPT !.at = Len(proc[p].index) + 1])
    /\ UNCHANGED <<served, file, rows, halved, spent>>

\* The files of the next chart version; when they cannot be had, or a request
\* fails, the template goes without that version.
FetchFiles(p) ==
    /\ At(p, "fetch")
    /\ proc[p].at <= Len(proc[p].index)
    /\ LET had == Fetchable(proc[p].cat, Entry(p))
       IN  \/ had /\ Become(p, WithFiles(p)) /\ UNCHANGED spent
           \/ ~had /\ Become(p, WithoutFiles(p)) /\ UNCHANGED spent
           \/ had /\ Entry(p).urls # << >> /\ Fault /\ Become(p, WithoutFiles(p))
    /\ UNCHANGED <<served, file, rows, halved>>

TraverseDone(p) ==
    /\ At(p, "fetch")
    /\ proc[p].at = Len(proc[p].index) + 1
    /\ IF Strict /\ proc[p].errs THEN Return(p) ELSE Goto(p, "update")
    /\ UNCHANGED <<served, file, rows, halved, spent>>

\* A part of an index with chart versions in it was read; the empty file of
\* OpenIndex has none.
ReadHalf(p) == proc[p].index \notin {<< >>, IndexFile[proc[p].hash]}

\* One transaction: it may fail as a whole.
UpdateDb(p) ==
    /\ At(p, "update")
    /\ Return(p)
    /\ \/ /\ rows' = [rows EXCEPT ![proc[p].cat] =
                        [proc[p].read EXCEPT !.commit = proc[p].hash]]
          /\ halved' = IF ReadHalf(p) THEN halved \cup {proc[p].cat}
                       ELSE halved \ {proc[p].cat}
          /\ UNCHANGED spent
       \/ UNCHANGED <<rows, halved>> /\ Retry
    /\ UNCHANGED <<served, file>>

-----------------------------------------------------------------------------

\* A new index is published at a URL.
Publish(u) ==
    /\ served[u] < Len(IndexFile)
    /\ served' = [served EXCEPT ![u] = @ + 1]
    /\ UNCHANGED <<file, rows, halved, proc, spent>>

\* The service dies and is started again.  A file half written matters no more:
\* every refresh opens it anew before it loads it.
Crash ==
    /\ \E p \in Procs : ~At(p, "idle")
    /\ Retry
    /\ proc' = [p \in Procs |-> Idle]
    /\ UNCHANGED <<served, file, rows, halved>>

Step(p) ==
    \/ LookupCatalogs(p) \/ NextCatalog(p) \/ DownloadIndex(p) \/ OpenIndex(p)
    \/ SaveIndex(p) \/ Compare(p) \/ LoadIndex(p) \/ FetchFiles(p) \/ TraverseDone(p)
    \/ UpdateDb(p)

Next ==
    \/ \E p \in Procs : Step(p)
    \/ \E u \in IndexURLs : Publish(u)
    \/ Crash

Spec == Init /\ [][Next]_vars

\* Goroutines are scheduled, and the timer of autoRefresh fires again.
FairSpec == Spec /\ \A p \in Procs : WF_vars(Step(p))

-----------------------------------------------------------------------------
(* Properties.                                                             *)

TypeOK ==
    /\ served \in [IndexURLs -> Hashes]
    /\ file \in [Dirs -> Seq(ChartVersion)]
    /\ rows \in [Catalogs -> Row]
    /\ halved \subseteq Catalogs
    /\ proc \in [Procs -> Local]
    /\ spent \in Spent

\* What may have been read of the index a catalog's row names: the whole, unless
\* the file was being written, or its write had failed, when it was read.
Sources(n) ==
    IF n \in halved THEN Beginnings(rows[n].commit) ELSE {IndexFile[rows[n].commit]}

\* What is stored of a catalog is of the index whose hash is recorded with it,
\* or of one part of it, although it was read from a file that other refreshes
\* may have written since; and all of that index unless the file was a part of
\* it when it was read.
StoredOfHash ==
    \A n \in Catalogs : rows[n].versions # {} =>
      /\ rows[n].commit # NoHash
      /\ \E b \in Sources(n) : rows[n].versions \subseteq EntriesIn(b)

\* The versions a catalog gets from b: those whose files can be had.
HadOf(n, b) == {e \in EntriesIn(b) : Fetchable(n, e)}

\* A chart version that can be had is missing only when a fetch failed, or from
\* where the file that was read ended: one refresh can make another store a part
\* of an index, but only by a read while it writes, and then all of that part.
\* A catalog without any template is not taken for up to date.
MissingOnlyByFailure ==
    spent.faults = 0 =>
      \A n \in Catalogs : rows[n].charts # {} =>
        \E b \in Sources(n) : rows[n].versions = HadOf(n, b)

\* The requests a goroutine makes next.
Sending(p) ==
    IF At(p, "download") THEN {Requests(Base(p))}
    ELSE IF At(p, "fetch") /\ proc[p].at <= Len(proc[p].index)
         THEN {Requests(URLs(p, Entry(p))[i]) : i \in DOMAIN Entry(p).urls}
         ELSE {}

\* Whatever an index says, cut short too, and wherever servers redirect to,
\* requests go to origins the operator allows, port and scheme included, and a
\* chain of redirects ends.
RequestsAllowed ==
    \A p \in Procs : \A via \in Sending(p) :
      /\ Len(via) <= MaxHops
      /\ \A i \in DOMAIN via : CanonicalOrigin(via[i]) \in Origins

\* The files of a stored version, as far as they are of one archive, are local
\* to it, have different names and are within the limits, one by one and all
\* together.
FilesAcceptable ==
    \A n \in Catalogs : \A v \in rows[n].versions :
      \A i \in DOMAIN v.urls :
        \A x \in {y \in Unpacked : y[1] = ResolveReference(UrlOf[n], v.urls[i])} :
          LET files == x[2].files
          IN  /\ Len(files) <= MaxChartFiles
              /\ \A j, k \in DOMAIN files : files[j].name = files[k].name => j = k
              /\ \A j \in DOMAIN files : files[j].local /\ files[j].size \in 0..MaxFileBytes
              /\ x[2].total \in 0..MaxExpandedBytes

\* When no chart fails to be fetched, every catalog comes to have the commit of
\* the index its source serves last, whatever else failed and however refreshes
\* emptied each other's files; and the whole of that index, unless it was last
\* stored from a part of it, which no refresh mends before the next index.
HelmConverges ==
    [](spent.faults = 0) =>
      <>[](\A n \in Catalogs :
             /\ rows[n].commit = served[UrlOf[n]]
             /\ n \in halved \/ rows[n].versions = HadOf(n, IndexFile[served[UrlOf[n]]]))

-----------------------------------------------------------------------------
(* The inductive invariant the proofs rest on.                             *)

\* A file in the directory of an index is that index, or a part of it.
FilesOK == \A d \in Dirs : file[d] \in Beginnings(d[2])

\* What a catalog has of the first k versions of b.
HadUpto(n, b, k) == {b[i] : i \in {j \in 1..k : Fetchable(n, b[j])}}

\* A goroutine reads its own index, or a part of it, and has read that up to the
\* version at; unless a fetch failed, all of it that can be had.
ReadOK(g, sound) ==
    /\ g.index \in Beginnings(g.hash)
    /\ g.at <= Len(g.index) + 1
    /\ g.pc = "update" => g.at = Len(g.index) + 1
    /\ g.at = 1 => g.read.charts = {}
    /\ \A v \in g.read.versions : \E i \in 1..(g.at - 1) : v = g.index[i]
    /\ sound => g.read.versions = HadUpto(g.cat, g.index, g.at - 1)

LocalOK(g, sound) ==
    /\ g.pc \in {"open", "save", "compare", "load", "fetch", "update"} => g.hash \in Hashes
    /\ g.pc \notin {"fetch", "update"} => g.at = 1 /\ g.read = NoRow
    /\ g.pc \in {"fetch", "update"} => ReadOK(g, sound)

HelmInv ==
    /\ TypeOK /\ FilesOK
    /\ \A p \in Procs : LocalOK(proc[p], spent.faults = 0)
    /\ StoredOfHash /\ MissingOnlyByFailure

=============================================================================
