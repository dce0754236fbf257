------------------------- MODULE HelmRefresh_proofs -------------------------
(***************************************************************************)
(* For any number of goroutines, catalogs, contents of indexes and         *)
(* failures: what is stored of a catalog is of the index recorded with it, *)
(* or of one part of it, and all of that unless a fetch failed.  How a     *)
(* goroutine gets there matters from the load of the index on: the file is *)
(* no one's own, but all that is ever in a directory is the index it is    *)
(* named by or a part of it (FilesOK), and what was read so far are the    *)
(* chart versions before at of that (ReadOK).  And for every policy, chain *)
(* of redirects and archive: which requests are made, and which files are  *)
(* stored.                                                                 *)
(***************************************************************************)
EXTENDS HelmRefresh, TLAPS, WellFoundedInduction

-----------------------------------------------------------------------------
(* Indexes.                                                                *)

LEMMA IndexNumbers == Len(IndexFile) \in Nat /\ Hashes = 1..Len(IndexFile) /\ IndexFile # << >>
<1>1. IndexFile \in Seq(Seq(ChartVersion)) /\ IndexFile # << >>
  BY HelmAssumption
<1> HIDE DEF ChartVersion
<1> QED
  BY <1>1 DEF Hashes

LEMMA IndexFacts ==
  /\ NoHash \notin Hashes
  /\ 1 \in Hashes
  /\ \A h \in Hashes : h \in Nat /\ IndexFile[h] \in Seq(ChartVersion)
<1>1. IndexFile \in Seq(Seq(ChartVersion)) /\ IndexFile # << >>
  BY HelmAssumption
<1> HIDE DEF ChartVersion
<1>2. Len(IndexFile) \in Nat /\ Hashes = 1..Len(IndexFile) /\ Len(IndexFile) # 0
  BY <1>1 DEF Hashes
<1> QED
  BY <1>1, <1>2 DEF NoHash

\* What a chart version is read as is one too.
LEMMA CutShortType ==
  ASSUME NEW e \in ChartVersion, NEW c \in CutShort(e)
  PROVE  c \in ChartVersion
<1>1. /\ e.urls \in Seq(Reference) /\ e.version \in Versions
      /\ CutVersion \in [Versions -> SUBSET Versions]
      /\ CutURL \in [Reference -> SUBSET Reference]
  BY HelmAssumption DEF ChartVersion
<1>2. \A v \in Versions, u \in Seq(Reference) :
        [e EXCEPT !.version = v, !.urls = u] \in ChartVersion
  BY DEF ChartVersion
<1>3. \A u \in Seq(Reference) : [e EXCEPT !.urls = u] \in ChartVersion
  BY DEF ChartVersion
<1> HIDE DEF ChartVersion, Reference
<1>4. ASSUME NEW k \in DOMAIN e.urls
      PROVE  /\ SubSeq(e.urls, 1, k) \in Seq(Reference)
             /\ SubSeq(e.urls, 1, k - 1) \in Seq(Reference)
             /\ e.urls[k] \in Reference
  <2>1. k \in 1..Len(e.urls) /\ Len(e.urls) \in Nat
    BY <1>1
  <2> QED
    BY <1>1, <2>1
<1>5. CASE c \in {[e EXCEPT !.version = v, !.urls = << >>] :
                    v \in {e.version} \cup CutVersion[e.version]}
  <2>1. PICK v \in {e.version} \cup CutVersion[e.version] :
          c = [e EXCEPT !.version = v, !.urls = << >>]
    BY <1>5
  <2>2. v \in Versions /\ << >> \in Seq(Reference)
    BY <1>1
  <2> QED
    BY <1>2, <2>1, <2>2
<1>6. CASE c \in {[e EXCEPT !.urls = SubSeq(e.urls, 1, k)] : k \in DOMAIN e.urls}
  BY <1>3, <1>4, <1>6
<1>7. ASSUME NEW k \in DOMAIN e.urls, NEW r \in CutURL[e.urls[k]],
             c = [e EXCEPT !.urls = Append(SubSeq(e.urls, 1, k - 1), r)]
      PROVE  c \in ChartVersion
  <2>1. r \in Reference
    BY <1>1, <1>4
  <2>2. Append(SubSeq(e.urls, 1, k - 1), r) \in Seq(Reference)
    BY <1>4, <2>1
  <2> QED
    BY <1>3, <1>7, <2>2
<1> QED
  BY <1>5, <1>6, <1>7 DEF CutShort

\* What an index is read as is a sequence of chart versions; all of it and none
\* of it are among that.
LEMMA BeginningsAre ==
  ASSUME NEW h \in Hashes
  PROVE  /\ Beginnings(h) \subseteq Seq(ChartVersion)
         /\ << >> \in Beginnings(h) /\ IndexFile[h] \in Beginnings(h)
<1> DEFINE b == IndexFile[h]
<1>1. b \in Seq(ChartVersion) /\ Len(b) \in Nat /\ DOMAIN b = 1..Len(b)
  BY IndexFacts
<1> HIDE DEF b, ChartVersion
<1>2. \A k \in 0..Len(b) : SubSeq(b, 1, k) \in Seq(ChartVersion)
  BY <1>1
<1>3. ASSUME NEW k \in DOMAIN b, NEW e \in CutShort(b[k])
      PROVE  Append(SubSeq(b, 1, k - 1), e) \in Seq(ChartVersion)
  <2>1. e \in ChartVersion
    BY <1>1, CutShortType
  <2>2. k - 1 \in 0..Len(b)
    BY <1>1
  <2> QED
    BY <1>2, <2>1, <2>2
<1>4. SubSeq(b, 1, 0) = << >> /\ SubSeq(b, 1, Len(b)) = b
  BY <1>1
<1>5. 0 \in 0..Len(b) /\ Len(b) \in 0..Len(b)
  BY <1>1
<1>6. Beginnings(h) =
        {SubSeq(b, 1, k) : k \in 0..Len(b)}
        \cup UNION {{Append(SubSeq(b, 1, k - 1), e) : e \in CutShort(b[k])} : k \in DOMAIN b}
  BY DEF Beginnings, b
<1>7. << >> \in Beginnings(h) /\ b \in Beginnings(h)
  <2>1. {SubSeq(b, 1, k) : k \in 0..Len(b)} \subseteq Beginnings(h)
    BY <1>6
  <2> QED
    BY <1>4, <1>5, <2>1
<1>8. ASSUME NEW x \in Beginnings(h)
      PROVE  x \in Seq(ChartVersion)
  <2>1. CASE x \in {SubSeq(b, 1, k) : k \in 0..Len(b)}
    BY <1>2, <2>1
  <2>2. CASE x \in UNION {{Append(SubSeq(b, 1, k - 1), e) : e \in CutShort(b[k])} :
                           k \in DOMAIN b}
    <3>1. PICK k \in DOMAIN b : x \in {Append(SubSeq(b, 1, k - 1), e) : e \in CutShort(b[k])}
      BY <2>2
    <3> QED
      BY <1>3, <3>1
  <2> QED
    BY <1>6, <2>1, <2>2
<1> QED
  BY <1>7, <1>8 DEF b

\* What a catalog has of an index grows by the next version, if it can be had.
LEMMA HadUptoNext ==
  ASSUME NEW n, NEW b, NEW k \in Nat
  PROVE  HadUpto(n, b, k + 1) =
           HadUpto(n, b, k) \cup (IF Fetchable(n, b[k + 1]) THEN {b[k + 1]} ELSE {})
<1>1. \A j : j \in 1..(k + 1) <=> j \in 1..k \/ j = k + 1
  OBVIOUS
<1>2. \A m : HadUpto(n, b, m) = {b[j] : j \in {i \in 1..m : Fetchable(n, b[i])}}
  BY DEF HadUpto
<1> QED
  BY <1>1, <1>2

LEMMA HadUptoNone ==
  ASSUME NEW n, NEW b
  PROVE  HadUpto(n, b, 0) = {}
BY DEF HadUpto

LEMMA HadUptoAll ==
  ASSUME NEW n, NEW b \in Seq(ChartVersion)
  PROVE  HadUpto(n, b, Len(b)) = HadOf(n, b)
<1>1. DOMAIN b = 1..Len(b)
  OBVIOUS
<1> QED
  BY <1>1 DEF HadUpto, HadOf, EntriesIn

-----------------------------------------------------------------------------
(* Goroutines.                                                             *)

LEMMA SpentGrows ==
  ASSUME spent \in Spent,
         \/ UNCHANGED spent \/ Fault \/ Retry
         \/ spent.requests < MaxRequests /\ spent' = [spent EXCEPT !.requests = @ + 1]
  PROVE  /\ spent' \in Spent
         /\ spent'.faults = 0 => spent.faults = 0
         /\ Fault => spent'.faults # 0
<1>1. MaxRequests \in Nat /\ MaxFaults \in Nat /\ MaxRetries \in Nat
  BY HelmAssumption
<1>2. CASE UNCHANGED spent
  BY <1>1, <1>2 DEF Spent, Fault
<1>3. CASE Fault
  BY <1>1, <1>3 DEF Spent, Fault
<1>4. CASE Retry
  BY <1>1, <1>4 DEF Spent, Retry, Fault
<1>5. CASE spent.requests < MaxRequests /\ spent' = [spent EXCEPT !.requests = @ + 1]
  BY <1>1, <1>5 DEF Spent, Fault
<1> QED
  BY <1>2, <1>3, <1>4, <1>5

LEMMA IdleIs ==
  ASSUME NEW sound \in BOOLEAN, NEW todo \in SUBSET (Catalogs \X ({NoHash} \cup Hashes))
  PROVE  /\ Idle \in Local /\ LocalOK(Idle, sound)
         /\ [Idle EXCEPT !.pc = "next", !.todo = todo] \in Local
         /\ LocalOK([Idle EXCEPT !.pc = "next", !.todo = todo], sound)
<1>1. (CHOOSE n \in Catalogs : TRUE) \in Catalogs
  BY HelmAssumption
<1>2. NoRow \in Row /\ << >> \in Seq(ChartVersion)
  BY DEF NoRow, Row
<1>3. Idle \in Local
  BY <1>1, <1>2 DEF Idle, Local
<1> QED
  BY <1>1, <1>2, <1>3 DEF Idle, Local, LocalOK

\* What a goroutine knows stays true while others work, and when one fails.
LEMMA LocalStays ==
  ASSUME NEW g, NEW sound, NEW still, LocalOK(g, sound), still => sound
  PROVE  LocalOK(g, still)
BY DEF LocalOK, ReadOK

LEMMA Becomes ==
  ASSUME HelmInv, NEW p \in Procs, NEW g \in Local, Become(p, g),
         LocalOK(g, spent'.faults = 0), spent'.faults = 0 => spent.faults = 0
  PROVE  /\ proc' \in [Procs -> Local]
         /\ \A q \in Procs : LocalOK(proc'[q], spent'.faults = 0)
<1>1. proc \in [Procs -> Local]
  BY DEF HelmInv, TypeOK
<1>2. ASSUME NEW q \in Procs, q # p PROVE LocalOK(proc'[q], spent'.faults = 0)
  <2>1. proc'[q] = proc[q] /\ LocalOK(proc[q], spent.faults = 0)
    BY <1>1, <1>2 DEF Become, HelmInv
  <2> QED
    BY <2>1, LocalStays
<1>3. proc'[p] = g /\ proc' \in [Procs -> Local]
  BY <1>1 DEF Become
<1> QED
  BY <1>2, <1>3

\* What is stored stays what it is while it is not written.
LEMMA RowsStay ==
  ASSUME HelmInv, UNCHANGED <<rows, halved>>, spent'.faults = 0 => spent.faults = 0
  PROVE  StoredOfHash' /\ MissingOnlyByFailure'
<1>1. \A n : Sources(n)' = Sources(n)
  BY DEF Sources
<1> QED
  BY <1>1 DEF HelmInv, StoredOfHash, MissingOnlyByFailure

\* A step that is of one goroutine and nothing else.
LEMMA LocalStep ==
  ASSUME HelmInv, NEW p \in Procs, NEW g \in Local, Become(p, g),
         LocalOK(g, spent'.faults = 0), spent'.faults = 0 => spent.faults = 0,
         spent' \in Spent, UNCHANGED <<served, file, rows, halved>>
  PROVE  HelmInv'
<1>1. /\ proc' \in [Procs -> Local]
      /\ \A q \in Procs : LocalOK(proc'[q], spent'.faults = 0)
  BY Becomes
<1>2. TypeOK' /\ FilesOK' /\ StoredOfHash' /\ MissingOnlyByFailure'
  BY <1>1, RowsStay DEF HelmInv, TypeOK, FilesOK
<1> QED
  BY <1>1, <1>2 DEF HelmInv

LEMMA ReturnKeeps ==
  ASSUME HelmInv, NEW p \in Procs, Return(p), UNCHANGED <<served, file, rows, halved>>,
         UNCHANGED spent \/ Retry
  PROVE  HelmInv'
<1> DEFINE g == [Idle EXCEPT !.pc = "next", !.todo = proc[p].todo]
<1>1. proc[p].todo \in SUBSET (Catalogs \X ({NoHash} \cup Hashes)) /\ spent \in Spent
  BY DEF HelmInv, TypeOK, Local
<1>2. g \in Local /\ LocalOK(g, spent'.faults = 0) /\ Become(p, g)
  BY <1>1, IdleIs DEF Return
<1>3. spent' \in Spent /\ (spent'.faults = 0 => spent.faults = 0)
  BY <1>1, SpentGrows
<1> HIDE DEF g
<1> QED
  BY <1>2, <1>3, LocalStep

-----------------------------------------------------------------------------
(* Actions.                                                                *)

LEMMA LookupCatalogsKeeps ==
  ASSUME HelmInv, NEW p \in Procs, LookupCatalogs(p)
  PROVE  HelmInv'
<1> DEFINE todo == {<<n, rows[n].commit>> : n \in Catalogs}
           g == [Idle EXCEPT !.pc = "next", !.todo = todo]
<1>1. rows \in [Catalogs -> Row] /\ spent \in Spent
  BY DEF HelmInv, TypeOK
<1>2. todo \in SUBSET (Catalogs \X ({NoHash} \cup Hashes))
  BY <1>1 DEF Row
<1>3. g \in Local /\ LocalOK(g, spent'.faults = 0) /\ Become(p, g)
  BY <1>2, IdleIs DEF LookupCatalogs
<1>4. spent' \in Spent /\ (spent'.faults = 0 => spent.faults = 0)
  BY <1>1, SpentGrows DEF LookupCatalogs
<1> HIDE DEF g
<1> QED
  BY <1>3, <1>4, LocalStep DEF LookupCatalogs

LEMMA NextCatalogKeeps ==
  ASSUME HelmInv, NEW p \in Procs, NextCatalog(p)
  PROVE  HelmInv'
<1>1. /\ proc[p] \in Local /\ LocalOK(proc[p], spent.faults = 0)
      /\ proc[p].pc = "next" /\ spent \in Spent
  BY DEF NextCatalog, At, HelmInv, TypeOK
<1>2. ASSUME NEW i \in proc[p].todo,
             Become(p, [proc[p] EXCEPT !.pc = "download", !.cat = i[1], !.commit = i[2],
                                       !.todo = proc[p].todo \ {i}])
      PROVE  HelmInv'
  <2> DEFINE g == [proc[p] EXCEPT !.pc = "download", !.cat = i[1], !.commit = i[2],
                                  !.todo = proc[p].todo \ {i}]
  <2>1. i[1] \in Catalogs /\ i[2] \in {NoHash} \cup Hashes
    BY <1>1 DEF Local
  <2>2. g \in Local
    BY <1>1, <2>1 DEF Local
  <2>3. LocalOK(g, spent.faults = 0)
    BY <1>1 DEF LocalOK, Local
  <2> HIDE DEF g
  <2> QED
    BY <1>1, <1>2, <2>2, <2>3, LocalStep DEF NextCatalog, g
<1>3. CASE Become(p, Idle)
  BY <1>1, <1>3, LocalStep, IdleIs DEF NextCatalog
<1> QED
  BY <1>2, <1>3 DEF NextCatalog

LEMMA DownloadIndexKeeps ==
  ASSUME HelmInv, NEW p \in Procs, DownloadIndex(p)
  PROVE  HelmInv'
<1>1. /\ proc[p] \in Local /\ LocalOK(proc[p], spent.faults = 0)
      /\ proc[p].pc = "download" /\ spent \in Spent /\ served \in [IndexURLs -> Hashes]
  BY DEF DownloadIndex, At, HelmInv, TypeOK
<1> DEFINE u == UrlOf[proc[p].cat]
           g == [proc[p] EXCEPT !.pc = "open", !.hash = served[u]]
<1>2. CASE Become(p, g) /\ UNCHANGED spent
  <2>1. served[u] \in Hashes
    BY <1>1 DEF Local, IndexURLs
  <2>2. g \in Local /\ LocalOK(g, spent.faults = 0)
    BY <1>1, <2>1 DEF Local, LocalOK
  <2> HIDE DEF g
  <2> QED
    BY <1>1, <1>2, <2>2, LocalStep DEF DownloadIndex
<1>3. CASE Return(p) /\ (UNCHANGED spent \/ Retry)
  BY <1>3, ReturnKeeps DEF DownloadIndex
<1> QED
  BY <1>2, <1>3 DEF DownloadIndex

LEMMA CompareKeeps ==
  ASSUME HelmInv, NEW p \in Procs, Compare(p)
  PROVE  HelmInv'
<1>1. /\ proc[p] \in Local /\ LocalOK(proc[p], spent.faults = 0)
      /\ proc[p].pc = "compare" /\ spent \in Spent
  BY DEF Compare, At, HelmInv, TypeOK
<1> DEFINE g == [proc[p] EXCEPT !.pc = "load"]
<1>2. g \in Local /\ LocalOK(g, spent.faults = 0)
  BY <1>1 DEF Local, LocalOK
<1>3. CASE Goto(p, "load")
  BY <1>1, <1>2, <1>3, LocalStep DEF Compare, Goto
<1> QED
  BY <1>3, ReturnKeeps DEF Compare

\* A step of a goroutine that writes its file and leaves its index in it, or a
\* part of that.
LEMMA FileStep ==
  ASSUME HelmInv, NEW p \in Procs, NEW g \in Local, Become(p, g),
         LocalOK(g, spent'.faults = 0), spent'.faults = 0 => spent.faults = 0,
         spent' \in Spent, UNCHANGED <<served, rows, halved>>, proc[p].hash \in Hashes,
         NEW b \in Beginnings(proc[p].hash), file' = [file EXCEPT ![Dir(p)] = b]
  PROVE  HelmInv'
<1>1. /\ proc' \in [Procs -> Local]
      /\ \A q \in Procs : LocalOK(proc'[q], spent'.faults = 0)
  BY Becomes
<1>2. file' \in [Dirs -> Seq(ChartVersion)]
  BY BeginningsAre DEF HelmInv, TypeOK
<1>3. FilesOK'
  BY <1>2 DEF HelmInv, TypeOK, FilesOK, Dir, Dirs
<1>4. TypeOK' /\ StoredOfHash' /\ MissingOnlyByFailure'
  BY <1>1, <1>2, RowsStay DEF HelmInv, TypeOK
<1> QED
  BY <1>1, <1>3, <1>4 DEF HelmInv

LEMMA OpenIndexKeeps ==
  ASSUME HelmInv, NEW p \in Procs, OpenIndex(p)
  PROVE  HelmInv'
<1>1. /\ proc[p] \in Local /\ LocalOK(proc[p], spent.faults = 0)
      /\ proc[p].pc = "open" /\ spent \in Spent
  BY DEF OpenIndex, At, HelmInv, TypeOK
<1> DEFINE g == [proc[p] EXCEPT !.pc = "save"]
<1>2. g \in Local /\ LocalOK(g, spent.faults = 0)
  BY <1>1 DEF Local, LocalOK
<1>3. proc[p].hash \in Hashes /\ << >> \in Beginnings(proc[p].hash)
  BY <1>1, BeginningsAre DEF LocalOK
<1> HIDE DEF g
<1> QED
  BY <1>1, <1>2, <1>3, FileStep DEF OpenIndex, Goto, g

LEMMA SaveIndexKeeps ==
  ASSUME HelmInv, NEW p \in Procs, SaveIndex(p)
  PROVE  HelmInv'
<1>1. /\ proc[p] \in Local /\ LocalOK(proc[p], spent.faults = 0)
      /\ proc[p].pc = "save" /\ spent \in Spent
  BY DEF SaveIndex, At, HelmInv, TypeOK
<1>2. proc[p].hash \in Hashes /\ proc[p].todo \in SUBSET (Catalogs \X ({NoHash} \cup Hashes))
  BY <1>1 DEF LocalOK, Local
<1>3. CASE /\ file' = [file EXCEPT ![Dir(p)] = IndexFile[proc[p].hash]]
           /\ Goto(p, "compare") /\ UNCHANGED spent
  <2> DEFINE g == [proc[p] EXCEPT !.pc = "compare"]
  <2>1. g \in Local /\ LocalOK(g, spent.faults = 0)
    BY <1>1 DEF Local, LocalOK
  <2>2. IndexFile[proc[p].hash] \in Beginnings(proc[p].hash)
    BY <1>2, BeginningsAre
  <2>3. Become(p, g)
    BY <1>3 DEF Goto
  <2> HIDE DEF g
  <2> QED
    BY <1>1, <1>2, <1>3, <2>1, <2>2, <2>3, FileStep DEF SaveIndex
<1>4. ASSUME NEW b \in Beginnings(proc[p].hash),
             file' = [file EXCEPT ![Dir(p)] = b], Return(p), Retry
      PROVE  HelmInv'
  <2> DEFINE g == [Idle EXCEPT !.pc = "next", !.todo = proc[p].todo]
  <2>1. g \in Local /\ LocalOK(g, spent'.faults = 0) /\ Become(p, g)
    BY <1>2, <1>4, IdleIs DEF Return
  <2>2. spent' \in Spent /\ (spent'.faults = 0 => spent.faults = 0)
    BY <1>1, <1>4, SpentGrows
  <2> HIDE DEF g
  <2> QED
    BY <1>2, <1>4, <2>1, <2>2, FileStep DEF SaveIndex
<1> QED
  BY <1>3, <1>4 DEF SaveIndex

LEMMA ReadableIs ==
  ASSUME HelmInv, NEW p \in Procs, proc[p].pc = "load", NEW found \in Readable(p)
  PROVE  proc[p].hash \in Hashes /\ found \in Beginnings(proc[p].hash)
<1>1. proc[p] \in Local /\ LocalOK(proc[p], spent.faults = 0)
  BY DEF HelmInv, TypeOK
<1>2. proc[p].hash \in Hashes
  BY <1>1 DEF LocalOK
<1>3. Dir(p) \in Dirs /\ Dir(p)[2] = proc[p].hash
  BY <1>1, <1>2 DEF Dir, Dirs, Local, Envs
<1>4. file[Dir(p)] \in Beginnings(proc[p].hash)
  BY <1>3 DEF HelmInv, FilesOK
<1> QED
  BY <1>2, <1>4 DEF Readable

LEMMA LoadIndexKeeps ==
  ASSUME HelmInv, NEW p \in Procs, LoadIndex(p)
  PROVE  HelmInv'
<1>1. /\ proc[p] \in Local /\ LocalOK(proc[p], spent.faults = 0)
      /\ proc[p].pc = "load" /\ spent \in Spent
      /\ UNCHANGED <<served, file, rows, halved, spent>>
  BY DEF LoadIndex, At, HelmInv, TypeOK
<1>2. PICK found \in Readable(p) :
        \/ Become(p, [proc[p] EXCEPT !.pc = "fetch", !.index = found])
        \/ Return(p)
        \/ Become(p, Idle)
  BY DEF LoadIndex
<1>3. /\ proc[p].hash \in Hashes /\ found \in Beginnings(proc[p].hash)
      /\ found \in Seq(ChartVersion)
  BY <1>1, ReadableIs, BeginningsAre
<1>4. CASE Become(p, [proc[p] EXCEPT !.pc = "fetch", !.index = found])
  <2> DEFINE g == [proc[p] EXCEPT !.pc = "fetch", !.index = found]
  <2>1. g \in Local
    BY <1>1, <1>3 DEF Local
  <2>2. /\ g.pc = "fetch" /\ g.index = found /\ g.hash = proc[p].hash
        /\ g.at = 1 /\ g.read = NoRow
    BY <1>1 DEF Local, LocalOK
  <2>3. Len(found) \in Nat
    BY <1>3
  <2> HIDE DEF g
  <2>4. NoRow.charts = {} /\ NoRow.versions = {}
    BY DEF NoRow
  <2>5. g.at <= Len(g.index) + 1 /\ g.at - 1 = 0
    BY <2>2, <2>3
  <2>6. ReadOK(g, spent.faults = 0)
    BY <1>3, <2>2, <2>4, <2>5, HadUptoNone DEF ReadOK
  <2>7. LocalOK(g, spent.faults = 0)
    BY <1>3, <2>2, <2>6 DEF LocalOK
  <2> QED
    BY <1>1, <1>4, <2>1, <2>7, LocalStep DEF g
<1>5. CASE Return(p)
  BY <1>1, <1>5, ReturnKeeps
<1>6. CASE Become(p, Idle)
  BY <1>1, <1>6, LocalStep, IdleIs
<1> QED
  BY <1>2, <1>4, <1>5, <1>6

\* The next version of what the goroutine read, with its files or without.
LEMMA WithChartKeeps ==
  ASSUME HelmInv, NEW p \in Procs, At(p, "fetch"), proc[p].at <= Len(proc[p].index),
         NEW errs \in BOOLEAN, NEW files \in BOOLEAN,
         Become(p, WithChart(p, errs, IF files THEN {Entry(p)} ELSE {})),
         UNCHANGED spent \/ Fault,
         spent'.faults = 0 => files = Fetchable(proc[p].cat, Entry(p)),
         UNCHANGED <<served, file, rows, halved>>
  PROVE  HelmInv'
<1> DEFINE own == proc[p]
           new == IF files THEN {Entry(p)} ELSE {}
           g == WithChart(p, errs, new)
<1>1. /\ own \in Local /\ ReadOK(own, spent.faults = 0) /\ own.hash \in Hashes
      /\ own.pc = "fetch" /\ spent \in Spent
  BY DEF At, HelmInv, TypeOK, LocalOK
<1>2. /\ own.at \in Nat \ {0} /\ own.index \in Seq(ChartVersion) /\ own.read \in Row
      /\ own.cat \in Catalogs
  BY <1>1 DEF Local
<1>3. own.at \in DOMAIN own.index /\ Entry(p) = own.index[own.at] /\ Len(own.index) \in Nat
  BY <1>2 DEF Entry
<1>4. Entry(p) \in ChartVersion /\ Entry(p).chart \in ChartNames
  <2>1. Entry(p) \in ChartVersion
    BY <1>2, <1>3
  <2> QED
    BY <2>1 DEF ChartVersion
<1>5. /\ g.pc = "fetch" /\ g.hash = own.hash /\ g.index = own.index
      /\ g.cat = own.cat /\ g.at = own.at + 1
      /\ g.read.charts = own.read.charts \cup {Entry(p).chart}
      /\ g.read.versions = own.read.versions \cup new
      /\ g \in Local
  <2> DEFINE r == [commit |-> NoHash, charts |-> own.read.charts \cup {Entry(p).chart},
                   versions |-> own.read.versions \cup new]
           e == own.errs \/ errs
           k == own.at + 1
  <2>1. r \in Row
    BY <1>2, <1>4 DEF Row
  <2>2. g = [own EXCEPT !.at = k, !.errs = e, !.read = r]
    BY DEF WithChart
  <2>3. e \in BOOLEAN /\ k \in Nat \ {0}
    BY <1>2
  <2>4. r.charts = own.read.charts \cup {Entry(p).chart} /\ r.versions = own.read.versions \cup new
    OBVIOUS
  <2> HIDE DEF new, r, e, g, own
  <2>5. /\ g \in Local /\ g.pc = own.pc /\ g.hash = own.hash /\ g.index = own.index
        /\ g.cat = own.cat /\ g.at = k /\ g.read = r
    BY <1>1, <2>1, <2>2, <2>3 DEF Local
  <2> QED
    BY <1>1, <2>4, <2>5
<1>6. spent' \in Spent /\ (spent'.faults = 0 => spent.faults = 0)
  BY <1>1, SpentGrows
<1> HIDE DEF g
<1>7. \A v \in g.read.versions : \E i \in 1..(g.at - 1) : v = g.index[i]
  <2>1. \A v \in new : v = own.index[own.at]
    BY <1>3
  <2>2. g.at - 1 = own.at /\ \A i \in 1..(own.at - 1) : i \in 1..own.at
    BY <1>2, <1>5
  <2>3. own.at \in 1..own.at
    BY <1>2
  <2> HIDE DEF new
  <2> QED
    BY <1>1, <1>5, <2>1, <2>2, <2>3 DEF ReadOK
<1>8. ASSUME spent'.faults = 0 PROVE g.read.versions = HadUpto(g.cat, g.index, g.at - 1)
  <2>1. own.read.versions = HadUpto(own.cat, own.index, own.at - 1)
    BY <1>1, <1>6, <1>8 DEF ReadOK
  <2>2. new = IF Fetchable(own.cat, own.index[own.at]) THEN {own.index[own.at]} ELSE {}
    BY <1>3, <1>8
  <2>3. own.at - 1 \in Nat /\ own.at - 1 + 1 = own.at /\ g.at - 1 = own.at
    BY <1>2, <1>5
  <2> HIDE DEF new
  <2> DEFINE k == own.at - 1
  <2> HIDE DEF k
  <2>4. k \in Nat /\ k + 1 = own.at
    BY <2>3 DEF k
  <2>5. HadUpto(own.cat, own.index, k + 1) =
          HadUpto(own.cat, own.index, k) \cup
            (IF Fetchable(own.cat, own.index[k + 1]) THEN {own.index[k + 1]} ELSE {})
    BY <2>4, HadUptoNext
  <2>6. HadUpto(own.cat, own.index, own.at) = HadUpto(own.cat, own.index, own.at - 1) \cup new
    BY <2>2, <2>4, <2>5 DEF k
  <2> QED
    BY <1>5, <2>1, <2>3, <2>6
<1>9. ReadOK(g, spent'.faults = 0)
  <2>1. /\ g.index \in Beginnings(g.hash) /\ g.at <= Len(g.index) + 1 /\ g.pc # "update"
        /\ g.at # 1
    BY <1>1, <1>2, <1>3, <1>5 DEF ReadOK
  <2> QED
    BY <1>7, <1>8, <2>1 DEF ReadOK
<1>10. LocalOK(g, spent'.faults = 0)
  BY <1>1, <1>5, <1>9 DEF LocalOK
<1> QED
  BY <1>5, <1>6, <1>10, LocalStep DEF g

LEMMA FetchFilesKeeps ==
  ASSUME HelmInv, NEW p \in Procs, FetchFiles(p)
  PROVE  HelmInv'
<1> DEFINE had == Fetchable(proc[p].cat, Entry(p))
<1>1. /\ At(p, "fetch") /\ proc[p].at <= Len(proc[p].index)
      /\ UNCHANGED <<served, file, rows, halved>>
      /\ \/ had /\ Become(p, WithFiles(p)) /\ UNCHANGED spent
         \/ ~had /\ Become(p, WithoutFiles(p)) /\ UNCHANGED spent
         \/ had /\ Fault /\ Become(p, WithoutFiles(p))
  BY DEF FetchFiles
<1>2. spent \in Spent
  BY DEF HelmInv, TypeOK
<1>3. CASE had /\ Become(p, WithFiles(p)) /\ UNCHANGED spent
  <2>1. Become(p, WithChart(p, FALSE, IF TRUE THEN {Entry(p)} ELSE {}))
    BY <1>3 DEF WithFiles
  <2> QED
    BY <1>1, <1>3, <2>1, WithChartKeeps
<1>4. CASE Become(p, WithoutFiles(p)) /\ ((UNCHANGED spent /\ ~had) \/ Fault)
  <2>1. Become(p, WithChart(p, TRUE, IF FALSE THEN {Entry(p)} ELSE {}))
    BY <1>4 DEF WithoutFiles
  <2>2. spent'.faults = 0 => FALSE = had
    BY <1>2, <1>4, SpentGrows DEF Fetchable
  <2> QED
    BY <1>1, <1>4, <2>1, <2>2, WithChartKeeps
<1> QED
  BY <1>1, <1>3, <1>4

LEMMA TraverseDoneKeeps ==
  ASSUME HelmInv, NEW p \in Procs, TraverseDone(p)
  PROVE  HelmInv'
<1>1. /\ proc[p] \in Local /\ LocalOK(proc[p], spent.faults = 0) /\ proc[p].pc = "fetch"
      /\ proc[p].at = Len(proc[p].index) + 1 /\ spent \in Spent
  BY DEF TraverseDone, At, HelmInv, TypeOK
<1> DEFINE g == [proc[p] EXCEPT !.pc = "update"]
<1>2. g \in Local /\ LocalOK(g, spent.faults = 0)
  BY <1>1 DEF Local, LocalOK, ReadOK
<1>3. CASE Goto(p, "update")
  BY <1>1, <1>2, <1>3, LocalStep DEF TraverseDone, Goto
<1> QED
  BY <1>3, ReturnKeeps DEF TraverseDone

\* What is written is of what the goroutine read; all of it, unless a fetch
\* failed.
LEMMA WrittenIs ==
  ASSUME HelmInv, NEW p \in Procs, proc[p].pc = "update"
  PROVE  LET g == proc[p]
         IN  /\ g.hash \in Hashes /\ g.cat \in Catalogs
             /\ g.index \in Beginnings(g.hash)
             /\ g.read.versions \subseteq EntriesIn(g.index)
             /\ g.read.charts # {} => g.index # << >>
             /\ g.index = << >> => g.read.versions = {}
             /\ spent.faults = 0 => g.read.versions = HadOf(g.cat, g.index)
<1> DEFINE g == proc[p]
<1>1. g \in Local /\ ReadOK(g, spent.faults = 0) /\ g.hash \in Hashes
  BY DEF HelmInv, TypeOK, LocalOK
<1>2. g.cat \in Catalogs /\ g.at \in Nat \ {0} /\ g.index \in Seq(ChartVersion)
  BY <1>1 DEF Local
<1>3. g.at - 1 = Len(g.index) /\ DOMAIN g.index = 1..Len(g.index)
  BY <1>1, <1>2 DEF ReadOK
<1>4. g.read.versions \subseteq EntriesIn(g.index)
  BY <1>1, <1>3 DEF ReadOK, EntriesIn
<1>5. g.index = << >> => g.at = 1 /\ EntriesIn(g.index) = {}
  BY <1>2, <1>3 DEF EntriesIn
<1>6. spent.faults = 0 => g.read.versions = HadOf(g.cat, g.index)
  BY <1>1, <1>2, <1>3, HadUptoAll DEF ReadOK
<1> QED
  BY <1>1, <1>2, <1>4, <1>5, <1>6 DEF ReadOK

LEMMA UpdateDbKeeps ==
  ASSUME HelmInv, NEW p \in Procs, UpdateDb(p)
  PROVE  HelmInv'
<1> DEFINE g == proc[p]
           row == [g.read EXCEPT !.commit = g.hash]
<1>1. g \in Local /\ g.pc = "update" /\ spent \in Spent /\ rows \in [Catalogs -> Row]
  BY DEF UpdateDb, At, HelmInv, TypeOK
<1>2. CASE /\ rows' = [rows EXCEPT ![g.cat] = row] /\ UNCHANGED spent
           /\ halved' = IF ReadHalf(p) THEN halved \cup {g.cat} ELSE halved \ {g.cat}
  <2> DEFINE next == [Idle EXCEPT !.pc = "next", !.todo = g.todo]
  <2>1. g.todo \in SUBSET (Catalogs \X ({NoHash} \cup Hashes)) /\ g.read \in Row
    BY <1>1 DEF Local
  <2>2. next \in Local /\ LocalOK(next, spent'.faults = 0) /\ Become(p, next)
    BY <2>1, IdleIs DEF UpdateDb, Return
  <2>3. /\ g.hash \in Hashes /\ g.cat \in Catalogs
        /\ g.index \in Beginnings(g.hash)
        /\ g.read.versions \subseteq EntriesIn(g.index)
        /\ g.read.charts # {} => g.index # << >>
        /\ g.index = << >> => g.read.versions = {}
        /\ spent.faults = 0 => g.read.versions = HadOf(g.cat, g.index)
    BY <1>1, WrittenIs
  <2>4. /\ row \in Row /\ row.commit = g.hash /\ row.charts = g.read.charts
        /\ row.versions = g.read.versions
    BY <2>1, <2>3 DEF Row
  <2> HIDE DEF row, next
  <2>5. /\ rows' \in [Catalogs -> Row] /\ rows'[g.cat] = row
        /\ \A n \in Catalogs \ {g.cat} : rows'[n] = rows[n]
    BY <1>1, <1>2, <2>3, <2>4
  <2>6. /\ proc' \in [Procs -> Local]
        /\ \A q \in Procs : LocalOK(proc'[q], spent'.faults = 0)
    BY <1>2, <2>2, Becomes
  <2>7. TypeOK' /\ FilesOK'
    BY <1>2, <2>3, <2>5, <2>6 DEF HelmInv, TypeOK, FilesOK, UpdateDb
  <2>8. ASSUME NEW n \in Catalogs, n # g.cat
        PROVE  rows'[n] = rows[n] /\ Sources(n)' = Sources(n)
    BY <1>2, <2>5, <2>8 DEF Sources
  <2>9. ASSUME NEW n \in Catalogs, n = g.cat, g.index # << >>
        PROVE  g.index \in Sources(n)'
    <3>1. CASE g.index = IndexFile[g.hash]
      BY <1>2, <2>3, <2>4, <2>5, <2>9, <3>1 DEF Sources
    <3>2. CASE g.index # IndexFile[g.hash]
      BY <1>2, <2>3, <2>4, <2>5, <2>9, <3>2 DEF Sources, ReadHalf
    <3> QED
      BY <3>1, <3>2
  <2>10. StoredOfHash'
    <3> SUFFICES ASSUME NEW n \in Catalogs, rows'[n].versions # {}
                 PROVE  /\ rows'[n].commit # NoHash
                        /\ \E b \in Sources(n)' : rows'[n].versions \subseteq EntriesIn(b)
      BY DEF StoredOfHash
    <3>1. CASE n = g.cat
      BY <2>3, <2>4, <2>5, <2>9, <3>1, IndexFacts
    <3>2. CASE n # g.cat
      BY <2>8, <3>2 DEF HelmInv, StoredOfHash
    <3> QED
      BY <3>1, <3>2
  <2>11. MissingOnlyByFailure'
    <3> SUFFICES ASSUME spent.faults = 0, NEW n \in Catalogs, rows'[n].charts # {}
                 PROVE  \E b \in Sources(n)' : rows'[n].versions = HadOf(n, b)
      BY <1>2 DEF MissingOnlyByFailure
    <3>1. CASE n = g.cat
      BY <2>3, <2>4, <2>5, <2>9, <3>1
    <3>2. CASE n # g.cat
      BY <2>8, <3>2 DEF HelmInv, MissingOnlyByFailure
    <3> QED
      BY <3>1, <3>2
  <2> QED
    BY <2>6, <2>7, <2>10, <2>11 DEF HelmInv
<1>3. CASE UNCHANGED <<rows, halved>> /\ Retry
  BY <1>3, ReturnKeeps DEF UpdateDb
<1> QED
  BY <1>2, <1>3 DEF UpdateDb

LEMMA PublishKeeps ==
  ASSUME HelmInv, NEW u \in IndexURLs, Publish(u)
  PROVE  HelmInv'
<1>1. served' \in [IndexURLs -> Hashes]
  <2>1. \A h \in Hashes : h < Len(IndexFile) => h + 1 \in Hashes
    BY IndexNumbers
  <2> QED
    BY <2>1 DEF HelmInv, TypeOK, Publish
<1>2. UNCHANGED <<file, rows, halved, proc, spent>>
  BY DEF Publish
<1> QED
  BY <1>1, <1>2, RowsStay DEF HelmInv, TypeOK, FilesOK

LEMMA CrashKeeps ==
  ASSUME HelmInv, Crash
  PROVE  HelmInv'
<1>1. spent' \in Spent /\ (spent'.faults = 0 => spent.faults = 0)
  BY SpentGrows DEF HelmInv, TypeOK, Crash
<1>2. proc' = [p \in Procs |-> Idle] /\ UNCHANGED <<served, file, rows, halved>>
  BY DEF Crash
<1>3. Idle \in Local /\ LocalOK(Idle, spent'.faults = 0)
  BY IdleIs
<1>4. TypeOK' /\ FilesOK' /\ StoredOfHash' /\ MissingOnlyByFailure'
  BY <1>1, <1>2, <1>3, RowsStay DEF HelmInv, TypeOK, FilesOK
<1>5. \A p \in Procs : LocalOK(proc'[p], spent'.faults = 0)
  BY <1>2, <1>3
<1> QED
  BY <1>4, <1>5 DEF HelmInv

-----------------------------------------------------------------------------
(* Functions defined step by step.                                         *)

LEMMA Stepwise ==
  ASSUME NEW N \in Nat, NEW G, NEW f, f[0] \in G[0],
         \A n \in 1..N : f[n - 1] \in G[n - 1] => f[n] \in G[n]
  PROVE  \A n \in 0..N : f[n] \in G[n]
<1> DEFINE bad == {n \in 0..N : f[n] \notin G[n]}
<1>1. SUFFICES ASSUME bad # {} PROVE FALSE
  OBVIOUS
<1>2. bad \in SUBSET Nat
  OBVIOUS
<1>3. PICK m \in bad : \A n \in bad : <<n, m>> \notin OpToRel(<, Nat)
  BY <1>1, <1>2, NatLessThanWellFounded, WFMin
<1>4. m \in 1..N /\ m - 1 \in 0..N
  OBVIOUS
<1>5. m - 1 \notin bad
  <2>1. <<m - 1, m>> \in Nat \X Nat /\ <<m - 1, m>>[1] < <<m - 1, m>>[2]
    BY <1>4
  <2> QED
    BY <1>3, <2>1 DEF OpToRel
<1> QED
  BY <1>4, <1>5

\* Such a function exists.
Stepped(f, N, A, first, step) ==
    /\ f \in [0..N -> A]
    /\ f[0] = first
    /\ \A n \in 1..N : f[n] = step[<<n, f[n - 1]>>]

LEMMA StepwiseExists ==
  ASSUME NEW N \in Nat, NEW A, NEW first \in A, NEW step \in [(1..N) \X A -> A]
  PROVE  \E f : Stepped(f, N, A, first, step)
<1> DEFINE Upto(f, k) ==
             /\ f \in [0..k -> A]
             /\ f[0] = first
             /\ \A n \in 1..k : f[n] = step[<<n, f[n - 1]>>]
           T == [k \in 0..N |-> {x \in {0} : \E f : Upto(f, k)}]
           z == [k \in 0..N |-> 0]
<1>1. \E f : Upto(f, 0)
  <2>1. Upto([n \in 0..0 |-> first], 0)
    OBVIOUS
  <2> QED
    BY <2>1
<1>2. ASSUME NEW k \in 0..N, k + 1 \in 0..N, NEW f, Upto(f, k)
      PROVE  \E g : Upto(g, k + 1)
  <2> DEFINE last == step[<<k + 1, f[k]>>]
             g == [n \in 0..(k + 1) |-> IF n = k + 1 THEN last ELSE f[n]]
  <2>1. last \in A
    BY <1>2
  <2>2. \A n \in 0..k : n \in 0..(k + 1) /\ n # k + 1 /\ g[n] = f[n]
    OBVIOUS
  <2>3. g[k + 1] = last /\ g[k] = f[k]
    OBVIOUS
  <2>4. g \in [0..(k + 1) -> A]
    BY <1>2, <2>1
  <2>5. k \in 0..k /\ k \in Nat
    OBVIOUS
  <2> HIDE DEF g, last
  <2>6. ASSUME NEW n \in 1..(k + 1)
        PROVE  g[n] = step[<<n, g[n - 1]>>]
    <3>1. CASE n = k + 1
      <4>1. n - 1 = k
        BY <2>5, <3>1
      <4> QED
        BY <2>3, <3>1, <4>1 DEF last
    <3>2. CASE n \in 1..k
      <4>1. f[n] = step[<<n, f[n - 1]>>]
        BY <1>2, <3>2
      <4>2. n \in 0..k /\ n - 1 \in 0..k
        BY <2>5, <3>2
      <4> QED
        BY <2>2, <4>1, <4>2
    <3> QED
      BY <2>5, <3>1, <3>2
  <2>7. g[0] = first
    BY <1>2, <2>2, <2>5
  <2>8. Upto(g, k + 1)
    BY <2>4, <2>6, <2>7
  <2> QED
    BY <2>8
<1>3. \A k \in 0..N : z[k] \in T[k] <=> \E f : Upto(f, k)
  <2> HIDE DEF Upto
  <2> QED
    OBVIOUS
<1>4. \A k \in 0..N : z[k] \in T[k]
  <2> HIDE DEF Upto, T, z
  <2>1. 0 \in 0..N /\ z[0] \in T[0]
    BY <1>1, <1>3
  <2>2. ASSUME NEW k \in 1..N, z[k - 1] \in T[k - 1]
        PROVE  z[k] \in T[k]
    <3>1. k - 1 \in 0..N /\ k \in 0..N /\ (k - 1) + 1 = k
      OBVIOUS
    <3>2. PICK f : Upto(f, k - 1)
      BY <1>3, <2>2, <3>1
    <3>3. \E g : Upto(g, k)
      BY <1>2, <3>1, <3>2
    <3> QED
      BY <1>3, <3>1, <3>3
  <2> QED
    BY <2>1, <2>2, Stepwise
<1> HIDE DEF Upto
<1>5. \E f : Upto(f, N)
  BY <1>3, <1>4
<1> QED
  BY <1>5 DEF Upto, Stepped

-----------------------------------------------------------------------------
(* Requests.                                                               *)

\* Chains of requests to origins the operator allows, up to the limit.
AllowedChains == {via \in Seq(URL) : /\ Len(via) <= MaxHops
                                     /\ \A i \in DOMAIN via : AuthorizeURL(via[i])}

LEMMA HopsAndRedirects ==
  /\ MaxHops \in Nat /\ MaxHops >= 1
  /\ \A u \in DOMAIN Redirects : Redirects[u] \in URL
BY OutboundAssumption

LEMMA FollowAllowed ==
  ASSUME NEW via \in AllowedChains
  PROVE  FollowRedirect(via) \in AllowedChains
<1> DEFINE to == Redirects[LastOf(via)]
<1>1. CASE FollowRedirect(via) = via
  BY <1>1
<1>2. CASE /\ via # << >> /\ LastOf(via) \in DOMAIN Redirects /\ MayRedirect(via, to)
           /\ FollowRedirect(via) = Append(via, to)
  <2>1. to \in URL /\ Len(via) < MaxHops /\ AuthorizeURL(to) /\ MaxHops \in Nat
    BY <1>2, HopsAndRedirects DEF MayRedirect
  <2>2. via \in Seq(URL) /\ \A i \in DOMAIN via : AuthorizeURL(via[i])
    BY DEF AllowedChains
  <2> HIDE DEF to
  <2>3. /\ Append(via, to) \in Seq(URL) /\ Len(Append(via, to)) = Len(via) + 1
        /\ DOMAIN Append(via, to) = 1..(Len(via) + 1)
        /\ \A i \in 1..(Len(via) + 1) :
             Append(via, to)[i] = IF i \in DOMAIN via THEN via[i] ELSE to
    BY <2>1, <2>2
  <2>4. Len(via) \in Nat
    BY <2>2
  <2> DEFINE more == Append(via, to)
  <2> HIDE DEF more
  <2>5. more \in Seq(URL) /\ Len(more) <= MaxHops
    BY <2>1, <2>3, <2>4 DEF more
  <2>6. \A i \in DOMAIN more : AuthorizeURL(more[i])
    BY <2>1, <2>2, <2>3 DEF more
  <2>7. more \in AllowedChains
    BY <2>5, <2>6 DEF AllowedChains
  <2> QED
    BY <1>2, <2>7 DEF more
<1> QED
  BY <1>1, <1>2 DEF FollowRedirect

LEMMA RequestsAreAllowed ==
  ASSUME NEW u \in URL
  PROVE  Requests(u) \in AllowedChains
<1> DEFINE sent[n \in 0..MaxHops] ==
             IF n = 0 THEN FirstRequest(u) ELSE FollowRedirect(sent[n - 1])
           G == [n \in 0..MaxHops |-> AllowedChains]
           step == [x \in (1..MaxHops) \X AllowedChains |-> FollowRedirect(x[2])]
<1>1. MaxHops \in Nat /\ MaxHops >= 1
  BY HopsAndRedirects
<1>2. FirstRequest(u) \in AllowedChains
  BY <1>1 DEF FirstRequest, AllowedChains
<1>3. \A n \in 1..MaxHops, via \in AllowedChains : step[<<n, via>>] = FollowRedirect(via)
  OBVIOUS
<1>4. \E f : Stepped(f, MaxHops, AllowedChains, FirstRequest(u), step)
  <2>1. step \in [(1..MaxHops) \X AllowedChains -> AllowedChains]
    BY FollowAllowed
  <2> HIDE DEF step
  <2> QED
    BY <1>1, <1>2, <2>1, StepwiseExists
<1>5. PICK f \in [0..MaxHops -> AllowedChains] :
        /\ f[0] = FirstRequest(u)
        /\ \A n \in 1..MaxHops : f[n] = FollowRedirect(f[n - 1])
  <2> HIDE DEF G, step
  <2>1. PICK f \in [0..MaxHops -> AllowedChains] :
          /\ f[0] = FirstRequest(u)
          /\ \A n \in 1..MaxHops : f[n] = step[<<n, f[n - 1]>>]
    BY <1>4 DEF Stepped
  <2>2. ASSUME NEW n \in 1..MaxHops
        PROVE  f[n] = FollowRedirect(f[n - 1])
    <3>1. n - 1 \in 0..MaxHops
      BY <1>1
    <3>2. f[n - 1] \in AllowedChains
      BY <3>1
    <3> QED
      BY <1>3, <2>1, <3>2
  <2> QED
    BY <2>1, <2>2
<1>6. sent = [n \in 0..MaxHops |-> IF n = 0 THEN FirstRequest(u) ELSE FollowRedirect(sent[n - 1])]
  <2>1. f = [n \in 0..MaxHops |-> IF n = 0 THEN FirstRequest(u) ELSE FollowRedirect(f[n - 1])]
    BY <1>1, <1>5
  <2> QED
    BY <2>1
<1>7. Requests(u) = sent[MaxHops]
  BY DEF Requests
<1> HIDE DEF sent
<1>8. \A n \in 0..MaxHops : sent[n] \in G[n]
  <2>1. sent[0] = FirstRequest(u)
    BY <1>1, <1>6
  <2>2. \A n \in 1..MaxHops : sent[n] = FollowRedirect(sent[n - 1])
    BY <1>1, <1>6
  <2>3. \A n \in 0..MaxHops : G[n] = AllowedChains
    OBVIOUS
  <2>4. sent[0] \in G[0]
    BY <1>1, <1>2, <2>1, <2>3
  <2>5. \A n \in 1..MaxHops : sent[n - 1] \in G[n - 1] => sent[n] \in G[n]
    BY <1>1, <2>2, <2>3, FollowAllowed
  <2> HIDE DEF G
  <2> QED
    BY <1>1, <2>4, <2>5, Stepwise
<1> QED
  BY <1>1, <1>7, <1>8

-----------------------------------------------------------------------------
(* Archives.                                                               *)

\* What is unpacked of an archive, and of its first n entries.
ChartFiles == [ok : BOOLEAN, files : Seq(TarEntry), total : Int]

WithinLimits(s) ==
    /\ Len(s.files) <= MaxChartFiles
    /\ \A j, k \in DOMAIN s.files : s.files[j].name = s.files[k].name => j = k
    /\ \A j \in DOMAIN s.files : s.files[j].local /\ s.files[j].size \in 0..MaxFileBytes
    /\ s.total \in 0..MaxExpandedBytes

Unpacks(n) == {s \in ChartFiles : WithinLimits(s) /\ Len(s.files) <= n}

LEMMA NothingUnpacked ==
  ASSUME NEW n \in Nat, NEW ok \in BOOLEAN
  PROVE  [ok |-> ok, files |-> << >>, total |-> 0] \in Unpacks(n)
BY HelmChartAssumption DEF Unpacks, ChartFiles, WithinLimits

LEMMA ReadEntryType ==
  ASSUME NEW s \in ChartFiles, NEW n \in Nat, NEW e \in TarEntry
  PROVE  ReadEntry(s, n, e) \in ChartFiles
<1>1. Append(s.files, e) \in Seq(TarEntry) /\ s.total \in Int /\ e.size \in Int
  BY DEF ChartFiles, TarEntry
<1> QED
  BY <1>1 DEF ReadEntry, ChartFiles, NoFiles

LEMMA ReadEntryUnpacks ==
  ASSUME NEW n \in Nat \ {0}, NEW s \in Unpacks(n - 1), NEW e \in TarEntry
  PROVE  ReadEntry(s, n, e) \in Unpacks(n)
<1> DEFINE files == Append(s.files, e)
           grown == [ok |-> TRUE, files |-> files, total |-> s.total + e.size]
<1>1. /\ s \in ChartFiles /\ s.files \in Seq(TarEntry) /\ s.total \in Int
      /\ WithinLimits(s) /\ Len(s.files) <= n - 1 /\ Len(s.files) \in Nat
  BY DEF Unpacks, ChartFiles
<1>2. NoFiles \in Unpacks(n)
  BY NothingUnpacked DEF NoFiles
<1>3. s \in Unpacks(n)
  BY <1>1 DEF Unpacks
<1>4. CASE ~(n > MaxChartFiles) /\ Acceptable(s, e)
  <2>1. /\ files \in Seq(TarEntry) /\ Len(files) = Len(s.files) + 1
        /\ DOMAIN files = 1..(Len(s.files) + 1) /\ DOMAIN s.files = 1..Len(s.files)
        /\ \A i \in 1..(Len(s.files) + 1) :
             files[i] = IF i \in DOMAIN s.files THEN s.files[i] ELSE e
    BY <1>1
  <2>2. MaxChartFiles \in Nat /\ MaxFileBytes \in Nat /\ MaxExpandedBytes \in Nat
    BY HelmChartAssumption
  <2>3. e.local /\ e.size \in 0..MaxFileBytes /\ s.total <= MaxExpandedBytes - e.size
        /\ \A i \in DOMAIN s.files : s.files[i].name # e.name
    BY <1>4 DEF Acceptable, FilesIn
  <2> HIDE DEF files
  <2>4. Len(files) <= n /\ Len(files) <= MaxChartFiles
    BY <1>1, <1>4, <2>1, <2>2
  <2>5. ASSUME NEW j \in DOMAIN files, NEW k \in DOMAIN files, files[j].name = files[k].name
        PROVE  j = k
    <3>1. CASE j \in DOMAIN s.files /\ k \in DOMAIN s.files
      BY <1>1, <2>1, <2>5, <3>1 DEF WithinLimits
    <3>2. CASE j \in DOMAIN s.files /\ k \notin DOMAIN s.files
      BY <2>1, <2>3, <2>5, <3>2
    <3>3. CASE j \notin DOMAIN s.files /\ k \in DOMAIN s.files
      BY <2>1, <2>3, <2>5, <3>3
    <3>4. CASE j \notin DOMAIN s.files /\ k \notin DOMAIN s.files
      BY <1>1, <2>1, <3>4
    <3> QED
      BY <3>1, <3>2, <3>3, <3>4
  <2>6. \A j \in DOMAIN files : files[j].local /\ files[j].size \in 0..MaxFileBytes
    BY <1>1, <2>1, <2>3 DEF WithinLimits
  <2>7. s.total + e.size \in 0..MaxExpandedBytes
    BY <1>1, <2>2, <2>3 DEF WithinLimits
  <2>8. grown.files = files /\ grown.total = s.total + e.size /\ grown \in ChartFiles
    BY <2>1, <2>7 DEF ChartFiles
  <2> HIDE DEF grown
  <2>9. WithinLimits(grown)
    BY <2>4, <2>5, <2>6, <2>7, <2>8 DEF WithinLimits
  <2> QED
    BY <1>2, <1>3, <2>4, <2>8, <2>9 DEF ReadEntry, Unpacks, grown, files
<1> QED
  BY <1>2, <1>3, <1>4 DEF ReadEntry

LEMMA ExtractedWithinLimits ==
  ASSUME NEW a, IsArchive(a)
  PROVE  WithinLimits(ExtractChartFiles(a))
<1> DEFINE N == Len(a.entries)
           none == [ok |-> TRUE, files |-> << >>, total |-> 0]
           read[n \in 0..N] ==
             IF n = 0 THEN none ELSE ReadEntry(read[n - 1], n, a.entries[n])
           G == [n \in 0..N |-> Unpacks(n)]
           step == [x \in (1..N) \X ChartFiles |-> ReadEntry(x[2], x[1], a.entries[x[1]])]
<1>1. N \in Nat /\ \A n \in 1..N : a.entries[n] \in TarEntry
  BY DEF IsArchive
<1>2. none \in Unpacks(0) /\ none \in ChartFiles /\ NoFiles \in Unpacks(0)
  BY NothingUnpacked DEF Unpacks, NoFiles
<1> HIDE DEF N, none
<1>3. PICK f \in [0..N -> ChartFiles] :
        /\ f[0] = none
        /\ \A n \in 1..N : f[n] = ReadEntry(f[n - 1], n, a.entries[n])
  <2>1. step \in [(1..N) \X ChartFiles -> ChartFiles]
    BY <1>1, ReadEntryType
  <2>2. \A n \in 1..N, s \in ChartFiles : step[<<n, s>>] = ReadEntry(s, n, a.entries[n])
    OBVIOUS
  <2> HIDE DEF step
  <2>3. PICK f : Stepped(f, N, ChartFiles, none, step)
    BY <1>1, <1>2, <2>1, StepwiseExists
  <2>4. ASSUME NEW n \in 1..N
        PROVE  f[n] = ReadEntry(f[n - 1], n, a.entries[n])
    <3>1. n - 1 \in 0..N
      BY <1>1
    <3>2. f[n - 1] \in ChartFiles /\ f[n] = step[<<n, f[n - 1]>>]
      BY <2>3, <3>1 DEF Stepped
    <3> QED
      BY <2>2, <3>2
  <2> QED
    BY <2>3, <2>4 DEF Stepped
<1>4. read = [n \in 0..N |-> IF n = 0 THEN none ELSE ReadEntry(read[n - 1], n, a.entries[n])]
  <2>1. f = [n \in 0..N |-> IF n = 0 THEN none ELSE ReadEntry(f[n - 1], n, a.entries[n])]
    BY <1>1, <1>3
  <2> QED
    BY <2>1
<1>5. ExtractChartFiles(a) \in {read[N], NoFiles}
  BY DEF ExtractChartFiles, N, none
<1> HIDE DEF read
<1>6. \A n \in 0..N : read[n] \in G[n]
  <2>1. read[0] = none
    BY <1>1, <1>4
  <2>2. \A n \in 1..N : read[n] = ReadEntry(read[n - 1], n, a.entries[n])
    BY <1>1, <1>4
  <2>3. \A n \in 0..N : G[n] = Unpacks(n)
    OBVIOUS
  <2> HIDE DEF G
  <2>4. read[0] \in G[0]
    BY <1>1, <1>2, <2>1, <2>3
  <2>5. ASSUME NEW n \in 1..N, read[n - 1] \in G[n - 1]
        PROVE  read[n] \in G[n]
    <3>1. n \in Nat \ {0} /\ n \in 0..N /\ n - 1 \in 0..N
      BY <1>1
    <3>2. ReadEntry(read[n - 1], n, a.entries[n]) \in Unpacks(n)
      BY <1>1, <2>3, <2>5, <3>1, ReadEntryUnpacks
    <3> QED
      BY <2>2, <2>3, <3>1, <3>2
  <2> QED
    BY <1>1, <2>4, <2>5, Stepwise
<1> QED
  BY <1>1, <1>2, <1>5, <1>6 DEF Unpacks

-----------------------------------------------------------------------------
(* Theorems.                                                               *)

LEMMA HelmInit == Init => HelmInv
<1> SUFFICES ASSUME Init PROVE HelmInv
  OBVIOUS
<1>1. Idle \in Local /\ LocalOK(Idle, spent.faults = 0)
  BY IdleIs
<1>2. /\ NoRow \in Row /\ << >> \in Seq(ChartVersion)
      /\ \A d \in Dirs : << >> \in Beginnings(d[2])
  BY BeginningsAre DEF NoRow, Row, Dirs
<1>3. spent \in Spent
  BY HelmAssumption DEF Init, Spent
<1>4. TypeOK /\ FilesOK
  BY <1>1, <1>2, <1>3, IndexFacts DEF Init, TypeOK, FilesOK
<1>5. StoredOfHash /\ MissingOnlyByFailure
  BY DEF Init, StoredOfHash, MissingOnlyByFailure, NoRow
<1>6. \A p \in Procs : LocalOK(proc[p], spent.faults = 0)
  BY <1>1 DEF Init
<1> QED
  BY <1>4, <1>5, <1>6 DEF HelmInv

LEMMA HelmNext == HelmInv /\ [Next]_vars => HelmInv'
<1> SUFFICES ASSUME HelmInv, [Next]_vars PROVE HelmInv'
  OBVIOUS
<1>1. ASSUME NEW p \in Procs, Step(p) PROVE HelmInv'
  BY <1>1, LookupCatalogsKeeps, NextCatalogKeeps, DownloadIndexKeeps, OpenIndexKeeps,
     SaveIndexKeeps, CompareKeeps, LoadIndexKeeps, FetchFilesKeeps, TraverseDoneKeeps,
     UpdateDbKeeps DEF Step
<1>2. CASE UNCHANGED vars
  BY <1>2, RowsStay DEF vars, HelmInv, TypeOK, FilesOK
<1> QED
  BY <1>1, <1>2, PublishKeeps, CrashKeeps DEF Next

\* The types, what is in the cache directories, and what each goroutine has
\* read, together with what is stored, are kept by every step.
THEOREM HelmInvariant == Spec => []HelmInv
BY HelmInit, HelmNext, PTL DEF Spec

\* What is stored of a catalog is of the index whose hash is its commit, however
\* goroutines overwrite one another's files; or of one part of that, when the
\* file was a part of it as it was read.
THEOREM StoredIsOfHash == Spec => []StoredOfHash
<1>1. HelmInv => StoredOfHash
  BY DEF HelmInv
<1> QED
  BY <1>1, HelmInvariant, PTL

\* As long as no chart failed to be fetched, a catalog that has templates has
\* every chart version that can be had of the index, or of the one part of it
\* that was read.
THEOREM NothingElseMissing == Spec => []MissingOnlyByFailure
<1>1. HelmInv => MissingOnlyByFailure
  BY DEF HelmInv
<1> QED
  BY <1>1, HelmInvariant, PTL

LEMMA ResolvedIsURL ==
  ASSUME NEW base \in URL, NEW ref \in Reference
  PROVE  ResolveReference(base, ref) \in URL
<1>1. CASE ref \in [relative : {FALSE}, url : URL]
  <2>1. ResolveReference(base, ref) = ref.url /\ ref.url \in URL
    BY <1>1 DEF ResolveReference
  <2> QED
    BY <2>1
<1>2. CASE ref \in [relative : {TRUE}, path : Paths]
  BY <1>2 DEF ResolveReference, URL
<1> QED
  BY <1>1, <1>2 DEF Reference

LEMMA SendingIs ==
  ASSUME HelmInv, NEW p \in Procs, NEW via \in Sending(p)
  PROVE  \E u \in URL : via = Requests(u)
<1>1. proc[p] \in Local /\ LocalOK(proc[p], spent.faults = 0)
  BY DEF HelmInv, TypeOK
<1>2. Base(p) \in URL
  BY <1>1, HelmAssumption DEF Base, Local
<1>3. CASE At(p, "download")
  BY <1>2, <1>3 DEF Sending
<1>4. CASE At(p, "fetch") /\ proc[p].at <= Len(proc[p].index)
  <2>1. proc[p].at \in Nat \ {0} /\ proc[p].index \in Seq(ChartVersion)
    BY <1>1 DEF Local
  <2>2. proc[p].at \in DOMAIN proc[p].index
    BY <1>4, <2>1
  <2>3. Entry(p) \in ChartVersion
    BY <2>1, <2>2 DEF Entry
  <2>4. Entry(p).urls \in Seq(Reference)
    BY <2>3 DEF ChartVersion
  <2>5. PICK i \in DOMAIN Entry(p).urls : via = Requests(URLs(p, Entry(p))[i])
    BY <1>4 DEF Sending, At
  <2>6. URLs(p, Entry(p))[i] = ResolveReference(Base(p), Entry(p).urls[i])
    BY DEF URLs
  <2>7. URLs(p, Entry(p))[i] \in URL
    BY <1>2, <2>4, <2>6, ResolvedIsURL
  <2> QED
    BY <2>5, <2>7
<1> QED
  BY <1>3, <1>4 DEF Sending

\* Whatever an index says and wherever servers redirect to, every request goes
\* to an origin the operator allows, and no chain of them is over the limit.
THEOREM RequestsAreToOrigins == Spec => []RequestsAllowed
<1>1. ASSUME HelmInv PROVE RequestsAllowed
  <2> SUFFICES ASSUME NEW p \in Procs, NEW via \in Sending(p)
               PROVE  /\ Len(via) <= MaxHops
                      /\ \A i \in DOMAIN via : CanonicalOrigin(via[i]) \in Origins
    BY DEF RequestsAllowed
  <2>1. via \in AllowedChains
    BY <1>1, SendingIs, RequestsAreAllowed
  <2> QED
    BY <2>1 DEF AllowedChains, AuthorizeURL
<1> QED
  BY <1>1, HelmInvariant, PTL

\* Of no archive are files stored that repeat a name, lead out of it or exceed
\* the limits, one by one or all together.
THEOREM StoredFilesAcceptable == Spec => []FilesAcceptable
<1>1. FilesAcceptable
  <2> SUFFICES ASSUME NEW x \in Unpacked PROVE WithinLimits(x[2])
    BY DEF FilesAcceptable, WithinLimits
  <2>1. PICK a \in Answers : a[2] \in DOMAIN Archives
                             /\ x = <<a[1], ExtractChartFiles(Archives[a[2]])>>
    BY DEF Unpacked
  <2>2. IsArchive(Archives[a[2]])
    BY <2>1, HelmAssumption
  <2> QED
    BY <2>1, <2>2, ExtractedWithinLimits
<1> QED
  BY <1>1, PTL

=============================================================================
