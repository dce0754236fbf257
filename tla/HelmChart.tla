----------------------------- MODULE HelmChart -----------------------------
(***************************************************************************)
(* Unpacking a chart archive (helm/helm.go, extractChartFiles): all of its *)
(* files, or an error as soon as an entry is not acceptable.               *)
(***************************************************************************)
EXTENDS Integers, Sequences

CONSTANTS
    FileNames,      \* names of files in archives
    MaxChartBytes, MaxChartFiles, MaxFileBytes, MaxExpandedBytes

ASSUME HelmChartAssumption ==
    /\ MaxChartBytes \in Nat /\ MaxChartFiles \in Nat
    /\ MaxFileBytes \in Nat /\ MaxExpandedBytes \in Nat

\* dotted: written with a leading "./"; local: a valid path within the archive.
TarEntry == [type : {"dir", "file", "other"}, name : FileNames, dotted : BOOLEAN,
             local : BOOLEAN, size : Int]

\* bytes: compressed; stream: all of the tar stream, headers and padding too.
IsArchive(a) ==
    /\ a.entries \in Seq(TarEntry)
    /\ a.bytes \in Nat /\ a.stream \in Nat

NoFiles == [ok |-> FALSE, files |-> << >>, total |-> 0]

FilesIn(s) == {s.files[i].name : i \in DOMAIN s.files}

\* Mutant: names are compared as they are written.
AcceptableAsWritten(s, e) ==
    /\ e.local
    /\ \A i \in DOMAIN s.files : s.files[i].name = e.name => s.files[i].dotted # e.dotted
    /\ e.size \in 0..MaxFileBytes
    /\ s.total <= MaxExpandedBytes - e.size

\* A regular file that may join the files s: local, not seen, within limits.
Acceptable(s, e) ==
    /\ e.local
    /\ e.name \notin FilesIn(s)
    /\ e.size \in 0..MaxFileBytes
    /\ s.total <= MaxExpandedBytes - e.size

\* The n-th entry of the archive.
ReadEntry(s, n, e) ==
    IF ~s.ok \/ n > MaxChartFiles THEN NoFiles
    ELSE IF e.type # "file" THEN s
    ELSE IF Acceptable(s, e)
         THEN [ok |-> TRUE, files |-> Append(s.files, e), total |-> s.total + e.size]
         ELSE NoFiles

ExtractChartFiles(a) ==
    LET read[n \in 0..Len(a.entries)] ==
          IF n = 0 THEN [ok |-> TRUE, files |-> << >>, total |-> 0]
          ELSE ReadEntry(read[n - 1], n, a.entries[n])
    IN  IF a.bytes <= MaxChartBytes /\ a.stream <= MaxExpandedBytes
        THEN read[Len(a.entries)] ELSE NoFiles

=============================================================================
