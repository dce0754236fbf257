----------------------------- MODULE MCMetadata -----------------------------
(***************************************************************************)
(* Small instances of MetadataPaging.                                      *)
(***************************************************************************)
EXTENDS MetadataPaging

CONSTANTS p1, p2, k1, k2, k3, k4, s1, s2, s3

\* k4 is a name of the project of k1 that no catalog has at first.
EnvOfCatalog == [k \in Catalogs |-> IF k \in {k1, k4} THEN p1 ELSE IF k = k2 THEN Global ELSE p2]

FirstCatalogs == {[cat |-> k, src |-> s1, commit |-> 0] : k \in Catalogs \ {k4}}

\* The second commit drops the first template of s1.
Holdings == [x \in Sources \X Commits \X Folders |->
               IF x[1] = s1 /\ x[2] = 2 /\ x[3] = 1 THEN << >> ELSE <<1, 2>>]

BadlyNamed == {<<s2, 2>>}
=============================================================================
