------------------------------ MODULE MCLaunch ------------------------------
(***************************************************************************)
(* Small instances of LaunchMaterial.                                      *)
(***************************************************************************)
EXTENDS LaunchMaterial

CONSTANTS p1, k1, s1, s2, s3

EnvOfCatalog == [k \in Catalogs |-> p1]

AllCatalogs == {[cat |-> k1, src |-> s1, commit |-> 0]}

\* The second commit of s1 drops its first version, that of s2 names both the
\* same.
Holdings == [x \in Sources \X Commits \X Folders |->
               IF x[2] = 1 \/ x[1] = s3 THEN <<1, 2>>
               ELSE IF x[1] = s1 THEN <<2>> ELSE <<1, 1>>]
=============================================================================
