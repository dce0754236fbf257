------------------------------ MODULE Traverse ------------------------------
(***************************************************************************)
(* traverseGitFiles (manager/traverse.go, parse/path.go): the files of a   *)
(* working tree are walked in lexical order into an index of templates,    *)
(* whose versions are then named and described.  A template may be met     *)
(* before the file that makes it one.                                      *)
(*                                                                         *)
(* A file is what its path and its contents tell the traversal: base and   *)
(* name of the template, the folder below it (Root if the file is in the   *)
(* template's own), what is known by its name, whether it can be read (it  *)
(* may be too large), parses and is blank, and the version its contents    *)
(* give.                                                                   *)
(***************************************************************************)
EXTENDS Naturals, SequencesExt

CONSTANTS
    Walk,           \* files a tree may have, in the order they are walked
    Key(_, _),      \* base + templateName, the key of templateIndex
    Root, NotNamed, \* the template's own folder; no version given
    RevisionOf,     \* folder |-> its number, if it is one
    SemVer          \* folders named by a semantic version

ASSUME WalkAssumption ==
    /\ Walk \in Seq(ToSet(Walk)) 
    /\ \A f \in ToSet(Walk) : {f.read, f.ok, f.blank} \subseteq BOOLEAN
    /\ \A i, j \in DOMAIN Walk : Walk[i] = Walk[j] => i = j
    /\ Root \notin DOMAIN RevisionOf \cup SemVer
    /\ DOMAIN RevisionOf \cap SemVer = {}
    /\ NotNamed \notin SemVer

VARIABLES
    tree,           \* the files there are
    rest,           \* those that have not been walked yet
    templateIndex,  \* key |-> template, so far
    templates,      \* the templates returned
    errors,         \* the files that the errors returned with them are about
    returned

vars == <<tree, rest, templateIndex, templates, errors, returned>>

\* Where WalkDir meets a file.
Position == [f \in ToSet(Walk) |-> CHOOSE i \in DOMAIN Walk : Walk[i] = f]
Order(f) == Position[f]

\* {f} for the one file of a kind that counts, {} for none.
LastOf(S) == {f \in S : \A g \in S : Order(g) <= Order(f)}

NoTemplate == [info |-> {}, icon |-> {}, readme |-> {}, versions |-> << >>]

Init ==
    /\ tree \in SUBSET ToSet(Walk)
    /\ rest = tree
    /\ templateIndex = << >>
    /\ templates = {}
    /\ errors = {}
    /\ returned = FALSE

-----------------------------------------------------------------------------
(* The walk: one step for each file of the tree.                           *)

Here == Walk[CHOOSE i \in DOMAIN Walk :
               Walk[i] \in rest /\ \A j \in 1..(i - 1) : Walk[j] \notin rest]

Handles(kinds) ==
    /\ rest # {} /\ Here.kind \in kinds
    /\ rest' = rest \ {Here}
    /\ UNCHANGED <<tree, templates, returned>>

Entry(f) ==
    LET key == Key(f.base, f.name)
    IN  IF key \in DOMAIN templateIndex THEN templateIndex[key] ELSE NoTemplate

Put(f, template) ==
    LET key == Key(f.base, f.name)
    IN  templateIndex' = [k \in DOMAIN templateIndex \cup {key} |->
                            IF k = key THEN template ELSE templateIndex[k]]

\* The file goes into the index if it can be used, into the errors if not.
Use(usable, template) ==
    IF usable THEN Put(Here, template) /\ UNCHANGED errors
    ELSE errors' = errors \cup {Here} /\ UNCHANGED templateIndex

\* Mutant: the config takes the place of what was met of the template.
HandleConfigAfresh ==
    /\ Handles({"config"})
    /\ Use(Here.read /\ Here.ok, [NoTemplate EXCEPT !.info = {Here}])

\* config.yml and template.yml.  What was met of the template before is kept.
HandleConfig ==
    /\ Handles({"config"})
    /\ Use(Here.read /\ Here.ok, [Entry(Here) EXCEPT !.info = {Here}])

HandleIcon ==
    /\ Handles({"icon"})
    /\ Use(Here.read, [Entry(Here) EXCEPT !.icon = {Here}])

HandleReadme ==
    /\ Handles({"readme"}) /\ Here.folder = Root
    /\ Use(Here.read, [Entry(Here) EXCEPT !.readme = {Here}])

IsVersionFolder(folder) == folder \in DOMAIN RevisionOf \cup SemVer

\* The version a folder belongs to: folders of one number are one version.
VersionOf(folder) ==
    IF folder \in SemVer THEN [revision |-> {}, version |-> folder]
    ELSE [revision |-> {RevisionOf[folder]}, version |-> NotNamed]

\* Mutant: versions are told apart by the names of their folders.
AddFileByFolder(versions, f) ==
    LET same == {i \in DOMAIN versions : \E g \in versions[i].files : g.folder = f.folder}
    IN  IF same = {} THEN Append(versions, [of |-> VersionOf(f.folder), files |-> {f}])
        ELSE [i \in DOMAIN versions |->
                IF i \in same THEN [versions[i] EXCEPT !.files = @ \cup {f}] ELSE versions[i]]

\* A file of a version, at any depth below its folder.
AddFile(versions, f) ==
    LET same == {i \in DOMAIN versions : versions[i].of = VersionOf(f.folder)}
    IN  IF same = {} THEN Append(versions, [of |-> VersionOf(f.folder), files |-> {f}])
        ELSE [i \in DOMAIN versions |->
                IF i \in same THEN [versions[i] EXCEPT !.files = @ \cup {f}] ELSE versions[i]]

VersionFileKinds == {"readme", "template-version", "compose", "rancher-compose", "other"}

HandleVersionFile ==
    /\ Handles(VersionFileKinds)
    /\ Here.kind = "readme" => Here.folder # Root
    /\ IF IsVersionFolder(Here.folder)
       THEN Use(Here.read, [Entry(Here) EXCEPT !.versions = AddFile(@, Here)])
       ELSE UNCHANGED <<templateIndex, errors>>

-----------------------------------------------------------------------------
(* The end: versions get their names, and templates need a config.         *)

OfKind(files, kind) == LastOf({f \in files : f.kind = kind})

\* A blank file is as none.
Filled(files, kind) == {f \in OfKind(files, kind) : ~f.blank}

\* The description of a version, the last of three there is.
Described(files) ==
    IF Filled(files, "rancher-compose") # {} THEN Filled(files, "rancher-compose")
    ELSE IF Filled(files, "compose") # {} THEN Filled(files, "compose")
    ELSE Filled(files, "template-version")

Broken(files) == {f \in Described(files) : ~f.ok}

\* A version whose description does not parse stays as the folder gave it.
Name(v) ==
    IF \E f \in Described(v.files) : f.ok /\ f.says # NotNamed
    THEN (CHOOSE f \in Described(v.files) : TRUE).says
    ELSE v.of.version

Finished(v) ==
    LET whole == Broken(v.files) = {}
    IN  [revision |-> v.of.revision, version |-> Name(v), files |-> v.files,
         info |-> IF whole THEN Described(v.files) ELSE {},
         readme |-> IF whole THEN OfKind(v.files, "readme") ELSE {}]

NamedVersions(versions) ==
    {v \in {Finished(w) : w \in ToSet(versions)} : v.version # NotNamed}

Configured == {t \in Range(templateIndex) : t.info # {}}

TraverseEnd ==
    /\ rest = {} /\ ~returned
    /\ templates' = {[t EXCEPT !.versions = NamedVersions(t.versions)] : t \in Configured}
    /\ errors' = errors \cup UNION {Broken(v.files) :
                                      v \in UNION {ToSet(t.versions) : t \in Configured}}
    /\ returned' = TRUE
    /\ UNCHANGED <<tree, rest, templateIndex>>

Next ==
    \/ HandleConfig \/ HandleIcon \/ HandleReadme \/ HandleVersionFile
    \/ TraverseEnd

Spec == Init /\ [][Next]_vars

-----------------------------------------------------------------------------
(* Properties.                                                             *)

Version == [of : {VersionOf(d) : d \in DOMAIN RevisionOf \cup SemVer}, files : SUBSET tree]

\* What the files of a folder say by themselves, however they were met.

FolderFiles(base, name) == {f \in tree : f.base = base /\ f.name = name /\ f.read}

InVersions(files) ==
    {f \in files : f.kind \in VersionFileKinds /\ IsVersionFolder(f.folder)}

FolderVersions(files) ==
    {[of |-> of, files |-> {f \in InVersions(files) : VersionOf(f.folder) = of}] :
       of \in {VersionOf(f.folder) : f \in InVersions(files)}}

ConfigOf(files) == LastOf({f \in files : f.kind = "config" /\ f.ok})
ReadmeOf(files) == OfKind({f \in files : f.folder = Root}, "readme")

Template(files) ==
    [info |-> ConfigOf(files), icon |-> OfKind(files, "icon"), readme |-> ReadmeOf(files),
     versions |-> {v \in {Finished(w) : w \in FolderVersions(files)} : v.version # NotNamed}]

Parses(f) == f.kind = "config" /\ f.read /\ f.ok

TemplatesOfTree ==
    {Template(FolderFiles(f.base, f.name)) : f \in {g \in tree : Parses(g)}}

\* The files the traversal has to read, and cannot use.
Failing(f) ==
    \/ f.kind = "config" /\ ~Parses(f)
    \/ /\ \/ f.kind = "icon"
          \/ f.kind = "readme" /\ f.folder = Root
          \/ f.kind \in VersionFileKinds /\ IsVersionFolder(f.folder)
       /\ ~f.read

\* However the files of templates, icons, readmes and versions come before or
\* after the config that makes a template of them, the index has each folder
\* with a config that parses, once, with all of its own that can be read and
\* nothing else; and the errors are about the configs, and the descriptions of
\* its versions, that do not parse, and the files that cannot be read
\* (templateIndex keeps what was met, and its entries are merged).
IndexIsOfTree ==
    returned =>
      /\ templates = TemplatesOfTree
      /\ errors = {f \in tree : Failing(f)}
                    \cup UNION {Broken(v.files) : v \in UNION {FolderVersions(FolderFiles(t.base, t.name)) :
                                    t \in UNION {u.info : u \in TemplatesOfTree}}}

-----------------------------------------------------------------------------
(* The inductive invariant.                                                *)

\* No two templates of the walk have one key (base + templateName).
KeysDiffer ==
    \A f, g \in ToSet(Walk) :
      Key(f.base, f.name) = Key(g.base, g.name) => f.base = g.base /\ f.name = g.name

KeysOf(files) == {Key(f.base, f.name) : f \in files}

Walked == tree \ rest

\* What has been met under a key.
MetUnder(k) == IF k \in DOMAIN templateIndex THEN templateIndex[k] ELSE NoTemplate

WalkedUnder(k) == {f \in Walked : Key(f.base, f.name) = k /\ f.read}

Matches(t, files) ==
    /\ t = [info |-> ConfigOf(files), icon |-> OfKind(files, "icon"),
            readme |-> ReadmeOf(files), versions |-> t.versions]
    /\ t.versions \in Seq(Version)
    /\ ToSet(t.versions) = FolderVersions(files)
    /\ \A i, j \in DOMAIN t.versions : t.versions[i].of = t.versions[j].of => i = j

\* The index is at every moment what the files walked so far say of each key: no
\* part of a template is taken from two of them, and no version is there twice
\* (handleVersionFile looks for it before it appends).
WalkInv ==
    /\ tree \subseteq ToSet(Walk) /\ rest \subseteq tree
    /\ \A f \in Walked, g \in rest : Order(f) < Order(g)
    /\ DOMAIN templateIndex \subseteq KeysOf(tree)
    /\ \A k \in KeysOf(tree) : Matches(MetUnder(k), WalkedUnder(k))
    /\ returned \in BOOLEAN /\ (returned => rest = {})
    /\ ~returned => errors = {f \in Walked : Failing(f)}
    /\ errors \subseteq tree

=============================================================================
