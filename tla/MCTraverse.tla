----------------------------- MODULE MCTraverse -----------------------------
(***************************************************************************)
(* Trees for Traverse: every set of the files below, in the order in which *)
(* WalkDir meets them.                                                     *)
(***************************************************************************)
EXTENDS Traverse

File(base, name, folder, path, kind, ok, says) ==
    [base |-> base, name |-> name, folder |-> folder, path |-> path,
     kind |-> kind, read |-> TRUE, ok |-> ok, blank |-> FALSE, says |-> says]

TooLarge(file) == [file EXCEPT !.read = FALSE]
Blank(file) == [file EXCEPT !.blank = TRUE]

Joined(base, name) == base \o name

Revisions == [d \in {"0", "00"} |-> 0]

Trees ==
    <<File("infra", "x", Root, "infra-templates/x/config.yml", "config", TRUE, NotNamed),
      File("", "x", "0", "templates/x/0/README.md", "readme", TRUE, NotNamed),
      File("", "x", "0", "templates/x/0/rancher-compose.yml", "rancher-compose", TRUE, "v1"),
      File("", "x", "0", "templates/x/0/template-version.yml", "template-version", FALSE, NotNamed),
      Blank(File("", "x", "0", "templates/x/0/z/rancher-compose.yml", "rancher-compose", TRUE, NotNamed)),
      File("", "x", "00", "templates/x/00/compose.yml", "compose", TRUE, NotNamed),
      TooLarge(File("", "x", "00", "templates/x/00/data", "other", TRUE, NotNamed)),
      File("", "x", Root, "templates/x/README.md", "readme", TRUE, NotNamed),
      File("", "x", Root, "templates/x/catalogIcon.png", "icon", TRUE, NotNamed),
      File("", "x", Root, "templates/x/config.yml", "config", TRUE, NotNamed),
      TooLarge(File("", "x", Root, "templates/x/icon.png", "icon", TRUE, NotNamed)),
      File("", "x", Root, "templates/x/template.yml", "config", FALSE, NotNamed),
      File("", "x", "v1", "templates/x/v1/compose.yml", "compose", FALSE, NotNamed)>>

=============================================================================
