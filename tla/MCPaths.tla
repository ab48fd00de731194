------------------------------ MODULE MCPaths ------------------------------
(***************************************************************************)
(* Promises about a path: every function of the file module alone, with    *)
(* each of its options, and policies in which one promise prepares the     *)
(* path for the next.                                                      *)
(***************************************************************************)
EXTENDS Paths

MCAttributes == {"owner", "mode"}

File(f, a, g, force, backup, recurse) ==
  [func |-> f, attrs |-> a, guarded |-> g, force |-> force, backup |-> backup, recurse |-> recurse]
Plain(f, a) == File(f, a, FALSE, FALSE, FALSE, FALSE)

Attributed == File("attributes", {"mode"}, TRUE, FALSE, FALSE, FALSE)

FileAlone ==
  {<<Plain(f, a)>> : f \in {"attributes", "touch"}, a \in SUBSET MCAttributes}
  \cup {<<File(f, a, FALSE, force, FALSE, FALSE)>> :
          f \in {"link", "hard"}, a \in SUBSET MCAttributes, force \in BOOLEAN}
  \cup {<<File("directory", a, FALSE, force, backup, FALSE)>> :
          a \in {{}, MCAttributes}, force, backup \in BOOLEAN}
  \cup {<<File("copy", {}, FALSE, force, backup, recurse)>> : force, backup, recurse \in BOOLEAN}
  \cup {<<Plain("absent", {})>>, <<Attributed>>,
        <<File("touch", {}, TRUE, FALSE, FALSE, FALSE)>>}

FileTogether ==
  {<<File("copy", {}, FALSE, force, TRUE, FALSE), Plain("attributes", {"mode"})>> : force \in BOOLEAN}
  \cup {<<Plain("touch", {"mode"}), File("link", {}, FALSE, TRUE, FALSE, FALSE)>>}
  \cup {<<Plain("touch", {}), Attributed>>, <<Attributed, Plain("touch", {})>>}

MCPolicies == FileAlone \cup FileTogether
=============================================================================
