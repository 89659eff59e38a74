---------------------------- MODULE MCInspection ----------------------------
(* A small instance of Inspection for TLC: a name that lies in two folders   *)
(* beside the executable's, and one that lies in a single folder.            *)
EXTENDS Inspection

TreeDlls    == {"a_app", "a_engine", "a_plugin", "b_engine"}
TreeNames   == [d \in TreeDlls |-> IF d = "b_engine" THEN "b" ELSE "a"]
TreeFolders ==
  [m \in TreeDlls \cup {"exe"} |->
     CASE m \in {"exe", "a_app"} -> "app" [] m = "a_plugin" -> "plugin" [] OTHER -> "engine"]
=============================================================================
