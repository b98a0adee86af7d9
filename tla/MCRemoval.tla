------------------------------ MODULE MCRemoval ------------------------------
(* A root with a directory that holds a directory, and a second directory.  *)
EXTENDS Removal
MCParent == [n \in Nodes |-> CASE n \in {"c", "z"} -> "a" [] OTHER -> "root"]
=============================================================================
