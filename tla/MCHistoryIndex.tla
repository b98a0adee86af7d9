---------------------------- MODULE MCHistoryIndex ----------------------------
(* Two commands run in a directory, in its child and in another directory:  *)
(* three records for one command exceed the depth of the shallow paths, so  *)
(* both walks of context_usage happen.                                      *)
EXTENDS HistoryIndex, TLC

CONSTANTS top, sub, other
MCDirs == {<<top>>, <<top, sub>>, <<other>>}
Symmetry == Permutations(Cmds)
=============================================================================
