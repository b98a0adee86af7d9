---------------------------- MODULE MCQuarantine ----------------------------
(* Small instances of Quarantine for TLC.                                   *)
EXTENDS Quarantine, TLC

CONSTANTS p1, p2, n1, o1, o2, o3, s1, s2, v1

Symmetric == Permutations(Procs) \cup Permutations(Objs) \cup Permutations(Names)
                \cup Permutations(Sess \ Legacy)
=============================================================================
