------------------------------ MODULE MCFsEngine ------------------------------
\* Small requests over a root r with the current directory w; y is a directory on
\* another device; f, g, h are files, d and e directories.
EXTENDS FsEngine, TLC

R == <<"r">>
Y == <<"y">>
W == Cwd
f == <<"f">>
g == <<"g">>
h == <<"h">>
d == <<"d">>
e == <<"e">>
b == <<"b">>
c == <<"c">>
Y2 == <<Y, "d">>
Kinds == [n \in {"r", "w", "y", "t", "d", "e", "c", "b", "f", "g", "h", "o"} |->
            IF n \in {"r", "w", "y", "d", "e", "c", "b"} THEN "Directory" ELSE IF n = "t" THEN "Other" ELSE "RegularFile"]
Base(entries) == (<<R, "w">> :> W) @@ (<<W, "y">> :> Y) @@ entries
Command(op, entries, sources, target) ==
  [op |-> op, ent |-> Base(entries), sources |-> sources, target |-> target, into |-> None,
   collision |-> "Error", merge |-> FALSE, dry |-> FALSE, durable |-> FALSE, kind |-> Kinds,
   far |-> {Y}, flagged |-> {}, locked |-> FALSE, home |-> R, root |-> R, jobs |-> 1, faults |-> FALSE,
   tracks |-> FALSE, cancel |-> FALSE, acts |-> 0]
Hostile(r) == [r EXCEPT !.faults = TRUE, !.cancel = TRUE, !.acts = 1]

\* A tree with a file of two names.
Tree2 == (<<W, "d">> :> d) @@ (<<d, "f">> :> f) @@ (<<d, "g">> :> f)
Deep == (<<W, "d">> :> d) @@ (<<d, "e">> :> e) @@ (<<e, "f">> :> f)

MvFarFile == Command("Move", <<W, "f">> :> f, <<<<W, "f">>>>, <<Y, "f">>)
MvNearFile == [Command("Move", <<W, "f">> :> f @@ <<W, "g">> :> f, <<<<W, "f">>>>, <<W, "h">>) EXCEPT !.durable = TRUE]
MvFarTree == Command("Move", Tree2, <<<<W, "d">>>>, Y2)
MvFarDeep == Command("Move", Deep, <<<<W, "d">>>>, Y2)
CpTree == [Command("Copy", Tree2 @@ <<d, "h">> :> h, <<<<W, "d">>>>, <<W, "c">>) EXCEPT !.jobs = 2]
CpReplace == [Command("Copy", <<W, "f">> :> f @@ <<W, "g">> :> g @@ <<W, "h">> :> g, <<<<W, "f">>>>, <<W, "g">>)
                EXCEPT !.collision = "Replace", !.durable = TRUE]
MvReplace == [Command("Move", <<W, "f">> :> f @@ <<W, "g">> :> g @@ <<W, "h">> :> g, <<<<W, "f">>>>, <<W, "g">>)
                EXCEPT !.collision = "Replace"]
MvFarReplace == [Command("Move", <<W, "f">> :> f @@ <<Y, "g">> :> g, <<<<W, "f">>>>, <<Y, "g">>)
                EXCEPT !.collision = "Replace"]
\* Two operands that are names of one file with a blocking flag.
Pair(op) == [Command(op, <<W, "f">> :> f @@ <<W, "g">> :> f, <<<<W, "f">>, <<W, "g">>>>, None)
                EXCEPT !.into = <<W, "y">>, !.flagged = {f}]
\* A merge: f is new, g collides, the subdirectory e is in both.
Both(top) == (<<W, "d">> :> d) @@ (<<d, "f">> :> f) @@ (<<d, "g">> :> g) @@ (<<top, "c">> :> c) @@ (<<c, "g">> :> h)
Nested(top) == (<<W, "d">> :> d) @@ (<<d, "e">> :> e) @@ (<<e, "f">> :> f) @@ (<<d, "g">> :> f)
                 @@ (<<top, "c">> :> c) @@ (<<c, "e">> :> b)
Merge(op, top, entries, how) == [Command(op, entries, <<<<W, "d">>>>, <<top, "c">>)
                EXCEPT !.merge = TRUE, !.collision = how, !.tracks = TRUE]
Refusals == {
  Command("Move", Tree2, <<<<W, "d">>>>, <<d, "d">>),
  Command("Move", <<W, "f">> :> f, <<<<W, "f">>>>, <<W, "f">>),
  Command("Move", <<W, "f">> :> f @@ <<W, "g">> :> g, <<<<W, "f">>>>, <<W, "g">>),
  Command("Move", <<W, "f">> :> f, <<<<R, "w">>>>, <<R, "c">>),
  Command("Move", <<W, "f">> :> f, <<<<W, "y">>>>, <<W, "c">>),
  [Command("Copy", Tree2, <<<<W, "d">>, <<d, "f">>>>, None) EXCEPT !.into = <<W, "y">>],
  [Command("Copy", Tree2, <<<<d, "f">>, <<d, "f">>>>, None) EXCEPT !.into = <<W, "y">>],
  [Merge("Copy", W, Both(W), "Skip") EXCEPT !.dry = TRUE],
  [Merge("Move", W, Both(W), "Error") EXCEPT !.dry = TRUE],
  [Merge("Move", W, Both(W), "Error") EXCEPT !.cancel = TRUE],
  Command("Copy", <<W, "t">> :> <<"t">>, <<<<W, "t">>>>, <<W, "c">>),
  [MvFarFile EXCEPT !.flagged = {f}, !.locked = TRUE]}

MCSetups ==
  Refusals \cup {Hostile(r) : r \in
    {MvFarFile, MvNearFile, CpReplace, MvReplace, MvFarReplace, MvFarTree, MvFarDeep, CpTree, Pair("Copy"), Pair("Move"),
     Merge("Move", Y, Both(Y), "Skip"), Merge("Move", W, Both(W), "Replace"), [Merge("Copy", W, Nested(W), "Skip") EXCEPT !.flagged = {f}],
     Merge("Move", Y, Nested(Y), "Skip")}}
=============================================================================
