-------------------------------- MODULE FsPlan --------------------------------
(***************************************************************************)
(* The plan of one cp or mv (crates/ish-fs: policy.rs, roots.rs and the     *)
(* dry run): how the operands map to destinations, which requests are       *)
(* refused before anything changes, and what is done with each operand.     *)
(*                                                                         *)
(* The namespace is "ent", from entries <<directory, name>> to objects; an  *)
(* object is a tuple whose first component names its kind in the request,   *)
(* <<"s">> for an object of the user, <<"s", "n">> for the copy the engine  *)
(* made of it under the name n.                                             *)
(***************************************************************************)
EXTENDS Naturals, SequencesExt

CONSTANTS None

VARIABLES
  req,   \* the request, with the options and the instance's bounds
  ent,   \* the entries of all directories
  obj    \* per object: its data (or mode), version stamp, flags, and whether its data is on disk

Cwd == <<"w">>
Kind(o) == req.kind[o[1]]
IsDir(o) == Kind(o) = "Directory"
IsLeaf(o) == Kind(o) \in {"RegularFile", "Symlink"}
Exists(k) == k \in DOMAIN ent
Links(o) == Cardinality({k \in DOMAIN ent : ent[k] = o})
Names(d) == {k[2] : k \in {k \in DOMAIN ent : k[1] = d}}
Far(d) == d \in req.far

\* What fstat tells of an object; access times are not compared.
ObserveObj(o) == [id |-> o, data |-> obj[o].data, stamp |-> obj[o].stamp, links |-> Links(o)]
Observe(k) == IF Exists(k) THEN ObserveObj(ent[k]) ELSE None

\* The directory and everything above it, as ".." finds them.
RECURSIVE Chain(_)
Chain(d) == {d} \cup UNION {Chain(k[1]) : k \in {k \in DOMAIN ent : ent[k] = d}}

\* The paths of the tree below o, and the object at the end of one of them.
RECURSIVE Tree(_)
Tree(o) == {<<>>} \cup UNION {{<<n>> \o p : p \in Tree(ent[<<o, n>>])} : n \in Names(o)}
RECURSIVE Walk(_, _)
Walk(o, path) ==
  IF path = <<>> THEN o
  ELSE IF Exists(<<o, Head(path)>>) THEN Walk(ent[<<o, Head(path)>>], Tail(path)) ELSE <<>>

(***************************************************************************)
(* Operand mapping.                                                        *)
(***************************************************************************)
ExactDestination(s, d) ==
  IF Exists(d) /\ IsDir(ent[d]) /\ ~(req.merge /\ Exists(s) /\ IsDir(ent[s]))
  THEN <<ent[d], s[2]>> ELSE d

Mappings ==
  IF req.into = None
  THEN <<[src |-> req.sources[1], dst |-> ExactDestination(req.sources[1], req.target)]>>
  ELSE [i \in DOMAIN req.sources |-> [src |-> req.sources[i], dst |-> <<ent[req.into], req.sources[i][2]>>]]

\* policy::decide.
Decide(sk, dk) ==
  IF sk = dk THEN "SameEntry"
  ELSE IF ~Exists(dk) THEN "Transfer"
  ELSE LET s == ent[sk]
           d == ent[dk]
       IN  IF req.merge /\ s # d /\ IsDir(s) /\ IsDir(d) THEN "Merge"
           ELSE IF req.collision = "Skip" THEN "Skip"
           ELSE IF req.collision = "Replace" /\ s # d /\ IsLeaf(s) /\ Kind(s) = Kind(d) THEN "Replace"
           ELSE "Refused"

(***************************************************************************)
(* Requests refused as a whole.                                            *)
(***************************************************************************)
Same(m) == m.src = m.dst
SourceDir(m) == IsDir(ent[m.src])
TargetDir(m) == Exists(m.dst) /\ IsDir(ent[m.dst])

Repeated(ms) ==
  \E i, j \in DOMAIN ms : i # j /\ (ms[i].src = ms[j].src \/ ms[i].dst = ms[j].dst \/ ms[i].dst = ms[j].src)

\* validate_ancestry, for one pair of operands: every test is by identity.
Overlap(ms, i, j) ==
  LET apart == i # j \/ ~Same(ms[i])
  IN  \/ SourceDir(ms[i]) /\ TargetDir(ms[j]) /\ apart /\ ent[ms[i].src] = ent[ms[j].dst]
      \/ SourceDir(ms[j]) /\ i # j /\ ent[ms[j].src] \in Chain(ms[i].src[1]) \cup {ent[ms[i].src]}
      \/ TargetDir(ms[j]) /\ apart /\ ent[ms[j].dst] \in Chain(ms[i].src[1])
      \/ SourceDir(ms[j]) /\ apart /\ ent[ms[j].src] \in Chain(ms[i].dst[1])
      \/ TargetDir(ms[i]) /\ TargetDir(ms[j]) /\ i # j /\ ent[ms[i].dst] = ent[ms[j].dst]

ValidateAncestry(ms) == ~\E i, j \in DOMAIN ms : Overlap(ms, i, j)

\* validate_move_roots: the current directory and what is above it, home, and mount roots stay.
ValidateMoveRoots(ms) ==
  req.op = "Move" =>
    \A i \in DOMAIN ms : SourceDir(ms[i]) /\ ~Same(ms[i]) =>
      /\ ent[ms[i].src] \notin Chain(Cwd) \cup {req.home}
      /\ Far(ent[ms[i].src]) = Far(ms[i].src[1])

ValidateHardlinkDevices(plan) ==
  \A i, j \in DOMAIN plan :
    LET linked(p) == p.act \notin {"Skip", "SameEntry"} /\ IsLeaf(p.sobs.id) /\ p.sobs.links > 1
    IN  linked(plan[i]) /\ linked(plan[j]) /\ plan[i].sobs.id = plan[j].sobs.id
          => Far(plan[i].dst[1]) = Far(plan[j].dst[1])

Planned(m) ==
  [src |-> m.src, dst |-> m.dst, sobs |-> Observe(m.src), dobs |-> Observe(m.dst),
   act |-> Decide(m.src, m.dst)]

\* policy::preflight: the planned operands, or the completion of a refused request.
Preflight ==
  LET refused(c) == [completion |-> c, plan |-> <<>>]
      ms   == Mappings
      planned == [i \in DOMAIN ms |-> Planned(ms[i])]
  IN  IF req.into # None /\ ~(Exists(req.into) /\ IsDir(ent[req.into])) THEN refused("Failed")
      ELSE IF \E i \in DOMAIN ms : ~Exists(ms[i].src) THEN refused("Failed")
      ELSE IF Repeated(ms) \/ ~ValidateAncestry(ms) THEN refused("InvalidRequest")
      ELSE IF \/ ~ValidateMoveRoots(ms)
              \/ \E i \in DOMAIN planned : planned[i].act = "Refused"
              \/ ~ValidateHardlinkDevices(planned) THEN refused("Failed")
      ELSE [completion |-> "Complete", plan |-> planned]

\* dry_run::plan: a merge's children are decided one by one, a special object is not copied.
RECURSIVE Plannable(_, _)
Plannable(sk, dk) ==
  /\ ~(req.op = "Copy" /\ Kind(ent[sk]) = "Other")
  /\ Decide(sk, dk) # "Refused"
  /\ IsDir(ent[sk]) /\ Decide(sk, dk) # "Skip" =>
       \A n \in Names(ent[sk]) :
         Plannable(<<ent[sk], n>>, IF Decide(sk, dk) = "Merge" THEN <<ent[dk], n>> ELSE <<<<>>, n>>)
=============================================================================
