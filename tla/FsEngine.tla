------------------------------- MODULE FsEngine -------------------------------
(***************************************************************************)
(* One cp or mv (crates/ish-fs/src/engine/mod.rs: execute): the plan, the   *)
(* operands one after the other, hard links that span operands, cancelling, *)
(* and what is reported; together with other programs that change files     *)
(* meanwhile.                                                              *)
(***************************************************************************)
EXTENDS FsTransfer

CONSTANTS Setups    \* the requests, each with the files there are and its bounds

VARIABLES
  plan,      \* the planned operands
  at,        \* the operand at work
  members,   \* per linked source object: operands still to come
  outcomes,  \* per operand: its state, or None
  ready,     \* per operand: whether it may be reported
  told,      \* the outcomes reported, in order
  facts,     \* history: what each operand published and removed
  completion,
  acts       \* what other programs may still do

engineVars == <<plan, at, members, outcomes, ready, told, facts, completion>>
vars == <<req, fsVars, inv, cancel, pc, transferVars, ghost, engineVars, acts>>

NoInvocation == [changes |-> <<>>, group |-> <<>>, deferred |-> {}, unverified |-> FALSE, stopped |-> FALSE]
NoGhost(r) == [quiet |-> TRUE, owed |-> {r.ent[k][1] : k \in {k \in DOMAIN r.ent : r.kind[r.ent[k][1]] # "Directory"}}, gone |-> {}, pub |-> FALSE, replaced |-> {}, unrecorded |-> FALSE]

\* Every object the run can hold: the user's, the copies, and the one another program brings.
Objects(r) ==
  {<<n>> : n \in {"o"} \cup {r.ent[k][1] : k \in DOMAIN r.ent} \cup {k[1][1] : k \in DOMAIN r.ent} \cup {"t"}}
    \cup {<<r.ent[k][1], k[2]>> : k \in DOMAIN r.ent} \cup {<<"o", n>> : n \in {"o"} \cup {k[2] : k \in DOMAIN r.ent}}
Fresh(r, o) == [data |-> o[1], stamp |-> 0, flags |-> Len(o) = 1 /\ o \in r.flagged /\ r.locked, safe |-> Len(o) = 1]

Init ==
  /\ req \in Setups
  /\ ent = req.ent
  /\ obj = [o \in Objects(req) |-> Fresh(req, o)]
  /\ named = DOMAIN req.ent
  /\ inv = NoInvocation /\ cancel = 0 /\ pc = "preflight"
  /\ task = None /\ recs = <<>> /\ mg = None /\ pool = NoPool /\ left = 0 /\ result = None
  /\ ghost = NoGhost(req)
  /\ plan = <<>> /\ at = 0 /\ members = <<>> /\ outcomes = <<>> /\ ready = <<>> /\ told = <<>> /\ facts = <<>>
  /\ completion = None
  /\ acts = req.acts

(***************************************************************************)
(* execute.                                                                *)
(***************************************************************************)
Spans(p) == p.act \notin {"Skip", "SameEntry"} /\ IsLeaf(p.sobs.id) /\ p.sobs.links > 1

Plan ==
  /\ pc = "preflight"
  /\ LET found == Preflight.plan
     IN  IF Preflight.completion # "Complete"
         THEN /\ completion' = IF cancel = 2 THEN "Cancelled" ELSE Preflight.completion
              /\ pc' = "done"
              /\ UNCHANGED <<plan, at, members, outcomes, ready>>
         ELSE /\ plan' = found
              /\ members' = [o \in {found[i].sobs.id : i \in {i \in DOMAIN found : Spans(found[i])}} |->
                               Cardinality({i \in DOMAIN found : Spans(found[i]) /\ found[i].sobs.id = o})]
              /\ outcomes' = [i \in DOMAIN found |-> None]
              /\ ready' = [i \in DOMAIN found |-> FALSE]
              /\ completion' = "Complete"
              /\ at' = 1 /\ pc' = "start"
  /\ UNCHANGED <<req, fsVars, inv, cancel, transferVars, ghost, told, facts, acts>>

Operand == plan[at]
Identity == Operand.sobs.id
Remaining(o) == IF o \in DOMAIN members THEN members[o] ELSE 0
LastMember == Remaining(Identity) <= 1
Peers == {i \in 1..at : plan[i].sobs.id = Identity}

\* The outcomes are reported in order, each as soon as all before it may be; then the next operand.
Advance ==
  /\ LET n == Cardinality({i \in DOMAIN plan : \A j \in 1..i : ready'[j]})
     IN  told' = [i \in 1..n |-> IF i \in DOMAIN told THEN told[i] ELSE outcomes'[i]]
  /\ facts' = Append(facts, [pub |-> ghost.pub, gone |-> ghost.gone, unrecorded |-> ghost.unrecorded])
  /\ ghost' = [ghost EXCEPT !.pub = FALSE, !.gone = {}, !.unrecorded = FALSE]
  /\ members' = IF Identity \in DOMAIN members THEN [members EXCEPT ![Identity] = @ - 1] ELSE members
  /\ at' = at + 1
  /\ pc' = IF at < Len(plan) THEN "start" ELSE "end"
  /\ task' = None /\ recs' = <<>> /\ mg' = None /\ pool' = NoPool /\ left' = 0 /\ result' = None

\* An operand whose turn comes after the cancellation; flags still owed to its group stay owed.
Unstarted(i) ==
  IF LastMember /\ Pending(Identity) /\ outcomes[i] \in {"Copied", "Moved", "DestinationPublishedSourceRetained"}
  THEN "DestinationPartiallyPublished" ELSE outcomes[i]
CancelledOperand ==
  /\ pc = "start" /\ cancel # 0
  /\ outcomes' = [i \in DOMAIN plan |->
       IF i = at THEN "Cancelled" ELSE IF i \in Peers THEN Unstarted(i) ELSE outcomes[i]]
  /\ ready' = [i \in DOMAIN plan |->
       i = at \/ ready[i] \/ (i \in Peers /\ LastMember /\ Pending(Identity))]
  /\ Advance
  /\ UNCHANGED <<req, fsVars, inv, cancel, plan, completion, acts>>

\* execute_operand, up to the choice of what is done.
AsPlanned(k, o) == IF o = None THEN ~Exists(k) ELSE Unchanged(k, o)
Begin ==
  /\ pc = "start" /\ cancel = 0
  /\ \/ /\ Operand.act \in {"Skip", "SameEntry"} /\ Checkpoint
        /\ pc' = "outcome" /\ result' = (IF Operand.act = "Skip" THEN "Skipped" ELSE "SameEntry")
        /\ UNCHANGED <<task, mg>>
     \/ /\ Operand.act \notin {"Skip", "SameEntry"} \/ ~Checkpoint
        /\ ~Checkpoint \/ ~AsPlanned(Operand.src, Operand.sobs) \/ ~AsPlanned(Operand.dst, Operand.dobs)
        /\ pc' = "outcome" /\ result' = "FailedBeforePublication"
        /\ UNCHANGED <<task, mg>>
     \/ /\ Operand.act \notin {"Skip", "SameEntry"} /\ Checkpoint
        /\ AsPlanned(Operand.src, Operand.sobs) /\ AsPlanned(Operand.dst, Operand.dobs)
        /\ LET t == [src |-> Operand.src, dst |-> Operand.dst, sobs |-> Effective(Operand.sobs),
                     dobs |-> IF Operand.dobs = None THEN None ELSE Effective(Operand.dobs), act |-> Operand.act,
                     defer |-> Remaining(Identity) > 1 \/ Pending(Identity)]
           IN  \/ /\ req.dry
                  /\ pc' = "outcome" /\ UNCHANGED <<task, mg>>
                  /\ result' = IF Plannable(t.src, t.dst) THEN "Planned" ELSE "FailedBeforePublication"
               \/ /\ ~req.dry /\ t.act = "Merge"
                  /\ mg' = StartMerge(t) /\ pc' = "merge" /\ UNCHANGED <<task, result>>
               \/ /\ ~req.dry /\ t.act # "Merge"
                  /\ task' = t /\ pc' = Route(t.sobs.id) /\ UNCHANGED <<mg, result>>
  /\ UNCHANGED <<req, fsVars, inv, cancel, recs, pool, left, ghost, engineVars, acts>>

\* The operand's state; the last member of a linked group gives the group its flags.
Success == {"Copied", "Moved", "Skipped", "SameEntry", "Planned"}
State == IF result = "FailedBeforePublication" /\ cancel # 0 THEN "Cancelled" ELSE result
Owed(state) ==
  IF state \in {"SourcePartiallyRetired", "SourceRemovedSyncFailed"} THEN "SourcePartiallyRetired"
  ELSE "DestinationPartiallyPublished"

OperandEnds ==
  /\ pc = "outcome"
  /\ LET owed == Pending(Identity)
         last == LastMember
         fails == owed /\ last /\ ~CanFinalize(Identity)
         state(i) == IF i = at THEN State ELSE outcomes[i]
     IN  /\ outcomes' = [i \in DOMAIN plan |->
              IF fails /\ i \in Peers THEN Owed(state(i)) ELSE state(i)]
         /\ ready' = [i \in DOMAIN plan |-> ready[i] \/ (IF owed THEN last /\ i \in Peers ELSE i = at)]
         /\ completion' = IF result \in Success /\ ~fails THEN completion ELSE "Failed"
         /\ IF owed /\ last /\ ~fails THEN Finalize({Identity})
            ELSE UNCHANGED fsVars /\ inv' = [inv EXCEPT !.stopped = FALSE, !.deferred = {}]
  /\ Advance
  /\ UNCHANGED <<req, cancel, plan, acts>>

Complete ==
  /\ pc = "end"
  /\ completion' = CASE cancel = 2 -> "Cancelled" [] cancel = 1 -> "Failed" [] OTHER -> completion
  /\ pc' = "done"
  /\ UNCHANGED <<req, fsVars, inv, cancel, transferVars, ghost, plan, at, members, outcomes, ready, told, facts, acts>>

(***************************************************************************)
(* The environment.                                                        *)
(***************************************************************************)
\* Cancelling by the user, and by output that can no longer be written (emit).
CancelUser ==
  /\ pc # "done" /\ req.cancel /\ cancel = 0
  /\ cancel' = 2 /\ ghost' = [ghost EXCEPT !.quiet = FALSE]
  /\ UNCHANGED <<req, fsVars, inv, pc, transferVars, engineVars, acts>>
CancelOutput ==
  /\ pc \notin {"done", "preflight"} /\ req.cancel /\ cancel = 0
  /\ cancel' = 1 /\ inv' = [inv EXCEPT !.stopped = TRUE]
  /\ ghost' = [ghost EXCEPT !.quiet = FALSE]
  /\ UNCHANGED <<req, fsVars, pc, transferVars, engineVars, acts>>

\* Data is safe when its object is on disk, and so are its name and those of the directories above.
RECURSIVE Rooted(_, _, _)
Rooted(e, onDisk, k) ==
  /\ k \in onDisk /\ k[1] # Stage[1]
  /\ LET up == {j \in DOMAIN e : e[j] = k[1]}
     IN  up = {} \/ \E j \in up : Rooted(e, onDisk, j)
Held(e, o, onDisk, token) ==
  \E k \in DOMAIN e : o[e[k]].safe /\ o[e[k]].data = token /\ Rooted(e, onDisk, k)

Stranger == <<"o">>
Disturb(e, o, onDisk) ==
  /\ pc \notin {"preflight", "done"} /\ acts > 0
  /\ acts' = acts - 1
  /\ ent' = e /\ obj' = o /\ named' = onDisk
  /\ ghost' = [ghost EXCEPT !.quiet = FALSE,
                 !.owed = {t \in @ \cup {"edit", "o"} : Held(e, o, onDisk, t)}]
  /\ UNCHANGED <<req, inv, cancel, pc, transferVars, engineVars>>

\* Another program edits a file, removes a name, or puts a file of its own under a name, free or taken.
Visible == {k \in DOMAIN ent : IsLeaf(ent[k]) /\ k[1] \notin StageTree}
Edit(k) == Disturb(ent, [obj EXCEPT ![ent[k]].data = "edit", ![ent[k]].stamp = @ + 1], named)
Delete(k) == Disturb(Without(ent, {k}), Touch(obj, {ent[k], k[1]}), named \ {k})
Swap(k) == Disturb(With(ent, k, Stranger), Touch(obj, {k[1]}), named \cup {k})
Arrivals == {<<ent[k], "o">> : k \in {k \in DOMAIN ent : IsDir(ent[k]) /\ k[1] \notin StageTree /\ k # Stage}}
              \cup {plan[i].dst : i \in DOMAIN plan}
Arrive(k) == k \notin DOMAIN ent /\ Stranger \notin {ent[j] : j \in DOMAIN ent} /\ Swap(k)

Outsider ==
  \/ \E k \in Visible : ent[k] # Stranger /\ (Edit(k) \/ Delete(k) \/ Swap(k))
  \/ \E k \in Arrivals : Arrive(k)

Controller ==
  \/ Interrupted \/ Fault \/ CrossDevice \/ RenameTransfer \/ RenameReplace \/ RetireExchanged \/ Renamed
  \/ RenameSyncFails \/ RenameRecordFails \/ StartWhole \/ Join \/ FinalizeDirectories \/ ValidateSources
  \/ Publish \/ RetireDisplaced \/ DisplacedInterrupted \/ Published \/ SyncPublished \/ Drop
  \/ ValidateReceipt \/ RetireOne \/ RetireSyncFails \/ Retired \/ RetireEndFails
  \/ MergeOpen \/ (pc = "merge" /\ \E kid \in mg.kids : MergeChild(kid)) \/ MergeClose \/ MergeEnds \/ MergeFlags
Discovery ==
  \/ OpenDirectory \/ DiscoveryFails \/ CloseDirectory \/ DiscoveryEnds
  \/ \E n \in pool.todo : DiscoverDirectory(n) \/ DiscoverLeaf(n)
Worker ==
  \E w \in DOMAIN pool.wk :
    TakeWork(w) \/ Acquire(w) \/ CopyData(w) \/ CopyChecked(w) \/ LinkName(w) \/ LeafFault(w) \/ WorkerEnds(w)
Transfer == (Controller \/ Discovery \/ Worker) /\ UNCHANGED <<engineVars, acts>>
Engine == Plan \/ CancelledOperand \/ Begin \/ OperandEnds \/ Complete
Next == Transfer \/ Engine \/ CancelUser \/ CancelOutput \/ Outsider
Spec == Init /\ [][Next]_vars /\ WF_vars(Transfer \/ Engine)

(***************************************************************************)
(* What the command is for, on paths: the abstract result of a request.    *)
(***************************************************************************)
RECURSIVE View(_, _, _)
View(e, o, path) ==
  {<<path, o>>} \cup UNION {View(e, e[k], Append(path, k[2])) : k \in {k \in DOMAIN e : k[1] = o}}
World(e) == View(e, req.root, <<>>)
Before == World(req.ent)
PathOf(k) == Append((CHOOSE v \in Before : v[2] = k[1])[1], k[2])
At(V, path) == {v \in V : v[1] = path}
ObjAt(V, path) == (CHOOSE v \in V : v[1] = path)[2]
DirAt(V, path) == At(V, path) # {} /\ IsDir(ObjAt(V, path))

\* Which of the paths below an operand are transferred, and which directories only merged.
Merged(V, s, d, p) == req.merge /\ \A i \in 0..Len(p) : DirAt(V, s \o SubSeq(p, 1, i)) /\ DirAt(V, d \o SubSeq(p, 1, i))
Taken(V, s, d, p) ==
  \E i \in 0..Len(p) :
    /\ \A j \in 0..(i - 1) : Merged(V, s, d, SubSeq(p, 1, j))
    /\ ~Merged(V, s, d, SubSeq(p, 1, i))
    /\ At(V, d \o SubSeq(p, 1, i)) = {} \/ req.collision = "Replace"
Below(V, s) == {SubSeq(v[1], Len(s) + 1, Len(v[1])) : v \in {v \in V : IsPrefix(s, v[1])}}
Kept(V, s, d, p) ==
  \/ ~Taken(V, s, d, p) /\ ~Merged(V, s, d, p)
  \/ Merged(V, s, d, p) /\ \E q \in Below(V, s) : IsPrefix(p, q) /\ ~Taken(V, s, d, q) /\ ~Merged(V, s, d, q)
After(V, s, d) ==
  LET taken == {p \in Below(V, s) : Taken(V, s, d, p)}
  IN  {v \in V : /\ ~\E p \in taken : v[1] = d \o p
                 /\ req.op = "Move" /\ IsPrefix(s, v[1]) => Kept(V, s, d, SubSeq(v[1], Len(s) + 1, Len(v[1])))}
        \cup {<<d \o p, ObjAt(V, s \o p)>> : p \in taken}
RECURSIVE Promised(_, _)
Promised(V, i) ==
  IF i > Len(plan) THEN V
  ELSE Promised(IF plan[i].act \in {"Skip", "SameEntry"} \/ req.dry THEN V
                ELSE After(V, PathOf(plan[i].src), PathOf(plan[i].dst)), i + 1)
Bases(V) == {<<v[1], v[2][1]>> : v \in V}

(***************************************************************************)
(* Properties.                                                             *)
(***************************************************************************)
\* Whatever fails or interferes, and wherever the machine stops: every file that was there is on
\* disk under a name, unless another program destroyed it or the request let it be replaced.
NothingLost == \A t \in ghost.owed \ ghost.replaced : Held(ent, obj, named, t)

\* Every outcome tells what became of its operand, in the order of the operands.  A rename whose records
\* could not be written is excused: the code reports it as unpublished.
Honest(i) ==
  LET gone == plan[i].src \in facts[i].gone
      any  == facts[i].gone # {}
  IN  CASE told[i] = "Moved" -> gone \/ plan[i].act = "Merge"
        [] told[i] = "SourceRemovedSyncFailed" -> gone \/ plan[i].act = "Merge"
        [] told[i] = "SourcePartiallyRetired" -> facts[i].pub
        [] told[i] = "Copied" -> ~any /\ (facts[i].pub \/ plan[i].act = "Merge")
        [] told[i] = "DestinationPublishedSourceRetained" -> ~any /\ facts[i].pub
        [] told[i] = "DestinationPartiallyPublished" -> ~any
        [] OTHER -> ~any /\ ~facts[i].pub
OutcomeHonest ==
  /\ \A i \in DOMAIN told : Honest(i) \/ facts[i].unrecorded
  /\ pc = "done" /\ plan # <<>> => Len(told) = Len(plan)
  /\ pc = "done" /\ completion = "Complete" => \A i \in DOMAIN told : told[i] \in Success

\* A command that nothing disturbs does what its request promises: the tree has exactly the paths and
\* contents promised, copied names are linked as the sources were, and take their flags.  Flags below
\* a merge are excused: the code never applies them.
Arrived == {v \in World(ent) : \E i \in DOMAIN plan : plan[i].act \notin {"Skip", "SameEntry"} /\ IsPrefix(PathOf(plan[i].dst), v[1])}
Obstructed ==
  \/ req.op = "Move" /\ req.flagged # {}
  \/ req.merge /\ req.collision = "Error"
  \/ \E i \in DOMAIN plan : Kind(plan[i].sobs.id) = "Other"
ResultExact ==
  pc = "done" /\ ghost.quiet =>
    /\ plan # <<>> => completion = "Complete" \/ Obstructed
    /\ plan = <<>> \/ req.dry => World(ent) = Before
    /\ completion = "Complete" /\ ~req.dry =>
         /\ Bases(World(ent)) = Bases(Promised(Before, 1))
         /\ \A v, u \in Arrived : v[2][1] = u[2][1] => v[2] = u[2]
         /\ \A v \in Arrived : <<v[2][1]>> \in req.flagged /\ ~req.merge => obj[v[2]].flags

\* The command ends: the queue is drained, no worker waits for a file's owner that has gone, and an
\* error or a cancellation stops discovery, workers and the operands that follow.
EngineEnds == <>(pc = "done")
=============================================================================
