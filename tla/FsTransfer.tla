------------------------------ MODULE FsTransfer ------------------------------
(***************************************************************************)
(* How ish-fs transfers one object (crates/ish-fs/src/engine: transfer.rs,  *)
(* retirement.rs, records.rs, anchored.rs): renamed when the devices allow  *)
(* it, else copied into a private stage by a pool of workers, published     *)
(* under its name, synchronized, and for a move removed from the source.    *)
(* A merge does this for every child of two directories.                    *)
(*                                                                         *)
(* Directory reads, stat calls and the checks made of them are one step     *)
(* with the system call they guard: that window no program can close.       *)
(* Sessions of the quarantine journal are module Quarantine's: here they    *)
(* change the stamp of their directory and remove an entry in one step.     *)
(***************************************************************************)
EXTENDS FsPlan

CONSTANTS Queue    \* QUEUE_CAPACITY

VARIABLES
  named,   \* entries that are on disk
  inv,     \* Invocation: changes, group, deferred flags, unverified, stopped
  cancel,  \* 0, 1 for an output error, 2 for the user
  pc,      \* the controlling thread
  task,    \* the object in transfer
  recs,    \* Stage::entries: one record per transferred entry, parents first
  mg,      \* merge's locals
  pool,    \* the queue, the discovery thread and the workers of copy_tree
  left,    \* records still to retire
  result,  \* the state the operand ends with
  ghost    \* what this operand published and removed, and the data a replacement may discard

fsVars == <<ent, obj, named>>
transferVars == <<task, recs, mg, pool, left, result>>

DurableOnRequest == req.durable
Durable == req.op = "Move" \/ req.durable
Checkpoint == cancel = 0 /\ ~inv.unverified /\ ~inv.stopped

(***************************************************************************)
(* Versions.  A change the engine made itself is remembered, and an older  *)
(* observation of that object stands for the remembered one, unless the     *)
(* content differs.                                                        *)
(***************************************************************************)
Effective(o) ==
  IF o.id \notin DOMAIN inv.changes THEN o
  ELSE IF inv.changes[o.id].data = o.data THEN inv.changes[o.id] ELSE None
Unchanged(k, o) == o # None /\ Effective(o) # None /\ Observe(k) = Effective(o)
\* The same object, for a check that forgives the change time.
SameContent(k, o) == Exists(k) /\ ent[k] = o.id /\ obj[o.id].data = o.data
\* Remembers the versions that objects S have after this step.
Remember(changes, S) ==
  [o \in DOMAIN changes \cup S |->
     IF o \in S THEN [id |-> o, data |-> obj'[o].data, stamp |-> obj'[o].stamp,
                      links |-> Cardinality({k \in DOMAIN ent' : ent'[k] = o})]
     ELSE changes[o]]

(***************************************************************************)
(* System calls.                                                           *)
(***************************************************************************)
Touch(f, S) == [o \in DOMAIN f |-> IF o \in S THEN [f[o] EXCEPT !.stamp = @ + 1] ELSE f[o]]
With(f, k, o) == [e \in DOMAIN f \cup {k} |-> IF e = k THEN o ELSE f[e]]
Without(f, K) == [e \in DOMAIN f \ K |-> f[e]]
Flagged(o) == obj[o].flags

RenameNoreplace(a, b) ==
  /\ ent' = With(Without(ent, {a}), b, ent[a])
  /\ obj' = Touch(obj, {ent[a], a[1], b[1]})
  /\ named' = IF a \in named THEN (named \ {a}) \cup {b} ELSE named \ {a, b}
Exchange(a, b) ==
  /\ ent' = [ent EXCEPT ![a] = ent[b], ![b] = ent[a]]
  /\ obj' = Touch(obj, {ent[a], ent[b], a[1], b[1]})
  /\ named' = (named \ {a, b}) \cup {k \in {a, b} : (IF k = a THEN b ELSE a) \in named}
Unlink(k) ==
  /\ ent' = Without(ent, {k})
  /\ obj' = Touch(obj, {ent[k], k[1]})
  /\ named' = named \ {k}

Stage == <<<<"t">>, "stage">>
StageTree == IF Exists(Stage) THEN Chain(<<"t">>) \cup {Walk(ent[Stage], p) : p \in Tree(ent[Stage])} ELSE {<<"t">>}

(***************************************************************************)
(* Where a path of the task is, in the source, the stage, the destination. *)
(***************************************************************************)
SrcKey(p) == IF p = <<>> THEN task.src ELSE <<Walk(task.sobs.id, Front(p)), p[Len(p)]>>
StageKey(p) == IF p = <<>> THEN Stage ELSE <<Walk(ent[Stage], Front(p)), p[Len(p)]>>
DstKey(p) ==
  IF p = <<>> THEN task.dst
  ELSE <<IF Exists(task.dst) THEN Walk(ent[task.dst], Front(p)) ELSE <<>>, p[Len(p)]>>
CopyId(o, k) == <<o[1], k[2]>>

(***************************************************************************)
(* How the transfer of an object ends for the operand.                     *)
(***************************************************************************)
MergeFailure(state) ==
  IF state = "SourceRemovedSyncFailed" THEN state
  ELSE IF mg.renamed \/ state = "SourcePartiallyRetired" THEN "SourcePartiallyRetired"
  ELSE IF mg.changed \/ state \in {"DestinationPublishedSourceRetained", "DestinationPartiallyPublished"}
       THEN "DestinationPartiallyPublished"
  ELSE state
\* In a merge, a child that was removed without sync is a part of the source that went.
Ended(state) ==
  IF mg = None THEN state
  ELSE MergeFailure(IF pc = "renamed" /\ state = "SourceRemovedSyncFailed" THEN "SourcePartiallyRetired" ELSE state)
Fail(state) == pc' = "drop" /\ result' = Ended(state)

Group(o) == IF o \in DOMAIN inv.group THEN inv.group[o] ELSE None
Pending(o) == Group(o) # None /\ Group(o).flags

\* rename_preserves_hardlinks: a renamed name must not leave the group that was copied.
CopiedGroup(o) == Group(o) # None /\ Group(o).pub # o
RenamePreserves(o) ==
  IF IsDir(o) THEN \A p \in Tree(o) : ~CopiedGroup(Walk(o, p)) ELSE ~CopiedGroup(o)

\* Where an object's transfer begins: execute_operand and merge choose alike.
Route(o) == IF req.op = "Move" /\ RenamePreserves(o) THEN "rename" ELSE "whole"

\* retire's failure: what was already removed decides.
Removed == Len(recs) - left
RetireStateRetained == "DestinationPublishedSourceRetained"
RetireState == IF Removed = 0 THEN "DestinationPublishedSourceRetained" ELSE "SourcePartiallyRetired"

FailState ==
  CASE pc \in {"published", "sync", "retire", "displaced"} -> "DestinationPublishedSourceRetained"
    [] pc = "retiring" -> RetireState
    [] pc \in {"exchanged", "renamed"} -> "SourcePartiallyRetired"
    [] OTHER -> "FailedBeforePublication"

\* A check of cancellation, or any system call, fails at a step of the controlling thread.
CheckedPcs == {"rename", "whole", "finaldirs", "validate", "publish", "merge", "retire", "retiring"}
Interrupted ==
  /\ pc \in CheckedPcs /\ ~Checkpoint /\ ~(pc = "retiring" /\ left = 0)
  /\ Fail(FailState)
  /\ UNCHANGED <<req, fsVars, inv, cancel, task, recs, mg, pool, left, ghost>>
FaultPcs == {"rename", "exchanged", "renamed", "whole", "finaldirs", "validate", "publish", "published",
             "displaced", "sync", "merge", "retire", "retiring"}
Fault ==
  /\ pc \in FaultPcs /\ req.faults /\ ~(pc = "retiring" /\ left = 0)
  /\ Fail(FailState)
  /\ inv' = [inv EXCEPT !.unverified = @ \/ (pc = "renamed" /\ IsDir(task.sobs.id) /\ req.tracks)]
  /\ ghost' = [ghost EXCEPT !.quiet = FALSE]
  /\ UNCHANGED <<req, fsVars, cancel, task, recs, mg, pool, left>>

(***************************************************************************)
(* rename_object.                                                          *)
(***************************************************************************)
Gone(k) == [ghost EXCEPT !.gone = @ \cup {k}, !.pub = TRUE]

\* EXDEV falls through to the copy.
CrossDevice ==
  /\ pc = "rename" /\ Checkpoint
  /\ Far(task.src[1]) # Far(task.dst[1])
  /\ pc' = "whole"
  /\ UNCHANGED <<req, fsVars, inv, cancel, task, recs, mg, pool, left, result, ghost>>

RenameTransfer ==
  /\ pc = "rename" /\ Checkpoint /\ task.act = "Transfer"
  /\ Far(task.src[1]) = Far(task.dst[1])
  /\ IF Unchanged(task.src, task.sobs) /\ ~Exists(task.dst) /\ ~Flagged(task.sobs.id)
     THEN /\ RenameNoreplace(task.src, task.dst)
          /\ ghost' = Gone(task.src)
          /\ pc' = "renamed"
          /\ UNCHANGED result
     ELSE Fail("FailedBeforePublication") /\ UNCHANGED <<fsVars, ghost>>
  /\ UNCHANGED <<req, inv, cancel, task, recs, mg, pool, left>>

\* replace_by_exchange: an unobserved destination is exchanged back.
RenameReplace ==
  /\ pc = "rename" /\ Checkpoint /\ task.act = "Replace"
  /\ Far(task.src[1]) = Far(task.dst[1])
  /\ IF Unchanged(task.src, task.sobs) /\ Exists(task.dst) /\ ent[task.dst] = task.dobs.id
        /\ obj[task.dobs.id].data = task.dobs.data
     THEN /\ Exchange(task.src, task.dst)
          /\ ghost' = [ghost EXCEPT !.pub = TRUE, !.replaced = @ \cup {task.dobs.data}]
          /\ inv' = [inv EXCEPT !.changes =
                Remember(@, {o \in {task.sobs.id, task.dobs.id} : Links(o) > 1})]
          /\ pc' = "exchanged"
          /\ UNCHANGED result
     ELSE Fail("FailedBeforePublication") /\ UNCHANGED <<fsVars, ghost, inv>>
  /\ UNCHANGED <<req, cancel, task, recs, mg, pool, left>>

\* The displaced object leaves the source's name through the journal.
RetireExchanged ==
  /\ pc = "exchanged"
  /\ IF Checkpoint /\ SameContent(task.src, task.dobs)
     THEN /\ Unlink(task.src)
          /\ ghost' = Gone(task.src)
          /\ inv' = [inv EXCEPT !.changes = Remember(@, {o \in {task.dobs.id} : Links(o) > 1})]
          /\ pc' = "renamed"
          /\ UNCHANGED result
     ELSE Fail("SourcePartiallyRetired") /\ UNCHANGED <<fsVars, ghost, inv>>
  /\ UNCHANGED <<req, cancel, task, recs, mg, pool, left>>

GroupRecord(o, k, flags) == [obs |-> o, pub |-> o.id, out |-> o, key |-> k, flags |-> flags]

\* What rename_object records once the object has its new name.
Renamed ==
  /\ pc = "renamed" /\ UNCHANGED fsVars
  /\ IF SameContent(task.dst, task.sobs)
     THEN LET o == task.sobs.id
              linked == IsLeaf(o) /\ Links(o) > 1
              seen == (IF linked THEN {o} ELSE {})
                        \cup (IF mg # None THEN {task.src[1], task.dst[1]} ELSE {})
          IN  /\ inv' = [inv EXCEPT
                   !.changes = Remember(@, seen),
                   !.group = IF linked THEN With(@, o, GroupRecord(ObserveObj(o), task.dst, FALSE)) ELSE @]
              /\ IF mg = None THEN pc' = "outcome" /\ result' = "Moved" /\ UNCHANGED mg
                 ELSE /\ pc' = "merge" /\ UNCHANGED result
                      /\ mg' = [mg EXCEPT !.changed = TRUE, !.renamed = TRUE]
     ELSE Fail("SourcePartiallyRetired") /\ UNCHANGED <<inv, mg>>
  /\ UNCHANGED <<req, cancel, task, recs, pool, left, ghost>>

\* --durable: both parents are synchronized after the rename.
RenameSyncFails ==
  /\ pc = "renamed" /\ req.faults /\ req.durable
  /\ SameContent(task.dst, task.sobs)
  /\ Fail("SourceRemovedSyncFailed")
  /\ ghost' = [ghost EXCEPT !.quiet = FALSE]
  /\ UNCHANGED <<req, fsVars, inv, cancel, task, recs, mg, pool, left>>

\* The records of a renamed hard link are written with a plain "?": the error says nothing was published.
RenameRecordFails ==
  /\ pc = "renamed" /\ req.faults
  /\ SameContent(task.dst, task.sobs) /\ IsLeaf(task.sobs.id) /\ Links(task.sobs.id) > 1
  /\ Fail("FailedBeforePublication")
  /\ ghost' = [ghost EXCEPT !.quiet = FALSE, !.unrecorded = TRUE]
  /\ UNCHANGED <<req, fsVars, inv, cancel, task, recs, mg, pool, left>>

(***************************************************************************)
(* whole: the stage, and the tree copied into it.                          *)
(***************************************************************************)
NoPool == [queue |-> <<>>, dir |-> None, todo |-> {}, next |-> 1, open |-> FALSE, wk |-> <<>>,
           active |-> {}, failed |-> FALSE]
Idle == [at |-> "idle", path |-> <<>>, obs |-> None]
Record(p, o, pub, out, flags) == [path |-> p, obs |-> o, pub |-> pub, out |-> out, flags |-> flags]

StartWhole ==
  /\ pc = "whole" /\ Checkpoint
  /\ LET o == task.sobs.id
         tree == IsDir(o)
         copy == CopyId(o, task.src)
     IN  IF Kind(o) = "Other" THEN Fail("FailedBeforePublication") /\ UNCHANGED <<fsVars, recs, pool>>
         ELSE /\ ent' = IF tree THEN With(ent, Stage, copy) ELSE ent
              /\ obj' = [Touch(obj, {task.dst[1]}) EXCEPT
                           ![copy] = IF tree THEN [@ EXCEPT !.data = obj[o].data, !.safe = TRUE] ELSE @]
              /\ recs' = IF tree THEN <<Record(<<>>, task.sobs, copy, None, FALSE)>> ELSE <<>>
              /\ pool' = [NoPool EXCEPT
                   !.open = tree,
                   !.queue = IF tree THEN <<>> ELSE <<[path |-> <<>>, obs |-> task.sobs]>>,
                   !.wk = [w \in 1..(IF tree THEN req.jobs ELSE 1) |-> Idle]]
              /\ pc' = "tree"
              /\ UNCHANGED <<named, result>>
  /\ UNCHANGED <<req, inv, cancel, task, mg, left, ghost>>

\* --- the discovery thread
Dirs == SelectSeq(recs, LAMBDA r : IsDir(r.obs.id))
StopDiscovery == pool' = [pool EXCEPT !.open = FALSE, !.failed = TRUE, !.todo = {}, !.dir = None]
                   /\ inv' = [inv EXCEPT !.stopped = TRUE]

OpenDirectory ==
  /\ pc = "tree" /\ pool.open /\ pool.dir = None /\ pool.next <= Len(Dirs)
  /\ LET r == Dirs[pool.next]
     IN  IF Checkpoint /\ Unchanged(SrcKey(r.path), r.obs)
         THEN pool' = [pool EXCEPT !.dir = r, !.todo = Names(r.obs.id)] /\ UNCHANGED inv
         ELSE StopDiscovery
  /\ UNCHANGED <<req, fsVars, cancel, pc, task, recs, mg, left, result, ghost>>

DiscoverDirectory(n) ==
  /\ pc = "tree" /\ pool.dir # None /\ n \in pool.todo /\ Checkpoint
  /\ LET k == <<pool.dir.obs.id, n>>
         p == Append(pool.dir.path, n)
         c == CopyId(ent[k], k)
     IN  /\ Exists(k) /\ IsDir(ent[k])
         /\ ent' = With(ent, <<pool.dir.pub, n>>, c)
         /\ obj' = [Touch(obj, {pool.dir.pub}) EXCEPT ![c].data = obj[ent[k]].data, ![c].safe = TRUE]
         /\ recs' = Append(recs, Record(p, Observe(k), c, None, FALSE))
  /\ pool' = [pool EXCEPT !.todo = @ \ {n}]
  /\ UNCHANGED <<req, named, inv, cancel, pc, task, mg, left, result, ghost>>

\* enqueue waits, by polling, while the queue is full.
DiscoverLeaf(n) ==
  /\ pc = "tree" /\ pool.dir # None /\ n \in pool.todo /\ Checkpoint
  /\ Len(pool.queue) < Queue
  /\ LET k == <<pool.dir.obs.id, n>>
     IN  /\ Exists(k) /\ ~IsDir(ent[k])
         /\ pool' = [pool EXCEPT !.todo = @ \ {n},
                       !.queue = Append(@, [path |-> Append(pool.dir.path, n), obs |-> Observe(k)])]
  /\ UNCHANGED <<req, fsVars, inv, cancel, pc, task, recs, mg, left, result, ghost>>

DiscoveryFails ==
  /\ pc = "tree" /\ pool.dir # None
  /\ ~Checkpoint \/ \E n \in pool.todo : ~Exists(<<pool.dir.obs.id, n>>)
  /\ StopDiscovery
  /\ UNCHANGED <<req, fsVars, cancel, pc, task, recs, mg, left, result, ghost>>

CloseDirectory ==
  /\ pc = "tree" /\ pool.dir # None /\ pool.todo = {} /\ Checkpoint
  /\ IF Unchanged(SrcKey(pool.dir.path), pool.dir.obs)
     THEN pool' = [pool EXCEPT !.dir = None, !.next = @ + 1] /\ UNCHANGED inv
     ELSE StopDiscovery
  /\ UNCHANGED <<req, fsVars, cancel, pc, task, recs, mg, left, result, ghost>>

DiscoveryEnds ==
  /\ pc = "tree" /\ pool.open /\ pool.dir = None /\ pool.next > Len(Dirs)
  /\ pool' = [pool EXCEPT !.open = FALSE]
  /\ UNCHANGED <<req, fsVars, inv, cancel, pc, task, recs, mg, left, result, ghost>>

\* --- the workers: transfer_leaf
Work(w) == pool.wk[w]
Leaf(w) == Work(w).obs.id

TakeWorkWhileRunning(w) ==
  /\ pc = "tree" /\ Work(w).at = "idle" /\ pool.queue # <<>> /\ Checkpoint
  /\ pool' = [pool EXCEPT !.queue = Tail(@),
                !.wk[w] = [at |-> "opened", path |-> Head(pool.queue).path, obs |-> Head(pool.queue).obs]]
  /\ UNCHANGED <<req, fsVars, inv, cancel, pc, task, recs, mg, left, result, ghost>>

\* The queue is drained without work once the transfer stops.
TakeWork(w) ==
  /\ pc = "tree" /\ Work(w).at = "idle" /\ pool.queue # <<>>
  /\ pool' = [pool EXCEPT !.queue = Tail(@),
                !.wk[w] = IF Checkpoint THEN [at |-> "opened", path |-> Head(pool.queue).path, obs |-> Head(pool.queue).obs]
                          ELSE Idle]
  /\ UNCHANGED <<req, fsVars, inv, cancel, pc, task, recs, mg, left, result, ghost>>

WorkFails(w, clean) ==
  /\ ent' = Without(ent, clean)
  /\ pool' = [pool EXCEPT !.wk[w] = Idle, !.failed = TRUE,
                !.active = IF Work(w).at = "opened" THEN @ ELSE @ \ {Leaf(w)}]
  /\ inv' = [inv EXCEPT !.stopped = TRUE]
  /\ UNCHANGED <<obj, named, recs>>

AcquireShared(w) ==
  /\ pc = "tree" /\ Work(w).at = "opened"
  /\ IF Checkpoint /\ Unchanged(SrcKey(Work(w).path), Work(w).obs) /\ IsLeaf(Leaf(w))
     THEN /\ pool' = [pool EXCEPT !.wk[w].at = "owner", !.active = @ \cup {Leaf(w)}]
          /\ UNCHANGED <<fsVars, inv, recs>>
     ELSE WorkFails(w, {})
  /\ UNCHANGED <<req, cancel, pc, task, mg, left, result, ghost>>

\* HardlinkWork::acquire: one worker at a time for the names of one object.
Acquire(w) ==
  /\ pc = "tree" /\ Work(w).at = "opened"
  /\ IF Checkpoint /\ Unchanged(SrcKey(Work(w).path), Work(w).obs) /\ IsLeaf(Leaf(w))
     THEN /\ Leaf(w) \notin pool.active
          /\ pool' = [pool EXCEPT !.wk[w].at = "owner", !.active = @ \cup {Leaf(w)}]
          /\ UNCHANGED <<fsVars, inv, recs>>
     ELSE WorkFails(w, {})
  /\ UNCHANGED <<req, cancel, pc, task, mg, left, result, ghost>>

\* The first name of an object: its data is read from the open file.
CopyData(w) ==
  /\ pc = "tree" /\ Work(w).at = "owner" /\ Group(Leaf(w)) = None
  /\ IF Checkpoint
     THEN LET k == StageKey(Work(w).path)
              c == CopyId(Leaf(w), SrcKey(Work(w).path))
          IN  /\ ent' = With(ent, k, c)
              /\ obj' = [Touch(obj, {k[1]}) EXCEPT ![c].data = obj[Leaf(w)].data]
              /\ pool' = [pool EXCEPT !.wk[w].at = "copied"]
              /\ UNCHANGED <<named, inv, recs>>
     ELSE WorkFails(w, {})
  /\ UNCHANGED <<req, cancel, pc, task, mg, left, result, ghost>>

\* The source is checked again after the copy; only then the copy is recorded.
CopyChecked(w) ==
  /\ pc = "tree" /\ Work(w).at = "copied"
  /\ LET p == Work(w).path
         k == StageKey(p)
         c == ent[k]
     IN  IF Checkpoint /\ Unchanged(SrcKey(p), Work(w).obs)
         THEN LET flags == Leaf(w) \in req.flagged
                  r == Record(p, Work(w).obs, c, [ObserveObj(c) EXCEPT !.stamp = @ + 1], flags)
              IN  /\ obj' = [obj EXCEPT ![c].stamp = @ + 1, ![c].safe = Durable]
                  /\ recs' = Append(recs, r)
                  /\ inv' = [inv EXCEPT !.group =
                       IF Work(w).obs.links > 1
                       THEN With(@, Leaf(w), [obs |-> r.obs, pub |-> c, out |-> r.out, key |-> k, flags |-> flags]) ELSE @]
                  /\ pool' = [pool EXCEPT !.wk[w] = Idle, !.active = @ \ {Leaf(w)}]
                  /\ UNCHANGED <<ent, named>>
         ELSE WorkFails(w, {k})
  /\ UNCHANGED <<req, cancel, pc, task, mg, left, result, ghost>>

\* A further name of an object is linked to the copy of the first.
LinkName(w) ==
  /\ pc = "tree" /\ Work(w).at = "owner" /\ Group(Leaf(w)) # None
  /\ LET g == Group(Leaf(w))
         k == StageKey(Work(w).path)
     IN  IF /\ Effective(g.obs) = Work(w).obs /\ Unchanged(g.key, g.out) /\ ~Flagged(g.pub)
            /\ Unchanged(SrcKey(Work(w).path), Work(w).obs)
         THEN LET out == [Effective(g.out) EXCEPT !.stamp = @ + 1, !.links = @ + 1]
              IN  /\ ent' = With(ent, k, g.pub)
                  /\ obj' = Touch(obj, {g.pub, k[1]})
                  /\ recs' = Append(recs, Record(Work(w).path, Work(w).obs, g.pub, out, FALSE))
                  /\ inv' = [inv EXCEPT !.changes = Remember(@, {g.pub}), !.group[Leaf(w)].out = out]
                  /\ pool' = [pool EXCEPT !.wk[w] = Idle, !.active = @ \ {Leaf(w)}]
                  /\ UNCHANGED named
         ELSE WorkFails(w, {})
  /\ UNCHANGED <<req, cancel, pc, task, mg, left, result, ghost>>

LeafFault(w) ==
  /\ pc = "tree" /\ Work(w).at \in {"owner", "copied"} /\ req.faults
  /\ WorkFails(w, IF Work(w).at = "copied" THEN {StageKey(Work(w).path)} ELSE {})
  /\ ghost' = [ghost EXCEPT !.quiet = FALSE]
  /\ UNCHANGED <<req, cancel, pc, task, mg, left, result>>

WorkerEnds(w) ==
  /\ pc = "tree" /\ Work(w).at = "idle" /\ pool.queue = <<>> /\ ~pool.open
  /\ pool' = [pool EXCEPT !.wk[w].at = "ended"]
  /\ UNCHANGED <<req, fsVars, inv, cancel, pc, task, recs, mg, left, result, ghost>>

Join ==
  /\ pc = "tree" /\ \A w \in DOMAIN pool.wk : Work(w).at = "ended"
  /\ IF pool.failed \/ ~Checkpoint THEN Fail("FailedBeforePublication")
     ELSE pc' = "finaldirs" /\ UNCHANGED result
  /\ pool' = NoPool
  /\ UNCHANGED <<req, fsVars, inv, cancel, task, recs, mg, left, ghost>>

\* finalize_directories: children first, metadata and sync, and the version each ends with.
FinalizeDirectories ==
  /\ pc = "finaldirs" /\ Checkpoint
  /\ LET dirs == {i \in DOMAIN recs : IsDir(recs[i].obs.id)}
     IN  IF \A i \in dirs : Unchanged(SrcKey(recs[i].path), recs[i].obs)
         THEN /\ obj' = Touch(obj, {recs[i].pub : i \in dirs})
              /\ recs' = [i \in DOMAIN recs |->
                            IF i \in dirs
                            THEN [recs[i] EXCEPT !.out = [ObserveObj(recs[i].pub) EXCEPT !.stamp = @ + 1]]
                            ELSE recs[i]]
              /\ named' = IF Durable THEN named \cup {k \in DOMAIN ent : \E i \in dirs : k[1] = recs[i].pub} ELSE named
              /\ pc' = "validate"
              /\ UNCHANGED <<ent, result>>
         ELSE Fail("FailedBeforePublication") /\ UNCHANGED <<fsVars, recs>>
  /\ UNCHANGED <<req, inv, cancel, task, mg, pool, left, ghost>>

\* validate_sources: everything that was copied is still as it was observed.
ValidateSources ==
  /\ pc = "validate" /\ Checkpoint
  /\ IF \A i \in DOMAIN recs : Unchanged(SrcKey(recs[i].path), recs[i].obs)
     THEN pc' = "publish" /\ UNCHANGED result
     ELSE Fail("FailedBeforePublication")
  /\ UNCHANGED <<req, fsVars, inv, cancel, task, recs, mg, pool, left, ghost>>

Publish ==
  /\ pc = "publish" /\ Checkpoint
  /\ \/ /\ task.act = "Transfer" /\ ~Exists(task.dst)
        /\ RenameNoreplace(Stage, task.dst)
        /\ ghost' = [ghost EXCEPT !.pub = TRUE]
        /\ pc' = "published" /\ UNCHANGED result
     \/ /\ task.act = "Replace" /\ SameContent(task.dst, task.dobs)
        /\ Exchange(Stage, task.dst)
        /\ ghost' = [ghost EXCEPT !.pub = TRUE, !.replaced = @ \cup {task.dobs.data}]
        /\ pc' = "displaced" /\ UNCHANGED result
     \/ /\ IF task.act = "Transfer" THEN Exists(task.dst) ELSE ~SameContent(task.dst, task.dobs)
        /\ Fail("FailedBeforePublication") /\ UNCHANGED <<fsVars, ghost>>
  /\ UNCHANGED <<req, inv, cancel, task, recs, mg, pool, left>>

\* retire_displaced: the replaced object leaves the stage; its other names keep their version known.
RetireDisplaced ==
  /\ pc = "displaced" /\ Checkpoint
  /\ Unlink(Stage)
  /\ inv' = [inv EXCEPT !.changes = Remember(@, {o \in {task.dobs.id} : Links(o) > 1})]
  /\ pc' = "published"
  /\ UNCHANGED <<req, cancel, task, recs, mg, pool, left, result, ghost>>
DisplacedInterrupted ==
  /\ pc = "displaced" /\ ~Checkpoint
  /\ Fail("DestinationPublishedSourceRetained")
  /\ UNCHANGED <<req, fsVars, inv, cancel, task, recs, mg, pool, left, ghost>>

\* The published object is verified, a directory's metadata applied, blocking flags set unless deferred.
OwnFlags == IF task.defer THEN {} ELSE {recs[i].pub : i \in {i \in DOMAIN recs : recs[i].flags}}
RootOut == (CHOOSE i \in DOMAIN recs : recs[i].path = <<>>)
Published ==
  /\ pc = "published"
  /\ LET root == recs[RootOut]
         tree == IsDir(root.obs.id)
         final == OwnFlags
         known == {root.pub} \cup final
     IN  IF /\ SameContent(task.dst, [id |-> root.pub, data |-> root.out.data])
            /\ tree => Unchanged(task.src, task.sobs)
            /\ Checkpoint \/ final = {}
            /\ \A i \in DOMAIN recs : recs[i].pub \in final \ {root.pub} => Unchanged(DstKey(recs[i].path), recs[i].out)
         THEN /\ obj' = [o \in DOMAIN obj |-> [obj[o] EXCEPT !.stamp = IF o \in final \/ (tree /\ o = root.pub) THEN @ + 1 ELSE @,
                                                            !.flags = @ \/ o \in final]]
              /\ UNCHANGED <<ent, named>>
              /\ inv' = [inv EXCEPT !.changes = Remember(@, known)]
              /\ recs' = [i \in DOMAIN recs |->
                            IF recs[i].pub \in known THEN [recs[i] EXCEPT !.out = inv'.changes[recs[i].pub]] ELSE recs[i]]
              /\ pc' = "sync" /\ UNCHANGED result
         ELSE Fail("DestinationPublishedSourceRetained") /\ UNCHANGED <<fsVars, inv, recs>>
  /\ UNCHANGED <<req, cancel, task, mg, pool, left, ghost>>

\* The destination's parent is synchronized, the groups learn where their names are, the session ends.
RefreshHardlinks(group) ==
  [o \in DOMAIN group |->
     IF \E i \in DOMAIN recs : recs[i].obs.id = o
     THEN LET r == recs[CHOOSE i \in DOMAIN recs : recs[i].obs.id = o /\ \A j \in DOMAIN recs : recs[j].obs.id = o => j <= i]
          IN  [group[o] EXCEPT !.key = DstKey(r.path), !.pub = r.pub, !.obs = r.obs, !.out = Effective(@)]
     ELSE group[o]]

SyncPublished ==
  /\ pc = "sync" /\ UNCHANGED ent
  /\ obj' = Touch(obj, {task.dst[1]})
  /\ named' = IF Durable THEN named \cup {task.dst} ELSE named
  /\ LET parent == IF mg # None THEN {task.dst[1]} ELSE {}
     IN  inv' = [inv EXCEPT !.group = RefreshHardlinks(@),
                   !.changes = Remember(@, parent),
                   !.deferred = IF task.defer THEN @ \cup {recs[i].obs.id : i \in {i \in DOMAIN recs : recs[i].flags}} ELSE @]
  /\ IF mg # None
     THEN /\ mg' = [mg EXCEPT !.changed = TRUE,
                      !.recs = IF req.op = "Move"
                               THEN @ \o [i \in DOMAIN recs |-> [recs[i] EXCEPT !.path = Append(mg.at.path, task.src[2]) \o @]]
                               ELSE @]
          /\ pc' = "merge" /\ UNCHANGED <<left, result>>
     ELSE /\ UNCHANGED mg
          /\ \/ req.op = "Copy" /\ pc' = "outcome" /\ result' = "Copied" /\ UNCHANGED left
             \/ /\ req.op = "Move" /\ Group(task.sobs.id) # None /\ Group(task.sobs.id).flags
                /\ pc' = "outcome" /\ result' = "DestinationPublishedSourceRetained" /\ UNCHANGED left
             \/ /\ req.op = "Move" /\ ~Pending(task.sobs.id)
                /\ pc' = "retire" /\ left' = Len(recs) /\ UNCHANGED result
  /\ UNCHANGED <<req, cancel, task, recs, pool, ghost>>

\* Stage::drop and the sessions' ends: what was staged and not published goes.
Drop ==
  /\ pc = "drop"
  /\ IF Exists(Stage) /\ Kind(ent[Stage]) # "Other" /\ ent[Stage] \in {recs[i].pub : i \in DOMAIN recs}
     THEN /\ ent' = Without(ent, {k \in DOMAIN ent : k[1] \in StageTree})
          /\ UNCHANGED <<obj, named>>
     ELSE UNCHANGED fsVars
  /\ pc' = IF mg = None THEN "outcome" ELSE "flags"
  /\ pool' = NoPool
  /\ UNCHANGED <<req, inv, cancel, task, recs, mg, left, result, ghost>>

(***************************************************************************)
(* retirement::retire: the source's records, children before parents.      *)
(***************************************************************************)
DestinationUnchanged(r) == Unchanged(DstKey(r.path), r.out)

ValidateReceipt ==
  /\ pc = "retire" /\ Checkpoint
  /\ IF \A i \in DOMAIN recs : DestinationUnchanged(recs[i]) /\ Unchanged(SrcKey(recs[i].path), recs[i].obs)
     THEN pc' = "retiring" /\ UNCHANGED result
     ELSE Fail("DestinationPublishedSourceRetained")
  /\ UNCHANGED <<req, fsVars, inv, cancel, task, recs, mg, pool, left, ghost>>

\* The observation of a directory of the source still stands.
Stands(r) == Effective(r.obs) # None /\ ObserveObj(r.obs.id) = Effective(r.obs)
\* One record: source, its parent and the copy as they were, then the removal through the journal.
CanRetire(r) ==
  LET k == SrcKey(r.path)
      all == IF mg = None THEN recs ELSE mg.recs
  IN  /\ Unchanged(k, r.obs)
      /\ r.path # <<>> => \E i \in DOMAIN all : all[i].path = Front(r.path) /\ Stands(all[i])
      /\ DestinationUnchanged(r)
      /\ ~obj[r.obs.id].flags
      /\ IsDir(r.obs.id) => Names(r.obs.id) = {}

RetireOne ==
  /\ pc = "retiring" /\ left > 0 /\ Checkpoint
  /\ LET r == recs[left]
         k == SrcKey(r.path)
     IN  IF CanRetire(r)
         THEN /\ Unlink(k)
              /\ inv' = [inv EXCEPT !.changes =
                   Remember(@, {k[1]} \cup (IF r.obs.links > 1 THEN {r.obs.id} ELSE {}))]
              /\ ghost' = Gone(k)
              /\ left' = left - 1
              /\ UNCHANGED <<pc, result>>
         ELSE Fail(RetireState) /\ UNCHANGED <<fsVars, inv, left, ghost>>
  /\ UNCHANGED <<req, cancel, task, recs, mg, pool>>

\* The entry is gone and its parent's synchronization fails.
RetireSyncFails ==
  /\ pc = "retiring" /\ left > 0 /\ Checkpoint /\ req.faults
  /\ LET r == recs[left]
         k == SrcKey(r.path)
     IN  /\ CanRetire(r)
         /\ Unlink(k)
         /\ ghost' = [Gone(k) EXCEPT !.quiet = FALSE]
         /\ Fail(IF r.path = <<>> THEN "SourceRemovedSyncFailed" ELSE "SourcePartiallyRetired")
  /\ UNCHANGED <<req, inv, cancel, task, recs, mg, pool, left>>

Retired ==
  /\ pc = "retiring" /\ left = 0
  /\ pc' = "outcome" /\ result' = "Moved"
  /\ UNCHANGED <<req, fsVars, inv, cancel, task, recs, mg, pool, left, ghost>>

\* The journal's session cannot be ended.
RetireEndFails ==
  /\ pc = "retiring" /\ left = 0 /\ req.faults
  /\ Fail("SourceRemovedSyncFailed")
  /\ ghost' = [ghost EXCEPT !.quiet = FALSE]
  /\ UNCHANGED <<req, fsVars, inv, cancel, task, recs, mg, pool, left>>

(***************************************************************************)
(* merge.                                                                  *)
(***************************************************************************)
StartMerge(t) ==
  [src |-> t.src, dst |-> t.dst, sobs |-> t.sobs, dobs |-> t.dobs,
   pend |-> <<Record(<<>>, t.sobs, t.dobs.id, t.dobs, FALSE)>>,
   recs |-> <<Record(<<>>, t.sobs, t.dobs.id, t.dobs, FALSE)>>,
   at |-> None, kids |-> {}, skipped |-> {}, changed |-> FALSE, renamed |-> FALSE]

MergeOpen ==
  /\ pc = "merge" /\ Checkpoint /\ mg.at = None /\ mg.pend # <<>>
  /\ LET r == Head(mg.pend)
     IN  IF Stands(r)
         THEN /\ mg' = [mg EXCEPT !.at = r, !.pend = Tail(@),
                          !.kids = {[name |-> n, obs |-> Observe(<<r.obs.id, n>>)] : n \in Names(r.obs.id)}]
              /\ UNCHANGED <<pc, result>>
         ELSE Fail("FailedBeforePublication") /\ UNCHANGED mg
  /\ UNCHANGED <<req, fsVars, inv, cancel, task, recs, pool, left, ghost>>

MergeChild(kid) ==
  /\ pc = "merge" /\ Checkpoint /\ mg.at # None /\ kid \in mg.kids
  /\ LET sk == <<mg.at.obs.id, kid.name>>
         dk == <<mg.at.pub, kid.name>>
         p  == Append(mg.at.path, kid.name)
         act == IF Stands(mg.at) /\ Unchanged(sk, kid.obs) THEN Decide(sk, dk) ELSE "Refused"
         r  == Record(p, Effective(kid.obs), IF Exists(dk) THEN ent[dk] ELSE <<>>, Observe(dk), FALSE)
         parent == Effective(mg.at.out) # None /\ ObserveObj(mg.at.pub) = Effective(mg.at.out)
     IN  \/ /\ act = "Skip"
            /\ mg' = [mg EXCEPT !.kids = @ \ {kid}, !.skipped = @ \cup {SubSeq(p, 1, i) : i \in 0..(Len(p) - 1)}]
            /\ UNCHANGED <<task, pc, result>>
         \/ /\ act = "Merge"
            /\ mg' = [mg EXCEPT !.kids = @ \ {kid}, !.recs = Append(@, r), !.pend = Append(@, r)]
            /\ UNCHANGED <<task, pc, result>>
         \/ /\ act \in {"Transfer", "Replace"} /\ parent
            /\ mg' = [mg EXCEPT !.kids = @ \ {kid}]
            /\ task' = [src |-> sk, dst |-> dk, sobs |-> Effective(kid.obs), dobs |-> Observe(dk), act |-> act, defer |-> TRUE]
            /\ pc' = Route(kid.obs.id)
            /\ UNCHANGED result
         \/ /\ act = "Refused" \/ (act \in {"Transfer", "Replace"} /\ ~parent)
            /\ Fail("FailedBeforePublication")
            /\ UNCHANGED <<task, mg>>
  /\ UNCHANGED <<req, fsVars, inv, cancel, recs, pool, left, ghost>>

MergeClose ==
  /\ pc = "merge" /\ Checkpoint /\ mg.at # None /\ mg.kids = {}
  /\ IF Stands(mg.at) THEN mg' = [mg EXCEPT !.at = None] /\ UNCHANGED <<pc, result>>
     ELSE Fail("FailedBeforePublication") /\ UNCHANGED mg
  /\ UNCHANGED <<req, fsVars, inv, cancel, task, recs, pool, left, ghost>>

MergeEnds ==
  /\ pc = "merge" /\ Checkpoint /\ mg.at = None /\ mg.pend = <<>>
  /\ pc' = "flags" /\ result' = "Merged"
  /\ UNCHANGED <<req, fsVars, inv, cancel, task, recs, mg, pool, left, ghost>>

\* finalize_hardlink_group: the representative is as recorded, then it takes the group's flags.
CanFinalize(o) == Checkpoint /\ Unchanged(Group(o).key, Group(o).out)
Finalize(S) ==
  LET reps == {Group(o).pub : o \in S}
  IN  /\ obj' = [o \in DOMAIN obj |-> IF o \in reps THEN [obj[o] EXCEPT !.flags = TRUE, !.stamp = @ + 1] ELSE obj[o]]
      /\ UNCHANGED <<ent, named>>
      /\ inv' = [inv EXCEPT !.stopped = FALSE, !.deferred = {}, !.changes = Remember(@, reps),
                   !.group = [o \in DOMAIN @ |-> IF o \in S THEN [@[o] EXCEPT !.flags = FALSE, !.out = Remember(inv.changes, reps)[Group(o).pub]] ELSE @[o]]]

DeferredGroups == {o \in inv.deferred : Pending(o)}

\* The flags deferred by a merge, then its end: what was skipped keeps its directories.
MergeFlags ==
  /\ pc = "flags"
  /\ LET S == DeferredGroups
         keep == SelectSeq(mg.recs, LAMBDA r : ~(IsDir(r.obs.id) /\ r.path \in mg.skipped))
     IN  IF \A o \in S : CanFinalize(o)
         THEN /\ Finalize(S)
              /\ \/ result # "Merged" /\ pc' = "outcome" /\ UNCHANGED <<task, recs, left, result>>
                 \/ result = "Merged" /\ req.op = "Copy" /\ pc' = "outcome" /\ result' = "Copied" /\ UNCHANGED <<task, recs, left>>
                 \/ /\ result = "Merged" /\ req.op = "Move" /\ keep = <<>>
                    /\ pc' = "outcome" /\ result' = (IF mg.changed THEN "Moved" ELSE "Skipped")
                    /\ UNCHANGED <<task, recs, left>>
                 \/ /\ result = "Merged" /\ req.op = "Move" /\ keep # <<>>
                    /\ pc' = "retire" /\ left' = Len(keep) /\ UNCHANGED result
                    /\ recs' = keep
                    /\ task' = [src |-> mg.src, dst |-> mg.dst, sobs |-> mg.sobs, dobs |-> mg.dobs, act |-> "Merge", defer |-> FALSE]
         ELSE /\ UNCHANGED <<fsVars, inv, task, recs, left>>
              /\ pc' = "outcome"
              /\ result' = IF result = "Merged" THEN MergeFailure("FailedBeforePublication") ELSE result
  /\ UNCHANGED <<req, cancel, mg, pool, ghost>>
=============================================================================
