------------------------------- MODULE Removal -------------------------------
(***************************************************************************)
(* rmrf of one directory: the scan, the plan and the executor of           *)
(* crates/fdu-delete, and the loop of src/rmrf.rs that drains its outcomes *)
(* and removes the root.                                                   *)
(*                                                                         *)
(* `fs` says what is at an entry's place: the scanned object, another one, *)
(* nothing, or nothing because the object is held in the quarantine. The   *)
(* quarantine's remove is one step with the results its own module allows. *)
(* Thread Root is the group of the selected entries, thread d the walk of  *)
(* the selected directory d. Progress events carry nothing and are left    *)
(* out; the receiver outlives the executor.                                *)
(***************************************************************************)
EXTENDS IndexedScan

CONSTANTS
    OutputMayFail, \* whether writing the progress line may fail
    Meddled,       \* entries that somebody else may touch during the deletion
    MaxMeddle,     \* bound on how often
    DeleteBatch,   \* DELETE_BATCH_SIZE
    OutcomeBatch,  \* OUTCOME_BATCH_SIZE
    DeleteChannel  \* DELETE_CHANNEL_CAPACITY

ASSUME RemovalAssumption ==
    /\ Meddled \subseteq Nodes \ {Root} /\ MaxMeddle \in Nat /\ OutputMayFail \in BOOLEAN
    /\ {DeleteBatch, OutcomeBatch, DeleteChannel} \subseteq Nat \ {0}

VARIABLES
    fs,      \* what is at each entry's place
    touched, \* how often somebody else interfered
    w,       \* the deletion threads
    ex,      \* the executor: phase, recorded and unsent outcomes, flags
    events,  \* the executor's channel
    rm,      \* rmrf: phase, received outcomes, first error, result
    removed  \* entries unlinked by the executor

vars == <<scanVars, fs, touched, w, ex, events, rm, removed>>
delVars == <<fs, touched, w, ex, events, rm, removed>>

Indexed == {n \in Nodes \ {Root} : idx.st[n] # "absent"}
Children(d) == {n \in Indexed : Parent[n] = d}
Under(d) == {n \in Indexed : d \in Upward(n) /\ n # d}
Stopped == ex.cancelled \/ ex.recovery
-----------------------------------------------------------------------------
(* What precedes the scan; create_plan and the start of the executor.       *)

\* ensure_not_mount_point and protected_root_reason: what the root may be.
Refusals ==
    IF RootMayFail THEN {"mount point", "filesystem root", "home", "current directory", "above it"} ELSE {}

\* remove_directory up to build_index: the root is opened without following
\* a link, and one that is refused is not even scanned.
Admit ==
    /\ rm.phase = "admit"
    /\ \/ rm' = [rm EXCEPT !.phase = "scan"]
       \/ \E reason \in Refusals : rm' = [rm EXCEPT !.phase = "return", !.error = reason # None]
    /\ UNCHANGED <<scanVars, fs, touched, w, ex, events, removed>>

\* ineligible_reason of every selected entry, and the root's own state.
Eligible == idx.st[Root] = "complete" /\ \A n \in Indexed : idx.st[n] = "complete"

\* What report_progress_line and clear_progress return.
OutputFails == {FALSE} \cup (IF OutputMayFail THEN {TRUE} ELSE {})

\* Back from build_index: an error, nothing to delete, or a plan.
Plan ==
    /\ rm.phase = "scan" /\ idx.phase \in {"accepted", "refused"}
    /\ \E output \in OutputFails :
          rm' = IF idx.phase = "refused" \/ output \/ ~ Eligible
                THEN [rm EXCEPT !.phase = "return", !.error = TRUE]
                ELSE [rm EXCEPT !.phase = IF Indexed = {} THEN "root" ELSE "delete"]
    /\ UNCHANGED <<scanVars, fs, touched, w, ex, events, removed>>

\* run: the root is checked and the quarantine session opened.
Execute ==
    /\ rm.phase = "delete" /\ ex.phase = "idle"
    /\ \/ /\ ex' = [ex EXCEPT !.phase = "run"]
          /\ w' = [w EXCEPT ![Root].pc = "walk", ![Root].stack = <<[node |-> Root, todo |-> Children(Root)]>>]
       \/ /\ RootMayFail
          /\ ex' = [ex EXCEPT !.phase = "fail"] /\ UNCHANGED w
    /\ UNCHANGED <<scanVars, fs, touched, events, rm, removed>>
-----------------------------------------------------------------------------
(* Outcomes.                                                                *)

\* record, for a set of nodes with their outcomes: only the first counts,
\* and a full batch is sent as soon as the channel has room.
Record(outcomes) ==
    LET fresh == {o \in outcomes : ex.recorded[o.node] = None}
        unsent == ex.unsent \cup fresh
        full == Cardinality(unsent) >= OutcomeBatch
    IN  /\ full => Len(events) < DeleteChannel
        /\ events' = IF full THEN Append(events, [kind |-> "outcomes", list |-> unsent]) ELSE events
        /\ ex' = [ex EXCEPT !.recorded = [n \in Nodes |-> IF \E o \in fresh : o.node = n
                                                          THEN (CHOOSE o \in fresh : o.node = n).kind ELSE @[n]],
                            !.unsent = IF full THEN {} ELSE unsent]

\* A directory that cannot be opened, and what is recorded for all below it.
OpenFailure(d, kind) ==
    {[node |-> d, kind |-> kind]}
    \cup {[node |-> n, kind |-> IF kind = "absent" THEN "absent" ELSE "failed"] : n \in Under(d)}
-----------------------------------------------------------------------------
(* The file system, and the quarantine's promise.                           *)

\* A directory with entries; the root also holds an unfinished quarantine.
Occupied(d) ==
    \/ \E n \in Nodes \ {Root} : Parent[n] = d /\ fs[n] \in {"here", "other"}
    \/ d = Root /\ ex.recovery

\* open_checked.
OpenResults(d) ==
    CASE fs[d] \in {"gone", "held"} -> {"absent"}
      [] fs[d] = "other" -> {"changed"}
      [] fs[d] = "here" -> {"ok"} \cup (IF d \in Faulty THEN {"failed"} ELSE {})

\* remove and remove_batch on one entry: its outcome, what is left at its
\* place, and whether the journal needs recovery. A directory that is not
\* empty is put back.
RemoveResults(n) ==
    CASE fs[n] \in {"gone", "held"} -> {[kind |-> "absent", left |-> fs[n], recovery |-> FALSE]}
      [] fs[n] = "other" -> {[kind |-> "changed", left |-> "other", recovery |-> FALSE]}
      [] fs[n] = "here" /\ n \in Dirs /\ Occupied(n) -> {[kind |-> "failed", left |-> "here", recovery |-> FALSE]}
      [] OTHER ->
            {[kind |-> "deleted", left |-> "gone", recovery |-> FALSE]}
            \cup (IF Stopped THEN {[kind |-> IF n \in Dirs THEN "failed" ELSE "cancelled",
                                    left |-> "here", recovery |-> FALSE]} ELSE {})
            \cup (IF n \in Faulty THEN {[kind |-> "failed", left |-> "held", recovery |-> TRUE],
                                        [kind |-> "unsynced", left |-> "gone", recovery |-> TRUE]} ELSE {})

\* Somebody else removes, replaces or creates an entry during the deletion.
Meddle ==
    /\ rm.phase = "delete" /\ touched < MaxMeddle
    /\ touched' = touched + 1
    /\ \E n \in Meddled :
          /\ fs[Parent[n]] = "here"
          /\ \/ /\ fs[n] = "here"
                /\ \E left \in {"gone", "other"} :
                      fs' = [m \in Nodes |-> IF m = n THEN left
                                             ELSE IF n \in Upward(m) /\ fs[m] # "held" THEN "gone" ELSE fs[m]]
             \/ n \in Late /\ fs[n] = "gone" /\ fs' = [fs EXCEPT ![n] = "other"]
    /\ UNCHANGED <<scanVars, w, ex, events, rm, removed>>
-----------------------------------------------------------------------------
(* delete_group (thread Root) and delete_directory.                         *)

Top(x) == w[x].stack[Len(w[x].stack)]
Files(S) == S \ Dirs
Walking(x) == w[x].pc = "walk" /\ ~ Stopped

\* A stopped thread returns; what it has not done stays unrecorded. The
\* group still removes its last batch.
StopWalk(x) ==
    /\ w[x].pc \in {"enter", "walk"} /\ Stopped
    /\ x = Root => Top(x).todo # {}
    /\ w' = [w EXCEPT ![x].pc = "done"]
    /\ UNCHANGED <<scanVars, fs, touched, ex, events, rm, removed>>

\* A file joins the batch; a full batch is removed.
TakeFile(x) ==
    /\ Walking(x)
    /\ \E n \in Files(Top(x).todo) :
          w' = [w EXCEPT ![x].stack[Len(w[x].stack)].todo = @ \ {n},
                         ![x].batch = @ \cup {n},
                         ![x].pc = IF Cardinality(w[x].batch) + 1 >= DeleteBatch THEN "remove" ELSE "walk"]
    /\ UNCHANGED <<scanVars, fs, touched, ex, events, rm, removed>>

\* The batch goes before a directory is entered and at the end.
FlushBatch(x) ==
    /\ w[x].pc = "walk" /\ w[x].batch # {}
    /\ ~ Stopped \/ (x = Root /\ Top(x).todo = {})
    /\ Top(x).todo = {} \/ Top(x).todo \cap Dirs # {}
    /\ x # Root => Files(Top(x).todo) = {}
    /\ w' = [w EXCEPT ![x].pc = "remove"]
    /\ UNCHANGED <<scanVars, fs, touched, ex, events, rm, removed>>

\* delete_files_batch: one file after the other, then all their outcomes.
RemoveFile(x) ==
    /\ w[x].pc = "remove"
    /\ \E n \in w[x].batch : \E r \in RemoveResults(n) :
          /\ fs' = [fs EXCEPT ![n] = r.left]
          /\ ex' = [ex EXCEPT !.recovery = @ \/ r.recovery]
          /\ removed' = removed \cup (IF r.kind \in {"deleted", "unsynced"} THEN {n} ELSE {})
          /\ w' = [w EXCEPT ![x].batch = @ \ {n}, ![x].results = @ \cup {[node |-> n, kind |-> r.kind]}]
    /\ UNCHANGED <<scanVars, touched, events, rm>>

RecordBatch(x) ==
    /\ w[x].pc = "remove" /\ w[x].batch = {}
    /\ Record(w[x].results)
    /\ w' = [w EXCEPT ![x].pc = "walk", ![x].results = {}]
    /\ UNCHANGED <<scanVars, fs, touched, rm, removed>>

\* The group hands a selected directory to a thread of its own.
Spawn ==
    /\ Walking(Root) /\ w[Root].batch = {}
    /\ \E n \in Top(Root).todo \cap Dirs :
          w' = [w EXCEPT ![Root].stack[1].todo = @ \ {n}, ![n].pc = "enter"]
    /\ UNCHANGED <<scanVars, fs, touched, ex, events, rm, removed>>

\* A directory is entered, files before directories; one that cannot be
\* opened is recorded with everything below it.
Enter(x) ==
    /\ x # Root /\ ~ Stopped
    /\ \E n \in Dirs, r \in {"ok", "absent", "changed", "failed"} :
          /\ \/ w[x].pc = "enter" /\ n = x
             \/ w[x].pc = "walk" /\ w[x].batch = {} /\ n \in Top(x).todo /\ Files(Top(x).todo) = {}
          /\ r \in OpenResults(n)
          /\ LET outer == IF w[x].pc = "enter" THEN <<>>
                          ELSE [w[x].stack EXCEPT ![Len(w[x].stack)].todo = @ \ {n}]
             IN  IF r = "ok"
                 THEN /\ w' = [w EXCEPT ![x].pc = "walk",
                                        ![x].stack = Append(outer, [node |-> n, todo |-> Children(n)])]
                      /\ UNCHANGED <<ex, events>>
                 ELSE /\ w' = [w EXCEPT ![x].pc = IF outer = <<>> THEN "done" ELSE "walk", ![x].stack = outer]
                      /\ Record(OpenFailure(n, r))
    /\ UNCHANGED <<scanVars, fs, touched, rm, removed>>

Exhausted(x) == Walking(x) /\ Top(x).todo = {} /\ w[x].batch = {}
Outer(x) == SubSeq(w[x].stack, 1, Len(w[x].stack) - 1)

\* open_parent_checked: the parent of a nested directory is found through
\* ".." and must be the one that was scanned.
ParentLost(x) == Outer(x) # <<>> /\ (fs[Top(x).node] # "here" \/ fs[Parent[Top(x).node]] # "here")

\* A parent that changed ends the whole walk.
LoseParent(x) ==
    LET d == Top(x).node IN
    /\ x # Root /\ Exhausted(x) /\ ParentLost(x)
    /\ Record({[node |-> d, kind |-> "changed"]}
              \cup {[node |-> n, kind |-> "failed"] : n \in (Under(x) \cup {x}) \ {d}})
    /\ w' = [w EXCEPT ![x].pc = "done"]
    /\ UNCHANGED <<scanVars, fs, touched, rm, removed>>

\* remove_directory and capture_and_remove, once its children are done.
RemoveDirectory(x) ==
    LET d == Top(x).node IN
    /\ x # Root /\ Exhausted(x) /\ ~ ParentLost(x)
    /\ \E r \in RemoveResults(d) :
          /\ fs' = [fs EXCEPT ![d] = r.left]
          /\ ex' = [ex EXCEPT !.recovery = @ \/ r.recovery]
          /\ removed' = removed \cup (IF r.kind \in {"deleted", "unsynced"} THEN {d} ELSE {})
          /\ w' = [w EXCEPT ![x].pc = "record", ![x].results = {[node |-> d, kind |-> r.kind]}]
    /\ UNCHANGED <<scanVars, touched, events, rm>>

RecordDirectory(x) ==
    /\ w[x].pc = "record"
    /\ Record(w[x].results)
    /\ w' = [w EXCEPT ![x].pc = IF Outer(x) = <<>> THEN "done" ELSE "walk", ![x].stack = Outer(x), ![x].results = {}]
    /\ UNCHANGED <<scanVars, fs, touched, rm, removed>>

GroupDone ==
    /\ w[Root].pc = "walk" /\ Top(Root).todo = {} /\ w[Root].batch = {}
    /\ w' = [w EXCEPT ![Root].pc = "done"]
    /\ UNCHANGED <<scanVars, fs, touched, ex, events, rm, removed>>
-----------------------------------------------------------------------------
(* The end of run.                                                          *)

\* Mutant: targets that no thread reached are not reported.
SweepNothing ==
    /\ ex.phase = "run" /\ w[Root].pc = "done" /\ \A x \in Dirs : w[x].pc \in {"idle", "done"}
    /\ ex.unsent # {} => Len(events) < DeleteChannel
    /\ events' = IF ex.unsent = {} THEN events ELSE Append(events, [kind |-> "outcomes", list |-> ex.unsent])
    /\ ex' = [ex EXCEPT !.phase = IF ex.recovery THEN "fail" ELSE "finish", !.unsent = {}]
    /\ UNCHANGED <<scanVars, fs, touched, w, rm, removed>>

\* The scope has ended: targets without outcome are reported as cancelled.
Sweep ==
    LET left == {[node |-> n, kind |-> "cancelled"] : n \in {m \in Indexed : ex.recorded[m] = None}}
        all == ex.unsent \cup left
    IN
    /\ ex.phase = "run" /\ w[Root].pc = "done" /\ \A x \in Dirs : w[x].pc \in {"idle", "done"}
    /\ all # {} => Len(events) < DeleteChannel
    /\ events' = IF all = {} THEN events ELSE Append(events, [kind |-> "outcomes", list |-> all])
    /\ ex' = [ex EXCEPT !.phase = IF ex.recovery THEN "fail" ELSE "finish", !.unsent = {}]
    /\ UNCHANGED <<scanVars, fs, touched, w, rm, removed>>

\* quarantine.finish fails when the journal needs recovery: Failed, Finished.
SendFailure ==
    /\ ex.phase = "fail" /\ Len(events) < DeleteChannel
    /\ events' = Append(events, [kind |-> "failed"])
    /\ ex' = [ex EXCEPT !.phase = "finish"]
    /\ UNCHANGED <<scanVars, fs, touched, w, rm, removed>>

SendEnd ==
    /\ ex.phase = "finish" /\ Len(events) < DeleteChannel
    /\ events' = Append(events, [kind |-> "end"])
    /\ ex' = [ex EXCEPT !.phase = "over"]
    /\ UNCHANGED <<scanVars, fs, touched, w, rm, removed>>
-----------------------------------------------------------------------------
(* remove_directory of rmrf: the loop over the outcomes, and the root.      *)

\* One turn of the loop; the user's cancellation reaches the executor here.
\* A progress line that cannot be written is an error, and the loop goes on.
Drain ==
    LET e == Head(events) IN
    /\ rm.phase = "delete" /\ events # <<>>
    /\ events' = Tail(events)
    /\ ex' = [ex EXCEPT !.cancelled = @ \/ flags.user]
    /\ CASE e.kind = "outcomes" ->
              \E output \in OutputFails :
                 rm' = [rm EXCEPT !.report = @ \cup e.list, !.count = @ + Cardinality(e.list), !.error = @ \/ output]
         [] e.kind = "failed" -> rm' = [rm EXCEPT !.error = TRUE]
         [] e.kind = "end" -> rm' = [rm EXCEPT !.phase = "verdict"]
    /\ UNCHANGED <<scanVars, fs, touched, w, removed>>

DrainTimeout ==
    /\ rm.phase = "delete" /\ events = <<>> /\ flags.user /\ ~ ex.cancelled
    /\ ex' = [ex EXCEPT !.cancelled = TRUE]
    /\ UNCHANGED <<scanVars, fs, touched, w, events, rm, removed>>

\* DeletionReport.has_problems and completed.
HasProblems == \E o \in rm.report : o.kind \notin {"deleted", "absent"}

\* After the join: the first error, a progress line that stays, problems, a
\* wrong count.
Verdict ==
    /\ rm.phase = "verdict"
    /\ \E output \in OutputFails :
          rm' = IF rm.error \/ output \/ HasProblems \/ rm.count # Cardinality(Indexed)
                THEN [rm EXCEPT !.phase = "return", !.error = TRUE]
                ELSE [rm EXCEPT !.phase = "root"]
    /\ UNCHANGED <<scanVars, fs, touched, w, ex, events, removed>>

\* A cancelled removal leaves the root, and so does an output that fails;
\* otherwise remove_root, which the kernel refuses for a directory that is not
\* empty. When the parent cannot be synced after it, the root is gone and the
\* removal an error.
RemoveRoot ==
    /\ rm.phase = "root"
    /\ \/ /\ ~ flags.user /\ ~ Occupied(Root)
          /\ fs' = [fs EXCEPT ![Root] = "gone"] /\ removed' = removed \cup {Root}
          /\ \E unsynced \in {FALSE, RootMayFail} :
                rm' = [rm EXCEPT !.phase = "return", !.error = unsynced]
       \/ /\ flags.user \/ Occupied(Root) \/ RootMayFail \/ OutputMayFail
          /\ rm' = [rm EXCEPT !.phase = "return", !.error = TRUE]
          /\ UNCHANGED <<fs, removed>>
    /\ UNCHANGED <<scanVars, touched, w, ex, events>>

\* run: a user's cancellation decides the status whatever was removed, then
\* the first error, that of clear_progress or finish as well.
Return ==
    /\ rm.phase = "return"
    /\ \E output \in OutputFails :
          rm' = [rm EXCEPT !.phase = "over",
                           !.result = IF flags.user THEN "interrupted"
                                      ELSE IF rm.error \/ output THEN "error" ELSE "ok"]
    /\ UNCHANGED <<scanVars, fs, touched, w, ex, events, removed>>
-----------------------------------------------------------------------------
Init ==
    /\ ScanInit
    /\ fs = [n \in Nodes |-> IF n \in Late THEN "gone" ELSE "here"]
    /\ touched = 0
    /\ w = [x \in Dirs |-> [pc |-> "idle", stack |-> <<>>, batch |-> {}, results |-> {}]]
    /\ ex = [phase |-> "idle", recorded |-> [n \in Nodes |-> None], unsent |-> {},
             cancelled |-> FALSE, recovery |-> FALSE]
    /\ events = <<>>
    /\ rm = [phase |-> "admit", report |-> {}, count |-> 0, error |-> FALSE, result |-> None]
    /\ removed = {}

Walk(x) ==
    \/ StopWalk(x) \/ TakeFile(x) \/ FlushBatch(x) \/ RemoveFile(x) \/ RecordBatch(x) \/ Enter(x)
    \/ LoseParent(x) \/ RemoveDirectory(x) \/ RecordDirectory(x)

Executor == Execute \/ Spawn \/ GroupDone \/ Sweep \/ SendFailure \/ SendEnd
Rmrf == Admit \/ Plan \/ Drain \/ DrainTimeout \/ Verdict \/ RemoveRoot \/ Return

\* What the program itself does.
Work ==
    \/ /\ rm.phase = "scan"
       /\ \/ \E x \in Threads : Step(x)
          \/ Start \/ Join \/ Bye \/ Receiver
       /\ UNCHANGED delVars
    \/ \E x \in Dirs : Walk(x)
    \/ Executor \/ Rmrf

Next ==
    \/ Work
    \/ (UserCancel \/ \E x \in Threads : NoteSample(x)) /\ rm.phase # "over" /\ UNCHANGED delVars
    \/ Meddle

Spec == Init /\ [][Next]_vars

\* The program takes some step as long as one of its threads can: all that
\* the scheduler must give. The user, other processes and the gate's samples
\* owe nothing.
FairSpec == Spec /\ WF_vars(Work)
-----------------------------------------------------------------------------
(* Properties.                                                              *)

\* The index has every entry of the tree when the scan is accepted as
\* complete, and the receiver never hears of a directory that it does not
\* know: entries are sent before the tasks and the releases that depend on
\* them. (A scan that was cancelled is excused: next_task closes the queue
\* without a word.)
ScanExact ==
    /\ idx.phase = "accepted" /\ idx.st[Root] = "complete" /\ ~ flags.cancelled
          => \A n \in Nodes \ Late : idx.st[n] = "complete"
    /\ idx.fatal # "unknown"

Above(d) == Parent[d]
TakenUp == {Root} \cup {d \in Dirs : slot[d].parent # None}
Verdicts ==
    [d \in Dirs |-> IF slot[d].pending # 0 \/ d \notin TakenUp THEN "open"
                    ELSE IF slot[d].incomplete THEN "incomplete" ELSE "complete"]
Order == INSTANCE Postorder
            WITH Directories <- Dirs, Origin <- Root, Up <- Above, known <- TakenUp, verdict <- Verdicts

\* The pending counts of the directories, however the threads interleave,
\* implement the abstract order: each directory is finished once, after its
\* children, and never as complete when one of them is not.
FinishedInOrder == Order!Spec

\* One outcome for each planned entry reaches rmrf before it judges; entries
\* reported as deleted are gone by its own hand, those reported as not
\* attempted, changed or absent were not removed by it, and rmrf succeeds
\* only when nothing of the tree is left, in place or set aside.
ReportExact ==
    /\ rm.phase = "verdict" /\ w[Root].pc = "done" =>
          {o.node : o \in rm.report} = Indexed /\ rm.count = Cardinality(Indexed)
    /\ \A o \in rm.report :
          /\ o.kind \in {"deleted", "unsynced"} => o.node \in removed
          /\ o.kind \in {"cancelled", "changed", "absent"} => o.node \notin removed
    /\ rm.result = "ok" => \A n \in Nodes : fs[n] = "gone"

\* rmrf returns: no wake-up is lost, nobody waits for a full channel that is
\* not drained, and every walk ends.
RemovalEnds == <>(rm.phase = "over")
=============================================================================
