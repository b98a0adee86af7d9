----------------------------- MODULE IndexedScan -----------------------------
(***************************************************************************)
(* The indexed directory scan of crates/fdu-scan/src/indexed.rs, with the  *)
(* receiver of src/rmrf.rs that builds the tree of crates/fdu-core from    *)
(* its events.                                                             *)
(*                                                                         *)
(* The scanning thread Main reads the root; Workers take directories from  *)
(* a shared queue. A directory's token is the directory itself, and so is  *)
(* its identity. The deques and the injector are one set of tasks. A       *)
(* thread's step is one access to what the threads share: the queue's      *)
(* counters, the park mutex with its two condition variables, a            *)
(* directory's pending count, the finished list or the event channel.      *)
(* Atomics are taken to be sequentially consistent. The receiver outlives  *)
(* the scan, so no send fails.                                             *)
(***************************************************************************)
EXTENDS Naturals, Sequences, FiniteSets

CONSTANTS
    Nodes,            \* the entries of the tree, its root included
    Root,
    Dirs,             \* the directories among them
    Parent,           \* Parent[n]: the directory that holds n
    Late,             \* entries that do not exist when the scan reads them
    Faulty,           \* entries whose inspection or removal may fail
    RootMayFail,      \* whether the root itself may turn out to be unusable
    Main,             \* the thread that starts the scan
    Base,             \* workers that run from the start
    Extra,            \* workers behind the gate
    QueueCapacity,    \* IndexedScanLimits.queued_directories
    Budget,           \* IndexedScanLimits.retained_directory_budget
    ChannelCapacity,  \* SCAN_EVENT_CHANNEL_CAPACITY
    PublishEntries,   \* PUBLISH_ENTRIES
    PublishReleases,  \* PUBLISH_RELEASES
    HeldOpen,         \* HELD_OPEN_DIRECTORIES
    FinishBatch       \* DIRECTORY_FINISH_BATCH_SIZE

None == "none"
Workers == Base \cup Extra
Threads == {Main} \cup Workers

ASSUME ScanAssumption ==
    /\ Root \in Dirs /\ Dirs \subseteq Nodes /\ Main \notin Workers /\ Base # {}
    /\ Parent \in [Nodes -> Dirs] /\ Parent[Root] = Root /\ RootMayFail \in BOOLEAN
    /\ IsFiniteSet(Nodes) /\ IsFiniteSet(Workers) /\ None \notin Nodes
    /\ {QueueCapacity, Budget, ChannelCapacity, PublishEntries, PublishReleases, HeldOpen, FinishBatch}
          \subseteq Nat \ {0}

\* Ancestors, the entry itself included: what every set holds that has the
\* entry and with each entry its parent.
Ancestry ==
    [n \in Nodes |-> {m \in Nodes : \A S \in SUBSET Nodes : n \in S /\ (\A k \in S : Parent[k] \in S) => m \in S}]
Upward(n) == Ancestry[n]

\* The entries form a tree below the root, and what appears late appears
\* with all that is in it.
ASSUME TreeAssumption ==
    /\ \A n \in Nodes : Root \in Upward(n)
    /\ Late \subseteq Nodes \ {Root} /\ \A n \in Nodes : Parent[n] \in Late => n \in Late

VARIABLES
    t,        \* each thread: where it is, its task and its Outbox
    q,        \* IndexedWorkQueue; holds is its `pending`, asleep its waiters
    slot,     \* DirectoryProgress of each directory
    finishes, \* pending_finishes, and who holds its lock
    channel,  \* the event channel
    flags,    \* the user's cancellation, the scan's flag, cancelled_event_sent
    idx       \* the receiver: phase, node states, fatal error

scanVars == <<t, q, slot, finishes, channel, flags, idx>>

Kids(d) == {n \in Nodes \ {Root} : Parent[n] = d /\ n \notin Late}

EmptyOutbox == [batch |-> <<>>, notices |-> <<>>, releases |-> <<>>, held |-> <<>>]

NoRelease == [dir |-> Root, ok |-> TRUE]

\* A thread between two tasks. (A worker's Outbox is empty then, or its
\* queue is closed and nothing looks at it any more.)
Between(pc) ==
    [pc |-> pc, then |-> "hold", ret |-> "hold", busy |-> FALSE, task |-> [dir |-> Root, opened |-> TRUE],
     todo |-> {}, ok |-> TRUE, out |-> EmptyOutbox, kept |-> <<>>, up |-> NoRelease]

At(x, pc) == t[x].pc = pc
Go(x, pc) == t' = [t EXCEPT ![x].pc = pc]
Free == q.park = None

\* Descriptors that held tasks keep open (Outbox.held_open).
OpenIn(held) == Cardinality({i \in DOMAIN held : held[i].opened})

\* The tasks that exist, and whether the descriptor budget has room for one more.
Live ==
    q.tasks \cup {t[x].task : x \in {y \in Threads : t[y].busy}}
            \cup UNION {{t[x].out.held[i] : i \in DOMAIN t[x].out.held} : x \in Threads}
HasPermit == Cardinality({k \in Live : k.opened}) < Budget
-----------------------------------------------------------------------------
(* IndexedWorkQueue.                                                        *)

NewQueue ==
    [tasks |-> {}, holds |-> 1, closed |-> FALSE, sleepers |-> 0, open |-> Extra = {}, asleep |-> {}, park |-> None]

IsStarving == q.sleepers > 0 /\ q.tasks = {}

\* next_task: the cancellation flag, then `closed`, then the gate, a task or
\* the park.
NextTask(x) ==
    /\ At(x, "pop")
    /\ \/ /\ flags.cancelled /\ ~ q.closed
          /\ q' = [q EXCEPT !.closed = TRUE]
          /\ t' = [t EXCEPT ![x].pc = "notify", ![x].then = "pop"]
       \/ /\ q.closed
          /\ Go(x, "exit") /\ UNCHANGED q
       \/ /\ ~ flags.cancelled /\ ~ q.closed /\ x \in Extra /\ ~ q.open
          /\ Go(x, "gate") /\ UNCHANGED q
       \/ /\ ~ flags.cancelled /\ ~ q.closed /\ (x \in Base \/ q.open)
          /\ \E k \in q.tasks :
                /\ q' = [q EXCEPT !.tasks = @ \ {k}]
                /\ t' = [t EXCEPT ![x].pc = "open", ![x].task = k, ![x].busy = TRUE]
       \/ /\ ~ flags.cancelled /\ ~ q.closed /\ (x \in Base \/ q.open)
          /\ q.tasks = {}
          /\ Go(x, "park") /\ UNCHANGED q
    /\ UNCHANGED <<slot, finishes, channel, flags, idx>>

\* No task was found: the lock, and one sleeper more.
Park(x) ==
    /\ At(x, "park") /\ Free
    /\ q' = [q EXCEPT !.park = x, !.sleepers = @ + 1]
    /\ Go(x, "parked")
    /\ UNCHANGED <<slot, finishes, channel, flags, idx>>

\* Behind the gate: the flags are looked at again under the lock.
Gate(x) ==
    /\ At(x, "gate") /\ Free
    /\ IF q.open \/ q.closed \/ flags.cancelled
       THEN Go(x, "pop") /\ UNCHANGED q
       ELSE Go(x, "gated") /\ q' = [q EXCEPT !.asleep = @ \cup {x}]
    /\ UNCHANGED <<slot, finishes, channel, flags, idx>>

\* Mutant: the sleeper does not look at the queue again before it waits.
ParkedBlind(x) ==
    /\ At(x, "parked")
    /\ Go(x, "sleeping") /\ q' = [q EXCEPT !.park = None, !.asleep = @ \cup {x}]
    /\ UNCHANGED <<slot, finishes, channel, flags, idx>>

\* The last look before the sleep, with the sleeper already counted.
Parked(x) ==
    /\ At(x, "parked")
    /\ IF q.tasks # {} \/ q.closed \/ flags.cancelled
       THEN Go(x, "pop") /\ q' = [q EXCEPT !.park = None, !.sleepers = @ - 1]
       ELSE Go(x, "sleeping") /\ q' = [q EXCEPT !.park = None, !.asleep = @ \cup {x}]
    /\ UNCHANGED <<slot, finishes, channel, flags, idx>>

\* A notified thread takes the lock again and goes round.
Wake(x) ==
    /\ At(x, "sleeping") \/ At(x, "gated")
    /\ x \notin q.asleep /\ Free
    /\ q' = [q EXCEPT !.sleepers = IF At(x, "sleeping") THEN @ - 1 ELSE @]
    /\ Go(x, "pop")
    /\ UNCHANGED <<slot, finishes, channel, flags, idx>>

\* cancel: close the queue if nobody has.
Cancel(x) ==
    /\ At(x, "cancel")
    /\ q' = [q EXCEPT !.closed = TRUE]
    /\ t' = [t EXCEPT ![x].pc = IF q.closed THEN "hold" ELSE "notify", ![x].then = "hold"]
    /\ UNCHANGED <<slot, finishes, channel, flags, idx>>

\* close, after the swap: both condition variables, behind the lock.
Notify(x) ==
    /\ At(x, "notify") /\ Free
    /\ q' = [q EXCEPT !.asleep = {}]
    /\ t' = [t EXCEPT ![x].pc = t[x].then, ![x].then = "hold"]
    /\ UNCHANGED <<slot, finishes, channel, flags, idx>>

\* finish_task and finish_root: the last hold closes the queue.
ReleaseHold(x) ==
    /\ At(x, "hold")
    /\ LET rest == IF x = Main THEN "join" ELSE "pop"
           last == q.holds = 1 /\ ~ q.closed
       IN  /\ q' = [q EXCEPT !.holds = @ - 1, !.closed = @ \/ q.holds = 1]
           /\ t' = [t EXCEPT ![x] = [Between(IF last THEN "notify" ELSE rest) EXCEPT !.then = IF last THEN rest ELSE @]]
    /\ UNCHANGED <<slot, finishes, channel, flags, idx>>
-----------------------------------------------------------------------------
(* Outbox: entries, then notices, then the children's tasks, then releases. *)

\* should_flush.
ShouldFlush(out) ==
    \/ Len(out.batch) >= PublishEntries \/ Len(out.releases) >= PublishReleases
    \/ OpenIn(out.held) >= HeldOpen
    \/ out.held # <<>> /\ IsStarving

Mail(out) ==
    (IF out.batch = <<>> THEN <<>> ELSE <<[kind |-> "entries", list |-> out.batch]>>) \o out.notices

\* flush: one send at a time, each waiting for room.
Send(x) ==
    LET out == t[x].out IN
    /\ At(x, "flush") /\ Mail(out) # <<>> /\ Len(channel) < ChannelCapacity
    /\ channel' = Append(channel, Head(Mail(out)))
    /\ t' = [t EXCEPT ![x].out = IF out.batch # <<>> THEN [out EXCEPT !.batch = <<>>]
                                 ELSE [out EXCEPT !.notices = Tail(@)]]
    /\ UNCHANGED <<q, slot, finishes, flags, idx>>

\* Mutant: the children's tasks are offered before their entries are sent.
OfferEarly(x) ==
    LET out == t[x].out
        task == Head(out.held)
    IN
    /\ At(x, "flush") /\ out.held # <<>>
    /\ IF q.closed \/ Cardinality(q.tasks) >= QueueCapacity
       THEN /\ t' = [t EXCEPT ![x].out.held = Tail(@), ![x].kept = Append(@, [task EXCEPT !.opened = FALSE])]
            /\ UNCHANGED q
       ELSE /\ q' = [q EXCEPT !.tasks = @ \cup {task}, !.holds = @ + 1]
            /\ t' = [t EXCEPT ![x].out.held = Tail(@), ![x].pc = "wakeone"]
    /\ UNCHANGED <<slot, finishes, channel, flags, idx>>

\* try_push of the next held task; one the queue refuses is kept, closed.
Offer(x) ==
    LET out == t[x].out
        task == Head(out.held)
    IN
    /\ At(x, "flush") /\ Mail(out) = <<>> /\ out.held # <<>>
    /\ IF q.closed \/ Cardinality(q.tasks) >= QueueCapacity
       THEN /\ t' = [t EXCEPT ![x].out.held = Tail(@), ![x].kept = Append(@, [task EXCEPT !.opened = FALSE])]
            /\ UNCHANGED q
       ELSE /\ q' = [q EXCEPT !.tasks = @ \cup {task}, !.holds = @ + 1]
            /\ t' = [t EXCEPT ![x].out.held = Tail(@), ![x].pc = "wakeone"]
    /\ UNCHANGED <<slot, finishes, channel, flags, idx>>

\* try_push, after the push: a counted sleeper is notified behind the lock.
WakeOne(x) ==
    /\ At(x, "wakeone")
    /\ Go(x, "flush")
    /\ LET sleeping == {y \in q.asleep : At(y, "sleeping")} IN
       IF q.sleepers = 0 THEN UNCHANGED q
       ELSE /\ Free
            /\ \/ sleeping = {} /\ UNCHANGED q
               \/ \E y \in sleeping : q' = [q EXCEPT !.asleep = @ \ {y}]
    /\ UNCHANGED <<slot, finishes, channel, flags, idx>>

Flushed(x) == At(x, "flush") /\ Mail(t[x].out) = <<>> /\ t[x].out.held = <<>>

\* The end of a flush: what was kept is scanned by this thread.
FlushDone(x) ==
    /\ Flushed(x) /\ t[x].out.releases = <<>>
    /\ t' = [t EXCEPT ![x].out.held = t[x].kept, ![x].kept = <<>>, ![x].pc = t[x].ret]
    /\ UNCHANGED <<q, slot, finishes, channel, flags, idx>>
-----------------------------------------------------------------------------
(* ScanProgress.                                                            *)

\* Mutant: an incomplete child does not make its parent incomplete.
FinishDirectoryForgiving(x) ==
    \E up \in {Head(t[x].out.releases \o <<t[x].up>>), t[x].up} :
       /\ \/ Flushed(x) /\ t[x].out.releases # <<>> /\ up = Head(t[x].out.releases)
          \/ At(x, "finish") /\ up = t[x].up
       /\ slot' = [slot EXCEPT ![up.dir].pending = @ - 1, ![up.dir].incomplete = @ \/ (~ up.ok /\ At(x, "flush"))]
       /\ t' = [t EXCEPT ![x].pc = IF slot[up.dir].pending = 1 THEN "push" ELSE "flush",
                         ![x].up = IF slot[up.dir].pending = 1 THEN up ELSE NoRelease,
                         ![x].out.releases = IF At(x, "flush") THEN Tail(@) ELSE @]
    /\ UNCHANGED <<q, finishes, channel, flags, idx>>

\* finish_directory: one release of one directory, the next of the Outbox or
\* that of a parent whose child was its last.
FinishDirectory(x) ==
    \E up \in {Head(t[x].out.releases \o <<t[x].up>>), t[x].up} :
       /\ \/ Flushed(x) /\ t[x].out.releases # <<>> /\ up = Head(t[x].out.releases)
          \/ At(x, "finish") /\ up = t[x].up
       /\ slot' = [slot EXCEPT ![up.dir].pending = @ - 1, ![up.dir].incomplete = @ \/ ~ up.ok]
       /\ t' = [t EXCEPT ![x].pc = IF slot[up.dir].pending = 1 THEN "push" ELSE "flush",
                         ![x].up = IF slot[up.dir].pending = 1 THEN up ELSE NoRelease,
                         ![x].out.releases = IF At(x, "flush") THEN Tail(@) ELSE @]
    /\ UNCHANGED <<q, finishes, channel, flags, idx>>

\* push_finished, and on to the parent; a full list is sent under its lock.
PushFinished(x) ==
    LET d == t[x].up.dir
        ok == ~ slot[d].incomplete
        list == Append(finishes.list, [dir |-> d, ok |-> ok])
        full == Len(list) >= FinishBatch
    IN
    /\ At(x, "push") /\ finishes.lock = None
    /\ finishes' = [list |-> list, lock |-> IF full THEN x ELSE None]
    /\ t' = [t EXCEPT ![x].pc = IF full THEN "sendlist" ELSE IF d = Root THEN "flush" ELSE "finish",
                      ![x].up = IF d = Root THEN NoRelease ELSE [dir |-> slot[d].parent, ok |-> ok],
                      ![x].then = IF full /\ d # Root THEN "finish" ELSE "flush"]
    /\ UNCHANGED <<q, slot, channel, flags, idx>>

SendFinished(x) ==
    /\ At(x, "sendlist") /\ Len(channel) < ChannelCapacity
    /\ channel' = Append(channel, [kind |-> "finished", list |-> finishes.list])
    /\ finishes' = [list |-> <<>>, lock |-> None]
    /\ Go(x, t[x].then)
    /\ UNCHANGED <<q, slot, flags, idx>>
-----------------------------------------------------------------------------
(* One directory.                                                           *)

\* failed_task, and the mount boundary a reopened directory may turn out to be.
Failed(x, kind) ==
    LET out == [t[x].out EXCEPT !.notices = Append(@, [kind |-> kind, dir |-> t[x].task.dir]),
                                !.releases = Append(@, [dir |-> t[x].task.dir, ok |-> FALSE])]
    IN  t' = [t EXCEPT ![x].out = out, ![x].ret = "next",
                       ![x].pc = IF kind = "failed" /\ ShouldFlush(out) THEN "flush" ELSE "next"]

\* reopen_directory, for a task that gave its descriptor up.
ReopenResults(task) ==
    {"ok"} \cup (IF ~ task.opened /\ task.dir \in Faulty THEN {"failed", "excluded"} ELSE {})

\* scan_indexed_task: a task without descriptor is reopened from the root.
\* The flag is read before the directory is; nothing is released then.
OpenTask(x) ==
    /\ At(x, "open")
    /\ \E r \in ReopenResults(t[x].task) :
          IF r = "ok"
          THEN t' = [t EXCEPT ![x].pc = IF flags.cancelled THEN "tell" ELSE "scan",
                              ![x].todo = Kids(t[x].task.dir), ![x].ok = TRUE]
          ELSE Failed(x, r)
    /\ UNCHANGED <<q, slot, finishes, channel, flags, idx>>

\* send_cancelled_once, then the flush of a tree that stops.
Tell(x) ==
    /\ At(x, "tell")
    /\ IF flags.announced THEN UNCHANGED <<channel, flags>>
       ELSE /\ Len(channel) < ChannelCapacity
            /\ channel' = Append(channel, [kind |-> "cancelled"])
            /\ flags' = [flags EXCEPT !.announced = TRUE]
    /\ t' = [t EXCEPT ![x].pc = "flush", ![x].ret = "cancel"]
    /\ UNCHANGED <<q, slot, finishes, idx>>

\* classify_entry: what an entry turns out to be.
Classes(n) ==
    (IF n \in Dirs THEN {"child"} ELSE {"complete"})
    \cup (IF n \in Faulty THEN {"incomplete"} ELSE {})
    \cup (IF n \in Faulty /\ n \in Dirs THEN {"excluded"} ELSE {})

\* One entry: classified, batched, and a child directory registered and held.
ScanEntry(x) ==
    LET d == t[x].task.dir IN
    /\ At(x, "scan") /\ ~ flags.cancelled
    /\ \E n \in t[x].todo : \E class \in Classes(n) :
          LET child == class = "child"
              out == [t[x].out EXCEPT
                        !.batch = Append(@, [node |-> n, state |-> IF child THEN "complete" ELSE class]),
                        !.notices = IF class = "incomplete" THEN Append(@, [kind |-> "failed", dir |-> d]) ELSE @,
                        !.held = IF child THEN Append(@, [dir |-> n, opened |-> HasPermit]) ELSE @]
          IN  /\ slot' = IF child THEN [slot EXCEPT ![n] = [pending |-> 1, incomplete |-> FALSE, parent |-> d],
                                                    ![d].pending = @ + 1]
                       ELSE slot
              /\ t' = [t EXCEPT ![x].todo = @ \ {n}, ![x].out = out, ![x].ok = @ /\ class \in {"complete", "child"},
                                ![x].ret = "scan",
                                ![x].pc = IF Len(out.batch) >= PublishEntries \/ OpenIn(out.held) >= HeldOpen
                                          THEN "flush" ELSE "scan"]
    /\ UNCHANGED <<q, finishes, channel, flags, idx>>

\* The flag between two entries: an incomplete release, and the end.
ScanCancelled(x) ==
    /\ At(x, "scan") /\ flags.cancelled
    /\ t' = [t EXCEPT ![x].pc = "flush", ![x].ret = "tell",
                      ![x].out.releases = Append(@, [dir |-> t[x].task.dir, ok |-> FALSE])]
    /\ UNCHANGED <<q, slot, finishes, channel, flags, idx>>

\* The end of the directory, which a read error may bring early.
ScanDone(x) ==
    LET d == t[x].task.dir IN
    /\ At(x, "scan") /\ ~ flags.cancelled
    /\ \E failed \in {f \in BOOLEAN : f => d \in Faulty} :
          /\ t[x].todo = {} \/ failed
          /\ LET out == [t[x].out EXCEPT
                            !.notices = IF failed THEN Append(@, [kind |-> "failed", dir |-> d]) ELSE @,
                            !.releases = Append(@, [dir |-> d, ok |-> t[x].ok /\ ~ failed])]
             IN  t' = [t EXCEPT ![x].out = out, ![x].ret = "next", ![x].todo = {},
                               ![x].pc = IF d = Root \/ ShouldFlush(out) THEN "flush" ELSE "next"]
    /\ UNCHANGED <<q, slot, finishes, channel, flags, idx>>

\* DirectorySample: taken while the gate is closed, at a directory's end.
Sampled(x) == At(x, "scan") /\ t[x].todo = {} /\ ~ flags.cancelled /\ ~ q.open

\* note_sample: slow directories open the gate for good.
NoteSample(x) ==
    /\ Sampled(x) /\ Free
    /\ q' = [q EXCEPT !.open = TRUE, !.asleep = {y \in @ : ~ At(y, "gated")}]
    /\ UNCHANGED <<t, slot, finishes, channel, flags, idx>>

\* run_task_tree: the last held task next, or the final flush.
NextHeld(x) ==
    LET held == t[x].out.held IN
    /\ At(x, "next")
    /\ t' = [t EXCEPT ![x] = IF held = <<>> THEN [@ EXCEPT !.pc = "flush", !.ret = "hold", !.task.opened = FALSE]
                             ELSE [@ EXCEPT !.pc = "open", !.task = held[Len(held)],
                                            !.out.held = SubSeq(held, 1, Len(held) - 1)]]
    /\ UNCHANGED <<q, slot, finishes, channel, flags, idx>>
-----------------------------------------------------------------------------
(* scan_indexed around the threads.                                         *)

\* The anchor is inspected; without it only Failed and Finished are sent.
Start ==
    /\ At(Main, "start")
    /\ \/ t' = [x \in Threads |-> [t[x] EXCEPT !.pc = IF x = Main THEN "open" ELSE "pop"]]
          /\ UNCHANGED channel
       \/ /\ RootMayFail
          /\ channel' = Append(channel, [kind |-> "broken"])
          /\ t' = [x \in Threads |-> [t[x] EXCEPT !.pc = IF x = Main THEN "bye" ELSE "exit"]]
    /\ UNCHANGED <<q, slot, finishes, flags, idx>>

\* All workers joined: the finished list, then Finished.
Join ==
    /\ At(Main, "join") /\ \A w \in Workers : At(w, "exit")
    /\ IF finishes.list = <<>> THEN Go(Main, "bye") /\ UNCHANGED finishes
       ELSE /\ t' = [t EXCEPT ![Main].pc = "sendlist", ![Main].then = "bye"]
            /\ finishes' = [finishes EXCEPT !.lock = Main]
    /\ UNCHANGED <<q, slot, channel, flags, idx>>

Bye ==
    /\ At(Main, "bye") /\ Len(channel) < ChannelCapacity
    /\ channel' = Append(channel, [kind |-> "end"])
    /\ t' = [t EXCEPT ![Main] = Between("exit")]
    /\ UNCHANGED <<q, slot, finishes, flags, idx>>
-----------------------------------------------------------------------------
(* The receiver: build_index and the tree.                                  *)

MarkIncompleteToRoot(st, n) ==
    [m \in Nodes |-> IF m \in Upward(n) /\ st[m] \in {"scanning", "complete"} THEN "incomplete" ELSE st[m]]

\* append and the run's problem flag, for one entry of a known directory.
ApplyEntry(st, e) ==
    LET added == [st EXCEPT ![e.node] = e.state]
    IN  IF e.state = "complete" THEN added ELSE MarkIncompleteToRoot(added, Parent[e.node])

\* apply_batch: the first entry of an unknown directory ends the batch.
ApplyBatch(st, list) ==
    LET known(s, e) == s[Parent[e.node]] # "absent"
        apply[k \in 0 .. Len(list)] ==
            IF k = 0 THEN [st |-> st, ok |-> TRUE]
            ELSE LET before == apply[k - 1] IN
                 IF before.ok /\ known(before.st, list[k])
                 THEN [st |-> ApplyEntry(before.st, list[k]), ok |-> TRUE]
                 ELSE [before EXCEPT !.ok = FALSE]
    IN  apply[Len(list)]

\* finish_directory of the receiver, for a list of directories.
ApplyFinished(st, list) ==
    LET one(s, f) == IF s[f.dir] = "absent" THEN s
                     ELSE IF ~ f.ok THEN MarkIncompleteToRoot(s, f.dir)
                     ELSE [s EXCEPT ![f.dir] = IF @ = "scanning" THEN "complete" ELSE @]
        apply[k \in 0 .. Len(list)] == IF k = 0 THEN st ELSE one(apply[k - 1], list[k])
    IN  apply[Len(list)]

MarkScanningIncomplete(st) == [m \in Nodes |-> IF st[m] = "scanning" THEN "incomplete" ELSE st[m]]

\* One event of the scan. A batch that is refused, a failure of an unknown
\* directory, a broken root and a cancellation are fatal.
Apply(r, e) ==
    CASE e.kind = "entries" ->
            LET res == ApplyBatch(r.st, e.list)
            IN  [r EXCEPT !.st = res.st, !.fatal = IF @ = None /\ ~ res.ok THEN "unknown" ELSE @]
      [] e.kind = "finished" -> [r EXCEPT !.st = ApplyFinished(r.st, e.list)]
      [] e.kind = "excluded" ->
            IF r.st[e.dir] = "absent" THEN r
            ELSE [r EXCEPT !.st = MarkIncompleteToRoot([r.st EXCEPT ![e.dir] = "excluded"], Parent[e.dir])]
      [] e.kind = "failed" ->
            [r EXCEPT !.st = MarkIncompleteToRoot(@, IF r.st[e.dir] = "absent" THEN Root ELSE e.dir),
                      !.fatal = IF @ = None /\ r.st[e.dir] = "absent" THEN "unknown" ELSE @]
      [] e.kind = "broken" -> [r EXCEPT !.st = MarkIncompleteToRoot(@, Root), !.fatal = IF @ = None THEN "broken" ELSE @]
      [] e.kind = "cancelled" -> [r EXCEPT !.st = MarkScanningIncomplete(@), !.fatal = IF @ = None THEN "cancelled" ELSE @]
      [] e.kind = "end" -> [r EXCEPT !.phase = "scanned"]

\* One turn of build_index: recv_timeout, sync_cancel_flag, the event.
Receive ==
    /\ idx.phase = "scan"
    /\ channel # <<>>
    /\ flags' = [flags EXCEPT !.cancelled = @ \/ flags.user]
    /\ idx' = Apply(idx, Head(channel))
    /\ channel' = Tail(channel)
    /\ UNCHANGED <<t, q, slot, finishes>>

\* The timeout, or the wakeup pipe of a signal.
Timeout ==
    /\ idx.phase = "scan" /\ channel = <<>>
    /\ flags.user /\ ~ flags.cancelled
    /\ flags' = [flags EXCEPT !.cancelled = TRUE]
    /\ UNCHANGED <<t, q, slot, finishes, channel, idx>>

\* The rest of build_index, with the scan's threads and queue gone: a fatal
\* error, or a root that nothing finished.
Accept ==
    /\ idx.phase = "scanned"
    /\ idx' = IF idx.fatal # None THEN [idx EXCEPT !.phase = "refused"]
              ELSE [idx EXCEPT !.phase = "accepted",
                               !.st[Root] = IF @ = "scanning" THEN "complete" ELSE @]
    /\ q' = NewQueue
    /\ UNCHANGED <<t, slot, finishes, channel, flags>>

UserCancel ==
    /\ ~ flags.user
    /\ flags' = [flags EXCEPT !.user = TRUE]
    /\ UNCHANGED <<t, q, slot, finishes, channel, idx>>
-----------------------------------------------------------------------------
ScanInit ==
    /\ t = [x \in Threads |-> [Between("start") EXCEPT !.busy = x = Main]]
    /\ q = NewQueue
    /\ slot = [d \in Dirs |-> [pending |-> IF d = Root THEN 1 ELSE 0, incomplete |-> FALSE, parent |-> None]]
    /\ finishes = [list |-> <<>>, lock |-> None]
    /\ channel = <<>>
    /\ flags = [user |-> FALSE, cancelled |-> FALSE, announced |-> FALSE]
    /\ idx = [phase |-> "scan", fatal |-> None,
              st |-> [n \in Nodes |-> IF n = Root THEN "scanning" ELSE "absent"]]

Step(x) ==
    \/ NextTask(x) \/ Gate(x) \/ Park(x) \/ Parked(x) \/ Wake(x) \/ Cancel(x) \/ Notify(x) \/ ReleaseHold(x)
    \/ Send(x) \/ Offer(x) \/ WakeOne(x) \/ FlushDone(x)
    \/ FinishDirectory(x) \/ PushFinished(x) \/ SendFinished(x)
    \/ OpenTask(x) \/ Tell(x) \/ ScanEntry(x) \/ ScanCancelled(x) \/ ScanDone(x) \/ NextHeld(x)

Receiver == Receive \/ Timeout \/ Accept
=============================================================================
