---------------------------- MODULE RemovalProofs ----------------------------
(***************************************************************************)
(* FinishedInOrder and ReportExact for any tree.                           *)
(*                                                                         *)
(* FinishedInOrder, for any number of workers and limits: the pending      *)
(* counts of the directories, which the scanning threads lower and raise   *)
(* in any order, implement Postorder.                                      *)
(*                                                                         *)
(* The argument is about tokens. Each directory that is still to be        *)
(* scanned or released has one token: the task of the thread that reads    *)
(* it, a held or kept task, a task in the queue, or a release in an        *)
(* Outbox. A thread that finished a directory carries one release up to    *)
(* its parent. A pending count is at least the tokens of the directory,    *)
(* the releases carried to it and its unfinished children; so the thread   *)
(* that lowers it to zero knows that no child is left. What is incomplete  *)
(* below it was told to it before, or is the release in hand.              *)
(***************************************************************************)
EXTENDS Removal, FiniteSetTheorems, TLAPS

-----------------------------------------------------------------------------
(* The types of the scan's state.                                          *)

Task == [dir : Dirs, opened : BOOLEAN]
Release == [dir : Dirs, ok : BOOLEAN]
Entry == [node : Nodes, state : {"complete", "incomplete", "excluded"}]
Notice == [kind : {"failed", "excluded"}, dir : Dirs]
Outboxes ==
    [batch : Seq(Entry), notices : Seq(Notice),
     releases : Seq(Release), held : Seq(Task)]

FlushPcs == {"flush", "wakeone", "push", "sendlist", "finish"}
Pcs == FlushPcs \cup {"start", "pop", "gate", "park", "parked", "sleeping", "gated", "cancel", "notify",
                      "hold", "join", "exit", "open", "scan", "tell", "next", "bye"}
Rets == {"hold", "next", "scan", "tell", "cancel"}
Thens == {"pop", "hold", "join", "finish", "flush", "bye"}

ThreadStates ==
    [pc : Pcs, then : Thens, ret : Rets, busy : BOOLEAN, task : Task, todo : SUBSET Nodes, ok : BOOLEAN,
     out : Outboxes, kept : Seq(Task), up : Release]
Queues ==
    [tasks : SUBSET Task, holds : Int, closed : BOOLEAN, sleepers : Int, open : BOOLEAN,
     asleep : SUBSET Threads, park : Threads \cup {None}]
Slots == [Dirs -> [pending : Int, incomplete : BOOLEAN, parent : Dirs \cup {None}]]

ScanTypes ==
    /\ t \in [Threads -> ThreadStates]
    /\ q \in Queues
    /\ slot \in Slots

\* The directories of a sequence of tasks or releases; that none is there twice.
DirsOf(list) == {list[i].dir : i \in DOMAIN list}
Once(list) == \A i, j \in DOMAIN list : list[i].dir = list[j].dir => i = j

-----------------------------------------------------------------------------
(* Who has a directory's token.                                            *)

\* A thread that joins sends the last list and leaves; whatever it was
\* reading before is over. (`ret` still names the place a flush returns to.)
Leaving(r) == r.pc = "sendlist" /\ r.then = "bye"
Reading(r) == r.pc = "scan" \/ (r.pc \in FlushPcs /\ r.ret = "scan" /\ ~ Leaving(r))
Opening(r) == r.pc = "open" \/ (r.pc = "start" /\ r.busy)

\* The directories that a thread reads, holds, keeps for itself or will release.
TaskOf(r) == IF Reading(r) \/ Opening(r) THEN {r.task.dir} ELSE {}
HeldOf(r) == DirsOf(r.out.held)
KeptOf(r) == DirsOf(r.kept)
DueOf(r) == DirsOf(r.out.releases)
Mine(r) == TaskOf(r) \cup HeldOf(r) \cup KeptOf(r) \cup DueOf(r)
Queued(tasks) == {k.dir : k \in tasks}

\* The release a thread carries up to the parent of a finished directory.
Rising(r) == r.pc = "finish" \/ (r.pc = "sendlist" /\ r.then = "finish")
UpTo(r) == IF Rising(r) THEN {r.up.dir} ELSE IF r.pc = "push" /\ r.up.dir # Root THEN {Parent[r.up.dir]} ELSE {}

\* Registered; none of its children is.
Known(s, d) == d = Root \/ s[d].parent # None
Unread(s, d) == \A e \in Dirs \ {Root} : s[e].parent # d

\* A thread has no token twice.
Orderly(r) ==
    /\ Once(r.out.held) /\ Once(r.kept) /\ Once(r.out.releases)
    /\ TaskOf(r) \cap HeldOf(r) = {} /\ TaskOf(r) \cap KeptOf(r) = {} /\ TaskOf(r) \cap DueOf(r) = {}
    /\ HeldOf(r) \cap KeptOf(r) = {} /\ HeldOf(r) \cap DueOf(r) = {} /\ KeptOf(r) \cap DueOf(r) = {}
    /\ r.pc = "notify" => r.then \in {"pop", "hold", "join"}
    /\ r.pc = "sendlist" => r.then \in {"finish", "flush", "bye"}

\* What is not read yet is not registered yet.
Fresh(r, s) ==
    /\ Reading(r) => r.todo \subseteq Kids(r.task.dir) /\ \A e \in r.todo \cap Dirs : s[e].parent = None
    /\ Opening(r) => Unread(s, r.task.dir)
    /\ \A d \in HeldOf(r) \cup KeptOf(r) : Unread(s, d)

\* A thread deals with registered directories only.
Grounded(r, s) ==
    /\ \A d \in Mine(r) \cup UpTo(r) : Known(s, d)
    /\ r.pc = "push" => Known(s, r.up.dir)

QueueFresh(tasks, s) ==
    /\ \A d \in Queued(tasks) : Unread(s, d) /\ Known(s, d)
    /\ \A k, l \in tasks : k.dir = l.dir => k = l

\* No two threads, nor a thread and the queue, have the same token.
Apart(tt, tasks) ==
    /\ \A x, y \in Threads : x # y => Mine(tt[x]) \cap Mine(tt[y]) = {}
    /\ \A x \in Threads : Mine(tt[x]) \cap Queued(tasks) = {}

\* A registered directory has its parent registered.
Rooted(s) ==
    \A d \in Dirs : s[d].parent # None =>
        d # Root /\ s[d].parent = Parent[d] /\ Parent[d] # d /\ Known(s, Parent[d])

-----------------------------------------------------------------------------
(* The counts.                                                             *)

Owned(tt, tasks) == Queued(tasks) \cup UNION {Mine(tt[x]) : x \in Threads}
OpenKids(s, d) == {e \in Dirs \ {Root} : s[e].parent = d /\ s[e].pending # 0}
Ups(tt, d) == {x \in Threads : d \in UpTo(tt[x])}
One(tt, tasks, d) == IF d \in Owned(tt, tasks) THEN 1 ELSE 0

\* The count covers the unfinished children, the releases on their way and
\* the directory's own token.
Counted(tt, tasks, s) ==
    \A d \in Dirs : s[d].pending >= Cardinality(OpenKids(s, d)) + Cardinality(Ups(tt, d)) + One(tt, tasks, d)

\* A finished, incomplete directory has told its parent, or a thread is about to.
Carries(r, e) == (r.pc = "push" /\ r.up.dir = e) \/ (Rising(r) /\ r.up.dir = Parent[e] /\ ~ r.up.ok)
Spoiled(s, e) == s[e].parent # None /\ s[e].pending = 0 /\ s[e].incomplete
Blamed(tt, s) ==
    \A e \in Dirs \ {Root} : Spoiled(s, e) => s[Parent[e]].incomplete \/ \E x \in Threads : Carries(tt[x], e)

\* The workers start with the thread that starts the scan.
Together(tt) == tt[Main].pc = "start" => tt[Main].busy /\ \A x \in Threads : tt[x].pc = "start"

Sound(tt, tasks, s) ==
    /\ \A x \in Threads : Orderly(tt[x]) /\ Fresh(tt[x], s) /\ Grounded(tt[x], s)
    /\ QueueFresh(tasks, s) /\ Apart(tt, tasks) /\ Rooted(s)
    /\ Counted(tt, tasks, s) /\ Blamed(tt, s) /\ Together(tt)

IInv == ScanTypes /\ Sound(t, q.tasks, slot)
-----------------------------------------------------------------------------
(* Directories of a sequence.                                              *)

LEMMA EmptyDirs == DirsOf(<<>>) = {} /\ Once(<<>>)
BY DEF DirsOf, Once

LEMMA AppendDirs ==
  ASSUME NEW S, NEW list \in Seq(S), NEW e \in S
  PROVE  /\ Append(list, e) \in Seq(S)
         /\ DirsOf(Append(list, e)) = DirsOf(list) \cup {e.dir}
         /\ Once(list) /\ e.dir \notin DirsOf(list) => Once(Append(list, e))
<1> DEFINE new == Append(list, e)
<1>1. new \in Seq(S) /\ DOMAIN new = DOMAIN list \cup {Len(list) + 1} /\ Len(list) \in Nat
      /\ DOMAIN list = 1 .. Len(list)
  OBVIOUS
<1>2. new[Len(list) + 1] = e /\ \A i \in DOMAIN list : new[i] = list[i]
  OBVIOUS
<1> HIDE DEF new
<1>3. DirsOf(new) = DirsOf(list) \cup {e.dir}
  BY <1>1, <1>2 DEF DirsOf
<1>4. ASSUME Once(list), e.dir \notin DirsOf(list) PROVE Once(new)
  BY <1>1, <1>2, <1>4 DEF DirsOf, Once
<1> QED BY <1>1, <1>3, <1>4 DEF new

LEMMA TailDirs ==
  ASSUME NEW S, NEW list \in Seq(S), list # <<>>, Once(list)
  PROVE  /\ Tail(list) \in Seq(S) /\ Head(list) \in S
         /\ DirsOf(Tail(list)) = DirsOf(list) \ {Head(list).dir}
         /\ Head(list).dir \in DirsOf(list)
         /\ Once(Tail(list))
<1> DEFINE new == Tail(list)
<1>1. /\ new \in Seq(S) /\ Len(list) \in Nat /\ Len(list) > 0 /\ Len(new) = Len(list) - 1
      /\ DOMAIN new = 1 .. Len(list) - 1 /\ DOMAIN list = 1 .. Len(list)
      /\ Head(list) = list[1] /\ list[1] \in S
  OBVIOUS
<1>2. \A i \in DOMAIN new : new[i] = list[i + 1]
  OBVIOUS
<1> HIDE DEF new
<1>3. \A d \in DirsOf(new) : d \in DirsOf(list) /\ d # list[1].dir
  <2> SUFFICES ASSUME NEW i \in DOMAIN new PROVE new[i].dir \in DirsOf(list) /\ new[i].dir # list[1].dir
    BY DEF DirsOf
  <2>1. new[i] = list[i + 1] /\ i + 1 \in DOMAIN list /\ 1 \in DOMAIN list /\ i + 1 # 1
    BY <1>1, <1>2
  <2> QED BY <2>1 DEF DirsOf, Once
<1>4. \A d \in DirsOf(list) : d # list[1].dir => d \in DirsOf(new)
  <2> SUFFICES ASSUME NEW i \in DOMAIN list, list[i].dir # list[1].dir PROVE list[i].dir \in DirsOf(new)
    BY DEF DirsOf
  <2>1. i - 1 \in DOMAIN new /\ (i - 1) + 1 = i
    BY <1>1
  <2>2. new[i - 1] = list[i]
    BY <2>1, <1>2
  <2> QED BY <2>1, <2>2 DEF DirsOf
<1>5. Once(new)
  <2> SUFFICES ASSUME NEW i \in DOMAIN new, NEW j \in DOMAIN new, new[i].dir = new[j].dir PROVE i = j
    BY DEF Once
  <2>1. i + 1 \in DOMAIN list /\ j + 1 \in DOMAIN list /\ list[i + 1].dir = list[j + 1].dir
    BY <1>1, <1>2
  <2>2. i + 1 = j + 1
    BY <2>1 DEF Once
  <2> QED BY <2>2, <1>1
<1>6. list[1].dir \in DirsOf(list)
  BY <1>1 DEF DirsOf
<1> QED BY <1>1, <1>3, <1>4, <1>5, <1>6 DEF new

LEMMA FrontDirs ==
  ASSUME NEW S, NEW list \in Seq(S), list # <<>>, Once(list)
  PROVE  LET rest == SubSeq(list, 1, Len(list) - 1)
             last == list[Len(list)]
         IN  /\ rest \in Seq(S) /\ last \in S /\ Once(rest)
             /\ DirsOf(rest) = DirsOf(list) \ {last.dir} /\ last.dir \in DirsOf(list)
<1> DEFINE new == SubSeq(list, 1, Len(list) - 1)
           n == Len(list)
<1>1. /\ new \in Seq(S) /\ n \in Nat /\ n > 0 /\ DOMAIN new = 1 .. n - 1 /\ DOMAIN list = 1 .. n
      /\ list[n] \in S /\ \A i \in DOMAIN new : new[i] = list[i]
  OBVIOUS
<1> HIDE DEF new, n
<1>2. n \in DOMAIN list /\ \A i \in DOMAIN new : i \in DOMAIN list /\ i # n
  BY <1>1
<1>3. \A i \in DOMAIN list : i # n => i \in DOMAIN new
  BY <1>1
<1>a. Once(new) /\ list[n].dir \in DirsOf(list)
  BY <1>1, <1>2 DEF DirsOf, Once
<1>b. \A d \in DirsOf(new) : d \in DirsOf(list) /\ d # list[n].dir
  BY <1>1, <1>2 DEF DirsOf, Once
<1>c. \A d \in DirsOf(list) : d # list[n].dir => d \in DirsOf(new)
  BY <1>1, <1>3 DEF DirsOf
<1>4. DirsOf(new) = DirsOf(list) \ {list[n].dir}
  BY <1>a, <1>b, <1>c
<1> QED BY <1>1, <1>a, <1>4 DEF new, n
-----------------------------------------------------------------------------
\* One thread moves; what it owns, the queue included, only moves or shrinks.
Unrisen(r, new, s) ==
    /\ UpTo(new) = UpTo(r)
    /\ \A e \in Dirs \ {Root} : Spoiled(s, e) /\ Carries(r, e) => Carries(new, e)
    /\ new.pc = "push" => r.pc = "push" /\ new.up = r.up

LEMMA OneThread ==
  ASSUME NEW tt, NEW tasks, NEW s, NEW x \in Threads, Sound(tt, tasks, s),
         NEW new, NEW more,
         Orderly(new), Fresh(new, s), QueueFresh(more, s),
         Mine(new) \subseteq Mine(tt[x]) \cup Queued(tasks),
         Queued(more) \subseteq Mine(tt[x]) \cup Queued(tasks),
         Mine(new) \cap Queued(more) = {},
         Unrisen(tt[x], new, s), tt[x].pc # "start", new.pc # "start",
         IsFiniteSet(Dirs), s \in Slots,
         NEW tt2, tt2[x] = new, \A y \in Threads \ {x} : tt2[y] = tt[y]
  PROVE  Sound(tt2, more, s)
<1>1. /\ QueueFresh(tasks, s) /\ Apart(tt, tasks) /\ Rooted(s) /\ Counted(tt, tasks, s)
      /\ Blamed(tt, s) /\ Together(tt)
      /\ \A y \in Threads : Orderly(tt[y]) /\ Fresh(tt[y], s) /\ Grounded(tt[y], s)
  BY DEF Sound
<1>2. Apart(tt2, more)
  <2>1. \A y \in Threads \ {x} : Mine(tt2[y]) = Mine(tt[y]) /\ Mine(tt[y]) \cap Mine(tt[x]) = {}
                                 /\ Mine(tt[y]) \cap Queued(tasks) = {}
    BY <1>1 DEF Apart
  <2>2. Mine(tt2[x]) = Mine(new)
    OBVIOUS
  <2>3. \A y, z \in Threads \ {x} : y # z => Mine(tt2[y]) \cap Mine(tt2[z]) = {}
    BY <1>1 DEF Apart
  <2>4. \A y \in Threads \ {x} : Mine(tt2[y]) \cap Mine(tt2[x]) = {} /\ Mine(tt2[y]) \cap Queued(more) = {}
    <3> HIDE DEF Mine, Queued
    <3> QED BY <2>1, <2>2
  <2>5. Mine(tt2[x]) \cap Queued(more) = {}
    BY <2>2
  <2> QED BY <2>3, <2>4, <2>5 DEF Apart
<1>3. Owned(tt2, more) \subseteq Owned(tt, tasks)
  <2> SUFFICES ASSUME NEW y \in Threads PROVE Mine(tt2[y]) \subseteq Owned(tt, tasks)
                                              /\ Queued(more) \subseteq Owned(tt, tasks)
    BY DEF Owned
  <2>1. Mine(tt[y]) \subseteq Owned(tt, tasks) /\ Mine(tt[x]) \subseteq Owned(tt, tasks)
        /\ Queued(tasks) \subseteq Owned(tt, tasks)
    BY DEF Owned
  <2> QED BY <2>1
<1>4. \A d \in Dirs : Ups(tt2, d) = Ups(tt, d)
  BY DEF Ups, Unrisen
<1>5. Counted(tt2, more, s)
  <2> SUFFICES ASSUME NEW d \in Dirs
               PROVE s[d].pending >= Cardinality(OpenKids(s, d)) + Cardinality(Ups(tt2, d)) + One(tt2, more, d)
    BY DEF Counted
  <2>1. s[d].pending >= Cardinality(OpenKids(s, d)) + Cardinality(Ups(tt, d)) + One(tt, tasks, d)
    BY <1>1 DEF Counted
  <2>2. One(tt2, more, d) = One(tt, tasks, d) \/ (One(tt2, more, d) = 0 /\ One(tt, tasks, d) = 1)
    BY <1>3 DEF One
  <2>3. Ups(tt2, d) = Ups(tt, d)
    BY <1>4
  <2>4. IsFiniteSet(OpenKids(s, d)) /\ IsFiniteSet(Ups(tt, d))
    <3>1. OpenKids(s, d) \subseteq Dirs /\ Ups(tt, d) \subseteq Threads
      BY DEF OpenKids, Ups
    <3>2. IsFiniteSet(Threads)
      BY ScanAssumption, FS_Singleton, FS_Union DEF Threads
    <3> QED BY <3>1, <3>2, FS_Subset
  <2>5. Cardinality(OpenKids(s, d)) \in Nat /\ Cardinality(Ups(tt, d)) \in Nat
    BY <2>4, FS_CardinalityType
  <2>6. s[d].pending \in Int
    BY DEF Slots
  <2> QED BY <2>1, <2>2, <2>3, <2>5, <2>6
<1>6. Grounded(new, s)
  <2>1. \A d \in Mine(tt[x]) \cup Queued(tasks) : Known(s, d)
    BY <1>1 DEF Grounded, QueueFresh
  <2>2. \A d \in UpTo(new) : Known(s, d)
    BY <1>1 DEF Grounded, Unrisen
  <2>3. new.pc = "push" => Known(s, new.up.dir)
    BY <1>1 DEF Grounded, Unrisen
  <2> QED BY <2>1, <2>2, <2>3 DEF Grounded
<1>7. Blamed(tt2, s)
  <2> SUFFICES ASSUME NEW e \in Dirs \ {Root}, Spoiled(s, e), ~ s[Parent[e]].incomplete
               PROVE  \E y \in Threads : Carries(tt2[y], e)
    BY DEF Blamed
  <2>1. PICK y \in Threads : Carries(tt[y], e)
    BY <1>1 DEF Blamed
  <2>2. Carries(tt2[y], e)
    BY <2>1 DEF Unrisen
  <2> QED BY <2>2
<1>8. Together(tt2)
  <2>1. tt[Main].pc # "start"
    BY <1>1 DEF Together
  <2>2. Main \in Threads
    BY DEF Threads
  <2> QED BY <2>1, <2>2 DEF Together
<1>9. \A y \in Threads : Orderly(tt2[y]) /\ Fresh(tt2[y], s) /\ Grounded(tt2[y], s)
  BY <1>1, <1>6
<1> QED BY <1>1, <1>2, <1>5, <1>7, <1>8, <1>9 DEF Sound

\* A thread moves and keeps what it owns where it is, or lets it go.
LEMMA QuietThread ==
  ASSUME NEW tt, NEW tasks, NEW s, NEW x \in Threads, Sound(tt, tasks, s),
         IsFiniteSet(Dirs), s \in Slots,
         NEW tt2, \A y \in Threads \ {x} : tt2[y] = tt[y],
         NEW more, more \subseteq tasks,
         tt2[x].task.dir = tt[x].task.dir, tt2[x].todo = tt[x].todo, tt2[x].kept = tt[x].kept,
         tt2[x].out.held = tt[x].out.held, tt2[x].out.releases = tt[x].out.releases,
         Reading(tt2[x]) => Reading(tt[x]), Opening(tt2[x]) => Opening(tt[x]),
         Unrisen(tt[x], tt2[x], s), tt[x].pc # "start", tt2[x].pc # "start",
         tt2[x].pc = "notify" => tt2[x].then \in {"pop", "hold", "join"},
         tt2[x].pc = "sendlist" => tt2[x].then \in {"finish", "flush", "bye"}
  PROVE  Sound(tt2, more, s)
<1> DEFINE r == tt[x]
           new == tt2[x]
<1>1. Orderly(r) /\ Fresh(r, s) /\ QueueFresh(tasks, s) /\ Mine(r) \cap Queued(tasks) = {}
  BY DEF Sound, Apart
<1>2. HeldOf(new) = HeldOf(r) /\ KeptOf(new) = KeptOf(r) /\ DueOf(new) = DueOf(r)
  BY DEF HeldOf, KeptOf, DueOf
<1>3. TaskOf(new) \subseteq TaskOf(r)
  BY DEF TaskOf
<1>4. Mine(new) \subseteq Mine(r)
  BY <1>2, <1>3 DEF Mine
<1>5. Queued(more) \subseteq Queued(tasks)
  BY DEF Queued
<1>6. QueueFresh(more, s)
  BY <1>1, <1>5 DEF QueueFresh
<1>7. Orderly(new)
  BY <1>1, <1>2, <1>3 DEF Orderly
<1>8. Fresh(new, s)
  BY <1>1, <1>2 DEF Fresh
<1>9. Mine(new) \cap Queued(more) = {}
  BY <1>1, <1>4, <1>5
<1> HIDE DEF r, new
<1>10. Mine(new) \subseteq Mine(r) \cup Queued(tasks) /\ Queued(more) \subseteq Mine(r) \cup Queued(tasks)
  BY <1>4, <1>5
<1> QED BY <1>6, <1>7, <1>8, <1>9, <1>10, OneThread DEF r, new
-----------------------------------------------------------------------------
LEMMA Names ==
  /\ "flush" \in Pcs /\ "wakeone" \in Pcs /\ "push" \in Pcs /\ "sendlist" \in Pcs /\ "finish" \in Pcs
  /\ "start" \in Pcs /\ "pop" \in Pcs /\ "gate" \in Pcs /\ "park" \in Pcs /\ "parked" \in Pcs
  /\ "sleeping" \in Pcs /\ "gated" \in Pcs /\ "cancel" \in Pcs /\ "notify" \in Pcs /\ "hold" \in Pcs
  /\ "join" \in Pcs /\ "exit" \in Pcs /\ "open" \in Pcs /\ "scan" \in Pcs /\ "tell" \in Pcs
  /\ "next" \in Pcs /\ "bye" \in Pcs
  /\ "pop" \in Thens /\ "hold" \in Thens /\ "join" \in Thens /\ "finish" \in Thens /\ "flush" \in Thens /\ "bye" \in Thens
  /\ "hold" \in Rets /\ "next" \in Rets /\ "scan" \in Rets /\ "tell" \in Rets /\ "cancel" \in Rets
  /\ Thens \subseteq Pcs /\ Rets \subseteq Pcs
BY DEF Pcs, FlushPcs, Thens, Rets

Same(r, new) ==
    /\ new.task.dir = r.task.dir /\ new.todo = r.todo /\ new.kept = r.kept /\ new.up = r.up
    /\ new.out.held = r.out.held /\ new.out.releases = r.out.releases
Alone(tt, tt2, x) == tt2 \in [Threads -> ThreadStates] /\ \A y \in Threads \ {x} : tt2[y] = tt[y]

\* The shapes in which most steps change a thread's record.
LEMMA PcShape ==
  ASSUME ScanTypes, NEW x \in Threads, NEW pc \in Pcs, NEW tt2, tt2 = [t EXCEPT ![x].pc = pc]
  PROVE  Alone(t, tt2, x) /\ Same(t[x], tt2[x]) /\ tt2[x].pc = pc /\ tt2[x].then = t[x].then /\ tt2[x].ret = t[x].ret
BY DEF ScanTypes, ThreadStates, Same, Alone

LEMMA QueueFields ==
  ASSUME ScanTypes
  PROVE  /\ q \in Queues /\ q.holds \in Int /\ q.sleepers \in Int /\ q.sleepers + 1 \in Int /\ q.sleepers - 1 \in Int
         /\ q.asleep \subseteq Threads /\ q.tasks \subseteq Task
BY DEF ScanTypes, Queues

LEMMA ThreadFields ==
  ASSUME ScanTypes, NEW x \in Threads
  PROVE  /\ t[x] \in ThreadStates /\ t[x].pc \in Pcs /\ t[x].then \in Thens /\ t[x].ret \in Rets
         /\ t[x].then \in Pcs /\ t[x].ret \in Pcs
         /\ t[x].task \in Task /\ t[x].task.dir \in Dirs /\ t[x].todo \subseteq Nodes
         /\ t[x].out \in Outboxes /\ t[x].out.held \in Seq(Task) /\ t[x].out.releases \in Seq(Release)
         /\ t[x].kept \in Seq(Task) /\ t[x].up \in Release /\ t[x].up.dir \in Dirs
BY Names DEF ScanTypes, ThreadStates, Outboxes, Task, Release

\* A quiet step of one thread.
LEMMA QuietMove ==
  ASSUME IInv, NEW x \in Threads, Alone(t, t', x), q' \in Queues, q'.tasks \subseteq q.tasks, slot' = slot,
         Same(t[x], t'[x]),
         Reading(t'[x]) => Reading(t[x]), Opening(t'[x]) => Opening(t[x]),
         Rising(t'[x]) <=> Rising(t[x]), t'[x].pc # "push", t[x].pc # "push",
         t[x].pc # "start", t'[x].pc # "start",
         t'[x].pc = "notify" => t'[x].then \in {"pop", "hold", "join"},
         t'[x].pc = "sendlist" => t'[x].then \in {"finish", "flush", "bye"}
  PROVE  IInv'
<1>1. Unrisen(t[x], t'[x], slot)
  BY DEF Unrisen, UpTo, Carries, Same
<1>2. IsFiniteSet(Dirs) /\ slot \in Slots /\ Sound(t, q.tasks, slot)
  BY ScanAssumption, FS_Subset DEF IInv, ScanTypes
<1>3. Sound(t', q'.tasks, slot)
  BY <1>1, <1>2, QuietThread DEF Same, Alone
<1> QED BY <1>2, <1>3 DEF IInv, ScanTypes, Alone

LEMMA GateKeeps ==
  ASSUME IInv, NEW x \in Threads, Gate(x) PROVE IInv'
<1>t. ScanTypes
  BY DEF IInv
<1>1. PICK pc \in {"pop", "gated"} : t' = [t EXCEPT ![x].pc = pc]
  BY DEF Gate, Go
<1>2. pc \in Pcs
  BY Names
<1>3. Alone(t, t', x) /\ Same(t[x], t'[x]) /\ t'[x].pc = pc
  BY <1>t, <1>1, <1>2, PcShape
<1>4. q' \in Queues /\ q'.tasks = q.tasks /\ slot' = slot /\ t[x].pc = "gate"
  BY <1>t, QueueFields DEF Gate, Queues, At
<1> QED BY <1>3, <1>4, QuietMove DEF Reading, Leaving, Opening, Rising, FlushPcs

LEMMA ParkKeeps ==
  ASSUME IInv, NEW x \in Threads, Park(x) PROVE IInv'
<1>t. ScanTypes
  BY DEF IInv
<1>1. PICK pc \in {"parked"} : t' = [t EXCEPT ![x].pc = pc]
  BY DEF Park, Go
<1>2. pc \in Pcs
  BY Names
<1>3. Alone(t, t', x) /\ Same(t[x], t'[x]) /\ t'[x].pc = pc /\ t'[x].ret = t[x].ret
  BY <1>t, <1>1, <1>2, PcShape
<1>4. q' \in Queues /\ q'.tasks = q.tasks /\ slot' = slot /\ t[x].pc \in {"park"}
  BY <1>t, QueueFields DEF Park, Queues, At
<1> QED BY <1>3, <1>4, QuietMove DEF Reading, Leaving, Opening, Rising, FlushPcs

LEMMA WakeKeeps ==
  ASSUME IInv, NEW x \in Threads, Wake(x) PROVE IInv'
<1>t. ScanTypes
  BY DEF IInv
<1>1. PICK pc \in {"pop"} : t' = [t EXCEPT ![x].pc = pc]
  BY DEF Wake, Go
<1>2. pc \in Pcs
  BY Names
<1>3. Alone(t, t', x) /\ Same(t[x], t'[x]) /\ t'[x].pc = pc /\ t'[x].ret = t[x].ret
  BY <1>t, <1>1, <1>2, PcShape
<1>4. q' \in Queues /\ q'.tasks = q.tasks /\ slot' = slot /\ t[x].pc \in {"sleeping", "gated"}
  BY <1>t, QueueFields DEF Wake, Queues, At
<1> QED BY <1>3, <1>4, QuietMove DEF Reading, Leaving, Opening, Rising, FlushPcs

LEMMA WakeOneKeeps ==
  ASSUME IInv, NEW x \in Threads, WakeOne(x) PROVE IInv'
<1>t. ScanTypes
  BY DEF IInv
<1>1. PICK pc \in {"flush"} : t' = [t EXCEPT ![x].pc = pc]
  BY DEF WakeOne, Go
<1>2. pc \in Pcs
  BY Names
<1>3. Alone(t, t', x) /\ Same(t[x], t'[x]) /\ t'[x].pc = pc /\ t'[x].ret = t[x].ret
  BY <1>t, <1>1, <1>2, PcShape
<1>4. q' \in Queues /\ q'.tasks = q.tasks /\ slot' = slot /\ t[x].pc \in {"wakeone"}
  BY <1>t, QueueFields DEF WakeOne, Queues, At
<1> QED BY <1>3, <1>4, QuietMove DEF Reading, Leaving, Opening, Rising, FlushPcs

LEMMA ParkedKeeps ==
  ASSUME IInv, NEW x \in Threads, Parked(x) PROVE IInv'
<1>t. ScanTypes
  BY DEF IInv
<1>1. PICK pc \in {"pop", "sleeping"} : t' = [t EXCEPT ![x].pc = pc]
  BY DEF Parked, Go
<1>2. pc \in Pcs
  BY Names
<1>3. Alone(t, t', x) /\ Same(t[x], t'[x]) /\ t'[x].pc = pc
  BY <1>t, <1>1, <1>2, PcShape
<1>4. q' \in Queues /\ q'.tasks = q.tasks
  <2>1. CASE q' = [q EXCEPT !.park = None, !.sleepers = @ - 1]
    BY <1>t, <2>1, QueueFields DEF Queues
  <2>2. CASE q' = [q EXCEPT !.park = None, !.asleep = @ \cup {x}]
    BY <1>t, <2>2, QueueFields DEF Queues
  <2> QED BY <2>1, <2>2 DEF Parked
<1>5. slot' = slot /\ t[x].pc = "parked"
  BY DEF Parked, At
<1> QED BY <1>3, <1>4, <1>5, QuietMove DEF Reading, Leaving, Opening, Rising, FlushPcs

LEMMA CancelKeeps ==
  ASSUME IInv, NEW x \in Threads, Cancel(x) PROVE IInv'
<1>t. ScanTypes
  BY DEF IInv
<1>1. PICK pc \in {"hold", "notify"}, then \in {"hold"} : t' = [t EXCEPT ![x].pc = pc, ![x].then = then]
  BY DEF Cancel
<1>2. pc \in Pcs /\ then \in Thens
  BY Names
<1>3. Alone(t, t', x) /\ Same(t[x], t'[x]) /\ t'[x].pc = pc /\ t'[x].then = then
  BY <1>t, <1>1, <1>2 DEF ScanTypes, ThreadStates, Same, Alone
<1>4. q' \in Queues /\ q'.tasks = q.tasks /\ slot' = slot /\ t[x].pc = "cancel"
  BY <1>t, QueueFields DEF Cancel, Queues, At
<1> QED BY <1>3, <1>4, QuietMove DEF Reading, Leaving, Opening, Rising, FlushPcs

LEMMA NotifyKeeps ==
  ASSUME IInv, NEW x \in Threads, Notify(x) PROVE IInv'
<1>t. ScanTypes
  BY DEF IInv
<1>1. t[x].pc = "notify" /\ \E then \in {"hold"} : t' = [t EXCEPT ![x].pc = t[x].then, ![x].then = then]
  BY DEF Notify, At
<1>p. PICK then \in {"hold"} : t' = [t EXCEPT ![x].pc = t[x].then, ![x].then = then]
  BY <1>1
<1>2. t[x].then \in Pcs /\ then \in Thens
  BY <1>t, Names, ThreadFields
<1>3. Alone(t, t', x) /\ Same(t[x], t'[x]) /\ t'[x].pc = t[x].then /\ t'[x].then = then
  BY ZenonT(30), <1>t, <1>p, <1>2 DEF ScanTypes, ThreadStates, Same, Alone
<1>4. q' \in Queues /\ q'.tasks = q.tasks /\ slot' = slot
  BY <1>t, QueueFields DEF Notify, Queues
<1>5. t[x].then \in {"pop", "hold", "join"}
  BY <1>1 DEF IInv, Sound, Orderly
<1> QED BY <1>1, <1>3, <1>4, <1>5, QuietMove DEF Reading, Leaving, Opening, Rising, FlushPcs

LEMMA SendFinishedKeeps ==
  ASSUME IInv, NEW x \in Threads, SendFinished(x) PROVE IInv'
<1>t. ScanTypes
  BY DEF IInv
<1>1. t' = [t EXCEPT ![x].pc = t[x].then] /\ t[x].pc = "sendlist"
  BY DEF SendFinished, At, Go
<1>2. t[x].then \in Pcs
  BY <1>t, Names, ThreadFields
<1>3. Alone(t, t', x) /\ Same(t[x], t'[x]) /\ t'[x].pc = t[x].then /\ t'[x].then = t[x].then /\ t'[x].ret = t[x].ret
  BY <1>t, <1>1, <1>2, PcShape
<1>4. q' \in Queues /\ q'.tasks = q.tasks /\ slot' = slot
  BY <1>t, QueueFields DEF SendFinished
<1>5. t[x].then \in {"finish", "flush", "bye"}
  BY <1>1 DEF IInv, Sound, Orderly
<1> QED BY <1>1, <1>3, <1>4, <1>5, QuietMove DEF Reading, Leaving, Opening, Rising, FlushPcs

LEMMA JoinKeeps ==
  ASSUME IInv, Join PROVE IInv'
<1>t. ScanTypes /\ Main \in Threads
  BY DEF IInv, Threads
<1>1. q' \in Queues /\ q'.tasks = q.tasks /\ slot' = slot /\ t[Main].pc = "join"
  BY <1>t, QueueFields DEF Join, At
<1>2. CASE Go(Main, "bye")
  <2>p. PICK pc \in {"bye"} : t' = [t EXCEPT ![Main].pc = pc]
    BY <1>2 DEF Go
  <2>1. pc \in Pcs
    BY Names
  <2>2. Alone(t, t', Main) /\ Same(t[Main], t'[Main]) /\ t'[Main].pc = pc
    BY <1>t, <2>p, <2>1, PcShape
  <2> QED BY <1>t, <1>1, <2>2, QuietMove DEF Reading, Leaving, Opening, Rising, FlushPcs
<1>3. CASE t' = [t EXCEPT ![Main].pc = "sendlist", ![Main].then = "bye"]
  <2>p. PICK pc \in {"sendlist"}, then \in {"bye"} : t' = [t EXCEPT ![Main].pc = pc, ![Main].then = then]
    BY <1>3
  <2>1. pc \in Pcs /\ then \in Thens
    BY Names
  <2>2. /\ Alone(t, t', Main) /\ Same(t[Main], t'[Main])
        /\ t'[Main].pc = pc /\ t'[Main].then = then /\ t'[Main].ret = t[Main].ret
    BY <1>t, <2>p, <2>1 DEF ScanTypes, ThreadStates, Same, Alone
  <2> QED BY <1>t, <1>1, <2>2, QuietMove DEF Leaving, Reading, Opening, Rising, FlushPcs
<1> QED BY <1>2, <1>3 DEF Join

LEMMA TellKeeps ==
  ASSUME IInv, NEW x \in Threads, Tell(x) PROVE IInv'
<1>t. ScanTypes
  BY DEF IInv
<1>1. t[x].pc = "tell"
  BY DEF Tell, At
<1>p. PICK pc \in {"flush"}, ret \in {"cancel"} : t' = [t EXCEPT ![x].pc = pc, ![x].ret = ret]
  BY DEF Tell
<1>2. pc \in Pcs /\ ret \in Rets
  BY Names
<1>3. Alone(t, t', x) /\ Same(t[x], t'[x]) /\ t'[x].pc = pc /\ t'[x].ret = ret
  BY <1>t, <1>p, <1>2 DEF ScanTypes, ThreadStates, Same, Alone
<1>4. q' \in Queues /\ q'.tasks = q.tasks /\ slot' = slot
  BY <1>t, QueueFields DEF Tell
<1> QED BY <1>1, <1>3, <1>4, QuietMove DEF Reading, Leaving, Opening, Rising, FlushPcs

\* A thread that is done with its tree, or with the scan, has nothing left.
LEMMA Emptied ==
  ASSUME NEW pc \in Pcs, NEW then \in Thens
  PROVE  /\ Between(pc) \in ThreadStates /\ [Between(pc) EXCEPT !.then = then] \in ThreadStates
         /\ Between(pc).out = EmptyOutbox /\ Between(pc).kept = <<>> /\ Between(pc).pc = pc
         /\ Between(pc).ret = "hold" /\ Between(pc).then = "hold"
<1>2. EmptyOutbox \in Outboxes /\ NoRelease \in Release /\ [dir |-> Root, opened |-> TRUE] \in Task
  BY ScanAssumption DEF EmptyOutbox, Outboxes, NoRelease, Release, Task
<1>3. Between(pc) \in ThreadStates
  BY <1>2, Names DEF ThreadStates, Between
<1>4. [Between(pc) EXCEPT !.then = then] \in ThreadStates
  BY <1>3 DEF ThreadStates
<1> QED BY <1>3, <1>4 DEF Between

LEMMA EmptyMove ==
  ASSUME IInv, NEW x \in Threads, NEW new \in ThreadStates, t' = [t EXCEPT ![x] = new],
         new.out = EmptyOutbox, new.kept = <<>>, new.ret = "hold",
         new.pc \notin FlushPcs \cup {"scan", "open", "start"}, new.pc = "notify" => new.then \in {"pop", "hold", "join"},
         q' \in Queues, q'.tasks = q.tasks, slot' = slot,
         t[x].pc \notin {"push", "start"}, ~ Rising(t[x])
  PROVE  IInv'
<1>2. t' \in [Threads -> ThreadStates] /\ t'[x] = new /\ \A y \in Threads \ {x} : t'[y] = t[y]
  BY DEF IInv, ScanTypes
<1>1. new.out.held = <<>> /\ new.out.releases = <<>>
  BY DEF EmptyOutbox
<1>8. ~ Reading(new) /\ ~ Opening(new) /\ ~ Rising(new) /\ new.pc # "push" /\ new.pc # "sendlist"
  BY DEF Reading, Leaving, Opening, Rising, FlushPcs
<1>9. TaskOf(new) = {} /\ HeldOf(new) = {} /\ KeptOf(new) = {} /\ DueOf(new) = {} /\ UpTo(new) = {}
  BY <1>1, <1>8, EmptyDirs DEF TaskOf, HeldOf, KeptOf, DueOf, UpTo
<1>3. Orderly(new) /\ Mine(new) = {}
  BY <1>1, <1>8, <1>9, EmptyDirs DEF Orderly, Mine
<1>4. Fresh(new, slot)
  BY <1>8, <1>9 DEF Fresh
<1>5. Unrisen(t[x], new, slot)
  BY <1>8, <1>9 DEF Unrisen, UpTo, Carries
<1>6. QueueFresh(q.tasks, slot) /\ IsFiniteSet(Dirs) /\ slot \in Slots /\ Sound(t, q.tasks, slot)
  BY ScanAssumption, FS_Subset DEF IInv, ScanTypes, Sound
<1>10. Mine(new) \subseteq Mine(t[x]) \cup Queued(q.tasks) /\ Mine(new) \cap Queued(q.tasks) = {}
  BY <1>3
<1>11. new.pc # "start" /\ Queued(q.tasks) \subseteq Mine(t[x]) \cup Queued(q.tasks)
  OBVIOUS
<1>7. Sound(t', q.tasks, slot)
  BY <1>2, <1>3, <1>4, <1>5, <1>6, <1>10, <1>11, OneThread
<1> QED BY <1>2, <1>6, <1>7 DEF IInv, ScanTypes

LEMMA ReleaseHoldKeeps ==
  ASSUME IInv, NEW x \in Threads, ReleaseHold(x) PROVE IInv'
<1>1. PICK pc \in {"notify", "join", "pop"}, then \in {"join", "pop", "hold"} :
         t' = [t EXCEPT ![x] = [Between(pc) EXCEPT !.then = then]]
  <2> DEFINE rest == IF x = Main THEN "join" ELSE "pop"
             last == q.holds = 1 /\ ~ q.closed
  <2>1. t' = [t EXCEPT ![x] = [Between(IF last THEN "notify" ELSE rest) EXCEPT !.then = IF last THEN rest ELSE @]]
    BY DEF ReleaseHold
  <2>2. Between("notify").then = "hold" /\ Between(rest).then = "hold"
    BY Emptied, Names
  <2> QED BY <2>1, <2>2
<1> DEFINE new == [Between(pc) EXCEPT !.then = then]
<1>3. pc \in Pcs /\ then \in Thens
  BY Names
<1>4. new \in ThreadStates /\ Between(pc) \in ThreadStates /\ Between(pc).out = EmptyOutbox /\ Between(pc).kept = <<>>
      /\ Between(pc).pc = pc /\ Between(pc).ret = "hold"
  BY <1>3, Emptied
<1>5. new.out = EmptyOutbox /\ new.kept = <<>> /\ new.ret = "hold" /\ new.pc = pc /\ new.then = then
  BY <1>4 DEF ThreadStates
<1>2. q' \in Queues /\ q'.tasks = q.tasks
  <2>1. q' = [q EXCEPT !.holds = @ - 1, !.closed = @ \/ q.holds = 1]
    BY DEF ReleaseHold
  <2>2. (q.closed \/ q.holds = 1) \in BOOLEAN /\ q.holds - 1 \in Int
    BY QueueFields DEF IInv
  <2> QED BY <2>1, <2>2, QueueFields DEF Queues, IInv
<1>6. slot' = slot /\ t[x].pc = "hold"
  BY DEF ReleaseHold, At
<1> HIDE DEF new
<1>7. t' = [t EXCEPT ![x] = new]
  BY <1>1 DEF new
<1> QED BY <1>2, <1>4, <1>5, <1>6, <1>7, EmptyMove DEF Rising, FlushPcs

LEMMA ByeKeeps ==
  ASSUME IInv, Bye PROVE IInv'
<1>1. t' = [t EXCEPT ![Main] = Between("exit")]
  BY DEF Bye
<1>3. /\ Between("exit") \in ThreadStates /\ Between("exit").out = EmptyOutbox /\ Between("exit").kept = <<>>
      /\ Between("exit").pc = "exit" /\ Between("exit").ret = "hold"
  BY Emptied, Names
<1>2. q' \in Queues /\ q'.tasks = q.tasks /\ slot' = slot /\ t[Main].pc = "bye" /\ Main \in Threads
  BY QueueFields DEF Bye, IInv, At, Threads
<1> QED BY <1>1, <1>2, <1>3, EmptyMove DEF Rising, FlushPcs
-----------------------------------------------------------------------------
\* A step of one thread that moves what it owns, or takes it from the queue.
LEMMA TokenMove ==
  ASSUME IInv, NEW x \in Threads, Alone(t, t', x), q' \in Queues, slot' = slot,
         Orderly(t'[x]), Fresh(t'[x], slot), QueueFresh(q'.tasks, slot),
         Mine(t'[x]) \subseteq Mine(t[x]) \cup Queued(q.tasks),
         Queued(q'.tasks) \subseteq Mine(t[x]) \cup Queued(q.tasks),
         Mine(t'[x]) \cap Queued(q'.tasks) = {},
         Unrisen(t[x], t'[x], slot), t[x].pc # "start", t'[x].pc # "start"
  PROVE  IInv'
<1>1. IsFiniteSet(Dirs) /\ slot \in Slots /\ Sound(t, q.tasks, slot)
  BY ScanAssumption, FS_Subset DEF IInv, ScanTypes
<1>2. \A y \in Threads \ {x} : t'[y] = t[y]
  BY DEF Alone
<1>3. Sound(t', q'.tasks, slot)
  BY <1>1, <1>2, OneThread
<1> QED BY <1>1, <1>3 DEF IInv, ScanTypes, Alone

LEMMA SelfMove ==
  ASSUME IInv, NEW x \in Threads, Alone(t, t', x), q' = q, slot' = slot,
         Orderly(t'[x]), Fresh(t'[x], slot), Mine(t'[x]) \subseteq Mine(t[x]),
         Unrisen(t[x], t'[x], slot), t[x].pc # "start", t'[x].pc # "start"
  PROVE  IInv'
<1>1. QueueFresh(q.tasks, slot) /\ Mine(t[x]) \cap Queued(q.tasks) = {} /\ q \in Queues
  BY DEF IInv, ScanTypes, Sound, Apart
<1>2. /\ q' \in Queues /\ QueueFresh(q'.tasks, slot)
      /\ Mine(t'[x]) \subseteq Mine(t[x]) \cup Queued(q.tasks)
      /\ Queued(q'.tasks) \subseteq Mine(t[x]) \cup Queued(q.tasks)
      /\ Mine(t'[x]) \cap Queued(q'.tasks) = {}
  BY <1>1
<1> QED BY <1>2, TokenMove

LEMMA PutAlone ==
  ASSUME ScanTypes, NEW x \in Threads, NEW rec \in ThreadStates, t' = [t EXCEPT ![x] = rec]
  PROVE  Alone(t, t', x) /\ t'[x] = rec
BY DEF ScanTypes, Alone

LEMMA TakeKeeps ==
  ASSUME IInv, NEW x \in Threads, NEW k \in q.tasks, t[x].pc = "pop", slot' = slot,
         q' = [q EXCEPT !.tasks = @ \ {k}],
         t' = [t EXCEPT ![x].pc = "open", ![x].task = k, ![x].busy = TRUE]
  PROVE  IInv'
<1> DEFINE r == t[x]
           new == t'[x]
<1>t. ScanTypes /\ k \in Task /\ k.dir \in Dirs
  BY QueueFields DEF IInv, Task
<1>p. "open" \in Pcs
  BY Names
<1>1. /\ Alone(t, t', x) /\ new.pc = "open" /\ new.task = k /\ new.out = r.out /\ new.kept = r.kept
      /\ new.up = r.up
  <2>r. r \in ThreadStates
    BY <1>t, ThreadFields
  <2> DEFINE rec == [r EXCEPT !.pc = "open", !.task = k, !.busy = TRUE]
  <2>3. rec \in ThreadStates
    BY <1>t, <1>p, <2>r DEF ThreadStates
  <2>4. t' = [t EXCEPT ![x] = rec]
    OBVIOUS
  <2> HIDE DEF rec
  <2>1. Alone(t, t', x)
    BY <1>t, <2>3, <2>4, PutAlone
  <2>2. /\ new.pc = "open" /\ new.task = k /\ new.out = r.out /\ new.kept = r.kept /\ new.up = r.up
    BY <1>t DEF ScanTypes, ThreadStates
  <2> QED BY <2>1, <2>2
<1>2. q' \in Queues /\ q'.tasks = q.tasks \ {k}
  BY <1>t, QueueFields DEF Queues
<1>3. Orderly(r) /\ Fresh(r, slot) /\ QueueFresh(q.tasks, slot) /\ Mine(r) \cap Queued(q.tasks) = {}
  BY DEF IInv, Sound, Apart
<1>4. /\ TaskOf(new) = {k.dir} /\ HeldOf(new) = HeldOf(r) /\ KeptOf(new) = KeptOf(r) /\ DueOf(new) = DueOf(r)
      /\ ~ Reading(new)
  BY <1>1 DEF TaskOf, Reading, Opening, HeldOf, KeptOf, DueOf, FlushPcs
<1>5. k.dir \in Queued(q.tasks) /\ Queued(q'.tasks) \subseteq Queued(q.tasks) \ {k.dir}
  BY <1>2, <1>3 DEF Queued, QueueFresh
<1>6. QueueFresh(q'.tasks, slot)
  BY <1>2, <1>3, <1>5 DEF QueueFresh
<1>7. k.dir \notin HeldOf(r) \cup KeptOf(r) \cup DueOf(r)
  BY <1>3, <1>5 DEF Mine
<1>8. Orderly(new)
  BY <1>1, <1>3, <1>4, <1>7 DEF Orderly
<1>9. Fresh(new, slot)
  BY <1>1, <1>3, <1>4, <1>5 DEF Fresh, QueueFresh
<1>10. Unrisen(r, new, slot)
  BY <1>1 DEF Unrisen, UpTo, Carries, Rising
<1>11. Mine(new) \subseteq Mine(r) \cup {k.dir}
  BY <1>4 DEF Mine
<1> HIDE DEF new, r
<1>12. /\ Mine(new) \subseteq Mine(r) \cup Queued(q.tasks) /\ Queued(q'.tasks) \subseteq Mine(r) \cup Queued(q.tasks)
       /\ Mine(new) \cap Queued(q'.tasks) = {}
  BY <1>3, <1>5, <1>11
<1>13. r.pc # "start" /\ new.pc # "start"
  BY <1>1 DEF r
<1> QED BY <1>1, <1>2, <1>6, <1>8, <1>9, <1>10, <1>12, <1>13, TokenMove DEF new, r

LEMMA NextTaskKeeps ==
  ASSUME IInv, NEW x \in Threads, NextTask(x) PROVE IInv'
<1>t. ScanTypes
  BY DEF IInv
<1>1. slot' = slot /\ t[x].pc = "pop"
  BY DEF NextTask, At
<1>2. CASE q' = [q EXCEPT !.closed = TRUE] /\ t' = [t EXCEPT ![x].pc = "notify", ![x].then = "pop"]
  <2>p. PICK pc \in {"notify"}, then \in {"pop"} : t' = [t EXCEPT ![x].pc = pc, ![x].then = then]
    BY <1>2
  <2>1. pc \in Pcs /\ then \in Thens
    BY Names
  <2>2. Alone(t, t', x) /\ Same(t[x], t'[x]) /\ t'[x].pc = pc /\ t'[x].then = then
    BY <1>t, <2>p, <2>1 DEF ScanTypes, ThreadStates, Same, Alone
  <2>3. q' \in Queues /\ q'.tasks = q.tasks
    BY <1>t, <1>2, QueueFields DEF Queues
  <2> QED BY <1>1, <2>2, <2>3, QuietMove DEF Reading, Leaving, Opening, Rising, FlushPcs
<1>3. CASE q' = q /\ \E pc \in {"exit", "gate", "park"} : Go(x, pc)
  <2>p. PICK pc \in {"exit", "gate", "park"} : t' = [t EXCEPT ![x].pc = pc]
    BY <1>3 DEF Go
  <2>1. pc \in Pcs
    BY Names
  <2>2. Alone(t, t', x) /\ Same(t[x], t'[x]) /\ t'[x].pc = pc
    BY <1>t, <2>p, <2>1, PcShape
  <2>3. q' \in Queues /\ q'.tasks = q.tasks
    BY <1>t, <1>3, QueueFields
  <2> QED BY <1>1, <2>2, <2>3, QuietMove DEF Reading, Leaving, Opening, Rising, FlushPcs
<1>4. CASE \E k \in q.tasks :
                /\ q' = [q EXCEPT !.tasks = @ \ {k}]
                /\ t' = [t EXCEPT ![x].pc = "open", ![x].task = k, ![x].busy = TRUE]
  BY <1>1, <1>4, TakeKeeps
<1> QED BY <1>2, <1>3, <1>4 DEF NextTask

LEMMA SendKeeps ==
  ASSUME IInv, NEW x \in Threads, Send(x) PROVE IInv'
<1> DEFINE r == t[x]
           new == t'[x]
           out == IF r.out.batch # <<>> THEN [r.out EXCEPT !.batch = <<>>] ELSE [r.out EXCEPT !.notices = Tail(@)]
<1>t. ScanTypes /\ r.out \in Outboxes
  BY ThreadFields DEF IInv
<1>1. t' = [t EXCEPT ![x].out = out] /\ r.pc = "flush" /\ slot' = slot /\ q' = q
  BY DEF Send, At
<1>2. r.out.batch # <<>> \/ r.out.notices # <<>>
  <2>1. r.out.batch = <<>> /\ r.out.notices = <<>> => Mail(r.out) = <<>>
    BY DEF Mail
  <2> QED BY <2>1 DEF Send
<1>3. out \in Outboxes /\ out.held = r.out.held /\ out.releases = r.out.releases
  <2>1. CASE r.out.batch # <<>>
    <3>1. <<>> \in Seq(Entry)
      OBVIOUS
    <3> QED BY <1>t, <2>1, <3>1 DEF Outboxes
  <2>2. CASE r.out.batch = <<>>
    <3>1. r.out.notices \in Seq(Notice) /\ r.out.notices # <<>>
      BY <1>t, <1>2, <2>2 DEF Outboxes
    <3>2. Tail(r.out.notices) \in Seq(Notice)
      BY <3>1
    <3> QED BY <1>t, <2>2, <3>2 DEF Outboxes
  <2> QED BY <2>1, <2>2
<1> HIDE DEF out
<1>4. Alone(t, t', x) /\ Same(r, new) /\ new.pc = r.pc /\ new.then = r.then /\ new.ret = r.ret
  BY <1>t, <1>1, <1>3 DEF ScanTypes, ThreadStates, Same, Alone
<1>5. q' \in Queues
  BY <1>t, <1>1, QueueFields
<1> QED BY <1>1, <1>4, <1>5, QuietMove DEF Reading, Leaving, Opening, Rising, FlushPcs

LEMMA FlushDoneKeeps ==
  ASSUME IInv, NEW x \in Threads, FlushDone(x) PROVE IInv'
<1> DEFINE r == t[x]
           new == t'[x]
           rec == [r EXCEPT !.out.held = r.kept, !.kept = <<>>, !.pc = r.ret]
<1>t. ScanTypes /\ r \in ThreadStates /\ r.kept \in Seq(Task) /\ r.ret \in Pcs /\ r.ret \in Rets /\ r.out \in Outboxes
  BY ThreadFields DEF IInv
<1>1. /\ r.pc = "flush" /\ r.out.held = <<>> /\ r.out.releases = <<>>
      /\ slot' = slot /\ q' = q /\ t' = [t EXCEPT ![x] = rec]
  BY DEF FlushDone, Flushed, At
<1>2. rec \in ThreadStates
  <2>1. [r.out EXCEPT !.held = r.kept] \in Outboxes
    BY <1>t DEF Outboxes
  <2>2. <<>> \in Seq(Task)
    OBVIOUS
  <2> QED BY <1>t, <2>1, <2>2 DEF ThreadStates
<1>3. /\ rec.out.held = r.kept /\ rec.kept = <<>> /\ rec.pc = r.ret /\ rec.out.releases = r.out.releases
      /\ rec.task = r.task /\ rec.todo = r.todo /\ rec.ret = r.ret
  BY <1>t DEF ThreadStates, Outboxes
<1> HIDE DEF rec
<1>4. Alone(t, t', x) /\ new = rec
  BY <1>t, <1>1, <1>2, PutAlone
<1> HIDE DEF r, new
<1>5. Orderly(r) /\ Fresh(r, slot)
  BY DEF IInv, Sound, r
<1>6. /\ Reading(new) => Reading(r)
      /\ ~ Opening(new) /\ ~ Rising(new) /\ ~ Rising(r) /\ ~ Opening(r)
      /\ new.pc \notin {"push", "start", "notify", "sendlist"}
  BY <1>1, <1>3, <1>4, <1>t DEF Reading, Leaving, Opening, Rising, Rets, FlushPcs
<1>7. /\ HeldOf(new) = KeptOf(r) /\ KeptOf(new) = {} /\ DueOf(new) = {} /\ HeldOf(r) = {} /\ DueOf(r) = {}
      /\ TaskOf(new) \subseteq TaskOf(r)
  BY <1>1, <1>3, <1>4, <1>6, EmptyDirs DEF HeldOf, KeptOf, DueOf, TaskOf
<1>8. Orderly(new)
  BY <1>1, <1>3, <1>4, <1>5, <1>6, <1>7, EmptyDirs DEF Orderly
<1>9. Fresh(new, slot)
  BY <1>3, <1>4, <1>5, <1>6, <1>7 DEF Fresh
<1>10. Mine(new) \subseteq Mine(r)
  BY <1>7 DEF Mine
<1>11. Unrisen(r, new, slot)
  BY <1>1, <1>6 DEF Unrisen, UpTo, Carries
<1>12. r.pc # "start" /\ new.pc # "start"
  BY <1>1, <1>6
<1> QED BY <1>1, <1>4, <1>8, <1>9, <1>10, <1>11, <1>12, SelfMove DEF r, new

\* The end of a task: its release joins the Outbox.
LEMMA Released ==
  ASSUME IInv, NEW x \in Threads, NEW rec \in ThreadStates, NEW ok \in BOOLEAN,
         t' = [t EXCEPT ![x] = rec], q' = q, slot' = slot,
         t[x].pc \in {"open", "scan"}, rec.pc \in {"flush", "next"}, rec.ret # "scan",
         rec.out.held = t[x].out.held, rec.kept = t[x].kept,
         rec.out.releases = Append(t[x].out.releases, [dir |-> t[x].task.dir, ok |-> ok])
  PROVE  IInv'
<1> DEFINE r == t[x]
           d == r.task.dir
<1>t. ScanTypes /\ r.out.releases \in Seq(Release) /\ d \in Dirs
  BY ThreadFields DEF IInv
<1>1. Alone(t, t', x) /\ t'[x] = rec
  BY <1>t, PutAlone
<1>2. [dir |-> d, ok |-> ok] \in Release /\ [dir |-> d, ok |-> ok].dir = d
  BY <1>t DEF Release
<1>3. Orderly(r) /\ Fresh(r, slot)
  BY DEF IInv, Sound
<1>4. TaskOf(r) = {d} /\ ~ Reading(rec) /\ ~ Opening(rec) /\ TaskOf(rec) = {}
  BY DEF TaskOf, Reading, Opening, FlushPcs
<1>5. DueOf(rec) = DueOf(r) \cup {d} /\ Once(rec.out.releases)
  <2> DEFINE e == [dir |-> d, ok |-> ok]
             list == r.out.releases
  <2>1. d \notin DirsOf(list) /\ Once(list) /\ list \in Seq(Release)
    BY <1>t, <1>3, <1>4 DEF Orderly, DueOf
  <2>2. rec.out.releases = Append(list, e) /\ e \in Release /\ e.dir = d
    BY <1>2
  <2>3. DueOf(r) = DirsOf(list) /\ DueOf(rec) = DirsOf(rec.out.releases)
    BY DEF DueOf
  <2> HIDE DEF d, e, list
  <2>4. DirsOf(Append(list, e)) = DirsOf(list) \cup {e.dir} /\ Once(Append(list, e))
    BY <2>1, <2>2, AppendDirs
  <2> QED BY <2>2, <2>3, <2>4
<1>6. HeldOf(rec) = HeldOf(r) /\ KeptOf(rec) = KeptOf(r)
  BY DEF HeldOf, KeptOf
<1>7. Orderly(rec)
  BY <1>3, <1>4, <1>5, <1>6 DEF Orderly
<1>8. Fresh(rec, slot)
  BY <1>3, <1>4, <1>6 DEF Fresh
<1>9. Mine(rec) \subseteq Mine(r)
  BY <1>4, <1>5, <1>6 DEF Mine
<1>10. Unrisen(r, rec, slot)
  BY DEF Unrisen, UpTo, Carries, Rising
<1>11. r.pc # "start" /\ rec.pc # "start"
  OBVIOUS
<1> HIDE DEF r
<1> QED BY <1>1, <1>7, <1>8, <1>9, <1>10, <1>11, SelfMove DEF r

LEMMA OutTyped ==
  ASSUME NEW out \in Outboxes, NEW notes \in Seq(Notice), NEW rels \in Seq(Release)
  PROVE  LET new == [out EXCEPT !.notices = notes, !.releases = rels]
         IN  new \in Outboxes /\ new.held = out.held /\ new.releases = rels
BY DEF Outboxes

LEMMA RelsTyped ==
  ASSUME NEW out \in Outboxes, NEW d \in Dirs, NEW ok \in BOOLEAN
  PROVE  Append(out.releases, [dir |-> d, ok |-> ok]) \in Seq(Release)
<1>1. [dir |-> d, ok |-> ok] \in Release
  BY DEF Release
<1>2. out.releases \in Seq(Release)
  BY DEF Outboxes
<1> QED BY <1>1, <1>2, AppendDirs

LEMMA NotesTyped ==
  ASSUME NEW out \in Outboxes, NEW d \in Dirs, NEW kind \in {"failed", "excluded"}
  PROVE  out.notices \in Seq(Notice) /\ Append(out.notices, [kind |-> kind, dir |-> d]) \in Seq(Notice)
<1>1. [kind |-> kind, dir |-> d] \in Notice
  BY DEF Notice
<1>2. out.notices \in Seq(Notice)
  BY DEF Outboxes
<1> QED BY <1>1, <1>2, AppendDirs

LEMMA ScanCancelledKeeps ==
  ASSUME IInv, NEW x \in Threads, ScanCancelled(x) PROVE IInv'
<1> DEFINE r == t[x]
           d == r.task.dir
           rels == Append(r.out.releases, [dir |-> d, ok |-> FALSE])
           out == [r.out EXCEPT !.releases = rels]
           rec == [r EXCEPT !.pc = "flush", !.ret = "tell", !.out = out]
<1>t. r \in ThreadStates /\ r.out \in Outboxes /\ d \in Dirs /\ "flush" \in Pcs /\ "tell" \in Rets
  BY ThreadFields, Names DEF IInv
<1>1. t' = [t EXCEPT ![x] = rec] /\ r.pc = "scan" /\ q' = q /\ slot' = slot
  BY DEF ScanCancelled, At
<1>r. rels \in Seq(Release)
  BY <1>t, RelsTyped
<1> HIDE DEF rels
<1>2. out \in Outboxes /\ out.held = r.out.held /\ out.releases = rels
  BY <1>t, <1>r DEF Outboxes
<1> HIDE DEF out, d
<1>3. rec \in ThreadStates /\ rec.pc = "flush" /\ rec.ret = "tell" /\ rec.out = out /\ rec.kept = r.kept
  BY <1>t, <1>2 DEF ThreadStates
<1> HIDE DEF rec
<1> QED BY <1>1, <1>2, <1>3, Released DEF d, rels

LEMMA ScanDoneKeeps ==
  ASSUME IInv, NEW x \in Threads, ScanDone(x) PROVE IInv'
<1> DEFINE r == t[x]
           d == r.task.dir
<1>t. r \in ThreadStates /\ r.out \in Outboxes /\ d \in Dirs /\ r.ok \in BOOLEAN
  BY ThreadFields DEF IInv, ThreadStates
<1>p. "flush" \in Pcs /\ "next" \in Pcs /\ "next" \in Rets /\ {} \in SUBSET Nodes
  BY Names
<1> DEFINE ok(f) == r.ok /\ ~ f
           notes(f) == IF f THEN Append(r.out.notices, [kind |-> "failed", dir |-> d]) ELSE r.out.notices
           rels(f) == Append(r.out.releases, [dir |-> d, ok |-> ok(f)])
           out(f) == [r.out EXCEPT !.notices = notes(f), !.releases = rels(f)]
           pc(f) == IF d = Root \/ ShouldFlush(out(f)) THEN "flush" ELSE "next"
           rec(f) == [r EXCEPT !.out = out(f), !.ret = "next", !.todo = {}, !.pc = pc(f)]
<1>1. PICK f \in BOOLEAN :
         t' = [t EXCEPT ![x].out = out(f), ![x].ret = "next", ![x].todo = {}, ![x].pc = pc(f)]
  BY DEF ScanDone
<1>3. ok(f) \in BOOLEAN /\ pc(f) \in {"flush", "next"} /\ pc(f) \in Pcs /\ notes(f) \in Seq(Notice)
  BY <1>t, <1>p, NotesTyped
<1> HIDE DEF ok, pc, notes
<1>r. rels(f) \in Seq(Release)
  BY <1>t, <1>3, RelsTyped
<1> HIDE DEF rels
<1>4. out(f) \in Outboxes /\ out(f).held = r.out.held /\ out(f).releases = rels(f)
  BY <1>t, <1>3, <1>r, OutTyped
<1> HIDE DEF out, d
<1>2. r.pc = "scan" /\ q' = q /\ slot' = slot
  BY DEF ScanDone, At
<1>6. t' = [t EXCEPT ![x] = rec(f)]
  BY <1>1
<1>5. rec(f) \in ThreadStates /\ rec(f).pc = pc(f) /\ rec(f).ret = "next" /\ rec(f).out = out(f) /\ rec(f).kept = r.kept
  BY <1>t, <1>p, <1>3, <1>4 DEF ThreadStates
<1> HIDE DEF rec
<1> QED BY <1>2, <1>3, <1>4, <1>5, <1>6, Released DEF d, rels

\* What a directory's listing may still hold when it is read.
LEMMA OpenedFresh ==
  ASSUME IInv, NEW d \in Dirs, Unread(slot, d), NEW e \in Kids(d) \cap Dirs
  PROVE  slot[e].parent = None
<1>1. e \in Dirs \ {Root} /\ Parent[e] = d
  BY DEF Kids
<1>2. Rooted(slot)
  BY DEF IInv, Sound
<1> QED BY <1>1, <1>2 DEF Rooted, Unread

LEMMA OpenTaskKeeps ==
  ASSUME IInv, NEW x \in Threads, OpenTask(x) PROVE IInv'
<1> DEFINE r == t[x]
           d == r.task.dir
<1>t. ScanTypes /\ r \in ThreadStates /\ r.out \in Outboxes /\ d \in Dirs
  BY ThreadFields DEF IInv
<1>p. "flush" \in Pcs /\ "next" \in Pcs /\ "tell" \in Pcs /\ "scan" \in Pcs /\ "next" \in Rets
  BY Names
<1>1. r.pc = "open" /\ q' = q /\ slot' = slot
  BY DEF OpenTask, At
<1>2. CASE t' = [t EXCEPT ![x].pc = IF flags.cancelled THEN "tell" ELSE "scan", ![x].todo = Kids(d), ![x].ok = TRUE]
  <2> DEFINE pc == IF flags.cancelled THEN "tell" ELSE "scan"
             rec == [r EXCEPT !.pc = pc, !.todo = Kids(d), !.ok = TRUE]
  <2>1. t' = [t EXCEPT ![x] = rec]
    BY <1>2
  <2>2. pc \in {"tell", "scan"} /\ pc \in Pcs /\ Kids(d) \in SUBSET Nodes
    BY <1>p DEF Kids
  <2> HIDE DEF pc
  <2>3. /\ rec \in ThreadStates /\ rec.pc = pc /\ rec.todo = Kids(d) /\ rec.out = r.out /\ rec.kept = r.kept
        /\ rec.task = r.task
    BY <1>t, <2>2 DEF ThreadStates
  <2> HIDE DEF rec
  <2>4. Alone(t, t', x) /\ t'[x] = rec
    BY <1>t, <2>1, <2>3, PutAlone
  <2>5. Orderly(r) /\ Fresh(r, slot)
    BY DEF IInv, Sound
  <2>6. Opening(r) /\ ~ Opening(rec) /\ TaskOf(r) = {d} /\ TaskOf(rec) \subseteq {d}
    BY <1>1, <2>2, <2>3 DEF Opening, TaskOf
  <2>7. HeldOf(rec) = HeldOf(r) /\ KeptOf(rec) = KeptOf(r) /\ DueOf(rec) = DueOf(r)
    BY <2>3 DEF HeldOf, KeptOf, DueOf
  <2>8. Orderly(rec)
    BY <2>2, <2>3, <2>5, <2>6, <2>7 DEF Orderly
  <2>9. Fresh(rec, slot)
    <3>1. Unread(slot, d)
      BY <2>5, <2>6 DEF Fresh
    <3>2. \A e \in Kids(d) \cap Dirs : slot[e].parent = None
      BY <1>t, <3>1, OpenedFresh
    <3> QED BY <2>3, <2>5, <2>6, <2>7, <3>2 DEF Fresh
  <2>10. Mine(rec) \subseteq Mine(r)
    BY <2>6, <2>7 DEF Mine
  <2>11. Unrisen(r, rec, slot)
    BY <1>1, <2>2, <2>3 DEF Unrisen, UpTo, Carries, Rising
  <2>12. r.pc # "start" /\ rec.pc # "start"
    BY <1>1, <2>2, <2>3
  <2> HIDE DEF r
  <2> QED BY <1>1, <2>4, <2>8, <2>9, <2>10, <2>11, <2>12, SelfMove DEF r
<1>3. ASSUME NEW kind \in {"failed", "excluded"}, Failed(x, kind) PROVE IInv'
  <2> DEFINE notes == Append(r.out.notices, [kind |-> kind, dir |-> d])
             rels == Append(r.out.releases, [dir |-> d, ok |-> FALSE])
             out == [r.out EXCEPT !.notices = notes, !.releases = rels]
             pc == IF kind = "failed" /\ ShouldFlush(out) THEN "flush" ELSE "next"
             rec == [r EXCEPT !.out = out, !.ret = "next", !.pc = pc]
  <2>1. t' = [t EXCEPT ![x].out = out, ![x].ret = "next", ![x].pc = pc]
    BY <1>3 DEF Failed
  <2>2. pc \in {"flush", "next"} /\ pc \in Pcs
    BY <1>p
  <2>3. notes \in Seq(Notice) /\ rels \in Seq(Release)
    BY <1>t, NotesTyped, RelsTyped
  <2> HIDE DEF pc, notes, rels
  <2>4. out \in Outboxes /\ out.held = r.out.held /\ out.releases = rels
    BY ZenonT(30), <1>t, <2>3, OutTyped
  <2> HIDE DEF out, d
  <2>6. t' = [t EXCEPT ![x] = rec]
    BY <2>1
  <2>5. rec \in ThreadStates /\ rec.pc = pc /\ rec.ret = "next" /\ rec.out = out /\ rec.kept = r.kept
    BY <1>t, <1>p, <2>2, <2>4 DEF ThreadStates
  <2> HIDE DEF rec
  <2> QED BY <1>1, <2>6, <2>2, <2>4, <2>5, Released DEF d, rels
<1>4. \A kind \in ReopenResults(r.task) : kind = "ok" \/ kind \in {"failed", "excluded"}
  BY DEF ReopenResults
<1> QED BY <1>2, <1>3, <1>4 DEF OpenTask

LEMMA NextHeldKeeps ==
  ASSUME IInv, NEW x \in Threads, NextHeld(x) PROVE IInv'
<1> DEFINE r == t[x]
           held == r.out.held
<1>t. ScanTypes /\ r \in ThreadStates /\ r.out \in Outboxes /\ held \in Seq(Task) /\ r.task \in Task
  BY ThreadFields DEF IInv
<1>p. "flush" \in Pcs /\ "open" \in Pcs /\ "hold" \in Rets
  BY Names
<1>1. r.pc = "next" /\ q' = q /\ slot' = slot
  BY DEF NextHeld, At
<1>2. CASE held = <<>>
  <2> DEFINE rec == [r EXCEPT !.pc = "flush", !.ret = "hold", !.task.opened = FALSE]
  <2>1. t' = [t EXCEPT ![x] = rec]
    BY <1>2 DEF NextHeld
  <2>2. [r.task EXCEPT !.opened = FALSE] \in Task /\ [r.task EXCEPT !.opened = FALSE].dir = r.task.dir
    BY <1>t DEF Task
  <2>3. /\ rec \in ThreadStates /\ rec.pc = "flush" /\ rec.ret = "hold" /\ Same(r, rec)
    BY <1>t, <1>p, <2>2 DEF ThreadStates, Same
  <2> HIDE DEF rec
  <2>4. Alone(t, t', x) /\ t'[x] = rec
    BY <1>t, <2>1, <2>3, PutAlone
  <2>5. q' \in Queues
    BY <1>t, <1>1, QueueFields
  <2> QED BY <1>1, <2>3, <2>4, <2>5, QuietMove DEF Reading, Leaving, Opening, Rising, FlushPcs
<1>3. CASE held # <<>>
  <2> DEFINE last == held[Len(held)]
             rest == SubSeq(held, 1, Len(held) - 1)
             rec == [r EXCEPT !.pc = "open", !.task = last, !.out.held = rest]
  <2>1. t' = [t EXCEPT ![x] = rec]
    BY <1>3 DEF NextHeld
  <2>2. Orderly(r) /\ Fresh(r, slot)
    BY DEF IInv, Sound
  <2>3. /\ rest \in Seq(Task) /\ last \in Task /\ Once(rest)
        /\ DirsOf(rest) = DirsOf(held) \ {last.dir} /\ last.dir \in DirsOf(held)
    <3>1. Once(held)
      BY <2>2 DEF Orderly
    <3> HIDE DEF held
    <3> QED BY <1>3, <1>t, <3>1, FrontDirs
  <2> HIDE DEF last, rest
  <2>4. [r.out EXCEPT !.held = rest] \in Outboxes
    BY <1>t, <2>3 DEF Outboxes
  <2>5. rec \in ThreadStates
    BY <1>t, <1>p, <2>3, <2>4 DEF ThreadStates
  <2>6. /\ rec.pc = "open" /\ rec.task = last /\ rec.out.held = rest /\ rec.kept = r.kept
        /\ rec.out.releases = r.out.releases
    BY <1>t DEF ThreadStates, Outboxes
  <2> HIDE DEF rec
  <2>7. Alone(t, t', x) /\ t'[x] = rec
    BY <1>t, <2>1, <2>5, PutAlone
  <2>8. TaskOf(rec) = {last.dir} /\ ~ Reading(rec) /\ Opening(rec) /\ ~ Rising(rec)
    BY <2>6 DEF TaskOf, Reading, Opening, Rising, FlushPcs
  <2>9. HeldOf(rec) = HeldOf(r) \ {last.dir} /\ KeptOf(rec) = KeptOf(r) /\ DueOf(rec) = DueOf(r) /\ last.dir \in HeldOf(r)
    BY <2>3, <2>6 DEF HeldOf, KeptOf, DueOf
  <2>10. Orderly(rec)
    BY <2>2, <2>3, <2>6, <2>8, <2>9 DEF Orderly
  <2>11. Fresh(rec, slot)
    BY <2>2, <2>6, <2>8, <2>9 DEF Fresh
  <2>12. Mine(rec) \subseteq Mine(r)
    BY <2>8, <2>9 DEF Mine
  <2>13. Unrisen(r, rec, slot)
    BY <1>1, <2>6, <2>8 DEF Unrisen, UpTo, Carries, Rising
  <2>14. r.pc # "start" /\ rec.pc # "start"
    BY <1>1, <2>6
  <2> HIDE DEF r
  <2> QED BY <1>1, <2>7, <2>10, <2>11, <2>12, <2>13, <2>14, SelfMove DEF r
<1> QED BY <1>2, <1>3

LEMMA OfferKeeps ==
  ASSUME IInv, NEW x \in Threads, Offer(x) PROVE IInv'
<1> DEFINE r == t[x]
           held == r.out.held
           task == Head(held)
           rest == Tail(held)
<1>t. ScanTypes /\ r \in ThreadStates /\ r.out \in Outboxes /\ held \in Seq(Task) /\ r.kept \in Seq(Task)
  BY ThreadFields DEF IInv
<1>1. r.pc = "flush" /\ slot' = slot /\ held # <<>>
  BY DEF Offer, At
<1>2. Orderly(r) /\ Fresh(r, slot) /\ Grounded(r, slot)
  BY DEF IInv, Sound
<1>3. /\ rest \in Seq(Task) /\ task \in Task /\ Once(rest)
      /\ DirsOf(rest) = DirsOf(held) \ {task.dir} /\ task.dir \in DirsOf(held)
  <2>1. Once(held)
    BY <1>2 DEF Orderly
  <2> HIDE DEF held
  <2> QED BY <1>1, <1>t, <2>1, TailDirs
<1>4. [r.out EXCEPT !.held = rest] \in Outboxes
  <2> HIDE DEF rest
  <2> QED BY <1>t, <1>3 DEF Outboxes
<1>5. CASE t' = [t EXCEPT ![x].out.held = rest, ![x].kept = Append(@, [task EXCEPT !.opened = FALSE]) ] /\ UNCHANGED q
  <2> DEFINE closed == [task EXCEPT !.opened = FALSE]
             kept == Append(r.kept, closed)
             rec == [r EXCEPT !.out.held = rest, !.kept = kept]
  <2>1. t' = [t EXCEPT ![x] = rec]
    BY <1>5
  <2> HIDE DEF rest, task
  <2>2. closed \in Task /\ closed.dir = task.dir
    BY <1>3 DEF Task
  <2> HIDE DEF closed
  <2>3. /\ kept \in Seq(Task) /\ DirsOf(kept) = DirsOf(r.kept) \cup {task.dir}
        /\ (Once(r.kept) /\ task.dir \notin DirsOf(r.kept) => Once(kept))
    <3>1. r.kept \in Seq(Task)
      BY <1>t
    <3> HIDE DEF r
    <3> QED BY <2>2, <3>1, AppendDirs
  <2> HIDE DEF kept
  <2>4. rec \in ThreadStates
    BY <1>t, <1>4, <2>3 DEF ThreadStates
  <2>5. /\ rec.out.held = rest /\ rec.kept = kept /\ rec.out.releases = r.out.releases /\ rec.task = r.task
        /\ rec.todo = r.todo /\ rec.pc = r.pc /\ rec.then = r.then /\ rec.ret = r.ret /\ rec.busy = r.busy /\ rec.up = r.up
    BY <1>t DEF ThreadStates, Outboxes
  <2> HIDE DEF rec
  <2>6. Alone(t, t', x) /\ t'[x] = rec
    BY <1>t, <2>1, <2>4, PutAlone
  <2>7. /\ HeldOf(rec) = HeldOf(r) \ {task.dir} /\ KeptOf(rec) = KeptOf(r) \cup {task.dir} /\ DueOf(rec) = DueOf(r)
        /\ task.dir \in HeldOf(r)
    BY <1>3, <2>3, <2>5 DEF HeldOf, KeptOf, DueOf
  <2>8. TaskOf(rec) = TaskOf(r) /\ (Reading(rec) <=> Reading(r)) /\ (Opening(rec) <=> Opening(r))
    BY <2>5 DEF TaskOf, Reading, Opening, Leaving
  <2>9. Once(kept)
    BY <1>2, <2>3, <2>7 DEF Orderly, KeptOf
  <2>10. Orderly(rec)
    BY <1>1, <1>2, <1>3, <2>5, <2>7, <2>8, <2>9 DEF Orderly
  <2>11. Fresh(rec, slot)
    BY <1>2, <2>5, <2>7, <2>8 DEF Fresh
  <2>12. Mine(rec) \subseteq Mine(r)
    BY <2>7, <2>8 DEF Mine
  <2>13. Unrisen(r, rec, slot)
    BY <2>5 DEF Unrisen, UpTo, Carries, Rising
  <2>14. r.pc # "start" /\ rec.pc # "start" /\ q' = q
    BY <1>1, <1>5, <2>5
  <2> HIDE DEF r
  <2> QED BY <1>1, <2>6, <2>10, <2>11, <2>12, <2>13, <2>14, SelfMove DEF r
<1>6. CASE /\ q' = [q EXCEPT !.tasks = @ \cup {task}, !.holds = @ + 1]
           /\ t' = [t EXCEPT ![x].out.held = rest, ![x].pc = "wakeone"]
  <2> DEFINE rec == [r EXCEPT !.out.held = rest, !.pc = "wakeone"]
  <2>1. t' = [t EXCEPT ![x] = rec]
    BY <1>6
  <2>q. q' \in Queues /\ q'.tasks = q.tasks \cup {task}
    <3>1. q.holds + 1 \in Int /\ q.tasks \cup {task} \in SUBSET Task
      BY <1>t, <1>3, QueueFields
    <3> QED BY <1>t, <1>6, <3>1, QueueFields DEF Queues
  <2> HIDE DEF rest, task
  <2>p. "wakeone" \in Pcs
    BY Names
  <2>4. rec \in ThreadStates
    BY <1>t, <1>4, <2>p DEF ThreadStates
  <2>5. /\ rec.out.held = rest /\ rec.kept = r.kept /\ rec.out.releases = r.out.releases /\ rec.task = r.task
        /\ rec.todo = r.todo /\ rec.pc = "wakeone" /\ rec.then = r.then /\ rec.ret = r.ret /\ rec.up = r.up
    BY <1>t DEF ThreadStates, Outboxes
  <2> HIDE DEF rec
  <2>6. Alone(t, t', x) /\ t'[x] = rec
    BY <1>t, <2>1, <2>4, PutAlone
  <2>7. /\ HeldOf(rec) = HeldOf(r) \ {task.dir} /\ KeptOf(rec) = KeptOf(r) /\ DueOf(rec) = DueOf(r)
        /\ task.dir \in HeldOf(r)
    BY <1>3, <2>5 DEF HeldOf, KeptOf, DueOf
  <2>8. TaskOf(rec) = TaskOf(r) /\ (Reading(rec) <=> Reading(r)) /\ ~ Opening(rec) /\ ~ Rising(rec)
    BY <1>1, <2>5 DEF TaskOf, Reading, Opening, Leaving, Rising, FlushPcs
  <2>9. Orderly(rec)
    BY <1>1, <1>2, <1>3, <2>5, <2>7, <2>8 DEF Orderly
  <2>10. Fresh(rec, slot)
    BY <1>2, <2>5, <2>7, <2>8 DEF Fresh
  <2>11. /\ Mine(rec) \subseteq Mine(r) /\ task.dir \in Mine(r) /\ task.dir \notin Mine(rec)
    BY <1>2, <2>7, <2>8 DEF Mine, Orderly
  <2>12. Queued(q'.tasks) = Queued(q.tasks) \cup {task.dir}
    BY <2>q DEF Queued
  <2>13. QueueFresh(q.tasks, slot) /\ Mine(r) \cap Queued(q.tasks) = {}
    BY DEF IInv, Sound, Apart
  <2>14. QueueFresh(q'.tasks, slot)
    <3>1. Unread(slot, task.dir) /\ Known(slot, task.dir)
      BY <1>2, <2>7, <2>11 DEF Fresh, Grounded
    <3>2. \A k \in q.tasks : k.dir # task.dir
      BY <2>11, <2>13 DEF Queued
    <3> QED BY <2>q, <2>12, <2>13, <3>1, <3>2 DEF QueueFresh
  <2>15. Unrisen(r, rec, slot)
    BY <1>1, <2>5, <2>8 DEF Unrisen, UpTo, Carries, Rising
  <2> HIDE DEF r
  <2>16. /\ Mine(rec) \subseteq Mine(r) \cup Queued(q.tasks) /\ Queued(q'.tasks) \subseteq Mine(r) \cup Queued(q.tasks)
         /\ Mine(rec) \cap Queued(q'.tasks) = {}
    BY <2>11, <2>12, <2>13
  <2>17. r.pc # "start" /\ rec.pc # "start"
    BY <1>1, <2>5
  <2> QED BY <1>1, <2>q, <2>6, <2>9, <2>10, <2>14, <2>15, <2>16, <2>17, TokenMove DEF r
<1> QED BY <1>5, <1>6 DEF Offer

LEMMA PushFinishedKeeps ==
  ASSUME IInv, NEW x \in Threads, PushFinished(x) PROVE IInv'
<1> DEFINE r == t[x]
           d == r.up.dir
           ok == ~ slot[d].incomplete
           full == Len(Append(finishes.list, [dir |-> d, ok |-> ok])) >= FinishBatch
           pc == IF full THEN "sendlist" ELSE IF d = Root THEN "flush" ELSE "finish"
           up == IF d = Root THEN NoRelease ELSE [dir |-> slot[d].parent, ok |-> ok]
           then == IF full /\ d # Root THEN "finish" ELSE "flush"
           rec == [r EXCEPT !.pc = pc, !.up = up, !.then = then]
<1>t. ScanTypes /\ r \in ThreadStates /\ r.out \in Outboxes /\ d \in Dirs /\ slot \in Slots
  BY ThreadFields DEF IInv, ScanTypes
<1>1. r.pc = "push" /\ q' = q /\ slot' = slot /\ t' = [t EXCEPT ![x] = rec]
  BY DEF PushFinished, At
<1>2. Orderly(r) /\ Fresh(r, slot) /\ Known(slot, d) /\ Rooted(slot)
  BY <1>1 DEF IInv, Sound, Grounded
<1>3. d # Root => slot[d].parent = Parent[d] /\ Parent[d] \in Dirs
  BY <1>t, <1>2, ScanAssumption DEF Known, Rooted
<1>4. up \in Release /\ pc \in Pcs /\ then \in Thens
  BY <1>t, <1>3, Names, ScanAssumption DEF Release, NoRelease, Slots
<1>5. /\ d = Root => (pc = "flush" \/ (pc = "sendlist" /\ then = "flush"))
      /\ d # Root => (pc = "finish" \/ (pc = "sendlist" /\ then = "finish")) /\ up.dir = Parent[d] /\ up.ok = ok
      /\ pc \in {"flush", "finish", "sendlist"} /\ then \in {"flush", "finish"}
  BY <1>3
<1> HIDE DEF pc, then, up
<1>6. /\ rec \in ThreadStates /\ rec.pc = pc /\ rec.then = then /\ rec.up = up /\ rec.ret = r.ret
      /\ rec.task = r.task /\ rec.todo = r.todo /\ rec.out = r.out /\ rec.kept = r.kept
  BY <1>t, <1>4 DEF ThreadStates
<1> HIDE DEF rec
<1>7. Alone(t, t', x) /\ t'[x] = rec
  BY <1>t, <1>1, <1>6, PutAlone
<1>8. (Reading(rec) => Reading(r)) /\ ~ Opening(rec) /\ ~ Opening(r)
  BY <1>1, <1>5, <1>6 DEF Reading, Leaving, Opening, FlushPcs
<1>9. /\ HeldOf(rec) = HeldOf(r) /\ KeptOf(rec) = KeptOf(r) /\ DueOf(rec) = DueOf(r) /\ TaskOf(rec) \subseteq TaskOf(r)
  BY <1>6, <1>8 DEF HeldOf, KeptOf, DueOf, TaskOf
<1>10. Orderly(rec)
  BY <1>2, <1>5, <1>6, <1>9 DEF Orderly
<1>11. Fresh(rec, slot)
  BY <1>2, <1>6, <1>8, <1>9 DEF Fresh
<1>12. Mine(rec) \subseteq Mine(r)
  BY <1>9 DEF Mine
<1>13. Unrisen(r, rec, slot)
  <2>1. ~ Rising(r) /\ (Rising(rec) <=> d # Root) /\ rec.pc # "push"
    BY <1>1, <1>5, <1>6 DEF Rising
  <2>2. UpTo(rec) = UpTo(r)
    BY <1>1, <1>5, <1>6, <2>1 DEF UpTo
  <2>3. ASSUME NEW e \in Dirs \ {Root}, Spoiled(slot, e), Carries(r, e) PROVE Carries(rec, e)
    BY <1>1, <1>5, <1>6, <2>1, <2>3 DEF Carries, Spoiled
  <2> QED BY <2>1, <2>2, <2>3 DEF Unrisen
<1>14. r.pc # "start" /\ rec.pc # "start"
  BY <1>1, <1>5, <1>6
<1> HIDE DEF r
<1> QED BY <1>1, <1>7, <1>10, <1>11, <1>12, <1>13, <1>14, SelfMove DEF r
-----------------------------------------------------------------------------
\* One release of directory d, whether it is its own or that of its last child.
Due(r, rec, up) ==
    \/ r.pc = "flush" /\ up.dir \in DueOf(r) /\ up.dir \notin Mine(rec)
    \/ r.pc = "finish" /\ up = r.up

Lessened(s, up) == [s EXCEPT ![up.dir].pending = @ - 1, ![up.dir].incomplete = @ \/ ~ up.ok]

LEMMA FiniteParts ==
  ASSUME NEW tt, NEW s, NEW d
  PROVE  /\ IsFiniteSet(OpenKids(s, d)) /\ IsFiniteSet(Ups(tt, d))
         /\ Cardinality(OpenKids(s, d)) \in Nat /\ Cardinality(Ups(tt, d)) \in Nat
<1>1. OpenKids(s, d) \subseteq Dirs /\ Ups(tt, d) \subseteq Threads
  BY DEF OpenKids, Ups
<1>2. IsFiniteSet(Threads) /\ IsFiniteSet(Dirs)
  BY ScanAssumption, FS_Singleton, FS_Union, FS_Subset DEF Threads
<1> QED BY <1>1, <1>2, FS_Subset, FS_CardinalityType

LEMMA ReleaseFrame ==
  ASSUME NEW s \in Slots, NEW up \in Release
  PROVE  LET s2 == Lessened(s, up) IN
         /\ s2 \in Slots
         /\ s2[up.dir].pending = s[up.dir].pending - 1
         /\ s2[up.dir].incomplete = (s[up.dir].incomplete \/ ~ up.ok)
         /\ \A e \in Dirs : s2[e].parent = s[e].parent /\ (e # up.dir => s2[e] = s[e])
<1>1. up.dir \in Dirs /\ up.ok \in BOOLEAN
  BY DEF Release
<1>2. s[up.dir].pending - 1 \in Int /\ (s[up.dir].incomplete \/ ~ up.ok) \in BOOLEAN
  BY <1>1 DEF Slots
<1> QED BY ZenonT(30), <1>1, <1>2 DEF Slots, Lessened

LEMMA ParentsStay ==
  ASSUME NEW s, NEW s2, \A e \in Dirs : s2[e].parent = s[e].parent
  PROVE  /\ \A e \in Dirs : Known(s2, e) <=> Known(s, e)
         /\ \A e : Unread(s2, e) <=> Unread(s, e)
         /\ Rooted(s) => Rooted(s2)
         /\ \A r \in ThreadStates : Fresh(r, s) => Fresh(r, s2)
<1>1. \A e \in Dirs : Known(s2, e) <=> Known(s, e)
  BY DEF Known
<1>2. \A e : Unread(s2, e) <=> Unread(s, e)
  BY DEF Unread
<1>3. Rooted(s) => Rooted(s2)
  BY <1>1, ScanAssumption DEF Rooted
<1>4. ASSUME NEW r \in ThreadStates, Fresh(r, s) PROVE Fresh(r, s2)
  BY <1>2, <1>4 DEF Fresh
<1> QED BY <1>1, <1>2, <1>3, <1>4

\* What is left of the release, once it is known what the thread goes on with.
Onward(r, rec, s, up) ==
    /\ Due(r, rec, up)
    /\ Mine(rec) \subseteq Mine(r) /\ Orderly(rec) /\ Fresh(rec, s)
    /\ s[up.dir].pending = 1 => rec.pc = "push" /\ rec.up = up
    /\ s[up.dir].pending # 1 => rec.pc = "flush"

LEMMA OnwardUps ==
  ASSUME NEW r \in ThreadStates, NEW rec \in ThreadStates, NEW s \in Slots, NEW up \in Release, Onward(r, rec, s, up)
  PROVE  /\ r.pc = "flush" => UpTo(r) = {}
         /\ r.pc = "finish" => UpTo(r) = {up.dir}
         /\ r.pc \in {"flush", "finish"}
         /\ s[up.dir].pending = 1 /\ up.dir # Root => UpTo(rec) = {Parent[up.dir]}
         /\ ~ (s[up.dir].pending = 1 /\ up.dir # Root) => UpTo(rec) = {}
         /\ rec.pc = "push" => s[up.dir].pending = 1 /\ rec.up = up
         /\ rec.pc \in {"push", "flush"}
<1>1. r.pc = "flush" => UpTo(r) = {}
  BY DEF UpTo, Rising
<1>2. r.pc = "finish" => UpTo(r) = {up.dir}
  BY DEF UpTo, Rising, Onward, Due
<1>3. r.pc \in {"flush", "finish"}
  BY DEF Onward, Due
<1>4. s[up.dir].pending = 1 /\ up.dir # Root => UpTo(rec) = {Parent[up.dir]}
  BY DEF Onward, UpTo, Rising
<1>5. ~ (s[up.dir].pending = 1 /\ up.dir # Root) => UpTo(rec) = {}
  BY DEF Onward, UpTo, Rising
<1>6. (rec.pc = "push" => s[up.dir].pending = 1 /\ rec.up = up) /\ rec.pc \in {"push", "flush"}
  BY DEF Onward
<1> QED BY <1>1, <1>2, <1>3, <1>4, <1>5, <1>6

Moved(tt, tt2, x, rec) == tt2[x] = rec /\ \A y \in Threads \ {x} : tt2[y] = tt[y]
Lowered(s, s2, up) ==
    /\ s2[up.dir].pending = s[up.dir].pending - 1
    /\ s2[up.dir].incomplete = (s[up.dir].incomplete \/ ~ up.ok)
    /\ \A e \in Dirs : s2[e].parent = s[e].parent /\ (e # up.dir => s2[e] = s[e])

\* The tokens of the directories after the release.
LEMMA ReleaseOwned ==
  ASSUME NEW tt, NEW tasks, NEW s \in Slots, NEW x \in Threads, NEW up \in Release, NEW rec \in ThreadStates,
         Apart(tt, tasks), Onward(tt[x], rec, s, up),
         NEW tt2, Moved(tt, tt2, x, rec)
  PROVE  /\ Apart(tt2, tasks)
         /\ Owned(tt2, tasks) \subseteq Owned(tt, tasks)
         /\ tt[x].pc = "flush" => up.dir \in Owned(tt, tasks) /\ up.dir \notin Owned(tt2, tasks)
<1>0. tt2[x] = rec /\ \A y \in Threads \ {x} : tt2[y] = tt[y]
  BY DEF Moved
<1>1. Mine(rec) \subseteq Mine(tt[x])
  BY DEF Onward
<1>2. \A y \in Threads : Mine(tt2[y]) \subseteq Mine(tt[y])
  BY <1>0, <1>1
<1>3. Apart(tt2, tasks)
  <2>1. ASSUME NEW y \in Threads, NEW z \in Threads, y # z PROVE Mine(tt2[y]) \cap Mine(tt2[z]) = {}
    <3>1. Mine(tt[y]) \cap Mine(tt[z]) = {}
      BY <2>1 DEF Apart
    <3> QED BY <3>1, <1>2
  <2>2. ASSUME NEW y \in Threads PROVE Mine(tt2[y]) \cap Queued(tasks) = {}
    <3>1. Mine(tt[y]) \cap Queued(tasks) = {}
      BY DEF Apart
    <3> QED BY <3>1, <1>2
  <2> QED BY <2>1, <2>2 DEF Apart
<1>4. Owned(tt2, tasks) \subseteq Owned(tt, tasks)
  BY <1>2 DEF Owned
<1>5. ASSUME tt[x].pc = "flush" PROVE up.dir \in Owned(tt, tasks) /\ up.dir \notin Owned(tt2, tasks)
  <2>1. up.dir \in DueOf(tt[x]) /\ up.dir \notin Mine(rec)
    BY <1>5 DEF Onward, Due
  <2>2. up.dir \in Mine(tt[x])
    BY <2>1 DEF Mine
  <2>3. \A y \in Threads \ {x} : up.dir \notin Mine(tt2[y])
    BY <1>0, <2>2 DEF Apart
  <2>4. up.dir \notin Queued(tasks)
    BY <2>2 DEF Apart
  <2> QED BY <1>0, <2>1, <2>2, <2>3, <2>4 DEF Owned
<1> QED BY <1>3, <1>4, <1>5

LEMMA ReleaseCounted ==
  ASSUME NEW tt, NEW tasks, NEW s \in Slots, NEW x \in Threads, NEW up \in Release, NEW rec \in ThreadStates,
         tt[x] \in ThreadStates, Apart(tt, tasks), Rooted(s), Counted(tt, tasks, s), Known(s, up.dir),
         Onward(tt[x], rec, s, up),
         NEW tt2, Moved(tt, tt2, x, rec),
         NEW s2 \in Slots, Lowered(s, s2, up)
  PROVE  /\ Counted(tt2, tasks, s2) /\ s[up.dir].pending >= 1
         /\ s[up.dir].pending = 1 => OpenKids(s, up.dir) = {} /\ Ups(tt, up.dir) \subseteq {x}
<1> DEFINE d == up.dir
           r == tt[x]
           last == s[d].pending = 1 /\ d # Root
<1>0. d \in Dirs /\ s[d].pending \in Int /\ \A e \in Dirs : s[e].pending \in Int
  BY DEF Release, Slots
<1>m. /\ tt2[x] = rec /\ (\A y \in Threads \ {x} : tt2[y] = tt[y])
      /\ s2[d].pending = s[d].pending - 1
      /\ \A e \in Dirs : s2[e].parent = s[e].parent /\ (e # d => s2[e] = s[e])
  BY DEF Moved, Lowered
<1>1. /\ r.pc = "flush" => UpTo(r) = {}
      /\ r.pc = "finish" => UpTo(r) = {d}
      /\ r.pc \in {"flush", "finish"}
      /\ last => UpTo(rec) = {Parent[d]}
      /\ ~ last => UpTo(rec) = {}
  BY OnwardUps
<1>2. /\ Owned(tt2, tasks) \subseteq Owned(tt, tasks)
      /\ r.pc = "flush" => d \in Owned(tt, tasks) /\ d \notin Owned(tt2, tasks)
  BY ReleaseOwned
<1>3. d # Root => s[d].parent = Parent[d] /\ Parent[d] # d
  BY <1>0, ScanAssumption DEF Known, Rooted
<1> DEFINE kids(e) == Cardinality(OpenKids(s, e))
           ups(e) == Cardinality(Ups(tt, e))
           kids2(e) == Cardinality(OpenKids(s2, e))
           ups2(e) == Cardinality(Ups(tt2, e))
<1>4. \A e \in Dirs : /\ s[e].pending >= kids(e) + ups(e) + One(tt, tasks, e)
                      /\ kids(e) \in Nat /\ ups(e) \in Nat /\ kids2(e) \in Nat /\ ups2(e) \in Nat
                      /\ One(tt, tasks, e) \in {0, 1} /\ One(tt2, tasks, e) \in {0, 1}
                      /\ One(tt2, tasks, e) <= One(tt, tasks, e)
  BY FiniteParts, <1>2 DEF Counted, One
<1>5. x \in Ups(tt, d) <=> r.pc = "finish"
  BY <1>1 DEF Ups
<1>6. ups(d) >= 1 \/ One(tt, tasks, d) = 1
  <2>1. CASE r.pc = "flush"
    BY <2>1, <1>2 DEF One
  <2>2. CASE r.pc = "finish"
    <3>1. Ups(tt, d) # {}
      BY <2>2, <1>5
    <3>2. ups(d) # 0
      BY <3>1, FiniteParts, FS_EmptySet
    <3> QED BY <3>2, <1>0, <1>4
  <2> QED BY <1>1, <2>1, <2>2
<1>7. s[d].pending >= 1
  <2> HIDE DEF kids, ups, r
  <2> QED BY <1>0, <1>4, <1>6
<1>8. ASSUME s[d].pending = 1 PROVE OpenKids(s, d) = {} /\ Ups(tt, d) \subseteq {x}
  <2>1. kids(d) = 0 /\ ups(d) + One(tt, tasks, d) = 1
    <3> HIDE DEF kids, ups, r
    <3> QED BY <1>0, <1>4, <1>6, <1>8
  <2>2. OpenKids(s, d) = {}
    BY <2>1, FiniteParts, FS_EmptySet
  <2>3. CASE r.pc = "flush"
    <3>1. One(tt, tasks, d) = 1
      BY <2>3, <1>2 DEF One
    <3>2. ups(d) = 0
      <4> HIDE DEF ups
      <4> QED BY <2>1, <3>1, <1>0, <1>4
    <3>3. Ups(tt, d) = {}
      BY <3>2, FiniteParts, FS_EmptySet
    <3> QED BY <2>2, <3>3
  <2>4. CASE r.pc = "finish"
    <3>1. x \in Ups(tt, d)
      BY <2>4, <1>5
    <3>2. Cardinality(Ups(tt, d) \ {x}) = Cardinality(Ups(tt, d)) - 1 /\ IsFiniteSet(Ups(tt, d) \ {x})
      BY <3>1, FiniteParts, FS_RemoveElement
    <3>3. ups(d) <= 1
      <4> HIDE DEF ups
      <4> QED BY <2>1, <1>0, <1>4
    <3>4. Cardinality(Ups(tt, d) \ {x}) \in Nat
      BY <3>2, FS_CardinalityType
    <3>5. Cardinality(Ups(tt, d) \ {x}) = 0
      <4>1. Cardinality(Ups(tt, d)) \in Nat
        BY FiniteParts
      <4> QED BY <3>2, <3>3, <3>4, <4>1
    <3>6. Ups(tt, d) \ {x} = {}
      BY <3>2, <3>5, FS_EmptySet
    <3> QED BY <2>2, <3>6
  <2> QED BY <1>1, <2>3, <2>4
<1>9. \A e \in Dirs : OpenKids(s2, e) = IF last /\ e = Parent[d] THEN OpenKids(s, e) \ {d} ELSE OpenKids(s, e)
  <2> SUFFICES ASSUME NEW e \in Dirs, NEW k \in Dirs \ {Root}
               PROVE k \in OpenKids(s2, e) <=> k \in OpenKids(s, e) /\ ~ (last /\ e = Parent[d] /\ k = d)
    BY DEF OpenKids
  <2>1. CASE k # d
    BY <2>1, <1>m DEF OpenKids
  <2>2. CASE k = d
    BY <2>2, <1>m, <1>0, <1>3, <1>7 DEF OpenKids
  <2> QED BY <2>1, <2>2
<1>10. \A e \in Dirs : last /\ e = Parent[d] => d \in OpenKids(s, e)
  BY <1>0, <1>3 DEF OpenKids
<1>11. \A e \in Dirs : kids2(e) = IF last /\ e = Parent[d] THEN kids(e) - 1 ELSE kids(e)
  <2> SUFFICES ASSUME NEW e \in Dirs, last /\ e = Parent[d] PROVE kids2(e) = kids(e) - 1
    BY <1>9
  <2>1. OpenKids(s2, e) = OpenKids(s, e) \ {d} /\ d \in OpenKids(s, e)
    BY <1>9, <1>10
  <2>2. IsFiniteSet(OpenKids(s, e))
    BY FiniteParts
  <2>3. Cardinality(OpenKids(s, e) \ {d}) = Cardinality(OpenKids(s, e)) - 1
    BY <2>1, <2>2, FS_RemoveElement
  <2> QED BY <2>1, <2>3
<1>12. \A e \in Dirs : Ups(tt2, e) =
           IF last /\ e = Parent[d] THEN Ups(tt, e) \cup {x} ELSE Ups(tt, e) \ {x}
  <2> SUFFICES ASSUME NEW e \in Dirs
               PROVE Ups(tt2, e) = IF last /\ e = Parent[d] THEN Ups(tt, e) \cup {x} ELSE Ups(tt, e) \ {x}
    OBVIOUS
  <2>1. \A y \in Threads \ {x} : y \in Ups(tt2, e) <=> y \in Ups(tt, e)
    BY <1>m DEF Ups
  <2>2. x \in Ups(tt2, e) <=> last /\ e = Parent[d]
    BY <1>m, <1>1 DEF Ups
  <2>3. Ups(tt2, e) \subseteq Threads /\ Ups(tt, e) \subseteq Threads
    BY DEF Ups
  <2> QED BY <2>1, <2>2, <2>3
<1>13. \A e \in Dirs : x \in Ups(tt, e) <=> r.pc = "finish" /\ e = d
  BY <1>1 DEF Ups
<1>14. \A e \in Dirs : ups2(e) = IF last /\ e = Parent[d] THEN ups(e) + 1
                                 ELSE IF r.pc = "finish" /\ e = d THEN ups(e) - 1 ELSE ups(e)
  <2> SUFFICES ASSUME NEW e \in Dirs
               PROVE ups2(e) = IF last /\ e = Parent[d] THEN ups(e) + 1
                               ELSE IF r.pc = "finish" /\ e = d THEN ups(e) - 1 ELSE ups(e)
    OBVIOUS
  <2>1. IsFiniteSet(Ups(tt, e))
    BY FiniteParts
  <2>2. CASE last /\ e = Parent[d]
    <3>1. x \notin Ups(tt, e) /\ Ups(tt2, e) = Ups(tt, e) \cup {x}
      BY <2>2, <1>3, <1>12, <1>13
    <3>2. Cardinality(Ups(tt, e) \cup {x}) = Cardinality(Ups(tt, e)) + 1
      BY <3>1, <2>1, FS_AddElement
    <3> QED BY <3>1, <3>2, <2>2
  <2>3. CASE ~ (last /\ e = Parent[d]) /\ r.pc = "finish" /\ e = d
    <3>1. x \in Ups(tt, e) /\ Ups(tt2, e) = Ups(tt, e) \ {x}
      BY <2>3, <1>12, <1>13
    <3>2. Cardinality(Ups(tt, e) \ {x}) = Cardinality(Ups(tt, e)) - 1
      BY <3>1, <2>1, FS_RemoveElement
    <3> QED BY <3>1, <3>2, <2>3
  <2>4. CASE ~ (last /\ e = Parent[d]) /\ ~ (r.pc = "finish" /\ e = d)
    <3>1. x \notin Ups(tt, e) /\ Ups(tt2, e) = Ups(tt, e) \ {x}
      BY <2>4, <1>12, <1>13
    <3>2. Ups(tt2, e) = Ups(tt, e)
      BY <3>1
    <3> QED BY <3>2, <2>4
  <2> QED BY <2>2, <2>3, <2>4
<1>15. r.pc = "flush" => One(tt2, tasks, d) = 0 /\ One(tt, tasks, d) = 1
  BY <1>2 DEF One
<1>16. ASSUME NEW e \in Dirs PROVE s2[e].pending >= kids2(e) + ups2(e) + One(tt2, tasks, e)
  <2>1. CASE e = d
    <3>1. ~ (last /\ e = Parent[d])
      BY <2>1, <1>3
    <3>2. kids2(e) = kids(e) /\ s2[e].pending = s[e].pending - 1
      BY <2>1, <3>1, <1>11, <1>m
    <3>3. ups2(e) = IF r.pc = "finish" THEN ups(e) - 1 ELSE ups(e)
      BY <2>1, <3>1, <1>14
    <3>4. r.pc = "flush" \/ r.pc = "finish"
      BY <1>1
    <3>5. r.pc = "flush" => One(tt2, tasks, e) = 0 /\ One(tt, tasks, e) = 1
      BY <2>1, <1>15
    <3>6. /\ s[e].pending >= kids(e) + ups(e) + One(tt, tasks, e) /\ kids(e) \in Nat /\ ups(e) \in Nat
          /\ One(tt, tasks, e) \in {0, 1} /\ One(tt2, tasks, e) \in {0, 1}
          /\ One(tt2, tasks, e) <= One(tt, tasks, e) /\ s[e].pending \in Int
      BY <1>0, <1>4
    <3> HIDE DEF kids, ups, kids2, ups2, r, d
    <3> QED BY <3>2, <3>3, <3>4, <3>5, <3>6
  <2>2. CASE e # d
    <3>1. s2[e].pending = s[e].pending
      BY <2>2, <1>m
    <3>2. kids2(e) + ups2(e) = kids(e) + ups(e)
      <4>1. kids2(e) = IF last /\ e = Parent[d] THEN kids(e) - 1 ELSE kids(e)
        BY <1>11
      <4>2. ups2(e) = IF last /\ e = Parent[d] THEN ups(e) + 1 ELSE ups(e)
        BY <2>2, <1>14
      <4>3. kids(e) \in Nat /\ ups(e) \in Nat
        BY <1>4
      <4> HIDE DEF kids, ups, kids2, ups2, last
      <4> QED BY <4>1, <4>2, <4>3
    <3>3. /\ s[e].pending >= kids(e) + ups(e) + One(tt, tasks, e) /\ kids(e) \in Nat /\ ups(e) \in Nat
          /\ One(tt, tasks, e) \in {0, 1} /\ One(tt2, tasks, e) \in {0, 1}
          /\ One(tt2, tasks, e) <= One(tt, tasks, e) /\ s[e].pending \in Int
      BY <1>0, <1>4
    <3> HIDE DEF kids, ups, kids2, ups2, r, d
    <3> QED BY <3>1, <3>2, <3>3
  <2> QED BY <2>1, <2>2
<1>17. Counted(tt2, tasks, s2)
  BY <1>16 DEF Counted
<1> QED BY <1>7, <1>8, <1>17

LEMMA ReleaseBlamed ==
  ASSUME NEW tt, NEW s \in Slots, NEW x \in Threads, NEW up \in Release, NEW rec \in ThreadStates,
         tt[x] \in ThreadStates, Blamed(tt, s), Onward(tt[x], rec, s, up),
         NEW tt2, Moved(tt, tt2, x, rec),
         NEW s2 \in Slots, Lowered(s, s2, up)
  PROVE  Blamed(tt2, s2)
<1>0. up.dir \in Dirs /\ up.ok \in BOOLEAN /\ s[up.dir].pending \in Int
  BY DEF Release, Slots
<1>m. /\ tt2[x] = rec /\ (\A y \in Threads \ {x} : tt2[y] = tt[y])
      /\ s2[up.dir].pending = s[up.dir].pending - 1
      /\ s2[up.dir].incomplete = (s[up.dir].incomplete \/ ~ up.ok)
      /\ \A e \in Dirs : s2[e].parent = s[e].parent /\ (e # up.dir => s2[e] = s[e])
  BY DEF Moved, Lowered
<1> SUFFICES ASSUME NEW e \in Dirs \ {Root}, Spoiled(s2, e), ~ s2[Parent[e]].incomplete
             PROVE  \E y \in Threads : Carries(tt2[y], e)
  BY DEF Blamed
<1>p. Parent[e] \in Dirs
  BY ScanAssumption
<1>1. CASE e = up.dir
  <2>1. s[up.dir].pending = 1
    BY <1>m, <1>0, <1>1 DEF Spoiled
  <2>2. Carries(rec, e)
    BY <1>1, <2>1 DEF Onward, Carries
  <2> QED BY <1>m, <2>2
<1>2. CASE e # up.dir
  <2>1. Spoiled(s, e)
    BY <1>m, <1>2 DEF Spoiled
  <2>2. ~ s[Parent[e]].incomplete
    BY <1>m, <1>p, <1>0
  <2>3. PICK y \in Threads : Carries(tt[y], e)
    BY <2>1, <2>2 DEF Blamed
  <2>4. y # x
    <3> SUFFICES ASSUME Carries(tt[x], e) PROVE FALSE
      BY <2>3
    <3>1. tt[x].pc \in {"flush", "finish"}
      BY OnwardUps
    <3>2. tt[x].pc = "finish" /\ tt[x].up.dir = Parent[e] /\ ~ tt[x].up.ok
      BY <3>1 DEF Carries, Rising
    <3>3. up = tt[x].up
      BY <3>2 DEF Onward, Due
    <3>4. s2[up.dir].incomplete
      BY <1>m, <3>2, <3>3
    <3> QED BY <1>m, <3>2, <3>3, <3>4
  <2> QED BY <1>m, <2>3, <2>4
<1> QED BY <1>1, <1>2

LEMMA ListDirs ==
  /\ \A list \in Seq(Task) : DirsOf(list) \subseteq Dirs
  /\ \A list \in Seq(Release) : DirsOf(list) \subseteq Dirs
<1>1. ASSUME NEW S, \A e \in S : e.dir \in Dirs, NEW list \in Seq(S) PROVE DirsOf(list) \subseteq Dirs
  <2> SUFFICES ASSUME NEW i \in DOMAIN list PROVE list[i].dir \in Dirs
    BY DEF DirsOf
  <2>1. list[i] \in S
    OBVIOUS
  <2> QED BY <1>1, <2>1
<1>2. (\A e \in Task : e.dir \in Dirs) /\ (\A e \in Release : e.dir \in Dirs)
  BY DEF Task, Release
<1> QED BY <1>1, <1>2

LEMMA MineDirs ==
  ASSUME NEW s \in ThreadStates PROVE Mine(s) \subseteq Dirs /\ UpTo(s) \subseteq Dirs /\ s.up.dir \in Dirs
<1>1. s.out.held \in Seq(Task) /\ s.kept \in Seq(Task) /\ s.out.releases \in Seq(Release)
      /\ s.task.dir \in Dirs /\ s.up.dir \in Dirs
  BY DEF ThreadStates, Outboxes, Task, Release
<1>2. HeldOf(s) \subseteq Dirs /\ KeptOf(s) \subseteq Dirs
  BY <1>1, ListDirs DEF HeldOf, KeptOf
<1>3. DueOf(s) \subseteq Dirs
  BY <1>1, ListDirs DEF DueOf
<1>4. UpTo(s) \subseteq Dirs
  BY <1>1, ScanAssumption DEF UpTo
<1> QED BY <1>1, <1>2, <1>3, <1>4 DEF Mine, TaskOf

Warned(s, up) ==
    \A e \in Dirs \ {Root} : Spoiled(s, e) /\ Parent[e] = up.dir => s[up.dir].incomplete \/ ~ up.ok

LEMMA ReleaseStep ==
  ASSUME IInv, NEW x \in Threads, NEW up \in Release, NEW rec \in ThreadStates, Onward(t[x], rec, slot, up),
         t' = [t EXCEPT ![x] = rec], q' = q, slot' = Lessened(slot, up)
  PROVE  /\ IInv' /\ slot[up.dir].pending >= 1 /\ Known(slot, up.dir)
         /\ slot[up.dir].pending = 1 => OpenKids(slot, up.dir) = {} /\ Warned(slot, up)
<1> DEFINE d == up.dir
           r == t[x]
<1>t. ScanTypes /\ r \in ThreadStates /\ slot \in Slots /\ d \in Dirs
  BY ThreadFields DEF IInv, ScanTypes, Release
<1>1. Alone(t, t', x) /\ t'[x] = rec /\ (\A y \in Threads \ {x} : t'[y] = t[y])
  BY <1>t, PutAlone DEF Alone
<1>2. /\ Apart(t, q.tasks) /\ Rooted(slot) /\ Counted(t, q.tasks, slot) /\ Blamed(t, slot) /\ Together(t)
      /\ QueueFresh(q.tasks, slot)
      /\ \A y \in Threads : Orderly(t[y]) /\ Fresh(t[y], slot) /\ Grounded(t[y], slot)
  BY DEF IInv, Sound
<1>3. /\ slot' \in Slots /\ slot'[d].pending = slot[d].pending - 1
      /\ slot'[d].incomplete = (slot[d].incomplete \/ ~ up.ok)
      /\ \A e \in Dirs : slot'[e].parent = slot[e].parent /\ (e # d => slot'[e] = slot[e])
  BY <1>t, ReleaseFrame
<1>4. Known(slot, d)
  <2>1. CASE r.pc = "flush"
    <3>1. d \in Mine(r)
      BY <2>1 DEF Onward, Due, Mine
    <3> QED BY <3>1, <1>2 DEF Grounded
  <2>2. CASE r.pc = "finish"
    <3>1. d \in UpTo(r)
      BY <2>2, <1>t, OnwardUps
    <3> QED BY <3>1, <1>2 DEF Grounded
  <2> QED BY <2>1, <2>2 DEF Onward, Due
<1>a. Apart(t, q.tasks) /\ Rooted(slot) /\ Counted(t, q.tasks, slot) /\ Blamed(t, slot) /\ t[x] \in ThreadStates
  BY <1>t, <1>2
<1>b. Moved(t, t', x, rec) /\ Lowered(slot, slot', up) /\ slot' \in Slots
  BY <1>1, <1>3 DEF Moved, Lowered
<1>q. q' = q
  OBVIOUS
<1>5. /\ Counted(t', q.tasks, slot') /\ slot[d].pending >= 1
      /\ slot[d].pending = 1 => OpenKids(slot, d) = {} /\ Ups(t, d) \subseteq {x}
  BY <1>t, <1>a, <1>b, <1>4, ReleaseCounted
<1>6. Apart(t', q.tasks)
  BY <1>t, <1>a, <1>b, ReleaseOwned
<1>7. Blamed(t', slot')
  BY <1>t, <1>a, <1>b, ReleaseBlamed
<1>8. /\ \A e \in Dirs : Known(slot', e) <=> Known(slot, e)
      /\ \A e : Unread(slot', e) <=> Unread(slot, e)
      /\ Rooted(slot')
      /\ \A s \in ThreadStates : Fresh(s, slot) => Fresh(s, slot')
  BY <1>2, <1>3, ParentsStay
<1>9. QueueFresh(q'.tasks, slot')
  <2>1. \A e \in Queued(q.tasks) : e \in Dirs
    BY <1>t DEF Queued, ScanTypes, Queues, Task
  <2> QED BY <1>2, <1>8, <2>1 DEF QueueFresh
<1>10. ASSUME NEW s \in ThreadStates PROVE Mine(s) \subseteq Dirs /\ UpTo(s) \subseteq Dirs /\ s.up.dir \in Dirs
  BY MineDirs
<1>11. Grounded(rec, slot)
  <2>1. \A e \in Mine(rec) : Known(slot, e)
    BY <1>2 DEF Onward, Grounded
  <2>2. \A e \in UpTo(rec) : Known(slot, e)
    <3>1. UpTo(rec) = {} \/ (d # Root /\ UpTo(rec) = {Parent[d]})
      BY <1>t, OnwardUps
    <3>2. d # Root => Known(slot, Parent[d])
      BY <1>t, <1>2, <1>4 DEF Rooted, Known
    <3> QED BY <3>1, <3>2
  <2>3. rec.pc = "push" => rec.up = up
    BY <1>t, OnwardUps
  <2> QED BY <1>4, <2>1, <2>2, <2>3 DEF Grounded
<1>12. ASSUME NEW s \in ThreadStates, Grounded(s, slot) PROVE Grounded(s, slot')
  BY <1>8, <1>10, <1>12 DEF Grounded
<1>13. \A y \in Threads : Orderly(t'[y]) /\ Fresh(t'[y], slot') /\ Grounded(t'[y], slot')
  <2> SUFFICES ASSUME NEW y \in Threads PROVE Orderly(t'[y]) /\ Fresh(t'[y], slot') /\ Grounded(t'[y], slot')
    OBVIOUS
  <2>1. CASE y = x
    BY <2>1, <1>1, <1>8, <1>11, <1>12 DEF Onward
  <2>2. CASE y # x
    <3>1. t'[y] = t[y] /\ t[y] \in ThreadStates
      BY <2>2, <1>1, <1>t, ThreadFields
    <3> QED BY <3>1, <1>2, <1>8, <1>12
  <2> QED BY <2>1, <2>2
<1>14. Together(t')
  <2>1. t[Main].pc # "start" /\ Main \in Threads
    BY <1>t, <1>2, OnwardUps DEF Together, Threads
  <2>2. rec.pc # "start"
    BY <1>t, OnwardUps
  <2> QED BY <1>1, <2>1, <2>2 DEF Together
<1>15. ScanTypes'
  BY <1>t, <1>1, <1>3 DEF ScanTypes, Alone
<1>16. Sound(t', q'.tasks, slot')
  BY <1>q, <1>5, <1>6, <1>7, <1>8, <1>9, <1>13, <1>14 DEF Sound
<1>17. ASSUME slot[d].pending = 1 PROVE Warned(slot, up)
  <2> SUFFICES ASSUME NEW e \in Dirs \ {Root}, Spoiled(slot, e), Parent[e] = d, ~ slot[d].incomplete, up.ok PROVE FALSE
    BY DEF Warned
  <2>1. PICK y \in Threads : Carries(t[y], e)
    BY <1>2 DEF Blamed
  <2>2. d \in UpTo(t[y])
    BY <2>1 DEF Carries, UpTo, Rising
  <2>3. y = x
    BY <1>5, <1>17, <2>2 DEF Ups
  <2>4. r.pc \in {"flush", "finish"} /\ (r.pc = "flush" => UpTo(r) = {})
    BY <1>t, OnwardUps
  <2>5. r.pc = "finish"
    BY <2>2, <2>3, <2>4
  <2>6. ~ r.up.ok /\ up = r.up
    BY <2>1, <2>3, <2>5 DEF Carries, Onward, Due
  <2> QED BY <2>6
<1> QED BY <1>4, <1>5, <1>15, <1>16, <1>17 DEF IInv

LEMMA FinishDirectoryFacts ==
  ASSUME IInv, NEW x \in Threads, FinishDirectory(x)
  PROVE  \E up \in Release :
            /\ IInv' /\ slot' = Lessened(slot, up) /\ slot[up.dir].pending >= 1 /\ Known(slot, up.dir)
            /\ slot[up.dir].pending = 1 => OpenKids(slot, up.dir) = {} /\ Warned(slot, up)
<1> DEFINE r == t[x]
           rels == r.out.releases
<1>t. ScanTypes /\ r \in ThreadStates /\ r.out \in Outboxes /\ rels \in Seq(Release) /\ r.up \in Release
  BY ThreadFields DEF IInv
<1>0. Orderly(r) /\ Fresh(r, slot)
  BY DEF IInv, Sound
<1>1. PICK up \in {Head(t[x].out.releases \o <<t[x].up>>), t[x].up} :
       /\ \/ r.pc = "flush" /\ rels # <<>> /\ up = Head(rels)
          \/ r.pc = "finish" /\ up = r.up
       /\ slot' = Lessened(slot, up)
       /\ t' = [t EXCEPT ![x].pc = IF slot[up.dir].pending = 1 THEN "push" ELSE "flush",
                         ![x].up = IF slot[up.dir].pending = 1 THEN up ELSE NoRelease,
                         ![x].out.releases = IF r.pc = "flush" THEN Tail(@) ELSE @]
  BY DEF FinishDirectory, Flushed, At, Lessened
<1> DEFINE pc == IF slot[up.dir].pending = 1 THEN "push" ELSE "flush"
           up2 == IF slot[up.dir].pending = 1 THEN up ELSE NoRelease
           rest == IF r.pc = "flush" THEN Tail(rels) ELSE rels
           rec == [r EXCEPT !.pc = pc, !.up = up2, !.out.releases = rest]
<1>2. r.pc = "flush" => rels # <<>> /\ up = Head(rels)
  BY <1>1
<1>h. r.pc = "flush" =>
         /\ Tail(rels) \in Seq(Release) /\ Head(rels) \in Release /\ Once(Tail(rels))
         /\ DirsOf(Tail(rels)) = DirsOf(rels) \ {Head(rels).dir} /\ Head(rels).dir \in DirsOf(rels)
  <2>1. Once(rels)
    BY <1>0 DEF Orderly
  <2> HIDE DEF rels
  <2> QED BY <1>t, <1>2, <2>1, TailDirs
<1>3. up \in Release /\ rest \in Seq(Release) /\ Once(rest) /\ DirsOf(rest) \subseteq DirsOf(rels)
  BY <1>t, <1>0, <1>1, <1>h DEF Orderly
<1>4. r.pc = "flush" => up.dir \in DirsOf(rels) /\ up.dir \notin DirsOf(rest)
  BY <1>2, <1>h
<1>5. /\ slot[up.dir].pending = 1 => pc = "push" /\ up2 = up
      /\ slot[up.dir].pending # 1 => pc = "flush"
      /\ pc \in {"push", "flush"}
  OBVIOUS
<1>6. pc \in Pcs /\ up2 \in Release
  BY <1>3, <1>5, Names, ScanAssumption DEF NoRelease, Release
<1>7. t' = [t EXCEPT ![x] = rec]
  BY ZenonT(30), <1>1
<1> HIDE DEF pc, up2, rest
<1>8. [r.out EXCEPT !.releases = rest] \in Outboxes
  BY <1>t, <1>3 DEF Outboxes
<1>9. /\ rec \in ThreadStates /\ rec.pc = pc /\ rec.up = up2 /\ rec.out.releases = rest /\ rec.out.held = r.out.held
      /\ rec.kept = r.kept /\ rec.task = r.task /\ rec.todo = r.todo /\ rec.ret = r.ret
  BY <1>t, <1>6, <1>8 DEF ThreadStates, Outboxes
<1> HIDE DEF rec
<1>10. (Reading(rec) <=> Reading(r)) /\ ~ Opening(rec) /\ ~ Opening(r)
  BY <1>1, <1>5, <1>9 DEF Reading, Leaving, Opening, FlushPcs
<1>11. /\ HeldOf(rec) = HeldOf(r) /\ KeptOf(rec) = KeptOf(r) /\ DueOf(rec) \subseteq DueOf(r) /\ TaskOf(rec) = TaskOf(r)
       /\ r.pc = "flush" => up.dir \in DueOf(r) /\ up.dir \notin DueOf(rec)
  BY <1>3, <1>4, <1>9, <1>10 DEF HeldOf, KeptOf, DueOf, TaskOf
<1>12. Orderly(rec)
  BY <1>0, <1>3, <1>5, <1>9, <1>11 DEF Orderly
<1>13. Fresh(rec, slot)
  BY <1>0, <1>9, <1>10, <1>11 DEF Fresh
<1>14. Mine(rec) \subseteq Mine(r)
  BY <1>11 DEF Mine
<1>15. r.pc = "flush" => up.dir \notin Mine(rec)
  BY <1>0, <1>11 DEF Mine, Orderly
<1>16. Onward(r, rec, slot, up)
  BY <1>1, <1>5, <1>9, <1>11, <1>12, <1>13, <1>14, <1>15 DEF Onward, Due
<1>17. q' = q
  BY DEF FinishDirectory
<1> HIDE DEF r
<1>18. Onward(t[x], rec, slot, up)
  BY <1>16 DEF r
<1>19. /\ IInv' /\ slot[up.dir].pending >= 1 /\ Known(slot, up.dir)
       /\ slot[up.dir].pending = 1 => OpenKids(slot, up.dir) = {} /\ Warned(slot, up)
  BY <1>1, <1>3, <1>7, <1>9, <1>17, <1>18, ReleaseStep
<1> QED BY <1>1, <1>3, <1>19
-----------------------------------------------------------------------------
\* A reading thread registers the child directory n of its directory d.
Enrolled(s, s2, n, d) ==
    /\ s2[n] = [pending |-> 1, incomplete |-> FALSE, parent |-> d]
    /\ s2[d].pending = s[d].pending + 1 /\ s2[d].incomplete = s[d].incomplete /\ s2[d].parent = s[d].parent
    /\ \A e \in Dirs \ {n, d} : s2[e] = s[e]

Reader(r, rec, n, d) ==
    /\ r.pc = "scan" /\ r.task.dir = d /\ n \in r.todo /\ rec.pc \in {"scan", "flush"} /\ rec.ret = "scan"
    /\ rec.task = r.task /\ rec.todo = r.todo \ {n}
    /\ HeldOf(rec) = HeldOf(r) \cup {n} /\ KeptOf(rec) = KeptOf(r) /\ DueOf(rec) = DueOf(r)
    /\ n \notin HeldOf(r) => Once(rec.out.held)
    /\ Once(rec.kept) /\ Once(rec.out.releases)

\* The child is not known yet, and its parent is.
Newcomer(s, n, d) ==
    /\ n \in Dirs /\ d \in Dirs /\ n # d /\ n # Root /\ Parent[n] = d /\ ~ Known(s, n) /\ s[n].parent = None
    /\ Known(s, d) /\ Unread(s, n)

LEMMA NewcomerFacts ==
  ASSUME NEW r \in ThreadStates, NEW s \in Slots, NEW n \in r.todo, n \in Dirs, r.pc = "scan",
         Fresh(r, s), Grounded(r, s), Rooted(s)
  PROVE  Newcomer(s, n, r.task.dir)
<1>1. Reading(r)
  BY DEF Reading
<1>2. n \in Kids(r.task.dir) /\ s[n].parent = None
  BY <1>1 DEF Fresh
<1>3. n # Root /\ Parent[n] = r.task.dir /\ r.task.dir \in Dirs
  BY <1>2 DEF Kids, ThreadStates, Task
<1>4. Known(s, r.task.dir) /\ ~ Known(s, n)
  BY <1>1, <1>2, <1>3 DEF Grounded, Mine, TaskOf, Known
<1>5. Unread(s, n)
  <2> SUFFICES ASSUME NEW e \in Dirs \ {Root}, s[e].parent = n PROVE FALSE
    BY DEF Unread
  <2>1. s[e].parent # None
    BY ScanAssumption
  <2>2. Parent[e] = n /\ Known(s, Parent[e])
    BY <2>1 DEF Rooted
  <2> QED BY <1>4, <2>2
<1> QED BY <1>2, <1>3, <1>4, <1>5 DEF Newcomer

LEMMA EnrolledFrame ==
  ASSUME NEW s \in Slots, NEW n, NEW d, Newcomer(s, n, d), Rooted(s), NEW s2 \in Slots, Enrolled(s, s2, n, d)
  PROVE  /\ \A e : Known(s, e) /\ e \in Dirs => Known(s2, e)
         /\ Rooted(s2)
         /\ \A e : Unread(s, e) /\ e # d => Unread(s2, e)
         /\ \A e \in Dirs : e # n => s2[e].parent = s[e].parent
<1>0. /\ n \in Dirs /\ d \in Dirs /\ n # d /\ n # Root /\ Parent[n] = d /\ ~ Known(s, n) /\ Known(s, d)
  BY DEF Newcomer
<1>1. \A e \in Dirs : e # n => s2[e].parent = s[e].parent
  BY <1>0 DEF Enrolled
<1>2. s2[n].parent = d /\ None \notin Dirs
  BY ScanAssumption DEF Enrolled
<1>3. ASSUME NEW e \in Dirs, Known(s, e) PROVE Known(s2, e)
  BY <1>0, <1>1, <1>3 DEF Known
<1>4. Rooted(s2)
  <2> SUFFICES ASSUME NEW e \in Dirs, s2[e].parent # None
               PROVE  e # Root /\ s2[e].parent = Parent[e] /\ Parent[e] # e /\ Known(s2, Parent[e])
    BY DEF Rooted
  <2>1. CASE e = n
    BY <2>1, <1>0, <1>2, <1>3
  <2>2. CASE e # n
    <3>1. e # Root /\ s[e].parent = Parent[e] /\ Parent[e] # e /\ Known(s, Parent[e])
      BY <2>2, <1>1 DEF Rooted
    <3>2. Parent[e] \in Dirs
      BY ScanAssumption
    <3> QED BY <2>2, <1>1, <1>3, <3>1, <3>2
  <2> QED BY <2>1, <2>2
<1>5. ASSUME NEW e, Unread(s, e), e # d PROVE Unread(s2, e)
  BY <1>0, <1>1, <1>2, <1>5 DEF Unread
<1> QED BY <1>1, <1>3, <1>4, <1>5

\* What the reading thread and the others own after it.
LEMMA EnrolledThreads ==
  ASSUME NEW tt \in [Threads -> ThreadStates], NEW tasks \in SUBSET Task, NEW s \in Slots, NEW x \in Threads,
         NEW n, NEW d, NEW rec \in ThreadStates, NEW tt2, NEW s2 \in Slots, Sound(tt, tasks, s),
         Reader(tt[x], rec, n, d), Newcomer(s, n, d), Moved(tt, tt2, x, rec), Enrolled(s, s2, n, d)
  PROVE  /\ Mine(rec) = Mine(tt[x]) \cup {n} /\ n \notin Owned(tt, tasks) /\ d \in Mine(tt[x])
         /\ UpTo(rec) = {} /\ UpTo(tt[x]) = {} /\ (\A e : ~ Carries(tt[x], e))
         /\ \A y \in Threads : Orderly(tt2[y]) /\ Fresh(tt2[y], s2) /\ Grounded(tt2[y], s2)
         /\ QueueFresh(tasks, s2) /\ Apart(tt2, tasks) /\ Together(tt2)
<1> DEFINE r == tt[x]
<1>0. /\ n \in Dirs /\ d \in Dirs /\ n # d /\ n # Root /\ Parent[n] = d /\ ~ Known(s, n) /\ s[n].parent = None
      /\ Known(s, d) /\ Unread(s, n)
  BY DEF Newcomer
<1>1. /\ QueueFresh(tasks, s) /\ Apart(tt, tasks) /\ Rooted(s) /\ Together(tt)
      /\ \A y \in Threads : Orderly(tt[y]) /\ Fresh(tt[y], s) /\ Grounded(tt[y], s)
  BY DEF Sound
<1>2. tt2[x] = rec /\ \A y \in Threads \ {x} : tt2[y] = tt[y]
  BY DEF Moved
<1>3. /\ \A e : Known(s, e) /\ e \in Dirs => Known(s2, e)
      /\ \A e : Unread(s, e) /\ e # d => Unread(s2, e)
      /\ \A e \in Dirs : e # n => s2[e].parent = s[e].parent
  BY <1>1, EnrolledFrame
<1>4. /\ r.pc = "scan" /\ r.task.dir = d /\ n \in r.todo /\ rec.pc \in {"scan", "flush"} /\ rec.ret = "scan"
      /\ rec.task = r.task /\ rec.todo = r.todo \ {n}
      /\ HeldOf(rec) = HeldOf(r) \cup {n} /\ KeptOf(rec) = KeptOf(r) /\ DueOf(rec) = DueOf(r)
      /\ n \notin HeldOf(r) => Once(rec.out.held)
      /\ Once(rec.kept) /\ Once(rec.out.releases)
  BY DEF Reader
<1>5. Reading(r) /\ Reading(rec) /\ ~ Opening(r) /\ ~ Opening(rec) /\ ~ Rising(r) /\ ~ Rising(rec)
      /\ r.pc # "push" /\ rec.pc # "push"
  BY <1>4 DEF Reading, Leaving, Opening, Rising, FlushPcs
<1>6. UpTo(rec) = {} /\ UpTo(r) = {} /\ \A e : ~ Carries(r, e)
  BY <1>5 DEF UpTo, Carries
<1>7. TaskOf(r) = {d} /\ TaskOf(rec) = {d} /\ d \in Mine(r)
  BY <1>4, <1>5 DEF TaskOf, Mine
<1>8. Mine(rec) = Mine(r) \cup {n}
  BY <1>4, <1>7 DEF Mine
<1>9. n \notin Owned(tt, tasks)
  BY <1>0, <1>1 DEF Owned, Grounded, QueueFresh
<1>10. \A y \in Threads : n \notin Mine(tt[y])
  BY <1>9 DEF Owned
<1>11. n \notin Queued(tasks)
  BY <1>9 DEF Owned
<1>12. n \notin TaskOf(r) /\ n \notin HeldOf(r) /\ n \notin KeptOf(r) /\ n \notin DueOf(r)
  BY <1>10 DEF Mine
<1>13. Orderly(rec)
  <2>1. Once(rec.out.held) /\ Once(rec.kept) /\ Once(rec.out.releases)
    BY <1>4, <1>12
  <2>2. /\ TaskOf(r) \cap HeldOf(r) = {} /\ TaskOf(r) \cap KeptOf(r) = {} /\ TaskOf(r) \cap DueOf(r) = {}
        /\ HeldOf(r) \cap KeptOf(r) = {} /\ HeldOf(r) \cap DueOf(r) = {} /\ KeptOf(r) \cap DueOf(r) = {}
    BY <1>1 DEF Orderly
  <2> HIDE DEF r
  <2>3. /\ TaskOf(rec) \cap HeldOf(rec) = {} /\ TaskOf(rec) \cap KeptOf(rec) = {} /\ TaskOf(rec) \cap DueOf(rec) = {}
        /\ HeldOf(rec) \cap KeptOf(rec) = {} /\ HeldOf(rec) \cap DueOf(rec) = {} /\ KeptOf(rec) \cap DueOf(rec) = {}
    BY <2>2, <1>0, <1>4, <1>7, <1>12
  <2> QED BY <2>1, <2>3, <1>4 DEF Orderly
<1>14. Fresh(rec, s2)
  <2>1. Fresh(r, s) /\ d \notin HeldOf(r) /\ d \notin KeptOf(r)
    BY <1>1, <1>7 DEF Orderly
  <2>2. rec.todo \subseteq Kids(rec.task.dir) /\ \A e \in rec.todo \cap Dirs : s2[e].parent = None
    BY <2>1, <1>3, <1>4, <1>5 DEF Fresh
  <2>3. \A e \in HeldOf(rec) \cup KeptOf(rec) : Unread(s2, e)
    BY <2>1, <1>0, <1>3, <1>4 DEF Fresh
  <2> QED BY <2>2, <2>3, <1>5 DEF Fresh
<1>15. ASSUME NEW y \in Threads, y # x PROVE Fresh(tt[y], s2)
  <2>1. d \notin Mine(tt[y]) /\ Fresh(tt[y], s)
    BY <1>1, <1>7, <1>15 DEF Apart
  <2>2. ASSUME Reading(tt[y]) PROVE /\ tt[y].todo \subseteq Kids(tt[y].task.dir)
                                    /\ \A e \in tt[y].todo \cap Dirs : s2[e].parent = None
    <3>1. tt[y].todo \subseteq Kids(tt[y].task.dir) /\ \A e \in tt[y].todo \cap Dirs : s[e].parent = None
      BY <2>1, <2>2 DEF Fresh
    <3>2. tt[y].task.dir # d
      BY <2>1, <2>2 DEF Mine, TaskOf
    <3>3. n \notin tt[y].todo
      BY <3>1, <3>2, <1>0 DEF Kids
    <3> QED BY <3>1, <3>3, <1>3
  <2>3. ASSUME Opening(tt[y]) PROVE Unread(s2, tt[y].task.dir)
    BY <2>1, <2>3, <1>3 DEF Fresh, Mine, TaskOf
  <2>4. \A e \in HeldOf(tt[y]) \cup KeptOf(tt[y]) : Unread(s2, e)
    BY <2>1, <1>3 DEF Fresh, Mine
  <2> QED BY <2>2, <2>3, <2>4 DEF Fresh
<1>16. ASSUME NEW z \in ThreadStates PROVE Mine(z) \subseteq Dirs /\ UpTo(z) \subseteq Dirs /\ z.up.dir \in Dirs
  BY MineDirs
<1>17. \A y \in Threads : Grounded(tt[y], s2)
  <2> SUFFICES ASSUME NEW y \in Threads PROVE Grounded(tt[y], s2)
    OBVIOUS
  <2>1. tt[y] \in ThreadStates /\ Grounded(tt[y], s)
    BY <1>1
  <2>2. Mine(tt[y]) \subseteq Dirs /\ UpTo(tt[y]) \subseteq Dirs /\ tt[y].up.dir \in Dirs
    BY <2>1, <1>16
  <2> QED BY <2>1, <2>2, <1>3 DEF Grounded
<1>18. Grounded(rec, s2)
  <2>1. s2[n].parent # None
    BY <1>0, ScanAssumption DEF Enrolled
  <2> QED BY <2>1, <1>5, <1>6, <1>8, <1>17 DEF Grounded, Known
<1>19. \A y \in Threads : Orderly(tt2[y]) /\ Fresh(tt2[y], s2) /\ Grounded(tt2[y], s2)
  <2> SUFFICES ASSUME NEW y \in Threads PROVE Orderly(tt2[y]) /\ Fresh(tt2[y], s2) /\ Grounded(tt2[y], s2)
    OBVIOUS
  <2>1. CASE y = x
    BY <2>1, <1>2, <1>13, <1>14, <1>18
  <2>2. CASE y # x
    BY <2>2, <1>1, <1>2, <1>15, <1>17
  <2> QED BY <2>1, <2>2
<1>20. QueueFresh(tasks, s2)
  <2>1. d \notin Queued(tasks)
    BY <1>1, <1>7 DEF Apart
  <2>2. Queued(tasks) \subseteq Dirs
    BY DEF Queued, Task
  <2> QED BY <2>1, <2>2, <1>1, <1>3 DEF QueueFresh
<1>21. Apart(tt2, tasks)
  <2>1. ASSUME NEW y \in Threads, NEW z \in Threads, y # z PROVE Mine(tt2[y]) \cap Mine(tt2[z]) = {}
    <3>1. Mine(tt[y]) \cap Mine(tt[z]) = {}
      BY <2>1, <1>1 DEF Apart
    <3>2. CASE y = x
      BY <3>1, <3>2, <2>1, <1>2, <1>8, <1>10
    <3>3. CASE z = x
      BY <3>1, <3>3, <2>1, <1>2, <1>8, <1>10
    <3>4. CASE y # x /\ z # x
      BY <3>1, <3>4, <1>2
    <3> QED BY <3>2, <3>3, <3>4
  <2>2. ASSUME NEW y \in Threads PROVE Mine(tt2[y]) \cap Queued(tasks) = {}
    <3>1. Mine(tt[y]) \cap Queued(tasks) = {}
      BY <1>1 DEF Apart
    <3>2. CASE y = x
      BY <3>1, <3>2, <1>2, <1>8, <1>11
    <3>3. CASE y # x
      BY <3>1, <3>3, <1>2
    <3> QED BY <3>2, <3>3
  <2> QED BY <2>1, <2>2 DEF Apart
<1>22. Together(tt2)
  BY <1>1, <1>2, <1>4 DEF Together, Threads
<1> QED BY <1>6, <1>7, <1>8, <1>9, <1>19, <1>20, <1>21, <1>22

LEMMA EnrolledCounted ==
  ASSUME NEW tt \in [Threads -> ThreadStates], NEW tasks \in SUBSET Task, NEW s \in Slots, NEW x \in Threads,
         NEW n, NEW d, NEW rec \in ThreadStates, NEW tt2, NEW s2 \in Slots, Sound(tt, tasks, s),
         Reader(tt[x], rec, n, d), Newcomer(s, n, d), Moved(tt, tt2, x, rec), Enrolled(s, s2, n, d)
  PROVE  Counted(tt2, tasks, s2) /\ Blamed(tt2, s2) /\ s[d].pending >= 1
<1>0. /\ n \in Dirs /\ d \in Dirs /\ n # d /\ n # Root /\ Parent[n] = d /\ ~ Known(s, n) /\ s[n].parent = None
      /\ Known(s, d) /\ Unread(s, n)
  BY DEF Newcomer
<1>1. /\ Rooted(s) /\ Counted(tt, tasks, s) /\ Blamed(tt, s)
      /\ \A y \in Threads : Grounded(tt[y], s)
  BY DEF Sound
<1>2. tt2[x] = rec /\ \A y \in Threads \ {x} : tt2[y] = tt[y]
  BY DEF Moved
<1>3. /\ s2[n].pending = 1 /\ s2[n].incomplete = FALSE /\ s2[n].parent = d
      /\ s2[d].pending = s[d].pending + 1 /\ s2[d].incomplete = s[d].incomplete /\ s2[d].parent = s[d].parent
      /\ \A e \in Dirs \ {n, d} : s2[e] = s[e]
  BY DEF Enrolled
<1>4. /\ Mine(rec) = Mine(tt[x]) \cup {n} /\ n \notin Owned(tt, tasks)
      /\ d \in Mine(tt[x]) /\ UpTo(rec) = {} /\ UpTo(tt[x]) = {} /\ (\A e : ~ Carries(tt[x], e))
  <2>1. n \notin Owned(tt, tasks)
    BY EnrolledThreads
  <2>4. Mine(rec) = Mine(tt[x]) \cup {n}
    BY EnrolledThreads
  <2>2. d \in Mine(tt[x]) /\ UpTo(rec) = {} /\ UpTo(tt[x]) = {}
    BY EnrolledThreads
  <2>3. \A e : ~ Carries(tt[x], e)
    BY EnrolledThreads
  <2> QED BY <2>1, <2>2, <2>3, <2>4
<1>5. None \notin Dirs /\ \A e \in Dirs : s[e].pending \in Int
  BY ScanAssumption DEF Slots
<1>6. Owned(tt2, tasks) = Owned(tt, tasks) \cup {n}
  <2>1. \A y \in Threads \ {x} : Mine(tt2[y]) = Mine(tt[y])
    BY <1>2
  <2>2. Mine(tt2[x]) = Mine(tt[x]) \cup {n}
    BY <1>2, <1>4
  <2> QED BY <2>1, <2>2 DEF Owned
<1>7. \A e : Ups(tt2, e) = Ups(tt, e)
  BY <1>2, <1>4 DEF Ups
<1>a. s[d].pending >= 1
  <2>1. One(tt, tasks, d) = 1
    BY <1>4 DEF One, Owned
  <2>2. s[d].pending >= Cardinality(OpenKids(s, d)) + Cardinality(Ups(tt, d)) + One(tt, tasks, d)
    BY <1>0, <1>1 DEF Counted
  <2>3. Cardinality(OpenKids(s, d)) \in Nat /\ Cardinality(Ups(tt, d)) \in Nat
    BY FiniteParts
  <2> QED BY <2>1, <2>2, <2>3, <1>0, <1>5
<1>8. \A e \in Dirs : OpenKids(s2, e) = IF e = d THEN OpenKids(s, e) \cup {n} ELSE OpenKids(s, e)
  <2> SUFFICES ASSUME NEW e \in Dirs, NEW k \in Dirs \ {Root}
               PROVE  k \in OpenKids(s2, e) <=> k \in OpenKids(s, e) \/ (e = d /\ k = n)
    BY <1>0 DEF OpenKids
  <2>1. CASE k = n
    BY <2>1, <1>0, <1>3, <1>5 DEF OpenKids
  <2>2. CASE k = d
    <3>1. s[d].parent = e => k \in OpenKids(s, e)
      <4> SUFFICES ASSUME s[d].parent = e PROVE s[d].pending # 0
        BY <2>2 DEF OpenKids
      <4>1. s[d].pending >= 1
        BY <1>a
      <4> QED BY <4>1, <1>0, <1>5
    <3>2. k \in OpenKids(s2, e) => s[d].parent = e
      BY <2>2, <1>3 DEF OpenKids
    <3>3. k \in OpenKids(s, e) => k \in OpenKids(s2, e)
      <4> SUFFICES ASSUME k \in OpenKids(s, e) PROVE s2[d].pending # 0 /\ s2[d].parent = e
        BY <2>2 DEF OpenKids
      <4>1. s[d].parent = e
        BY <2>2 DEF OpenKids
      <4>2. s[d].pending >= Cardinality(OpenKids(s, d)) + Cardinality(Ups(tt, d)) + One(tt, tasks, d)
        BY <1>0, <1>1 DEF Counted
      <4>3. Cardinality(OpenKids(s, d)) \in Nat /\ Cardinality(Ups(tt, d)) \in Nat /\ One(tt, tasks, d) \in Nat
        BY FiniteParts DEF One
      <4> QED BY <4>1, <4>2, <4>3, <1>0, <1>3, <1>5
    <3> QED BY <2>2, <3>1, <3>2, <3>3, <1>0
  <2>3. CASE k # n /\ k # d
    BY <2>3, <1>3 DEF OpenKids
  <2> QED BY <2>1, <2>2, <2>3
<1>9. Cardinality(OpenKids(s2, d)) = Cardinality(OpenKids(s, d)) + 1
  <2>1. n \notin OpenKids(s, d) /\ IsFiniteSet(OpenKids(s, d))
    BY ZenonT(30), <1>0, <1>5, FiniteParts DEF OpenKids
  <2>2. Cardinality(OpenKids(s, d) \cup {n}) = Cardinality(OpenKids(s, d)) + 1
    BY <2>1, FS_AddElement
  <2> QED BY <2>2, <1>0, <1>8
<1>10. OpenKids(s, n) = {} /\ Ups(tt, n) = {}
  <2>1. OpenKids(s, n) = {}
    BY <1>0 DEF Unread, OpenKids
  <2>2. Ups(tt, n) = {}
    BY <1>0, <1>1 DEF Ups, Grounded
  <2> QED BY <2>1, <2>2
<1>11. ASSUME NEW e \in Dirs
       PROVE s2[e].pending >= Cardinality(OpenKids(s2, e)) + Cardinality(Ups(tt2, e)) + One(tt2, tasks, e)
  <2>1. /\ s[e].pending >= Cardinality(OpenKids(s, e)) + Cardinality(Ups(tt, e)) + One(tt, tasks, e)
        /\ Cardinality(OpenKids(s, e)) \in Nat /\ Cardinality(Ups(tt, e)) \in Nat /\ One(tt, tasks, e) \in Nat
    BY <1>1, FiniteParts DEF Counted, One
  <2>2. Ups(tt2, e) = Ups(tt, e)
    BY <1>7
  <2>3. CASE e = n
    <3>1. OpenKids(s2, e) = {} /\ Ups(tt2, e) = {} /\ One(tt2, tasks, e) = 1
      BY <2>3, <1>0, <1>6, <1>7, <1>8, <1>10 DEF One
    <3>2. Cardinality({}) = 0
      BY FS_EmptySet
    <3> QED BY <2>3, <3>1, <3>2, <1>3
  <2>4. CASE e # n
    <3>1. One(tt2, tasks, e) = One(tt, tasks, e)
      BY <2>4, <1>6 DEF One
    <3>2. CASE e = d
      <4>1. Cardinality(OpenKids(s2, e)) = Cardinality(OpenKids(s, e)) + 1 /\ s2[e].pending = s[e].pending + 1
        BY <3>2, <1>3, <1>9
      <4> QED BY <4>1, <2>1, <2>2, <3>1, <1>5
    <3>3. CASE e # d
      <4>1. OpenKids(s2, e) = OpenKids(s, e) /\ s2[e].pending = s[e].pending
        BY <3>3, <2>4, <1>3, <1>8
      <4> QED BY <4>1, <2>1, <2>2, <3>1
    <3> QED BY <3>2, <3>3
  <2> QED BY <2>3, <2>4
<1>12. Blamed(tt2, s2)
  <2> SUFFICES ASSUME NEW e \in Dirs \ {Root}, Spoiled(s2, e), ~ s2[Parent[e]].incomplete
               PROVE  \E y \in Threads : Carries(tt2[y], e)
    BY DEF Blamed
  <2>1. e # n
    BY <1>3 DEF Spoiled
  <2>2. e # d
    <3>1. s2[d].pending >= 1
      <4>1. /\ s[d].pending >= Cardinality(OpenKids(s, d)) + Cardinality(Ups(tt, d)) + One(tt, tasks, d)
            /\ Cardinality(OpenKids(s, d)) \in Nat /\ Cardinality(Ups(tt, d)) \in Nat /\ One(tt, tasks, d) \in Nat
        BY <1>0, <1>1, FiniteParts DEF Counted, One
      <4> QED BY <4>1, <1>0, <1>3, <1>5
    <3> QED BY <3>1 DEF Spoiled
  <2>3. Spoiled(s, e)
    BY <2>1, <2>2, <1>3 DEF Spoiled
  <2>4. Parent[e] # n
    BY <2>3, <1>0, <1>1 DEF Spoiled, Rooted
  <2>5. ~ s[Parent[e]].incomplete
    <3>1. Parent[e] \in Dirs
      BY ScanAssumption
    <3> QED BY <3>1, <2>4, <1>3
  <2>6. PICK y \in Threads : Carries(tt[y], e)
    BY <2>3, <2>5, <1>1 DEF Blamed
  <2>7. y # x
    BY <2>6, <1>4
  <2> QED BY <2>6, <2>7, <1>2
<1>13. Counted(tt2, tasks, s2)
  BY <1>11 DEF Counted
<1> QED BY <1>a, <1>12, <1>13

LEMMA EnrolledStep ==
  ASSUME IInv, NEW x \in Threads, NEW n, NEW d, NEW rec \in ThreadStates, t' = [t EXCEPT ![x] = rec],
         q' = q, slot' \in Slots, Reader(t[x], rec, n, d), Newcomer(slot, n, d), Enrolled(slot, slot', n, d)
  PROVE  IInv' /\ slot[d].pending >= 1
<1>1. t \in [Threads -> ThreadStates] /\ q.tasks \in SUBSET Task /\ slot \in Slots /\ Sound(t, q.tasks, slot) /\ ScanTypes
  BY QueueFields DEF IInv, ScanTypes
<1>2. Moved(t, t', x, rec) /\ t' \in [Threads -> ThreadStates]
  BY <1>1, PutAlone DEF Alone, Moved
<1>3. /\ \A y \in Threads : Orderly(t'[y]) /\ Fresh(t'[y], slot') /\ Grounded(t'[y], slot')
      /\ QueueFresh(q.tasks, slot') /\ Apart(t', q.tasks) /\ Together(t')
  BY <1>1, <1>2, EnrolledThreads
<1>4. Counted(t', q.tasks, slot') /\ Blamed(t', slot') /\ slot[d].pending >= 1
  BY <1>1, <1>2, EnrolledCounted
<1>5. Rooted(slot')
  BY <1>1, EnrolledFrame DEF Sound
<1>6. Sound(t', q'.tasks, slot')
  BY <1>3, <1>4, <1>5 DEF Sound
<1> QED BY <1>1, <1>2, <1>4, <1>6 DEF IInv, ScanTypes

\* What one step may do to the directories' counts.
Untouched == slot' = slot
Registers == \E n, d : slot' \in Slots /\ Newcomer(slot, n, d) /\ Enrolled(slot, slot', n, d) /\ slot[d].pending >= 1

LEMMA ScanEntryFacts ==
  ASSUME IInv, NEW x \in Threads, ScanEntry(x) PROVE IInv' /\ (Untouched \/ Registers)
<1> DEFINE r == t[x]
           d == r.task.dir
<1>t. /\ ScanTypes /\ r \in ThreadStates /\ r.out \in Outboxes /\ d \in Dirs /\ r.todo \subseteq Nodes
      /\ slot \in Slots /\ r.ok \in BOOLEAN /\ r.task \in Task
  BY ThreadFields DEF IInv, ThreadStates, ScanTypes
<1>o. /\ r.out.held \in Seq(Task) /\ r.out.batch \in Seq(Entry) /\ r.out.notices \in Seq(Notice)
      /\ r.out.releases \in Seq(Release) /\ r.kept \in Seq(Task)
  BY <1>t DEF Outboxes, ThreadStates
<1>p. "flush" \in Pcs /\ "scan" \in Pcs /\ "scan" \in Rets
  BY Names
<1>0. Orderly(r) /\ Fresh(r, slot) /\ Grounded(r, slot) /\ Rooted(slot)
  BY DEF IInv, Sound
<1> DEFINE child(class) == class = "child"
           batch(n, class) == Append(r.out.batch, [node |-> n, state |-> IF child(class) THEN "complete" ELSE class])
           notes(class) == IF class = "incomplete" THEN Append(r.out.notices, [kind |-> "failed", dir |-> d])
                           ELSE r.out.notices
           held(n, class) == IF child(class) THEN Append(r.out.held, [dir |-> n, opened |-> HasPermit]) ELSE r.out.held
           out(n, class) == [r.out EXCEPT !.batch = batch(n, class), !.notices = notes(class), !.held = held(n, class)]
           pc(n, class) == IF Len(out(n, class).batch) >= PublishEntries \/ OpenIn(out(n, class).held) >= HeldOpen
                           THEN "flush" ELSE "scan"
           ok(class) == r.ok /\ class \in {"complete", "child"}
           rec(n, class) == [r EXCEPT !.todo = @ \ {n}, !.out = out(n, class), !.ok = ok(class), !.ret = "scan",
                                      !.pc = pc(n, class)]
<1>n. PICK n \in r.todo : \E class \in Classes(n) :
         /\ slot' = IF child(class) THEN [slot EXCEPT ![n] = [pending |-> 1, incomplete |-> FALSE, parent |-> d],
                                                      ![d].pending = @ + 1]
                    ELSE slot
         /\ t' = [t EXCEPT ![x].todo = @ \ {n}, ![x].out = out(n, class), ![x].ok = ok(class),
                           ![x].ret = "scan", ![x].pc = pc(n, class)]
  BY DEF ScanEntry
<1>1. PICK class \in Classes(n) :
         /\ slot' = IF child(class) THEN [slot EXCEPT ![n] = [pending |-> 1, incomplete |-> FALSE, parent |-> d],
                                                      ![d].pending = @ + 1]
                    ELSE slot
         /\ t' = [t EXCEPT ![x].todo = @ \ {n}, ![x].out = out(n, class), ![x].ok = ok(class),
                           ![x].ret = "scan", ![x].pc = pc(n, class)]
  BY <1>n
<1>2. r.pc = "scan" /\ q' = q
  BY DEF ScanEntry, At
<1>3. n \in Nodes /\ class \in {"child", "complete", "incomplete", "excluded"} /\ (child(class) => n \in Dirs)
  BY <1>1, <1>t DEF Classes
<1>4. batch(n, class) \in Seq(Entry)
  <2> DEFINE e == [node |-> n, state |-> IF child(class) THEN "complete" ELSE class]
  <2>1. e \in Entry
    BY <1>3 DEF Entry
  <2> HIDE DEF e
  <2>2. Append(r.out.batch, e) \in Seq(Entry)
    BY <1>o, <2>1, AppendDirs
  <2> QED BY <2>2 DEF e
<1>5. notes(class) \in Seq(Notice)
  BY <1>t, <1>o, NotesTyped
<1>6. /\ held(n, class) \in Seq(Task)
      /\ child(class) => DirsOf(held(n, class)) = HeldOf(r) \cup {n} /\ (n \notin HeldOf(r) => Once(held(n, class)))
      /\ ~ child(class) => held(n, class) = r.out.held
  <2>1. CASE child(class)
    <3> DEFINE k == [dir |-> n, opened |-> HasPermit]
    <3>1. k \in Task /\ k.dir = n
      BY <2>1, <1>3 DEF Task, HasPermit
    <3> HIDE DEF k
    <3>2. Once(r.out.held)
      BY <1>0 DEF Orderly
    <3>3. /\ Append(r.out.held, k) \in Seq(Task) /\ DirsOf(Append(r.out.held, k)) = DirsOf(r.out.held) \cup {k.dir}
          /\ (Once(r.out.held) /\ k.dir \notin DirsOf(r.out.held) => Once(Append(r.out.held, k)))
      <4> HIDE DEF r
      <4>1. r.out.held \in Seq(Task)
        BY <1>o
      <4> QED BY <4>1, <3>1, AppendDirs
    <3>4. held(n, class) = Append(r.out.held, k)
      BY <2>1 DEF k
    <3> HIDE DEF held, child
    <3> QED BY <2>1, <3>1, <3>2, <3>3, <3>4 DEF HeldOf
  <2>2. CASE ~ child(class)
    BY <2>2, <1>o
  <2> QED BY <2>1, <2>2
<1>7. pc(n, class) \in {"flush", "scan"} /\ ok(class) \in BOOLEAN /\ r.todo \ {n} \in SUBSET Nodes
  BY <1>t
<1> DEFINE C == child(class)
           B == batch(n, class)
           N == notes(class)
           H == held(n, class)
           P == pc(n, class)
           K == ok(class)
           O == out(n, class)
           R == rec(n, class)
           D == r.todo \ {n}
<1>8. t' = [t EXCEPT ![x] = R]
  <2> HIDE DEF out, ok, pc
  <2>1. t' = [t EXCEPT ![x] = rec(n, class)]
    BY <1>1
  <2> HIDE DEF rec
  <2> QED BY <2>1
<1>9. O = [r.out EXCEPT !.batch = B, !.notices = N, !.held = H]
  OBVIOUS
<1>10. R = [r EXCEPT !.todo = D, !.out = O, !.ok = K, !.ret = "scan", !.pc = P]
  OBVIOUS
<1>11. /\ B \in Seq(Entry) /\ N \in Seq(Notice) /\ H \in Seq(Task) /\ P \in {"flush", "scan"} /\ P \in Pcs /\ K \in BOOLEAN
       /\ D \in SUBSET Nodes
  BY <1>p, <1>4, <1>5, <1>6, <1>7
<1>12. /\ slot' = IF C THEN [slot EXCEPT ![n] = [pending |-> 1, incomplete |-> FALSE, parent |-> d], ![d].pending = @ + 1]
                  ELSE slot
       /\ C => n \in Dirs /\ DirsOf(H) = HeldOf(r) \cup {n} /\ (n \notin HeldOf(r) => Once(H))
       /\ ~ C => H = r.out.held
  BY <1>1, <1>3, <1>6
<1> HIDE DEF child, batch, notes, held, pc, ok, out, rec, C, B, N, H, P, K, O, R
<1>13. O \in Outboxes /\ O.held = H /\ O.releases = r.out.releases
  BY <1>t, <1>9, <1>11 DEF Outboxes
<1> HIDE DEF D
<1>14. /\ R \in ThreadStates /\ R.pc = P /\ R.ret = "scan" /\ R.out = O /\ R.kept = r.kept /\ R.task = r.task /\ R.todo = D
  BY <1>t, <1>p, <1>10, <1>11, <1>13 DEF ThreadStates
<1>15. KeptOf(R) = KeptOf(r) /\ DueOf(R) = DueOf(r) /\ HeldOf(R) = DirsOf(H)
  BY <1>13, <1>14 DEF KeptOf, DueOf, HeldOf
<1>16. Reading(r) /\ Reading(R) /\ ~ Opening(r) /\ ~ Opening(R) /\ ~ Rising(r) /\ ~ Rising(R) /\ TaskOf(R) = TaskOf(r)
       /\ R.pc \in {"scan", "flush"}
  BY <1>2, <1>11, <1>14 DEF Reading, Leaving, Opening, Rising, FlushPcs, TaskOf
<1>17. CASE ~ C
  <2>1. slot' = slot /\ HeldOf(R) = HeldOf(r)
    BY <1>12, <1>15, <1>17 DEF HeldOf
  <2>2. Once(R.out.held) /\ Once(R.out.releases) /\ Once(R.kept)
    BY <1>0, <1>12, <1>13, <1>14, <1>17 DEF Orderly
  <2>3. Orderly(R)
    BY <1>0, <1>15, <1>16, <2>1, <2>2 DEF Orderly
  <2>4. Fresh(R, slot)
    BY <1>0, <1>14, <1>15, <1>16, <2>1 DEF Fresh, D
  <2>5. Mine(R) \subseteq Mine(r)
    BY <1>15, <1>16, <2>1 DEF Mine
  <2>6. Unrisen(r, R, slot)
    BY <1>2, <1>16 DEF Unrisen, UpTo, Carries
  <2>7. r.pc # "start" /\ R.pc # "start"
    BY <1>2, <1>16
  <2>8. Alone(t, t', x) /\ t'[x] = R
    BY <1>t, <1>8, <1>14, PutAlone
  <2> HIDE DEF r
  <2>9. IInv'
    BY <1>2, <2>1, <2>3, <2>4, <2>5, <2>6, <2>7, <2>8, SelfMove DEF r
  <2> QED BY <2>1, <2>9 DEF Untouched
<1>18. CASE C
  <2>1. Newcomer(slot, n, d)
    BY <1>t, <1>0, <1>1, <1>2, <1>12, <1>18, NewcomerFacts
  <2>2. n \in Dirs /\ n # d
    BY <2>1 DEF Newcomer
  <2>3. slot' \in Slots /\ Enrolled(slot, slot', n, d)
    <3>1. slot' = [slot EXCEPT ![n] = [pending |-> 1, incomplete |-> FALSE, parent |-> d], ![d].pending = @ + 1]
      BY <1>12, <1>18
    <3>2. slot[d].pending + 1 \in Int
      BY <1>t DEF Slots
    <3>3. [pending |-> 1, incomplete |-> FALSE, parent |-> d] \in [pending : Int, incomplete : BOOLEAN, parent : Dirs \cup {None}]
      BY <1>t
    <3> HIDE DEF d
    <3> QED BY <1>t, <2>2, <3>1, <3>2, <3>3 DEF Slots, Enrolled
  <2>4. Reader(r, R, n, d)
    <3>1. Once(R.kept) /\ Once(R.out.releases)
      BY <1>0, <1>13, <1>14 DEF Orderly
    <3>2. n \notin HeldOf(r) => Once(R.out.held)
      BY <1>12, <1>13, <1>14, <1>18
    <3>3. HeldOf(R) = HeldOf(r) \cup {n}
      BY <1>12, <1>15, <1>18
    <3> QED BY <1>1, <1>2, <1>14, <1>15, <1>16, <3>1, <3>2, <3>3 DEF Reader, D
  <2> HIDE DEF r, d
  <2>5. IInv' /\ slot[d].pending >= 1
    BY <1>2, <1>8, <1>14, <2>1, <2>3, <2>4, EnrolledStep DEF r
  <2> QED BY <2>1, <2>3, <2>5 DEF Registers
<1> QED BY <1>17, <1>18
-----------------------------------------------------------------------------
\* The scan's start, the receiver, and what touches no thread.
LEMMA SlotParts ==
  ASSUME NEW tt, NEW tasks, NEW tt2, NEW more, NEW s \in Slots, Sound(tt, tasks, s),
         Owned(tt2, more) \subseteq Owned(tt, tasks), \A d \in Dirs : Ups(tt2, d) = Ups(tt, d)
  PROVE  Counted(tt2, more, s)
<1> SUFFICES ASSUME NEW d \in Dirs
             PROVE s[d].pending >= Cardinality(OpenKids(s, d)) + Cardinality(Ups(tt2, d)) + One(tt2, more, d)
  BY DEF Counted
<1>1. s[d].pending >= Cardinality(OpenKids(s, d)) + Cardinality(Ups(tt, d)) + One(tt, tasks, d)
  BY DEF Sound, Counted
<1>2. One(tt2, more, d) = One(tt, tasks, d) \/ (One(tt2, more, d) = 0 /\ One(tt, tasks, d) = 1)
  BY DEF One
<1>3. Cardinality(OpenKids(s, d)) \in Nat /\ Cardinality(Ups(tt, d)) \in Nat /\ s[d].pending \in Int
  BY FiniteParts DEF Slots
<1>4. Ups(tt2, d) = Ups(tt, d)
  OBVIOUS
<1> QED BY <1>1, <1>2, <1>3, <1>4

LEMMA StillKeeps ==
  ASSUME IInv, t' = t, slot' = slot, q' \in Queues, q'.tasks = q.tasks \/ q'.tasks = {}
  PROVE  IInv'
<1>1. ScanTypes'
  BY DEF IInv, ScanTypes
<1>2. CASE q'.tasks = q.tasks
  BY <1>1, <1>2 DEF IInv
<1>3. CASE q'.tasks = {}
  <2>1. Sound(t, q.tasks, slot) /\ slot \in Slots
    BY DEF IInv, ScanTypes
  <2>2. Queued({}) = {}
    BY DEF Queued
  <2>3. QueueFresh({}, slot) /\ Apart(t, {})
    BY <2>1, <2>2 DEF QueueFresh, Apart, Sound
  <2>4. Owned(t, {}) \subseteq Owned(t, q.tasks)
    BY <2>2 DEF Owned
  <2>5. Counted(t, {}, slot)
    BY <2>1, <2>4, SlotParts
  <2>6. Sound(t, {}, slot)
    BY <2>1, <2>3, <2>5 DEF Sound
  <2> QED BY <1>1, <1>3, <2>6 DEF IInv
<1> QED BY <1>2, <1>3

LEMMA NewQueueTyped == NewQueue \in Queues /\ NewQueue.tasks = {}
BY DEF NewQueue, Queues

LEMMA NoteSampleKeeps ==
  ASSUME IInv, NEW x \in Threads, NoteSample(x) PROVE IInv'
<1>1. q' = [q EXCEPT !.open = TRUE, !.asleep = {y \in @ : ~ At(y, "gated")}] /\ t' = t /\ slot' = slot
  BY DEF NoteSample
<1>2. q' \in Queues /\ q'.tasks = q.tasks
  <2> DEFINE rest == {y \in q.asleep : ~ At(y, "gated")}
  <2>1. rest \in SUBSET Threads
    BY QueueFields DEF IInv
  <2>2. q' = [q EXCEPT !.open = TRUE, !.asleep = rest]
    BY <1>1
  <2> HIDE DEF rest
  <2> QED BY <2>1, <2>2, QueueFields DEF Queues, IInv
<1> QED BY <1>1, <1>2, StillKeeps

LEMMA ReceiverKeeps ==
  ASSUME IInv, Receiver \/ UserCancel PROVE IInv' /\ Untouched
<1>0. q \in Queues
  BY QueueFields DEF IInv
<1>1. t' = t /\ slot' = slot /\ (q' = q \/ q' = NewQueue)
  BY DEF Receiver, Receive, Timeout, Accept, UserCancel
<1> QED BY <1>0, <1>1, StillKeeps, NewQueueTyped DEF Untouched

LEMMA StartKeeps ==
  ASSUME IInv, Start PROVE IInv'
<1>t. ScanTypes /\ t \in [Threads -> ThreadStates] /\ slot \in Slots /\ Main \in Threads
  BY DEF IInv, ScanTypes, Threads
<1>1. PICK first \in [Threads -> {"open", "pop", "bye", "exit"}] :
         /\ t' = [x \in Threads |-> [t[x] EXCEPT !.pc = first[x]]]
         /\ \A x \in Threads : first[x] = "open" => x = Main
  <2>1. CASE t' = [x \in Threads |-> [t[x] EXCEPT !.pc = IF x = Main THEN "open" ELSE "pop"]]
    <3> WITNESS [x \in Threads |-> IF x = Main THEN "open" ELSE "pop"] \in [Threads -> {"open", "pop", "bye", "exit"}]
    <3> QED BY <2>1
  <2>2. CASE t' = [x \in Threads |-> [t[x] EXCEPT !.pc = IF x = Main THEN "bye" ELSE "exit"]]
    <3> WITNESS [x \in Threads |-> IF x = Main THEN "bye" ELSE "exit"] \in [Threads -> {"open", "pop", "bye", "exit"}]
    <3> QED BY <2>2
  <2> QED BY <2>1, <2>2 DEF Start
<1>2. Sound(t, q.tasks, slot) /\ q' = q /\ slot' = slot /\ t[Main].pc = "start"
  BY DEF IInv, Start, At
<1>3. t[Main].busy /\ \A x \in Threads : t[x].pc = "start"
  BY <1>2 DEF Sound, Together
<1>4. ASSUME NEW x \in Threads
      PROVE  /\ t'[x] \in ThreadStates /\ Orderly(t'[x]) /\ Fresh(t'[x], slot) /\ Grounded(t'[x], slot)
             /\ Mine(t'[x]) \subseteq Mine(t[x]) /\ UpTo(t'[x]) = {} /\ UpTo(t[x]) = {} /\ t'[x].pc # "start"
             /\ \A e : ~ Carries(t[x], e)
  <2> DEFINE r == t[x]
             new == t'[x]
  <2>1. Orderly(r) /\ Fresh(r, slot) /\ Grounded(r, slot) /\ r \in ThreadStates
    BY <1>t, <1>2 DEF Sound
  <2>2. new = [r EXCEPT !.pc = first[x]] /\ first[x] \in {"open", "pop", "bye", "exit"} /\ first[x] \in Pcs
    BY <1>1, Names
  <2>3. /\ new \in ThreadStates /\ new.pc = first[x] /\ new.then = r.then /\ new.ret = r.ret /\ new.task = r.task
        /\ new.out = r.out /\ new.kept = r.kept /\ new.up = r.up /\ new.todo = r.todo /\ new.busy = r.busy
    BY <2>1, <2>2 DEF ThreadStates
  <2> HIDE DEF new
  <2>4. r.pc = "start" /\ ~ Reading(r) /\ ~ Reading(new) /\ ~ Rising(r) /\ ~ Rising(new)
    BY <1>3, <2>2, <2>3 DEF Reading, Leaving, Rising, FlushPcs
  <2>5. Opening(new) => Opening(r)
    BY <1>1, <1>3, <2>2, <2>3 DEF Opening
  <2>6. /\ HeldOf(new) = HeldOf(r) /\ KeptOf(new) = KeptOf(r) /\ DueOf(new) = DueOf(r) /\ TaskOf(new) \subseteq TaskOf(r)
    BY <2>3, <2>4, <2>5 DEF HeldOf, KeptOf, DueOf, TaskOf
  <2>7. Orderly(new)
    BY <2>1, <2>2, <2>3, <2>6 DEF Orderly
  <2>8. Fresh(new, slot)
    BY <2>1, <2>3, <2>4, <2>5, <2>6 DEF Fresh
  <2>9. Mine(new) \subseteq Mine(r)
    BY <2>6 DEF Mine
  <2>10. UpTo(new) = {} /\ UpTo(r) = {} /\ new.pc # "start" /\ new.pc # "push" /\ \A e : ~ Carries(r, e)
    BY <2>2, <2>3, <2>4 DEF UpTo, Carries
  <2>11. Grounded(new, slot)
    BY <2>1, <2>9, <2>10 DEF Grounded
  <2> QED BY <2>3, <2>7, <2>8, <2>9, <2>10, <2>11 DEF new
<1>5. Owned(t', q.tasks) \subseteq Owned(t, q.tasks)
  BY <1>4 DEF Owned
<1>6. \A d \in Dirs : Ups(t', d) = Ups(t, d)
  BY <1>4 DEF Ups
<1>7. Counted(t', q.tasks, slot)
  BY <1>t, <1>2, <1>5, <1>6, SlotParts
<1>8. Apart(t', q.tasks)
  <2>1. ASSUME NEW y \in Threads, NEW z \in Threads, y # z PROVE Mine(t'[y]) \cap Mine(t'[z]) = {}
    <3>1. Mine(t[y]) \cap Mine(t[z]) = {}
      BY <1>2, <2>1 DEF Sound, Apart
    <3> QED BY <3>1, <1>4
  <2>2. ASSUME NEW y \in Threads PROVE Mine(t'[y]) \cap Queued(q.tasks) = {}
    <3>1. Mine(t[y]) \cap Queued(q.tasks) = {}
      BY <1>2 DEF Sound, Apart
    <3> QED BY <3>1, <1>4
  <2> QED BY <2>1, <2>2 DEF Apart
<1>9. Blamed(t', slot)
  BY <1>2, <1>4 DEF Sound, Blamed
<1>10. Together(t')
  BY <1>t, <1>4 DEF Together
<1>11. QueueFresh(q.tasks, slot) /\ Rooted(slot)
  BY <1>2 DEF Sound
<1>12. \A y \in Threads : Orderly(t'[y]) /\ Fresh(t'[y], slot) /\ Grounded(t'[y], slot)
  BY <1>4
<1>13. Sound(t', q'.tasks, slot')
  BY <1>2, <1>7, <1>8, <1>9, <1>10, <1>11, <1>12 DEF Sound
<1>14. t' \in [Threads -> ThreadStates]
  BY <1>1, <1>4
<1> QED BY <1>t, <1>2, <1>13, <1>14 DEF IInv, ScanTypes

LEMMA InitSound == ScanInit => IInv
<1> SUFFICES ASSUME ScanInit PROVE IInv
  OBVIOUS
<1> DEFINE begin(x) == [Between("start") EXCEPT !.busy = x = Main]
<1>1. /\ t = [x \in Threads |-> begin(x)] /\ q = NewQueue
      /\ slot = [d \in Dirs |-> [pending |-> IF d = Root THEN 1 ELSE 0, incomplete |-> FALSE, parent |-> None]]
  BY DEF ScanInit
<1>2. /\ Between("start") \in ThreadStates
      /\ Between("start").out = EmptyOutbox /\ Between("start").kept = <<>> /\ Between("start").pc = "start"
      /\ Between("start").ret = "hold" /\ Between("start").task.dir = Root
  BY Emptied, Names DEF Between
<1>3. ASSUME NEW x \in Threads
      PROVE  /\ t[x] \in ThreadStates /\ t[x].out = EmptyOutbox /\ t[x].kept = <<>> /\ t[x].pc = "start"
             /\ t[x].busy = (x = Main) /\ t[x].task.dir = Root
  <2>1. t[x] = begin(x)
    BY <1>1
  <2> DEFINE b == x = Main
  <2>2. t[x] = [Between("start") EXCEPT !.busy = b] /\ b \in BOOLEAN
    BY <2>1
  <2> HIDE DEF b
  <2>3. /\ t[x] \in ThreadStates /\ t[x].out = EmptyOutbox /\ t[x].kept = <<>> /\ t[x].pc = "start"
        /\ t[x].busy = b /\ t[x].task.dir = Root
    BY <1>2, <2>2 DEF ThreadStates
  <2> QED BY <2>3 DEF b
<1>4. t \in [Threads -> ThreadStates]
  BY <1>1, <1>3
<1>5. slot \in Slots /\ \A d \in Dirs : /\ slot[d].pending = IF d = Root THEN 1 ELSE 0
                                        /\ slot[d].incomplete = FALSE /\ slot[d].parent = None
  BY <1>1 DEF Slots
<1>6. None \notin Dirs /\ Root \in Dirs /\ Main \in Threads
  BY ScanAssumption DEF Threads
<1>7. \A d \in Dirs : Unread(slot, d)
  BY <1>5, <1>6 DEF Unread
<1>8. ASSUME NEW x \in Threads
      PROVE /\ HeldOf(t[x]) = {} /\ KeptOf(t[x]) = {} /\ DueOf(t[x]) = {} /\ UpTo(t[x]) = {}
            /\ TaskOf(t[x]) = IF x = Main THEN {Root} ELSE {}
            /\ ~ Reading(t[x]) /\ t[x].pc = "start" /\ t[x].task.dir = Root
            /\ Once(t[x].out.held) /\ Once(t[x].out.releases) /\ Once(t[x].kept)
  <2>1. t[x].out.held = <<>> /\ t[x].out.releases = <<>>
    BY <1>3 DEF EmptyOutbox
  <2>2. ~ Reading(t[x]) /\ ~ Rising(t[x]) /\ t[x].pc = "start" /\ (Opening(t[x]) <=> x = Main)
    BY <1>3 DEF Reading, Leaving, Rising, Opening, FlushPcs
  <2> QED BY <1>3, <2>1, <2>2, EmptyDirs DEF HeldOf, KeptOf, DueOf, UpTo, TaskOf
<1>9. \A x \in Threads : Mine(t[x]) = IF x = Main THEN {Root} ELSE {}
  BY <1>8 DEF Mine
<1>10. \A x \in Threads : Orderly(t[x]) /\ Fresh(t[x], slot) /\ Grounded(t[x], slot)
  <2> SUFFICES ASSUME NEW x \in Threads PROVE Orderly(t[x]) /\ Fresh(t[x], slot) /\ Grounded(t[x], slot)
    OBVIOUS
  <2>1. Orderly(t[x])
    BY <1>8 DEF Orderly
  <2>2. Fresh(t[x], slot)
    BY <1>6, <1>7, <1>8 DEF Fresh
  <2>3. Grounded(t[x], slot)
    BY <1>8, <1>9 DEF Grounded, Known
  <2> QED BY <2>1, <2>2, <2>3
<1>11. q \in Queues /\ q.tasks = {} /\ Queued(q.tasks) = {}
  BY <1>1, NewQueueTyped DEF Queued
<1>12. QueueFresh(q.tasks, slot) /\ Apart(t, q.tasks)
  BY <1>9, <1>11 DEF QueueFresh, Apart
<1>13. Rooted(slot) /\ Blamed(t, slot)
  BY <1>5 DEF Rooted, Blamed, Spoiled
<1>14. Together(t)
  BY <1>3, <1>6 DEF Together
<1>15. Counted(t, q.tasks, slot)
  <2> SUFFICES ASSUME NEW d \in Dirs
               PROVE slot[d].pending >= Cardinality(OpenKids(slot, d)) + Cardinality(Ups(t, d)) + One(t, q.tasks, d)
    BY DEF Counted
  <2>1. OpenKids(slot, d) = {} /\ Ups(t, d) = {}
    BY <1>5, <1>6, <1>8 DEF OpenKids, Ups
  <2>2. One(t, q.tasks, d) = IF d = Root THEN 1 ELSE 0
    BY <1>6, <1>9, <1>11 DEF One, Owned
  <2>3. Cardinality({}) = 0
    BY FS_EmptySet
  <2> QED BY <1>5, <2>1, <2>2, <2>3
<1>16. Sound(t, q.tasks, slot)
  BY <1>10, <1>12, <1>13, <1>14, <1>15 DEF Sound
<1> QED BY <1>4, <1>5, <1>11, <1>16 DEF IInv, ScanTypes

\* What a step may do to the counts: nothing, register a child, release a directory.
Releases ==
    \E up \in Release :
        /\ slot' = Lessened(slot, up) /\ slot[up.dir].pending >= 1 /\ Known(slot, up.dir)
        /\ slot[up.dir].pending = 1 => OpenKids(slot, up.dir) = {} /\ Warned(slot, up)
Effect == Untouched \/ Registers \/ Releases

LEMMA StepFacts ==
  ASSUME IInv, NEW x \in Threads, Step(x) PROVE IInv' /\ Effect
<1>1. CASE NextTask(x)
  BY <1>1, NextTaskKeeps DEF Effect, Untouched, NextTask
<1>2. CASE Gate(x)
  BY <1>2, GateKeeps DEF Effect, Untouched, Gate
<1>3. CASE Park(x)
  BY <1>3, ParkKeeps DEF Effect, Untouched, Park
<1>4. CASE Parked(x)
  BY <1>4, ParkedKeeps DEF Effect, Untouched, Parked
<1>5. CASE Wake(x)
  BY <1>5, WakeKeeps DEF Effect, Untouched, Wake
<1>6. CASE Cancel(x)
  BY <1>6, CancelKeeps DEF Effect, Untouched, Cancel
<1>7. CASE Notify(x)
  BY <1>7, NotifyKeeps DEF Effect, Untouched, Notify
<1>8. CASE ReleaseHold(x)
  BY <1>8, ReleaseHoldKeeps DEF Effect, Untouched, ReleaseHold
<1>9. CASE Send(x)
  BY <1>9, SendKeeps DEF Effect, Untouched, Send
<1>10. CASE Offer(x)
  BY <1>10, OfferKeeps DEF Effect, Untouched, Offer
<1>11. CASE WakeOne(x)
  BY <1>11, WakeOneKeeps DEF Effect, Untouched, WakeOne
<1>12. CASE FlushDone(x)
  BY <1>12, FlushDoneKeeps DEF Effect, Untouched, FlushDone
<1>13. CASE FinishDirectory(x)
  BY <1>13, FinishDirectoryFacts DEF Effect, Releases
<1>14. CASE PushFinished(x)
  BY <1>14, PushFinishedKeeps DEF Effect, Untouched, PushFinished
<1>15. CASE SendFinished(x)
  BY <1>15, SendFinishedKeeps DEF Effect, Untouched, SendFinished
<1>16. CASE OpenTask(x)
  BY <1>16, OpenTaskKeeps DEF Effect, Untouched, OpenTask
<1>17. CASE Tell(x)
  BY <1>17, TellKeeps DEF Effect, Untouched, Tell
<1>18. CASE ScanEntry(x)
  BY <1>18, ScanEntryFacts DEF Effect
<1>19. CASE ScanCancelled(x)
  BY <1>19, ScanCancelledKeeps DEF Effect, Untouched, ScanCancelled
<1>20. CASE ScanDone(x)
  BY <1>20, ScanDoneKeeps DEF Effect, Untouched, ScanDone
<1>21. CASE NextHeld(x)
  BY <1>21, NextHeldKeeps DEF Effect, Untouched, NextHeld
<1> QED BY <1>1, <1>2, <1>3, <1>4, <1>5, <1>6, <1>7, <1>8, <1>9, <1>10, <1>11, <1>12, <1>13, <1>14, <1>15,
           <1>16, <1>17, <1>18, <1>19, <1>20, <1>21 DEF Step

\* The deletion touches nothing of the scan.
LEMMA ScanStill ==
  ASSUME IInv, UNCHANGED scanVars PROVE IInv' /\ Effect
<1>1. t' = t /\ slot' = slot /\ q' = q
  BY DEF scanVars
<1>2. q \in Queues
  BY QueueFields DEF IInv
<1> QED BY <1>1, <1>2, StillKeeps DEF Effect, Untouched

LEMMA DeletionStill ==
  ASSUME (\E x \in Dirs : Walk(x)) \/ Executor \/ Rmrf \/ Meddle PROVE UNCHANGED scanVars
<1>1. ASSUME NEW x \in Dirs, Walk(x) PROVE UNCHANGED scanVars
  BY <1>1 DEF Walk, StopWalk, TakeFile, FlushBatch, RemoveFile, RecordBatch, Enter, LoseParent, RemoveDirectory,
              RecordDirectory
<1>2. ASSUME Executor PROVE UNCHANGED scanVars
  BY <1>2 DEF Executor, Execute, Spawn, GroupDone, Sweep, SendFailure, SendEnd
<1>3. ASSUME Rmrf PROVE UNCHANGED scanVars
  BY <1>3 DEF Rmrf, Admit, Plan, Drain, DrainTimeout, Verdict, RemoveRoot, Return
<1>4. ASSUME Meddle PROVE UNCHANGED scanVars
  BY <1>4 DEF Meddle
<1> QED BY <1>1, <1>2, <1>3, <1>4

LEMMA NextFacts ==
  ASSUME IInv, [Next]_vars PROVE IInv' /\ Effect
<1>1. ASSUME NEW x \in Threads, Step(x) PROVE IInv' /\ Effect
  BY <1>1, StepFacts
<1>2. CASE Start
  BY <1>2, StartKeeps DEF Effect, Untouched, Start
<1>3. CASE Join
  BY <1>3, JoinKeeps DEF Effect, Untouched, Join
<1>4. CASE Bye
  BY <1>4, ByeKeeps DEF Effect, Untouched, Bye
<1>5. CASE Receiver \/ UserCancel
  BY <1>5, ReceiverKeeps DEF Effect
<1>6. ASSUME NEW x \in Threads, NoteSample(x) PROVE IInv' /\ Effect
  BY <1>6, NoteSampleKeeps DEF Effect, Untouched, NoteSample
<1>7. CASE UNCHANGED scanVars
  BY <1>7, ScanStill
<1>8. UNCHANGED vars => UNCHANGED scanVars
  BY DEF vars
<1> QED BY <1>1, <1>2, <1>3, <1>4, <1>5, <1>6, <1>7, <1>8, DeletionStill DEF Next, Work

\* However the scanning threads, the gate, cancellation and failing
\* directories interleave, a directory's token is in one place and its
\* pending count covers what is still open below it.
THEOREM ScanSound == Spec => []IInv
<1>1. Init => IInv
  BY InitSound DEF Init
<1>2. IInv /\ [Next]_vars => IInv'
  BY NextFacts
<1> QED BY <1>1, <1>2, PTL DEF Spec
-----------------------------------------------------------------------------
\* The refinement: what each effect is in the abstract order.
LEMMA VerdictOf ==
  /\ \A d : d \in TakenUp <=> d = Root \/ (d \in Dirs /\ slot[d].parent # None)
  /\ Verdicts = [d \in Dirs |-> Verdicts[d]]
  /\ \A d \in Dirs :
        /\ Verdicts[d] = "open" <=> slot[d].pending # 0 \/ d \notin TakenUp
        /\ Verdicts[d] # "open" => Verdicts[d] = IF slot[d].incomplete THEN "incomplete" ELSE "complete"
BY DEF TakenUp, Verdicts

LEMMA OrderInit == ScanInit => Order!Init
<1> SUFFICES ASSUME ScanInit PROVE Order!Init
  OBVIOUS
<1>1. slot = [d \in Dirs |-> [pending |-> IF d = Root THEN 1 ELSE 0, incomplete |-> FALSE, parent |-> None]]
  BY DEF ScanInit
<1>2. \A d \in Dirs : slot[d].parent = None /\ slot[d].pending = IF d = Root THEN 1 ELSE 0
  BY <1>1
<1>3. TakenUp = {Root}
  BY <1>2 DEF TakenUp
<1>4. Verdicts = [d \in Dirs |-> "open"]
  BY <1>2, <1>3 DEF Verdicts
<1> QED BY <1>3, <1>4 DEF Order!Init

LEMMA UntouchedOrder == ASSUME Untouched PROVE UNCHANGED <<TakenUp, Verdicts>>
BY DEF Untouched, TakenUp, Verdicts

LEMMA RegistersOrder == ASSUME IInv, Registers PROVE Order!Next
<1>1. PICK n, d : slot' \in Slots /\ Newcomer(slot, n, d) /\ Enrolled(slot, slot', n, d) /\ slot[d].pending >= 1
  BY DEF Registers
<1>2. /\ n \in Dirs /\ d \in Dirs /\ n # d /\ n # Root /\ Parent[n] = d /\ slot[n].parent = None /\ Known(slot, d)
  BY <1>1 DEF Newcomer
<1>3. /\ slot'[n].pending = 1 /\ slot'[n].parent = d
      /\ slot'[d].pending = slot[d].pending + 1 /\ slot'[d].parent = slot[d].parent
      /\ \A e \in Dirs \ {n, d} : slot'[e] = slot[e]
  BY <1>1 DEF Enrolled
<1>4. slot[d].pending \in Int /\ slot \in Slots /\ None \notin Dirs
  BY <1>2, ScanAssumption DEF IInv, ScanTypes, Slots
<1>5. TakenUp' = TakenUp \cup {n} /\ n \notin TakenUp /\ d \in TakenUp
  BY <1>2, <1>3, <1>4 DEF TakenUp, Known
<1>6. Verdicts[d] = "open"
  BY <1>1, <1>2, <1>4 DEF Verdicts
<1>7. Verdicts' = Verdicts
  <2> SUFFICES ASSUME NEW e \in Dirs
               PROVE (IF slot[e].pending # 0 \/ e \notin TakenUp THEN "open"
                      ELSE IF slot[e].incomplete THEN "incomplete" ELSE "complete")
                   = (IF slot'[e].pending # 0 \/ e \notin TakenUp' THEN "open"
                      ELSE IF slot'[e].incomplete THEN "incomplete" ELSE "complete")
    BY DEF Verdicts
  <2>1. CASE e = n
    BY <2>1, <1>3, <1>5
  <2>2. CASE e = d
    BY <2>2, <1>1, <1>3, <1>4
  <2>3. CASE e # n /\ e # d
    BY <2>3, <1>3, <1>5
  <2> QED BY <2>1, <2>2, <2>3
<1>8. Order!TakeUp(n)
  BY <1>2, <1>5, <1>6, <1>7 DEF Order!TakeUp, Above
<1> QED BY <1>2, <1>8 DEF Order!Next

LEMMA ReleasesOrder == ASSUME IInv, Releases PROVE Order!Next \/ UNCHANGED <<TakenUp, Verdicts>>
<1>1. PICK up \in Release :
        /\ slot' = Lessened(slot, up) /\ slot[up.dir].pending >= 1 /\ Known(slot, up.dir)
        /\ slot[up.dir].pending = 1 => OpenKids(slot, up.dir) = {} /\ Warned(slot, up)
  BY DEF Releases
<1> DEFINE d == up.dir
<1>2. slot \in Slots /\ Rooted(slot) /\ d \in Dirs /\ slot[d].pending \in Int
  BY DEF IInv, ScanTypes, Sound, Release, Slots
<1>3. /\ slot' \in Slots /\ slot'[d].pending = slot[d].pending - 1
      /\ slot'[d].incomplete = (slot[d].incomplete \/ ~ up.ok)
      /\ \A e \in Dirs : slot'[e].parent = slot[e].parent /\ (e # d => slot'[e] = slot[e])
  BY <1>1, <1>2, ReleaseFrame
<1>4. TakenUp' = TakenUp /\ d \in TakenUp
  BY <1>1, <1>2, <1>3 DEF TakenUp, Known
<1>5. \A e \in Dirs : e # d => Verdicts'[e] = Verdicts[e]
  BY <1>3, <1>4 DEF Verdicts
<1>6. Verdicts[d] = "open"
  BY <1>1, <1>2 DEF Verdicts
<1>7. CASE slot[d].pending # 1
  <2>1. slot'[d].pending # 0
    BY <1>1, <1>2, <1>3, <1>7
  <2>2. Verdicts'[d] = "open"
    BY <1>2, <2>1 DEF Verdicts
  <2>3. Verdicts' = Verdicts
    BY <1>5, <1>6, <2>2 DEF Verdicts
  <2> QED BY <1>4, <2>3
<1>8. CASE slot[d].pending = 1
  <2> DEFINE v == IF slot'[d].incomplete THEN "incomplete" ELSE "complete"
  <2>1. slot'[d].pending = 0
    BY <1>2, <1>3, <1>8
  <2>2. Verdicts'[d] = v
    BY <1>2, <1>4, <2>1 DEF Verdicts
  <2>3. Verdicts' = [Verdicts EXCEPT ![d] = v]
    <3>1. Verdicts' = [e \in Dirs |-> Verdicts'[e]] /\ Verdicts = [e \in Dirs |-> Verdicts[e]]
      BY DEF Verdicts
    <3> HIDE DEF v
    <3> QED BY <1>2, <1>5, <2>2, <3>1
  <2>4. \A e \in Order!Below(d) : e \in Dirs \ {Root} /\ Parent[e] = d /\ e \in TakenUp /\ slot[e].pending = 0
                                  /\ slot[e].parent # None
    <3> SUFFICES ASSUME NEW e \in TakenUp, e # d, Parent[e] = d
                 PROVE e \in Dirs \ {Root} /\ slot[e].pending = 0 /\ slot[e].parent # None
      BY DEF Order!Below, Above
    <3>1. e # Root
      BY ScanAssumption
    <3>2. e \in Dirs /\ slot[e].parent # None
      BY <3>1 DEF TakenUp
    <3>3. slot[e].parent = d
      BY <1>2, <3>2 DEF Rooted
    <3> QED BY <1>1, <1>8, <3>1, <3>2, <3>3 DEF OpenKids
  <2>5. \A e \in Order!Below(d) : Verdicts[e] # "open"
    BY <2>4 DEF Verdicts
  <2>6. (\E e \in Order!Below(d) : Verdicts[e] = "incomplete") => v = "incomplete"
    <3> SUFFICES ASSUME NEW e \in Order!Below(d), Verdicts[e] = "incomplete" PROVE slot'[d].incomplete
      OBVIOUS
    <3>1. Spoiled(slot, e)
      BY <2>4 DEF Verdicts, Spoiled
    <3>2. slot[d].incomplete \/ ~ up.ok
      BY <1>1, <1>8, <2>4, <3>1 DEF Warned
    <3> QED BY <1>3, <3>2
  <2>7. v \in {"complete", "incomplete"}
    OBVIOUS
  <2> HIDE DEF v
  <2>8. Order!Finish(d)
    BY <1>4, <1>6, <2>3, <2>5, <2>6, <2>7 DEF Order!Finish
  <2> QED BY <1>2, <2>8 DEF Order!Next
<1> QED BY <1>7, <1>8

\* finish_directory and its callers implement Postorder: each registered
\* directory is finished once, after all registered below it, and never as
\* complete when one of those is not.
THEOREM ScanInOrder == Spec => FinishedInOrder
<1>1. Init => Order!Init
  BY OrderInit DEF Init
<1>2. IInv /\ [Next]_vars => [Order!Next]_<<TakenUp, Verdicts>>
  BY NextFacts, UntouchedOrder, RegistersOrder, ReleasesOrder DEF Effect
<1> QED BY <1>1, <1>2, ScanSound, PTL DEF Spec, FinishedInOrder, Order!Spec

-----------------------------------------------------------------------------
(***************************************************************************)
(* ReportExact for any tree, number of threads, batch sizes and failures.  *)
(*                                                                         *)
(* The argument is about shares. A walk owns what is in the index below    *)
(* its directory, the group the files right below the root, and what an    *)
(* owner has ahead is neither recorded nor removed. So a step of a thread  *)
(* disturbs no other: it moves entries from what is ahead to its results   *)
(* (Shifted), and from there into the record (Reported). What is recorded  *)
(* is once among the unsent outcomes, in the channel or in rmrf's report,  *)
(* and the sweep adds what nobody recorded. In place is an entry only with *)
(* its parent, so an empty root is the end of the whole tree.              *)
(***************************************************************************)

(* The types of the deletion's state.                                      *)

Kinds == {"deleted", "unsynced", "failed", "cancelled", "changed", "absent"}
Outcome == [node : Nodes, kind : Kinds]
Places == {"here", "other", "gone", "held"}
Frame == [node : Dirs, todo : SUBSET Nodes]
Walker ==
    [pc : {"idle", "enter", "walk", "remove", "record", "done"}, stack : Seq(Frame),
     batch : SUBSET Nodes, results : SUBSET Outcome]
Event == [kind : {"outcomes"}, list : SUBSET Outcome] \cup [kind : {"failed", "end"}]
Executing ==
    [phase : {"idle", "run", "fail", "finish", "over"}, recorded : [Nodes -> Kinds \cup {None}],
     unsent : SUBSET Outcome, cancelled : BOOLEAN, recovery : BOOLEAN]
Caller ==
    [phase : {"admit", "scan", "delete", "verdict", "root", "return", "over"}, report : SUBSET Outcome,
     count : Nat, error : BOOLEAN, result : {None, "ok", "error", "interrupted"}]

DelTypes ==
    /\ fs \in [Nodes -> Places]
    /\ w \in [Dirs -> Walker]
    /\ ex \in Executing
    /\ events \in Seq(Event)
    /\ rm \in Caller
    /\ removed \subseteq Nodes

-----------------------------------------------------------------------------
(* What a thread has done and has to do.                                   *)

NodesOf(S) == {o.node : o \in S}
Unique(S) == \A o, p \in S : o.node = p.node => o = p

\* The entries below the directory d, itself included, and those in it.
Territory(I, d) == {n \in I : d \in Upward(n)}
Members(I, d) == {n \in I : Parent[n] = d}

\* The frames whose directory is still to be removed.
Depth(r) == IF r.pc = "record" THEN Len(r.stack) - 1 ELSE Len(r.stack)

\* What the thread may still remove or report by itself.
Ahead(x, r, I) ==
    CASE r.pc = "enter" -> Territory(I, x)
      [] r.pc \in {"walk", "remove", "record"} ->
            (r.batch \cup {r.stack[i].node : i \in 1 .. Depth(r)}
             \cup UNION {Territory(I, m) : m \in UNION {r.stack[i].todo : i \in 1 .. Depth(r)}}) \ {Root}
      [] OTHER -> {}

\* The frames lead down from x; what a frame has to do is in its directory and
\* not on the way to the next frame.
Descends(x, s, I) ==
    /\ s # <<>> /\ s[1].node = x /\ (x = Root => Len(s) = 1)
    /\ \A i \in DOMAIN s : s[i].todo \subseteq Members(I, s[i].node)
    /\ \A i \in 2 .. Len(s) :
          s[i].node \in I /\ Parent[s[i].node] = s[i - 1].node /\ s[i].node \notin s[i - 1].todo
    /\ \A i, j \in DOMAIN s : i <= j => s[i].node \in Upward(s[j].node)

\* A batch and its results are files of the top directory.
Batched(r, I) ==
    LET top == r.stack[Len(r.stack)]
        files == Members(I, top.node) \ (Dirs \cup top.todo)
    IN  /\ r.batch \subseteq files
        /\ NodesOf(r.results) \subseteq files \ r.batch
        /\ Unique(r.results)

Neat(x, r, I) ==
    /\ r.pc \in {"idle", "enter"} => r.stack = <<>> /\ r.batch = {}
    /\ r.pc = "enter" => x # Root
    /\ r.pc \in {"idle", "enter", "walk", "done"} => r.results = {}
    /\ r.pc \in {"walk", "remove", "record"} => Descends(x, r.stack, I)
    /\ r.pc \in {"walk", "remove"} => Batched(r, I)
    /\ r.pc = "record" =>
          /\ x # Root /\ r.batch = {} /\ r.stack[Len(r.stack)].todo = {}
          /\ \E k \in Kinds : r.results = {[node |-> r.stack[Len(r.stack)].node, kind |-> k]}

\* A walk has been handed over by the group.
Spawned(x, ww, I) ==
    ww[x].pc # "idle" =>
        /\ x \in I /\ Parent[x] = Root /\ ww[Root].pc # "idle"
        /\ ww[Root].pc \in {"walk", "remove"} => x \notin ww[Root].stack[1].todo

Walks(ww, I) ==
    /\ \A x \in Dirs : Neat(x, ww[x], I)
    /\ \A x \in Dirs \ {Root} : Spawned(x, ww, I)

\* What is ahead is neither reported nor removed.
StillAhead(ww, I, rec, gone) ==
    \A x \in Dirs : \A n \in Ahead(x, ww[x], I) : rec[n] = None /\ n \notin gone

Honest(o, gone) ==
    /\ o.kind \in {"deleted", "unsynced"} => o.node \in gone
    /\ o.kind \in {"cancelled", "changed", "absent"} => o.node \notin gone

Results(ww, rec, gone) ==
    /\ \A x \in Dirs : \A o \in ww[x].results : rec[o.node] = None /\ Honest(o, gone)
    /\ \A n \in gone \ {Root} : rec[n] # None \/ \E x \in Dirs : n \in NodesOf(ww[x].results)

\* The threads, with what is recorded and removed.
Working(ww, I, rec, gone) ==
    /\ ww \in [Dirs -> Walker]
    /\ Walks(ww, I)
    /\ StillAhead(ww, I, rec, gone)
    /\ Results(ww, rec, gone)

-----------------------------------------------------------------------------
(* The outcomes on their way.                                              *)

Told(ev) == {i \in DOMAIN ev : ev[i].kind = "outcomes"}
Lists(ev) == UNION {ev[i].list : i \in Told(ev)}
Outs(rep, ev, un) == rep \cup un \cup Lists(ev)

\* No entry has two outcomes.
Distinct(rep, ev, un) ==
    /\ Unique(rep) /\ Unique(un) /\ \A i \in Told(ev) : Unique(ev[i].list)
    /\ NodesOf(rep) \cap NodesOf(un) = {}
    /\ \A i \in Told(ev) : NodesOf(ev[i].list) \cap (NodesOf(rep) \cup NodesOf(un)) = {}
    /\ \A i, j \in Told(ev) : i # j => NodesOf(ev[i].list) \cap NodesOf(ev[j].list) = {}

Flow ==
    /\ Distinct(rm.report, events, ex.unsent)
    /\ \A o \in Outs(rm.report, events, ex.unsent) : Honest(o, removed)
    /\ rm.count = Cardinality(rm.report)
    /\ NodesOf(Outs(rm.report, events, ex.unsent)) \subseteq Indexed
    /\ ex.phase \in {"idle", "run"} =>
          NodesOf(Outs(rm.report, events, ex.unsent)) = {n \in Nodes : ex.recorded[n] # None}
    /\ ex.phase \in {"fail", "finish", "over"} /\ w[Root].pc = "done" =>
          NodesOf(Outs(rm.report, events, ex.unsent)) = Indexed

-----------------------------------------------------------------------------
(* The phases.                                                             *)

Stages ==
    /\ rm.phase \in {"admit", "scan"} => ex.phase = "idle"
    /\ ex.phase = "idle" =>
          /\ events = <<>> /\ rm.report = {} /\ rm.count = 0 /\ ex.unsent = {} /\ removed \subseteq {Root}
          /\ \A n \in Nodes : ex.recorded[n] = None
          /\ \A x \in Dirs : w[x].pc = "idle"
    /\ ex.phase \in {"run", "fail", "finish"} => rm.phase = "delete"
    /\ rm.phase = "verdict" => ex.phase = "over" /\ events = <<>>
    /\ \A i \in DOMAIN events : events[i].kind = "end" => i = Len(events) /\ ex.phase = "over"
    /\ ex.phase # "run" => \A x \in Dirs : w[x].pc \in {"idle", "done"}
    /\ ex.phase = "run" => w[Root].pc # "idle"
    /\ ex.phase \in {"fail", "finish", "over"} => ex.unsent = {}

-----------------------------------------------------------------------------
(* What is in place.                                                       *)

InPlace == {n \in Nodes : fs[n] \in {"here", "other"}}

Kept ==
    /\ \A n \in InPlace \ {Root} : fs[Parent[n]] = "here"
    /\ \A n \in Nodes : fs[n] = "held" => ex.recovery
    /\ rm.phase \notin {"return", "over"} => fs[Root] = "here"
    /\ rm.phase \in {"return", "over"} /\ ~ rm.error => \A n \in Nodes : fs[n] = "gone"
    /\ rm.result = "ok" => rm.phase = "over" /\ ~ rm.error

RInv ==
    /\ DelTypes
    /\ Working(w, Indexed, ex.recorded, removed)
    /\ Flow
    /\ Stages
    /\ Kept

-----------------------------------------------------------------------------
(* The tree.                                                               *)

(* Ancestors are entries, an entry is its own, with one its parent is.     *)
LEMMA UpwardIs ==
    ASSUME NEW n \in Nodes
    PROVE  /\ Upward(n) \subseteq Nodes
           /\ n \in Upward(n)
           /\ \A k \in Upward(n) : Parent[k] \in Upward(n)
           /\ Root \in Upward(n)
<1>1. Upward(n) \subseteq Nodes /\ n \in Upward(n)
  BY DEF Upward, Ancestry
<1>2. ASSUME NEW k \in Upward(n) PROVE Parent[k] \in Upward(n)
  BY <1>2, ScanAssumption DEF Upward, Ancestry
<1> QED BY <1>1, <1>2, TreeAssumption

(* They are the least such set.                                            *)
LEMMA UpwardLeast ==
    ASSUME NEW n \in Nodes, NEW S \in SUBSET Nodes, n \in S, \A k \in S : Parent[k] \in S
    PROVE  Upward(n) \subseteq S
BY DEF Upward, Ancestry

LEMMA UpwardTransitive ==
    ASSUME NEW n \in Nodes, NEW k \in Upward(n)
    PROVE  Upward(k) \subseteq Upward(n)
BY UpwardIs, UpwardLeast

LEMMA UpwardStep ==
    ASSUME NEW n \in Nodes
    PROVE  Parent[n] \in Nodes /\ Upward(n) = {n} \cup Upward(Parent[n])
<1>1. Parent[n] \in Nodes
  BY ScanAssumption
<1> DEFINE S == {n} \cup Upward(Parent[n])
<1>2. S \in SUBSET Nodes /\ n \in S
  BY <1>1, UpwardIs
<1>3. \A k \in S : Parent[k] \in S
  BY <1>1, UpwardIs
<1>4. Upward(n) \subseteq S
  BY <1>2, <1>3, UpwardLeast
<1>5. Upward(Parent[n]) \subseteq Upward(n)
  BY <1>1, UpwardIs, UpwardTransitive
<1> QED BY <1>1, <1>4, <1>5, UpwardIs

LEMMA UpwardRoot == Root \in Nodes /\ Upward(Root) = {Root}
<1>1. Root \in Nodes /\ Parent[Root] = Root
  BY ScanAssumption
<1>2. \A k \in {Root} : Parent[k] \in {Root}
  BY <1>1
<1>3. Upward(Root) \subseteq {Root}
  BY <1>1, <1>2, UpwardLeast
<1> QED BY <1>1, <1>3, UpwardIs

(* No entry but the root is above its own parent.                          *)
LEMMA NoCycle ==
    ASSUME NEW n \in Nodes \ {Root}
    PROVE  n \notin Upward(Parent[n])
<1> SUFFICES ASSUME n \in Upward(Parent[n]) PROVE FALSE
  OBVIOUS
<1> DEFINE S == {m \in Upward(n) : n \in Upward(m)}
<1>1. S \in SUBSET Nodes /\ n \in S
  BY UpwardIs
<1>2. ASSUME NEW m \in S PROVE Parent[m] \in S
  <2>1. m \in Nodes /\ Parent[m] \in Upward(n)
    BY UpwardIs
  <2>2. CASE m = n
    BY <2>1, <2>2
  <2>3. CASE m # n
    BY <2>1, <2>3, UpwardStep
  <2> QED BY <2>2, <2>3
<1>3. Root \in S
  BY <1>1, <1>2, UpwardLeast, UpwardIs
<1> QED BY <1>3, UpwardRoot

(* What is above one entry is a chain.                                     *)
LEMMA Chain ==
    ASSUME NEW k \in Nodes, NEW a \in Upward(k), NEW b \in Upward(k)
    PROVE  a \in Upward(b) \/ b \in Upward(a)
<1>0. a \in Nodes /\ b \in Nodes
  BY UpwardIs
<1> DEFINE S == {c \in Upward(k) : a \in Upward(c) \/ c \in Upward(a)}
<1>1. S \in SUBSET Nodes /\ k \in S
  BY UpwardIs
<1>2. ASSUME NEW c \in S PROVE Parent[c] \in S
  <2>1. c \in Nodes /\ Parent[c] \in Upward(k)
    BY UpwardIs
  <2>2. CASE c \in Upward(a)
    BY <1>0, <2>1, <2>2, UpwardIs
  <2>3. CASE a \in Upward(c) /\ a # c
    BY <2>1, <2>3, UpwardStep
  <2>4. CASE a = c
    BY <1>0, <2>4, <2>2, UpwardIs
  <2> QED BY <2>2, <2>3, <2>4
<1>3. Upward(k) \subseteq S
  BY <1>1, <1>2, UpwardLeast
<1> QED BY <1>3

(* Nothing is below two siblings.                                          *)
LEMMA Siblings ==
    ASSUME NEW m \in Nodes \ {Root}, NEW n \in Nodes \ {Root}, m # n, Parent[m] = Parent[n],
           NEW k \in Nodes, m \in Upward(k), n \in Upward(k)
    PROVE  FALSE
<1>1. m \in Upward(n) \/ n \in Upward(m)
  BY Chain
<1>2. CASE m \in Upward(n)
  BY <1>2, UpwardStep, NoCycle
<1>3. CASE n \in Upward(m)
  BY <1>3, UpwardStep, NoCycle
<1> QED BY <1>1, <1>2, <1>3

-----------------------------------------------------------------------------
(* Outcomes and events.                                                    *)

LEMMA NodesOfIs ==
    ASSUME NEW S, NEW n
    PROVE  n \in NodesOf(S) <=> \E o \in S : o.node = n
BY DEF NodesOf

LEMMA NodesOfUnion ==
    ASSUME NEW S, NEW U
    PROVE  NodesOf(S \cup U) = NodesOf(S) \cup NodesOf(U)
BY DEF NodesOf

(* There are finitely many outcomes.                                       *)
LEMMA OutcomesFinite == IsFiniteSet(Outcome)
<1>1. IsFiniteSet(Kinds)
  <2>1. Kinds = {"deleted"} \cup {"unsynced"} \cup {"failed"} \cup {"cancelled"} \cup {"changed"} \cup {"absent"}
    BY DEF Kinds
  <2> QED BY <2>1, FS_Singleton, FS_Union
<1>2. IsFiniteSet(Nodes \X Kinds)
  BY <1>1, ScanAssumption, FS_Product
<1> DEFINE Mk(p) == [node |-> p[1], kind |-> p[2]]
<1> DEFINE f == [p \in Nodes \X Kinds |-> Mk(p)]
<1>4. Outcome = {Mk(p) : p \in Nodes \X Kinds}
  <2>1. ASSUME NEW o \in Outcome PROVE \E p \in Nodes \X Kinds : o = Mk(p)
    <3>1. <<o.node, o.kind>> \in Nodes \X Kinds /\ o = Mk(<<o.node, o.kind>>)
      BY DEF Outcome
    <3> QED BY <3>1
  <2>2. ASSUME NEW p \in Nodes \X Kinds PROVE Mk(p) \in Outcome
    BY DEF Outcome
  <2> QED BY <2>1, <2>2
<1>5. f \in Surjection(Nodes \X Kinds, Outcome)
  BY <1>4 DEF Surjection
<1> QED BY <1>2, <1>5, FS_Surjection

(* Distinct outcomes are as many as their entries.                         *)
LEMMA UniqueCount ==
    ASSUME NEW S \in SUBSET Outcome, Unique(S)
    PROVE  IsFiniteSet(S) /\ Cardinality(S) = Cardinality(NodesOf(S))
<1>1. IsFiniteSet(S)
  BY OutcomesFinite, FS_Subset
<1> DEFINE f == [o \in S |-> o.node]
<1>2. f \in Bijection(S, NodesOf(S))
  <2>1. f \in [S -> NodesOf(S)]
    BY DEF NodesOf
  <2>2. IsInjective(f)
    BY DEF Unique, IsInjective
  <2>3. \A n \in NodesOf(S) : \E o \in S : f[o] = n
    BY DEF NodesOf
  <2> QED BY <2>1, <2>2, <2>3 DEF Bijection, Injection, Surjection
<1> QED BY <1>1, <1>2, FS_Bijection DEF ExistsBijection

LEMMA EventAppended ==
    ASSUME NEW ev \in Seq(Event), NEW e \in Event
    PROVE  /\ Append(ev, e) \in Seq(Event)
           /\ Len(Append(ev, e)) = Len(ev) + 1
           /\ DOMAIN Append(ev, e) = DOMAIN ev \cup {Len(ev) + 1}
           /\ Len(ev) + 1 \notin DOMAIN ev
           /\ \A i \in DOMAIN ev : Append(ev, e)[i] = ev[i]
           /\ Append(ev, e)[Len(ev) + 1] = e
OBVIOUS

LEMMA EventTaken ==
    ASSUME NEW ev \in Seq(Event), ev # <<>>
    PROVE  /\ Head(ev) = ev[1] /\ ev[1] \in Event /\ 1 \in DOMAIN ev
           /\ Tail(ev) \in Seq(Event)
           /\ Len(Tail(ev)) = Len(ev) - 1
           /\ \A i \in DOMAIN Tail(ev) : i + 1 \in DOMAIN ev /\ i + 1 # 1 /\ Tail(ev)[i] = ev[i + 1]
           /\ \A i \in DOMAIN ev : i # 1 => i - 1 \in DOMAIN Tail(ev)
OBVIOUS

LEMMA EventIs ==
    /\ \A e \in Event : e.kind = "outcomes" => e.list \in SUBSET Outcome
    /\ \A S \in SUBSET Outcome : [kind |-> "outcomes", list |-> S] \in Event
    /\ \A k \in {"failed", "end"} : [kind |-> k] \in Event /\ [kind |-> k].kind # "outcomes"
BY DEF Event

-----------------------------------------------------------------------------
(* The flow of outcomes.                                                   *)

LEMMA ListsIs ==
    ASSUME NEW ev, NEW o
    PROVE  o \in Lists(ev) <=> \E i \in Told(ev) : o \in ev[i].list
BY DEF Lists

\* No entry in S has an outcome in U.
Separate(S, U) == NodesOf(S) \cap NodesOf(U) = {}

\* New outcomes keep the old ones and their distinctness.
Grown(rep, ev, un, new) ==
    /\ Distinct(rep, ev, un \cup new)
    /\ Outs(rep, ev, un \cup new) = Outs(rep, ev, un) \cup new

LEMMA FlowGrow ==
    ASSUME NEW rep \in SUBSET Outcome, NEW ev \in Seq(Event), NEW un \in SUBSET Outcome,
           NEW new \in SUBSET Outcome, Distinct(rep, ev, un), Unique(new),
           Separate(new, Outs(rep, ev, un))
    PROVE  Grown(rep, ev, un, new)
<1>1. Outs(rep, ev, un \cup new) = Outs(rep, ev, un) \cup new
  BY DEF Outs
<1>2. NodesOf(un \cup new) = NodesOf(un) \cup NodesOf(new)
  BY NodesOfUnion
<1>3. NodesOf(new) \cap NodesOf(rep) = {} /\ NodesOf(new) \cap NodesOf(un) = {}
  BY DEF Outs, NodesOf, Separate
<1>4. \A i \in Told(ev) : NodesOf(ev[i].list) \cap NodesOf(new) = {}
  BY ListsIs DEF Outs, NodesOf, Separate
<1>5. Unique(un \cup new)
  BY <1>3 DEF Unique, NodesOf, Distinct
<1>6. Distinct(rep, ev, un \cup new)
  BY <1>2, <1>3, <1>4, <1>5 DEF Distinct
<1> QED BY <1>1, <1>6 DEF Grown

Posted(ev, S) == Append(ev, [kind |-> "outcomes", list |-> S])

LEMMA FlowPost ==
    ASSUME NEW rep \in SUBSET Outcome, NEW ev \in Seq(Event), NEW un \in SUBSET Outcome,
           Distinct(rep, ev, un)
    PROVE  /\ Posted(ev, un) \in Seq(Event)
           /\ Distinct(rep, Posted(ev, un), {})
           /\ Outs(rep, Posted(ev, un), {}) = Outs(rep, ev, un)
<1> DEFINE ev2 == Posted(ev, un)
<1> DEFINE e == [kind |-> "outcomes", list |-> un]
<1> DEFINE new == Len(ev) + 1
<1>1. e \in Event /\ e.kind = "outcomes" /\ e.list = un
  BY EventIs
<1>2. /\ ev2 \in Seq(Event) /\ DOMAIN ev2 = DOMAIN ev \cup {new} /\ new \notin DOMAIN ev
      /\ \A i \in DOMAIN ev : ev2[i] = ev[i]
      /\ ev2[new] = e
  BY <1>1, EventAppended DEF Posted
<1> HIDE DEF ev2
<1>3. /\ Told(ev2) = Told(ev) \cup {new} /\ new \notin Told(ev)
      /\ \A i \in Told(ev) : ev2[i].list = ev[i].list
      /\ ev2[new].list = un
  BY <1>1, <1>2 DEF Told
<1> HIDE DEF new
<1>4. NodesOf({}) = {} /\ Unique({})
  BY DEF NodesOf, Unique
<1>5. Outs(rep, ev2, {}) = Outs(rep, ev, un)
  <2>1. ASSUME NEW o PROVE o \in Lists(ev2) <=> o \in Lists(ev) \cup un
    BY <1>3, ListsIs
  <2> QED BY <2>1 DEF Outs
<1>6. \A i \in Told(ev2) : Unique(ev2[i].list)
  BY <1>3 DEF Distinct
<1>7. \A i \in Told(ev2) : NodesOf(ev2[i].list) \cap (NodesOf(rep) \cup NodesOf({})) = {}
  BY <1>3, <1>4 DEF Distinct
<1>8. \A i, j \in Told(ev2) : i # j => NodesOf(ev2[i].list) \cap NodesOf(ev2[j].list) = {}
  BY <1>3 DEF Distinct
<1>9. Distinct(rep, ev2, {})
  BY <1>4, <1>6, <1>7, <1>8 DEF Distinct
<1> QED BY <1>2, <1>5, <1>9 DEF ev2

\* The other events carry none.
Signalled(ev, k) == Append(ev, [kind |-> k])
Unchanged(rep, ev, ev2, un) ==
    ev2 \in Seq(Event) /\ Distinct(rep, ev2, un) /\ Outs(rep, ev2, un) = Outs(rep, ev, un)

LEMMA FlowOther ==
    ASSUME NEW rep \in SUBSET Outcome, NEW ev \in Seq(Event), NEW un \in SUBSET Outcome,
           Distinct(rep, ev, un), NEW k \in {"failed", "end"}, NEW ev2, ev2 = Signalled(ev, k)
    PROVE  Unchanged(rep, ev, ev2, un)
<1> DEFINE e == [kind |-> k]
<1> DEFINE new == Len(ev) + 1
<1>1. e \in Event /\ e.kind # "outcomes"
  BY EventIs
<1>2. /\ ev2 \in Seq(Event) /\ DOMAIN ev2 = DOMAIN ev \cup {new} /\ new \notin DOMAIN ev
      /\ \A i \in DOMAIN ev : ev2[i] = ev[i]
      /\ ev2[new] = e
  BY <1>1, EventAppended DEF Signalled
<1>3. Told(ev2) = Told(ev) /\ \A i \in Told(ev) : ev2[i] = ev[i]
  BY <1>1, <1>2 DEF Told
<1>4. Outs(rep, ev2, un) = Outs(rep, ev, un)
  BY <1>3 DEF Outs, Lists
<1>5. Distinct(rep, ev2, un)
  BY <1>3 DEF Distinct
<1> QED BY <1>2, <1>4, <1>5 DEF Unchanged

\* The outcomes of the first event, which the receiver has when it takes it.
Carried(ev) == IF Head(ev).kind = "outcomes" THEN Head(ev).list ELSE {}
Taken(rep, ev, un, list) ==
    /\ rep \cap list = {}
    /\ Distinct(rep \cup list, Tail(ev), un)
    /\ Outs(rep \cup list, Tail(ev), un) = Outs(rep, ev, un)

LEMMA FlowTake ==
    ASSUME NEW rep \in SUBSET Outcome, NEW ev \in Seq(Event), NEW un \in SUBSET Outcome,
           Distinct(rep, ev, un), ev # <<>>, NEW list \in SUBSET Outcome,
           list = Carried(ev)
    PROVE  Taken(rep, ev, un, list)
<1>0. list = IF Head(ev).kind = "outcomes" THEN Head(ev).list ELSE {}
  BY DEF Carried
<1> DEFINE tl == Tail(ev)
<1>1. /\ Head(ev) = ev[1] /\ 1 \in DOMAIN ev
      /\ \A i \in DOMAIN tl : i + 1 \in DOMAIN ev /\ i + 1 # 1 /\ tl[i] = ev[i + 1]
      /\ \A i \in DOMAIN ev : i # 1 => i - 1 \in DOMAIN tl
      /\ DOMAIN tl \subseteq Nat
  BY EventTaken
<1>2. \A i \in Told(tl) : i + 1 \in Told(ev) /\ i + 1 # 1 /\ tl[i].list = ev[i + 1].list
  BY <1>1 DEF Told
<1>3. \A i \in Told(ev) : i # 1 => i - 1 \in Told(tl) /\ tl[i - 1].list = ev[i].list
  <2> SUFFICES ASSUME NEW i \in Told(ev), i # 1 PROVE i - 1 \in Told(tl) /\ tl[i - 1].list = ev[i].list
    OBVIOUS
  <2>1. i \in Nat /\ i - 1 \in DOMAIN tl /\ (i - 1) + 1 = i
    BY <1>1 DEF Told
  <2>2. tl[i - 1] = ev[(i - 1) + 1]
    BY <1>1, <2>1
  <2>3. tl[i - 1] = ev[i]
    BY <2>1, <2>2
  <2> QED BY <2>1, <2>3 DEF Told
<1>4. 1 \in Told(ev) <=> Head(ev).kind = "outcomes"
  BY <1>1 DEF Told
<1>5. 1 \in Told(ev) => ev[1].list = list
  BY <1>0, <1>1, <1>4
<1>6. 1 \notin Told(ev) => list = {}
  BY <1>0, <1>4
<1>7. \A i, j \in Told(tl) : i # j => i + 1 # j + 1
  BY <1>1 DEF Told
<1> HIDE DEF tl
<1>8. Outs(rep \cup list, tl, un) = Outs(rep, ev, un)
  <2>1. ASSUME NEW o \in Lists(tl) PROVE o \in Lists(ev)
    BY <1>2, ListsIs
  <2>2. ASSUME NEW o \in Lists(ev) PROVE o \in Lists(tl) \cup list
    <3>1. PICK i \in Told(ev) : o \in ev[i].list
      BY ListsIs
    <3>2. CASE i = 1
      <4>1. 1 \in Told(ev) /\ o \in ev[1].list
        BY <3>1, <3>2
      <4> QED BY <4>1, <1>5
    <3>3. CASE i # 1
      BY <3>1, <3>3, <1>3, ListsIs
    <3> QED BY <3>2, <3>3
  <2>3. list \subseteq Lists(ev)
    BY <1>5, <1>6, ListsIs
  <2> QED BY <2>1, <2>2, <2>3 DEF Outs
<1>9. NodesOf(list) \cap (NodesOf(rep) \cup NodesOf(un)) = {} /\ Unique(list)
  <2>1. CASE 1 \in Told(ev)
    BY <2>1, <1>5 DEF Distinct
  <2>2. CASE 1 \notin Told(ev)
    BY <2>2, <1>6 DEF NodesOf, Unique
  <2> QED BY <2>1, <2>2
<1>10. \A i \in Told(tl) : NodesOf(tl[i].list) \cap NodesOf(list) = {}
  <2> SUFFICES ASSUME NEW i \in Told(tl) PROVE NodesOf(tl[i].list) \cap NodesOf(list) = {}
    OBVIOUS
  <2>1. CASE 1 \in Told(ev)
    BY <2>1, <1>2, <1>5 DEF Distinct
  <2>2. CASE 1 \notin Told(ev)
    BY <2>2, <1>6 DEF NodesOf
  <2> QED BY <2>1, <2>2
<1>11. rep \cap list = {}
  BY <1>9 DEF NodesOf
<1>12. Unique(rep \cup list)
  BY <1>9 DEF Unique, NodesOf, Distinct
<1>13. NodesOf(rep \cup list) = NodesOf(rep) \cup NodesOf(list)
  BY NodesOfUnion
<1>14. \A i \in Told(tl) : Unique(tl[i].list) /\ NodesOf(tl[i].list) \cap (NodesOf(rep) \cup NodesOf(un)) = {}
  BY <1>2 DEF Distinct
<1>15. \A i, j \in Told(tl) : i # j => NodesOf(tl[i].list) \cap NodesOf(tl[j].list) = {}
  BY <1>2, <1>7 DEF Distinct
<1>16. NodesOf(rep) \cap NodesOf(un) = {} /\ Unique(un)
  BY DEF Distinct
<1>17. Distinct(rep \cup list, tl, un)
  BY <1>9, <1>10, <1>12, <1>13, <1>14, <1>15, <1>16 DEF Distinct
<1> QED BY <1>8, <1>11, <1>17 DEF tl, Taken

-----------------------------------------------------------------------------
(* Whose an entry is.                                                      *)

\* What only thread x, once it runs, reports or removes.
Own(x, I) == IF x = Root THEN Members(I, Root) \ Dirs ELSE Territory(I, x)

LEMMA WalkerIs ==
    ASSUME NEW r \in Walker
    PROVE  /\ r.pc \in {"idle", "enter", "walk", "remove", "record", "done"}
           /\ r.stack \in Seq(Frame) /\ r.batch \in SUBSET Nodes /\ r.results \in SUBSET Outcome
           /\ Len(r.stack) \in Nat /\ DOMAIN r.stack = 1 .. Len(r.stack)
           /\ Depth(r) \in Int /\ 1 .. Depth(r) \subseteq DOMAIN r.stack
           /\ \A i \in DOMAIN r.stack : r.stack[i] \in Frame
           /\ \A i \in DOMAIN r.stack : r.stack[i].node \in Dirs /\ r.stack[i].todo \in SUBSET Nodes
<1>1. /\ r.pc \in {"idle", "enter", "walk", "remove", "record", "done"}
      /\ r.stack \in Seq(Frame) /\ r.batch \in SUBSET Nodes /\ r.results \in SUBSET Outcome
  BY DEF Walker
<1>2. /\ Len(r.stack) \in Nat /\ DOMAIN r.stack = 1 .. Len(r.stack)
      /\ \A i \in DOMAIN r.stack : r.stack[i] \in Frame
  BY <1>1
<1>3. \A f \in Frame : f.node \in Dirs /\ f.todo \in SUBSET Nodes
  BY DEF Frame
<1>4. Depth(r) \in Int /\ 1 .. Depth(r) \subseteq DOMAIN r.stack
  BY <1>2 DEF Depth
<1> QED BY <1>1, <1>2, <1>3, <1>4

LEMMA TerritoryIs ==
    ASSUME NEW I \in SUBSET (Nodes \ {Root}), NEW d \in Nodes
    PROVE  /\ Territory(I, d) \subseteq I
           /\ \A n \in I : d \in Upward(n) => n \in Territory(I, d)
           /\ d \in I => d \in Territory(I, d)
           /\ \A n \in Members(I, d) : n \in Territory(I, d) /\ Territory(I, n) \subseteq Territory(I, d)
           /\ \A n \in Territory(I, d) : Territory(I, n) \subseteq Territory(I, d)
<1>1. \A n \in Territory(I, d) : Territory(I, n) \subseteq Territory(I, d)
  <2> SUFFICES ASSUME NEW n \in I, d \in Upward(n), NEW k \in I, n \in Upward(k) PROVE d \in Upward(k)
    BY DEF Territory
  <2> QED BY UpwardTransitive
<1>2. \A n \in Members(I, d) : n \in Territory(I, d)
  BY UpwardIs DEF Members, Territory
<1> QED BY <1>1, <1>2, UpwardIs DEF Territory

LEMMA MembersWithin ==
    ASSUME NEW I \in SUBSET (Nodes \ {Root}), NEW x \in Nodes, NEW d \in Territory(I, x)
    PROVE  Members(I, d) \subseteq Territory(I, x)
<1>1. d \in Nodes /\ Territory(I, d) \subseteq Territory(I, x)
  BY TerritoryIs
<1> QED BY <1>1, TerritoryIs

(* What a thread has ahead or in hand is in its stack's directories.        *)
LEMMA AheadIs ==
    ASSUME NEW x, NEW r \in Walker, NEW I, NEW n \in Ahead(x, r, I)
    PROVE  /\ r.pc \in {"enter", "walk", "remove", "record"}
           /\ r.pc = "enter" => n \in Territory(I, x)
           /\ r.pc # "enter" =>
                 \/ n \in r.batch
                 \/ \E i \in 1 .. Depth(r) : n = r.stack[i].node
                 \/ \E i \in 1 .. Depth(r) : \E m \in r.stack[i].todo : n \in Territory(I, m)
           /\ r.pc # "enter" => n # Root
<1>1. r.pc \in {"enter", "walk", "remove", "record"}
  BY WalkerIs DEF Ahead
<1>2. CASE r.pc = "enter"
  BY <1>2 DEF Ahead
<1>3. CASE r.pc \in {"walk", "remove", "record"}
  <2>1. n \in (r.batch \cup {r.stack[i].node : i \in 1 .. Depth(r)}
             \cup UNION {Territory(I, m) : m \in UNION {r.stack[i].todo : i \in 1 .. Depth(r)}}) \ {Root}
    BY <1>3 DEF Ahead
  <2> QED BY <1>3, <2>1
<1> QED BY <1>1, <1>2, <1>3

LEMMA AheadHas ==
    ASSUME NEW x, NEW r, NEW I, r.pc \in {"walk", "remove", "record"}, NEW n, n # Root,
           \/ n \in r.batch
           \/ \E i \in 1 .. Depth(r) : n = r.stack[i].node
           \/ \E i \in 1 .. Depth(r) : \E m \in r.stack[i].todo : n \in Territory(I, m)
    PROVE  n \in Ahead(x, r, I)
<1>1. Ahead(x, r, I) = (r.batch \cup {r.stack[i].node : i \in 1 .. Depth(r)}
             \cup UNION {Territory(I, m) : m \in UNION {r.stack[i].todo : i \in 1 .. Depth(r)}}) \ {Root}
  BY DEF Ahead
<1> QED BY <1>1

LEMMA WalkWithin ==
    ASSUME NEW I \in SUBSET (Nodes \ {Root}), NEW x \in Dirs \ {Root}, x \in I,
           NEW r \in Walker, Neat(x, r, I)
    PROVE  Ahead(x, r, I) \cup NodesOf(r.results) \subseteq Territory(I, x)
<1>0. x \in Nodes /\ DOMAIN r.stack = 1 .. Len(r.stack) /\ Len(r.stack) \in Nat
  BY ScanAssumption, WalkerIs
<1>1. CASE r.pc \in {"idle", "done"}
  BY <1>1 DEF Ahead, Neat, NodesOf
<1>2. CASE r.pc = "enter"
  BY <1>2 DEF Ahead, Neat, NodesOf
<1>3. CASE r.pc \in {"walk", "remove", "record"}
  <2> DEFINE s == r.stack
  <2>1. Descends(x, s, I)
    BY <1>3 DEF Neat
  <2>2. ASSUME NEW i \in DOMAIN s PROVE s[i].node \in Territory(I, x) /\ s[i].node \in Nodes
    <3>1. s[i].node \in I
      <4>1. CASE i = 1
        BY <4>1, <2>1 DEF Descends
      <4>2. CASE i # 1
        <5>1. i \in 2 .. Len(s)
          BY <4>2, <1>0
        <5> QED BY <5>1, <2>1 DEF Descends
      <4> QED BY <4>1, <4>2
    <3>2. 1 \in DOMAIN s /\ 1 <= i
      BY <1>0
    <3>3. s[1].node = x /\ s[1].node \in Upward(s[i].node)
      BY <2>1, <3>2 DEF Descends
    <3> QED BY <3>1, <3>3 DEF Territory
  <2>3. ASSUME NEW i \in DOMAIN s, NEW m \in s[i].todo PROVE m \in Territory(I, x)
    <3>1. m \in Members(I, s[i].node)
      BY <2>1 DEF Descends
    <3>2. s[i].node \in Territory(I, x)
      BY <2>2
    <3> QED BY <3>1, <3>2, <1>0, MembersWithin
  <2>4. Len(s) \in DOMAIN s
    BY <2>1, <1>0 DEF Descends
  <2>5. r.batch \cup NodesOf(r.results) \subseteq Territory(I, x)
    <3>1. CASE r.pc \in {"walk", "remove"}
      <4>1. r.batch \cup NodesOf(r.results) \subseteq Members(I, s[Len(s)].node)
        BY <3>1 DEF Neat, Batched
      <4>2. s[Len(s)].node \in Territory(I, x)
        BY <2>2, <2>4
      <4> QED BY <4>1, <4>2, <1>0, MembersWithin
    <3>2. CASE r.pc = "record"
      <4>1. r.batch = {} /\ \E k \in Kinds : r.results = {[node |-> s[Len(s)].node, kind |-> k]}
        BY <3>2 DEF Neat
      <4>2. \A n \in NodesOf(r.results) : n = s[Len(s)].node
        BY <4>1 DEF NodesOf
      <4> QED BY <4>1, <4>2, <2>2, <2>4
    <3> QED BY <1>3, <3>1, <3>2
  <2>6. ASSUME NEW n \in Ahead(x, r, I) PROVE n \in Territory(I, x)
    <3>1. 1 .. Depth(r) \subseteq DOMAIN s
      BY WalkerIs
    <3>2. \/ n \in r.batch
          \/ \E i \in DOMAIN s : n = s[i].node
          \/ \E i \in DOMAIN s : \E m \in s[i].todo : n \in Territory(I, m)
      BY <1>3, <3>1, AheadIs
    <3> QED BY ZenonT(30), <3>2, <2>2, <2>3, <2>5, <1>0, TerritoryIs
  <2> QED BY <2>5, <2>6
<1> QED BY <1>1, <1>2, <1>3, WalkerIs

(* The group has files of the root in hand, and what is below the entries  *)
(* it has not handed over.                                                 *)
LEMMA GroupWithin ==
    ASSUME NEW I \in SUBSET (Nodes \ {Root}), NEW r \in Walker, Neat(Root, r, I)
    PROVE  /\ NodesOf(r.results) \subseteq Members(I, Root) \ Dirs
           /\ \A n \in Ahead(Root, r, I) :
                 /\ r.pc \in {"walk", "remove"}
                 /\ n \in Members(I, Root) \ Dirs \/ \E m \in r.stack[1].todo : n \in Territory(I, m)
           /\ r.pc \in {"walk", "remove"} =>
                 /\ Len(r.stack) = 1 /\ Depth(r) = 1 /\ r.stack[1].node = Root
                 /\ r.stack[1].todo \subseteq Members(I, Root) /\ r.batch \subseteq Members(I, Root) \ Dirs
<1>1. r.pc # "record" /\ r.pc # "enter"
  BY DEF Neat
<1>2. CASE r.pc \in {"idle", "done"}
  BY <1>2, AheadIs DEF Neat, NodesOf
<1>3. CASE r.pc \in {"walk", "remove"}
  <2>1. Descends(Root, r.stack, I) /\ Batched(r, I)
    BY <1>3 DEF Neat
  <2>2. Len(r.stack) = 1 /\ Depth(r) = 1 /\ r.stack[1].node = Root
    BY <2>1, <1>3 DEF Descends, Depth
  <2>3. 1 \in DOMAIN r.stack
    BY <2>2, WalkerIs
  <2>4. r.stack[1].todo \subseteq Members(I, Root)
    BY <2>1, <2>2, <2>3 DEF Descends
  <2>5. r.batch \cup NodesOf(r.results) \subseteq Members(I, Root) \ Dirs
    BY <2>1, <2>2 DEF Batched
  <2>6. 1 .. Depth(r) = {1}
    BY <2>2
  <2>7. \A n \in Ahead(Root, r, I) :
           n \in Members(I, Root) \ Dirs \/ \E m \in r.stack[1].todo : n \in Territory(I, m)
    BY <1>3, <2>2, <2>5, <2>6, AheadIs
  <2> QED BY <1>3, <2>2, <2>4, <2>5, <2>7
<1> QED BY <1>1, <1>2, <1>3, WalkerIs

LEMMA FileElsewhere ==
    ASSUME NEW I \in SUBSET (Nodes \ {Root}), NEW y \in Dirs \cap I, NEW n \in Members(I, Root) \ Dirs
    PROVE  n \notin Territory(I, y)
<1>1. n \in Nodes /\ y \in Nodes /\ y # Root /\ n # y /\ Parent[n] = Root
  BY DEF Members
<1>2. Upward(n) = {n, Root}
  BY <1>1, UpwardStep, UpwardRoot
<1> QED BY <1>1, <1>2 DEF Territory

LEMMA Strangers ==
    ASSUME NEW I \in SUBSET (Nodes \ {Root}), NEW d \in Nodes, NEW m \in Members(I, d), NEW y \in Members(I, d), m # y
    PROVE  Territory(I, m) \cap Territory(I, y) = {}
BY Siblings DEF Members, Territory

(* No thread touches what another has ahead or in hand.                    *)
LEMMA Foreign ==
    ASSUME NEW I \in SUBSET (Nodes \ {Root}), NEW ww \in [Dirs -> Walker], Walks(ww, I),
           NEW x \in Dirs, NEW y \in Dirs, x # y, ww[x].pc # "idle"
    PROVE  Own(x, I) \cap (Ahead(y, ww[y], I) \cup NodesOf(ww[y].results)) = {}
<1>0. Root \in Dirs
  BY ScanAssumption
<1>1. CASE ww[y].pc = "idle"
  BY <1>1, AheadIs DEF Walks, Neat, NodesOf
<1>2. CASE ww[y].pc # "idle" /\ y # Root
  <2>1. y \in I /\ Parent[y] = Root /\ y \in Members(I, Root)
    BY <1>2 DEF Walks, Spawned, Members
  <2>2. Ahead(y, ww[y], I) \cup NodesOf(ww[y].results) \subseteq Territory(I, y)
    BY <1>2, <2>1, WalkWithin DEF Walks
  <2>3. CASE x = Root
    BY <2>1, <2>2, <2>3, FileElsewhere DEF Own
  <2>4. CASE x # Root
    <3>1. x \in Members(I, Root)
      BY <2>4 DEF Walks, Spawned, Members
    <3>2. Territory(I, x) \cap Territory(I, y) = {}
      BY <3>1, <2>1, UpwardRoot, Strangers
    <3> QED BY <2>2, <2>4, <3>2 DEF Own
  <2> QED BY <2>3, <2>4
<1>3. CASE y = Root
  <2>1. x # Root /\ x \in I /\ x \in Members(I, Root)
    BY <1>3 DEF Walks, Spawned, Members
  <2>2. ww[Root].pc \in {"walk", "remove"} => x \notin ww[Root].stack[1].todo
    BY <1>3 DEF Walks, Spawned
  <2>3. Neat(Root, ww[Root], I) /\ ww[Root] \in Walker
    BY <1>0 DEF Walks
  <2>4. \A n \in NodesOf(ww[Root].results) : n \notin Territory(I, x)
    BY <2>1, <2>3, GroupWithin, FileElsewhere
  <2>5. ASSUME NEW n \in Ahead(Root, ww[Root], I) PROVE n \notin Territory(I, x)
    <3>1. CASE n \in Members(I, Root) \ Dirs
      BY <3>1, <2>1, FileElsewhere
    <3>2. CASE \E m \in ww[Root].stack[1].todo : n \in Territory(I, m)
      <4>1. PICK m \in ww[Root].stack[1].todo : n \in Territory(I, m)
        BY <3>2
      <4>2. m \in Members(I, Root) /\ m # x
        BY <2>2, <2>3, GroupWithin
      <4> QED BY <2>1, <4>1, <4>2, UpwardRoot, Strangers
    <3> QED BY <2>3, <3>1, <3>2, GroupWithin
  <2> QED BY <1>3, <2>1, <2>4, <2>5 DEF Own
<1> QED BY <1>1, <1>2, <1>3

\* r becomes r2, which neither has Z ahead nor anything new.
Shifted(x, r, r2, I, Z) ==
    /\ Neat(x, r2, I) /\ r2.pc # "idle"
    /\ x = Root /\ r2.pc \in {"walk", "remove"} =>
          r.pc \in {"walk", "remove"} /\ r2.stack[1].todo \subseteq r.stack[1].todo
    /\ Ahead(x, r2, I) \subseteq Ahead(x, r, I) \ Z

\* What becomes of the recorded outcomes and the removed entries: only Z is
\* reported or removed, and what is removed or was a result is accounted for.
Reported(r, r2, Z, rec, rec2, gone, gone2) ==
    /\ \A n \in Nodes : n \notin Z => rec2[n] = rec[n]
    /\ \A n \in Nodes : rec[n] # None => rec2[n] # None
    /\ gone \subseteq gone2 /\ gone2 \subseteq gone \cup Z
    /\ \A o \in r2.results : rec2[o.node] = None /\ Honest(o, gone2)
    /\ \A n \in gone2 \ gone : n \in NodesOf(r2.results)
    /\ \A n \in NodesOf(r.results) : rec2[n] # None \/ n \in NodesOf(r2.results)

(* A step of a thread that has started.                                    *)
LEMMA Advance ==
    ASSUME NEW I \in SUBSET (Nodes \ {Root}), NEW ww, NEW rec, NEW gone \in SUBSET Nodes,
           Working(ww, I, rec, gone),
           NEW x \in Dirs, ww[x].pc # "idle", NEW r \in Walker,
           NEW rec2, NEW gone2 \in SUBSET Nodes, NEW Z \in SUBSET Own(x, I),
           Shifted(x, ww[x], r, I, Z), Reported(ww[x], r, Z, rec, rec2, gone, gone2)
    PROVE  Working([ww EXCEPT ![x] = r], I, rec2, gone2)
<1> DEFINE ww2 == [ww EXCEPT ![x] = r]
<1>a. ww \in [Dirs -> Walker] /\ Walks(ww, I) /\ StillAhead(ww, I, rec, gone) /\ Results(ww, rec, gone)
  BY DEF Working
<1>b. /\ Neat(x, r, I) /\ r.pc # "idle"
      /\ x = Root /\ r.pc \in {"walk", "remove"} =>
            ww[x].pc \in {"walk", "remove"} /\ r.stack[1].todo \subseteq ww[x].stack[1].todo
      /\ Ahead(x, r, I) \subseteq Ahead(x, ww[x], I) \ Z
  BY DEF Shifted
<1>c. /\ \A n \in Nodes : n \notin Z => rec2[n] = rec[n]
      /\ \A n \in Nodes : rec[n] # None => rec2[n] # None
      /\ gone \subseteq gone2 /\ gone2 \subseteq gone \cup Z
      /\ \A o \in r.results : rec2[o.node] = None /\ Honest(o, gone2)
      /\ \A n \in gone2 \ gone : n \in NodesOf(r.results)
      /\ \A n \in NodesOf(ww[x].results) : rec2[n] # None \/ n \in NodesOf(r.results)
  BY DEF Reported
<1> USE <1>a, <1>b, <1>c
<1>0. /\ ww2 \in [Dirs -> Walker] /\ ww2[x] = r
      /\ \A y \in Dirs : y # x => ww2[y] = ww[y]
      /\ Root \in Dirs
  BY ScanAssumption
<1> HIDE DEF ww2
<1>1. Walks(ww2, I)
  <2>1. \A y \in Dirs : Neat(y, ww2[y], I)
    BY <1>0 DEF Walks
  <2>2. ASSUME NEW y \in Dirs \ {Root} PROVE Spawned(y, ww2, I)
    <3>1. Spawned(y, ww, I)
      BY DEF Walks
    <3>2. ww2[y].pc # "idle" => ww[y].pc # "idle"
      BY <1>0
    <3>3. CASE x = Root
      BY <1>0, <3>1, <3>2, <3>3 DEF Spawned
    <3>4. CASE x # Root
      BY <1>0, <3>1, <3>2, <3>4 DEF Spawned
    <3> QED BY <3>3, <3>4
  <2> QED BY <2>1, <2>2 DEF Walks
<1>2. ASSUME NEW y \in Dirs, y # x
      PROVE  Z \cap (Ahead(y, ww[y], I) \cup NodesOf(ww[y].results)) = {}
  BY <1>2, Foreign
<1>3. StillAhead(ww2, I, rec2, gone2)
  <2> SUFFICES ASSUME NEW y \in Dirs, NEW n \in Ahead(y, ww2[y], I) PROVE rec2[n] = None /\ n \notin gone2
    BY DEF StillAhead
  <2>1. n \in Ahead(y, ww[y], I) /\ n \notin Z
    BY <1>0, <1>2
  <2>2. rec[n] = None /\ n \notin gone
    BY <2>1 DEF StillAhead
  <2>3. n \in Nodes
    <3>1. y = Root \/ (y \in I /\ y \in Nodes) \/ ww[y].pc = "idle"
      BY ScanAssumption DEF Walks, Spawned
    <3>2. ww[y].pc # "idle"
      BY <2>1, AheadIs
    <3>3. CASE y = Root
      <4>1. Neat(Root, ww[Root], I) /\ ww[Root] \in Walker
        BY <1>0 DEF Walks
      <4> QED BY <2>1, <3>3, <4>1, GroupWithin DEF Members, Territory
    <3>4. CASE y # Root
      <4>1. Neat(y, ww[y], I) /\ ww[y] \in Walker
        BY <1>0 DEF Walks
      <4> QED BY <2>1, <3>1, <3>2, <3>4, <4>1, WalkWithin DEF Territory
    <3> QED BY <3>3, <3>4
  <2> QED BY <2>1, <2>2, <2>3
<1>4. Results(ww2, rec2, gone2)
  <2>1. ASSUME NEW y \in Dirs, NEW o \in ww2[y].results PROVE rec2[o.node] = None /\ Honest(o, gone2)
    <3>1. CASE y = x
      BY <3>1, <2>1, <1>0
    <3>2. CASE y # x
      <4>1. o \in ww[y].results /\ o.node \in NodesOf(ww[y].results)
        BY <3>2, <2>1, <1>0 DEF NodesOf
      <4>2. o.node \notin Z
        BY <1>2, <3>2, <4>1
      <4>3. o.node \in Nodes
        <5>1. o \in Outcome
          BY <4>1, WalkerIs
        <5> QED BY <5>1 DEF Outcome
      <4>4. rec[o.node] = None /\ Honest(o, gone)
        BY <4>1 DEF Results
      <4>5. o.node \in gone2 <=> o.node \in gone
        BY <4>2
      <4> QED BY <4>2, <4>3, <4>4, <4>5 DEF Honest
    <3> QED BY <3>1, <3>2
  <2>2. ASSUME NEW n \in gone2 \ {Root}, rec2[n] = None
        PROVE  \E y \in Dirs : n \in NodesOf(ww2[y].results)
    <3>1. CASE n \in gone
      <4>1. rec[n] = None
        BY <2>2, <3>1
      <4>2. PICK y \in Dirs : n \in NodesOf(ww[y].results)
        BY <4>1, <3>1 DEF Results
      <4>3. n \in NodesOf(ww2[y].results)
        BY <4>2, <2>2, <1>0
      <4> QED BY <4>3
    <3>2. CASE n \notin gone
      BY <3>2, <1>0
    <3> QED BY <3>1, <3>2
  <2> QED BY <2>1, <2>2 DEF Results
<1>5. Working(ww2, I, rec2, gone2)
  BY <1>0, <1>1, <1>3, <1>4 DEF Working
<1> QED BY <1>5 DEF ww2

-----------------------------------------------------------------------------
(* The steps of one thread.                                                *)

Less(s, n) == [s EXCEPT ![Len(s)].todo = @ \ {n}]

LEMMA LessIs ==
    ASSUME NEW s \in Seq(Frame), s # <<>>, NEW n
    PROVE  /\ Less(s, n) \in Seq(Frame) /\ Less(s, n) # <<>>
           /\ Len(Less(s, n)) = Len(s) /\ Len(s) \in Nat \ {0}
           /\ DOMAIN Less(s, n) = DOMAIN s /\ DOMAIN s = 1 .. Len(s)
           /\ \A i \in DOMAIN s : i # Len(s) => Less(s, n)[i] = s[i]
           /\ \A i \in DOMAIN s : Less(s, n)[i].node = s[i].node
           /\ Less(s, n)[Len(s)].todo = s[Len(s)].todo \ {n}
           /\ \A i \in DOMAIN s : Less(s, n)[i].todo \subseteq s[i].todo
<1>1. Len(s) \in Nat \ {0} /\ DOMAIN s = 1 .. Len(s) /\ s[Len(s)] \in Frame
  OBVIOUS
<1> DEFINE f == [s[Len(s)] EXCEPT !.todo = @ \ {n}]
<1>2. f \in Frame /\ f.node = s[Len(s)].node /\ f.todo = s[Len(s)].todo \ {n}
  BY <1>1 DEF Frame
<1>3. Less(s, n) = [s EXCEPT ![Len(s)] = f]
  BY DEF Less
<1> HIDE DEF f
<1>4. /\ Less(s, n) \in Seq(Frame) /\ Len(Less(s, n)) = Len(s) /\ DOMAIN Less(s, n) = DOMAIN s
      /\ \A i \in DOMAIN s : i # Len(s) => Less(s, n)[i] = s[i]
      /\ Less(s, n)[Len(s)] = f
  BY <1>1, <1>2, <1>3
<1> QED BY <1>1, <1>2, <1>4

LEMMA LessDescends ==
    ASSUME NEW x, NEW I, NEW s \in Seq(Frame), Descends(x, s, I), NEW n
    PROVE  Descends(x, Less(s, n), I)
<1> DEFINE s2 == Less(s, n)
<1>1. s # <<>>
  BY DEF Descends
<1>2. /\ s2 \in Seq(Frame) /\ s2 # <<>> /\ Len(s2) = Len(s) /\ DOMAIN s2 = DOMAIN s
      /\ \A i \in DOMAIN s : s2[i].node = s[i].node /\ s2[i].todo \subseteq s[i].todo
      /\ DOMAIN s = 1 .. Len(s) /\ Len(s) \in Nat \ {0}
  BY <1>1, LessIs
<1> HIDE DEF s2
<1>3. 1 \in DOMAIN s /\ \A i \in 2 .. Len(s) : i \in DOMAIN s /\ i - 1 \in DOMAIN s
  BY <1>2
<1>4. s2[1].node = x /\ (x = Root => Len(s2) = 1)
  BY <1>2, <1>3 DEF Descends
<1>5. \A i \in DOMAIN s2 : s2[i].todo \subseteq Members(I, s2[i].node)
  BY <1>2 DEF Descends
<1>6. \A i \in 2 .. Len(s2) :
         s2[i].node \in I /\ Parent[s2[i].node] = s2[i - 1].node /\ s2[i].node \notin s2[i - 1].todo
  BY <1>2, <1>3 DEF Descends
<1>7. \A i, j \in DOMAIN s2 : i <= j => s2[i].node \in Upward(s2[j].node)
  BY <1>2 DEF Descends
<1>8. Descends(x, s2, I)
  BY <1>2, <1>4, <1>5, <1>6, <1>7 DEF Descends
<1> QED BY <1>8 DEF s2

LEMMA PushDescends ==
    ASSUME NEW x, NEW I \in SUBSET (Nodes \ {Root}), NEW s \in Seq(Frame), Descends(x, s, I),
           x # Root, NEW n \in I, n \in Dirs, Parent[n] = s[Len(s)].node, n \notin s[Len(s)].todo,
           NEW f \in Frame, f.node = n, f.todo = Members(I, n)
    PROVE  /\ Append(s, f) \in Seq(Frame)
           /\ Descends(x, Append(s, f), I)
           /\ Len(Append(s, f)) = Len(s) + 1 /\ Append(s, f)[Len(s) + 1] = f
           /\ \A i \in DOMAIN s : Append(s, f)[i] = s[i]
<1> DEFINE s2 == Append(s, f)
<1>1. /\ s2 \in Seq(Frame) /\ Len(s2) = Len(s) + 1 /\ s2 # <<>>
      /\ Len(s) \in Nat \ {0} /\ DOMAIN s = 1 .. Len(s) /\ DOMAIN s2 = 1 .. Len(s) + 1
      /\ \A i \in 1 .. Len(s) : s2[i] = s[i]
      /\ s2[Len(s) + 1] = f
  BY DEF Descends
<1>2. n \in Nodes
  OBVIOUS
<1> HIDE DEF s2
<1>3. s2[1].node = x
  BY <1>1 DEF Descends
<1>4. ASSUME NEW i \in DOMAIN s2 PROVE s2[i].todo \subseteq Members(I, s2[i].node)
  <2>1. CASE i = Len(s) + 1
    BY <1>1, <2>1
  <2>2. CASE i # Len(s) + 1
    <3>1. i \in 1 .. Len(s)
      BY <1>1, <2>2
    <3> QED BY <1>1, <3>1 DEF Descends
  <2> QED BY <2>1, <2>2
<1>5. ASSUME NEW i \in 2 .. Len(s2)
      PROVE  s2[i].node \in I /\ Parent[s2[i].node] = s2[i - 1].node /\ s2[i].node \notin s2[i - 1].todo
  <2>1. CASE i = Len(s) + 1
    <3>1. i - 1 = Len(s) /\ i - 1 \in 1 .. Len(s)
      BY <1>1, <2>1
    <3> QED BY <1>1, <2>1, <3>1
  <2>2. CASE i # Len(s) + 1
    <3>1. i \in 2 .. Len(s) /\ i \in 1 .. Len(s) /\ i - 1 \in 1 .. Len(s)
      BY <1>1, <2>2
    <3> QED BY <1>1, <3>1 DEF Descends
  <2> QED BY <2>1, <2>2
<1>6. ASSUME NEW i \in DOMAIN s2, NEW j \in DOMAIN s2, i <= j PROVE s2[i].node \in Upward(s2[j].node)
  <2>1. CASE j # Len(s) + 1
    <3>1. i \in 1 .. Len(s) /\ j \in 1 .. Len(s)
      BY <1>1, <1>6, <2>1
    <3> QED BY <1>1, <1>6, <3>1 DEF Descends
  <2>2. CASE j = Len(s) + 1 /\ i = j
    BY <1>1, <1>2, <2>2, UpwardIs
  <2>3. CASE j = Len(s) + 1 /\ i # j
    <3>1. i \in 1 .. Len(s) /\ Len(s) \in 1 .. Len(s) /\ i <= Len(s)
      BY <1>1, <2>3
    <3>2. s[i].node \in Upward(Parent[n])
      BY <1>1, <3>1 DEF Descends
    <3>3. s[i].node \in Upward(n)
      BY <1>2, <3>2, UpwardStep
    <3> QED BY <1>1, <2>3, <3>1, <3>3
  <2> QED BY <2>1, <2>2, <2>3
<1>7. Descends(x, s2, I)
  BY <1>1, <1>3, <1>4, <1>5, <1>6 DEF Descends
<1> QED BY <1>1, <1>7 DEF s2

Popped(s) == SubSeq(s, 1, Len(s) - 1)

Shallower(x, s, I) ==
    /\ Popped(s) \in Seq(Frame) /\ Descends(x, Popped(s), I) /\ Len(Popped(s)) = Len(s) - 1 /\ x # Root
    /\ \A i \in DOMAIN Popped(s) : i \in DOMAIN s /\ Popped(s)[i] = s[i]

LEMMA PopDescends ==
    ASSUME NEW x, NEW I, NEW s \in Seq(Frame), Descends(x, s, I)
    PROVE  Len(s) = 1 \/ Shallower(x, s, I)
<1> SUFFICES ASSUME Len(s) # 1 PROVE Shallower(x, s, I)
  OBVIOUS
<1> DEFINE s2 == Popped(s)
<1>0. /\ Len(s) \in Nat \ {0} /\ DOMAIN s = 1 .. Len(s) /\ Len(s) - 1 \in Nat \ {0}
      /\ s \in [1 .. Len(s) -> Frame]
  BY DEF Descends
<1>a. s2 = [i \in 1 .. Len(s) - 1 |-> s[i]]
  BY <1>0 DEF Popped
<1> HIDE DEF s2
<1>b. s2 \in [1 .. Len(s) - 1 -> Frame]
  <2>1. \A i \in 1 .. Len(s) - 1 : i \in 1 .. Len(s)
    BY <1>0
  <2>2. \A i \in 1 .. Len(s) - 1 : s[i] \in Frame
    BY <1>0, <2>1
  <2> QED BY <1>a, <2>2
<1>c. s2 \in Seq(Frame) /\ Len(s2) = Len(s) - 1
  <2>1. \A k \in Nat : \A u \in [1 .. k -> Frame] : u \in Seq(Frame) /\ Len(u) = k
    OBVIOUS
  <2> QED BY <1>0, <1>b, <2>1
<1>1. /\ Len(s) \in Nat \ {0} /\ DOMAIN s = 1 .. Len(s) /\ Len(s) - 1 \in Nat \ {0}
      /\ s2 \in Seq(Frame) /\ Len(s2) = Len(s) - 1 /\ s2 # <<>> /\ DOMAIN s2 = 1 .. Len(s) - 1
      /\ \A i \in 1 .. Len(s) - 1 : s2[i] = s[i]
  BY <1>0, <1>a, <1>c
<1>2. \A i \in DOMAIN s2 : i \in DOMAIN s /\ s2[i] = s[i]
  BY <1>1
<1>3. x # Root
  BY DEF Descends
<1>4. s2[1].node = x /\ \A i \in DOMAIN s2 : s2[i].todo \subseteq Members(I, s2[i].node)
  BY <1>1, <1>2 DEF Descends
<1>5. \A i \in 2 .. Len(s2) : i \in 2 .. Len(s) /\ i \in DOMAIN s2 /\ i - 1 \in DOMAIN s2
  BY <1>1
<1>6. \A i \in 2 .. Len(s2) :
         s2[i].node \in I /\ Parent[s2[i].node] = s2[i - 1].node /\ s2[i].node \notin s2[i - 1].todo
  BY <1>2, <1>5 DEF Descends
<1>7. \A i, j \in DOMAIN s2 : i <= j => s2[i].node \in Upward(s2[j].node)
  BY <1>2 DEF Descends
<1>8. Descends(x, s2, I)
  BY <1>1, <1>3, <1>4, <1>6, <1>7 DEF Descends
<1> QED BY <1>1, <1>2, <1>3, <1>8 DEF s2, Shallower

(* What an outer frame still has to do is not above what the top has.      *)
LEMMA Beside ==
    ASSUME NEW x, NEW I \in SUBSET (Nodes \ {Root}), NEW s \in Seq(Frame), Descends(x, s, I),
           NEW i \in DOMAIN s, i # Len(s)
    PROVE  /\ s[i].node # s[Len(s)].node
           /\ \A m \in s[i].todo : \A n \in Nodes : s[Len(s)].node \in Upward(n) => m \notin Upward(n)
<1>1. Len(s) \in Nat \ {0} /\ DOMAIN s = 1 .. Len(s) /\ i + 1 \in 2 .. Len(s) /\ (i + 1) - 1 = i
  BY DEF Descends
<1>2. i + 1 \in DOMAIN s /\ Len(s) \in DOMAIN s /\ i + 1 <= Len(s)
  BY <1>1
<1> DEFINE nx == s[i + 1].node
<1>3. nx \in I /\ Parent[nx] = s[i].node /\ nx \notin s[i].todo
  BY <1>1 DEF Descends
<1>4. nx \in Upward(s[Len(s)].node)
  BY <1>2 DEF Descends
<1>5. nx \in Nodes \ {Root}
  BY <1>3
<1>6. s[Len(s)].node \in Nodes
  <2>1. s[Len(s)] \in Frame
    BY <1>2
  <2> QED BY <2>1, ScanAssumption DEF Frame
<1>7. s[i].node # s[Len(s)].node
  BY <1>3, <1>4, <1>5, NoCycle
<1>8. ASSUME NEW m \in s[i].todo, NEW n \in Nodes, s[Len(s)].node \in Upward(n) PROVE m \notin Upward(n)
  <2>1. nx \in Upward(n)
    BY <1>4, <1>8, UpwardTransitive
  <2>2. m \in Members(I, s[i].node)
    BY DEF Descends
  <2>3. m \in Nodes \ {Root} /\ Parent[m] = Parent[nx] /\ m # nx
    BY <1>3, <2>2 DEF Members
  <2> QED BY <1>5, <2>1, <2>3, Siblings
<1> QED BY <1>7, <1>8

LEMMA SharesApart ==
    ASSUME NEW x, NEW I \in SUBSET (Nodes \ {Root}), NEW s \in Seq(Frame), Descends(x, s, I),
           NEW i \in DOMAIN s, i # Len(s)
    PROVE  s[i].node # s[Len(s)].node
BY Beside

\* The frame a thread works on.
Last(s) == s[Len(s)]

LEMMA MoveStop ==
    ASSUME NEW x, NEW r, NEW I, NEW Z, NEW r2 \in Walker, r2.pc = "done", r2.results = {}
    PROVE  Shifted(x, r, r2, I, Z)
BY DEF Shifted, Neat, Ahead

LEMMA TopIs ==
    ASSUME NEW x, NEW I \in SUBSET (Nodes \ {Root}), NEW r \in Walker, Neat(x, r, I),
           r.pc \in {"walk", "remove", "record"}
    PROVE  /\ r.stack \in Seq(Frame) /\ r.stack # <<>> /\ Len(r.stack) \in Nat \ {0}
           /\ DOMAIN r.stack = 1 .. Len(r.stack) /\ Len(r.stack) \in DOMAIN r.stack /\ 1 \in DOMAIN r.stack
           /\ Descends(x, r.stack, I)
           /\ Last(r.stack) \in Frame /\ Last(r.stack).node \in Nodes /\ Last(r.stack).node \in Dirs
           /\ Last(r.stack).todo \subseteq Members(I, Last(r.stack).node)
           /\ x # Root => Last(r.stack).node \in I \/ Len(r.stack) = 1
<1>1. r.stack \in Seq(Frame) /\ Descends(x, r.stack, I) /\ r.stack # <<>>
  BY WalkerIs DEF Neat, Descends
<1>2. /\ Len(r.stack) \in Nat \ {0} /\ DOMAIN r.stack = 1 .. Len(r.stack)
      /\ Len(r.stack) \in DOMAIN r.stack /\ 1 \in DOMAIN r.stack
  BY <1>1
<1>3. Last(r.stack) \in Frame
  BY <1>1, <1>2 DEF Last
<1>4. Last(r.stack).node \in Nodes /\ Last(r.stack).node \in Dirs
  BY <1>3, ScanAssumption DEF Frame
<1>5. Last(r.stack).todo \subseteq Members(I, Last(r.stack).node)
  BY <1>1, <1>2 DEF Descends, Last
<1>6. Len(r.stack) # 1 => Len(r.stack) \in 2 .. Len(r.stack)
  <2>1. \A k \in Nat \ {0} : k # 1 => k \in 2 .. k
    OBVIOUS
  <2> QED BY <1>2, <2>1
<1>7. Last(r.stack).node \in I \/ Len(r.stack) = 1
  BY <1>1, <1>6 DEF Descends, Last
<1> QED BY <1>1, <1>2, <1>3, <1>4, <1>5, <1>7

(* A thread that works on the same frames, with less to do in them.        *)
LEMMA AheadShrinks ==
    ASSUME NEW x, NEW I \in SUBSET (Nodes \ {Root}), NEW r \in Walker, NEW r2 \in Walker,
           r.pc \in {"walk", "remove"}, r2.pc \in {"walk", "remove"},
           Len(r2.stack) = Len(r.stack),
           \A i \in DOMAIN r.stack : r2.stack[i].node = r.stack[i].node /\ r2.stack[i].todo \subseteq r.stack[i].todo,
           r2.batch \ {Root} \subseteq Ahead(x, r, I)
    PROVE  Ahead(x, r2, I) \subseteq Ahead(x, r, I)
<1>1. Depth(r2) = Depth(r) /\ 1 .. Depth(r) \subseteq DOMAIN r.stack
  BY WalkerIs DEF Depth
<1>2. ASSUME NEW n \in Ahead(x, r2, I) PROVE n \in Ahead(x, r, I)
  <2>1. n # Root
    BY AheadIs
  <2>2. \/ n \in r2.batch
        \/ \E i \in 1 .. Depth(r) : n = r.stack[i].node
        \/ \E i \in 1 .. Depth(r) : \E m \in r.stack[i].todo : n \in Territory(I, m)
    BY <1>1, AheadIs
  <2> QED BY <2>1, <2>2, AheadHas
<1> QED BY <1>2

LEMMA MoveTake ==
    ASSUME NEW x, NEW I \in SUBSET (Nodes \ {Root}), NEW r \in Walker, Neat(x, r, I), r.pc = "walk",
           NEW n \in Last(r.stack).todo \ Dirs,
           NEW r2 \in Walker, r2.pc \in {"walk", "remove"}, r2.stack = Less(r.stack, n),
           r2.batch = r.batch \cup {n}, r2.results = r.results
    PROVE  Shifted(x, r, r2, I, {})
<1>1. /\ r.stack \in Seq(Frame) /\ r.stack # <<>> /\ Descends(x, r.stack, I)
      /\ Len(r.stack) \in DOMAIN r.stack /\ 1 \in DOMAIN r.stack
      /\ Last(r.stack).todo \subseteq Members(I, Last(r.stack).node)
      /\ DOMAIN r.stack = 1 .. Len(r.stack) /\ Len(r.stack) \in Nat \ {0}
  BY TopIs
<1>2. /\ Len(r2.stack) = Len(r.stack)
      /\ \A i \in DOMAIN r.stack : r2.stack[i].node = r.stack[i].node /\ r2.stack[i].todo \subseteq r.stack[i].todo
      /\ Last(r2.stack).todo = Last(r.stack).todo \ {n} /\ Last(r2.stack).node = Last(r.stack).node
  BY <1>1, LessIs DEF Last
<1>3. Descends(x, r2.stack, I)
  BY <1>1, LessDescends
<1>4. n \in Members(I, Last(r.stack).node) /\ n \in I /\ n # Root /\ n \in Nodes
  BY <1>1 DEF Members
<1>5. r.results = {} /\ Batched(r, I)
  BY DEF Neat
<1>6. Batched(r2, I)
  BY <1>2, <1>4, <1>5 DEF Batched, Last, NodesOf, Unique
<1>7. n \in Ahead(x, r, I)
  <2>1. Len(r.stack) \in 1 .. Depth(r)
    BY <1>1 DEF Depth
  <2>2. n \in r.stack[Len(r.stack)].todo /\ n \in Territory(I, n)
    BY <1>4, TerritoryIs DEF Last
  <2> QED BY <1>4, <2>1, <2>2, AheadHas
<1>8. r.batch \ {Root} \subseteq Ahead(x, r, I)
  BY AheadHas
<1>9. Ahead(x, r2, I) \subseteq Ahead(x, r, I)
  BY <1>2, <1>7, <1>8, AheadShrinks
<1>10. Neat(x, r2, I)
  BY <1>3, <1>5, <1>6 DEF Neat
<1> QED BY <1>1, <1>2, <1>9, <1>10 DEF Shifted

LEMMA MoveFlush ==
    ASSUME NEW x, NEW I \in SUBSET (Nodes \ {Root}), NEW r \in Walker, Neat(x, r, I), r.pc = "walk",
           NEW r2 \in Walker, r2.pc = "remove", r2.stack = r.stack, r2.batch = r.batch, r2.results = r.results
    PROVE  Shifted(x, r, r2, I, {})
<1>1. Descends(x, r2.stack, I) /\ Batched(r2, I)
  BY DEF Neat, Batched
<1>2. Neat(x, r2, I)
  BY <1>1 DEF Neat
<1>3. r.batch \ {Root} \subseteq Ahead(x, r, I)
  BY AheadHas
<1>4. Ahead(x, r2, I) \subseteq Ahead(x, r, I)
  BY <1>3, AheadShrinks
<1> QED BY <1>2, <1>4 DEF Shifted

(* Files of the top directory are ahead only as part of the batch.         *)
LEMMA FileAhead ==
    ASSUME NEW x, NEW I \in SUBSET (Nodes \ {Root}), NEW r \in Walker, Neat(x, r, I),
           r.pc \in {"walk", "remove"}, NEW n \in Ahead(x, r, I),
           n \in Members(I, Last(r.stack).node) \ (Dirs \cup Last(r.stack).todo)
    PROVE  n \in r.batch
<1>1. /\ r.stack \in Seq(Frame) /\ Descends(x, r.stack, I) /\ DOMAIN r.stack = 1 .. Len(r.stack)
      /\ Last(r.stack).node \in Nodes
      /\ Last(r.stack).todo \subseteq Members(I, Last(r.stack).node)
  BY TopIs
<1>2. n \in Nodes /\ Last(r.stack).node \in Upward(n)
  <2>1. n \in Nodes /\ Parent[n] = Last(r.stack).node
    BY DEF Members
  <2> QED BY <2>1, <1>1, UpwardIs, UpwardStep
<1>3. ASSUME NEW i \in 1 .. Depth(r) PROVE n # r.stack[i].node
  BY WalkerIs
<1>4. ASSUME NEW i \in 1 .. Depth(r), NEW m \in r.stack[i].todo PROVE n \notin Territory(I, m)
  <2>0. i \in DOMAIN r.stack
    BY WalkerIs
  <2>1. CASE i # Len(r.stack)
    <3>1. m \notin Upward(n)
      BY <1>1, <1>2, <2>0, <2>1, Beside DEF Last
    <3> QED BY <3>1 DEF Territory
  <2>2. CASE i = Len(r.stack)
    <3>1. m \in Members(I, Last(r.stack).node) /\ m # n
      BY <1>1, <2>2 DEF Last
    <3>2. n \in Territory(I, n)
      BY <1>2, TerritoryIs DEF Members
    <3> QED BY <1>1, <3>1, <3>2, Strangers
  <2> QED BY <2>1, <2>2
<1> QED BY <1>3, <1>4, AheadIs

LEMMA MoveRemove ==
    ASSUME NEW x, NEW I \in SUBSET (Nodes \ {Root}), NEW r \in Walker, Neat(x, r, I), r.pc = "remove",
           NEW n \in r.batch, NEW o \in Outcome, o.node = n,
           NEW r2 \in Walker, r2.pc = "remove", r2.stack = r.stack, r2.batch = r.batch \ {n},
           r2.results = r.results \cup {o}
    PROVE  Shifted(x, r, r2, I, {n})
<1>1. Descends(x, r2.stack, I) /\ Batched(r, I)
  BY DEF Neat
<1>2. NodesOf(r2.results) = NodesOf(r.results) \cup {n}
  BY DEF NodesOf
<1>3. n \notin NodesOf(r.results)
  BY <1>1 DEF Batched
<1>4. Unique(r2.results)
  BY <1>1, <1>3 DEF Batched, Unique, NodesOf
<1>5. Batched(r2, I)
  BY <1>1, <1>2, <1>4 DEF Batched
<1>6. Neat(x, r2, I)
  BY <1>1, <1>5 DEF Neat
<1>7. r2.batch \ {Root} \subseteq Ahead(x, r, I)
  BY AheadHas
<1>8. Ahead(x, r2, I) \subseteq Ahead(x, r, I)
  BY <1>7, AheadShrinks
<1>9. n \notin Ahead(x, r2, I)
  <2>1. n \in Members(I, Last(r2.stack).node) \ (Dirs \cup Last(r2.stack).todo)
    BY <1>1 DEF Batched, Last
  <2> QED BY <2>1, <1>6, FileAhead
<1> QED BY <1>6, <1>8, <1>9 DEF Shifted

LEMMA MoveRecorded ==
    ASSUME NEW x, NEW I \in SUBSET (Nodes \ {Root}), NEW r \in Walker, Neat(x, r, I), r.pc = "remove", r.batch = {},
           NEW r2 \in Walker, r2.pc = "walk", r2.stack = r.stack, r2.batch = r.batch, r2.results = {}
    PROVE  Shifted(x, r, r2, I, NodesOf(r.results))
<1>1. Descends(x, r2.stack, I) /\ Batched(r, I)
  BY DEF Neat
<1>2. Batched(r2, I)
  BY <1>1 DEF Batched, NodesOf, Unique
<1>3. Neat(x, r2, I)
  BY <1>1, <1>2 DEF Neat
<1>4. r2.batch \ {Root} \subseteq Ahead(x, r, I)
  BY AheadHas
<1>5. Ahead(x, r2, I) \subseteq Ahead(x, r, I)
  BY <1>4, AheadShrinks
<1>6. ASSUME NEW n \in NodesOf(r.results) PROVE n \notin Ahead(x, r2, I)
  <2>1. n \in Members(I, Last(r2.stack).node) \ (Dirs \cup Last(r2.stack).todo)
    BY <1>1 DEF Batched, Last
  <2> QED BY <2>1, <1>3, FileAhead
<1> QED BY <1>3, <1>5, <1>6 DEF Shifted

LEMMA MoveEnterTop ==
    ASSUME NEW I \in SUBSET (Nodes \ {Root}), NEW x \in Dirs \ {Root}, x \in I,
           NEW r \in Walker, Neat(x, r, I), r.pc = "enter", NEW f \in Frame, f.node = x, f.todo = Members(I, x),
           NEW r2 \in Walker, r2.pc = "walk", r2.stack = <<f>>, r2.batch = {}, r2.results = {}
    PROVE  Shifted(x, r, r2, I, {})
<1>0. x \in Nodes
  BY ScanAssumption
<1>1. Len(r2.stack) = 1 /\ r2.stack[1] = f /\ DOMAIN r2.stack = {1} /\ 2 .. 1 = {}
  OBVIOUS
<1>2. Descends(x, r2.stack, I)
  BY <1>0, <1>1, UpwardIs DEF Descends
<1>3. Neat(x, r2, I)
  BY <1>2 DEF Neat, Batched, NodesOf, Unique
<1>4. Ahead(x, r, I) = Territory(I, x)
  BY DEF Ahead
<1>5. Ahead(x, r2, I) \subseteq Territory(I, x)
  BY <1>3, WalkWithin
<1> QED BY <1>3, <1>4, <1>5 DEF Shifted

LEMMA MoveSkip ==
    ASSUME NEW x, NEW I \in SUBSET (Nodes \ {Root}), NEW r \in Walker, Neat(x, r, I), r.pc = "walk", r.batch = {},
           NEW n \in Last(r.stack).todo,
           NEW r2 \in Walker, r2.pc = "walk", r2.stack = Less(r.stack, n), r2.batch = r.batch, r2.results = {}
    PROVE  Shifted(x, r, r2, I, Territory(I, n))
<1>1. /\ r.stack \in Seq(Frame) /\ r.stack # <<>> /\ Descends(x, r.stack, I)
      /\ Len(r.stack) \in DOMAIN r.stack /\ 1 \in DOMAIN r.stack /\ DOMAIN r.stack = 1 .. Len(r.stack)
      /\ Last(r.stack).todo \subseteq Members(I, Last(r.stack).node) /\ Last(r.stack).node \in Nodes
  BY TopIs
<1>2. /\ Len(r2.stack) = Len(r.stack)
      /\ \A i \in DOMAIN r.stack : i # Len(r.stack) => r2.stack[i] = r.stack[i]
      /\ \A i \in DOMAIN r.stack : r2.stack[i].node = r.stack[i].node /\ r2.stack[i].todo \subseteq r.stack[i].todo
      /\ Last(r2.stack).todo = Last(r.stack).todo \ {n}
  BY <1>1, LessIs DEF Last
<1>3. Descends(x, r2.stack, I)
  BY <1>1, LessDescends
<1>4. Neat(x, r2, I)
  BY <1>3 DEF Neat, Batched, NodesOf, Unique
<1>5. n \in Members(I, Last(r.stack).node) /\ n \in Nodes \ {Root} /\ Parent[n] = Last(r.stack).node
  BY <1>1 DEF Members
<1>6. Last(r.stack).node \in Upward(n)
  BY <1>1, <1>5, UpwardIs, UpwardStep
<1>7. ASSUME NEW k \in Territory(I, n), k \in Ahead(x, r2, I) PROVE FALSE
  <2>1. k \in Nodes /\ n \in Upward(k) /\ Last(r.stack).node \in Upward(k)
    BY <1>5, <1>6, UpwardTransitive DEF Territory
  <2>2. 1 .. Depth(r2) \subseteq DOMAIN r.stack
    BY <1>1, <1>2, WalkerIs
  <2>3. ASSUME NEW i \in DOMAIN r.stack PROVE k # r.stack[i].node
    <3>1. r.stack[i].node \in Upward(Last(r.stack).node)
      <4>1. i <= Len(r.stack)
        BY <1>1
      <4> QED BY <1>1, <4>1 DEF Descends, Last
    <3>2. SUFFICES ASSUME k = r.stack[i].node PROVE FALSE
      OBVIOUS
    <3>3. n \in Upward(Last(r.stack).node)
      BY <1>1, <2>1, <3>1, <3>2, UpwardTransitive
    <3> QED BY <1>5, <3>3, NoCycle
  <2>4. ASSUME NEW i \in DOMAIN r.stack, NEW m \in r2.stack[i].todo PROVE k \notin Territory(I, m)
    <3>1. CASE i # Len(r.stack)
      <4>1. m \notin Upward(k)
        BY <1>1, <1>2, <2>1, <3>1, Beside DEF Last
      <4> QED BY <4>1 DEF Territory
    <3>2. CASE i = Len(r.stack)
      <4>1. m \in Members(I, Last(r.stack).node) /\ m # n
        BY <1>1, <1>2, <3>2 DEF Last
      <4> QED BY <1>1, <1>5, <4>1, <1>7, Strangers
    <3> QED BY <3>1, <3>2
  <2> QED BY <1>2, <1>7, <2>2, <2>3, <2>4, AheadIs
<1>8. r2.batch \ {Root} \subseteq Ahead(x, r, I)
  BY AheadHas
<1>9. Ahead(x, r2, I) \subseteq Ahead(x, r, I)
  BY <1>2, <1>8, AheadShrinks
<1> QED BY <1>1, <1>2, <1>4, <1>7, <1>9 DEF Shifted

LEMMA MoveEnter ==
    ASSUME NEW I \in SUBSET (Nodes \ {Root}), NEW x \in Dirs \ {Root}, x \in I,
           NEW r \in Walker, Neat(x, r, I), r.pc = "walk", r.batch = {},
           NEW n \in Last(r.stack).todo \cap Dirs, NEW f \in Frame, f.node = n, f.todo = Members(I, n),
           NEW r2 \in Walker, r2.pc = "walk", r2.stack = Append(Less(r.stack, n), f),
           r2.batch = r.batch, r2.results = {}
    PROVE  Shifted(x, r, r2, I, {})
<1> DEFINE s == Less(r.stack, n)
<1>1. /\ r.stack \in Seq(Frame) /\ r.stack # <<>> /\ Descends(x, r.stack, I)
      /\ Len(r.stack) \in DOMAIN r.stack /\ DOMAIN r.stack = 1 .. Len(r.stack)
      /\ Last(r.stack).todo \subseteq Members(I, Last(r.stack).node)
  BY TopIs
<1>2. /\ s \in Seq(Frame) /\ Len(s) = Len(r.stack) /\ DOMAIN s = DOMAIN r.stack
      /\ \A i \in DOMAIN r.stack : s[i].node = r.stack[i].node /\ s[i].todo \subseteq r.stack[i].todo
      /\ Last(s).todo = Last(r.stack).todo \ {n} /\ Last(s).node = Last(r.stack).node
  BY <1>1, LessIs DEF Last
<1>3. Descends(x, s, I)
  BY <1>1, LessDescends
<1>4. n \in I /\ Parent[n] = Last(s).node /\ n \notin Last(s).todo /\ n # Root /\ n \in Nodes
  BY <1>1, <1>2 DEF Members
<1> HIDE DEF s
<1>5. /\ Descends(x, r2.stack, I) /\ Len(r2.stack) = Len(s) + 1 /\ r2.stack[Len(s) + 1] = f
      /\ \A i \in DOMAIN s : r2.stack[i] = s[i]
  <2>1. Parent[n] = s[Len(s)].node /\ n \notin s[Len(s)].todo /\ r2.stack = Append(s, f) /\ n \in I /\ n \in Dirs
    BY <1>4 DEF Last, s
  <2> QED BY <1>2, <1>3, <2>1, PushDescends
<1>6. Neat(x, r2, I)
  BY <1>5 DEF Neat, Batched, NodesOf, Unique
<1>7. ASSUME NEW k \in Ahead(x, r2, I) PROVE k \in Ahead(x, r, I)
  <2>1. Depth(r) = Len(r.stack) /\ Depth(r2) = Len(r.stack) + 1 /\ Len(r.stack) \in Nat
    BY <1>1, <1>2, <1>5 DEF Depth
  <2>2. \A i \in 1 .. Depth(r2) : (i \in 1 .. Depth(r) /\ i \in DOMAIN r.stack) \/ i = Len(s) + 1
    BY <1>1, <1>2, <2>1
  <2>3. /\ Len(r.stack) \in 1 .. Depth(r)
        /\ n \in r.stack[Len(r.stack)].todo
    BY <1>1, <2>1 DEF Last
  <2>4. ASSUME NEW j \in Territory(I, n) PROVE j \in Ahead(x, r, I)
    <3>1. j # Root
      BY <2>4 DEF Territory
    <3> QED BY <3>1, <2>3, <2>4, AheadHas
  <2>5. k # Root
    BY AheadIs
  <2>6. k \notin r2.batch
    OBVIOUS
  <2>7. CASE \E i \in 1 .. Depth(r2) : k = r2.stack[i].node
    <3>1. PICK i \in 1 .. Depth(r2) : k = r2.stack[i].node
      BY <2>7
    <3>2. CASE i = Len(s) + 1
      <4>1. k = n
        BY <1>5, <3>1, <3>2
      <4>2. n \in Territory(I, n)
        BY <1>4, UpwardIs DEF Territory
      <4> QED BY <4>1, <4>2, <2>4
    <3>3. CASE i # Len(s) + 1
      <4>1. i \in 1 .. Depth(r) /\ k = r.stack[i].node
        BY <1>2, <1>5, <2>2, <3>1, <3>3
      <4> QED BY <4>1, <2>5, AheadHas
    <3> QED BY <3>2, <3>3
  <2>8. CASE \E i \in 1 .. Depth(r2) : \E m \in r2.stack[i].todo : k \in Territory(I, m)
    <3>1. PICK i \in 1 .. Depth(r2) : \E m \in r2.stack[i].todo : k \in Territory(I, m)
      BY <2>8
    <3>2. PICK m \in r2.stack[i].todo : k \in Territory(I, m)
      BY <3>1
    <3>3. CASE i = Len(s) + 1
      <4>1. m \in Members(I, n)
        BY <1>5, <3>3
      <4>2. k \in Territory(I, n)
        BY <1>4, <3>2, <4>1, TerritoryIs
      <4> QED BY <4>2, <2>4
    <3>4. CASE i # Len(s) + 1
      <4>1. i \in 1 .. Depth(r) /\ m \in r.stack[i].todo
        BY <1>2, <1>5, <2>2, <3>4
      <4> QED BY <4>1, <3>2, <2>5, AheadHas
    <3> QED BY <3>3, <3>4
  <2>9. r2.pc # "enter"
    OBVIOUS
  <2> QED BY <1>7, <2>6, <2>7, <2>8, <2>9, AheadIs
<1> QED BY <1>6, <1>7 DEF Shifted

(* The directory at the top is not ahead of the frames below it.           *)
LEMMA TopNotAhead ==
    ASSUME NEW x, NEW I \in SUBSET (Nodes \ {Root}), NEW r \in Walker, Descends(x, r.stack, I),
           NEW r2 \in Walker, r2.pc \in {"walk", "record"}, r2.batch = {}, Depth(r2) = Len(r.stack) - 1,
           \A i \in 1 .. Depth(r2) : r2.stack[i] = r.stack[i]
    PROVE  Last(r.stack).node \notin Ahead(x, r2, I)
<1> DEFINE d == Last(r.stack).node
<1>1. /\ DOMAIN r.stack = 1 .. Len(r.stack) /\ r.stack \in Seq(Frame) /\ Len(r.stack) \in Nat \ {0}
      /\ Len(r.stack) \in DOMAIN r.stack
  BY WalkerIs DEF Descends
<1>2. d \in Nodes /\ d \in Upward(d)
  <2>1. d \in Nodes
    BY <1>1, WalkerIs, ScanAssumption DEF Last
  <2> QED BY <2>1, UpwardIs
<1>3. \A i \in 1 .. Depth(r2) : i \in DOMAIN r.stack /\ i # Len(r.stack)
  BY <1>1
<1>4. ASSUME NEW i \in 1 .. Depth(r2) PROVE d # r2.stack[i].node
  <2>1. i \in DOMAIN r.stack /\ i # Len(r.stack) /\ r2.stack[i] = r.stack[i]
    BY <1>3
  <2> DEFINE s == r.stack
  <2>2. s \in Seq(Frame) /\ Descends(x, s, I) /\ i \in DOMAIN s /\ i # Len(s)
    BY <1>1, <2>1
  <2> HIDE DEF s
  <2>3. s[i].node # s[Len(s)].node
    BY <2>2, SharesApart
  <2>4. r.stack[i].node # r.stack[Len(r.stack)].node
    BY <2>3 DEF s
  <2> QED BY <2>1, <2>4 DEF Last
<1>5. ASSUME NEW i \in 1 .. Depth(r2), NEW m \in r2.stack[i].todo PROVE d \notin Territory(I, m)
  <2>1. m \notin Upward(d)
    BY <1>1, <1>2, <1>3, Beside DEF Last
  <2> QED BY <2>1 DEF Territory
<1> HIDE DEF d
<1>6. d \notin Ahead(x, r2, I)
  BY <1>4, <1>5, AheadIs
<1> QED BY <1>6 DEF d

LEMMA MoveRemoveDirectory ==
    ASSUME NEW x, NEW I \in SUBSET (Nodes \ {Root}), NEW r \in Walker, Neat(x, r, I), r.pc = "walk", r.batch = {},
           x # Root, Last(r.stack).todo = {}, NEW k \in Kinds,
           NEW r2 \in Walker, r2.pc = "record", r2.stack = r.stack, r2.batch = r.batch,
           r2.results = {[node |-> Last(r.stack).node, kind |-> k]}
    PROVE  Shifted(x, r, r2, I, {Last(r.stack).node})
<1>1. Descends(x, r.stack, I) /\ Len(r.stack) \in Nat \ {0}
  BY TopIs
<1>2. Neat(x, r2, I)
  BY <1>1 DEF Neat, Last
<1>3. Depth(r2) = Len(r.stack) - 1 /\ Depth(r) = Len(r.stack)
  BY DEF Depth
<1>4. Last(r.stack).node \notin Ahead(x, r2, I)
  BY <1>1, <1>3, TopNotAhead
<1>5. 1 .. Depth(r2) \subseteq 1 .. Depth(r)
  BY <1>1, <1>3
<1>6. ASSUME NEW n \in Ahead(x, r2, I) PROVE n \in Ahead(x, r, I)
  <2>1. n # Root
    BY AheadIs
  <2>2. \/ n \in r2.batch
        \/ \E i \in 1 .. Depth(r) : n = r.stack[i].node
        \/ \E i \in 1 .. Depth(r) : \E m \in r.stack[i].todo : n \in Territory(I, m)
    BY <1>5, AheadIs
  <2> QED BY <2>1, <2>2, AheadHas
<1> QED BY <1>2, <1>4, <1>6 DEF Shifted

LEMMA MovePop ==
    ASSUME NEW x, NEW I \in SUBSET (Nodes \ {Root}), NEW r \in Walker, Neat(x, r, I), r.pc = "record",
           Len(r.stack) # 1,
           NEW r2 \in Walker, r2.pc = "walk", r2.stack = Popped(r.stack),
           r2.batch = r.batch, r2.results = {}
    PROVE  Shifted(x, r, r2, I, NodesOf(r.results))
<1>1. Descends(x, r.stack, I) /\ r.stack \in Seq(Frame) /\ Len(r.stack) \in Nat \ {0} /\ r.batch = {}
  BY TopIs DEF Neat
<1>2. /\ Descends(x, r2.stack, I) /\ Len(r2.stack) = Len(r.stack) - 1 /\ x # Root
      /\ \A i \in DOMAIN r2.stack : i \in DOMAIN r.stack /\ r2.stack[i] = r.stack[i]
  <2>1. Len(r.stack) = 1 \/ Shallower(x, r.stack, I)
    BY <1>1, PopDescends
  <2> QED BY <2>1 DEF Shallower
<1>3. Neat(x, r2, I)
  BY <1>1, <1>2 DEF Neat, Batched, NodesOf, Unique
<1>4. Depth(r2) = Len(r.stack) - 1 /\ Depth(r) = Len(r.stack) - 1 /\ 1 .. Depth(r2) \subseteq DOMAIN r2.stack
  BY <1>2, WalkerIs DEF Depth
<1>5. Last(r.stack).node \notin Ahead(x, r2, I)
  BY <1>1, <1>2, <1>4, TopNotAhead
<1>6. ASSUME NEW n \in Ahead(x, r2, I) PROVE n \in Ahead(x, r, I)
  <2>1. n # Root
    BY AheadIs
  <2>2. \/ n \in r.batch
        \/ \E i \in 1 .. Depth(r) : n = r.stack[i].node
        \/ \E i \in 1 .. Depth(r) : \E m \in r.stack[i].todo : n \in Territory(I, m)
    <3>1. \A i \in 1 .. Depth(r2) : i \in 1 .. Depth(r) /\ r2.stack[i] = r.stack[i]
      BY <1>2, <1>4
    <3>2. r2.batch = r.batch
      OBVIOUS
    <3>3. r2.pc # "enter"
      OBVIOUS
    <3>4. \/ n \in r2.batch
          \/ \E i \in 1 .. Depth(r2) : n = r2.stack[i].node
          \/ \E i \in 1 .. Depth(r2) : \E m \in r2.stack[i].todo : n \in Territory(I, m)
      BY <1>6, <3>3, AheadIs
    <3> QED BY <3>1, <3>2, <3>4
  <2> QED BY <2>1, <2>2, AheadHas
<1>7. \A n \in NodesOf(r.results) : n = Last(r.stack).node
  <2>1. \E k \in Kinds : r.results = {[node |-> Last(r.stack).node, kind |-> k]}
    BY DEF Neat, Last
  <2> QED BY <2>1 DEF NodesOf
<1> QED BY <1>2, <1>3, <1>5, <1>6, <1>7 DEF Shifted

-----------------------------------------------------------------------------
(* Recording outcomes.                                                     *)

Unrecorded(O) == {o \in O : ex.recorded[o.node] = None}
Extended(rec, F) ==
    [n \in Nodes |-> IF \E o \in F : o.node = n THEN (CHOOSE o \in F : o.node = n).kind ELSE rec[n]]

LEMMA ExtendedIs ==
    ASSUME NEW rec \in [Nodes -> Kinds \cup {None}], NEW F \in SUBSET Outcome
    PROVE  /\ Extended(rec, F) \in [Nodes -> Kinds \cup {None}]
           /\ \A n \in Nodes : n \notin NodesOf(F) => Extended(rec, F)[n] = rec[n]
           /\ \A n \in NodesOf(F) : n \in Nodes /\ Extended(rec, F)[n] # None
<1>1. ASSUME NEW n \in Nodes, \E o \in F : o.node = n PROVE (CHOOSE o \in F : o.node = n).kind \in Kinds
  <2>1. (CHOOSE o \in F : o.node = n) \in F
    BY <1>1
  <2> QED BY <2>1 DEF Outcome
<1>2. None \notin Kinds
  BY DEF None, Kinds
<1>3. \A n \in NodesOf(F) : n \in Nodes /\ \E o \in F : o.node = n
  BY DEF NodesOf, Outcome
<1>4. \A n \in Nodes : n \notin NodesOf(F) => ~ \E o \in F : o.node = n
  BY DEF NodesOf
<1>5. Extended(rec, F) \in [Nodes -> Kinds \cup {None}]
  BY <1>1 DEF Extended
<1> QED BY <1>1, <1>2, <1>3, <1>4, <1>5 DEF Extended

LEMMA RecordIs ==
    ASSUME ex \in Executing, NEW O, Record(O)
    PROVE  /\ ex' = [ex EXCEPT !.recorded = Extended(ex.recorded, Unrecorded(O)), !.unsent = ex'.unsent]
           /\ \/ events' = events /\ ex'.unsent = ex.unsent \cup Unrecorded(O)
              \/ /\ events' = Append(events, [kind |-> "outcomes", list |-> ex.unsent \cup Unrecorded(O)])
                 /\ ex'.unsent = {}
<1> DEFINE fresh == {o \in O : ex.recorded[o.node] = None}
<1> DEFINE unsent == ex.unsent \cup fresh
<1> DEFINE full == Cardinality(unsent) >= OutcomeBatch
<1> DEFINE rec == [n \in Nodes |-> IF \E o \in fresh : o.node = n
                                   THEN (CHOOSE o \in fresh : o.node = n).kind ELSE ex.recorded[n]]
<1>1. /\ events' = IF full THEN Append(events, [kind |-> "outcomes", list |-> unsent]) ELSE events
      /\ ex' = [ex EXCEPT !.recorded = rec, !.unsent = IF full THEN {} ELSE unsent]
  BY DEF Record, Executing
<1>2. rec = Extended(ex.recorded, Unrecorded(O)) /\ fresh = Unrecorded(O)
  BY DEF Extended, Unrecorded
<1> HIDE DEF rec, full, fresh
<1>3. ex'.unsent = IF full THEN {} ELSE unsent
  BY <1>1 DEF Executing
<1>4. ex' = [ex EXCEPT !.recorded = rec, !.unsent = ex'.unsent]
  BY <1>1, <1>3 DEF Executing
<1> QED BY <1>1, <1>2, <1>3, <1>4

NoEnd(ev) == \A i \in DOMAIN ev : ev[i].kind # "end"

LEMMA NoEndAppended ==
    ASSUME NEW ev \in Seq(Event), NoEnd(ev), NEW S \in SUBSET Outcome
    PROVE  NoEnd(Posted(ev, S))
BY EventIs, EventAppended DEF NoEnd, Posted

\* What recording O does.
Noted(O) ==
    /\ ex' \in Executing /\ events' \in Seq(Event)
    /\ ex'.phase = ex.phase /\ ex'.cancelled = ex.cancelled /\ ex'.recovery = ex.recovery
    /\ \A n \in Nodes : n \notin NodesOf(O) => ex'.recorded[n] = ex.recorded[n]
    /\ \A n \in Nodes : ex.recorded[n] # None => ex'.recorded[n] # None
    /\ \A n \in NodesOf(O) : ex'.recorded[n] # None
    /\ NoEnd(events')
    /\ Flow'

LEMMA RecordNotes ==
    ASSUME DelTypes, Flow, ex.phase = "run", NoEnd(events), NEW O \in SUBSET Outcome, Unique(O),
           NodesOf(O) \subseteq Indexed, \A o \in O : ex.recorded[o.node] = None => Honest(o, removed),
           Record(O), UNCHANGED <<idx, rm, removed>>
    PROVE  Noted(O)
<1> DEFINE F == Unrecorded(O)
<1> DEFINE rec2 == Extended(ex.recorded, F)
<1>0. /\ ex \in Executing /\ ex.recorded \in [Nodes -> Kinds \cup {None}] /\ ex.unsent \in SUBSET Outcome
      /\ events \in Seq(Event) /\ rm.report \in SUBSET Outcome
  BY DEF DelTypes, Executing, Caller
<1>1. /\ ex' = [ex EXCEPT !.recorded = rec2, !.unsent = ex'.unsent]
      /\ \/ events' = events /\ ex'.unsent = ex.unsent \cup F
         \/ /\ events' = Append(events, [kind |-> "outcomes", list |-> ex.unsent \cup F])
            /\ ex'.unsent = {}
  BY <1>0, RecordIs
<1>2. /\ F \in SUBSET Outcome /\ F \subseteq O /\ Unique(F) /\ NodesOf(F) \subseteq NodesOf(O)
      /\ \A o \in F : ex.recorded[o.node] = None /\ Honest(o, removed)
  BY DEF Unrecorded, Unique, NodesOf
<1>3. /\ rec2 \in [Nodes -> Kinds \cup {None}]
      /\ \A n \in Nodes : n \notin NodesOf(F) => rec2[n] = ex.recorded[n]
      /\ \A n \in NodesOf(F) : n \in Nodes /\ rec2[n] # None
  BY <1>0, <1>2, ExtendedIs
<1>4. ASSUME NEW n \in NodesOf(O), n \notin NodesOf(F) PROVE ex.recorded[n] # None
  <2>1. PICK o \in O : o.node = n
    BY DEF NodesOf
  <2> QED BY <2>1, <1>4 DEF Unrecorded, NodesOf
<1>5. ASSUME NEW n \in NodesOf(F) PROVE ex.recorded[n] = None
  BY <1>2 DEF NodesOf
<1> HIDE DEF F, rec2
<1>6. ex'.unsent \in SUBSET Outcome
  BY <1>0, <1>1, <1>2
<1>7. /\ ex' \in Executing /\ ex'.phase = ex.phase /\ ex'.cancelled = ex.cancelled /\ ex'.recovery = ex.recovery
      /\ ex'.recorded = rec2
  <2> DEFINE un == ex'.unsent
  <2>1. ex' = [ex EXCEPT !.recorded = rec2, !.unsent = un] /\ un \in SUBSET Outcome
    BY <1>1, <1>6
  <2> HIDE DEF un
  <2> QED BY <1>0, <1>3, <2>1 DEF Executing
<1>8. \A n \in NodesOf(O) : n \in Nodes
  BY DEF NodesOf, Outcome
<1>9. /\ \A n \in Nodes : n \notin NodesOf(O) => rec2[n] = ex.recorded[n]
      /\ \A n \in Nodes : ex.recorded[n] # None => rec2[n] # None
      /\ \A n \in NodesOf(O) : rec2[n] # None
  BY <1>2, <1>3, <1>4, <1>5, <1>8
<1>10. Distinct(rm.report, events, ex.unsent) /\ NodesOf(F) \cap NodesOf(Outs(rm.report, events, ex.unsent)) = {}
  BY <1>5 DEF Flow
<1>11. /\ Distinct(rm.report, events, ex.unsent \cup F)
       /\ Outs(rm.report, events, ex.unsent \cup F) = Outs(rm.report, events, ex.unsent) \cup F
  <2> DEFINE rep == rm.report
  <2> DEFINE un == ex.unsent
  <2>1. /\ rep \in SUBSET Outcome /\ un \in SUBSET Outcome /\ Distinct(rep, events, un)
        /\ Separate(F, Outs(rep, events, un))
    BY <1>0, <1>10 DEF Separate
  <2> HIDE DEF rep, un
  <2>2. Grown(rep, events, un, F)
    BY <2>1, <1>0, <1>2, FlowGrow
  <2> QED BY <2>2 DEF rep, un, Grown
<1>12. /\ events' \in Seq(Event) /\ NoEnd(events')
       /\ Distinct(rm.report, events', ex'.unsent)
       /\ Outs(rm.report, events', ex'.unsent) = Outs(rm.report, events, ex.unsent) \cup F
  <2>1. CASE events' = events /\ ex'.unsent = ex.unsent \cup F
    BY <2>1, <1>0, <1>11
  <2>2. CASE /\ events' = Append(events, [kind |-> "outcomes", list |-> ex.unsent \cup F])
             /\ ex'.unsent = {}
    <3> DEFINE un == ex.unsent \cup F
    <3> DEFINE rep == rm.report
    <3> DEFINE ev2 == events'
    <3>1. un \in SUBSET Outcome /\ rep \in SUBSET Outcome /\ Distinct(rep, events, un)
      BY <1>0, <1>2, <1>11
    <3>2. ev2 = Posted(events, un)
      BY <2>2 DEF Posted
    <3> HIDE DEF un, rep, ev2
    <3>3. ev2 \in Seq(Event) /\ Distinct(rep, ev2, {}) /\ Outs(rep, ev2, {}) = Outs(rep, events, un)
      BY <1>0, <3>1, <3>2, FlowPost
    <3>4. NoEnd(ev2)
      BY <1>0, <3>1, <3>2, NoEndAppended
    <3> QED BY <2>2, <3>3, <3>4, <1>11 DEF un, rep, ev2
  <2> QED BY <1>1, <2>1, <2>2
<1>13. NodesOf(Outs(rm.report, events', ex'.unsent)) = NodesOf(Outs(rm.report, events, ex.unsent)) \cup NodesOf(F)
  BY <1>12, NodesOfUnion
<1>14. NodesOf(Outs(rm.report, events, ex.unsent)) = {n \in Nodes : ex.recorded[n] # None}
  BY DEF Flow
<1>15. NodesOf(Outs(rm.report, events', ex'.unsent)) = {n \in Nodes : rec2[n] # None}
  BY <1>3, <1>13, <1>14
<1>16. \A o \in Outs(rm.report, events', ex'.unsent) : Honest(o, removed)
  BY <1>2, <1>12 DEF Flow
<1>17. NodesOf(Outs(rm.report, events', ex'.unsent)) \subseteq Indexed /\ rm.count = Cardinality(rm.report)
  BY <1>2, <1>13 DEF Flow
<1>18. rm' = rm /\ removed' = removed /\ Indexed' = Indexed
  BY DEF Indexed
<1>19. Flow'
  BY <1>7, <1>12, <1>15, <1>16, <1>17, <1>18 DEF Flow
<1> QED BY <1>7, <1>9, <1>12, <1>19 DEF Noted

-----------------------------------------------------------------------------
(* The state of a thread that runs.                                        *)

LEMMA IndexedIs == Indexed \in SUBSET (Nodes \ {Root}) /\ (idx' = idx => Indexed' = Indexed)
BY DEF Indexed

LEMMA Running ==
    ASSUME RInv, NEW x \in Dirs, w[x].pc \notin {"idle", "done"}
    PROVE  /\ ex.phase = "run" /\ rm.phase = "delete" /\ NoEnd(events) /\ w[Root].pc # "idle"
           /\ w[x] \in Walker /\ Neat(x, w[x], Indexed) /\ (x # Root => x \in Indexed)
           /\ ex \in Executing /\ ex.recorded \in [Nodes -> Kinds \cup {None}]
           /\ Working(w, Indexed, ex.recorded, removed) /\ removed \in SUBSET Nodes
           /\ \A n \in Ahead(x, w[x], Indexed) : ex.recorded[n] = None /\ n \notin removed
           /\ \A o \in w[x].results : ex.recorded[o.node] = None /\ Honest(o, removed)
<1>1. ex.phase = "run"
  BY DEF RInv, Stages
<1>2. rm.phase = "delete" /\ w[Root].pc # "idle"
  BY <1>1 DEF RInv, Stages
<1>3. NoEnd(events)
  BY <1>1 DEF RInv, Stages, NoEnd
<1>4. ex \in Executing /\ ex.recorded \in [Nodes -> Kinds \cup {None}] /\ removed \in SUBSET Nodes
  BY DEF RInv, DelTypes, Executing
<1>5. Working(w, Indexed, ex.recorded, removed)
  BY DEF RInv
<1>6. w[x] \in Walker /\ Neat(x, w[x], Indexed) /\ (x # Root => x \in Indexed)
  BY <1>5 DEF Working, Walks, Spawned
<1>7. \A n \in Ahead(x, w[x], Indexed) : ex.recorded[n] = None /\ n \notin removed
  BY <1>5 DEF Working, StillAhead
<1>8. \A o \in w[x].results : ex.recorded[o.node] = None /\ Honest(o, removed)
  BY <1>5 DEF Working, Results
<1> QED BY <1>1, <1>2, <1>3, <1>4, <1>5, <1>6, <1>7, <1>8

\* What a thread owns: all it can reach when it is not the group, and what
\* the group has in hand.
LEMMA OwnHas ==
    ASSUME RInv, NEW x \in Dirs, w[x].pc \notin {"idle", "done"}
    PROVE  /\ w[x].batch \subseteq Own(x, Indexed) /\ NodesOf(w[x].results) \subseteq Own(x, Indexed)
           /\ x # Root => Ahead(x, w[x], Indexed) \subseteq Own(x, Indexed)
<1>1. w[x] \in Walker /\ Neat(x, w[x], Indexed) /\ (x # Root => x \in Indexed)
  BY Running
<1>2. Indexed \in SUBSET (Nodes \ {Root})
  BY IndexedIs
<1>3. CASE x = Root
  <2>1. Neat(Root, w[Root], Indexed) /\ w[Root] \in Walker
    BY <1>1, <1>3
  <2>2. /\ NodesOf(w[Root].results) \subseteq Members(Indexed, Root) \ Dirs
        /\ w[Root].pc \in {"walk", "remove"} => w[Root].batch \subseteq Members(Indexed, Root) \ Dirs
    BY <2>1, <1>2, GroupWithin
  <2>3. w[Root].pc \in {"walk", "remove"}
    BY <1>3, <2>1, WalkerIs DEF Neat
  <2> QED BY <1>3, <2>2, <2>3 DEF Own
<1>4. CASE x # Root
  <2>1. Ahead(x, w[x], Indexed) \cup NodesOf(w[x].results) \subseteq Territory(Indexed, x)
    BY <1>1, <1>2, <1>4, WalkWithin
  <2>2. ASSUME NEW n \in w[x].batch PROVE n \in Ahead(x, w[x], Indexed)
    <3>1. w[x].pc \in {"walk", "remove"}
      BY <2>2, <1>1, WalkerIs DEF Neat
    <3>2. n # Root
      BY <3>1, <2>2, <1>1, <1>2 DEF Neat, Batched, Members
    <3> QED BY <3>1, <3>2, <2>2, AheadHas
  <2> QED BY <1>4, <2>1, <2>2 DEF Own
<1> QED BY <1>3, <1>4

LEMMA ThreadStep ==
    ASSUME RInv, NEW x \in Dirs, w[x].pc \notin {"idle", "done"}, NEW r \in Walker, w' = [w EXCEPT ![x] = r],
           NEW Z \in SUBSET Own(x, Indexed), Shifted(x, w[x], r, Indexed, Z),
           Reported(w[x], r, Z, ex.recorded, ex'.recorded, removed, removed'),
           ex' \in Executing, ex'.phase = ex.phase, events' \in Seq(Event), NoEnd(events'), Flow', Kept',
           fs' \in [Nodes -> Places], removed' \subseteq Nodes, UNCHANGED <<scanVars, rm>>
    PROVE  RInv'
<1>1. /\ ex.phase = "run" /\ rm.phase = "delete" /\ w[Root].pc # "idle" /\ removed \in SUBSET Nodes
      /\ Working(w, Indexed, ex.recorded, removed)
  BY Running
<1>2. Working([w EXCEPT ![x] = r], Indexed, ex'.recorded, removed')
  <2> DEFINE gone2 == removed'
  <2> DEFINE rec == ex.recorded
  <2> DEFINE rec2 == ex'.recorded
  <2> DEFINE I == Indexed
  <2>1. /\ I \in SUBSET (Nodes \ {Root}) /\ Working(w, I, rec, removed) /\ w[x].pc # "idle"
        /\ gone2 \in SUBSET Nodes /\ Z \in SUBSET Own(x, I) /\ Shifted(x, w[x], r, I, Z)
        /\ Reported(w[x], r, Z, rec, rec2, removed, gone2)
    BY <1>1, IndexedIs
  <2> HIDE DEF gone2, rec, rec2, I
  <2>2. Working([w EXCEPT ![x] = r], I, rec2, gone2)
    BY <1>1, <2>1, Advance
  <2> QED BY <2>2 DEF gone2, rec, rec2, I
<1>3. Working(w, Indexed, ex.recorded, removed)'
  BY <1>2, IndexedIs DEF scanVars
<1>4. w' \in [Dirs -> Walker]
  BY <1>3 DEF Working
<1>5. DelTypes'
  BY <1>4 DEF DelTypes, RInv, scanVars
<1>6. w'[Root].pc # "idle"
  BY <1>1, ScanAssumption DEF Shifted, RInv, DelTypes
<1>7. Stages'
  BY <1>1, <1>6 DEF Stages, NoEnd
<1> QED BY <1>3, <1>5, <1>7 DEF RInv

(* Steps that neither remove nor record.                                   *)
LEMMA QuietStep ==
    ASSUME RInv, NEW x \in Dirs, w[x].pc \notin {"idle", "done"}, NEW r \in Walker, w' = [w EXCEPT ![x] = r],
           Shifted(x, w[x], r, Indexed, {}), r.results = w[x].results,
           UNCHANGED <<scanVars, fs, ex, events, rm, removed>>
    PROVE  RInv'
<1>1. /\ ex.phase = "run" /\ NoEnd(events)
      /\ \A o \in w[x].results : ex.recorded[o.node] = None /\ Honest(o, removed)
  BY Running
<1>2. Reported(w[x], r, {}, ex.recorded, ex'.recorded, removed, removed')
  BY <1>1 DEF Reported
<1>3. Flow'
  BY <1>1, IndexedIs DEF RInv, Flow, scanVars
<1>4. Kept'
  BY DEF RInv, Kept, InPlace
<1>5. ex' \in Executing /\ events' \in Seq(Event) /\ fs' \in [Nodes -> Places] /\ removed' \subseteq Nodes /\ NoEnd(events')
  BY <1>1 DEF RInv, DelTypes
<1>6. {} \in SUBSET Own(x, Indexed) /\ ex'.phase = ex.phase
  OBVIOUS
<1> QED BY <1>2, <1>3, <1>4, <1>5, <1>6, ThreadStep

(* Steps that record O.                                                    *)
LEMMA RecordStep ==
    ASSUME RInv, NEW x \in Dirs, w[x].pc \notin {"idle", "done"}, NEW r \in Walker, w' = [w EXCEPT ![x] = r],
           NEW O \in SUBSET Outcome, Unique(O), NodesOf(O) \subseteq Indexed, NodesOf(O) \subseteq Own(x, Indexed),
           \A o \in O : ex.recorded[o.node] = None => Honest(o, removed), Record(O),
           Shifted(x, w[x], r, Indexed, NodesOf(O)), r.results = {}, NodesOf(w[x].results) \subseteq NodesOf(O),
           UNCHANGED <<scanVars, fs, rm, removed>>
    PROVE  RInv'
<1>1. ex.phase = "run" /\ NoEnd(events)
  BY Running
<1>2. DelTypes /\ Flow /\ UNCHANGED <<idx, rm, removed>>
  BY DEF RInv, scanVars
<1>3. Noted(O)
  BY <1>1, <1>2, RecordNotes
<1>4. Reported(w[x], r, NodesOf(O), ex.recorded, ex'.recorded, removed, removed')
  BY <1>3 DEF Reported, Noted
<1>5. Kept'
  BY <1>3 DEF RInv, Kept, InPlace, Noted
<1>6. /\ ex' \in Executing /\ events' \in Seq(Event) /\ fs' \in [Nodes -> Places] /\ removed' \subseteq Nodes
      /\ NoEnd(events') /\ ex'.phase = ex.phase /\ Flow'
  BY <1>3 DEF RInv, DelTypes, Noted
<1>7. NodesOf(O) \in SUBSET Own(x, Indexed) /\ UNCHANGED <<scanVars, rm>>
  OBVIOUS
<1> QED BY <1>4, <1>5, <1>6, <1>7, ThreadStep

\* One entry's removal.
Removes(n, res) ==
    /\ fs' = [fs EXCEPT ![n] = res.left]
    /\ ex' = [ex EXCEPT !.recovery = @ \/ res.recovery]
    /\ removed' = removed \cup (IF res.kind \in {"deleted", "unsynced"} THEN {n} ELSE {})

LEMMA RemoveResultsAre ==
    ASSUME NEW n \in Nodes, fs \in [Nodes -> Places], NEW res \in RemoveResults(n)
    PROVE  /\ res.kind \in Kinds /\ res.left \in Places /\ res.recovery \in BOOLEAN
           /\ res.left = "held" => fs[n] = "held" \/ res.recovery = TRUE
           /\ res.left \in {"here", "other"} => res.left = fs[n]
           /\ n \in Dirs /\ fs[n] = "here" /\ Occupied(n) => res.left = "here"
<1>1. fs[n] \in {"here", "other", "gone", "held"}
  BY DEF Places
<1>2. CASE fs[n] \in {"gone", "held"}
  <2>1. res = [kind |-> "absent", left |-> fs[n], recovery |-> FALSE]
    BY <1>2 DEF RemoveResults
  <2>2. res.kind = "absent" /\ res.left = fs[n] /\ res.recovery = FALSE
    BY <2>1
  <2> QED BY <1>2, <2>2 DEF Kinds, Places
<1>3. CASE fs[n] = "other"
  <2>1. res = [kind |-> "changed", left |-> "other", recovery |-> FALSE]
    BY <1>3 DEF RemoveResults
  <2>2. res.kind = "changed" /\ res.left = "other" /\ res.recovery = FALSE
    BY <2>1
  <2> QED BY <1>3, <2>2 DEF Kinds, Places
<1>4. CASE fs[n] = "here" /\ n \in Dirs /\ Occupied(n)
  <2>1. res = [kind |-> "failed", left |-> "here", recovery |-> FALSE]
    BY <1>4 DEF RemoveResults
  <2>2. res.kind = "failed" /\ res.left = "here" /\ res.recovery = FALSE
    BY <2>1
  <2> QED BY <1>4, <2>2 DEF Kinds, Places
<1>5. CASE fs[n] = "here" /\ ~ (n \in Dirs /\ Occupied(n))
  <2>1. res \in {[kind |-> "deleted", left |-> "gone", recovery |-> FALSE]}
            \cup (IF Stopped THEN {[kind |-> IF n \in Dirs THEN "failed" ELSE "cancelled",
                                    left |-> "here", recovery |-> FALSE]} ELSE {})
            \cup (IF n \in Faulty THEN {[kind |-> "failed", left |-> "held", recovery |-> TRUE],
                                        [kind |-> "unsynced", left |-> "gone", recovery |-> TRUE]} ELSE {})
    BY <1>5 DEF RemoveResults
  <2>2. \/ res = [kind |-> "deleted", left |-> "gone", recovery |-> FALSE]
        \/ res = [kind |-> "failed", left |-> "here", recovery |-> FALSE]
        \/ res = [kind |-> "cancelled", left |-> "here", recovery |-> FALSE]
        \/ res = [kind |-> "failed", left |-> "held", recovery |-> TRUE]
        \/ res = [kind |-> "unsynced", left |-> "gone", recovery |-> TRUE]
    BY <2>1
  <2>3. /\ res.kind \in {"deleted", "failed", "cancelled", "unsynced"} /\ res.left \in {"here", "gone", "held"}
        /\ res.recovery \in BOOLEAN
        /\ res.left = "held" => res.recovery = TRUE
    <3>1. CASE res = [kind |-> "deleted", left |-> "gone", recovery |-> FALSE]
      BY <3>1
    <3>2. CASE res = [kind |-> "failed", left |-> "here", recovery |-> FALSE]
      BY <3>2
    <3>3. CASE res = [kind |-> "cancelled", left |-> "here", recovery |-> FALSE]
      BY <3>3
    <3>4. CASE res = [kind |-> "failed", left |-> "held", recovery |-> TRUE]
      BY <3>4
    <3>5. CASE res = [kind |-> "unsynced", left |-> "gone", recovery |-> TRUE]
      BY <3>5
    <3> QED BY <2>2, <3>1, <3>2, <3>3, <3>4, <3>5
  <2> QED BY <1>5, <2>3 DEF Kinds, Places
<1> QED BY <1>1, <1>2, <1>3, <1>4, <1>5

(* Only what is not occupied is vacated.                                   *)
LEMMA RemovesKeeps ==
    ASSUME RInv, ex.phase = "run", rm.phase = "delete", NEW n \in Nodes \ {Root}, NEW res \in RemoveResults(n),
           Removes(n, res), rm' = rm
    PROVE  /\ Kept' /\ fs' \in [Nodes -> Places]
           /\ ex' \in Executing /\ ex'.phase = ex.phase
           /\ ex'.recorded = ex.recorded /\ ex'.unsent = ex.unsent
<1>0. fs \in [Nodes -> Places] /\ ex \in Executing /\ ex.recovery \in BOOLEAN /\ Kept
  BY DEF RInv, DelTypes, Executing
<1>1. /\ res.kind \in Kinds /\ res.left \in Places /\ res.recovery \in BOOLEAN
      /\ res.left = "held" => fs[n] = "held" \/ res.recovery = TRUE
      /\ res.left \in {"here", "other"} => res.left = fs[n]
      /\ n \in Dirs /\ fs[n] = "here" /\ Occupied(n) => res.left = "here"
  BY <1>0, RemoveResultsAre
<1>2. /\ fs' \in [Nodes -> Places] /\ fs'[n] = res.left
      /\ \A m \in Nodes : m # n => fs'[m] = fs[m]
  BY <1>0, <1>1 DEF Removes
<1>3. /\ ex' \in Executing /\ ex'.phase = ex.phase /\ ex'.recorded = ex.recorded /\ ex'.unsent = ex.unsent
      /\ ex'.recovery = (ex.recovery \/ res.recovery)
  BY <1>0, <1>1 DEF Removes, Executing
<1>4. ASSUME NEW m \in InPlace' \ {Root} PROVE fs'[Parent[m]] = "here"
  <2>1. m \in Nodes /\ fs'[m] \in {"here", "other"} /\ Parent[m] \in Dirs /\ Parent[m] \in Nodes
    BY ScanAssumption DEF InPlace
  <2>2. fs[m] \in {"here", "other"}
    BY <1>1, <1>2, <2>1
  <2>3. fs[Parent[m]] = "here"
    BY <1>0, <2>1, <2>2 DEF Kept, InPlace
  <2>4. CASE Parent[m] # n
    BY <1>2, <2>1, <2>3, <2>4
  <2>5. CASE Parent[m] = n
    <3>1. Occupied(n)
      BY <2>1, <2>2, <2>5 DEF Occupied
    <3> QED BY <1>1, <1>2, <2>1, <2>3, <2>5, <3>1
  <2> QED BY <2>4, <2>5
<1>5. ASSUME NEW m \in Nodes, fs'[m] = "held" PROVE ex'.recovery
  BY <1>0, <1>1, <1>2, <1>3, <1>5 DEF Kept
<1>6. fs'[Root] = "here"
  BY <1>0, <1>2, ScanAssumption DEF Kept
<1>7. rm'.result = "ok" => rm'.phase = "over" /\ ~ rm'.error
  BY <1>0 DEF Kept
<1>8. Kept'
  BY <1>4, <1>5, <1>6, <1>7 DEF Kept
<1> QED BY <1>2, <1>3, <1>8

(* Steps that remove one entry.                                            *)
LEMMA RemoveStep ==
    ASSUME RInv, NEW x \in Dirs, w[x].pc \notin {"idle", "done"}, NEW r \in Walker, w' = [w EXCEPT ![x] = r],
           NEW n \in Ahead(x, w[x], Indexed), n \in Own(x, Indexed), n \in Nodes \ {Root},
           NEW res \in RemoveResults(n), Removes(n, res),
           Shifted(x, w[x], r, Indexed, {n}), r.results = w[x].results \cup {[node |-> n, kind |-> res.kind]},
           n \notin NodesOf(w[x].results), UNCHANGED <<scanVars, events, rm>>
    PROVE  RInv'
<1>1. /\ ex.phase = "run" /\ rm.phase = "delete" /\ NoEnd(events) /\ removed \in SUBSET Nodes
      /\ \A o \in w[x].results : ex.recorded[o.node] = None /\ Honest(o, removed)
      /\ ex.recorded[n] = None /\ n \notin removed
  BY Running
<1>2. /\ Kept' /\ fs' \in [Nodes -> Places]
      /\ ex' \in Executing /\ ex'.phase = ex.phase
      /\ ex'.recorded = ex.recorded /\ ex'.unsent = ex.unsent
  BY <1>1, RemovesKeeps
<1>3. /\ removed \subseteq removed' /\ removed' \subseteq removed \cup {n}
      /\ n \in removed' <=> res.kind \in {"deleted", "unsynced"}
  BY <1>1 DEF Removes
<1>4. ASSUME NEW o \in r.results PROVE ex'.recorded[o.node] = None /\ Honest(o, removed')
  <2>1. CASE o \in w[x].results
    <3>1. o.node # n
      BY <2>1 DEF NodesOf
    <3> QED BY <1>1, <1>2, <1>3, <2>1, <3>1 DEF Honest
  <2>2. CASE o = [node |-> n, kind |-> res.kind]
    <3>1. o.node = n /\ o.kind = res.kind
      BY <2>2
    <3> QED BY <1>1, <1>2, <1>3, <3>1 DEF Honest
  <2> QED BY <2>1, <2>2
<1>5. NodesOf(r.results) = NodesOf(w[x].results) \cup {n}
  <2>1. NodesOf({[node |-> n, kind |-> res.kind]}) = {n}
    BY DEF NodesOf
  <2> QED BY <2>1, NodesOfUnion
<1>6. Reported(w[x], r, {n}, ex.recorded, ex'.recorded, removed, removed')
  BY <1>2, <1>3, <1>4, <1>5 DEF Reported
<1>7. Flow'
  <2>1. Flow /\ rm' = rm /\ events' = events /\ Indexed' = Indexed
    BY IndexedIs DEF RInv, scanVars
  <2>2. ASSUME NEW o \in Outs(rm.report, events, ex.unsent) PROVE Honest(o, removed')
    <3>1. Honest(o, removed) /\ o.node \in NodesOf(Outs(rm.report, events, ex.unsent))
      BY <2>1 DEF Flow, NodesOf
    <3>2. o.node # n
      BY <1>1, <2>1, <3>1 DEF Flow
    <3> QED BY <1>3, <3>1, <3>2 DEF Honest
  <2> QED BY <1>1, <1>2, <2>1, <2>2 DEF Flow
<1>8. removed' \subseteq Nodes /\ events' \in Seq(Event) /\ NoEnd(events') /\ {n} \in SUBSET Own(x, Indexed)
      /\ UNCHANGED <<scanVars, rm>>
  BY <1>1, <1>3 DEF RInv, DelTypes
<1> QED BY <1>2, <1>6, <1>7, <1>8, ThreadStep

-----------------------------------------------------------------------------
(* The actions of a thread.                                                *)

Rec(pc, s, b, res) == [pc |-> pc, stack |-> s, batch |-> b, results |-> res]

LEMMA RecIs ==
    ASSUME NEW pc \in {"idle", "enter", "walk", "remove", "record", "done"}, NEW s \in Seq(Frame),
           NEW b \in SUBSET Nodes, NEW res \in SUBSET Outcome
    PROVE  /\ Rec(pc, s, b, res) \in Walker
           /\ Rec(pc, s, b, res).pc = pc /\ Rec(pc, s, b, res).stack = s
           /\ Rec(pc, s, b, res).batch = b /\ Rec(pc, s, b, res).results = res
BY DEF Rec, Walker

\* The updates that the actions make of a thread.
SetPc(u, pc) == [u EXCEPT !.pc = pc]
SetFile(u, s, b, pc) == [u EXCEPT !.stack = s, !.batch = b, !.pc = pc]
SetBatch(u, b, res) == [u EXCEPT !.batch = b, !.results = res]
SetResults(u, pc, res) == [u EXCEPT !.pc = pc, !.results = res]
SetStack(u, pc, s) == [u EXCEPT !.pc = pc, !.stack = s]
SetOuter(u, pc, s, res) == [u EXCEPT !.pc = pc, !.stack = s, !.results = res]

LEMMA RecExcept ==
    ASSUME NEW u \in Walker, NEW pc, NEW s, NEW b, NEW res
    PROVE  /\ SetPc(u, pc) = Rec(pc, u.stack, u.batch, u.results)
           /\ SetFile(u, s, b, pc) = Rec(pc, s, b, u.results)
           /\ SetBatch(u, b, res) = Rec(u.pc, u.stack, b, res)
           /\ SetResults(u, pc, res) = Rec(pc, u.stack, u.batch, res)
           /\ SetStack(u, pc, s) = Rec(pc, s, u.batch, u.results)
           /\ SetOuter(u, pc, s, res) = Rec(pc, s, u.batch, res)
<1> DEFINE p0 == u.pc
<1> DEFINE s0 == u.stack
<1> DEFINE b0 == u.batch
<1> DEFINE q0 == u.results
<1>1. u = Rec(p0, s0, b0, q0)
  BY DEF Walker, Rec
<1> HIDE DEF p0, s0, b0, q0
<1>2. SetPc(u, pc) = Rec(pc, s0, b0, q0)
  BY <1>1 DEF Rec, SetPc
<1>3. SetFile(u, s, b, pc) = Rec(pc, s, b, q0)
  <2> DEFINE u1 == [u EXCEPT !.stack = s]
  <2>1. u1 = Rec(p0, s, b0, q0)
    BY <1>1 DEF Rec
  <2> HIDE DEF u1
  <2> DEFINE u2 == [u1 EXCEPT !.batch = b]
  <2>2. u2 = Rec(p0, s, b, q0)
    BY <2>1 DEF Rec
  <2> HIDE DEF u2
  <2>3. SetFile(u, s, b, pc) = [u2 EXCEPT !.pc = pc]
    BY <1>1 DEF Rec, SetFile, u1, u2
  <2>4. [u2 EXCEPT !.pc = pc] = Rec(pc, s, b, q0)
    BY <2>2 DEF Rec
  <2> QED BY <2>3, <2>4
<1>4. SetBatch(u, b, res) = Rec(p0, s0, b, res)
  <2> DEFINE u1 == [u EXCEPT !.batch = b]
  <2>1. u1 = Rec(p0, s0, b, q0)
    BY <1>1 DEF Rec
  <2> HIDE DEF u1
  <2>2. SetBatch(u, b, res) = [u1 EXCEPT !.results = res]
    BY <1>1 DEF Rec, SetBatch, u1
  <2>3. [u1 EXCEPT !.results = res] = Rec(p0, s0, b, res)
    BY <2>1 DEF Rec
  <2> QED BY <2>2, <2>3
<1>5. SetResults(u, pc, res) = Rec(pc, s0, b0, res)
  <2> DEFINE u1 == [u EXCEPT !.pc = pc]
  <2>1. u1 = Rec(pc, s0, b0, q0)
    BY <1>1 DEF Rec
  <2> HIDE DEF u1
  <2>2. SetResults(u, pc, res) = [u1 EXCEPT !.results = res]
    BY <1>1 DEF Rec, SetResults, u1
  <2>3. [u1 EXCEPT !.results = res] = Rec(pc, s0, b0, res)
    BY <2>1 DEF Rec
  <2> QED BY <2>2, <2>3
<1>6. SetStack(u, pc, s) = Rec(pc, s, b0, q0)
  <2> DEFINE u1 == [u EXCEPT !.pc = pc]
  <2>1. u1 = Rec(pc, s0, b0, q0)
    BY <1>1 DEF Rec
  <2> HIDE DEF u1
  <2>2. SetStack(u, pc, s) = [u1 EXCEPT !.stack = s]
    BY <1>1 DEF Rec, SetStack, u1
  <2>3. [u1 EXCEPT !.stack = s] = Rec(pc, s, b0, q0)
    BY <2>1 DEF Rec
  <2> QED BY <2>2, <2>3
<1>7. SetOuter(u, pc, s, res) = Rec(pc, s, b0, res)
  <2> DEFINE u1 == [u EXCEPT !.pc = pc]
  <2>1. u1 = Rec(pc, s0, b0, q0)
    BY <1>1 DEF Rec
  <2> HIDE DEF u1
  <2> DEFINE u2 == [u1 EXCEPT !.stack = s]
  <2>2. u2 = Rec(pc, s, b0, q0)
    BY <2>1 DEF Rec
  <2> HIDE DEF u2
  <2>3. SetOuter(u, pc, s, res) = [u2 EXCEPT !.results = res]
    BY <1>1 DEF Rec, SetOuter, u1, u2
  <2>4. [u2 EXCEPT !.results = res] = Rec(pc, s, b0, res)
    BY <2>2 DEF Rec
  <2> QED BY <2>3, <2>4
<1> QED BY <1>2, <1>3, <1>4, <1>5, <1>6, <1>7 DEF p0, s0, b0, q0

LEMMA Fields ==
    ASSUME RInv, NEW x \in Dirs
    PROVE  /\ w \in [Dirs -> Walker] /\ w[x] \in Walker
           /\ w[x].pc \in {"idle", "enter", "walk", "remove", "record", "done"}
           /\ w[x].stack \in Seq(Frame) /\ w[x].batch \in SUBSET Nodes /\ w[x].results \in SUBSET Outcome
           /\ w[x] = Rec(w[x].pc, w[x].stack, w[x].batch, w[x].results)
BY DEF RInv, DelTypes, Walker, Rec

LEMMA TopLast == ASSUME NEW x PROVE Top(x) = Last(w[x].stack)
BY DEF Top, Last

LEMMA StopWalkKeeps ==
    ASSUME RInv, NEW x \in Dirs, StopWalk(x)
    PROVE  RInv'
<1> DEFINE r == Rec("done", w[x].stack, w[x].batch, w[x].results)
<1>1. w[x].pc \in {"enter", "walk"} /\ w[x].pc \notin {"idle", "done"}
      /\ UNCHANGED <<scanVars, fs, ex, events, rm, removed>>
  BY DEF StopWalk
<1>2. r \in Walker /\ r.pc = "done" /\ r.results = w[x].results
  BY Fields, RecIs
<1>3. w' = [w EXCEPT ![x] = r]
  <2>1. w' = [w EXCEPT ![x] = SetPc(w[x], "done")]
    BY Fields DEF StopWalk, SetPc
  <2> QED BY <2>1, Fields, RecExcept
<1>4. w[x].results = {}
  BY <1>1, Running DEF Neat
<1> HIDE DEF r
<1>5. Shifted(x, w[x], r, Indexed, {})
  BY <1>2, <1>4, MoveStop
<1> QED BY <1>1, <1>2, <1>3, <1>5, QuietStep

LEMMA GroupDoneKeeps ==
    ASSUME RInv, GroupDone
    PROVE  RInv'
<1> DEFINE r == Rec("done", w[Root].stack, w[Root].batch, w[Root].results)
<1>0. Root \in Dirs
  BY ScanAssumption
<1>1. w[Root].pc = "walk" /\ w[Root].pc \notin {"idle", "done"}
      /\ UNCHANGED <<scanVars, fs, ex, events, rm, removed>>
  BY DEF GroupDone
<1>2. r \in Walker /\ r.pc = "done" /\ r.results = w[Root].results
  BY <1>0, Fields, RecIs
<1>3. w' = [w EXCEPT ![Root] = r]
  <2>1. w' = [w EXCEPT ![Root] = SetPc(w[Root], "done")]
    BY <1>0, Fields DEF GroupDone, SetPc
  <2> QED BY <2>1, <1>0, Fields, RecExcept
<1>4. w[Root].results = {}
  BY <1>0, <1>1, Running DEF Neat
<1> HIDE DEF r
<1>5. Shifted(Root, w[Root], r, Indexed, {})
  BY <1>2, <1>4, MoveStop
<1> QED BY <1>0, <1>1, <1>2, <1>3, <1>5, QuietStep

LEMMA TakeFileKeeps ==
    ASSUME RInv, NEW x \in Dirs, TakeFile(x)
    PROVE  RInv'
<1>1. w[x].pc = "walk" /\ w[x].pc \notin {"idle", "done"}
      /\ UNCHANGED <<scanVars, fs, ex, events, rm, removed>>
  BY DEF TakeFile, Walking
<1>2. PICK n \in Files(Top(x).todo) :
          w' = [w EXCEPT ![x].stack[Len(w[x].stack)].todo = @ \ {n},
                         ![x].batch = @ \cup {n},
                         ![x].pc = IF Cardinality(w[x].batch) + 1 >= DeleteBatch THEN "remove" ELSE "walk"]
  BY DEF TakeFile
<1> DEFINE full == Cardinality(w[x].batch) + 1 >= DeleteBatch
<1> DEFINE pc2 == IF full THEN "remove" ELSE "walk"
<1> DEFINE s2 == Less(w[x].stack, n)
<1> DEFINE b2 == w[x].batch \cup {n}
<1> DEFINE r == Rec(pc2, s2, b2, w[x].results)
<1>3. n \in Last(w[x].stack).todo \ Dirs
  BY <1>2, TopLast DEF Files
<1>4. w[x] \in Walker /\ Neat(x, w[x], Indexed)
  BY <1>1, Running
<1>5. /\ w[x].stack \in Seq(Frame) /\ w[x].stack # <<>>
      /\ Last(w[x].stack).todo \subseteq Members(Indexed, Last(w[x].stack).node)
  BY <1>1, <1>4, TopIs, IndexedIs
<1>6. n \in Nodes /\ s2 \in Seq(Frame)
  BY <1>3, <1>5, LessIs DEF Members, Indexed
<1>7. pc2 \in {"walk", "remove"} /\ pc2 \in {"idle", "enter", "walk", "remove", "record", "done"}
  OBVIOUS
<1>8. b2 \in SUBSET Nodes /\ w[x].results \in SUBSET Outcome
  BY <1>6, Fields
<1>9. w' = [w EXCEPT ![x] = r]
  <2>1. w' = [w EXCEPT ![x] = SetFile(w[x], s2, b2, pc2)]
    BY <1>2, Fields DEF Less, SetFile
  <2> HIDE DEF s2, b2, pc2
  <2>2. SetFile(w[x], s2, b2, pc2) = r
    BY <1>4, RecExcept
  <2> QED BY <2>1, <2>2
<1> HIDE DEF full, pc2
<1>10. r \in Walker /\ r.pc \in {"walk", "remove"} /\ r.stack = s2 /\ r.batch = b2 /\ r.results = w[x].results
  <2> HIDE DEF s2, b2
  <2> QED BY <1>6, <1>7, <1>8, RecIs
<1> HIDE DEF r
<1>11. Shifted(x, w[x], r, Indexed, {})
  BY <1>1, <1>3, <1>4, <1>10, IndexedIs, MoveTake
<1> QED BY <1>1, <1>9, <1>10, <1>11, QuietStep

LEMMA FlushBatchKeeps ==
    ASSUME RInv, NEW x \in Dirs, FlushBatch(x)
    PROVE  RInv'
<1> DEFINE r == Rec("remove", w[x].stack, w[x].batch, w[x].results)
<1>1. w[x].pc = "walk" /\ w[x].pc \notin {"idle", "done"}
      /\ UNCHANGED <<scanVars, fs, ex, events, rm, removed>>
  BY DEF FlushBatch
<1>2. r \in Walker /\ r.pc = "remove" /\ r.stack = w[x].stack /\ r.batch = w[x].batch /\ r.results = w[x].results
  BY Fields, RecIs
<1>3. w' = [w EXCEPT ![x] = r]
  <2>1. w' = [w EXCEPT ![x] = SetPc(w[x], "remove")]
    BY Fields DEF FlushBatch, SetPc
  <2> QED BY <2>1, Fields, RecExcept
<1>4. w[x] \in Walker /\ Neat(x, w[x], Indexed)
  BY <1>1, Running
<1> HIDE DEF r
<1>5. Shifted(x, w[x], r, Indexed, {})
  BY <1>1, <1>2, <1>4, IndexedIs, MoveFlush
<1> QED BY <1>1, <1>2, <1>3, <1>5, QuietStep

LEMMA RemoveFileKeeps ==
    ASSUME RInv, NEW x \in Dirs, RemoveFile(x)
    PROVE  RInv'
<1>1. w[x].pc = "remove" /\ w[x].pc \notin {"idle", "done"} /\ UNCHANGED <<scanVars, events, rm>>
  BY DEF RemoveFile
<1>a. PICK n \in w[x].batch : \E res \in RemoveResults(n) :
          /\ Removes(n, res)
          /\ w' = [w EXCEPT ![x].batch = @ \ {n}, ![x].results = @ \cup {[node |-> n, kind |-> res.kind]}]
  BY DEF RemoveFile, Removes
<1>2. PICK res \in RemoveResults(n) :
          /\ Removes(n, res)
          /\ w' = [w EXCEPT ![x].batch = @ \ {n}, ![x].results = @ \cup {[node |-> n, kind |-> res.kind]}]
  BY <1>a
<1>3. w[x] \in Walker /\ Neat(x, w[x], Indexed)
  BY <1>1, Running
<1>4. n \in Nodes \ {Root} /\ n \in Indexed /\ n \notin NodesOf(w[x].results)
  BY <1>1, <1>3, IndexedIs DEF Neat, Batched, Members
<1>5. n \in Ahead(x, w[x], Indexed)
  BY <1>1, <1>4, AheadHas
<1>6. n \in Own(x, Indexed)
  BY <1>1, OwnHas
<1> DEFINE o == [node |-> n, kind |-> res.kind]
<1> DEFINE b2 == w[x].batch \ {n}
<1> DEFINE res2 == w[x].results \cup {o}
<1> DEFINE r == Rec(w[x].pc, w[x].stack, b2, res2)
<1>7. o \in Outcome /\ o.node = n
  <2>1. res.kind \in Kinds
    BY <1>4, RemoveResultsAre DEF RInv, DelTypes
  <2> QED BY <1>4, <2>1 DEF Outcome
<1>8. w' = [w EXCEPT ![x] = r]
  <2>1. w' = [w EXCEPT ![x] = SetBatch(w[x], b2, res2)]
    BY <1>2, Fields DEF SetBatch
  <2> HIDE DEF b2, res2
  <2>2. SetBatch(w[x], b2, res2) = r
    BY <1>3, RecExcept
  <2> QED BY <2>1, <2>2
<1>9. b2 \in SUBSET Nodes /\ res2 \in SUBSET Outcome
  BY <1>7, Fields
<1>10. r \in Walker /\ r.pc = "remove" /\ r.stack = w[x].stack /\ r.batch = b2 /\ r.results = res2
  <2> HIDE DEF b2, res2
  <2> QED BY <1>1, <1>9, Fields, RecIs
<1> HIDE DEF r
<1>11. Shifted(x, w[x], r, Indexed, {n})
  <2>1. r.batch = w[x].batch \ {n} /\ r.results = w[x].results \cup {o} /\ r.pc = "remove" /\ r.stack = w[x].stack
    BY <1>10
  <2> HIDE DEF o
  <2> QED BY <1>1, <1>3, <1>7, <1>10, <2>1, IndexedIs, MoveRemove
<1>12. r.results = w[x].results \cup {[node |-> n, kind |-> res.kind]}
  BY <1>10
<1> QED BY <1>1, <1>2, <1>4, <1>5, <1>6, <1>8, <1>10, <1>11, <1>12, RemoveStep

LEMMA RecordBatchKeeps ==
    ASSUME RInv, NEW x \in Dirs, RecordBatch(x)
    PROVE  RInv'
<1> DEFINE O == w[x].results
<1> DEFINE r == Rec("walk", w[x].stack, w[x].batch, {})
<1>1. /\ w[x].pc = "remove" /\ w[x].pc \notin {"idle", "done"} /\ w[x].batch = {} /\ Record(O)
      /\ UNCHANGED <<scanVars, fs, rm, removed>>
  BY DEF RecordBatch
<1>2. w[x] \in Walker /\ Neat(x, w[x], Indexed) /\ \A o \in O : Honest(o, removed)
  BY <1>1, Running
<1>3. O \in SUBSET Outcome /\ Unique(O) /\ NodesOf(O) \subseteq Indexed
  BY <1>1, <1>2, Fields DEF Neat, Batched, Members
<1>4. NodesOf(O) \subseteq Own(x, Indexed)
  BY <1>1, OwnHas
<1>5. w' = [w EXCEPT ![x] = r]
  <2>1. w' = [w EXCEPT ![x] = SetResults(w[x], "walk", {})]
    BY Fields DEF SetResults, RecordBatch
  <2>2. SetResults(w[x], "walk", {}) = r
    BY <1>2, RecExcept
  <2> QED BY <2>1, <2>2
<1>6. r \in Walker /\ r.pc = "walk" /\ r.stack = w[x].stack /\ r.batch = w[x].batch /\ r.results = {}
  BY Fields, RecIs
<1> HIDE DEF r
<1>7. Shifted(x, w[x], r, Indexed, NodesOf(O))
  BY <1>1, <1>2, <1>6, IndexedIs, MoveRecorded
<1>8. NodesOf(w[x].results) \subseteq NodesOf(O)
  OBVIOUS
<1> HIDE DEF O
<1>9. \A o \in O : ex.recorded[o.node] = None => Honest(o, removed)
  BY <1>2
<1> QED BY <1>1, <1>3, <1>4, <1>5, <1>6, <1>7, <1>8, <1>9, RecordStep

LEMMA RemoveDirectoryKeeps ==
    ASSUME RInv, NEW x \in Dirs, RemoveDirectory(x)
    PROVE  RInv'
<1> DEFINE d == Last(w[x].stack).node
<1>1. /\ w[x].pc = "walk" /\ w[x].pc \notin {"idle", "done"} /\ w[x].batch = {} /\ x # Root
      /\ Last(w[x].stack).todo = {} /\ UNCHANGED <<scanVars, events, rm>>
  BY TopLast DEF RemoveDirectory, Exhausted, Walking
<1>2. PICK res \in RemoveResults(d) :
          /\ Removes(d, res)
          /\ w' = [w EXCEPT ![x].pc = "record", ![x].results = {[node |-> d, kind |-> res.kind]}]
  BY TopLast DEF RemoveDirectory, Removes
<1>3. w[x] \in Walker /\ Neat(x, w[x], Indexed) /\ x \in Indexed
  BY <1>1, Running
<1>4. /\ Descends(x, w[x].stack, Indexed) /\ d \in Nodes /\ DOMAIN w[x].stack = 1 .. Len(w[x].stack)
      /\ Len(w[x].stack) \in DOMAIN w[x].stack /\ Len(w[x].stack) \in Nat \ {0}
      /\ d \in Indexed \/ Len(w[x].stack) = 1
  BY <1>1, <1>3, TopIs, IndexedIs
<1>5. d \in Indexed /\ d \in Nodes \ {Root}
  <2>1. CASE Len(w[x].stack) = 1
    <3>1. d = x
      BY <1>4, <2>1 DEF Descends, Last
    <3> QED BY <1>1, <1>3, <1>4, <3>1
  <2>2. CASE d \in Indexed
    BY <2>2, IndexedIs
  <2> QED BY <1>4, <2>1, <2>2
<1>6. d \in Ahead(x, w[x], Indexed)
  <2>1. Depth(w[x]) = Len(w[x].stack) /\ Len(w[x].stack) \in 1 .. Depth(w[x])
    BY <1>1, <1>4 DEF Depth
  <2>2. d = w[x].stack[Len(w[x].stack)].node
    BY DEF Last
  <2> QED BY <1>1, <1>5, <2>1, <2>2, AheadHas
<1>7. d \in Own(x, Indexed)
  BY <1>1, <1>6, OwnHas
<1>8. w[x].results = {}
  BY <1>1, <1>3 DEF Neat
<1>9. res.kind \in Kinds
  BY <1>5, RemoveResultsAre DEF RInv, DelTypes
<1> DEFINE res2 == {[node |-> d, kind |-> res.kind]}
<1> DEFINE r == Rec("record", w[x].stack, w[x].batch, res2)
<1>10. w' = [w EXCEPT ![x] = r]
  <2>1. w' = [w EXCEPT ![x] = SetResults(w[x], "record", res2)]
    BY <1>2, Fields DEF SetResults
  <2> HIDE DEF res2
  <2>2. SetResults(w[x], "record", res2) = r
    BY <1>3, RecExcept
  <2> QED BY <2>1, <2>2
<1>11. res2 \in SUBSET Outcome
  BY <1>5, <1>9 DEF Outcome
<1>12. r \in Walker /\ r.pc = "record" /\ r.stack = w[x].stack /\ r.batch = w[x].batch /\ r.results = res2
  <2> HIDE DEF res2
  <2> QED BY <1>11, Fields, RecIs
<1> HIDE DEF r
<1>13. Shifted(x, w[x], r, Indexed, {d})
  <2> DEFINE k == res.kind
  <2>1. k \in Kinds /\ r.results = {[node |-> Last(w[x].stack).node, kind |-> k]}
    BY <1>9, <1>12
  <2> HIDE DEF k
  <2> QED BY <1>1, <1>3, <1>12, <2>1, IndexedIs, MoveRemoveDirectory
<1>14. r.results = w[x].results \cup {[node |-> d, kind |-> res.kind]} /\ d \notin NodesOf(w[x].results)
  BY <1>8, <1>12 DEF NodesOf
<1> HIDE DEF d
<1> QED BY <1>1, <1>2, <1>5, <1>6, <1>7, <1>10, <1>12, <1>13, <1>14, RemoveStep

LEMMA RecordDirectoryKeeps ==
    ASSUME RInv, NEW x \in Dirs, RecordDirectory(x)
    PROVE  RInv'
<1> DEFINE O == w[x].results
<1> DEFINE s2 == Popped(w[x].stack)
<1> DEFINE pc2 == IF s2 = <<>> THEN "done" ELSE "walk"
<1> DEFINE r == Rec(pc2, s2, w[x].batch, {})
<1>1. /\ w[x].pc = "record" /\ w[x].pc \notin {"idle", "done"} /\ Record(O)
      /\ UNCHANGED <<scanVars, fs, rm, removed>>
  BY DEF RecordDirectory
<1>2. /\ w[x] \in Walker /\ Neat(x, w[x], Indexed) /\ (x # Root => x \in Indexed)
      /\ \A o \in O : ex.recorded[o.node] = None /\ Honest(o, removed)
  BY <1>1, Running
<1>3. x # Root /\ x \in Indexed /\ w[x].batch = {} /\ w[x].stack # <<>>
      /\ \E k \in Kinds : O = {[node |-> Last(w[x].stack).node, kind |-> k]}
  BY <1>1, <1>2 DEF Neat, Last, Descends
<1>4. O \in SUBSET Outcome /\ NodesOf(O) \subseteq Own(x, Indexed)
  BY <1>1, Fields, OwnHas
<1>5. Unique(O)
  BY <1>3 DEF Unique
<1>6. NodesOf(O) \subseteq Indexed
  BY <1>3, <1>4, IndexedIs DEF Own, Territory
<1>7. s2 \in Seq(Frame) /\ (Len(w[x].stack) # 1 => s2 # <<>>)
  <2>1. Descends(x, w[x].stack, Indexed) /\ w[x].stack \in Seq(Frame) /\ Len(w[x].stack) \in Nat \ {0}
    BY <1>1, <1>2, TopIs, IndexedIs
  <2>2. Len(w[x].stack) = 1 \/ Shallower(x, w[x].stack, Indexed)
    BY <2>1, PopDescends
  <2>3. CASE Len(w[x].stack) = 1
    <3>1. SubSeq(w[x].stack, 1, Len(w[x].stack) - 1) \in Seq(Frame)
      BY <2>1, <2>3
    <3> QED BY <2>3, <3>1 DEF Popped
  <2>4. CASE Shallower(x, w[x].stack, Indexed)
    BY <2>4 DEF Shallower, Descends
  <2> QED BY <2>2, <2>3, <2>4
<1>8. w' = [w EXCEPT ![x] = r]
  <2>1. w' = [w EXCEPT ![x] = SetOuter(w[x], pc2, s2, {})]
    BY Fields DEF SetOuter, RecordDirectory, Outer, Popped
  <2> HIDE DEF pc2, s2
  <2>2. SetOuter(w[x], pc2, s2, {}) = r
    BY <1>2, RecExcept
  <2> QED BY <2>1, <2>2
<1> HIDE DEF s2
<1>9. pc2 \in {"done", "walk"}
  OBVIOUS
<1>10. r \in Walker /\ r.pc = pc2 /\ r.stack = s2 /\ r.batch = w[x].batch /\ r.results = {}
  <2> HIDE DEF pc2
  <2> QED BY <1>7, <1>9, Fields, RecIs
<1> HIDE DEF r
<1>11. Shifted(x, w[x], r, Indexed, NodesOf(O))
  <2>1. CASE pc2 = "done"
    BY <1>10, <2>1, MoveStop
  <2>2. CASE s2 # <<>>
    <3>1. Len(w[x].stack) # 1
      <4>1. SUFFICES ASSUME Len(w[x].stack) = 1 PROVE s2 = <<>>
        BY <2>2
      <4>2. w[x].stack \in Seq(Frame)
        BY Fields
      <4> QED BY <4>1, <4>2 DEF s2, Popped
    <3>2. r.pc = "walk" /\ r.stack = Popped(w[x].stack)
      BY <1>10, <2>2 DEF s2
    <3> QED BY <1>1, <1>2, <1>10, <3>1, <3>2, IndexedIs, MovePop
  <2> QED BY <2>1, <2>2
<1>12. NodesOf(w[x].results) \subseteq NodesOf(O)
  OBVIOUS
<1> HIDE DEF O
<1>13. \A o \in O : ex.recorded[o.node] = None => Honest(o, removed)
  BY <1>2
<1> QED BY <1>1, <1>4, <1>5, <1>6, <1>8, <1>10, <1>11, <1>12, <1>13, RecordStep

\* All that is below a directory, itself included.
LEMMA UnderIs ==
    ASSUME NEW d \in Indexed
    PROVE  Under(d) \cup {d} = Territory(Indexed, d) /\ Children(d) = Members(Indexed, d)
<1>1. d \in Nodes
  BY IndexedIs
<1>2. d \in Upward(d)
  BY <1>1, UpwardIs
<1> QED BY <1>2 DEF Under, Territory, Children, Members

LEMMA OpenFailureIs ==
    ASSUME NEW d \in Indexed, NEW kind \in {"absent", "changed", "failed"}
    PROVE  /\ OpenFailure(d, kind) \in SUBSET Outcome /\ Unique(OpenFailure(d, kind))
           /\ NodesOf(OpenFailure(d, kind)) = Territory(Indexed, d)
<1> DEFINE k2 == IF kind = "absent" THEN "absent" ELSE "failed"
<1> DEFINE O == OpenFailure(d, kind)
<1>1. O = {[node |-> d, kind |-> kind]} \cup {[node |-> n, kind |-> k2] : n \in Under(d)}
  BY DEF OpenFailure
<1>2. k2 \in Kinds /\ kind \in Kinds /\ d \in Nodes /\ Under(d) \subseteq Nodes /\ d \notin Under(d)
  BY IndexedIs DEF Kinds, Under
<1> HIDE DEF k2, O
<1>3. /\ \A o \in O : \/ o.node = d /\ o.kind = kind /\ o \in Outcome
                      \/ o.node \in Under(d) /\ o.kind = k2 /\ o \in Outcome
      /\ \A o \in O : o = [node |-> o.node, kind |-> o.kind]
  BY <1>1, <1>2 DEF Outcome
<1>4. ASSUME NEW n \in Under(d) \cup {d} PROVE \E o \in O : o.node = n
  <2>1. CASE n = d
    <3>1. [node |-> d, kind |-> kind] \in O /\ [node |-> d, kind |-> kind].node = d
      BY <1>1
    <3> QED BY <2>1, <3>1
  <2>2. CASE n \in Under(d)
    <3>1. [node |-> n, kind |-> k2] \in O /\ [node |-> n, kind |-> k2].node = n
      BY <1>1, <2>2
    <3> QED BY <3>1
  <2> QED BY <2>1, <2>2
<1>5. Unique(O)
  BY <1>2, <1>3 DEF Unique
<1>6. NodesOf(O) = Under(d) \cup {d}
  BY <1>3, <1>4 DEF NodesOf
<1>7. O \in SUBSET Outcome
  BY <1>3
<1> QED BY <1>5, <1>6, <1>7, UnderIs DEF O

LEMMA Blameless ==
    ASSUME RInv, NEW x \in Dirs, w[x].pc \notin {"idle", "done"}, NEW O, NodesOf(O) \subseteq Ahead(x, w[x], Indexed),
           \A o \in O : o.kind \notin {"deleted", "unsynced"}
    PROVE  \A o \in O : ex.recorded[o.node] = None => Honest(o, removed)
<1>1. ASSUME NEW o \in O PROVE o.node \notin removed
  <2>1. o.node \in NodesOf(O)
    BY DEF NodesOf
  <2> QED BY <2>1, Running
<1> QED BY <1>1 DEF Honest

LEMMA LoseParentKeeps ==
    ASSUME RInv, NEW x \in Dirs, LoseParent(x)
    PROVE  RInv'
<1> DEFINE d == Top(x).node
<1> DEFINE others == (Under(x) \cup {x}) \ {d}
<1> DEFINE O == {[node |-> d, kind |-> "changed"]} \cup {[node |-> n, kind |-> "failed"] : n \in others}
<1> DEFINE r == Rec("done", w[x].stack, w[x].batch, w[x].results)
<1>1. /\ w[x].pc = "walk" /\ w[x].pc \notin {"idle", "done"} /\ w[x].batch = {} /\ x # Root
      /\ Record(O) /\ UNCHANGED <<scanVars, fs, rm, removed>>
  BY DEF LoseParent, Exhausted, Walking
<1>2. w[x] \in Walker /\ Neat(x, w[x], Indexed) /\ x \in Indexed /\ Indexed \in SUBSET (Nodes \ {Root})
  BY <1>1, Running, IndexedIs
<1>3. w[x].results = {}
  BY <1>1, <1>2 DEF Neat
<1>4. /\ Descends(x, w[x].stack, Indexed) /\ d \in Nodes /\ DOMAIN w[x].stack = 1 .. Len(w[x].stack)
      /\ Len(w[x].stack) \in DOMAIN w[x].stack /\ Len(w[x].stack) \in Nat \ {0} /\ 1 \in DOMAIN w[x].stack
      /\ d = w[x].stack[Len(w[x].stack)].node
      /\ d \in Indexed \/ Len(w[x].stack) = 1
  BY <1>1, <1>2, TopIs, TopLast DEF Last
<1>5. d \in Territory(Indexed, x)
  <2>1. x \in Upward(d)
    BY <1>4 DEF Descends
  <2>2. CASE Len(w[x].stack) = 1
    BY <1>2, <1>4, <2>1, <2>2 DEF Descends, Territory
  <2>3. CASE d \in Indexed
    BY <2>1, <2>3 DEF Territory
  <2> QED BY <1>4, <2>2, <2>3
<1>6. Territory(Indexed, x) = others \cup {d} /\ d \notin others /\ others \subseteq Nodes
  BY <1>2, <1>5, UnderIs DEF Territory
<1>7. d \in Ahead(x, w[x], Indexed)
  <2>1. Depth(w[x]) = Len(w[x].stack) /\ Len(w[x].stack) \in 1 .. Depth(w[x])
    BY <1>1, <1>4 DEF Depth
  <2>2. d # Root
    BY <1>2, <1>5 DEF Territory
  <2> QED BY <1>1, <1>4, <2>1, <2>2, AheadHas
<1> HIDE DEF others, d
<1>8. /\ O \in SUBSET Outcome /\ Unique(O) /\ NodesOf(O) = Territory(Indexed, x)
      /\ \A o \in O : o.node = d \/ o.kind = "failed"
  <2>1. \A o \in O : \/ o = [node |-> d, kind |-> "changed"] /\ o.node = d
                     \/ o = [node |-> o.node, kind |-> "failed"] /\ o.node \in others /\ o.kind = "failed"
    OBVIOUS
  <2>2. ASSUME NEW n \in others \cup {d} PROVE \E o \in O : o.node = n
    <3>1. CASE n = d
      <4>1. [node |-> d, kind |-> "changed"] \in O /\ [node |-> d, kind |-> "changed"].node = d
        OBVIOUS
      <4> QED BY <3>1, <4>1
    <3>2. CASE n \in others
      <4>1. [node |-> n, kind |-> "failed"] \in O /\ [node |-> n, kind |-> "failed"].node = n
        BY <3>2
      <4> QED BY <4>1
    <3> QED BY <3>1, <3>2
  <2> HIDE DEF O
  <2>3. Unique(O)
    BY <1>6, <2>1 DEF Unique
  <2>4. NodesOf(O) = others \cup {d}
    BY <2>1, <2>2 DEF NodesOf
  <2>5. O \in SUBSET Outcome
    BY <2>1, <1>4, <1>6 DEF Outcome, Kinds
  <2> QED BY <1>6, <2>1, <2>3, <2>4, <2>5
<1> HIDE DEF O
<1>9. ASSUME NEW o \in O, ex.recorded[o.node] = None PROVE Honest(o, removed)
  <2>1. CASE o.node = d
    <3>1. d \notin removed
      BY <1>1, <1>7, Running
    <3>2. o.kind \notin {"deleted", "unsynced"}
      BY DEF O
    <3> QED BY <2>1, <3>1, <3>2 DEF Honest
  <2>2. CASE o.kind = "failed"
    BY <2>2 DEF Honest
  <2> QED BY <1>8, <2>1, <2>2
<1>10. w' = [w EXCEPT ![x] = r]
  <2>1. w' = [w EXCEPT ![x] = SetPc(w[x], "done")]
    BY Fields DEF LoseParent, SetPc
  <2>2. SetPc(w[x], "done") = r
    BY <1>2, RecExcept
  <2> QED BY <2>1, <2>2
<1>11. r \in Walker /\ r.pc = "done" /\ r.results = {}
  BY <1>3, Fields, RecIs
<1> HIDE DEF r
<1>12. Shifted(x, w[x], r, Indexed, NodesOf(O))
  BY <1>11, MoveStop
<1>13. NodesOf(O) \subseteq Indexed /\ NodesOf(O) \subseteq Own(x, Indexed) /\ NodesOf(w[x].results) \subseteq NodesOf(O)
  BY <1>1, <1>3, <1>8 DEF Own, Territory, NodesOf
<1> QED BY <1>1, <1>8, <1>9, <1>10, <1>11, <1>12, <1>13, RecordStep

\* What a thread still has to do is ahead with all that is below it.
LEMMA TodoAhead ==
    ASSUME RInv, NEW x \in Dirs, w[x].pc = "walk", NEW n \in Last(w[x].stack).todo
    PROVE  /\ n \in Indexed /\ Territory(Indexed, n) \subseteq Ahead(x, w[x], Indexed)
           /\ w[x].stack \in Seq(Frame) /\ w[x].stack # <<>>
<1>1. w[x] \in Walker /\ Neat(x, w[x], Indexed)
  BY Running
<1>2. /\ DOMAIN w[x].stack = 1 .. Len(w[x].stack) /\ Len(w[x].stack) \in DOMAIN w[x].stack
      /\ w[x].stack \in Seq(Frame) /\ w[x].stack # <<>>
      /\ Last(w[x].stack).todo \subseteq Members(Indexed, Last(w[x].stack).node)
  BY <1>1, IndexedIs, TopIs
<1>3. n \in Indexed
  BY <1>2 DEF Members
<1>4. Len(w[x].stack) \in 1 .. Depth(w[x]) /\ n \in w[x].stack[Len(w[x].stack)].todo
  BY <1>2 DEF Depth, Last
<1>5. ASSUME NEW k \in Territory(Indexed, n) PROVE k \in Ahead(x, w[x], Indexed)
  <2>1. k # Root
    BY IndexedIs DEF Territory
  <2> QED BY <2>1, <1>4, AheadHas
<1> QED BY <1>2, <1>3, <1>5

LEMMA FrameIs ==
    ASSUME NEW n \in Dirs, n \in Indexed
    PROVE  \E f \in Frame : f = [node |-> n, todo |-> Children(n)] /\ f.node = n /\ f.todo = Members(Indexed, n)
<1>1. Children(n) = Members(Indexed, n) /\ Children(n) \in SUBSET Nodes
  BY UnderIs, IndexedIs DEF Children
<1> DEFINE f == [node |-> n, todo |-> Children(n)]
<1>2. f \in Frame /\ f.node = n /\ f.todo = Members(Indexed, n)
  BY <1>1 DEF Frame
<1> QED BY <1>2

\* The directory the walk starts with.
EnterTop(x, k) ==
    /\ w[x].pc = "enter"
    /\ IF k = "ok"
       THEN /\ w' = [w EXCEPT ![x].pc = "walk", ![x].stack = Append(<<>>, [node |-> x, todo |-> Children(x)])]
            /\ UNCHANGED <<ex, events>>
       ELSE w' = [w EXCEPT ![x].pc = "done", ![x].stack = <<>>] /\ Record(OpenFailure(x, k))

\* One further down.
EnterNested(x, n, k) ==
    /\ w[x].pc = "walk" /\ w[x].batch = {} /\ n \in Last(w[x].stack).todo
    /\ IF k = "ok"
       THEN /\ w' = [w EXCEPT ![x].pc = "walk",
                              ![x].stack = Append(Less(w[x].stack, n), [node |-> n, todo |-> Children(n)])]
            /\ UNCHANGED <<ex, events>>
       ELSE w' = [w EXCEPT ![x].pc = "walk", ![x].stack = Less(w[x].stack, n)] /\ Record(OpenFailure(n, k))

LEMMA EnterIs ==
    ASSUME RInv, NEW x \in Dirs, Enter(x)
    PROVE  /\ x # Root /\ UNCHANGED <<scanVars, fs, rm, removed>>
           /\ \E n \in Dirs, k \in {"ok", "absent", "changed", "failed"} : EnterTop(x, k) \/ EnterNested(x, n, k)
<1> DEFINE outer(n) == IF w[x].pc = "enter" THEN <<>> ELSE [w[x].stack EXCEPT ![Len(w[x].stack)].todo = @ \ {n}]
<1>1. PICK n \in Dirs, k \in {"ok", "absent", "changed", "failed"} :
          /\ \/ w[x].pc = "enter" /\ n = x
             \/ w[x].pc = "walk" /\ w[x].batch = {} /\ n \in Top(x).todo /\ Files(Top(x).todo) = {}
          /\ IF k = "ok"
             THEN /\ w' = [w EXCEPT ![x].pc = "walk",
                                    ![x].stack = Append(outer(n), [node |-> n, todo |-> Children(n)])]
                  /\ UNCHANGED <<ex, events>>
             ELSE /\ w' = [w EXCEPT ![x].pc = IF outer(n) = <<>> THEN "done" ELSE "walk", ![x].stack = outer(n)]
                  /\ Record(OpenFailure(n, k))
  BY DEF Enter
<1>2. CASE w[x].pc = "enter" /\ n = x
  <2>1. outer(n) = <<>>
    BY <1>2
  <2> HIDE DEF outer
  <2>2. EnterTop(x, k)
    BY <1>1, <1>2, <2>1 DEF EnterTop
  <2> QED BY <2>2 DEF Enter
<1>3. CASE w[x].pc = "walk" /\ w[x].batch = {} /\ n \in Top(x).todo
  <2>1. outer(n) = Less(w[x].stack, n)
    BY <1>3 DEF Less
  <2>2. n \in Last(w[x].stack).todo
    BY <1>3, TopLast
  <2>3. outer(n) # <<>>
    BY <1>3, <2>1, <2>2, TodoAhead, LessIs
  <2> HIDE DEF outer
  <2>4. EnterNested(x, n, k)
    BY <1>1, <1>3, <2>1, <2>2, <2>3 DEF EnterNested
  <2> QED BY <2>4 DEF Enter
<1> QED BY <1>1, <1>2, <1>3

LEMMA EnterTopKeeps ==
    ASSUME RInv, NEW x \in Dirs, x # Root, NEW k \in {"ok", "absent", "changed", "failed"}, EnterTop(x, k),
           UNCHANGED <<scanVars, fs, rm, removed>>
    PROVE  RInv'
<1>1. w[x].pc = "enter" /\ w[x].pc \notin {"idle", "done"}
  BY DEF EnterTop
<1>2. w[x] \in Walker /\ Neat(x, w[x], Indexed) /\ x \in Indexed
  BY <1>1, Running
<1>3. w[x].batch = {} /\ w[x].results = {}
  BY <1>1, <1>2 DEF Neat
<1>4. CASE k = "ok"
  <2>1. PICK f \in Frame : f = [node |-> x, todo |-> Children(x)] /\ f.node = x /\ f.todo = Members(Indexed, x)
    BY <1>2, FrameIs
  <2> DEFINE s2 == <<f>>
  <2> DEFINE r == Rec("walk", s2, w[x].batch, w[x].results)
  <2>2. w' = [w EXCEPT ![x] = r]
    <3>0. s2 = Append(<<>>, [node |-> x, todo |-> Children(x)])
      BY <2>1
    <3>1. w' = [w EXCEPT ![x] = SetStack(w[x], "walk", Append(<<>>, [node |-> x, todo |-> Children(x)]))]
      BY <1>4, Fields DEF EnterTop, SetStack
    <3> HIDE DEF s2
    <3>2. SetStack(w[x], "walk", s2) = r
      BY <1>2, RecExcept
    <3> QED BY <3>0, <3>1, <3>2
  <2>3. s2 \in Seq(Frame)
    OBVIOUS
  <2>4. r \in Walker /\ r.pc = "walk" /\ r.stack = <<f>> /\ r.batch = {} /\ r.results = {} /\ r.results = w[x].results
    <3> HIDE DEF s2
    <3>1. r \in Walker /\ r.pc = "walk" /\ r.stack = s2 /\ r.batch = w[x].batch /\ r.results = w[x].results
      BY <2>3, Fields, RecIs
    <3> QED BY <1>3, <3>1 DEF s2
  <2> HIDE DEF r
  <2>5. Shifted(x, w[x], r, Indexed, {})
    BY <1>1, <1>2, <2>1, <2>4, IndexedIs, MoveEnterTop
  <2>6. UNCHANGED <<scanVars, fs, ex, events, rm, removed>>
    BY <1>4 DEF EnterTop
  <2> QED BY <1>1, <2>2, <2>4, <2>5, <2>6, QuietStep
<1>5. CASE k # "ok"
  <2> DEFINE O == OpenFailure(x, k)
  <2> DEFINE e == <<>>
  <2> DEFINE r == Rec("done", e, w[x].batch, w[x].results)
  <2>1. k \in {"absent", "changed", "failed"}
    BY <1>5
  <2>2. O \in SUBSET Outcome /\ Unique(O) /\ NodesOf(O) = Territory(Indexed, x)
    BY <1>2, <2>1, OpenFailureIs
  <2>3. \A o \in O : o.kind \notin {"deleted", "unsynced"}
    BY <2>1 DEF OpenFailure
  <2>4. Record(O)
    BY <1>5 DEF EnterTop
  <2> HIDE DEF O
  <2>5. w' = [w EXCEPT ![x] = r]
    <3>1. w' = [w EXCEPT ![x] = SetStack(w[x], "done", e)]
      BY <1>5, Fields DEF EnterTop, SetStack
    <3> HIDE DEF e
    <3>2. SetStack(w[x], "done", e) = r
      BY <1>2, RecExcept
    <3> QED BY <3>1, <3>2
  <2>6. e \in Seq(Frame)
    OBVIOUS
  <2>7. r \in Walker /\ r.pc = "done" /\ r.results = {}
    <3> HIDE DEF e
    <3> QED BY <1>3, <2>6, Fields, RecIs
  <2> HIDE DEF r
  <2>8. Shifted(x, w[x], r, Indexed, NodesOf(O))
    BY <2>7, MoveStop
  <2>9. NodesOf(O) \subseteq Ahead(x, w[x], Indexed)
    BY <1>1, <2>2 DEF Ahead
  <2>10. \A o \in O : ex.recorded[o.node] = None => Honest(o, removed)
    BY <1>1, <2>3, <2>9, Blameless
  <2>11. NodesOf(O) \subseteq Indexed /\ NodesOf(O) \subseteq Own(x, Indexed) /\ NodesOf(w[x].results) \subseteq NodesOf(O)
    BY <1>3, <2>2 DEF Own, Territory, NodesOf
  <2> QED BY <1>1, <2>2, <2>4, <2>5, <2>7, <2>8, <2>10, <2>11, RecordStep
<1> QED BY <1>4, <1>5

LEMMA EnterNestedKeeps ==
    ASSUME RInv, NEW x \in Dirs, x # Root, NEW n \in Dirs, NEW k \in {"ok", "absent", "changed", "failed"},
           EnterNested(x, n, k), UNCHANGED <<scanVars, fs, rm, removed>>
    PROVE  RInv'
<1>1. w[x].pc = "walk" /\ w[x].pc \notin {"idle", "done"} /\ w[x].batch = {} /\ n \in Last(w[x].stack).todo
  BY DEF EnterNested
<1>2. w[x] \in Walker /\ Neat(x, w[x], Indexed) /\ x \in Indexed /\ Indexed \in SUBSET (Nodes \ {Root})
  BY <1>1, Running, IndexedIs
<1>3. w[x].results = {}
  BY <1>1, <1>2 DEF Neat
<1>4. /\ n \in Indexed /\ Territory(Indexed, n) \subseteq Ahead(x, w[x], Indexed)
      /\ w[x].stack \in Seq(Frame) /\ w[x].stack # <<>>
  BY <1>1, TodoAhead
<1> DEFINE s == Less(w[x].stack, n)
<1>5. s \in Seq(Frame)
  BY <1>4, LessIs
<1>6. CASE k = "ok"
  <2>1. PICK f \in Frame : f = [node |-> n, todo |-> Children(n)] /\ f.node = n /\ f.todo = Members(Indexed, n)
    BY <1>4, FrameIs
  <2> DEFINE s2 == Append(s, f)
  <2> DEFINE r == Rec("walk", s2, w[x].batch, w[x].results)
  <2>2. w' = [w EXCEPT ![x] = r]
    <3>1. w' = [w EXCEPT ![x] = SetStack(w[x], "walk", s2)]
      BY <1>6, <2>1, Fields DEF EnterNested, SetStack
    <3> HIDE DEF s2
    <3>2. SetStack(w[x], "walk", s2) = r
      BY <1>2, RecExcept
    <3> QED BY <3>1, <3>2
  <2>3. s2 \in Seq(Frame)
    BY <1>5
  <2>4. /\ r \in Walker /\ r.pc = "walk" /\ r.stack = Append(Less(w[x].stack, n), f) /\ r.batch = w[x].batch
        /\ r.results = {} /\ r.results = w[x].results
    <3> HIDE DEF s2
    <3>1. r \in Walker /\ r.pc = "walk" /\ r.stack = s2 /\ r.batch = w[x].batch /\ r.results = w[x].results
      BY <2>3, Fields, RecIs
    <3> QED BY <1>3, <3>1 DEF s2
  <2> HIDE DEF r
  <2>5. Shifted(x, w[x], r, Indexed, {})
    BY <1>1, <1>2, <2>1, <2>4, MoveEnter
  <2>6. UNCHANGED <<scanVars, fs, ex, events, rm, removed>>
    BY <1>6 DEF EnterNested
  <2> QED BY <1>1, <2>2, <2>4, <2>5, <2>6, QuietStep
<1>7. CASE k # "ok"
  <2> DEFINE O == OpenFailure(n, k)
  <2> DEFINE r == Rec("walk", s, w[x].batch, w[x].results)
  <2>1. k \in {"absent", "changed", "failed"}
    BY <1>7
  <2>2. O \in SUBSET Outcome /\ Unique(O) /\ NodesOf(O) = Territory(Indexed, n)
    BY <1>4, <2>1, OpenFailureIs
  <2>3. \A o \in O : o.kind \notin {"deleted", "unsynced"}
    BY <2>1 DEF OpenFailure
  <2>4. Record(O)
    BY <1>7 DEF EnterNested
  <2> HIDE DEF O
  <2>5. w' = [w EXCEPT ![x] = r]
    <3>1. w' = [w EXCEPT ![x] = SetStack(w[x], "walk", s)]
      BY <1>7, Fields DEF EnterNested, SetStack
    <3> HIDE DEF s
    <3>2. SetStack(w[x], "walk", s) = r
      BY <1>2, RecExcept
    <3> QED BY <3>1, <3>2
  <2>6. r \in Walker /\ r.pc = "walk" /\ r.stack = s /\ r.batch = w[x].batch /\ r.results = {}
    <3> HIDE DEF s
    <3> QED BY <1>3, <1>5, Fields, RecIs
  <2> HIDE DEF r
  <2>7. Shifted(x, w[x], r, Indexed, NodesOf(O))
    <3>1. r.stack = Less(w[x].stack, n) /\ r.pc = "walk" /\ r.batch = w[x].batch /\ r.results = {} /\ r \in Walker
      BY <2>6
    <3>2. w[x].pc = "walk" /\ w[x].batch = {} /\ n \in Last(w[x].stack).todo
      BY <1>1
    <3>3. w[x] \in Walker /\ Neat(x, w[x], Indexed) /\ Indexed \in SUBSET (Nodes \ {Root})
      BY <1>2
    <3>4. Shifted(x, w[x], r, Indexed, Territory(Indexed, n))
      <4> HIDE DEF s
      <4> QED BY <3>1, <3>2, <3>3, MoveSkip
    <3> QED BY <2>2, <3>4
  <2>8. NodesOf(O) \subseteq Ahead(x, w[x], Indexed)
    BY <1>4, <2>2
  <2>9. \A o \in O : ex.recorded[o.node] = None => Honest(o, removed)
    BY <1>1, <2>3, <2>8, Blameless
  <2>10. NodesOf(O) \subseteq Own(x, Indexed)
    BY <1>1, <2>8, OwnHas
  <2>11. NodesOf(O) \subseteq Indexed /\ NodesOf(w[x].results) \subseteq NodesOf(O)
    BY <1>3, <2>2 DEF Territory, NodesOf
  <2> QED BY <1>1, <2>2, <2>4, <2>5, <2>6, <2>7, <2>9, <2>10, <2>11, RecordStep
<1> QED BY <1>6, <1>7

\* The group hands a directory over: nothing changes but who has it ahead.
LEMMA SpawnKeeps ==
    ASSUME RInv, Spawn
    PROVE  RInv'
<1> DEFINE I == Indexed
<1> DEFINE u == w[Root]
<1>0. Root \in Dirs /\ I \in SUBSET (Nodes \ {Root})
  BY ScanAssumption, IndexedIs
<1>1. /\ u.pc = "walk" /\ u.pc \notin {"idle", "done"} /\ u.batch = {}
      /\ UNCHANGED <<scanVars, fs, ex, events, rm, removed>>
  BY DEF Spawn, Walking
<1>2. PICK n \in Last(u.stack).todo \cap Dirs :
         w' = [w EXCEPT ![Root].stack[1].todo = @ \ {n}, ![n].pc = "enter"]
  BY TopLast DEF Spawn
<1>3. /\ ex.phase = "run" /\ NoEnd(events) /\ Working(w, I, ex.recorded, removed) /\ removed \in SUBSET Nodes
      /\ u \in Walker /\ Neat(Root, u, I)
      /\ \A m \in Ahead(Root, u, I) : ex.recorded[m] = None /\ m \notin removed
  BY <1>0, <1>1, Running
<1>4. u.results = {}
  BY <1>1, <1>3 DEF Neat
<1>5. /\ u.stack \in Seq(Frame) /\ u.stack # <<>> /\ Len(u.stack) = 1 /\ u.stack[1].node = Root
      /\ u.stack[1].todo \subseteq Members(I, Root) /\ Last(u.stack) = u.stack[1]
  <2>1. u.pc \in {"walk", "remove"} /\ u.pc \in {"walk", "remove", "record"}
    BY <1>1
  <2> HIDE DEF I, u
  <2>2. u.stack \in Seq(Frame) /\ u.stack # <<>>
    BY <1>0, <1>3, <2>1, TopIs
  <2>3. Len(u.stack) = 1 /\ u.stack[1].node = Root /\ u.stack[1].todo \subseteq Members(I, Root)
    BY <1>0, <1>3, <2>1, GroupWithin
  <2> QED BY <2>2, <2>3 DEF Last
<1>6. /\ n \in I /\ Parent[n] = Root /\ n # Root /\ n \in u.stack[1].todo
      /\ Territory(I, n) \subseteq Ahead(Root, u, I)
  BY <1>0, <1>1, <1>2, <1>5, TodoAhead DEF Members
<1>7. w[n].pc = "idle" /\ w[n] \in Walker
  <2>1. Spawned(n, w, I) /\ w[n] \in Walker
    BY <1>2, <1>3, <1>6 DEF Working, Walks
  <2> QED BY <1>1, <1>6, <2>1 DEF Spawned
<1>8. w[n].stack = <<>> /\ w[n].batch = {} /\ w[n].results = {}
  <2>1. Neat(n, w[n], I)
    BY <1>2, <1>3 DEF Working, Walks
  <2> QED BY <1>7, <2>1 DEF Neat
<1> DEFINE s == Less(u.stack, n)
<1> DEFINE r == Rec("walk", s, u.batch, u.results)
<1>9. s \in Seq(Frame) /\ s[1].todo = u.stack[1].todo \ {n}
  BY <1>5, LessIs
<1>10. /\ w' \in [Dirs -> Walker]
       /\ w'[Root] = r /\ w'[n] = Rec("enter", w[n].stack, w[n].batch, w[n].results)
       /\ \A y \in Dirs : y # Root /\ y # n => w'[y] = w[y]
  <2> DEFINE u2 == [u EXCEPT !.stack[1].todo = @ \ {n}]
  <2>1. w' = [w EXCEPT ![Root] = u2, ![n] = SetPc(w[n], "enter")]
    BY <1>0, <1>2, <1>3, <1>6 DEF SetPc, Working
  <2>2. u2 = SetStack(u, "walk", s)
    <3>1. s = [u.stack EXCEPT ![1].todo = @ \ {n}]
      BY <1>5 DEF Less
    <3> HIDE DEF s
    <3>2. u2 = [u EXCEPT !.stack = s]
      BY <1>3, <3>1 DEF Walker
    <3>3. u = [u EXCEPT !.pc = "walk"]
      BY <1>1, <1>3 DEF Walker
    <3>4. [u EXCEPT !.pc = "walk", !.stack = s] = [u EXCEPT !.stack = s]
      BY <1>1, <1>3 DEF Walker
    <3> QED BY <3>2, <3>4 DEF SetStack
  <2>3. SetStack(u, "walk", s) = r
    BY <1>3, RecExcept
  <2>4. u2 = r
    BY <2>2, <2>3
  <2>5. SetPc(w[n], "enter") = Rec("enter", w[n].stack, w[n].batch, w[n].results)
    BY <1>7, RecExcept
  <2>6. r \in Walker
    <3> HIDE DEF s
    <3> QED BY <1>0, <1>9, Fields, RecIs
  <2>7. Rec("enter", w[n].stack, w[n].batch, w[n].results) \in Walker
    BY <1>2, Fields, RecIs
  <2> DEFINE r2 == Rec("enter", w[n].stack, w[n].batch, w[n].results)
  <2>8. w \in [Dirs -> Walker]
    BY <1>3 DEF Working
  <2>9. w' = [w EXCEPT ![Root] = r, ![n] = r2] /\ r \in Walker /\ r2 \in Walker
    BY <2>1, <2>4, <2>5, <2>6, <2>7
  <2> HIDE DEF u2, r, r2
  <2>10. /\ w' \in [Dirs -> Walker] /\ w'[Root] = r /\ w'[n] = r2
         /\ \A y \in Dirs : y # Root /\ y # n => w'[y] = w[y]
    <3>1. n \in Dirs /\ Root \in Dirs /\ n # Root
      BY <1>0, <1>2, <1>6
    <3> DEFINE ww == w'
    <3>2. ww = [w EXCEPT ![Root] = r, ![n] = r2]
      BY <2>9
    <3> HIDE DEF ww
    <3>3. ww \in [Dirs -> Walker]
      BY <2>8, <2>9, <3>1, <3>2
    <3>4. ww[Root] = r /\ ww[n] = r2 /\ \A y \in Dirs : y # Root /\ y # n => ww[y] = w[y]
      BY <2>8, <3>1, <3>2
    <3> QED BY <3>3, <3>4 DEF ww
  <2> QED BY <2>10 DEF r2
<1>11. r \in Walker /\ r.pc = "walk" /\ r.stack = s /\ r.batch = u.batch /\ r.results = {}
  <2> HIDE DEF s
  <2> QED BY <1>0, <1>4, <1>9, Fields, RecIs
<1> DEFINE r2 == Rec("enter", w[n].stack, w[n].batch, w[n].results)
<1>12. r2 \in Walker /\ r2.pc = "enter" /\ r2.stack = <<>> /\ r2.batch = {} /\ r2.results = {}
  BY <1>2, <1>8, Fields, RecIs
<1> HIDE DEF r, r2
<1>13. Shifted(Root, u, r, I, Territory(I, n))
  BY <1>0, <1>1, <1>2, <1>3, <1>11, MoveSkip
<1>14. \A y \in Dirs : y # Root /\ y # n => w'[y] = w[y]
  BY <1>10
<1>15. w'[Root] = r /\ w'[n] = r2
  BY <1>10 DEF r2
<1> HIDE DEF u, s, I
<1>16. Walks(w', I)
  <2>1. Neat(Root, r, I)
    BY <1>13 DEF Shifted
  <2>2. Neat(n, r2, I)
    BY <1>6, <1>12 DEF Neat
  <2>3. ASSUME NEW y \in Dirs PROVE Neat(y, w'[y], I)
    <3>1. Neat(y, w[y], I)
      BY <1>3 DEF Working, Walks
    <3> QED BY <1>14, <1>15, <2>1, <2>2, <3>1
  <2>4. ASSUME NEW y \in Dirs \ {Root} PROVE Spawned(y, w', I)
    <3>1. Spawned(y, w, I)
      BY <1>3 DEF Working, Walks
    <3>2. w'[Root].pc = "walk" /\ w'[Root].stack[1].todo = w[Root].stack[1].todo \ {n}
      BY <1>9, <1>11, <1>15 DEF u
    <3>3. CASE y = n
      BY <1>6, <3>2, <3>3 DEF Spawned
    <3>4. CASE y # n
      <4>1. w'[y] = w[y]
        BY <1>14, <3>4
      <4>2. w[Root].pc = "walk"
        BY <1>1 DEF u
      <4> QED BY <3>1, <3>2, <4>1, <4>2 DEF Spawned
    <3> QED BY <3>3, <3>4
  <2> QED BY <2>3, <2>4 DEF Walks
<1>17. StillAhead(w', I, ex.recorded, removed)
  <2> SUFFICES ASSUME NEW y \in Dirs, NEW m \in Ahead(y, w'[y], I) PROVE ex.recorded[m] = None /\ m \notin removed
    BY DEF StillAhead
  <2>1. CASE y = Root
    BY <1>3, <1>13, <1>15, <2>1 DEF Shifted
  <2>2. CASE y = n
    <3>1. m \in Territory(I, n)
      BY <1>12, <1>15, <2>2 DEF Ahead
    <3> QED BY <1>3, <1>6, <3>1
  <2>3. CASE y # Root /\ y # n
    BY <1>3, <1>14, <2>3 DEF Working, StillAhead
  <2> QED BY <2>1, <2>2, <2>3
<1>18. Results(w', ex.recorded, removed)
  <2>1. \A y \in Dirs : w'[y].results = w[y].results
    BY <1>4, <1>8, <1>11, <1>12, <1>14, <1>15 DEF u
  <2>2. Results(w, ex.recorded, removed)
    BY <1>3 DEF Working
  <2> QED BY <2>1, <2>2 DEF Results
<1>19. Working(w, Indexed, ex.recorded, removed)'
  <2>1. Indexed' = Indexed
    BY <1>1, IndexedIs DEF scanVars
  <2> QED BY <1>1, <1>10, <1>16, <1>17, <1>18, <2>1 DEF Working, I
<1>20. Flow'
  BY <1>1, <1>3, IndexedIs DEF RInv, Flow, scanVars
<1>21. Kept'
  BY <1>1 DEF RInv, Kept, InPlace
<1>22. DelTypes'
  BY <1>1, <1>10 DEF RInv, DelTypes, scanVars
<1>23. Stages'
  <2>1. w'[Root].pc # "idle"
    BY <1>11, <1>15
  <2>2. rm.phase = "delete"
    BY <1>3 DEF RInv, Stages
  <2> QED BY <1>1, <1>3, <2>1, <2>2 DEF Stages, NoEnd
<1> QED BY <1>19, <1>20, <1>21, <1>22, <1>23 DEF RInv

-----------------------------------------------------------------------------
(* The other actions.                                                      *)

\* A thread that is not at work has nothing ahead and no results.
LEMMA Resting ==
    ASSUME RInv, NEW x \in Dirs, w[x].pc \in {"idle", "done"}
    PROVE  w[x].results = {} /\ \A I : Ahead(x, w[x], I) = {}
<1>1. Neat(x, w[x], Indexed)
  BY DEF RInv, Working, Walks
<1> QED BY <1>1 DEF Neat, Ahead

\* Before the executor starts, the index says nothing about it.
LEMMA IdleKeeps ==
    ASSUME RInv, ex.phase = "idle", UNCHANGED delVars
    PROVE  RInv'
<1>1. /\ events = <<>> /\ rm.report = {} /\ ex.unsent = {} /\ removed \subseteq {Root}
      /\ \A n \in Nodes : ex.recorded[n] = None
      /\ \A x \in Dirs : w[x].pc = "idle"
  BY DEF RInv, Stages
<1>2. Working(w', Indexed', ex'.recorded, removed')
  <2>1. w' = w /\ ex' = ex /\ removed' = removed /\ w \in [Dirs -> Walker]
    BY DEF delVars, RInv, Working
  <2>2. ASSUME NEW x \in Dirs PROVE Neat(x, w[x], Indexed) /\ w[x].results = {} /\ Ahead(x, w[x], Indexed') = {}
    BY <1>1, Resting DEF RInv, Working, Walks
  <2>3. ASSUME NEW x \in Dirs PROVE Neat(x, w[x], Indexed')
    BY <1>1, <2>2 DEF Neat
  <2>4. Walks(w, Indexed')
    BY <1>1, <2>3 DEF Walks, Spawned
  <2>5. StillAhead(w, Indexed', ex.recorded, removed)
    BY <2>2 DEF StillAhead
  <2>6. Results(w, ex.recorded, removed)
    BY DEF RInv, Working
  <2> QED BY <2>1, <2>4, <2>5, <2>6 DEF Working
<1>3. Flow'
  <2>1. Told(events) = {} /\ NodesOf({}) = {}
    BY <1>1 DEF Told, NodesOf
  <2>2. Outs(rm.report, events, ex.unsent) = {}
    BY <1>1, <2>1 DEF Outs, Lists
  <2>3. /\ NodesOf(Outs(rm.report, events, ex.unsent)) \subseteq Indexed'
        /\ rm' = rm /\ events' = events /\ ex' = ex /\ removed' = removed
    BY <2>1, <2>2 DEF delVars
  <2> QED BY <2>3 DEF RInv, Flow
<1>4. DelTypes' /\ Stages' /\ Kept'
  BY DEF RInv, DelTypes, Stages, Kept, InPlace, delVars
<1> QED BY <1>2, <1>3, <1>4 DEF RInv

\* Steps of the scan and of the user that the deletion does not see.
LEMMA UnseenKeeps ==
    ASSUME RInv, UNCHANGED <<idx, fs, w, ex, events, rm, removed>>
    PROVE  RInv'
<1>1. Indexed' = Indexed
  BY IndexedIs
<1> QED BY <1>1 DEF RInv, DelTypes, Working, Walks, StillAhead, Results, Flow, Stages, Kept, InPlace

\* Steps of rmrf itself.
LEMMA CallerKeeps ==
    ASSUME RInv, UNCHANGED <<scanVars, fs, w, ex, events, removed>>, rm' \in Caller,
           rm'.report = rm.report, rm'.count = rm.count,
           ex.phase \notin {"run", "fail", "finish"}, rm'.phase \in {"scan", "delete", "root", "return", "over"},
           rm'.phase \in {"admit", "scan"} => ex.phase = "idle",
           rm'.phase \notin {"return", "over"} => rm.phase \notin {"return", "over"},
           rm'.phase \in {"return", "over"} /\ ~ rm'.error => \A n \in Nodes : fs[n] = "gone",
           rm'.result = "ok" => rm'.phase = "over" /\ ~ rm'.error
    PROVE  RInv'
<1>1. Indexed' = Indexed
  BY IndexedIs DEF scanVars
<1>2. Working(w', Indexed', ex'.recorded, removed')
  BY <1>1 DEF RInv
<1>3. Flow'
  BY <1>1 DEF RInv, Flow
<1>4. DelTypes'
  BY DEF RInv, DelTypes
<1>5. Stages'
  BY DEF RInv, Stages
<1>6. Kept'
  BY DEF RInv, Kept, InPlace
<1> QED BY <1>2, <1>3, <1>4, <1>5, <1>6 DEF RInv

LEMMA CallerIs ==
    ASSUME RInv
    PROVE  /\ rm \in Caller /\ rm.phase \in {"admit", "scan", "delete", "verdict", "root", "return", "over"}
           /\ rm.error \in BOOLEAN /\ rm.result \in {None, "ok", "error", "interrupted"}
           /\ rm.phase \notin {"admit", "scan", "delete"} => ex.phase \notin {"run", "fail", "finish"}
           /\ rm.phase \in {"admit", "scan"} => ex.phase = "idle"
           /\ rm.phase \in {"return", "over"} /\ ~ rm.error => \A n \in Nodes : fs[n] = "gone"
           /\ rm.result = "ok" => rm.phase = "over" /\ ~ rm.error
BY DEF RInv, DelTypes, Caller, Stages, Kept

\* Another phase, perhaps with an error.
CallerMoves(phase, error) ==
    /\ rm' = [rm EXCEPT !.phase = phase, !.error = error]
    /\ UNCHANGED <<scanVars, fs, w, ex, events, removed>>

LEMMA CallerMovesKeeps ==
    ASSUME RInv, rm.phase \notin {"return", "over"}, ex.phase \notin {"run", "fail", "finish"},
           NEW phase \in {"scan", "delete", "root", "return"}, NEW error \in BOOLEAN, CallerMoves(phase, error),
           phase = "scan" => ex.phase = "idle", phase = "return" => error = TRUE
    PROVE  RInv'
<1>1. /\ rm' \in Caller /\ rm'.report = rm.report /\ rm'.count = rm.count /\ rm'.phase = phase /\ rm'.error = error
      /\ rm'.result = rm.result
  BY CallerIs DEF CallerMoves, Caller
<1>2. rm.result # "ok"
  BY CallerIs
<1>3. UNCHANGED <<scanVars, fs, w, ex, events, removed>>
  BY DEF CallerMoves
<1> QED BY <1>1, <1>2, <1>3, CallerKeeps

LEMMA AdmitKeeps ==
    ASSUME RInv, Admit
    PROVE  RInv'
<1>1. rm.phase = "admit" /\ ex.phase = "idle" /\ rm \in Caller /\ rm.error \in BOOLEAN
  BY CallerIs DEF Admit
<1>2. CASE rm' = [rm EXCEPT !.phase = "scan"]
  <2> DEFINE e == rm.error
  <2>1. CallerMoves("scan", e)
    BY <1>1, <1>2 DEF Admit, CallerMoves, Caller
  <2>2. e \in BOOLEAN
    BY <1>1
  <2> HIDE DEF e
  <2> QED BY <1>1, <2>1, <2>2, CallerMovesKeeps
<1>3. CASE \E reason \in Refusals : rm' = [rm EXCEPT !.phase = "return", !.error = reason # None]
  <2>1. CallerMoves("return", TRUE)
    BY <1>3 DEF Admit, CallerMoves, Refusals, None
  <2> QED BY <1>1, <2>1, CallerMovesKeeps
<1> QED BY <1>2, <1>3 DEF Admit

LEMMA PlanKeeps ==
    ASSUME RInv, Plan
    PROVE  RInv'
<1>1. rm.phase = "scan" /\ ex.phase = "idle" /\ rm \in Caller /\ rm.error \in BOOLEAN
  BY CallerIs DEF Plan
<1>2. \/ rm' = [rm EXCEPT !.phase = "return", !.error = TRUE]
      \/ \E phase \in {"root", "delete"} : rm' = [rm EXCEPT !.phase = phase]
  BY DEF Plan
<1>3. CASE rm' = [rm EXCEPT !.phase = "return", !.error = TRUE]
  <2>1. CallerMoves("return", TRUE)
    BY <1>3 DEF Plan, CallerMoves
  <2> QED BY <1>1, <2>1, CallerMovesKeeps
<1>4. CASE \E phase \in {"root", "delete"} : rm' = [rm EXCEPT !.phase = phase]
  <2>1. PICK phase \in {"root", "delete"} : rm' = [rm EXCEPT !.phase = phase]
    BY <1>4
  <2> DEFINE e == rm.error
  <2>2. CallerMoves(phase, e)
    BY <1>1, <2>1 DEF Plan, CallerMoves, Caller
  <2>3. e \in BOOLEAN
    BY <1>1
  <2> HIDE DEF e
  <2> QED BY <1>1, <2>2, <2>3, CallerMovesKeeps
<1> QED BY <1>2, <1>3, <1>4

LEMMA VerdictKeeps ==
    ASSUME RInv, Verdict
    PROVE  RInv'
<1>1. rm.phase = "verdict" /\ ex.phase \notin {"run", "fail", "finish"} /\ rm \in Caller /\ rm.error \in BOOLEAN
  BY CallerIs DEF Verdict
<1>2. \/ rm' = [rm EXCEPT !.phase = "return", !.error = TRUE]
      \/ rm' = [rm EXCEPT !.phase = "root"]
  BY DEF Verdict
<1>3. CASE rm' = [rm EXCEPT !.phase = "return", !.error = TRUE]
  <2>1. CallerMoves("return", TRUE)
    BY <1>3 DEF Verdict, CallerMoves
  <2> QED BY <1>1, <2>1, CallerMovesKeeps
<1>4. CASE rm' = [rm EXCEPT !.phase = "root"]
  <2> DEFINE e == rm.error
  <2>1. CallerMoves("root", e)
    BY <1>1, <1>4 DEF Verdict, CallerMoves, Caller
  <2>2. e \in BOOLEAN
    BY <1>1
  <2> HIDE DEF e
  <2> QED BY <1>1, <2>1, <2>2, CallerMovesKeeps
<1> QED BY <1>2, <1>3, <1>4

LEMMA ReturnKeeps ==
    ASSUME RInv, Return
    PROVE  RInv'
<1>1. rm.phase = "return" /\ ex.phase \notin {"run", "fail", "finish"} /\ rm \in Caller /\ rm.error \in BOOLEAN
      /\ UNCHANGED <<scanVars, fs, w, ex, events, removed>>
  BY CallerIs DEF Return
<1>0. PICK output \in OutputFails :
        rm' = [rm EXCEPT !.phase = "over",
                         !.result = IF flags.user THEN "interrupted" ELSE IF rm.error \/ output THEN "error" ELSE "ok"]
  BY DEF Return
<1> DEFINE result == IF flags.user THEN "interrupted" ELSE IF rm.error \/ output THEN "error" ELSE "ok"
<1>2. rm' = [rm EXCEPT !.phase = "over", !.result = result]
  BY <1>0
<1>3. result \in {"ok", "error", "interrupted"} /\ (result = "ok" => ~ rm.error)
  OBVIOUS
<1> HIDE DEF result
<1>4. /\ rm' \in Caller /\ rm'.report = rm.report /\ rm'.count = rm.count /\ rm'.phase = "over"
      /\ rm'.error = rm.error /\ rm'.result = result
  BY <1>1, <1>2, <1>3 DEF Caller
<1> QED BY <1>1, <1>3, <1>4, CallerIs, CallerKeeps

\* Where no entry of the root is in place, none is: the parents of what is in
\* place are, up to the root.
LEMMA EmptyRoot ==
    ASSUME RInv, ~ Occupied(Root), NEW n \in Nodes \ {Root}
    PROVE  fs[n] = "gone"
<1>0. fs \in [Nodes -> Places] /\ Kept /\ Root \in Nodes
  BY ScanAssumption DEF RInv, DelTypes
<1>1. ~ ex.recovery /\ \A m \in Nodes \ {Root} : Parent[m] = Root => fs[m] \notin {"here", "other"}
  BY DEF Occupied
<1>2. fs[n] # "held"
  BY <1>0, <1>1 DEF Kept
<1>3. SUFFICES ASSUME n \in InPlace PROVE FALSE
  BY <1>0, <1>2 DEF InPlace, Places
<1> DEFINE S == InPlace \ {Root}
<1>4. ASSUME NEW m \in S PROVE Parent[m] \in S
  <2>1. m \in Nodes \ {Root} /\ fs[m] \in {"here", "other"} /\ fs[Parent[m]] = "here" /\ Parent[m] \in Nodes
    BY <1>0, ScanAssumption DEF Kept, InPlace
  <2>2. Parent[m] # Root
    BY <1>1, <2>1
  <2> QED BY <2>1, <2>2 DEF InPlace
<1>5. S \in SUBSET Nodes /\ n \in S
  BY <1>3 DEF InPlace
<1>6. Upward(n) \subseteq S
  BY <1>4, <1>5, UpwardLeast
<1> QED BY <1>6, UpwardIs

LEMMA RemoveRootKeeps ==
    ASSUME RInv, RemoveRoot
    PROVE  RInv'
<1>1. rm.phase = "root" /\ ex.phase \notin {"run", "fail", "finish"} /\ rm \in Caller /\ rm.error \in BOOLEAN
  BY CallerIs DEF RemoveRoot
<1>2. CASE rm' = [rm EXCEPT !.phase = "return", !.error = TRUE] /\ UNCHANGED <<fs, removed>>
  <2>1. CallerMoves("return", TRUE)
    BY <1>2 DEF RemoveRoot, CallerMoves
  <2> QED BY <1>1, <2>1, CallerMovesKeeps
<1>3. CASE /\ ~ Occupied(Root) /\ fs' = [fs EXCEPT ![Root] = "gone"] /\ removed' = removed \cup {Root}
           /\ \E unsynced \in {FALSE, RootMayFail} : rm' = [rm EXCEPT !.phase = "return", !.error = unsynced]
  <2>0. PICK unsynced \in {FALSE, RootMayFail} : rm' = [rm EXCEPT !.phase = "return", !.error = unsynced]
    BY <1>3
  <2>a. unsynced \in BOOLEAN
    BY ScanAssumption
  <2>1. /\ rm' \in Caller /\ rm'.report = rm.report /\ rm'.count = rm.count /\ rm'.phase = "return"
        /\ rm'.result = rm.result
    BY <1>1, <2>0, <2>a DEF Caller
  <2>2. UNCHANGED <<scanVars, w, ex, events>> /\ Indexed' = Indexed
    BY IndexedIs DEF RemoveRoot, scanVars
  <2>3. fs \in [Nodes -> Places] /\ Root \in Nodes /\ removed \subseteq Nodes
    BY ScanAssumption DEF RInv, DelTypes
  <2>4. \A n \in Nodes : fs'[n] = "gone"
    BY <1>3, <2>3, EmptyRoot
  <2>5. fs' \in [Nodes -> Places] /\ removed' \subseteq Nodes
    BY <1>3, <2>3 DEF Places
  <2>6. \A x \in Dirs : w[x].pc \in {"idle", "done"}
    BY <1>1 DEF RInv, Stages
  <2>7. Working(w', Indexed', ex'.recorded, removed')
    <3>1. StillAhead(w, Indexed, ex.recorded, removed')
      BY <2>6, Resting DEF StillAhead
    <3>2. \A x \in Dirs : w[x].results = {}
      BY <2>6, Resting
    <3>3. \A n \in removed' \ {Root} : n \in removed \ {Root}
      BY <1>3
    <3>4. Results(w, ex.recorded, removed')
      BY <3>2, <3>3 DEF RInv, Working, Results
    <3> QED BY <2>2, <3>1, <3>4 DEF RInv, Working
  <2>8. Flow'
    <3>1. ASSUME NEW o \in Outs(rm.report, events, ex.unsent) PROVE Honest(o, removed')
      <4>1. o.node \in NodesOf(Outs(rm.report, events, ex.unsent)) /\ Honest(o, removed)
        BY DEF NodesOf, RInv, Flow
      <4>2. o.node # Root
        BY <4>1, IndexedIs DEF RInv, Flow
      <4> QED BY <1>3, <4>1, <4>2 DEF Honest
    <3> QED BY <2>1, <2>2, <3>1 DEF RInv, Flow
  <2>9. DelTypes'
    BY <2>1, <2>2, <2>5 DEF RInv, DelTypes
  <2>10. Stages'
    BY <1>1, <1>3, <2>1, <2>2 DEF RInv, Stages
  <2>11. Kept'
    <3>1. rm.result # "ok"
      BY <1>1, CallerIs
    <3> QED BY <2>1, <2>4, <3>1 DEF Kept, InPlace
  <2> QED BY <2>7, <2>8, <2>9, <2>10, <2>11 DEF RInv
<1> QED BY <1>2, <1>3 DEF RemoveRoot

\* Somebody else takes an entry away, with all that is in it, replaces it or
\* puts one in an empty place.
LEMMA MeddleKeeps ==
    ASSUME RInv, Meddle
    PROVE  RInv'
<1>0. fs \in [Nodes -> Places] /\ Kept /\ Root \in Nodes
  BY ScanAssumption DEF RInv, DelTypes
<1>1. rm.phase = "delete" /\ UNCHANGED <<scanVars, w, ex, events, rm, removed>>
  BY DEF Meddle
<1>2. PICK n \in Meddled :
          /\ fs[Parent[n]] = "here"
          /\ \/ /\ fs[n] = "here"
                /\ \E left \in {"gone", "other"} :
                      fs' = [m \in Nodes |-> IF m = n THEN left
                                             ELSE IF n \in Upward(m) /\ fs[m] # "held" THEN "gone" ELSE fs[m]]
             \/ n \in Late /\ fs[n] = "gone" /\ fs' = [fs EXCEPT ![n] = "other"]
  BY DEF Meddle
<1>3. n \in Nodes \ {Root} /\ Parent[n] \in Nodes /\ n \notin Upward(Parent[n]) /\ Parent[n] # n
  <2>1. n \in Nodes \ {Root} /\ Parent[n] \in Nodes
    BY RemovalAssumption, ScanAssumption
  <2> QED BY <2>1, NoCycle, UpwardIs
<1>4. Kept' /\ fs' \in [Nodes -> Places]
  <2>1. CASE fs[n] = "here" /\ \E left \in {"gone", "other"} :
                fs' = [m \in Nodes |-> IF m = n THEN left
                                       ELSE IF n \in Upward(m) /\ fs[m] # "held" THEN "gone" ELSE fs[m]]
    <3>1. PICK left \in {"gone", "other"} :
             fs' = [m \in Nodes |-> IF m = n THEN left
                                    ELSE IF n \in Upward(m) /\ fs[m] # "held" THEN "gone" ELSE fs[m]]
      BY <2>1
    <3>2. fs'[n] = left /\ fs' \in [Nodes -> Places]
      BY <1>0, <1>3, <3>1 DEF Places
    <3>3. \A m \in Nodes : m # n /\ n \notin Upward(m) => fs'[m] = fs[m]
      BY <3>1
    <3>4. \A m \in Nodes : m # n /\ n \in Upward(m) => fs'[m] = "gone" \/ (fs[m] = "held" /\ fs'[m] = "held")
      BY <3>1
    <3>5. ASSUME NEW m \in InPlace' \ {Root} PROVE fs'[Parent[m]] = "here"
      <4>1. m \in Nodes \ {Root} /\ fs'[m] \in {"here", "other"} /\ Parent[m] \in Nodes
        BY ScanAssumption DEF InPlace
      <4>2. CASE m = n
        BY <1>2, <1>3, <3>3, <4>2
      <4>3. CASE m # n
        <5>1. n \notin Upward(m) /\ fs[m] \in {"here", "other"}
          BY <3>3, <3>4, <4>1, <4>3
        <5>2. n \notin Upward(Parent[m]) /\ Parent[m] # n
          BY <4>1, <5>1, UpwardStep, UpwardIs
        <5>3. fs[Parent[m]] = "here"
          BY <1>0, <4>1, <5>1 DEF Kept, InPlace
        <5> QED BY <3>3, <4>1, <5>2, <5>3
      <4> QED BY <4>2, <4>3
    <3>6. ASSUME NEW m \in Nodes, fs'[m] = "held" PROVE ex'.recovery
      <4>1. fs[m] = "held"
        BY <3>2, <3>3, <3>4, <3>6
      <4> QED BY <1>0, <1>1, <4>1 DEF Kept
    <3>7. fs'[Root] = "here"
      BY <1>0, <1>1, <1>3, <3>3, UpwardRoot DEF Kept
    <3> QED BY <1>0, <1>1, <3>2, <3>5, <3>6, <3>7 DEF Kept
  <2>2. CASE fs[n] = "gone" /\ fs' = [fs EXCEPT ![n] = "other"]
    <3>1. fs' \in [Nodes -> Places] /\ \A m \in Nodes : m # n => fs'[m] = fs[m]
      BY <1>0, <2>2 DEF Places
    <3>2. ASSUME NEW m \in InPlace' \ {Root} PROVE fs'[Parent[m]] = "here"
      <4>1. m \in Nodes \ {Root} /\ fs'[m] \in {"here", "other"} /\ Parent[m] \in Nodes
        BY ScanAssumption DEF InPlace
      <4>2. CASE m = n
        BY <1>2, <1>3, <3>1, <4>2
      <4>3. CASE m # n
        <5>1. fs[Parent[m]] = "here"
          BY <1>0, <3>1, <4>1, <4>3 DEF Kept, InPlace
        <5> QED BY <2>2, <3>1, <4>1, <5>1
      <4> QED BY <4>2, <4>3
    <3>3. ASSUME NEW m \in Nodes, fs'[m] = "held" PROVE ex'.recovery
      BY <1>0, <1>1, <2>2, <3>1, <3>3 DEF Kept
    <3>4. fs'[Root] = "here"
      BY <1>0, <1>1, <1>3, <3>1 DEF Kept
    <3> QED BY <1>0, <1>1, <3>1, <3>2, <3>3, <3>4 DEF Kept
  <2> QED BY <1>2, <2>1, <2>2
<1>5. Indexed' = Indexed
  BY <1>1, IndexedIs DEF scanVars
<1>6. Working(w', Indexed', ex'.recorded, removed') /\ Flow' /\ DelTypes' /\ Stages'
  BY <1>1, <1>4, <1>5 DEF RInv, Flow, DelTypes, Stages
<1> QED BY <1>4, <1>6 DEF RInv

(* The executor starts, or fails to.                                       *)
LEMMA ExecuteKeeps ==
    ASSUME RInv, Execute
    PROVE  RInv'
<1>0. Root \in Dirs
  BY ScanAssumption
<1>1. /\ rm.phase = "delete" /\ ex.phase = "idle" /\ UNCHANGED <<scanVars, fs, events, rm, removed>>
      /\ Indexed' = Indexed
  BY IndexedIs DEF Execute, scanVars
<1>2. /\ events = <<>> /\ rm.report = {} /\ rm.count = 0 /\ ex.unsent = {} /\ removed \subseteq {Root}
      /\ \A n \in Nodes : ex.recorded[n] = None
      /\ \A x \in Dirs : w[x].pc = "idle"
  BY <1>1 DEF RInv, Stages
<1>3. ex \in Executing /\ NoEnd(events)
  BY <1>2 DEF RInv, DelTypes, NoEnd
<1>4. ASSUME NEW p \in {"run", "fail"}, ex' = [ex EXCEPT !.phase = p]
      PROVE  /\ ex' \in Executing /\ ex'.phase = p /\ ex'.recorded = ex.recorded /\ ex'.unsent = ex.unsent
             /\ ex'.recovery = ex.recovery
  BY <1>3, <1>4 DEF Executing
<1>5. CASE ex' = [ex EXCEPT !.phase = "fail"] /\ UNCHANGED w
  <2>1. ex' \in Executing /\ ex'.phase = "fail" /\ ex'.recorded = ex.recorded /\ ex'.unsent = ex.unsent /\ ex'.recovery = ex.recovery
    BY <1>4, <1>5
  <2>2. Working(w', Indexed', ex'.recorded, removed')
    BY <1>1, <1>5, <2>1 DEF RInv
  <2>3. Flow'
    BY <1>0, <1>1, <1>2, <1>5, <2>1 DEF RInv, Flow
  <2>4. DelTypes' /\ Stages' /\ Kept'
    BY <1>0, <1>1, <1>2, <1>3, <1>5, <2>1 DEF RInv, DelTypes, Stages, Kept, InPlace, NoEnd
  <2> QED BY <2>2, <2>3, <2>4 DEF RInv
<1>6. CASE /\ ex' = [ex EXCEPT !.phase = "run"]
           /\ w' = [w EXCEPT ![Root].pc = "walk", ![Root].stack = <<[node |-> Root, todo |-> Children(Root)]>>]
  <2>1. ex' \in Executing /\ ex'.phase = "run" /\ ex'.recorded = ex.recorded /\ ex'.unsent = ex.unsent /\ ex'.recovery = ex.recovery
    BY <1>4, <1>6
  <2> DEFINE f == [node |-> Root, todo |-> Children(Root)]
  <2> DEFINE s == <<f>>
  <2> DEFINE r == Rec("walk", s, w[Root].batch, w[Root].results)
  <2>2. f \in Frame /\ f.node = Root /\ f.todo = Members(Indexed, Root)
    BY <1>0, IndexedIs DEF Frame, Children, Members
  <2>3. w[Root].results = {} /\ w[Root].batch = {} /\ w[Root] \in Walker /\ w \in [Dirs -> Walker]
    BY <1>0, <1>2, Fields DEF RInv, Working, Walks, Neat
  <2>4. w' = [w EXCEPT ![Root] = r]
    <3>1. w' = [w EXCEPT ![Root] = SetStack(w[Root], "walk", s)]
      BY <1>0, <1>6, <2>3 DEF SetStack
    <3> HIDE DEF s
    <3>2. SetStack(w[Root], "walk", s) = r
      BY <2>3, RecExcept
    <3> QED BY <3>1, <3>2
  <2> HIDE DEF f
  <2>5. s \in Seq(Frame) /\ Len(s) = 1 /\ s[1] = f /\ DOMAIN s = {1} /\ 2 .. 1 = {} /\ s # <<>>
    BY <2>2
  <2> HIDE DEF s
  <2>6. r \in Walker /\ r.pc = "walk" /\ r.stack = s /\ r.batch = {} /\ r.results = {}
    BY <2>3, <2>5, RecIs
  <2> HIDE DEF r
  <2>7. w' \in [Dirs -> Walker] /\ w'[Root] = r /\ \A x \in Dirs : x # Root => w'[x] = w[x]
    BY <1>0, <2>3, <2>4, <2>6
  <2>8. Neat(Root, r, Indexed)
    <3>1. Descends(Root, s, Indexed)
      BY <2>2, <2>5, UpwardRoot DEF Descends
    <3> QED BY <2>6, <3>1 DEF Neat, Batched, NodesOf, Unique
  <2>9. Walks(w', Indexed)
    <3>1. \A x \in Dirs : Neat(x, w'[x], Indexed)
      BY <2>7, <2>8 DEF RInv, Working, Walks
    <3>2. \A x \in Dirs \ {Root} : Spawned(x, w', Indexed)
      BY <1>2, <2>7 DEF Spawned
    <3> QED BY <3>1, <3>2 DEF Walks
  <2>10. StillAhead(w', Indexed, ex.recorded, removed)
    <3> SUFFICES ASSUME NEW x \in Dirs, NEW n \in Ahead(x, w'[x], Indexed)
                 PROVE  ex.recorded[n] = None /\ n \notin removed
      BY DEF StillAhead
    <3>1. x = Root
      BY <1>2, <2>7, Resting
    <3>2. n # Root
      BY <2>6, <2>7, <3>1, AheadIs
    <3>3. n \in Nodes
      <4>1. n \in Members(Indexed, Root) \ Dirs \/ \E m \in r.stack[1].todo : n \in Territory(Indexed, m)
        BY <2>6, <2>7, <2>8, <3>1, GroupWithin, IndexedIs
      <4> QED BY <4>1, IndexedIs DEF Members, Territory
    <3> QED BY <1>2, <3>2, <3>3
  <2>11. Results(w', ex.recorded, removed)
    <3>1. \A x \in Dirs : w'[x].results = {}
      BY <1>2, <2>6, <2>7, Resting
    <3> QED BY <1>2, <3>1 DEF Results
  <2>12. Working(w', Indexed', ex'.recorded, removed')
    BY <1>1, <2>1, <2>7, <2>9, <2>10, <2>11 DEF Working
  <2>13. Flow'
    BY <1>1, <2>1 DEF RInv, Flow
  <2>14. DelTypes'
    BY <1>1, <2>1, <2>7 DEF RInv, DelTypes
  <2>15. Stages'
    BY <1>1, <1>3, <2>1, <2>6, <2>7 DEF Stages, NoEnd
  <2>16. Kept'
    BY <1>1, <2>1 DEF RInv, Kept, InPlace
  <2> QED BY <2>12, <2>13, <2>14, <2>15, <2>16 DEF RInv
<1> QED BY <1>5, <1>6 DEF Execute

\* Steps of the executor's end: what is posted, and the next phase.
LEMMA EndKeeps ==
    ASSUME RInv, UNCHANGED <<scanVars, fs, w, rm, removed>>, rm.phase = "delete",
           ex' \in Executing, events' \in Seq(Event), ex'.recovery = ex.recovery, ex'.recorded = ex.recorded,
           ex'.phase \in {"fail", "finish", "over"}, ex'.unsent = {}, Flow',
           \A x \in Dirs : w[x].pc \in {"idle", "done"},
           \A i \in DOMAIN events' : events'[i].kind = "end" => i = Len(events') /\ ex'.phase = "over"
    PROVE  RInv'
<1>1. Indexed' = Indexed
  BY IndexedIs DEF scanVars
<1>2. Working(w', Indexed', ex'.recorded, removed')
  BY <1>1 DEF RInv
<1>3. DelTypes' /\ Stages' /\ Kept'
  BY DEF RInv, DelTypes, Stages, Kept, InPlace
<1> QED BY <1>2, <1>3 DEF RInv

(* At the end every target has an outcome.                                 *)
LEMMA SweepKeeps ==
    ASSUME RInv, Sweep
    PROVE  RInv'
<1> DEFINE missing == {m \in Indexed : ex.recorded[m] = None}
<1> DEFINE left == {[node |-> n, kind |-> "cancelled"] : n \in missing}
<1> DEFINE rep == rm.report
<1> DEFINE un == ex.unsent
<1> DEFINE all == un \cup left
<1> DEFINE next == IF ex.recovery THEN "fail" ELSE "finish"
<1>1. /\ ex.phase = "run" /\ \A x \in Dirs : w[x].pc \in {"idle", "done"}
      /\ UNCHANGED <<scanVars, fs, w, rm, removed>> /\ Indexed' = Indexed
  <2>1. w[Root].pc = "done"
    BY DEF Sweep
  <2> QED BY IndexedIs DEF Sweep, scanVars
<1>2. /\ ex \in Executing /\ events \in Seq(Event) /\ rep \in SUBSET Outcome /\ un \in SUBSET Outcome
      /\ Flow /\ rm.phase = "delete"
  BY <1>1 DEF RInv, DelTypes, Executing, Caller, Stages
<1>3. NoEnd(events)
  BY <1>1 DEF RInv, Stages, NoEnd
<1>4. ex' = [ex EXCEPT !.phase = next, !.unsent = {}]
  BY DEF Sweep
<1>5. events' = IF all = {} THEN events ELSE Append(events, [kind |-> "outcomes", list |-> all])
  BY DEF Sweep
<1>6. next \in {"fail", "finish"}
  OBVIOUS
<1>7. /\ ex' \in Executing /\ ex'.phase = next /\ ex'.unsent = {} /\ ex'.recorded = ex.recorded
      /\ ex'.recovery = ex.recovery
  <2> HIDE DEF next
  <2> QED BY <1>2, <1>4, <1>6 DEF Executing
<1>8. missing \subseteq Indexed /\ \A n \in missing : n \in Nodes \ {Root} /\ ex.recorded[n] = None /\ n \notin removed
  <2> SUFFICES ASSUME NEW n \in Indexed, ex.recorded[n] = None PROVE n \in Nodes \ {Root} /\ n \notin removed
    OBVIOUS
  <2>1. n \in Nodes \ {Root}
    BY IndexedIs
  <2>2. \A x \in Dirs : n \notin NodesOf(w[x].results)
    BY <1>1, Resting DEF NodesOf
  <2> QED BY <2>1, <2>2 DEF RInv, Working, Results
<1> HIDE DEF missing
<1>9. /\ left \in SUBSET Outcome /\ Unique(left) /\ NodesOf(left) = missing
      /\ \A o \in left : Honest(o, removed)
  <2>1. \A o \in left : o = [node |-> o.node, kind |-> "cancelled"] /\ o.node \in missing /\ o.kind = "cancelled"
    OBVIOUS
  <2>2. ASSUME NEW n \in missing PROVE \E o \in left : o.node = n
    <3>1. [node |-> n, kind |-> "cancelled"] \in left /\ [node |-> n, kind |-> "cancelled"].node = n
      OBVIOUS
    <3> QED BY <3>1
  <2> HIDE DEF left
  <2>3. Unique(left)
    BY <2>1 DEF Unique
  <2>4. NodesOf(left) = missing
    BY <2>1, <2>2 DEF NodesOf
  <2>5. left \in SUBSET Outcome
    BY <1>8, <2>1 DEF Outcome, Kinds
  <2>6. \A o \in left : Honest(o, removed)
    BY <1>8, <2>1 DEF Honest
  <2> QED BY <2>3, <2>4, <2>5, <2>6
<1> HIDE DEF left
<1>10. Distinct(rep, events, un)
  BY <1>2 DEF Flow
<1>11. NodesOf(Outs(rep, events, un)) = {n \in Nodes : ex.recorded[n] # None}
       /\ NodesOf(Outs(rep, events, un)) \subseteq Indexed
  BY <1>1, <1>2 DEF Flow
<1>12. \A o \in Outs(rep, events, un) : Honest(o, removed)
  BY <1>2 DEF Flow
<1> HIDE DEF rep, un
<1>13. Separate(left, Outs(rep, events, un))
  BY <1>8, <1>9, <1>11 DEF Separate
<1>14. Grown(rep, events, un, left)
  BY <1>2, <1>9, <1>10, <1>13, FlowGrow
<1>15. all \in SUBSET Outcome /\ Distinct(rep, events, all) /\ Outs(rep, events, all) = Outs(rep, events, un) \cup left
  BY <1>2, <1>9, <1>14 DEF Grown
<1> HIDE DEF all
<1>16. /\ events' \in Seq(Event) /\ NoEnd(events')
       /\ Distinct(rep, events', {})
       /\ Outs(rep, events', {}) = Outs(rep, events, un) \cup left
  <2>1. CASE all = {}
    BY <1>2, <1>3, <1>5, <1>15, <2>1
  <2>2. CASE all # {}
    <3> DEFINE ev2 == events'
    <3>1. ev2 = Posted(events, all)
      BY <1>5, <2>2 DEF Posted
    <3> HIDE DEF ev2
    <3>2. ev2 \in Seq(Event) /\ Distinct(rep, ev2, {}) /\ Outs(rep, ev2, {}) = Outs(rep, events, all)
      BY <1>2, <1>15, <3>1, FlowPost
    <3>3. NoEnd(ev2)
      BY <1>2, <1>3, <1>15, <3>1, NoEndAppended
    <3> QED BY <1>15, <3>2, <3>3 DEF ev2
  <2> QED BY <2>1, <2>2
<1>17. NodesOf(Outs(rep, events', {})) = Indexed
  <2>1. NodesOf(Outs(rep, events', {})) = NodesOf(Outs(rep, events, un)) \cup missing
    BY <1>9, <1>16, NodesOfUnion
  <2>2. \A n \in Indexed : n \in Nodes /\ (n \in missing <=> ex.recorded[n] = None)
    BY IndexedIs DEF missing
  <2> QED BY <1>8, <1>11, <2>1, <2>2
<1>18. \A o \in Outs(rep, events', {}) : Honest(o, removed)
  BY <1>9, <1>12, <1>16
<1>19. Flow'
  <2>1. rm' = rm /\ removed' = removed /\ ex'.unsent = {} /\ ex'.phase \notin {"idle", "run"}
    BY <1>1, <1>6, <1>7
  <2>2. rm.count = Cardinality(rm.report)
    BY <1>2 DEF Flow
  <2> QED BY <1>1, <1>16, <1>17, <1>18, <2>1, <2>2 DEF Flow, rep
<1>20. ex'.phase \in {"fail", "finish", "over"}
  BY <1>6, <1>7
<1>21. \A i \in DOMAIN events' : events'[i].kind = "end" => i = Len(events') /\ ex'.phase = "over"
  BY <1>16 DEF NoEnd
<1> QED BY <1>1, <1>2, <1>7, <1>16, <1>19, <1>20, <1>21, EndKeeps

LEMMA SendReports ==
    ASSUME RInv, NEW k \in {"failed", "end"}, ex.phase \in {"fail", "finish"}, NEW p \in {"finish", "over"},
           events' = Append(events, [kind |-> k]), ex' = [ex EXCEPT !.phase = p], k = "end" => p = "over",
           UNCHANGED <<scanVars, fs, w, rm, removed>>
    PROVE  RInv'
<1> DEFINE rep == rm.report
<1> DEFINE un == ex.unsent
<1> DEFINE ev2 == events'
<1>1. /\ ex \in Executing /\ events \in Seq(Event) /\ rep \in SUBSET Outcome /\ un \in SUBSET Outcome
      /\ Flow /\ rm.phase = "delete" /\ un = {} /\ \A x \in Dirs : w[x].pc \in {"idle", "done"}
  BY DEF RInv, DelTypes, Executing, Caller, Stages
<1>2. NoEnd(events)
  BY DEF RInv, Stages, NoEnd
<1>3. /\ ex' \in Executing /\ ex'.phase = p /\ ex'.unsent = un /\ ex'.recorded = ex.recorded
      /\ ex'.recovery = ex.recovery
  BY <1>1 DEF Executing
<1>4. Distinct(rep, events, un)
  BY <1>1 DEF Flow
<1>5. ev2 = Append(events, [kind |-> k]) /\ ev2 = Signalled(events, k)
  BY DEF Signalled
<1> HIDE DEF rep, un, ev2
<1>6. ev2 \in Seq(Event) /\ Distinct(rep, ev2, un) /\ Outs(rep, ev2, un) = Outs(rep, events, un)
  <2>1. events \in Seq(Event) /\ rep \in SUBSET Outcome /\ un \in SUBSET Outcome
    BY <1>1
  <2>2. ev2 = Signalled(events, k)
    BY <1>5
  <2>3. Unchanged(rep, events, ev2, un)
    BY <1>4, <2>1, <2>2, FlowOther, SMTT(20)
  <2> QED BY <2>3 DEF Unchanged
<1>7. \A i \in DOMAIN ev2 : ev2[i].kind = "end" => i = Len(ev2) /\ k = "end"
  <2> DEFINE e == [kind |-> k]
  <2>1. e \in Event /\ e.kind = k
    BY EventIs
  <2> HIDE DEF e
  <2>2. /\ Len(ev2) = Len(events) + 1 /\ DOMAIN ev2 = DOMAIN events \cup {Len(events) + 1}
        /\ \A i \in DOMAIN events : ev2[i] = events[i]
        /\ ev2[Len(events) + 1] = e
    BY <1>1, <1>5, <2>1, EventAppended DEF e
  <2> QED BY <1>2, <2>1, <2>2 DEF NoEnd
<1>8. Flow'
  <2>1. Indexed' = Indexed
    BY IndexedIs DEF scanVars
  <2> QED BY <1>1, <1>3, <1>6, <2>1 DEF Flow, rep, un, ev2
<1>9. /\ events' \in Seq(Event) /\ ex'.unsent = {} /\ ex'.phase \in {"fail", "finish", "over"}
      /\ \A i \in DOMAIN events' : events'[i].kind = "end" => i = Len(events') /\ ex'.phase = "over"
  BY <1>1, <1>3, <1>6, <1>7 DEF ev2
<1> QED BY <1>1, <1>3, <1>8, <1>9, EndKeeps

LEMMA SendFailureKeeps ==
    ASSUME RInv, SendFailure
    PROVE  RInv'
<1> PICK k \in {"failed"} : k = "failed"
  OBVIOUS
<1>1. /\ ex.phase \in {"fail", "finish"} /\ k \in {"failed", "end"} /\ k # "end"
      /\ events' = Append(events, [kind |-> k]) /\ ex' = [ex EXCEPT !.phase = "finish"]
      /\ UNCHANGED <<scanVars, fs, w, rm, removed>>
  BY DEF SendFailure
<1> QED BY <1>1, SendReports

LEMMA SendEndKeeps ==
    ASSUME RInv, SendEnd
    PROVE  RInv'
<1> PICK k \in {"end"} : k = "end"
  OBVIOUS
<1>1. /\ ex.phase \in {"fail", "finish"} /\ k \in {"failed", "end"}
      /\ events' = Append(events, [kind |-> k]) /\ ex' = [ex EXCEPT !.phase = "over"]
      /\ UNCHANGED <<scanVars, fs, w, rm, removed>>
  BY DEF SendEnd
<1> QED BY <1>1, SendReports

-----------------------------------------------------------------------------
(* rmrf takes an event, and passes the cancellation on.                    *)

LEMMA CancelIs ==
    ASSUME RInv, NEW c \in BOOLEAN, ex' = [ex EXCEPT !.cancelled = c]
    PROVE  /\ ex' \in Executing /\ ex'.phase = ex.phase /\ ex'.recorded = ex.recorded
           /\ ex'.unsent = ex.unsent /\ ex'.recovery = ex.recovery
BY DEF RInv, DelTypes, Executing

LEMMA DrainTimeoutKeeps ==
    ASSUME RInv, DrainTimeout
    PROVE  RInv'
<1>1. /\ ex' \in Executing /\ ex'.phase = ex.phase /\ ex'.recorded = ex.recorded
      /\ ex'.unsent = ex.unsent /\ ex'.recovery = ex.recovery
  BY CancelIs DEF DrainTimeout
<1>2. UNCHANGED <<scanVars, fs, w, events, rm, removed>> /\ Indexed' = Indexed
  BY IndexedIs DEF DrainTimeout, scanVars
<1>3. Working(w', Indexed', ex'.recorded, removed')
  BY <1>1, <1>2 DEF RInv
<1>4. Flow'
  BY <1>1, <1>2 DEF RInv, Flow
<1>5. DelTypes' /\ Stages' /\ Kept'
  BY <1>1, <1>2 DEF RInv, DelTypes, Stages, Kept, InPlace
<1> QED BY <1>3, <1>4, <1>5 DEF RInv

LEMMA DrainKeeps ==
    ASSUME RInv, Drain
    PROVE  RInv'
<1> DEFINE e == Head(events)
<1> DEFINE list == IF e.kind = "outcomes" THEN e.list ELSE {}
<1> DEFINE rep == rm.report
<1> DEFINE rep2 == rm'.report
<1> DEFINE tl == Tail(events)
<1>1. /\ ex \in Executing /\ events \in Seq(Event) /\ events # <<>> /\ rep \in SUBSET Outcome
      /\ ex.unsent \in SUBSET Outcome /\ rm \in Caller /\ rm.phase = "delete" /\ rm.count \in Nat
  BY DEF Drain, RInv, DelTypes, Executing, Caller
<1>2. /\ e = events[1] /\ e \in Event /\ 1 \in DOMAIN events /\ tl \in Seq(Event) /\ Len(tl) = Len(events) - 1
      /\ \A i \in DOMAIN tl : i + 1 \in DOMAIN events /\ tl[i] = events[i + 1]
  BY <1>1, EventTaken
<1>3. list \in SUBSET Outcome
  BY <1>2, EventIs
<1>4. /\ ex' \in Executing /\ ex'.phase = ex.phase /\ ex'.recorded = ex.recorded
      /\ ex'.unsent = ex.unsent /\ ex'.recovery = ex.recovery
  <2>1. PICK c \in BOOLEAN : ex' = [ex EXCEPT !.cancelled = c]
    <3>1. (ex.cancelled \/ flags.user) \in BOOLEAN
      OBVIOUS
    <3> QED BY <3>1 DEF Drain
  <2> QED BY <2>1, CancelIs
<1>5. UNCHANGED <<scanVars, fs, w, removed>> /\ Indexed' = Indexed /\ events' = tl
  BY IndexedIs DEF Drain, scanVars
<1>6. Distinct(rep, events, ex.unsent)
  BY DEF RInv, Flow
<1>7. /\ rep \cap list = {} /\ Distinct(rep \cup list, tl, ex.unsent)
      /\ Outs(rep \cup list, tl, ex.unsent) = Outs(rep, events, ex.unsent)
  <2> DEFINE un == ex.unsent
  <2>1. un \in SUBSET Outcome /\ Distinct(rep, events, un)
    BY <1>1, <1>6
  <2>3. list = Carried(events)
    BY DEF Carried
  <2> HIDE DEF rep, un, list, e
  <2>2. Taken(rep, events, un, list)
    BY <1>1, <1>3, <2>1, <2>3, FlowTake
  <2> QED BY <2>2 DEF un, Taken
<1>8. e.kind \in {"outcomes", "failed", "end"}
  BY <1>2 DEF Event
<1>9. /\ rm' \in Caller /\ rep2 = rep \cup list /\ rm'.count = Cardinality(rep2)
      /\ rm'.result = rm.result /\ rm'.phase = IF e.kind = "end" THEN "verdict" ELSE "delete"
  <2>0. rm.count = Cardinality(rep)
    BY DEF RInv, Flow
  <2>1. IsFiniteSet(rep) /\ IsFiniteSet(list)
    BY <1>1, <1>3, OutcomesFinite, FS_Subset
  <2>2. Cardinality(rep \cup list) = Cardinality(rep) + Cardinality(list)
    <3>1. Cardinality(rep \cup list) = Cardinality(rep) + Cardinality(list) - Cardinality(rep \cap list)
      BY <2>1, FS_Union
    <3>2. Cardinality(rep \cap list) = 0
      BY <1>7, FS_EmptySet
    <3>3. Cardinality(rep) \in Nat /\ Cardinality(list) \in Nat
      BY <2>1, FS_CardinalityType
    <3> QED BY <3>1, <3>2, <3>3
  <2>3. Cardinality(list) \in Nat
    BY <2>1, FS_CardinalityType
  <2>4. CASE e.kind = "outcomes"
    <3>0. PICK output \in OutputFails :
            rm' = [rm EXCEPT !.report = @ \cup list, !.count = @ + Cardinality(list), !.error = @ \/ output]
      BY <2>4 DEF Drain
    <3>1. PICK error \in BOOLEAN :
            rm' = [rm EXCEPT !.report = @ \cup list, !.count = @ + Cardinality(list), !.error = error]
      <4>1. (rm.error \/ output) \in BOOLEAN
        OBVIOUS
      <4> QED BY <3>0, <4>1
    <3>2. e.kind # "end"
      BY <2>4
    <3>3. /\ rm' \in Caller /\ rm'.report = rm.report \cup list /\ rm'.count = rm.count + Cardinality(list)
          /\ rm'.result = rm.result /\ rm'.phase = rm.phase
      <4> DEFINE c == Cardinality(list)
      <4>1. rm.count + c \in Nat /\ rm.report \cup list \in SUBSET Outcome
        BY <1>1, <1>3, <2>3
      <4>2. rm' = [rm EXCEPT !.report = @ \cup list, !.count = @ + c, !.error = error]
        BY <3>1
      <4> HIDE DEF c, list, e
      <4>3. rm' \in Caller /\ rm'.report = rm.report \cup list /\ rm'.count = rm.count + c
        BY <1>1, <4>1, <4>2 DEF Caller
      <4>4. rm'.result = rm.result /\ rm'.phase = rm.phase
        BY <1>1, <4>2 DEF Caller
      <4> QED BY <4>3, <4>4 DEF c
    <3>4. rep2 = rep \cup list
      BY <3>3
    <3>5. rm'.count = Cardinality(rep2)
      BY <2>0, <2>2, <3>3, <3>4
    <3> QED BY <1>1, <3>2, <3>3, <3>4, <3>5
  <2>5. CASE e.kind = "failed"
    <3>1. rm' = [rm EXCEPT !.error = TRUE]
      BY <2>5 DEF Drain
    <3>2. list = {} /\ e.kind # "end"
      BY <2>5
    <3> HIDE DEF list, e
    <3> QED BY <1>1, <2>0, <3>1, <3>2 DEF Caller
  <2>6. CASE e.kind = "end"
    <3>1. rm' = [rm EXCEPT !.phase = "verdict"]
      BY <2>6 DEF Drain
    <3>2. list = {}
      BY <2>6
    <3> HIDE DEF list, e
    <3> QED BY <1>1, <2>0, <2>6, <3>1, <3>2 DEF Caller
  <2> QED BY <1>8, <2>4, <2>5, <2>6
<1>10. /\ \A i \in DOMAIN tl : tl[i].kind = "end" => i = Len(tl) /\ ex.phase = "over"
       /\ e.kind = "end" => tl = <<>> /\ ex.phase = "over"
  <2>1. \A i \in DOMAIN events : events[i].kind = "end" => i = Len(events) /\ ex.phase = "over"
    BY DEF RInv, Stages
  <2>2. ASSUME NEW i \in DOMAIN tl, tl[i].kind = "end" PROVE i = Len(tl) /\ ex.phase = "over"
    <3> DEFINE top == Len(events)
    <3>1. i \in Nat /\ i + 1 = top /\ ex.phase = "over"
      BY <1>2, <2>1, <2>2
    <3>2. Len(tl) = top - 1 /\ top \in Nat
      BY <1>1, <1>2
    <3> HIDE DEF top, tl
    <3> QED BY <3>1, <3>2
  <2>3. ASSUME e.kind = "end" PROVE tl = <<>> /\ ex.phase = "over"
    <3>1. 1 = Len(events) /\ ex.phase = "over"
      BY <1>2, <2>1, <2>3
    <3> HIDE DEF tl
    <3>2. Len(tl) = 0
      BY <1>2, <3>1
    <3> QED BY <1>2, <3>1, <3>2
  <2> QED BY <2>2, <2>3
<1> HIDE DEF e, list, rep, rep2, tl
<1>11. ex.phase # "idle"
  BY <1>1 DEF RInv, Stages
<1>12. Working(w', Indexed', ex'.recorded, removed')
  BY <1>4, <1>5 DEF RInv
<1>13. Flow'
  <2>1. Distinct(rep2, tl, ex.unsent) /\ Outs(rep2, tl, ex.unsent) = Outs(rep, events, ex.unsent)
    BY <1>7, <1>9
  <2>2. Distinct(rm'.report, events', ex'.unsent)
    BY <1>4, <1>5, <2>1 DEF rep2
  <2>3. Outs(rm'.report, events', ex'.unsent) = Outs(rm.report, events, ex.unsent)
    BY <1>4, <1>5, <2>1 DEF rep, rep2
  <2>4. rm'.count = Cardinality(rm'.report)
    BY <1>9 DEF rep2
  <2> QED BY <1>4, <1>5, <2>2, <2>3, <2>4 DEF RInv, Flow
<1>14. DelTypes'
  BY <1>2, <1>4, <1>5, <1>9 DEF RInv, DelTypes
<1>15. Stages'
  BY <1>1, <1>4, <1>5, <1>9, <1>10, <1>11 DEF RInv, Stages
<1>16. Kept'
  BY <1>1, <1>4, <1>5, <1>9, CallerIs DEF RInv, Kept, InPlace
<1> QED BY <1>12, <1>13, <1>14, <1>15, <1>16 DEF RInv

LEMMA EnterKeeps ==
    ASSUME RInv, NEW x \in Dirs, Enter(x)
    PROVE  RInv'
BY EnterIs, EnterTopKeeps, EnterNestedKeeps

-----------------------------------------------------------------------------
(* The theorem.                                                            *)

LEMMA InitEstablishes == Init => RInv
<1> SUFFICES ASSUME Init PROVE RInv
  OBVIOUS
<1>0. Root \in Nodes /\ Root \notin Late /\ None \notin Kinds
  BY ScanAssumption, TreeAssumption DEF None, Kinds
<1>1. /\ w = [x \in Dirs |-> [pc |-> "idle", stack |-> <<>>, batch |-> {}, results |-> {}]]
      /\ fs = [n \in Nodes |-> IF n \in Late THEN "gone" ELSE "here"]
      /\ ex = [phase |-> "idle", recorded |-> [n \in Nodes |-> None], unsent |-> {},
               cancelled |-> FALSE, recovery |-> FALSE]
      /\ events = <<>> /\ removed = {}
      /\ rm = [phase |-> "admit", report |-> {}, count |-> 0, error |-> FALSE, result |-> None]
  BY DEF Init
<1>2. \A x \in Dirs : w[x].pc = "idle" /\ w[x].stack = <<>> /\ w[x].batch = {} /\ w[x].results = {}
  BY <1>1
<1>3. w \in [Dirs -> Walker]
  BY <1>1 DEF Walker
<1>4. DelTypes
  <2>1. ex \in Executing
    BY <1>1 DEF Executing
  <2>2. rm \in Caller
    BY <1>1 DEF Caller
  <2>3. fs \in [Nodes -> Places] /\ events \in Seq(Event)
    BY <1>1 DEF Places
  <2> QED BY <1>1, <1>3, <2>1, <2>2, <2>3 DEF DelTypes
<1>5. Working(w, Indexed, ex.recorded, removed)
  <2>1. \A x \in Dirs : Neat(x, w[x], Indexed) /\ Ahead(x, w[x], Indexed) = {}
    BY <1>2 DEF Neat, Ahead
  <2>2. Walks(w, Indexed)
    BY <1>2, <2>1 DEF Walks, Spawned
  <2>3. Results(w, ex.recorded, removed)
    BY <1>1, <1>2 DEF Results
  <2> QED BY <1>3, <2>1, <2>2, <2>3 DEF Working, StillAhead
<1>6. Flow
  <2>1. Told(events) = {} /\ NodesOf({}) = {} /\ Unique({})
    BY <1>1 DEF Told, NodesOf, Unique
  <2>2. rm.report = {} /\ rm.count = 0 /\ ex.unsent = {} /\ ex.phase = "idle"
    BY <1>1
  <2>3. Outs(rm.report, events, ex.unsent) = {}
    BY <2>1, <2>2 DEF Outs, Lists
  <2>4. {n \in Nodes : ex.recorded[n] # None} = {}
    BY <1>1
  <2>5. Cardinality({}) = 0
    BY FS_EmptySet
  <2> QED BY <2>1, <2>2, <2>3, <2>4, <2>5 DEF Flow, Distinct
<1>7. Stages
  BY <1>1, <1>2 DEF Stages
<1>8. Kept
  <2>1. ASSUME NEW n \in InPlace \ {Root} PROVE fs[Parent[n]] = "here"
    <3>1. n \in Nodes /\ n \notin Late /\ Parent[n] \in Nodes
      BY <1>1, <2>1, ScanAssumption DEF InPlace
    <3>2. Parent[n] \notin Late
      BY <3>1, TreeAssumption
    <3> QED BY <1>1, <3>1, <3>2
  <2>2. rm.result # "ok"
    BY <1>1 DEF None
  <2> QED BY <1>0, <1>1, <2>1, <2>2 DEF Kept
<1> QED BY <1>4, <1>5, <1>6, <1>7, <1>8 DEF RInv

LEMMA NextKeeps == RInv /\ [Next]_vars => RInv'
<1> SUFFICES ASSUME RInv, [Next]_vars PROVE RInv'
  OBVIOUS
<1>1. CASE rm.phase = "scan" /\ UNCHANGED delVars
  BY <1>1, CallerIs, IdleKeeps
<1>2. ASSUME NEW x \in Dirs, Walk(x) PROVE RInv'
  BY <1>2, StopWalkKeeps, TakeFileKeeps, FlushBatchKeeps, RemoveFileKeeps, RecordBatchKeeps, EnterKeeps,
     LoseParentKeeps, RemoveDirectoryKeeps, RecordDirectoryKeeps DEF Walk
<1>3. CASE Executor
  BY <1>3, ExecuteKeeps, SpawnKeeps, GroupDoneKeeps, SweepKeeps, SendFailureKeeps, SendEndKeeps DEF Executor
<1>4. CASE Rmrf
  BY <1>4, AdmitKeeps, PlanKeeps, DrainKeeps, DrainTimeoutKeeps, VerdictKeeps, RemoveRootKeeps, ReturnKeeps DEF Rmrf
<1>5. CASE (UserCancel \/ \E x \in Threads : NoteSample(x)) /\ UNCHANGED delVars
  BY <1>5, UnseenKeeps DEF UserCancel, NoteSample, delVars
<1>6. CASE Meddle
  BY <1>6, MeddleKeeps
<1>7. CASE UNCHANGED vars
  BY <1>7, UnseenKeeps DEF vars, scanVars
<1> QED BY <1>1, <1>2, <1>3, <1>4, <1>5, <1>6, <1>7 DEF Next, Work

LEMMA ReportFollows == RInv => ReportExact
<1> SUFFICES ASSUME RInv PROVE ReportExact
  OBVIOUS
<1>1. ASSUME rm.phase = "verdict", w[Root].pc = "done"
      PROVE  {o.node : o \in rm.report} = Indexed /\ rm.count = Cardinality(Indexed)
  <2>1. ex.phase = "over" /\ events = <<>> /\ ex.unsent = {}
    BY <1>1 DEF RInv, Stages
  <2>2. Outs(rm.report, events, ex.unsent) = rm.report
    BY <2>1 DEF Outs, Lists, Told
  <2>3. NodesOf(rm.report) = Indexed
    BY <1>1, <2>1, <2>2 DEF RInv, Flow
  <2>4. rm.report \in SUBSET Outcome /\ Unique(rm.report) /\ rm.count = Cardinality(rm.report)
    BY DEF RInv, DelTypes, Caller, Flow, Distinct
  <2>5. Cardinality(rm.report) = Cardinality(NodesOf(rm.report))
    BY <2>4, UniqueCount
  <2>6. rm.count = Cardinality(Indexed)
    BY <2>3, <2>4, <2>5
  <2> QED BY <2>3, <2>6 DEF NodesOf
<1>2. ASSUME NEW o \in rm.report PROVE Honest(o, removed)
  BY <1>2 DEF RInv, Flow, Outs
<1>3. rm.result = "ok" => \A n \in Nodes : fs[n] = "gone"
  BY CallerIs
<1> QED BY <1>1, <1>2, <1>3 DEF ReportExact, Honest

(* The invariant that carries the report: what the threads have still to do *)
(* is disjoint and neither reported nor removed, and no outcome is lost or  *)
(* doubled on its way to rmrf.                                              *)
THEOREM RemovalKeeps == Spec => []RInv
<1>1. Init => RInv
  BY InitEstablishes
<1>2. RInv /\ [Next]_vars => RInv'
  BY NextKeeps
<1> QED BY <1>1, <1>2, PTL DEF Spec

(* rmrf's report (src/rmrf.rs, remove_directory): when it judges, it has    *)
(* one outcome for each planned entry and has counted as many; what is     *)
(* reported deleted was unlinked by the executor, what is reported not      *)
(* attempted, changed or absent was not; and it succeeds only when nothing  *)
(* of the tree is left.                                                     *)
THEOREM ReportsExact == Spec => []ReportExact
<1>1. RInv => ReportExact
  BY ReportFollows
<1> QED BY <1>1, RemovalKeeps, PTL
=============================================================================
