-------------------------- MODULE HistoryStoreProofs --------------------------
(***************************************************************************)
(* AckedSurvives, ViewExact and NoSelfDamage for any number of shells,     *)
(* occurrences, generations, operations, failures, crashes and damage.     *)
(***************************************************************************)
EXTENDS HistoryStore, SequenceTheorems, FiniteSetTheorems, WellFoundedInduction, TLAPS

Files == [log : Log, legacy : SUBSET Occs, saved : SUBSET Occs]

Thens == {"idle", "read", "salvage", "loading", "retire", "apply"}
Shell ==
    [pc : Pcs, op : Ops, gen : 0 .. MaxGen, last : 0 .. MaxOcc, view : Seq(Occs), cursor : Cursor,
     work : Cursor, snap : Seq(Frame), snapgen : 0 .. MaxGen, pub : Log, then : Thens,
     fresh : 0 .. MaxOcc, salvaged : BOOLEAN]

TypeOK ==
    /\ fs \in Files /\ disk \subseteq Files
    /\ sh \in [Shells -> Shell]
    /\ ghost \in Ghost
    /\ budget \in [ops : Nat, occ : 0 .. MaxOcc, fail : Nat, crash : Nat, rot : 0 .. MaxRot]
-----------------------------------------------------------------------------
(* A file system state.                                                    *)

\* A frame that reads well, or one that was damaged in place.
Solid(x) == x.st = "ok" \/ (x.st \in {"bad", "rot"} /\ x.occ \in ghost.damaged)

Increasing(fr) == \A i, j \in DOMAIN fr : i < j => fr[i].id < fr[j].id

\* A frame that was not wholly written, whose occurrence nobody was told of.
Loose(x) == x.st # "ok" /\ x.occ \notin ghost.acked

\* Only the last frame can be that.
Framed(fr) == \A i \in DOMAIN fr : Solid(fr[i]) \/ (i = Len(fr) /\ Loose(fr[i]))

Survives(f) == ghost.acked \subseteq Kept(f) \cup ghost.erased \cup ghost.damaged

FileOK(f) ==
    /\ Increasing(f.log.frames) /\ Framed(f.log.frames)
    /\ f.log.ino = 0 => f.log.frames = <<>> /\ f.log.gen = 0 /\ f.legacy = 1 .. Legacy
    /\ Survives(f)

DiskInv == fs \in disk /\ \A f \in disk : FileOK(f)

\* Occurrences are numbered as they are written.
GhostInv ==
    /\ \A o \in ghost.acked : o <= MaxOcc - budget.occ
    /\ budget.rot = MaxRot => ghost.damaged = {}
-----------------------------------------------------------------------------
(* What a shell knows of the log.                                          *)

IdAt(fr, k) == IF k = 0 THEN 0 ELSE fr[k].id

\* A cursor is past solid frames and remembers the last one's id.
Points(c, log, n) ==
    /\ c.off <= n /\ c.last = IdAt(log.frames, c.off)
    /\ \A i \in 1 .. c.off : Solid(log.frames[i])

\* With respect to the first n frames.
Agrees(s, log, n) ==
    /\ s.gen <= log.gen /\ s.cursor.gen <= log.gen
    /\ log.ino = 0 => s.cursor = Default
    /\ s.cursor.ino = log.ino /\ s.cursor.gen = log.gen => Points(s.cursor, log, n)
    /\ s.gen = log.gen =>
          /\ Len(s.view) <= n
          /\ \A i \in DOMAIN s.view : s.view[i] = log.frames[i].occ
          /\ s.last = IdAt(log.frames, Len(s.view))

\* A snapshot holds what the shell does not have of the first n frames.
Snapshot(s, log, n) ==
    LET old == IF s.gen = log.gen THEN Len(s.view) ELSE 0
    IN  /\ s.snapgen = log.gen
        /\ old + Len(s.snap) = n
        /\ \A i \in DOMAIN s.snap : s.snap[i] = log.frames[old + i]
        /\ \/ s.work.ino = log.ino /\ s.work.gen = log.gen /\ s.work.off = n
              /\ Points(s.work, log, n)
           \/ s.op = "reset" /\ s.work = Default

\* A new generation after a reset.
Emptied(s, log) == s.op = "reset" /\ s.snap = <<>> /\ log.frames = <<>> /\ s.snapgen = log.gen /\ s.work = Default

OkOccs(fr) == {x.occ : x \in {y \in Range(fr) : y.st = "ok"}}

\* The log that is about to replace the current one.
Publishes(s, f) ==
    /\ Increasing(s.pub.frames) /\ Framed(s.pub.frames) /\ Survives([f EXCEPT !.log = s.pub])
    /\ IF s.then = "retire" THEN f.log.ino = 0 /\ s.pub.gen = 0 /\ f.legacy \subseteq OkOccs(s.pub.frames)
                            ELSE s.pub.gen > f.log.gen
    /\ s.then = "apply" => Emptied(s, s.pub)

\* What follows the publication.
Resumes(s) ==
    /\ s.then = "read" => s.op \in {"load", "sync", "add", "render"} /\ s.work = Default
    /\ s.then \in {"salvage", "loading", "retire"} => s.op = "load"
    /\ s.then # "idle"

\* The frame being written is the last, and nobody has read it.
Appending(s, log) ==
    /\ Len(log.frames) = s.work.off + 1 /\ s.op = "add"
    /\ log.frames[s.work.off + 1].occ = s.fresh /\ s.fresh \notin ghost.acked
    /\ s.fresh <= MaxOcc - budget.occ
    /\ \A q \in Shells : Agrees(sh[q], log, s.work.off)

Busy == {"open", "retire", "read", "salvage", "write", "fsync", "rollback", "reset",
         "rename", "dirsync", "apply"}

OwnerOK(p) ==
    LET s == sh[p]
        log == fs.log
        n == Len(log.frames)
    IN  /\ s.pc \in Busy => holder = p
        /\ s.pc \in {"retire", "write", "fsync", "rollback", "dirsync", "apply"} => log.ino # 0
        /\ s.pc \in {"open", "retire", "salvage"} => s.op = "load"
        /\ s.pc = "read" => s.op # "reset" /\ s.work \in {Default, s.cursor}
        /\ s.pc = "reset" => s.op = "reset"
        /\ s.pc = "rename" => Publishes(s, fs) /\ Resumes(s)
        /\ s.pc = "dirsync" =>
              /\ Resumes(s)
              /\ s.then = "retire" => fs.legacy \subseteq OkOccs(log.frames)
              /\ s.then = "apply" => Emptied(s, log) /\ s.gen < log.gen
        /\ s.pc = "retire" => fs.legacy \subseteq OkOccs(log.frames)
        /\ s.pc = "write" => s.op = "add" /\ Snapshot(s, log, n)
        /\ s.pc = "fsync" => /\ Appending(s, log) /\ Snapshot(s, log, s.work.off)
                             /\ log.frames[n] = Good(s.work.last + 1, s.fresh)
        /\ s.pc = "rollback" => Appending(s, log)
        /\ s.pc = "apply" => /\ s.op # "render" => Snapshot(s, log, n)
                             /\ s.op = "add" => s.fresh \in OkOccs(log.frames) /\ s.fresh <= MaxOcc - budget.occ
                                                /\ disk = {fs}

\* Between two steps of a load.
Loading(s) == s.pc \in {"loading", "salvaging"} => s.op = "load"

ShellsInv == \A p \in Shells : Agrees(sh[p], fs.log, Len(fs.log.frames)) /\ OwnerOK(p) /\ Loading(sh[p])

IInv == TypeOK /\ DiskInv /\ GhostInv /\ ShellsInv
-----------------------------------------------------------------------------
(* Records and sequences.                                                  *)

LEMMA BoundsFacts ==
    /\ None \notin Shells /\ 0 \notin Inos /\ MaxOcc \in Nat /\ MaxGen \in Nat /\ MaxOps \in Nat
    /\ MaxFail \in Nat /\ MaxCrash \in Nat /\ MaxRot \in Nat /\ Legacy \in Nat /\ Legacy <= MaxOcc
  BY BoundsAssumption

LEMMA DefaultType == Default \in Cursor
  BY BoundsFacts DEF Default, Cursor

LEMMA NoLogType == NoLog \in Log /\ NoLog.frames = <<>> /\ NoLog.gen = 0 /\ NoLog.ino = 0
  <1>1. <<>> \in Seq(Frame)
    BY EmptySeq
  <1>. QED  BY <1>1, BoundsFacts DEF NoLog, Log

LEMMA Shell0Type == Shell0 \in Shell
  <1>1. <<>> \in Seq(Frame) /\ <<>> \in Seq(Occs)
    BY EmptySeq
  <1>. QED  BY <1>1, DefaultType, NoLogType, BoundsFacts DEF Shell0, Shell, Pcs, Ops, Thens

\* What the History and Store of a shell hold between operations.
SameView(s, l) == l.gen = s.gen /\ l.last = s.last /\ l.view = s.view /\ l.cursor = s.cursor

LEMMA RestType ==
    ASSUME NEW s \in Shell, NEW pc \in Pcs
    PROVE  Rest(s, pc) \in Shell /\ Rest(s, pc).pc = pc /\ Rest(s, pc).op = s.op /\ SameView(s, Rest(s, pc))
  <1>1. <<>> \in Seq(Frame)
    BY EmptySeq
  <1>2. "idle" \in Thens /\ 0 \in 0 .. MaxGen /\ 0 \in 0 .. MaxOcc
    BY BoundsFacts DEF Thens
  <1>3. Rest(s, pc) \in Shell
    BY <1>1, <1>2, DefaultType, NoLogType DEF Rest, Shell
  <1>4. Rest(s, pc).pc = pc /\ Rest(s, pc).op = s.op /\ SameView(s, Rest(s, pc))
    BY DEF Rest, Shell, SameView
  <1>. QED  BY <1>3, <1>4

LEMMA LocalFacts ==
    ASSUME sh \in [Shells -> Shell], NEW p \in Shells, NEW l \in Shell, sh' = [sh EXCEPT ![p] = l]
    PROVE  sh' \in [Shells -> Shell] /\ sh'[p] = l /\ \A q \in Shells \ {p} : sh'[q] = sh[q]
  OBVIOUS

LEMMA GotoFacts ==
    ASSUME sh \in [Shells -> Shell], NEW p \in Shells, NEW pc \in Pcs, Goto(p, pc)
    PROVE  /\ sh' \in [Shells -> Shell] /\ sh'[p] = [sh[p] EXCEPT !.pc = pc]
           /\ \A q \in Shells \ {p} : sh'[q] = sh[q]
  <1>1. [sh[p] EXCEPT !.pc = pc] \in Shell
    BY DEF Shell
  <1>2. sh' = [sh EXCEPT ![p] = [sh[p] EXCEPT !.pc = pc]]
    BY DEF Goto
  <1>. QED  BY <1>1, <1>2, LocalFacts

LEMMA PrefixFacts ==
    ASSUME NEW fr \in Seq(Frame), NEW n \in 0 .. Len(fr)
    PROVE  /\ SubSeq(fr, 1, n) \in Seq(Frame) /\ Len(SubSeq(fr, 1, n)) = n
           /\ \A i \in 1 .. n : SubSeq(fr, 1, n)[i] = fr[i]
  <1>1. \A i \in 1 .. n : fr[i] \in Frame
    BY ElementOfSeq, LenProperties
  <1>. QED  BY <1>1, SubSeqProperties, LenProperties

LEMMA SubSeqFacts ==
    ASSUME NEW fr \in Seq(Frame), NEW m \in 0 .. Len(fr)
    PROVE  /\ SubSeq(fr, m + 1, Len(fr)) \in Seq(Frame) /\ Len(SubSeq(fr, m + 1, Len(fr))) = Len(fr) - m
           /\ \A i \in 1 .. Len(fr) - m : SubSeq(fr, m + 1, Len(fr))[i] = fr[m + i]
  <1>1. Len(fr) \in Nat /\ \A i \in m + 1 .. Len(fr) : fr[i] \in Frame
    BY ElementOfSeq, LenProperties
  <1>2. \A i \in 1 .. Len(fr) - m : (m + 1) + i - 1 = m + i
    BY <1>1
  <1>. QED  BY <1>1, <1>2, SubSeqProperties

LEMMA RangeFacts ==
    ASSUME NEW fr \in Seq(Frame), NEW o
    PROVE  o \in OkOccs(fr) <=> \E i \in 1 .. Len(fr) : fr[i].st = "ok" /\ fr[i].occ = o
  BY LenProperties DEF OkOccs, Range

LEMMA NoOccs ==
    ASSUME NEW fr \in Seq(Frame), Len(fr) = 0
    PROVE  OkOccs(fr) = {}
  <1>1. \A o : (\E i \in 1 .. Len(fr) : fr[i].st = "ok" /\ fr[i].occ = o) => FALSE
    OBVIOUS
  <1>. QED  BY <1>1, RangeFacts

LEMMA KeptFacts == ASSUME NEW f PROVE Kept(f) = OkOccs(f.log.frames) \cup f.saved \cup f.legacy
  BY DEF Kept, OkOccs

\* A nonempty set of natural numbers has a least one.
LEMMA LeastNat ==
    ASSUME NEW T, T \subseteq Nat, T # {}
    PROVE  \E x \in T : \A y \in T : x <= y
  <1>1. PICK x \in T : \A y \in T : ~ (<<y, x>> \in OpToRel(<, Nat))
    BY NatLessThanWellFounded, WFMin
  <1>2. \A y \in T : ~ (y < x)
    BY <1>1 DEF OpToRel
  <1>. QED  BY <1>2

(* Where the reader stops. *)

Before(fr, off, last, i) == IF i = off + 1 THEN last ELSE fr[i - 1].id

LEMMA StopFacts ==
    ASSUME NEW fr \in Seq(Frame), NEW off \in 0 .. Len(fr), NEW last \in Nat,
           NEW i, i = Stop(fr, off, last)
    PROVE  /\ i \in off + 1 .. Len(fr) + 1
           /\ \A k \in off + 1 .. i - 1 : fr[k].st = "ok"
           /\ i <= Len(fr) => Stops(fr, i, Before(fr, off, last, i))
  <1>. DEFINE bad == {k \in off + 1 .. Len(fr) : Stops(fr, k, Before(fr, off, last, k))}
  <1>1. Len(fr) \in Nat /\ off \in Nat
    BY LenProperties
  <1>2. i = IF bad = {} THEN Len(fr) + 1 ELSE CHOOSE k \in bad : \A j \in bad : k <= j
    BY DEF Stop, Before
  <1>3. \A k \in off + 1 .. Len(fr) : k \notin bad => fr[k].st = "ok"
    BY DEF Stops
  <1>4. CASE bad = {}
    BY <1>1, <1>2, <1>3, <1>4
  <1>5. CASE bad # {}
    <2>1. bad \subseteq Nat
      BY <1>1
    <2>2. \E k \in bad : \A j \in bad : k <= j
      BY <2>1, <1>5, LeastNat
    <2>3. i \in bad /\ \A j \in bad : i <= j
      BY <2>2, <1>2, <1>5
    <2>4. \A k \in off + 1 .. i - 1 : k \notin bad /\ k \in off + 1 .. Len(fr)
      BY <2>3, <1>1
    <2>. QED  BY <2>3, <2>4, <1>3, <1>1
  <1>. QED  BY <1>4, <1>5

\* A whole increasing log is read to its torn end or to a damaged frame.
LEMMA StopStopped ==
    ASSUME NEW fr \in Seq(Frame), NEW off \in 0 .. Len(fr), NEW last, last = IdAt(fr, off),
           Increasing(fr), NEW i, i = Stop(fr, off, last)
    PROVE  /\ i \in off + 1 .. Len(fr) + 1
           /\ \A k \in off + 1 .. i - 1 : fr[k].st = "ok"
           /\ i <= Len(fr) => fr[i].st # "ok"
  <1>1. Len(fr) \in Nat /\ \A k \in 1 .. Len(fr) : fr[k] \in Frame
    BY LenProperties, ElementOfSeq
  <1>2. last \in Nat /\ off \in Nat
    BY <1>1, BoundsFacts DEF IdAt, Frame, Occs
  <1>3. /\ i \in off + 1 .. Len(fr) + 1 /\ \A k \in off + 1 .. i - 1 : fr[k].st = "ok"
        /\ i <= Len(fr) => Stops(fr, i, Before(fr, off, last, i))
    BY <1>2, StopFacts
  <1>4. ASSUME i <= Len(fr) PROVE ~ (fr[i].id <= Before(fr, off, last, i))
    <2>1. i \in 1 .. Len(fr) /\ fr[i].id \in Nat \ {0}
      BY <1>1, <1>2, <1>3, <1>4, BoundsFacts DEF Frame, Occs
    <2>2. CASE i = off + 1 /\ off = 0
      BY <2>1, <2>2 DEF Before, IdAt
    <2>3. CASE i = off + 1 /\ off # 0
      <3>1. off \in 1 .. Len(fr) /\ fr[off].id \in Nat /\ last = fr[off].id
        BY <2>3, <2>1, <1>1, <1>2, BoundsFacts DEF Frame, Occs, IdAt
      <3>2. fr[off].id < fr[i].id
        BY <2>1, <2>3, <3>1, LenProperties DEF Increasing
      <3>. QED  BY <3>1, <3>2, <2>1, <2>3 DEF Before
    <2>4. CASE i # off + 1
      <3>1. i - 1 \in 1 .. Len(fr) /\ i - 1 < i
        BY <2>1, <2>4, <1>1, <1>2, <1>3
      <3>2. fr[i - 1].id < fr[i].id /\ fr[i - 1].id \in Nat
        BY <3>1, <2>1, <1>1, LenProperties, BoundsFacts DEF Increasing, Frame, Occs
      <3>. QED  BY <3>2, <2>1, <2>4 DEF Before
    <2>. QED  BY <2>2, <2>3, <2>4
  <1>. QED  BY <1>3, <1>4 DEF Stops
-----------------------------------------------------------------------------
(* What a step leaves alone.                                               *)

LEMMA AgreesSame ==
    \A s, l, log, n : SameView(s, l) /\ Agrees(s, log, n) => Agrees(l, log, n)
  BY DEF SameView, Agrees

\* A shell that has just started agrees with any log.
LEMMA AgreesFresh ==
    ASSUME NEW log \in Log, NEW n \in Nat
    PROVE  Agrees(Shell0, log, n)
  <1>1. log.gen \in Nat /\ Len(<<>>) = 0
    BY BoundsFacts DEF Log
  <1>2. Points(Default, log, n)
    BY DEF Points, Default, IdAt
  <1>. QED  BY <1>1, <1>2 DEF Agrees, Shell0, Default, IdAt

\* More frames, or more that are known to be damaged, do not matter.
LEMMA AgreesMore ==
    ASSUME NEW s \in Shell, NEW log \in Log, NEW n \in Nat, NEW m \in Nat, n <= m, Agrees(s, log, n)
    PROVE  Agrees(s, log, m)
  <1>1. Len(s.view) \in Nat /\ s.cursor.off \in Nat
    BY LenProperties DEF Shell, Cursor
  <1>. QED  BY <1>1 DEF Agrees, Points

\* A publication that is still due.
LEMMA PublishesSame ==
    ASSUME ghost' = ghost, NEW p, Publishes(sh'[p], fs')
    PROVE  Publishes(sh[p], fs)'
  BY DEF Publishes, Framed, Solid, Loose, Survives, Emptied, Increasing, Kept, OkOccs

LEMMA OthersRest ==
    ASSUME ShellsInv, NEW p \in Shells, holder \in {p, None}
    PROVE  \A q \in Shells \ {p} : sh[q].pc \notin Busy
  BY BoundsFacts DEF ShellsInv, OwnerOK

\* One shell moves and the log stays.
LEMMA MoveInv ==
    ASSUME IInv, NEW p \in Shells, holder \in {p, None},
           sh' \in [Shells -> Shell], \A q \in Shells \ {p} : sh'[q] = sh[q],
           fs'.log = fs.log, ghost'.damaged = ghost.damaged,
           Agrees(sh'[p], fs.log, Len(fs.log.frames)), OwnerOK(p)', Loading(sh'[p])
    PROVE  ShellsInv'
  <1>1. \A q \in Shells : Agrees(sh[q], fs.log, Len(fs.log.frames)) => Agrees(sh[q], fs.log, Len(fs.log.frames))'
                          \/ q = p
    BY DEF Agrees, Points, Solid
  <1>2. \A q \in Shells \ {p} : OwnerOK(q)'
    <2>1. \A q \in Shells \ {p} : sh'[q].pc \notin Busy
      BY OthersRest DEF IInv
    <2>. QED  BY <2>1 DEF OwnerOK, Busy
  <1>3. Agrees(sh[p], fs.log, Len(fs.log.frames))'
    BY DEF Agrees, Points, Solid
  <1>4. \A q \in Shells : Loading(sh'[q])
    BY DEF IInv, ShellsInv
  <1>5. \A q \in Shells : Loading(sh[q])'
    BY <1>4 DEF Loading
  <1>. QED  BY <1>1, <1>2, <1>3, <1>5 DEF ShellsInv, IInv

LEMMA UnlockFacts ==
    ASSUME sh \in [Shells -> Shell], NEW p \in Shells,
           NEW pc \in {"off", "idle", "refused", "loading", "salvaging"}, Unlock(p, pc)
    PROVE  /\ sh' \in [Shells -> Shell] /\ \A q \in Shells \ {p} : sh'[q] = sh[q]
           /\ sh'[p].pc \notin Busy
           /\ sh'[p] = Shell0 \/ (SameView(sh[p], sh'[p]) /\ sh'[p].op = sh[p].op)
           /\ sh'[p].pc = pc /\ holder' = None
  <1>. DEFINE l == IF pc = "off" THEN Shell0 ELSE Rest(sh[p], pc)
  <1>1. pc \in Pcs \ Busy
    BY DEF Pcs, Busy
  <1>2. l \in Shell /\ l.pc = pc /\ (l = Shell0 \/ (SameView(sh[p], l) /\ l.op = sh[p].op))
    BY <1>1, RestType, Shell0Type DEF Shell0
  <1>3. sh' = [sh EXCEPT ![p] = l] /\ holder' = None
    BY DEF Unlock
  <1>. HIDE DEF l
  <1>. QED  BY <1>1, <1>2, <1>3, LocalFacts

\* The operation ends and the log stays.
LEMMA UnlockInv ==
    ASSUME IInv, NEW p \in Shells, sh[p].pc \in Busy,
           NEW pc \in {"off", "idle", "refused", "loading", "salvaging"}, Unlock(p, pc),
           pc \in {"loading", "salvaging"} => sh[p].op = "load",
           fs'.log = fs.log, ghost'.damaged = ghost.damaged
    PROVE  ShellsInv' /\ sh' \in [Shells -> Shell]
  <1>1. holder = p /\ sh \in [Shells -> Shell] /\ fs.log \in Log /\ Len(fs.log.frames) \in Nat
        /\ Agrees(sh[p], fs.log, Len(fs.log.frames))
    BY LenProperties DEF IInv, ShellsInv, OwnerOK, TypeOK, Files, Log
  <1>2. Agrees(sh'[p], fs.log, Len(fs.log.frames))
    BY <1>1, UnlockFacts, AgreesSame, AgreesFresh
  <1>3. OwnerOK(p)'
    <2>1. sh'[p].pc \notin Busy
      BY <1>1, UnlockFacts
    <2>. QED  BY <2>1 DEF OwnerOK, Busy
  <1>4. Loading(sh'[p])
    BY <1>1, UnlockFacts DEF Loading, Shell0
  <1>. QED  BY <1>1, <1>2, <1>3, <1>4, UnlockFacts, MoveInv

(* The files. *)

\* A file that has what the shells and the acknowledgements need.
LEMMA PutInv ==
    ASSUME TypeOK, DiskInv, NEW f \in Files, FileOK(f), Put(f), ghost' = ghost
    PROVE  fs' \in Files /\ disk' \subseteq Files /\ DiskInv'
  <1>1. \A g : FileOK(g) => FileOK(g)'
    BY DEF FileOK, Framed, Solid, Loose, Survives, Increasing, Kept
  <1>. QED  BY <1>1 DEF Put, DiskInv, TypeOK

LEMMA SameDisk ==
    ASSUME TypeOK, DiskInv, UNCHANGED <<fs, disk, ghost>>
    PROVE  fs' \in Files /\ disk' \subseteq Files /\ DiskInv'
  <1>1. \A g : FileOK(g) => FileOK(g)'
    BY DEF FileOK, Framed, Solid, Loose, Survives, Increasing, Kept
  <1>. QED  BY <1>1 DEF DiskInv, TypeOK

LEMMA CommitInv ==
    ASSUME TypeOK, DiskInv, Commit, ghost' = ghost
    PROVE  fs' \in Files /\ disk' \subseteq Files /\ DiskInv'
  <1>1. \A g : FileOK(g) => FileOK(g)'
    BY DEF FileOK, Framed, Solid, Loose, Survives, Increasing, Kept
  <1>. QED  BY <1>1 DEF Commit, DiskInv, TypeOK

LEMMA SpendFacts ==
    ASSUME TypeOK, NEW b \in {"ops", "fail", "crash", "rot"}, Spend(b)
    PROVE  /\ budget' \in [ops : Nat, occ : 0 .. MaxOcc, fail : Nat, crash : Nat, rot : 0 .. MaxRot]
           /\ budget'.occ = budget.occ
           /\ b # "rot" => budget'.rot = budget.rot
           /\ budget'.rot <= budget.rot
  BY BoundsFacts DEF TypeOK, Spend

LEMMA SameGhost ==
    ASSUME TypeOK, GhostInv, ghost' = ghost,
           budget' = budget \/ \E b \in {"ops", "fail", "crash"} : Spend(b)
    PROVE  ghost' \in Ghost /\ GhostInv'
           /\ budget' \in [ops : Nat, occ : 0 .. MaxOcc, fail : Nat, crash : Nat, rot : 0 .. MaxRot]
           /\ budget'.occ = budget.occ
  <1>1. budget'.occ = budget.occ /\ budget'.rot = budget.rot
        /\ budget' \in [ops : Nat, occ : 0 .. MaxOcc, fail : Nat, crash : Nat, rot : 0 .. MaxRot]
    BY SpendFacts DEF TypeOK
  <1>. QED  BY <1>1 DEF GhostInv, TypeOK
-----------------------------------------------------------------------------
(* The steps that change no log.                                           *)

LEMMA FileFields ==
    ASSUME NEW f \in Files
    PROVE  /\ f.log \in Log /\ f.log.frames \in Seq(Frame) /\ Len(f.log.frames) \in Nat
           /\ DOMAIN f.log.frames = 1 .. Len(f.log.frames)
           /\ \A i \in 1 .. Len(f.log.frames) : f.log.frames[i] \in Frame
           /\ f.log.gen \in Nat /\ f.log.gen <= MaxGen
           /\ f.legacy \subseteq Occs /\ f.saved \subseteq Occs
  <1>1. f.log \in Log /\ f.log.frames \in Seq(Frame) /\ f.log.gen \in 0 .. MaxGen
        /\ f.legacy \subseteq Occs /\ f.saved \subseteq Occs
    BY DEF Files, Log
  <1>. QED  BY <1>1, LenProperties, ElementOfSeq, BoundsFacts

LEMMA HeaderDamagedInv == ASSUME IInv, NEW p \in Shells, HeaderDamaged(p) PROVE IInv'
  <1>1. OnError(p) \in {"off", "idle", "refused"} /\ sh[p].pc \in Busy
    BY DEF HeaderDamaged, OnError, At, Busy
  <1>2. ShellsInv' /\ sh' \in [Shells -> Shell]
    BY <1>1, UnlockInv DEF HeaderDamaged
  <1>. QED  BY <1>2, SameDisk, SameGhost DEF HeaderDamaged, IInv, TypeOK

LEMMA FailInv == ASSUME IInv, NEW p \in Shells, Fail(p) PROVE IInv'
  <1>1. OnError(p) \in {"off", "idle", "refused"} /\ sh[p].pc \in Busy
    BY DEF Fail, OnError, Busy
  <1>2. ShellsInv' /\ sh' \in [Shells -> Shell]
    BY <1>1, UnlockInv DEF Fail
  <1>. QED  BY <1>2, SameDisk, SameGhost DEF Fail, IInv, TypeOK

LEMMA RenderedInv == ASSUME IInv, NEW p \in Shells, Rendered(p) PROVE IInv'
  <1>1. sh[p].pc \in Busy
    BY DEF Rendered, At, Busy
  <1>2. ShellsInv' /\ sh' \in [Shells -> Shell]
    BY <1>1, UnlockInv DEF Rendered
  <1>. QED  BY <1>2, SameDisk, SameGhost DEF Rendered, IInv, TypeOK

\* A shell that ends, whoever holds the lock.
LEMMA StopInv ==
    ASSUME IInv, NEW p \in Shells, sh' = [sh EXCEPT ![p] = Shell0], UNCHANGED <<fs, disk, ghost>>,
           budget'.occ = budget.occ, holder' = holder \/ (holder = p /\ holder' = None)
    PROVE  ShellsInv' /\ sh' \in [Shells -> Shell]
  <1>1. sh \in [Shells -> Shell] /\ fs \in Files
    BY DEF IInv, TypeOK
  <1>2. sh' \in [Shells -> Shell] /\ sh'[p] = Shell0 /\ \A q \in Shells \ {p} : sh'[q] = sh[q]
    BY <1>1, LocalFacts, Shell0Type
  <1>3. \A n \in Nat : Agrees(sh'[p], fs.log, n)
    BY <1>1, <1>2, FileFields, AgreesFresh
  <1>4. \A q \in Shells : Agrees(sh'[q], fs.log, Len(fs.log.frames))
    BY <1>1, <1>2, <1>3, FileFields DEF IInv, ShellsInv
  <1>5. \A q \in Shells : Agrees(sh[q], fs.log, Len(fs.log.frames))'
    BY <1>4 DEF Agrees, Points, Solid
  <1>6. OwnerOK(p)'
    BY <1>2 DEF OwnerOK, Busy, Shell0
  <1>7. ASSUME NEW q \in Shells \ {p} PROVE OwnerOK(q)'
    <2>1. OwnerOK(q) /\ sh'[q] = sh[q] /\ sh[q].work.off \in Nat
      BY <1>1, <1>2 DEF IInv, ShellsInv, Shell, Cursor
    <2>2. sh[q].pc \in Busy => holder' = q
      BY <2>1 DEF OwnerOK
    <2>3. ASSUME Appending(sh[q], fs.log) PROVE Appending(sh[q], fs.log)'
      <3>1. \A r \in Shells : Agrees(sh'[r], fs.log, sh[q].work.off)
        BY <2>1, <2>3, <1>2, <1>3 DEF Appending
      <3>2. \A r \in Shells : Agrees(sh[r], fs.log, sh[q].work.off)'
        BY <3>1, <2>1 DEF Agrees, Points, Solid
      <3>. QED  BY <2>1, <2>3, <3>2 DEF Appending
    <2>4. \A n : Snapshot(sh[q], fs.log, n) => Snapshot(sh[q], fs.log, n)'
      BY <2>1 DEF Snapshot, Points, Solid
    <2>5. Publishes(sh[q], fs) => Publishes(sh[q], fs)'
      BY <2>1 DEF Publishes, Framed, Solid, Loose, Survives, Emptied, Increasing, Kept, OkOccs
    <2>. QED  BY <2>1, <2>2, <2>3, <2>4, <2>5 DEF OwnerOK, Resumes, Emptied, OkOccs, Busy
  <1>8. \A q \in Shells : Loading(sh'[q])
    BY <1>2 DEF IInv, ShellsInv, Loading, Shell0
  <1>9. \A q \in Shells : Loading(sh[q])'
    BY <1>8 DEF Loading
  <1>. QED  BY <1>2, <1>5, <1>6, <1>7, <1>9 DEF ShellsInv

LEMMA KillInv == ASSUME IInv, NEW p \in Shells, Kill(p) PROVE IInv'
  <1>1. ghost' \in Ghost /\ GhostInv' /\ budget'.occ = budget.occ
        /\ budget' \in [ops : Nat, occ : 0 .. MaxOcc, fail : Nat, crash : Nat, rot : 0 .. MaxRot]
    BY SameGhost DEF Kill, IInv
  <1>2. ShellsInv' /\ sh' \in [Shells -> Shell]
    BY <1>1, StopInv DEF Kill
  <1>. QED  BY <1>1, <1>2, SameDisk DEF Kill, IInv, TypeOK

LEMMA ExitInv == ASSUME IInv, NEW p \in Shells, Exit(p) PROVE IInv'
  <1>1. ghost' \in Ghost /\ GhostInv' /\ budget'.occ = budget.occ
        /\ budget' \in [ops : Nat, occ : 0 .. MaxOcc, fail : Nat, crash : Nat, rot : 0 .. MaxRot]
    BY SameGhost DEF Exit, IInv
  <1>2. ShellsInv' /\ sh' \in [Shells -> Shell]
    BY <1>1, StopInv DEF Exit
  <1>. QED  BY <1>1, <1>2, SameDisk DEF Exit, IInv, TypeOK

LEMMA PowerLossInv == ASSUME IInv, PowerLoss PROVE IInv'
  <1>1. ghost' \in Ghost /\ GhostInv' /\ budget'.occ = budget.occ
        /\ budget' \in [ops : Nat, occ : 0 .. MaxOcc, fail : Nat, crash : Nat, rot : 0 .. MaxRot]
    BY SameGhost DEF PowerLoss, IInv
  <1>2. \A g : FileOK(g) => FileOK(g)'
    BY DEF FileOK, Framed, Solid, Loose, Survives, Increasing, Kept, PowerLoss
  <1>3. fs' \in disk /\ disk' = {fs'}
    BY DEF PowerLoss
  <1>4. fs' \in Files /\ disk' \subseteq Files /\ DiskInv'
    BY <1>2, <1>3 DEF IInv, TypeOK, DiskInv
  <1>5. sh' = [q \in Shells |-> Shell0]
    BY DEF PowerLoss
  <1>6. sh' \in [Shells -> Shell] /\ \A q \in Shells : sh'[q] = Shell0
    BY <1>5, Shell0Type
  <1>7. \A q \in Shells : OwnerOK(q)'
    BY <1>6 DEF OwnerOK, Busy, Shell0
  <1>8. \A q \in Shells : Agrees(Shell0, fs'.log, Len(fs'.log.frames))
    BY <1>4, FileFields, AgreesFresh
  <1>9. \A q \in Shells : Agrees(sh[q], fs.log, Len(fs.log.frames))'
    <2>1. ghost' = ghost
      BY DEF PowerLoss
    <2>. QED  BY <1>6, <1>8, <2>1 DEF Agrees, Points, Solid
  <1>10. \A q \in Shells : Loading(sh[q])'
    BY <1>6 DEF Loading, Shell0
  <1>. QED  BY <1>1, <1>4, <1>6, <1>7, <1>9, <1>10 DEF ShellsInv, IInv, TypeOK
-----------------------------------------------------------------------------
(* Taking the lock.                                                        *)

LEMMA OpenInv == ASSUME IInv, NEW p \in Shells, NEW op \in {"load", "render"}, Open(p, op) PROVE IInv'
  <1>. DEFINE pc == IF op = "load" THEN "open" ELSE "read"
              l == [Shell0 EXCEPT !.pc = pc, !.op = op]
  <1>1. pc \in Pcs /\ op \in Ops /\ Shell0 \in Shell
    BY Shell0Type DEF Pcs, Ops
  <1>2. l \in Shell /\ l.pc = pc /\ l.op = op /\ l.work = Default /\ SameView(Shell0, l)
    BY <1>1 DEF Shell, SameView, Shell0
  <1>3. sh \in [Shells -> Shell] /\ sh' = [sh EXCEPT ![p] = l] /\ fs \in Files
    BY DEF Open, IInv, TypeOK
  <1>. HIDE DEF l
  <1>4. sh' \in [Shells -> Shell] /\ sh'[p] = l /\ \A q \in Shells \ {p} : sh'[q] = sh[q]
    BY <1>2, <1>3, LocalFacts
  <1>5. Agrees(sh'[p], fs.log, Len(fs.log.frames))
    BY <1>2, <1>3, <1>4, FileFields, AgreesFresh, AgreesSame
  <1>6. holder = None /\ holder' = p
    BY DEF Open, Lock
  <1>7. OwnerOK(p)' /\ Loading(sh'[p])
    BY <1>2, <1>4, <1>6 DEF OwnerOK, Loading
  <1>8. ShellsInv'
    BY <1>4, <1>5, <1>6, <1>7, MoveInv DEF Open
  <1>. QED  BY <1>4, <1>8, SameDisk, SameGhost DEF Open, IInv, TypeOK

LEMMA BeginInv ==
    ASSUME IInv, NEW p \in Shells, NEW op \in {"sync", "add", "reset"}, Begin(p, op)
    PROVE  IInv'
  <1>. DEFINE pc == IF op = "reset" THEN "reset" ELSE "read"
              l == [sh[p] EXCEPT !.pc = pc, !.op = op, !.work = sh[p].cursor]
  <1>1. pc \in Pcs /\ op \in Ops /\ sh[p] \in Shell
    BY DEF Pcs, Ops, IInv, TypeOK
  <1>2. l \in Shell /\ l.pc = pc /\ l.op = op /\ l.work = l.cursor /\ SameView(sh[p], l)
    BY <1>1 DEF Shell, SameView
  <1>3. sh \in [Shells -> Shell] /\ sh' = [sh EXCEPT ![p] = l]
    BY DEF Begin, IInv, TypeOK
  <1>. HIDE DEF l
  <1>4. sh' \in [Shells -> Shell] /\ sh'[p] = l /\ \A q \in Shells \ {p} : sh'[q] = sh[q]
    BY <1>2, <1>3, LocalFacts
  <1>5. Agrees(sh'[p], fs.log, Len(fs.log.frames))
    BY <1>2, <1>4, AgreesSame DEF IInv, ShellsInv
  <1>6. holder = None /\ holder' = p
    BY DEF Begin, Lock
  <1>7. OwnerOK(p)' /\ Loading(sh'[p])
    BY <1>2, <1>4, <1>6 DEF OwnerOK, Loading
  <1>8. ShellsInv'
    BY <1>4, <1>5, <1>6, <1>7, MoveInv DEF Begin
  <1>. QED  BY <1>4, <1>8, SameDisk, SameGhost DEF Begin, IInv, TypeOK

LEMMA RelockInv == ASSUME IInv, NEW p \in Shells, Relock(p) PROVE IInv'
  <1>1. sh \in [Shells -> Shell] /\ sh[p] \in Shell /\ Loading(sh[p])
        /\ Agrees(sh[p], fs.log, Len(fs.log.frames))
    BY DEF IInv, TypeOK, ShellsInv
  <1>2. PICK l \in Shell : /\ sh' = [sh EXCEPT ![p] = l] /\ SameView(sh[p], l) /\ l.op = "load"
                           /\ l.pc = "salvage" \/ (l.pc = "read" /\ l.work = l.cursor)
    <2>1. CASE At(p, "loading") /\ sh' = [sh EXCEPT ![p].pc = "read", ![p].work = sh[p].cursor]
      <3>. DEFINE l == [sh[p] EXCEPT !.pc = "read", !.work = sh[p].cursor]
      <3>1. l \in Shell /\ SameView(sh[p], l) /\ l.op = sh[p].op /\ l.pc = "read" /\ l.work = l.cursor
        BY <1>1 DEF Shell, SameView, Pcs
      <3>2. sh' = [sh EXCEPT ![p] = l]
        BY <2>1, <1>1
      <3>3. sh[p].op = "load"
        BY <1>1, <2>1 DEF Loading, At
      <3>. QED  BY <3>1, <3>2, <3>3
    <2>2. CASE At(p, "salvaging") /\ Goto(p, "salvage")
      <3>. DEFINE l == [sh[p] EXCEPT !.pc = "salvage"]
      <3>1. l \in Shell /\ SameView(sh[p], l) /\ l.op = sh[p].op /\ l.pc = "salvage"
        BY <1>1 DEF Shell, SameView, Pcs
      <3>2. sh' = [sh EXCEPT ![p] = l]
        BY <2>2, <1>1 DEF Goto
      <3>3. sh[p].op = "load"
        BY <1>1, <2>2 DEF Loading, At
      <3>. QED  BY <3>1, <3>2, <3>3
    <2>. QED  BY <2>1, <2>2 DEF Relock
  <1>4. sh' \in [Shells -> Shell] /\ sh'[p] = l /\ \A q \in Shells \ {p} : sh'[q] = sh[q]
    BY <1>1, <1>2, LocalFacts
  <1>5. Agrees(sh'[p], fs.log, Len(fs.log.frames))
    BY <1>1, <1>2, <1>4, AgreesSame
  <1>6. holder = None /\ holder' = p
    BY DEF Relock, Lock
  <1>7. OwnerOK(p)' /\ Loading(sh'[p])
    BY <1>2, <1>4, <1>6 DEF OwnerOK, Loading
  <1>8. ShellsInv'
    BY <1>4, <1>5, <1>6, <1>7, MoveInv DEF Relock
  <1>. QED  BY <1>4, <1>8, SameDisk, SameGhost DEF Relock, IInv, TypeOK

LEMMA FsyncFailsInv == ASSUME IInv, NEW p \in Shells, FsyncFails(p) PROVE IInv'
  <1>1. sh \in [Shells -> Shell] /\ sh[p] \in Shell /\ OwnerOK(p) /\ sh[p].pc = "fsync"
        /\ Agrees(sh[p], fs.log, Len(fs.log.frames))
    BY DEF IInv, TypeOK, ShellsInv, FsyncFails, At
  <1>. DEFINE l == [sh[p] EXCEPT !.pc = "rollback"]
  <1>2. l \in Shell /\ SameView(sh[p], l) /\ l.op = sh[p].op /\ l.pc = "rollback"
        /\ l.work = sh[p].work /\ l.fresh = sh[p].fresh
    BY <1>1 DEF Shell, SameView, Pcs
  <1>3. sh' = [sh EXCEPT ![p] = l]
    BY <1>1 DEF FsyncFails, Goto
  <1>. HIDE DEF l
  <1>4. sh' \in [Shells -> Shell] /\ sh'[p] = l /\ \A q \in Shells \ {p} : sh'[q] = sh[q]
    BY <1>1, <1>2, <1>3, LocalFacts
  <1>5. Agrees(sh'[p], fs.log, Len(fs.log.frames))
    BY <1>1, <1>2, <1>4, AgreesSame
  <1>6. holder = p /\ holder' = p
    BY <1>1 DEF OwnerOK, Busy, FsyncFails
  <1>7. Appending(sh[p], fs.log)'
    <2>1. Appending(sh[p], fs.log)
      BY <1>1 DEF OwnerOK
    <2>2. \A q \in Shells : Agrees(sh'[q], fs.log, sh[p].work.off)
      BY <2>1, <1>2, <1>4, AgreesSame DEF Appending
    <2>3. \A q \in Shells : Agrees(sh[q], fs.log, sh[p].work.off)'
      BY <2>2, <1>2, <1>4 DEF Agrees, Points, Solid, FsyncFails
    <2>4. budget'.occ = budget.occ
      BY SpendFacts DEF FsyncFails, IInv
    <2>. QED  BY <2>1, <2>3, <2>4, <1>2, <1>4 DEF Appending, FsyncFails
  <1>8. OwnerOK(p)' /\ Loading(sh'[p])
    BY <1>1, <1>2, <1>4, <1>6, <1>7 DEF OwnerOK, Loading, FsyncFails
  <1>9. ShellsInv'
    BY <1>4, <1>5, <1>6, <1>8, MoveInv DEF FsyncFails
  <1>. QED  BY <1>4, <1>9, SameDisk, SameGhost DEF FsyncFails, IInv, TypeOK
-----------------------------------------------------------------------------
(* Publication.                                                            *)

LEMMA DirSyncInv == ASSUME IInv, NEW p \in Shells, DirSync(p) PROVE IInv'
  <1>1. sh \in [Shells -> Shell] /\ sh[p] \in Shell /\ OwnerOK(p) /\ sh[p].pc = "dirsync"
        /\ Agrees(sh[p], fs.log, Len(fs.log.frames)) /\ fs \in Files
    BY DEF IInv, TypeOK, ShellsInv, DirSync, At
  <1>2. fs' = fs /\ ghost' = ghost /\ budget' = budget /\ holder = p
    BY <1>1 DEF DirSync, Commit, OwnerOK, Busy
  <1>3. fs' \in Files /\ disk' \subseteq Files /\ DiskInv'
    BY CommitInv DEF DirSync, IInv
  <1>4. Resumes(sh[p]) /\ fs.log.ino # 0
    BY <1>1 DEF OwnerOK
  <1>5. ShellsInv' /\ sh' \in [Shells -> Shell]
    <2>1. CASE sh[p].then = "loading"
      <3>1. Unlock(p, "loading") /\ sh[p].op = "load" /\ sh[p].pc \in Busy
        BY <1>1, <1>4, <2>1 DEF DirSync, Resumes, Busy
      <3>. QED  BY <3>1, <1>2, UnlockInv
    <2>2. CASE sh[p].then # "loading"
      <3>1. sh[p].then \in {"read", "salvage", "retire", "apply"}
        BY <1>1, <1>4, <2>2 DEF Resumes, Shell, Thens
      <3>. DEFINE l == [sh[p] EXCEPT !.pc = sh[p].then]
      <3>2. l \in Shell /\ SameView(sh[p], l) /\ l.op = sh[p].op /\ l.pc = sh[p].then /\ l.work = sh[p].work
            /\ l.snap = sh[p].snap /\ l.snapgen = sh[p].snapgen /\ l.then = sh[p].then
        BY <1>1, <3>1 DEF Shell, SameView, Pcs
      <3>3. sh' = [sh EXCEPT ![p] = l] /\ holder' = holder
        BY <1>1, <2>2 DEF DirSync, Goto
      <3>. HIDE DEF l
      <3>4. sh' \in [Shells -> Shell] /\ sh'[p] = l /\ \A q \in Shells \ {p} : sh'[q] = sh[q]
        BY <1>1, <3>2, <3>3, LocalFacts
      <3>5. Agrees(sh'[p], fs.log, Len(fs.log.frames))
        BY <1>1, <3>2, <3>4, AgreesSame
      <3>6. CASE sh[p].then = "apply"
        <4>1. Emptied(sh[p], fs.log) /\ sh[p].gen < fs.log.gen
          BY <1>1, <3>6 DEF OwnerOK
        <4>2. fs.log.gen \in Nat /\ sh[p].gen \in Nat
          BY <1>1, FileFields, BoundsFacts DEF Shell
        <4>3. Snapshot(l, fs.log, Len(fs.log.frames))
          BY <4>1, <4>2, <3>2 DEF Snapshot, Emptied, SameView
        <4>4. Snapshot(sh[p], fs.log, Len(fs.log.frames))'
          BY <4>3, <3>4, <1>2 DEF Snapshot, Points, Solid
        <4>5. OwnerOK(p)'
          BY <4>1, <4>4, <3>2, <3>3, <3>4, <3>6, <1>2, <1>4 DEF OwnerOK, Emptied
        <4>6. Loading(sh'[p])
          BY <3>2, <3>4, <3>6 DEF Loading
        <4>. QED  BY <4>5, <4>6, <3>4, <3>5, <1>2, MoveInv
      <3>7. CASE sh[p].then = "retire"
        <4>1. fs.legacy \subseteq OkOccs(fs.log.frames)
          BY <1>1, <3>7 DEF OwnerOK
        <4>2. OwnerOK(p)'
          BY <4>1, <3>2, <3>3, <3>4, <3>7, <1>2, <1>4 DEF OwnerOK, OkOccs, Resumes
        <4>3. Loading(sh'[p])
          BY <3>2, <3>4, <3>7 DEF Loading
        <4>. QED  BY <4>2, <4>3, <3>4, <3>5, <1>2, MoveInv
      <3>8. CASE sh[p].then \in {"read", "salvage"}
        <4>1. OwnerOK(p)'
          BY <3>2, <3>3, <3>4, <3>8, <1>2, <1>4 DEF OwnerOK, Resumes
        <4>2. Loading(sh'[p])
          BY <3>2, <3>4, <3>8 DEF Loading
        <4>. QED  BY <4>1, <4>2, <3>4, <3>5, <1>2, MoveInv
      <3>. QED  BY <3>1, <3>6, <3>7, <3>8
    <2>. QED  BY <2>1, <2>2
  <1>. QED  BY <1>2, <1>3, <1>5, SameGhost DEF IInv, TypeOK

\* What replaces the log is newer than anything a shell knows, or the first log.
LEMMA AgreesNewer ==
    ASSUME NEW s \in Shell, NEW f \in Files, NEW log \in Log, Agrees(s, f.log, Len(f.log.frames)),
           log.ino # 0,
           log.gen > f.log.gen \/ (f.log.ino = 0 /\ f.log.frames = <<>> /\ log.gen = f.log.gen)
    PROVE  Agrees(s, log, Len(log.frames))
  <1>1. f.log.gen \in Nat /\ log.gen \in Nat /\ s.gen \in Nat /\ s.cursor.gen \in Nat /\ Len(s.view) \in Nat
        /\ Len(log.frames) \in Nat /\ DOMAIN s.view = 1 .. Len(s.view)
    BY FileFields, LenProperties, BoundsFacts DEF Log, Shell, Cursor
  <1>2. CASE log.gen > f.log.gen
    BY <1>1, <1>2 DEF Agrees
  <1>3. CASE f.log.ino = 0 /\ f.log.frames = <<>> /\ log.gen = f.log.gen
    <2>1. s.cursor = Default /\ s.gen <= log.gen /\ s.cursor.gen <= log.gen
      BY <1>3 DEF Agrees
    <2>2. s.cursor.ino # log.ino
      BY <2>1 DEF Default
    <2>3. ASSUME s.gen = log.gen
          PROVE  Len(s.view) = 0 /\ s.last = 0
      <3>1. Len(s.view) <= Len(<<>>) /\ s.last = IdAt(<<>>, Len(s.view))
        BY <1>3, <2>3 DEF Agrees
      <3>2. Len(s.view) = 0
        BY <3>1, <1>1
      <3>. QED  BY <3>1, <3>2 DEF IdAt
    <2>. QED  BY <1>1, <2>1, <2>2, <2>3 DEF Agrees, IdAt
  <1>. QED  BY <1>2, <1>3

LEMMA RenameInv == ASSUME IInv, NEW p \in Shells, Rename(p) PROVE IInv'
  <1>1. sh \in [Shells -> Shell] /\ sh[p] \in Shell /\ OwnerOK(p) /\ sh[p].pc = "rename"
        /\ fs \in Files /\ fs \in disk /\ FileOK(fs)
    BY DEF IInv, TypeOK, ShellsInv, Rename, At, DiskInv
  <1>2. PICK n \in Inos \ {fs.log.ino} : Put([fs EXCEPT !.log = [sh[p].pub EXCEPT !.ino = n]])
    BY DEF Rename
  <1>3. ghost' = ghost /\ budget' = budget /\ holder = p /\ holder' = p
        /\ Publishes(sh[p], fs) /\ Resumes(sh[p])
    BY <1>1 DEF Rename, OwnerOK, Busy
  <1>. DEFINE log == [sh[p].pub EXCEPT !.ino = n]
              g == [fs EXCEPT !.log = log]
  <1>4. log \in Log /\ log.ino = n /\ log.gen = sh[p].pub.gen /\ log.frames = sh[p].pub.frames /\ n # 0
    BY <1>1, BoundsFacts DEF Shell, Log
  <1>. HIDE DEF log
  <1>5. g \in Files /\ g.log = log /\ g.legacy = fs.legacy /\ g.saved = fs.saved
    BY <1>1, <1>4 DEF Files
  <1>6. Put(g)
    BY <1>2 DEF log
  <1>. HIDE DEF g
  <1>7. FileOK(g)
    <2>1. Increasing(log.frames) /\ Framed(log.frames)
      BY <1>3, <1>4 DEF Publishes
    <2>2. Survives([fs EXCEPT !.log = sh[p].pub])
      BY <1>3 DEF Publishes
    <2>3. Kept([fs EXCEPT !.log = sh[p].pub]) = Kept(g)
      <3>1. [fs EXCEPT !.log = sh[p].pub].log = sh[p].pub /\ [fs EXCEPT !.log = sh[p].pub].saved = fs.saved
            /\ [fs EXCEPT !.log = sh[p].pub].legacy = fs.legacy
        BY <1>1 DEF Files
      <3>. QED  BY <3>1, <1>4, <1>5, KeptFacts
    <2>. QED  BY <1>4, <1>5, <2>1, <2>2, <2>3 DEF FileOK, Survives
  <1>8. fs' \in Files /\ disk' \subseteq Files /\ DiskInv' /\ fs' = g
    BY <1>3, <1>5, <1>6, <1>7, PutInv DEF IInv, Put
  <1>. DEFINE l == [sh[p] EXCEPT !.pc = "dirsync"]
  <1>9. l \in Shell /\ SameView(sh[p], l) /\ l.op = sh[p].op /\ l.pc = "dirsync" /\ l.then = sh[p].then
        /\ l.work = sh[p].work /\ l.snap = sh[p].snap /\ l.snapgen = sh[p].snapgen
    BY <1>1 DEF Shell, SameView, Pcs
  <1>10. sh' = [sh EXCEPT ![p] = l]
    BY DEF Rename, Goto
  <1>. HIDE DEF l
  <1>11. sh' \in [Shells -> Shell] /\ sh'[p] = l /\ \A q \in Shells \ {p} : sh'[q] = sh[q]
    BY <1>1, <1>9, <1>10, LocalFacts
  <1>12. log.gen > fs.log.gen \/ (fs.log.ino = 0 /\ fs.log.frames = <<>> /\ log.gen = fs.log.gen)
    BY <1>1, <1>3, <1>4 DEF Publishes, FileOK
  <1>13. \A q \in Shells : Agrees(sh'[q], log, Len(log.frames))
    <2>1. ASSUME NEW q \in Shells PROVE Agrees(sh[q], log, Len(log.frames))
      <3>1. Agrees(sh[q], fs.log, Len(fs.log.frames)) /\ sh[q] \in Shell
        BY DEF IInv, ShellsInv, TypeOK
      <3>. QED  BY <1>1, <1>4, <1>12, <3>1, AgreesNewer
    <2>. QED  BY <2>1, <1>9, <1>11, AgreesSame
  <1>14. \A q \in Shells : Agrees(sh[q], fs.log, Len(fs.log.frames))'
    BY <1>13, <1>8, <1>5, <1>3 DEF Agrees, Points, Solid
  <1>15. \A q \in Shells \ {p} : OwnerOK(q)'
    <2>1. \A q \in Shells \ {p} : sh'[q].pc \notin Busy
      BY <1>3, <1>11, OthersRest DEF IInv
    <2>. QED  BY <2>1 DEF OwnerOK, Busy
  <1>16. OwnerOK(p)'
    <2>1. sh[p].then = "apply" => Emptied(l, log) /\ l.gen < log.gen
      <3>1. ASSUME sh[p].then = "apply" PROVE Emptied(sh[p], sh[p].pub) /\ sh[p].pub.gen > fs.log.gen
        BY <3>1, <1>3 DEF Publishes
      <3>2. sh[p].gen <= fs.log.gen /\ sh[p].gen \in Nat /\ fs.log.gen \in Nat /\ log.gen \in Nat
        BY <1>1, <1>4, FileFields, BoundsFacts DEF IInv, ShellsInv, Agrees, Shell, Log
      <3>. QED  BY <3>1, <3>2, <1>4, <1>9 DEF Emptied, SameView
    <2>2. sh[p].then = "retire" => fs.legacy \subseteq OkOccs(log.frames)
      BY <1>3, <1>4 DEF Publishes
    <2>3. Resumes(l)
      BY <1>3, <1>9 DEF Resumes
    <2>. QED  BY <2>1, <2>2, <2>3, <1>3, <1>4, <1>5, <1>8, <1>9, <1>11 DEF OwnerOK, Emptied,
                 Resumes, OkOccs
  <1>17. \A q \in Shells : Loading(sh[q])'
    <2>1. \A q \in Shells : Loading(sh'[q])
      BY <1>9, <1>11 DEF IInv, ShellsInv, Loading
    <2>. QED  BY <2>1 DEF Loading
  <1>18. ShellsInv'
    BY <1>14, <1>15, <1>16, <1>17 DEF ShellsInv
  <1>. QED  BY <1>3, <1>8, <1>11, <1>18, SameGhost DEF IInv, TypeOK
-----------------------------------------------------------------------------
(* The legacy files, reset and damage.                                     *)

\* Frame i of the imported log is the i-th legacy occurrence.
Nth(S, i) == CHOOSE o \in S : Cardinality({x \in S : x < o}) = i - 1
Imported == [i \in 1 .. Cardinality(fs.legacy) |-> Good(i, Nth(fs.legacy, i))]

LEMMA ImportFacts ==
    ASSUME fs.legacy = 1 .. Legacy
    PROVE  Imported \in Seq(Frame) /\ Len(Imported) = Legacy /\ \A i \in 1 .. Legacy : Imported[i] = Good(i, i)
  <1>1. Legacy \in Nat /\ Legacy <= MaxOcc /\ MaxOcc \in Nat
    BY BoundsFacts
  <1>2. Cardinality(1 .. Legacy) = Legacy
    BY <1>1, FS_Interval
  <1>3. \A o \in 1 .. Legacy : Cardinality({x \in 1 .. Legacy : x < o}) = o - 1
    <2>1. ASSUME NEW o \in 1 .. Legacy PROVE Cardinality({x \in 1 .. Legacy : x < o}) = o - 1
      <3>1. {x \in 1 .. Legacy : x < o} = 1 .. (o - 1)
        BY <1>1
      <3>2. Cardinality(1 .. (o - 1)) = o - 1
        BY <1>1, FS_Interval
      <3>. QED  BY <3>1, <3>2
    <2>. QED  BY <2>1
  <1>4. \A i \in 1 .. Legacy : Nth(1 .. Legacy, i) = i
    <2>1. ASSUME NEW i \in 1 .. Legacy PROVE Nth(1 .. Legacy, i) = i
      <3>. DEFINE c == Nth(1 .. Legacy, i)
      <3>1. \E o \in 1 .. Legacy : Cardinality({x \in 1 .. Legacy : x < o}) = i - 1
        BY <1>3
      <3>2. c \in 1 .. Legacy /\ Cardinality({x \in 1 .. Legacy : x < c}) = i - 1
        BY <3>1 DEF Nth
      <3>. HIDE DEF c
      <3>3. c - 1 = i - 1
        BY <3>2, <1>3
      <3>4. c = i
        BY <3>2, <3>3, <1>1
      <3>. QED  BY <3>4 DEF c
    <2>. QED  BY <2>1
  <1>5. Imported = [i \in 1 .. Legacy |-> Good(i, i)]
    BY <1>2, <1>4 DEF Imported
  <1>6. \A i \in 1 .. Legacy : Good(i, i) \in Frame
    BY <1>1 DEF Good, Frame, Occs, Conditions
  <1>7. [i \in 1 .. Legacy |-> Good(i, i)] \in [1 .. Legacy -> Frame]
    BY <1>6
  <1>. QED  BY <1>1, <1>5, <1>7, SeqDef, LenProperties

LEMMA OpenLogInv == ASSUME IInv, NEW p \in Shells, OpenLog(p) PROVE IInv'
  <1>1. sh \in [Shells -> Shell] /\ sh[p] \in Shell /\ OwnerOK(p) /\ sh[p].pc = "open" /\ sh[p].op = "load"
        /\ Agrees(sh[p], fs.log, Len(fs.log.frames)) /\ fs \in Files /\ FileOK(fs)
    BY DEF IInv, TypeOK, ShellsInv, OpenLog, At, OwnerOK, DiskInv
  <1>2. holder = p /\ UNCHANGED <<fs, disk, ghost, budget>>
    BY <1>1 DEF OpenLog, OwnerOK, Busy
  <1>3. ShellsInv' /\ sh' \in [Shells -> Shell]
    <2>1. CASE fs.log.ino # 0
      <3>1. Unlock(p, "loading") /\ sh[p].pc \in Busy
        BY <1>1, <2>1 DEF OpenLog, Busy
      <3>. QED  BY <3>1, <1>1, <1>2, UnlockInv
    <2>2. CASE fs.log.ino = 0
      <3>. DEFINE log == [NoLog EXCEPT !.frames = Imported]
                  l == [sh[p] EXCEPT !.pc = "rename", !.then = "retire", !.pub = log]
      <3>1. fs.log.frames = <<>> /\ fs.log.gen = 0 /\ fs.legacy = 1 .. Legacy
        BY <1>1, <2>2 DEF FileOK
      <3>2. Imported \in Seq(Frame) /\ Len(Imported) = Legacy /\ \A i \in 1 .. Legacy : Imported[i] = Good(i, i)
        BY <3>1, ImportFacts
      <3>3. log \in Log /\ log.frames = Imported /\ log.gen = 0
        BY <3>2, NoLogType DEF Log, NoLog
      <3>4. sh' = [sh EXCEPT ![p] = l] /\ holder' = p
        BY <1>1, <1>2, <2>2 DEF OpenLog, Imported, Nth
      <3>. HIDE DEF log
      <3>5. l \in Shell /\ SameView(sh[p], l) /\ l.op = "load" /\ l.pc = "rename" /\ l.then = "retire" /\ l.pub = log
        BY <1>1, <3>3 DEF Shell, SameView, Pcs, Thens
      <3>. HIDE DEF l
      <3>6. sh' \in [Shells -> Shell] /\ sh'[p] = l /\ \A q \in Shells \ {p} : sh'[q] = sh[q]
        BY <1>1, <3>4, <3>5, LocalFacts
      <3>7. Agrees(sh'[p], fs.log, Len(fs.log.frames))
        BY <1>1, <3>5, <3>6, AgreesSame
      <3>8. Increasing(log.frames) /\ Framed(log.frames)
        <4>1. DOMAIN log.frames = 1 .. Legacy
          BY <3>2, <3>3, LenProperties
        <4>. QED  BY <4>1, <3>2, <3>3, BoundsFacts DEF Increasing, Framed, Solid, Loose, Good
      <3>9. fs.legacy \subseteq OkOccs(log.frames)
        <4>1. \A o \in 1 .. Legacy : log.frames[o].st = "ok" /\ log.frames[o].occ = o
          BY <3>2, <3>3 DEF Good
        <4>2. \A o \in 1 .. Legacy : \E i \in 1 .. Len(log.frames) : log.frames[i].st = "ok" /\ log.frames[i].occ = o
          BY <4>1, <3>2, <3>3
        <4>. QED  BY <4>2, <3>1, <3>2, <3>3, RangeFacts
      <3>10. Survives([fs EXCEPT !.log = log])
        <4>1. OkOccs(fs.log.frames) = {}
          <5>1. <<>> \in Seq(Frame) /\ Len(<<>>) = 0
            BY EmptySeq
          <5>. QED  BY <3>1, <5>1, NoOccs
        <4>2. [fs EXCEPT !.log = log].log = log /\ [fs EXCEPT !.log = log].saved = fs.saved
              /\ [fs EXCEPT !.log = log].legacy = fs.legacy
          BY <1>1 DEF Files
        <4>3. Survives(fs)
          BY <1>1 DEF FileOK
        <4>. QED  BY <4>1, <4>2, <4>3, KeptFacts DEF Survives
      <3>11. Publishes(l, fs)
        BY <2>2, <3>3, <3>5, <3>8, <3>9, <3>10 DEF Publishes
      <3>12. Publishes(sh[p], fs)'
        BY <3>11, <3>6, <1>2, PublishesSame
      <3>13. OwnerOK(p)' /\ Loading(sh'[p])
        BY <3>4, <3>5, <3>6, <3>12 DEF OwnerOK, Loading, Resumes
      <3>. QED  BY <3>6, <3>7, <3>13, <1>2, MoveInv
    <2>. QED  BY <2>1, <2>2
  <1>. QED  BY <1>2, <1>3, SameDisk, SameGhost DEF IInv, TypeOK

LEMMA RetireInv == ASSUME IInv, NEW p \in Shells, Retire(p) PROVE IInv'
  <1>1. sh \in [Shells -> Shell] /\ sh[p] \in Shell /\ OwnerOK(p) /\ sh[p].pc = "retire" /\ sh[p].op = "load"
        /\ Agrees(sh[p], fs.log, Len(fs.log.frames)) /\ fs \in Files /\ FileOK(fs)
    BY DEF IInv, TypeOK, ShellsInv, Retire, At, OwnerOK, DiskInv
  <1>2. holder = p /\ UNCHANGED <<ghost, budget>> /\ fs.log.ino # 0 /\ fs.legacy \subseteq OkOccs(fs.log.frames)
    BY <1>1 DEF Retire, OwnerOK, Busy
  <1>3. CASE fs.legacy = {}
    <2>1. Unlock(p, "loading") /\ sh[p].pc \in Busy /\ UNCHANGED <<fs, disk>>
      BY <1>1, <1>3 DEF Retire, Busy
    <2>2. ShellsInv' /\ sh' \in [Shells -> Shell]
      BY <2>1, <1>1, <1>2, UnlockInv
    <2>. QED  BY <1>2, <2>1, <2>2, SameDisk, SameGhost DEF IInv, TypeOK
  <1>4. CASE fs.legacy # {}
    <2>. DEFINE gone == CHOOSE o \in fs.legacy : \A x \in fs.legacy : x <= o
                f == [fs EXCEPT !.legacy = fs.legacy \ {gone}]
    <2>1. Put(f) /\ UNCHANGED <<sh, holder>>
      BY <1>4 DEF Retire
    <2>. HIDE DEF gone
    <2>2. f \in Files /\ f.log = fs.log /\ f.saved = fs.saved /\ f.legacy \subseteq fs.legacy
      BY <1>1 DEF Files
    <2>. HIDE DEF f
    <2>3. FileOK(f)
      BY <1>1, <1>2, <2>2, KeptFacts DEF FileOK, Survives
    <2>4. fs' \in Files /\ disk' \subseteq Files /\ DiskInv'
      BY <1>2, <2>1, <2>2, <2>3, PutInv DEF IInv
    <2>5. fs' = f /\ fs'.log = fs.log
      BY <2>1, <2>2 DEF Put
    <2>6. OwnerOK(p)'
      BY <1>1, <1>2, <2>1, <2>2, <2>5 DEF OwnerOK, OkOccs
    <2>7. ShellsInv'
      BY <1>1, <1>2, <2>1, <2>5, <2>6, MoveInv DEF IInv, ShellsInv
    <2>. QED  BY <1>1, <1>2, <2>1, <2>4, <2>7, SameGhost DEF IInv, TypeOK
  <1>. QED  BY <1>3, <1>4
\* More erased or damaged occurrences explain more losses.
LEMMA FileGrows ==
    ASSUME ghost'.acked = ghost.acked, ghost.erased \subseteq ghost'.erased,
           ghost.damaged \subseteq ghost'.damaged
    PROVE  \A f : FileOK(f) => FileOK(f)'
  <1>1. \A x : Solid(x) => Solid(x)'
    BY DEF Solid
  <1>2. \A f : Survives(f) => Survives(f)'
    BY DEF Survives, Kept
  <1>3. \A fr : Framed(fr) => Framed(fr)'
    BY <1>1 DEF Framed, Loose
  <1>. QED  BY <1>2, <1>3 DEF FileOK, Increasing

LEMMA EmptyLog ==
    ASSUME NEW fr, fr = <<>>
    PROVE  Increasing(fr) /\ Framed(fr) /\ (Increasing(fr) /\ Framed(fr))'
  BY DEF Increasing, Framed

LEMMA ResetInv == ASSUME IInv, NEW p \in Shells, Reset(p), ~ ghost.clock' PROVE IInv'
  <1>1. sh \in [Shells -> Shell] /\ sh[p] \in Shell /\ OwnerOK(p) /\ sh[p].pc = "reset"
        /\ Agrees(sh[p], fs.log, Len(fs.log.frames)) /\ fs \in Files /\ FileOK(fs) /\ ghost \in Ghost
    BY DEF IInv, TypeOK, ShellsInv, Reset, At, DiskInv
  <1>. DEFINE occ == {f.occ : f \in Range(fs.log.frames)}
  <1>2. PICK g \in 0 .. MaxGen :
             /\ fs.log.hdr = "ok" => g = fs.log.gen + 1
             /\ sh' = [sh EXCEPT ![p].pc = "rename", ![p].then = "apply",
                         ![p].pub = [NoLog EXCEPT !.gen = g], ![p].snap = <<>>,
                         ![p].snapgen = g, ![p].work = Default]
             /\ ghost' = [ghost EXCEPT !.erased = @ \cup occ, !.clock = @ \/ g <= fs.log.gen]
    BY DEF Reset
  <1>3. holder = p /\ holder' = p /\ budget' = budget /\ sh[p].op = "reset"
    BY <1>1 DEF Reset, OwnerOK, Busy
  <1>4. fs' = (IF fs.log.hdr = "ok" THEN fs ELSE [fs EXCEPT !.saved = @ \cup occ])
        /\ disk' = disk \cup {fs'}
    BY DEF Reset
  <1>5. occ \subseteq Occs /\ OkOccs(fs.log.frames) \subseteq occ
    <2>1. \A x \in Range(fs.log.frames) : x \in Frame
      BY <1>1, FileFields DEF Range
    <2>. QED  BY <2>1 DEF OkOccs, Frame
  <1>. HIDE DEF occ
  <1>6. ghost' \in Ghost /\ ghost'.acked = ghost.acked /\ ghost'.damaged = ghost.damaged
        /\ ghost'.erased = ghost.erased \cup occ /\ ~ (g <= fs.log.gen)
    BY <1>1, <1>2, <1>5 DEF Ghost
  <1>7. fs' \in Files /\ fs'.log = fs.log /\ fs.saved \subseteq fs'.saved /\ fs'.legacy = fs.legacy
    BY <1>1, <1>4, <1>5 DEF Files
  <1>8. FileOK(fs)' /\ disk' \subseteq Files /\ DiskInv'
    <2>1. \A f : FileOK(f) => FileOK(f)'
      BY <1>6, FileGrows
    <2>2. FileOK(fs')
      BY <1>1, <1>7, KeptFacts DEF FileOK, Survives
    <2>3. \A f \in disk' : f \in Files /\ FileOK(f)'
      BY <2>1, <2>2, <1>4, <1>7 DEF IInv, TypeOK, DiskInv
    <2>. QED  BY <2>3, <1>4 DEF DiskInv
  <1>9. GhostInv'
    BY <1>3, <1>6 DEF IInv, GhostInv
  <1>. DEFINE pub == [NoLog EXCEPT !.gen = g]
              l == [sh[p] EXCEPT !.pc = "rename", !.then = "apply", !.pub = pub, !.snap = <<>>,
                                 !.snapgen = g, !.work = Default]
  <1>10. pub \in Log /\ pub.gen = g /\ pub.frames = <<>>
    BY NoLogType DEF Log, NoLog
  <1>11. sh' = [sh EXCEPT ![p] = l]
    BY <1>1, <1>2
  <1>. HIDE DEF pub
  <1>12. l \in Shell /\ SameView(sh[p], l) /\ l.op = "reset" /\ l.pc = "rename" /\ l.then = "apply"
         /\ l.pub = pub /\ l.snap = <<>> /\ l.snapgen = g /\ l.work = Default
    <2>1. <<>> \in Seq(Frame)
      BY EmptySeq
    <2>. QED  BY <1>1, <1>3, <1>10, <2>1, DefaultType DEF Shell, SameView, Pcs, Thens
  <1>. HIDE DEF l
  <1>13. sh' \in [Shells -> Shell] /\ sh'[p] = l /\ \A q \in Shells \ {p} : sh'[q] = sh[q]
    BY <1>1, <1>11, <1>12, LocalFacts
  <1>14. Agrees(sh'[p], fs.log, Len(fs.log.frames))
    BY <1>1, <1>12, <1>13, AgreesSame
  <1>15. pub.gen > fs.log.gen
    BY <1>1, <1>6, <1>10, FileFields, BoundsFacts DEF Files, Log
  <1>16. Publishes(sh[p], fs)'
    <2>1. Survives([fs EXCEPT !.log = pub])'
      <3>1. [fs' EXCEPT !.log = pub].saved = fs'.saved /\ [fs' EXCEPT !.log = pub].legacy = fs'.legacy
        BY <1>7 DEF Files
      <3>2. Survives(fs)
        BY <1>1 DEF FileOK
      <3>3. ghost.acked \subseteq OkOccs(fs.log.frames) \cup fs.saved \cup fs.legacy \cup ghost.erased \cup ghost.damaged
        BY <3>2, KeptFacts DEF Survives
      <3>4. ghost'.acked \subseteq fs'.saved \cup fs'.legacy \cup ghost'.erased \cup ghost'.damaged
        BY <3>3, <1>5, <1>6, <1>7
      <3>5. fs'.saved \cup fs'.legacy \subseteq Kept([fs' EXCEPT !.log = pub])
        BY <3>1, KeptFacts
      <3>. QED  BY <3>4, <3>5 DEF Survives, Kept
    <2>. QED  BY <2>1, <1>7, <1>10, <1>12, <1>13, <1>15, EmptyLog DEF Publishes, Emptied,
                 Increasing, Framed
  <1>17. OwnerOK(p)' /\ Loading(sh'[p])
    BY <1>3, <1>12, <1>13, <1>16 DEF OwnerOK, Resumes, Loading
  <1>18. ShellsInv'
    BY <1>3, <1>6, <1>7, <1>13, <1>14, <1>17, MoveInv
  <1>. QED  BY <1>3, <1>6, <1>7, <1>8, <1>9, <1>13, <1>18 DEF IInv, TypeOK

\* The log after stored bytes went bad: the same frames, some damaged in place.
Decayed ==
    /\ fs' \in Files /\ fs'.legacy = fs.legacy /\ fs'.saved = fs.saved
    /\ ghost' \in Ghost /\ ghost'.acked = ghost.acked /\ ghost'.erased = ghost.erased
    /\ ghost.damaged \subseteq ghost'.damaged
    /\ fs'.log.ino = fs.log.ino /\ fs'.log.gen = fs.log.gen /\ Len(fs'.log.frames) = Len(fs.log.frames)
    /\ \A k \in 1 .. Len(fs.log.frames) :
          LET x == fs.log.frames[k]
              y == fs'.log.frames[k]
          IN  /\ y.id = x.id /\ y.occ = x.occ
              /\ y.st = x.st \/ (y.st \in {"bad", "rot"} /\ x.occ \in ghost'.damaged)

LEMMA RotDecays == ASSUME IInv, Rot PROVE Decayed
  <1>1. fs \in Files /\ ghost \in Ghost /\ fs.log \in Log
    BY DEF IInv, TypeOK, Files
  <1>2. CASE fs' = [fs EXCEPT !.log.hdr = "rot"] /\ ghost' = [ghost EXCEPT !.header = TRUE]
    <2>1. fs' \in Files /\ fs'.legacy = fs.legacy /\ fs'.saved = fs.saved
          /\ fs'.log.ino = fs.log.ino /\ fs'.log.gen = fs.log.gen /\ fs'.log.frames = fs.log.frames
      BY <1>1, <1>2 DEF Files, Log
    <2>2. ghost' \in Ghost /\ ghost'.acked = ghost.acked /\ ghost'.erased = ghost.erased
          /\ ghost.damaged \subseteq ghost'.damaged
      BY <1>1, <1>2 DEF Ghost
    <2>. QED  BY <2>1, <2>2 DEF Decayed
  <1>3. ASSUME NEW i \in DOMAIN fs.log.frames, NEW st \in {"bad", "rot"},
               fs' = [fs EXCEPT !.log.frames[i].st = st],
               ghost' = [ghost EXCEPT !.damaged = @ \cup {fs.log.frames[i].occ}]
        PROVE  Decayed
    <2>. DEFINE fr == fs.log.frames
                x == [fr[i] EXCEPT !.st = st]
                fr2 == [fr EXCEPT ![i] = x]
    <2>1. fr \in Seq(Frame) /\ i \in 1 .. Len(fr) /\ fr[i] \in Frame
      BY <1>1, FileFields
    <2>2. x \in Frame /\ x.id = fr[i].id /\ x.occ = fr[i].occ /\ x.st = st
      BY <2>1 DEF Frame, Conditions
    <2>3. fs' = [fs EXCEPT !.log = [fs.log EXCEPT !.frames = fr2]]
      BY <1>1, <1>3, <2>1 DEF Files, Log
    <2>. HIDE DEF x
    <2>4. fr2 \in Seq(Frame) /\ Len(fr2) = Len(fr) /\ \A k \in 1 .. Len(fr) : fr2[k] = IF k = i THEN x ELSE fr[k]
      BY <2>1, <2>2, ExceptSeq, LenProperties
    <2>. HIDE DEF fr2
    <2>5. [fs.log EXCEPT !.frames = fr2] \in Log
      BY <1>1, <2>4 DEF Log
    <2>6. fs' \in Files /\ fs'.legacy = fs.legacy /\ fs'.saved = fs.saved /\ fs'.log = [fs.log EXCEPT !.frames = fr2]
      BY <1>1, <2>3, <2>5 DEF Files
    <2>7. fs'.log.ino = fs.log.ino /\ fs'.log.gen = fs.log.gen /\ fs'.log.frames = fr2
      BY <1>1, <2>6 DEF Log
    <2>8. fr[i].occ \in Occs
      BY <2>1 DEF Frame
    <2>9. ghost' \in Ghost /\ ghost'.acked = ghost.acked /\ ghost'.erased = ghost.erased
          /\ ghost'.damaged = ghost.damaged \cup {fr[i].occ}
      BY <1>1, <1>3, <2>8 DEF Ghost
    <2>. QED  BY <2>2, <2>4, <2>6, <2>7, <2>9 DEF Decayed
  <1>. QED  BY <1>2, <1>3 DEF Rot

LEMMA RotInv == ASSUME IInv, Rot PROVE IInv'
  <1>1. sh \in [Shells -> Shell] /\ fs \in Files /\ fs \in disk /\ FileOK(fs) /\ ghost \in Ghost
    BY DEF IInv, TypeOK, DiskInv
  <1>2. holder = None /\ holder' = None /\ sh' = sh /\ disk' = disk \cup {fs'} /\ Spend("rot") /\ fs.log.ino # 0
    BY DEF Rot
  <1>3. budget' \in [ops : Nat, occ : 0 .. MaxOcc, fail : Nat, crash : Nat, rot : 0 .. MaxRot]
        /\ budget'.occ = budget.occ /\ budget'.rot # MaxRot
    <2>1. budget.rot \in 0 .. MaxRot
      BY DEF IInv, TypeOK
    <2>2. budget'.rot = budget.rot - 1
      BY <1>2 DEF Spend, IInv, TypeOK
    <2>. QED  BY <1>2, <2>1, <2>2, SpendFacts, BoundsFacts DEF IInv
  <1>4. Decayed
    BY RotDecays
  <1>. DEFINE fr == fs.log.frames
              fr2 == fs'.log.frames
              n == Len(fr)
  <1>5. DOMAIN fr = 1 .. n /\ DOMAIN fr2 = 1 .. n /\ n \in Nat
    BY <1>1, <1>4, FileFields DEF Decayed
  <1>6. \A k \in 1 .. n : fr2[k].id = fr[k].id /\ fr2[k].occ = fr[k].occ /\ (Solid(fr[k]) => Solid(fr[k])')
                          /\ (Solid(fr[k])' \/ fr2[k].st = fr[k].st)
    BY <1>4 DEF Decayed, Solid
  <1>7. FileOK(fs)'
    <2>1. Increasing(fr)' /\ Framed(fr)'
      BY <1>1, <1>4, <1>5, <1>6 DEF FileOK, Increasing, Framed, Loose, Decayed
    <2>2. Survives(fs)'
      <3>1. \A o \in OkOccs(fr) : o \in OkOccs(fr2) \cup ghost'.damaged
        <4>1. ASSUME NEW o \in OkOccs(fr) PROVE o \in OkOccs(fr2) \cup ghost'.damaged
          <5>1. PICK k \in 1 .. n : fr[k].st = "ok" /\ fr[k].occ = o
            BY <1>1, <4>1, FileFields, RangeFacts
          <5>2. fr2[k].occ = o /\ (fr2[k].st = "ok" \/ o \in ghost'.damaged)
            BY <5>1, <1>4 DEF Decayed
          <5>3. fr2 \in Seq(Frame) /\ Len(fr2) = n
            BY <1>4, FileFields DEF Decayed
          <5>. QED  BY <5>2, <5>3, RangeFacts
        <4>. QED  BY <4>1
      <3>2. ghost.acked \subseteq OkOccs(fr) \cup fs.saved \cup fs.legacy \cup ghost.erased \cup ghost.damaged
        BY <1>1, KeptFacts DEF FileOK, Survives
      <3>3. ghost'.acked \subseteq Kept(fs') \cup ghost'.erased \cup ghost'.damaged
        BY <3>1, <3>2, <1>4, KeptFacts DEF Decayed
      <3>. QED  BY <3>3 DEF Survives, Kept
    <2>. QED  BY <2>1, <2>2, <1>2, <1>4 DEF FileOK, Decayed
  <1>8. disk' \subseteq Files /\ DiskInv'
    <2>1. \A f : FileOK(f) => FileOK(f)'
      BY <1>4, FileGrows DEF Decayed
    <2>. QED  BY <1>2, <1>4, <1>7, <2>1 DEF IInv, TypeOK, DiskInv, Decayed
  <1>9. GhostInv'
    BY <1>3, <1>4 DEF IInv, GhostInv, Decayed
  <1>10. \A q \in Shells : Agrees(sh[q], fs.log, Len(fs.log.frames))'
    <2>1. ASSUME NEW q \in Shells PROVE Agrees(sh[q], fs.log, Len(fs.log.frames))'
      <3>1. Agrees(sh[q], fs.log, n) /\ sh[q] \in Shell
        BY <1>1 DEF IInv, ShellsInv
      <3>2. sh[q].cursor.off \in Nat /\ Len(sh[q].view) \in Nat /\ DOMAIN sh[q].view = 1 .. Len(sh[q].view)
        BY <3>1, LenProperties DEF Shell, Cursor
      <3>3. Points(sh[q].cursor, fs.log, n) => Points(sh[q].cursor, fs.log, n)'
        <4>. DEFINE c == sh[q].cursor
        <4>. SUFFICES ASSUME Points(c, fs.log, n) PROVE Points(c, fs.log, n)'
          OBVIOUS
        <4>1. c.off <= n /\ c.last = IdAt(fr, c.off) /\ \A i \in 1 .. c.off : Solid(fr[i])
          BY DEF Points
        <4>2. \A i \in 1 .. c.off : i \in 1 .. n
          BY <4>1, <3>2, <1>5
        <4>3. \A i \in 1 .. c.off : Solid(fr[i])'
          BY <4>1, <4>2, <1>6
        <4>4. IdAt(fr2, c.off) = IdAt(fr, c.off)
          <5>1. c.off = 0 \/ c.off \in 1 .. n
            BY <4>2, <3>2
          <5>2. \A k \in 1 .. n : fr2[k].id = fr[k].id
            BY <1>6
          <5>. QED  BY <5>1, <5>2 DEF IdAt
        <4>5. n' = n /\ sh' = sh
          BY <1>2, <1>4 DEF Decayed
        <4>. QED  BY <4>1, <4>3, <4>4, <4>5 DEF Points
      <3>4. Len(sh[q].view) <= n => IdAt(fr2, Len(sh[q].view)) = IdAt(fr, Len(sh[q].view))
                                    /\ \A i \in DOMAIN sh[q].view : fr2[i].occ = fr[i].occ
        BY <1>6, <3>2 DEF IdAt
      <3>. QED  BY <1>2, <1>4, <3>1, <3>3, <3>4 DEF Agrees, Decayed
    <2>. QED  BY <2>1
  <1>11. \A q \in Shells : OwnerOK(q)' /\ Loading(sh[q])'
    <2>1. \A q \in Shells : sh[q].pc \notin Busy
      BY <1>2, BoundsFacts DEF IInv, ShellsInv, OwnerOK
    <2>. QED  BY <1>2, <2>1 DEF OwnerOK, Busy, Loading, IInv, ShellsInv
  <1>. QED  BY <1>1, <1>2, <1>3, <1>4, <1>8, <1>9, <1>10, <1>11 DEF IInv, TypeOK, ShellsInv, Decayed
-----------------------------------------------------------------------------
(* Appending to the log.                                                   *)

\* The log changes under the shell that holds the lock.
LEMMA ChangeInv ==
    ASSUME IInv, NEW p \in Shells, holder \in {p, None},
           \A q \in Shells \ {p} : sh'[q] = sh[q],
           \A q \in Shells : Agrees(sh[q], fs.log, Len(fs.log.frames))',
           OwnerOK(p)', Loading(sh'[p])
    PROVE  ShellsInv'
  <1>1. \A q \in Shells \ {p} : OwnerOK(q)'
    <2>1. \A q \in Shells \ {p} : sh'[q].pc \notin Busy
      BY OthersRest DEF IInv
    <2>. QED  BY <2>1 DEF OwnerOK, Busy
  <1>2. \A q \in Shells : Loading(sh'[q])
    BY DEF IInv, ShellsInv
  <1>3. \A q \in Shells : Loading(sh[q])'
    BY <1>2 DEF Loading
  <1>. QED  BY <1>1, <1>3 DEF ShellsInv

\* Two logs of one file and generation with the same first n frames.
SamePrefix(log, other, n) ==
    /\ other.gen = log.gen /\ other.ino = log.ino
    /\ \A k \in 1 .. n : other.frames[k] = log.frames[k]

LEMMA PointsPrefix ==
    ASSUME NEW c \in Cursor, NEW log, NEW other, NEW n \in Nat,
           SamePrefix(log, other, n), Points(c, log, n)
    PROVE  Points(c, other, n)
  <1>1. c.off \in Nat /\ c.off <= n /\ (c.off = 0 \/ c.off \in 1 .. n)
    BY DEF Cursor, Points
  <1>2. IdAt(other.frames, c.off) = IdAt(log.frames, c.off)
    BY <1>1 DEF IdAt, SamePrefix
  <1>3. \A i \in 1 .. c.off : other.frames[i] = log.frames[i]
    BY <1>1 DEF SamePrefix
  <1>. QED  BY <1>1, <1>2, <1>3 DEF Points

LEMMA AgreesPrefix ==
    ASSUME NEW s \in Shell, NEW log, NEW other, NEW n \in Nat,
           SamePrefix(log, other, n), Agrees(s, log, n)
    PROVE  Agrees(s, other, n)
  <1>1. s.cursor \in Cursor /\ Len(s.view) \in Nat /\ DOMAIN s.view = 1 .. Len(s.view)
    BY LenProperties DEF Shell
  <1>2. Points(s.cursor, log, n) => Points(s.cursor, other, n)
    BY <1>1, PointsPrefix
  <1>3. ASSUME Len(s.view) <= n
        PROVE  IdAt(other.frames, Len(s.view)) = IdAt(log.frames, Len(s.view))
               /\ \A i \in DOMAIN s.view : other.frames[i] = log.frames[i]
    <2>1. Len(s.view) = 0 \/ Len(s.view) \in 1 .. n
      BY <1>1, <1>3
    <2>. QED  BY <1>1, <1>3, <2>1 DEF IdAt, SamePrefix
  <1>4. other.gen = log.gen /\ other.ino = log.ino
    BY DEF SamePrefix
  <1>. QED  BY <1>2, <1>3, <1>4 DEF Agrees

LEMMA SnapshotPrefix ==
    ASSUME NEW s \in Shell, NEW log, NEW other, NEW n \in Nat,
           SamePrefix(log, other, n), Snapshot(s, log, n)
    PROVE  Snapshot(s, other, n)
  <1>. DEFINE old == IF s.gen = log.gen THEN Len(s.view) ELSE 0
  <1>1. s.work \in Cursor /\ Len(s.view) \in Nat /\ Len(s.snap) \in Nat /\ DOMAIN s.snap = 1 .. Len(s.snap)
        /\ old \in Nat
    BY LenProperties DEF Shell
  <1>2. Points(s.work, log, n) => Points(s.work, other, n)
    BY <1>1, PointsPrefix
  <1>3. other.gen = log.gen /\ other.ino = log.ino
    BY DEF SamePrefix
  <1>4. old + Len(s.snap) = n /\ \A i \in DOMAIN s.snap : s.snap[i] = log.frames[old + i]
    BY DEF Snapshot
  <1>. HIDE DEF old
  <1>5. \A i \in DOMAIN s.snap : old + i \in 1 .. n
    BY <1>1, <1>4
  <1>6. \A i \in DOMAIN s.snap : s.snap[i] = other.frames[old + i]
    BY <1>4, <1>5 DEF SamePrefix
  <1>. QED  BY <1>2, <1>3, <1>4, <1>6 DEF Snapshot, old

\* The log with one more frame.
Longer(st, id, o) == [fs EXCEPT !.log.frames = Append(@, [Good(id, o) EXCEPT !.st = st])]

LEMMA LongerFacts ==
    ASSUME TypeOK, FileOK(fs), fs.log.ino # 0, NEW id \in Occs, NEW o \in Occs,
           NEW st \in Conditions, o \notin ghost.acked,
           id > IdAt(fs.log.frames, Len(fs.log.frames)),
           \A k \in 1 .. Len(fs.log.frames) : Solid(fs.log.frames[k]),
           NEW f, f = Longer(st, id, o)
    PROVE  /\ f \in Files /\ FileOK(f) /\ f.log.ino # 0
           /\ Len(f.log.frames) = Len(fs.log.frames) + 1
           /\ SamePrefix(fs.log, f.log, Len(fs.log.frames))
           /\ LET x == f.log.frames[Len(fs.log.frames) + 1]
              IN  x.occ = o /\ (st = "ok" => x = Good(id, o))
  <1>. DEFINE fr == fs.log.frames
              n == Len(fr)
              x == [Good(id, o) EXCEPT !.st = st]
              fr2 == Append(fr, x)
  <1>1. fs \in Files /\ fs.log \in Log /\ fr \in Seq(Frame) /\ n \in Nat /\ DOMAIN fr = 1 .. n
        /\ \A k \in 1 .. n : fr[k] \in Frame
    BY FileFields DEF TypeOK
  <1>2. x \in Frame /\ x.id = id /\ x.occ = o /\ x.st = st /\ (st = "ok" => x = Good(id, o))
    BY DEF Good, Frame, Conditions
  <1>. HIDE DEF x
  <1>3. fr2 \in Seq(Frame) /\ Len(fr2) = n + 1 /\ (\A k \in 1 .. n : fr2[k] = fr[k]) /\ fr2[n + 1] = x
    BY <1>1, <1>2, AppendProperties
  <1>4. f = [fs EXCEPT !.log = [fs.log EXCEPT !.frames = fr2]]
    BY <1>1 DEF Longer, x, Files, Log
  <1>. HIDE DEF fr2
  <1>5. [fs.log EXCEPT !.frames = fr2] \in Log
    BY <1>1, <1>3 DEF Log
  <1>6. f \in Files /\ f.legacy = fs.legacy /\ f.saved = fs.saved /\ f.log = [fs.log EXCEPT !.frames = fr2]
    BY <1>1, <1>4, <1>5 DEF Files
  <1>7. f.log.ino = fs.log.ino /\ f.log.gen = fs.log.gen /\ f.log.frames = fr2
    BY <1>1, <1>6 DEF Log
  <1>8. DOMAIN fr2 = 1 .. n + 1
    BY <1>1, <1>3, LenProperties
  <1>9. Increasing(fr2)
    <2>1. \A i, j \in 1 .. n : i < j => fr[i].id < fr[j].id
      <3>1. Increasing(fr)
        BY DEF FileOK
      <3>. QED  BY <1>1, <3>1 DEF Increasing
    <2>2. \A k \in 1 .. n : fr[k].id \in Nat
      BY <1>1, BoundsFacts DEF Frame, Occs
    <2>3. id \in Nat
      BY BoundsFacts DEF Occs
    <2>4. ASSUME NEW k \in 1 .. n PROVE fr[k].id < id
      <3>1. n \in 1 .. n /\ fr[n].id < id
        BY <1>1 DEF IdAt
      <3>2. k = n \/ fr[k].id < fr[n].id
        BY <1>1, <2>1, <3>1
      <3>. QED  BY <2>2, <2>3, <3>1, <3>2
    <2>5. ASSUME NEW i \in 1 .. n + 1, NEW j \in 1 .. n + 1, i < j PROVE fr2[i].id < fr2[j].id
      <3>1. i \in 1 .. n /\ fr2[i] = fr[i] /\ (j \in 1 .. n \/ j = n + 1)
        BY <1>1, <1>3, <2>5
      <3>2. CASE j \in 1 .. n
        BY <1>3, <2>1, <2>5, <3>1, <3>2
      <3>3. CASE j = n + 1
        BY <1>2, <1>3, <2>4, <3>1, <3>3
      <3>. QED  BY <3>1, <3>2, <3>3
    <2>. QED  BY <1>8, <2>5 DEF Increasing
  <1>10. Framed(fr2)
    <2>1. ASSUME NEW i \in 1 .. n + 1
          PROVE  Solid(fr2[i]) \/ (i = n + 1 /\ Loose(fr2[i]))
      <3>1. CASE i = n + 1
        BY <1>2, <1>3, <3>1 DEF Solid, Loose
      <3>2. CASE i # n + 1
        <4>1. i \in 1 .. n
          BY <1>1, <3>2
        <4>. QED  BY <1>3, <4>1
      <3>. QED  BY <3>1, <3>2
    <2>. QED  BY <1>3, <1>8, <2>1 DEF Framed
  <1>11. OkOccs(fr) \subseteq OkOccs(fr2)
    <2>1. ASSUME NEW y \in OkOccs(fr) PROVE y \in OkOccs(fr2)
      <3>1. PICK k \in 1 .. n : fr[k].st = "ok" /\ fr[k].occ = y
        BY <1>1, RangeFacts
      <3>2. k \in 1 .. Len(fr2) /\ fr2[k].st = "ok" /\ fr2[k].occ = y
        BY <1>1, <1>3, <3>1
      <3>. QED  BY <1>3, <3>2, RangeFacts
    <2>. QED  BY <2>1
  <1>12. FileOK(f)
    BY <1>6, <1>7, <1>9, <1>10, <1>11, KeptFacts DEF FileOK, Survives
  <1>. QED  BY <1>2, <1>3, <1>6, <1>7, <1>12 DEF SamePrefix
LEMMA SnapshotPoints ==
    ASSUME NEW s, NEW log, NEW n, Snapshot(s, log, n), s.op # "reset"
    PROVE  s.work.ino = log.ino /\ s.work.gen = log.gen /\ s.work.off = n /\ Points(s.work, log, n)
  BY DEF Snapshot

LEMMA WriteInv == ASSUME IInv, NEW p \in Shells, Write(p) PROVE IInv'
  <1>. DEFINE log == fs.log
              n == Len(log.frames)
              o == MaxOcc - budget.occ + 1
              id == NextId(p)
  <1>1. sh \in [Shells -> Shell] /\ sh[p] \in Shell /\ OwnerOK(p) /\ sh[p].pc = "write"
        /\ fs \in Files /\ fs \in disk /\ FileOK(fs) /\ ghost \in Ghost
    BY DEF IInv, TypeOK, ShellsInv, DiskInv, Write, At
  <1>2. /\ holder = p /\ holder' = p /\ ghost' = ghost
        /\ log.ino # 0 /\ sh[p].op = "add" /\ Snapshot(sh[p], log, n)
    BY <1>1 DEF Write, OwnerOK, Busy
  <1>3. /\ budget.occ > 0 /\ budget' = [budget EXCEPT !.occ = @ - 1] /\ id <= MaxOcc
        /\ \/ fs' = Longer("ok", id, o) /\ sh' = [sh EXCEPT ![p].pc = "fsync", ![p].fresh = o]
           \/ fs' = Longer("short", id, o) /\ sh' = [sh EXCEPT ![p].pc = "rollback", ![p].fresh = o]
        /\ disk' = disk \cup {Longer(st, id, o) : st \in Conditions}
    BY DEF Write, Longer
  <1>4. budget.occ \in 1 .. MaxOcc /\ budget'.occ = budget.occ - 1 /\ budget'.rot = budget.rot
        /\ budget' \in [ops : Nat, occ : 0 .. MaxOcc, fail : Nat, crash : Nat, rot : 0 .. MaxRot]
    <2>1. budget \in [ops : Nat, occ : 0 .. MaxOcc, fail : Nat, crash : Nat, rot : 0 .. MaxRot]
      BY DEF IInv, TypeOK
    <2>2. budget.occ \in 0 .. MaxOcc
      BY <2>1
    <2>3. budget.occ - 1 \in 0 .. MaxOcc
      BY <2>2, <1>3, BoundsFacts
    <2>. QED  BY <1>3, <2>1, <2>2, <2>3, BoundsFacts
  <1>5. o \in Occs /\ o = MaxOcc - budget'.occ /\ o \notin ghost.acked
    <2>1. o \in Occs /\ o = MaxOcc - budget'.occ /\ ~ (o <= MaxOcc - budget.occ)
      BY <1>4, BoundsFacts DEF Occs
    <2>. QED  BY <2>1 DEF IInv, GhostInv
  <1>6. sh[p].work.off = n /\ sh[p].work.last = IdAt(log.frames, n) /\ \A k \in 1 .. n : Solid(log.frames[k])
    BY <1>2, SnapshotPoints DEF Points
  <1>7. id \in Occs /\ id = sh[p].work.last + 1 /\ id > IdAt(log.frames, n)
    <2>1. sh[p].work.last \in Nat
      BY <1>1, BoundsFacts DEF Shell, Cursor
    <2>. QED  BY <1>3, <1>6, <2>1, BoundsFacts DEF NextId, Occs
  <1>. HIDE DEF o, id
  <1>8. n \in Nat
    BY <1>1, FileFields
  <1>9. \A st \in Conditions :
           LET f == Longer(st, id, o)
           IN  /\ f \in Files /\ FileOK(f) /\ f.log.ino # 0
               /\ Len(f.log.frames) = n + 1 /\ SamePrefix(log, f.log, n)
               /\ f.log.frames[n + 1].occ = o /\ (st = "ok" => f.log.frames[n + 1] = Good(id, o))
    BY <1>1, <1>2, <1>5, <1>6, <1>7, LongerFacts DEF IInv
  <1>10. fs' \in Files /\ FileOK(fs') /\ fs'.log.ino # 0 /\ Len(fs'.log.frames) = n + 1
         /\ SamePrefix(log, fs'.log, n) /\ fs'.log.frames[n + 1].occ = o
    BY <1>3, <1>9 DEF Conditions
  <1>11. disk' \subseteq Files /\ DiskInv'
    <2>1. \A f : FileOK(f) => FileOK(f)'
      BY <1>2, FileGrows
    <2>2. \A f \in disk' : f \in Files /\ FileOK(f)
      BY <1>3, <1>9 DEF IInv, TypeOK, DiskInv
    <2>3. fs' \in disk'
      BY <1>3 DEF Conditions
    <2>. QED  BY <2>1, <2>2, <2>3 DEF DiskInv
  <1>12. GhostInv'
    <2>1. \A y \in ghost.acked : y \in Nat /\ y <= MaxOcc - budget.occ
      BY <1>1, BoundsFacts DEF IInv, GhostInv, Ghost, Occs
    <2>2. \A y \in ghost.acked : y <= MaxOcc - budget'.occ
      BY <2>1, <1>4, BoundsFacts
    <2>. QED  BY <1>2, <1>4, <2>2 DEF IInv, GhostInv
  <1>13. PICK l \in Shell : /\ sh' = [sh EXCEPT ![p] = l] /\ SameView(sh[p], l) /\ l.op = "add" /\ l.fresh = o
                            /\ l.work = sh[p].work /\ l.snap = sh[p].snap /\ l.snapgen = sh[p].snapgen
                            /\ \/ l.pc = "fsync" /\ fs' = Longer("ok", id, o)
                               \/ l.pc = "rollback"
    <2>1. o \in 0 .. MaxOcc
      BY <1>5, BoundsFacts DEF Occs
    <2>2. CASE fs' = Longer("ok", id, o) /\ sh' = [sh EXCEPT ![p].pc = "fsync", ![p].fresh = o]
      <3>. DEFINE l == [sh[p] EXCEPT !.pc = "fsync", !.fresh = o]
      <3>1. l \in Shell /\ SameView(sh[p], l) /\ l.op = sh[p].op /\ l.fresh = o /\ l.pc = "fsync"
            /\ l.work = sh[p].work /\ l.snap = sh[p].snap /\ l.snapgen = sh[p].snapgen
        BY <1>1, <2>1 DEF Shell, SameView, Pcs
      <3>2. sh' = [sh EXCEPT ![p] = l]
        BY <1>1, <2>2
      <3>. QED  BY <3>1, <3>2, <2>2, <1>2
    <2>3. CASE sh' = [sh EXCEPT ![p].pc = "rollback", ![p].fresh = o]
      <3>. DEFINE l == [sh[p] EXCEPT !.pc = "rollback", !.fresh = o]
      <3>1. l \in Shell /\ SameView(sh[p], l) /\ l.op = sh[p].op /\ l.fresh = o /\ l.pc = "rollback"
            /\ l.work = sh[p].work /\ l.snap = sh[p].snap /\ l.snapgen = sh[p].snapgen
        BY <1>1, <2>1 DEF Shell, SameView, Pcs
      <3>2. sh' = [sh EXCEPT ![p] = l]
        BY <1>1, <2>3
      <3>. QED  BY <3>1, <3>2, <1>2
    <2>. QED  BY <2>2, <2>3, <1>3
  <1>14. sh' \in [Shells -> Shell] /\ sh'[p] = l /\ \A q \in Shells \ {p} : sh'[q] = sh[q]
    BY <1>1, <1>13, LocalFacts
  <1>15. \A q \in Shells : sh'[q] \in Shell /\ Agrees(sh'[q], fs'.log, n) /\ Agrees(sh'[q], fs'.log, n + 1)
    <2>1. ASSUME NEW q \in Shells PROVE Agrees(sh'[q], fs'.log, n)
      <3>1. Agrees(sh[q], log, n) /\ sh[q] \in Shell
        BY <1>1 DEF IInv, ShellsInv
      <3>2. Agrees(sh[q], fs'.log, n)
        BY <1>8, <1>10, <3>1, AgreesPrefix
      <3>. QED  BY <1>13, <1>14, <3>2, AgreesSame
    <2>2. fs'.log \in Log /\ n + 1 \in Nat /\ n <= n + 1
      BY <1>8, <1>10, FileFields
    <2>. QED  BY <1>8, <1>14, <2>1, <2>2, AgreesMore
  <1>16. \A q \in Shells : Agrees(sh[q], fs.log, Len(fs.log.frames))' /\ Agrees(sh[q], fs.log, sh[p].work.off)'
    <2>1. \A q \in Shells : Agrees(sh'[q], fs'.log, Len(fs'.log.frames)) /\ Agrees(sh'[q], fs'.log, sh'[p].work.off)
      BY <1>6, <1>10, <1>13, <1>14, <1>15
    <2>. QED  BY <2>1, <1>2 DEF Agrees, Points, Solid
  <1>17. Appending(sh[p], fs.log)'
    <2>1. /\ Len(fs'.log.frames) = sh'[p].work.off + 1 /\ sh'[p].op = "add"
          /\ fs'.log.frames[sh'[p].work.off + 1].occ = sh'[p].fresh /\ sh'[p].fresh = o
      BY <1>6, <1>10, <1>13, <1>14
    <2>2. o <= MaxOcc - budget'.occ
      BY <1>5, BoundsFacts DEF Occs
    <2>3. \A q \in Shells : Agrees(sh[q], fs.log, sh[p].work.off)'
      BY <1>16
    <2>. QED  BY <2>1, <2>2, <2>3, <1>2, <1>5 DEF Appending
  <1>18. Snapshot(sh[p], fs.log, sh[p].work.off)'
    <2>1. Snapshot(sh[p], fs'.log, n)
      BY <1>1, <1>2, <1>8, <1>10, SnapshotPrefix
    <2>2. Snapshot(l, fs'.log, n)
      BY <2>1, <1>2, <1>13 DEF Snapshot, SameView
    <2>3. Snapshot(sh'[p], fs'.log, sh'[p].work.off)
      BY <2>2, <1>6, <1>13, <1>14
    <2>. QED  BY <2>3, <1>2 DEF Snapshot, Points, Solid
  <1>19. OwnerOK(p)'
    <2>1. CASE l.pc = "fsync" /\ fs' = Longer("ok", id, o)
      <3>1. fs'.log.frames[n + 1] = Good(id, o)
        BY <2>1, <1>9 DEF Conditions
      <3>2. fs'.log.frames[Len(fs'.log.frames)] = Good(l.work.last + 1, l.fresh)
        BY <3>1, <1>7, <1>10, <1>13
      <3>. QED  BY <2>1, <3>2, <1>2, <1>10, <1>13, <1>14, <1>17, <1>18 DEF OwnerOK
    <2>2. CASE l.pc = "rollback"
      BY <2>2, <1>2, <1>10, <1>13, <1>14, <1>17 DEF OwnerOK
    <2>. QED  BY <2>1, <2>2, <1>13
  <1>20. Loading(sh'[p])
    BY <1>13, <1>14 DEF Loading
  <1>21. ShellsInv'
    BY <1>2, <1>14, <1>16, <1>19, <1>20, ChangeInv
  <1>. QED  BY <1>1, <1>2, <1>4, <1>10, <1>11, <1>12, <1>14, <1>21 DEF IInv, TypeOK

LEMMA FsyncInv == ASSUME IInv, NEW p \in Shells, Fsync(p) PROVE IInv'
  <1>. DEFINE log == fs.log
              n == Len(log.frames)
              s == sh[p]
              x == Good(NextId(p), s.fresh)
              work == [s.work EXCEPT !.off = @ + 1, !.last = @ + 1]
              snap == Append(s.snap, x)
              l == [s EXCEPT !.pc = "apply", !.snap = snap, !.work = work]
  <1>1. sh \in [Shells -> Shell] /\ s \in Shell /\ OwnerOK(p) /\ s.pc = "fsync"
        /\ Agrees(s, log, n) /\ fs \in Files /\ fs \in disk /\ FileOK(fs)
    BY DEF IInv, TypeOK, ShellsInv, DiskInv, Fsync, At
  <1>2. /\ holder = p /\ holder' = p /\ ghost' = ghost /\ budget' = budget /\ Commit /\ fs' = fs /\ disk' = {fs}
        /\ log.ino # 0 /\ Appending(s, log) /\ Snapshot(s, log, s.work.off)
        /\ log.frames[n] = Good(s.work.last + 1, s.fresh)
    BY <1>1 DEF Fsync, Commit, OwnerOK, Busy
  <1>3. s.op = "add" /\ n = s.work.off + 1 /\ s.fresh <= MaxOcc - budget.occ
    BY <1>2 DEF Appending
  <1>4. s.work \in Cursor /\ s.work.off \in Nat /\ n \in 1 .. n /\ n \in Nat /\ s.snap \in Seq(Frame)
        /\ Len(s.snap) \in Nat /\ s.work.last \in 0 .. MaxOcc
    BY <1>1, <1>3, FileFields, LenProperties DEF Shell, Cursor
  <1>5. x \in Frame /\ x = log.frames[n] /\ x.id = s.work.last + 1 /\ x.st = "ok" /\ x.occ = s.fresh
    <2>1. x = log.frames[n]
      BY <1>2 DEF NextId
    <2>. QED  BY <1>1, <1>4, <2>1, FileFields DEF Good, NextId
  <1>. HIDE DEF x
  <1>6. work \in Cursor /\ work.off = n /\ work.last = x.id /\ work.ino = s.work.ino /\ work.gen = s.work.gen
    <2>1. x.id \in 0 .. MaxOcc
      BY <1>5, BoundsFacts DEF Frame, Occs
    <2>. QED  BY <1>3, <1>4, <1>5, <2>1 DEF Cursor
  <1>. HIDE DEF work
  <1>7. snap \in Seq(Frame) /\ Len(snap) = Len(s.snap) + 1 /\ snap[Len(s.snap) + 1] = x
        /\ (\A i \in 1 .. Len(s.snap) : snap[i] = s.snap[i]) /\ DOMAIN snap = 1 .. Len(s.snap) + 1
        /\ DOMAIN s.snap = 1 .. Len(s.snap)
    BY <1>4, <1>5, AppendProperties, LenProperties
  <1>8. sh' = [sh EXCEPT ![p] = l]
    BY <1>1 DEF Fsync, x, work
  <1>. HIDE DEF snap
  <1>9. l \in Shell /\ SameView(s, l) /\ l.op = "add" /\ l.pc = "apply" /\ l.snap = snap /\ l.work = work
        /\ l.fresh = s.fresh /\ l.snapgen = s.snapgen
    BY <1>1, <1>3, <1>6, <1>7 DEF Shell, SameView, Pcs
  <1>. HIDE DEF l
  <1>10. sh' \in [Shells -> Shell] /\ sh'[p] = l /\ \A q \in Shells \ {p} : sh'[q] = sh[q]
    BY <1>1, <1>8, <1>9, LocalFacts
  <1>11. Agrees(sh'[p], fs.log, Len(fs.log.frames))
    BY <1>1, <1>9, <1>10, AgreesSame
  <1>12. Snapshot(l, log, n)
    <2>1. s.work.ino = log.ino /\ s.work.gen = log.gen /\ Points(s.work, log, s.work.off)
      BY <1>2, <1>3, SnapshotPoints
    <2>2. Points(work, log, n)
      <3>1. \A i \in 1 .. n : Solid(log.frames[i])
        <4>1. \A i \in 1 .. s.work.off : Solid(log.frames[i])
          BY <2>1 DEF Points
        <4>2. Solid(log.frames[n])
          BY <1>5 DEF Solid
        <4>3. \A i \in 1 .. n : i = n \/ i \in 1 .. s.work.off
          BY <1>3, <1>4
        <4>. QED  BY <4>1, <4>2, <4>3
      <3>2. IdAt(log.frames, n) = x.id
        BY <1>4, <1>5 DEF IdAt
      <3>. QED  BY <1>4, <1>6, <3>1, <3>2 DEF Points
    <2>. DEFINE old == IF s.gen = log.gen THEN Len(s.view) ELSE 0
    <2>3. s.snapgen = log.gen /\ old + Len(s.snap) = s.work.off
          /\ \A i \in DOMAIN s.snap : s.snap[i] = log.frames[old + i]
      BY <1>2 DEF Snapshot
    <2>4. old \in Nat
      BY <1>1, LenProperties DEF Shell
    <2>5. old = IF l.gen = log.gen THEN Len(l.view) ELSE 0
      BY <1>9 DEF SameView
    <2>. HIDE DEF old
    <2>6. old + Len(snap) = n
      BY <1>3, <1>4, <1>7, <2>3, <2>4
    <2>7. \A i \in DOMAIN snap : snap[i] = log.frames[old + i]
      <3>1. \A i \in DOMAIN snap : i \in DOMAIN s.snap \/ (i = Len(s.snap) + 1 /\ old + i = n)
        <4>1. \A i \in 1 .. Len(s.snap) + 1 : i \in 1 .. Len(s.snap) \/ i = Len(s.snap) + 1
          BY <1>4
        <4>2. old + (Len(s.snap) + 1) = n
          BY <1>3, <1>4, <2>3, <2>4
        <4>. QED  BY <4>1, <4>2, <1>7
      <3>. QED  BY <3>1, <1>5, <1>7, <2>3
    <2>. QED  BY <1>6, <1>9, <2>1, <2>2, <2>3, <2>5, <2>6, <2>7 DEF Snapshot
  <1>13. Snapshot(sh[p], fs.log, Len(fs.log.frames))'
    <2>1. Snapshot(sh'[p], fs'.log, Len(fs'.log.frames))
      BY <1>2, <1>10, <1>12
    <2>. QED  BY <2>1, <1>2 DEF Snapshot, Points, Solid
  <1>14. s.fresh \in OkOccs(log.frames)
    BY <1>1, <1>4, <1>5, FileFields, RangeFacts
  <1>15. OwnerOK(p)' /\ Loading(sh'[p])
    BY <1>2, <1>3, <1>9, <1>10, <1>13, <1>14 DEF OwnerOK, Loading, OkOccs
  <1>16. ShellsInv'
    BY <1>2, <1>10, <1>11, <1>15, MoveInv
  <1>. QED  BY <1>2, <1>10, <1>16, CommitInv, SameGhost DEF IInv, TypeOK
LEMMA RollbackInv == ASSUME IInv, NEW p \in Shells, Rollback(p) PROVE IInv'
  <1>. DEFINE log == fs.log
              fr == log.frames
              n == Len(fr)
              off == sh[p].work.off
              s == sh[p]
  <1>1. sh \in [Shells -> Shell] /\ s \in Shell /\ OwnerOK(p) /\ s.pc = "rollback"
        /\ Agrees(s, log, n) /\ fs \in Files /\ fs \in disk /\ FileOK(fs)
    BY DEF IInv, TypeOK, ShellsInv, DiskInv, Rollback, At
  <1>2. holder = p /\ Unlock(p, "idle") /\ ghost' = ghost /\ log.ino # 0 /\ Appending(s, log) /\ s.pc \in Busy
    BY <1>1 DEF Rollback, OwnerOK, Busy
  <1>3. budget' = budget \/ Spend("fail")
    BY DEF Rollback
  <1>4. CASE UNCHANGED <<fs, disk>>
    <2>1. ShellsInv' /\ sh' \in [Shells -> Shell]
      BY <1>2, <1>4, UnlockInv
    <2>. QED  BY <1>2, <1>3, <1>4, <2>1, SameDisk, SameGhost DEF IInv, TypeOK
  <1>5. CASE /\ fs' = [fs EXCEPT !.log.frames = SubSeq(@, 1, off)]
             /\ disk' = {fs'} \/ disk' = disk \cup {fs'}
    <2>. DEFINE fr2 == SubSeq(fr, 1, off)
    <2>1. n = off + 1 /\ fr[n].occ = s.fresh /\ s.fresh \notin ghost.acked
          /\ \A q \in Shells : Agrees(sh[q], log, off)
      BY <1>2 DEF Appending
    <2>2. off \in Nat /\ off \in 0 .. n /\ n \in Nat /\ fr \in Seq(Frame) /\ DOMAIN fr = 1 .. n
          /\ (\A i \in 1 .. off : i \in 1 .. n)
      BY <1>1, <2>1, FileFields DEF Shell, Cursor
    <2>3. fr2 \in Seq(Frame) /\ Len(fr2) = off /\ (\A i \in 1 .. off : fr2[i] = fr[i]) /\ DOMAIN fr2 = 1 .. off
      BY <2>2, PrefixFacts, LenProperties
    <2>4. fs' = [fs EXCEPT !.log = [log EXCEPT !.frames = fr2]]
      BY <1>1, <1>5 DEF Files, Log
    <2>. HIDE DEF fr2
    <2>5. [log EXCEPT !.frames = fr2] \in Log
      BY <1>1, <2>3 DEF Files, Log
    <2>6. fs' \in Files /\ fs'.legacy = fs.legacy /\ fs'.saved = fs.saved /\ fs'.log = [log EXCEPT !.frames = fr2]
      BY <1>1, <2>4, <2>5 DEF Files
    <2>7. fs'.log.ino = log.ino /\ fs'.log.gen = log.gen /\ fs'.log.frames = fr2
      BY <1>1, <2>6 DEF Files, Log
    <2>8. Increasing(fr2) /\ Framed(fr2)
      <3>1. \A i, j \in 1 .. off : i < j => fr[i].id < fr[j].id
        BY <1>1, <2>2 DEF FileOK, Increasing
      <3>2. \A i \in 1 .. off : Solid(fr[i])
        <4>1. Framed(fr) /\ \A i \in 1 .. off : i \in DOMAIN fr /\ i # Len(fr)
          BY <1>1, <2>1, <2>2 DEF FileOK
        <4>. QED  BY <4>1 DEF Framed
      <3>. QED  BY <2>3, <3>1, <3>2 DEF Increasing, Framed, Solid, Loose
    <2>9. \A o \in OkOccs(fr) : o \in OkOccs(fr2) \/ o = s.fresh
      <3>1. ASSUME NEW o \in OkOccs(fr) PROVE o \in OkOccs(fr2) \/ o = s.fresh
        <4>1. PICK k \in 1 .. n : fr[k].st = "ok" /\ fr[k].occ = o
          BY <2>2, RangeFacts
        <4>2. k = n \/ (k \in 1 .. off /\ fr2[k] = fr[k])
          BY <2>1, <2>2, <2>3
        <4>. QED  BY <2>1, <2>3, <4>1, <4>2, RangeFacts
      <3>. QED  BY <3>1
    <2>10. FileOK(fs')
      <3>1. ghost.acked \subseteq OkOccs(fr) \cup fs.saved \cup fs.legacy \cup ghost.erased \cup ghost.damaged
        BY <1>1, KeptFacts DEF FileOK, Survives
      <3>2. ghost.acked \subseteq OkOccs(fr2) \cup fs.saved \cup fs.legacy \cup ghost.erased \cup ghost.damaged
        BY <3>1, <2>1, <2>9
      <3>. QED  BY <1>2, <2>6, <2>7, <2>8, <3>2, KeptFacts DEF FileOK, Survives
    <2>11. disk' \subseteq Files /\ DiskInv'
      <3>1. \A f : FileOK(f) => FileOK(f)'
        BY <1>2, FileGrows
      <3>2. \A f \in disk' : f \in Files /\ FileOK(f)
        BY <1>5, <2>6, <2>10 DEF IInv, TypeOK, DiskInv
      <3>3. fs' \in disk'
        BY <1>5
      <3>. QED  BY <3>1, <3>2, <3>3 DEF DiskInv
    <2>12. /\ sh' \in [Shells -> Shell] /\ (\A q \in Shells \ {p} : sh'[q] = sh[q])
           /\ sh'[p] = Shell0 \/ SameView(s, sh'[p])
           /\ sh'[p].pc = "idle"
      BY <1>1, <1>2, UnlockFacts
    <2>13. \A q \in Shells : Agrees(sh[q], fs.log, Len(fs.log.frames))'
      <3>1. ASSUME NEW q \in Shells PROVE Agrees(sh'[q], fs'.log, off)
        <4>1. SamePrefix(log, fs'.log, off)
          BY <2>3, <2>7 DEF SamePrefix
        <4>2. Agrees(sh[q], log, off) /\ sh[q] \in Shell
          BY <1>1, <2>1
        <4>3. Agrees(sh[q], fs'.log, off)
          BY <2>2, <4>1, <4>2, AgreesPrefix
        <4>4. sh'[q] = Shell0 \/ SameView(sh[q], sh'[q])
          BY <2>12 DEF SameView
        <4>5. fs'.log \in Log
          BY <2>6, FileFields
        <4>. QED  BY <2>2, <4>3, <4>4, <4>5, AgreesSame, AgreesFresh
      <3>. QED  BY <3>1, <2>3, <2>7, <1>2 DEF Agrees, Points, Solid
    <2>14. OwnerOK(p)' /\ Loading(sh'[p])
      BY <2>12 DEF OwnerOK, Loading, Busy
    <2>15. ShellsInv'
      BY <1>2, <2>12, <2>13, <2>14, ChangeInv
    <2>. QED  BY <1>2, <1>3, <2>6, <2>11, <2>12, <2>15, SameGhost DEF IInv, TypeOK
  <1>. QED  BY <1>4, <1>5 DEF Rollback

LEMMA ConcatFacts ==
    ASSUME NEW a \in Seq(Occs), NEW b \in Seq(Occs)
    PROVE  /\ a \o b \in Seq(Occs) /\ Len(a \o b) = Len(a) + Len(b)
           /\ \A i \in 1 .. Len(b) : (a \o b)[Len(a) + i] = b[i]
           /\ \A i \in 1 .. Len(a) : (a \o b)[i] = a[i]
  <1>1. a \o b \in Seq(Occs) /\ Len(a \o b) = Len(a) + Len(b)
        /\ \A i \in 1 .. Len(a) + Len(b) : (a \o b)[i] = IF i <= Len(a) THEN a[i] ELSE b[i - Len(a)]
    BY ConcatProperties
  <1>2. Len(a) \in Nat /\ Len(b) \in Nat
    BY LenProperties
  <1>. QED  BY <1>1, <1>2

\* What a shell has applied after a snapshot is the whole log.
Applied(s, l, log, old) ==
    /\ old = (IF s.gen = log.gen THEN Len(s.view) ELSE 0)
    /\ l.gen = s.snapgen /\ l.cursor = s.work
    /\ Len(l.view) = old + Len(s.snap)
    /\ \A i \in 1 .. Len(s.snap) : l.view[old + i] = s.snap[i].occ
    /\ \A i \in 1 .. old : l.view[i] = s.view[i]
    /\ l.last = IF s.snap # <<>> THEN s.snap[Len(s.snap)].id
                ELSE IF s.gen = log.gen THEN s.last ELSE 0

LEMMA SplitIndex ==
    ASSUME NEW a \in Nat, NEW b \in Nat, NEW n, a + b = n
    PROVE  /\ n \in Nat /\ (b # 0 => n # 0 /\ b \in 1 .. b) /\ (b = 0 => a = n)
           /\ \A i \in 1 .. n : i \in 1 .. a \/ (i - a \in 1 .. b /\ a + (i - a) = i)
  OBVIOUS

LEMMA AppliedAgrees ==
    ASSUME NEW s \in Shell, NEW l \in Shell, NEW log \in Log, log.ino # 0, NEW n \in Nat,
           Agrees(s, log, n), Snapshot(s, log, n),
           NEW old, Applied(s, l, log, old)
    PROVE  Agrees(l, log, n)
  <1>1. /\ s.snapgen = log.gen /\ old + Len(s.snap) = n
        /\ \A i \in DOMAIN s.snap : s.snap[i] = log.frames[old + i]
        /\ \/ s.work.ino = log.ino /\ s.work.gen = log.gen /\ Points(s.work, log, n)
           \/ s.work = Default
    BY DEF Snapshot, Applied
  <1>2. /\ Len(s.snap) \in Nat /\ DOMAIN s.snap = 1 .. Len(s.snap) /\ old \in Nat /\ log.gen \in Nat
        /\ DOMAIN s.view = 1 .. Len(s.view) /\ DOMAIN l.view = 1 .. Len(l.view)
        /\ (s.snap = <<>> => Len(s.snap) = 0) /\ (s.snap # <<>> => Len(s.snap) # 0)
    <2>1. s.snap \in Seq(Frame) /\ s.view \in Seq(Occs) /\ l.view \in Seq(Occs) /\ log.gen \in 0 .. MaxGen
      BY DEF Shell, Log
    <2>2. Len(s.snap) \in Nat /\ DOMAIN s.snap = 1 .. Len(s.snap) /\ Len(s.view) \in Nat
          /\ DOMAIN s.view = 1 .. Len(s.view) /\ DOMAIN l.view = 1 .. Len(l.view)
      BY <2>1, LenProperties
    <2>3. (s.snap = <<>> => Len(s.snap) = 0) /\ (s.snap # <<>> => Len(s.snap) # 0)
      BY <2>1, EmptySeq
    <2>. QED  BY <2>1, <2>2, <2>3, BoundsFacts DEF Applied
  <1>3. l.gen = log.gen /\ l.cursor.gen <= log.gen
    BY <1>1, <1>2 DEF Default, Applied
  <1>4. l.cursor.ino = log.ino /\ l.cursor.gen = log.gen => Points(l.cursor, log, n)
    BY <1>1 DEF Default, Applied
  <1>5. Len(l.view) = n
    BY <1>1 DEF Applied
  <1>6. \A i \in DOMAIN l.view : l.view[i] = log.frames[i].occ
    <2>1. ASSUME NEW i \in 1 .. n PROVE l.view[i] = log.frames[i].occ
      <3>1. CASE i \in 1 .. old
        <4>1. s.gen = log.gen /\ i \in DOMAIN s.view
          BY <3>1, <1>2 DEF Applied
        <4>. QED  BY <4>1, <3>1 DEF Agrees, Applied
      <3>2. CASE i \notin 1 .. old
        <4>1. i - old \in 1 .. Len(s.snap) /\ old + (i - old) = i
          BY <3>2, <1>1, <1>2, SplitIndex
        <4>2. l.view[old + (i - old)] = s.snap[i - old].occ /\ s.snap[i - old] = log.frames[old + (i - old)]
          BY <4>1, <1>1, <1>2 DEF Applied
        <4>. QED  BY <4>1, <4>2
      <3>. QED  BY <3>1, <3>2
    <2>. QED  BY <2>1, <1>2, <1>5
  <1>7. l.last = IdAt(log.frames, n)
    <2>1. CASE s.snap # <<>>
      <3>1. Len(s.snap) \in DOMAIN s.snap /\ n # 0
        BY <2>1, <1>1, <1>2, SplitIndex
      <3>2. s.snap[Len(s.snap)] = log.frames[n]
        BY <3>1, <1>1
      <3>. QED  BY <2>1, <3>1, <3>2 DEF IdAt, Applied
    <2>2. CASE s.snap = <<>>
      <3>1. old = n
        BY <2>2, <1>1, <1>2, SplitIndex
      <3>2. CASE s.gen = log.gen
        BY <2>2, <3>1, <3>2 DEF Agrees, Applied
      <3>3. CASE s.gen # log.gen
        BY <2>2, <3>1, <3>3 DEF IdAt, Applied
      <3>. QED  BY <3>2, <3>3
    <2>. QED  BY <2>1, <2>2
  <1>8. l.gen <= log.gen /\ Len(l.view) <= n /\ l.last = IdAt(log.frames, Len(l.view))
    BY <1>2, <1>3, <1>5, <1>7
  <1>. QED  BY <1>3, <1>4, <1>6, <1>8 DEF Agrees

LEMMA ApplySnapshotInv == ASSUME IInv, NEW p \in Shells, ApplySnapshot(p) PROVE IInv'
  <1>. DEFINE log == fs.log
              n == Len(log.frames)
              s == sh[p]
              keep == s.snapgen = s.gen
              occ == [i \in DOMAIN s.snap |-> s.snap[i].occ]
              base == IF keep THEN s.view ELSE <<>>
              grown == base \o occ
              last == IF s.snap # <<>> THEN s.snap[Len(s.snap)].id
                      ELSE IF keep THEN s.last ELSE 0
              l == [Rest(s, "idle") EXCEPT !.gen = s.snapgen, !.cursor = s.work, !.view = grown, !.last = last]
  <1>1. sh \in [Shells -> Shell] /\ s \in Shell /\ OwnerOK(p) /\ s.pc = "apply" /\ s.op # "render"
        /\ Agrees(s, log, n) /\ fs \in Files /\ fs \in disk /\ FileOK(fs) /\ ghost \in Ghost
    BY DEF IInv, TypeOK, ShellsInv, DiskInv, ApplySnapshot, At
  <1>2. /\ holder = p /\ holder' = None /\ log.ino # 0 /\ Snapshot(s, log, n)
        /\ s.op = "add" => s.fresh \in OkOccs(log.frames) /\ s.fresh <= MaxOcc - budget.occ /\ disk = {fs}
        /\ UNCHANGED <<fs, disk, budget>>
        /\ ghost' = IF s.op = "add" THEN [ghost EXCEPT !.acked = @ \cup {s.fresh}] ELSE ghost
    BY <1>1 DEF ApplySnapshot, OwnerOK, Busy
  <1>3. s.snap \in Seq(Frame) /\ Len(s.snap) \in Nat /\ DOMAIN s.snap = 1 .. Len(s.snap) /\ log \in Log /\ n \in Nat
        /\ (\A i \in DOMAIN s.snap : s.snap[i] \in Frame) /\ s.view \in Seq(Occs) /\ Len(s.view) \in Nat
        /\ (s.snap # <<>> => Len(s.snap) \in DOMAIN s.snap)
    BY <1>1, FileFields, LenProperties, ElementOfSeq, EmptySeq DEF Shell
  <1>4. occ \in Seq(Occs) /\ Len(occ) = Len(s.snap)
    <2>1. \A i \in 1 .. Len(s.snap) : s.snap[i].occ \in Occs
      BY <1>3 DEF Frame
    <2>2. occ \in [1 .. Len(s.snap) -> Occs]
      BY <1>3, <2>1
    <2>. QED  BY <1>3, <2>2, SeqDef, LenProperties
  <1>5. \A i \in 1 .. Len(s.snap) : occ[i] = s.snap[i].occ
    BY <1>3
  <1>. HIDE DEF occ
  <1>6. base \in Seq(Occs) /\ Len(base) \in Nat /\ Len(base) = (IF s.gen = log.gen THEN Len(s.view) ELSE 0)
    <2>1. <<>> \in Seq(Occs) /\ Len(<<>>) = 0
      BY EmptySeq
    <2>2. s.snapgen = log.gen
      BY <1>2 DEF Snapshot
    <2>. QED  BY <1>3, <2>1, <2>2
  <1>7. \A i \in 1 .. Len(base) : base[i] = s.view[i]
    <2>1. CASE keep
      BY <2>1
    <2>2. CASE ~ keep
      <3>1. Len(base) = 0
        BY <2>2, EmptySeq
      <3>. QED  BY <3>1
    <2>. QED  BY <2>1, <2>2
  <1>. HIDE DEF base
  <1>8. grown \in Seq(Occs) /\ Len(grown) = Len(base) + Len(s.snap)
        /\ (\A i \in 1 .. Len(s.snap) : grown[Len(base) + i] = s.snap[i].occ)
        /\ (\A i \in 1 .. Len(base) : grown[i] = s.view[i])
    <2>1. /\ grown \in Seq(Occs) /\ Len(grown) = Len(base) + Len(occ)
          /\ \A i \in 1 .. Len(occ) : grown[Len(base) + i] = occ[i]
          /\ \A i \in 1 .. Len(base) : grown[i] = base[i]
      BY <1>4, <1>6, ConcatFacts
    <2>. HIDE DEF grown
    <2>. QED  BY <2>1, <1>4, <1>5, <1>7
  <1>. HIDE DEF grown
  <1>9. last \in 0 .. MaxOcc
    <2>1. s.last \in 0 .. MaxOcc /\ 0 \in 0 .. MaxOcc
      BY <1>1, BoundsFacts DEF Shell
    <2>2. ASSUME s.snap # <<>> PROVE s.snap[Len(s.snap)].id \in 0 .. MaxOcc
      <3>1. s.snap[Len(s.snap)] \in Frame
        BY <1>3, <2>2
      <3>2. s.snap[Len(s.snap)].id \in 1 .. MaxOcc
        BY <3>1 DEF Frame, Occs
      <3>. QED  BY <3>2, BoundsFacts
    <2>. QED  BY <2>1, <2>2
  <1>10. sh' = [sh EXCEPT ![p] = l]
    BY <1>1, RestType DEF ApplySnapshot, grown, base, occ, Pcs, SameView
  <1>11. last = IF s.snap # <<>> THEN s.snap[Len(s.snap)].id
                ELSE IF s.gen = log.gen THEN s.last ELSE 0
    BY <1>2 DEF Snapshot
  <1>. HIDE DEF last
  <1>12. l \in Shell /\ l.pc = "idle" /\ l.gen = s.snapgen /\ l.cursor = s.work /\ l.view = grown /\ l.last = last
    <2>1. Rest(s, "idle") \in Shell /\ Rest(s, "idle").pc = "idle"
      BY <1>1, RestType DEF Pcs
    <2>. QED  BY <1>1, <1>8, <1>9, <2>1 DEF Shell
  <1>. HIDE DEF l
  <1>13. sh' \in [Shells -> Shell] /\ sh'[p] = l /\ \A q \in Shells \ {p} : sh'[q] = sh[q]
    BY <1>1, <1>10, <1>12, LocalFacts
  <1>14. Agrees(l, log, n)
    <2>1. Applied(s, l, log, Len(base))
      BY <1>6, <1>8, <1>11, <1>12 DEF Applied
    <2>. QED  BY <1>1, <1>2, <1>3, <1>12, <2>1, AppliedAgrees
  <1>15. ghost' \in Ghost /\ ghost'.erased = ghost.erased /\ ghost'.damaged = ghost.damaged
         /\ ghost'.acked = (IF s.op = "add" THEN ghost.acked \cup {s.fresh} ELSE ghost.acked)
    <2>1. ASSUME s.op = "add" PROVE s.fresh \in Occs
      <3>1. PICK k \in 1 .. n : log.frames[k].occ = s.fresh
        BY <1>1, <1>2, <2>1, FileFields, RangeFacts
      <3>2. log.frames[k] \in Frame
        BY <1>1, FileFields
      <3>. QED  BY <3>1, <3>2 DEF Frame
    <2>. QED  BY <1>1, <1>2, <2>1 DEF Ghost
  <1>16. DiskInv'
    <2>1. CASE s.op # "add"
      <3>1. ghost' = ghost
        BY <1>2, <2>1
      <3>. QED  BY <1>2, <3>1, SameDisk DEF IInv
    <2>2. CASE s.op = "add"
      <3>1. Increasing(log.frames) /\ Framed(log.frames) /\ Survives(fs)
        BY <1>1 DEF FileOK
      <3>2. ghost'.acked \subseteq Kept(fs) \cup ghost.erased \cup ghost.damaged
        BY <1>2, <1>15, <2>2, <3>1, KeptFacts DEF Survives
      <3>3. Survives(fs)'
        BY <1>2, <1>15, <3>2 DEF Survives, Kept
      <3>4. Framed(log.frames)'
        <4>1. \A k \in DOMAIN log.frames : Solid(log.frames[k])
          <5>1. DOMAIN log.frames = 1 .. n
            BY <1>1, FileFields
          <5>2. s.work.off = n /\ Points(s.work, log, n)
            BY <1>2, <2>2, SnapshotPoints
          <5>. QED  BY <5>1, <5>2 DEF Points
        <4>. QED  BY <1>2, <1>15, <4>1 DEF Framed, Solid
      <3>5. FileOK(fs)'
        BY <1>1, <1>2, <3>1, <3>3, <3>4 DEF FileOK, Increasing
      <3>6. disk' = {fs'}
        BY <1>2, <2>2
      <3>. QED  BY <1>2, <3>5, <3>6 DEF DiskInv
    <2>. QED  BY <2>1, <2>2
  <1>17. GhostInv'
    BY <1>2, <1>15 DEF IInv, GhostInv
  <1>18. OwnerOK(p)' /\ Loading(sh'[p])
    BY <1>12, <1>13 DEF OwnerOK, Loading, Busy
  <1>19. ShellsInv'
    BY <1>2, <1>13, <1>14, <1>15, <1>18, MoveInv
  <1>. QED  BY <1>2, <1>13, <1>15, <1>16, <1>17, <1>19 DEF IInv, TypeOK
-----------------------------------------------------------------------------
(* Reading the log.                                                        *)

\* The new frames are those after the ones the shell has.
LEMMA NewFacts ==
    ASSUME NEW fr \in Seq(Frame), Increasing(fr), NEW old \in 0 .. Len(fr), NEW off \in 0 .. old
    PROVE  LET new == New(fr, off, Len(fr) + 1, IdAt(fr, old))
           IN  /\ new \in Seq(Frame) /\ Len(new) = Len(fr) - old
               /\ \A i \in 1 .. Len(new) : new[i] = fr[old + i]
  <1>. DEFINE n == Len(fr)
              cut == IdAt(fr, old)
              P(j) == \A k \in off + 1 .. (n + 1) - 1 : fr[k].id > cut <=> k >= j
              first == CHOOSE j \in off + 1 .. n + 1 : P(j)
  <1>1. n \in Nat /\ old \in Nat /\ off \in Nat /\ DOMAIN fr = 1 .. n /\ \A k \in 1 .. n : fr[k] \in Frame
    BY LenProperties, ElementOfSeq
  <1>2. \A k \in 1 .. n : fr[k].id \in Nat /\ fr[k].id > 0
    BY <1>1, BoundsFacts DEF Frame, Occs
  <1>3. \A j, k \in 1 .. n : j < k => fr[j].id < fr[k].id
    BY <1>1 DEF Increasing
  <1>4. \A k \in 1 .. n : fr[k].id > cut <=> k > old
    <2>1. CASE old = 0
      BY <2>1, <1>2 DEF IdAt
    <2>2. CASE old # 0
      <3>1. cut = fr[old].id /\ old \in 1 .. n
        BY <2>2, <1>1 DEF IdAt
      <3>2. ASSUME NEW k \in 1 .. n PROVE fr[k].id > cut <=> k > old
        <4>1. k > old => fr[k].id > cut
          BY <3>1, <1>1, <1>2, <1>3
        <4>2. k < old => fr[k].id < cut
          BY <3>1, <1>1, <1>2, <1>3
        <4>. QED  BY <4>1, <4>2, <3>1, <1>1, <1>2
      <3>. QED  BY <3>2
    <2>. QED  BY <2>1, <2>2
  <1>. HIDE DEF cut
  <1>5. \A k \in off + 1 .. (n + 1) - 1 : k \in 1 .. n
    BY <1>1
  <1>6. P(old + 1) /\ old + 1 \in off + 1 .. n + 1
    BY <1>1, <1>4, <1>5
  <1>7. ASSUME NEW j \in off + 1 .. n + 1, P(j) PROVE j = old + 1
    <2>1. CASE j < old + 1
      <3>1. j \in off + 1 .. (n + 1) - 1 /\ j \in 1 .. n /\ ~ (j > old) /\ j >= j
        BY <2>1, <1>1
      <3>. QED  BY <3>1, <1>4, <1>7
    <2>2. CASE j > old + 1
      <3>1. old + 1 \in off + 1 .. (n + 1) - 1 /\ old + 1 \in 1 .. n /\ old + 1 > old /\ ~ (old + 1 >= j)
        BY <2>2, <1>1
      <3>. QED  BY <3>1, <1>4, <1>7
    <2>. QED  BY <2>1, <2>2, <1>1
  <1>8. first = old + 1
    BY <1>6, <1>7
  <1>9. New(fr, off, n + 1, cut) = SubSeq(fr, old + 1, (n + 1) - 1)
    BY <1>8 DEF New
  <1>12. New(fr, off, n + 1, cut) = SubSeq(fr, old + 1, n)
    <2>1. (n + 1) - 1 = n
      BY <1>1
    <2>. QED  BY <1>9, <2>1
  <1>10. \A i \in old + 1 .. n : fr[i] \in Frame
    BY <1>1
  <1>11. /\ SubSeq(fr, old + 1, n) \in Seq(Frame) /\ Len(SubSeq(fr, old + 1, n)) = n - old
         /\ \A i \in 1 .. n - old : SubSeq(fr, old + 1, n)[i] = fr[old + i]
    BY <1>1, <1>10, SubSeqFacts
  <1>. HIDE DEF first, P, n
  <1>13. /\ New(fr, off, n + 1, cut) \in Seq(Frame) /\ Len(New(fr, off, n + 1, cut)) = n - old
         /\ \A i \in 1 .. n - old : New(fr, off, n + 1, cut)[i] = fr[old + i]
    BY <1>11, <1>12
  <1>. QED  BY <1>13 DEF cut, n

LEMMA OutcomeFacts ==
    ASSUME NEW fr, NEW off, NEW last
    PROVE  LET i == Stop(fr, off, last)
           IN  /\ Outcome(fr, off, last) = "clean" => i > Len(fr)
               /\ Outcome(fr, off, last) = "torn" => i <= Len(fr) /\ Torn(fr, i)
               /\ Outcome(fr, off, last) = "corrupt" => ~ (i > Len(fr)) /\ ~ (i <= Len(fr) /\ Torn(fr, i))
  BY DEF Outcome

\* Where a read starts: at the front, or behind what the shell has applied.
Reader(p, c) ==
    /\ c \in Cursor /\ c.ino = fs.log.ino /\ c.gen = fs.log.gen /\ Points(c, fs.log, Len(fs.log.frames))
    /\ c.off <= (IF ~ Fresh(p) /\ sh[p].gen = fs.log.gen THEN Len(sh[p].view) ELSE 0)

Base(p) == IF Fresh(p) THEN Default ELSE sh[p].work

LEMMA RevalidateFacts ==
    ASSUME IInv, NEW p \in Shells, fs.log.ino # 0, sh[p].pc = "read" \/ sh[p].pc = "salvage"
    PROVE  Reader(p, Revalidate(p, Base(p)))
  <1>. DEFINE c == Revalidate(p, Base(p))
              log == fs.log
              n == Len(log.frames)
  <1>. SUFFICES Reader(p, c)
    OBVIOUS
  <1>1. sh[p] \in Shell /\ OwnerOK(p) /\ Agrees(sh[p], log, n) /\ fs \in Files /\ FileOK(fs) /\ log \in Log
    BY DEF IInv, TypeOK, ShellsInv, DiskInv, Files
  <1>2. n \in Nat /\ log.gen \in 0 .. MaxGen /\ log.ino \in Inos \cup {0} /\ Len(sh[p].view) \in Nat
    BY <1>1, FileFields, LenProperties DEF Log, Shell
  <1>3. CASE c = [Default EXCEPT !.ino = log.ino, !.gen = log.gen]
    <2>. HIDE DEF c
    <2>1. c \in Cursor /\ c.ino = log.ino /\ c.gen = log.gen /\ c.off = 0 /\ c.last = 0
      <3>1. Default \in Cursor /\ Default.off = 0 /\ Default.last = 0
        BY DefaultType DEF Default
      <3>. QED  BY <1>2, <1>3, <3>1 DEF Cursor
    <2>2. Points(c, log, n)
      BY <1>2, <2>1 DEF Points, IdAt
    <2>. QED  BY <1>2, <2>1, <2>2 DEF Reader
  <1>4. CASE c # [Default EXCEPT !.ino = log.ino, !.gen = log.gen]
    <2>1. /\ c = Base(p) /\ c.ino = log.ino /\ c.gen = log.gen
          /\ ~ (sh[p].last < c.last) /\ sh[p].gen = log.gen
      BY <1>4 DEF Revalidate
    <2>. HIDE DEF c
    <2>2. c # Default
      BY <2>1 DEF Default
    <2>3. ~ Fresh(p) /\ c = sh[p].work /\ sh[p].pc = "read"
      BY <2>1, <2>2 DEF Base, Fresh, At
    <2>4. c = sh[p].cursor
      BY <1>1, <2>2, <2>3 DEF OwnerOK
    <2>5. c \in Cursor /\ Points(c, log, n)
      BY <1>1, <2>1, <2>4 DEF Agrees, Shell
    <2>6. Len(sh[p].view) <= n /\ sh[p].last = IdAt(log.frames, Len(sh[p].view))
      BY <1>1, <2>1 DEF Agrees
    <2>7. c.off <= Len(sh[p].view)
      <3>. DEFINE fr == log.frames
                  v == Len(sh[p].view)
      <3>1. c.off \in Nat /\ c.off <= n /\ c.last = IdAt(fr, c.off)
        BY <2>5 DEF Cursor, Points
      <3>2. \A j, k \in 1 .. n : j < k => fr[j].id < fr[k].id
        BY <1>1, FileFields DEF FileOK, Increasing
      <3>3. \A k \in 1 .. n : fr[k].id \in Nat /\ fr[k].id > 0
        BY <1>1, FileFields, BoundsFacts DEF Frame, Occs
      <3>4. ~ (IdAt(fr, v) < IdAt(fr, c.off))
        BY <2>1, <2>6, <3>1
      <3>5. ASSUME v < c.off PROVE IdAt(fr, v) < IdAt(fr, c.off)
        <4>1. c.off \in 1 .. n /\ (v = 0 \/ v \in 1 .. n)
          BY <1>2, <2>6, <3>1, <3>5
        <4>. QED  BY <4>1, <3>2, <3>3, <3>5 DEF IdAt
      <3>. QED  BY <3>1, <3>4, <3>5, <1>2
    <2>. QED  BY <2>1, <2>3, <2>5, <2>7 DEF Reader
  <1>. QED  BY <1>3, <1>4

\* Reading what is new: the shell has then seen the whole log.
Seen(p, c, i, cut, l) ==
    /\ c = Revalidate(p, Base(p))
    /\ i = Stop(fs.log.frames, c.off, c.last)
    /\ cut = (IF ~ Fresh(p) /\ sh[p].gen = fs.log.gen THEN sh[p].last ELSE 0)
    /\ l = [sh[p] EXCEPT !.pc = IF sh[p].op = "add" THEN "write" ELSE "apply",
                         !.work = [c EXCEPT !.off = i - 1,
                                       !.last = IF i = c.off + 1 THEN @ ELSE fs.log.frames[i - 1].id],
                         !.snap = New(fs.log.frames, c.off, i, cut),
                         !.snapgen = fs.log.gen]

LEMMA ReadNew ==
    ASSUME IInv, NEW p \in Shells, fs.log.ino # 0, sh[p].pc = "read",
           NEW c, NEW i, NEW cut, NEW l, Seen(p, c, i, cut, l), i > Len(fs.log.frames)
    PROVE  /\ l \in Shell /\ SameView(sh[p], l) /\ l.op = sh[p].op
           /\ l.pc = (IF sh[p].op = "add" THEN "write" ELSE "apply")
           /\ sh[p].op # "render" => Snapshot(l, fs.log, Len(fs.log.frames))
  <1>. DEFINE log == fs.log
              fr == log.frames
              n == Len(fr)
              old == IF ~ Fresh(p) /\ sh[p].gen = log.gen THEN Len(sh[p].view) ELSE 0
              new == New(fr, c.off, i, cut)
              work == [c EXCEPT !.off = i - 1, !.last = IF i = c.off + 1 THEN @ ELSE fr[i - 1].id]
              pc == IF sh[p].op = "add" THEN "write" ELSE "apply"
  <1>1. sh[p] \in Shell /\ OwnerOK(p) /\ Agrees(sh[p], log, n) /\ fs \in Files /\ FileOK(fs) /\ log \in Log
    BY DEF IInv, TypeOK, ShellsInv, DiskInv, Files
  <1>3. c \in Cursor /\ c.ino = log.ino /\ c.gen = log.gen /\ Points(c, log, n) /\ c.off <= old
    BY RevalidateFacts DEF Reader, Seen
  <1>4. /\ fr \in Seq(Frame) /\ n \in Nat /\ (\A k \in 1 .. n : fr[k] \in Frame) /\ log.gen \in 0 .. MaxGen
        /\ Increasing(fr) /\ Len(sh[p].view) \in Nat
    BY <1>1, FileFields, LenProperties DEF FileOK, Log, Shell
  <1>5. old \in 0 .. n /\ cut = IdAt(fr, old)
    BY <1>1, <1>4 DEF Agrees, IdAt, Seen
  <1>. HIDE DEF old
  <1>6. c.off \in 0 .. old /\ c.off \in 0 .. n /\ c.last = IdAt(fr, c.off)
    BY <1>3, <1>4, <1>5 DEF Cursor, Points
  <1>7. i = n + 1 /\ \A k \in c.off + 1 .. i - 1 : fr[k].st = "ok"
    <2>1. i \in c.off + 1 .. n + 1 /\ \A k \in c.off + 1 .. i - 1 : fr[k].st = "ok"
      BY <1>4, <1>6, StopStopped DEF Seen
    <2>. QED  BY <2>1, <1>4, <1>6
  <1>8. new \in Seq(Frame) /\ Len(new) = n - old /\ \A k \in 1 .. Len(new) : new[k] = fr[old + k]
    BY <1>4, <1>5, <1>6, <1>7, NewFacts
  <1>9. work \in Cursor /\ work.ino = log.ino /\ work.gen = log.gen /\ work.off = n /\ work.last = IdAt(fr, n)
    <2>. DEFINE last == IF i = c.off + 1 THEN c.last ELSE fr[i - 1].id
    <2>1. c.off \in Nat /\ c.off <= n /\ i - 1 = n /\ (i = c.off + 1 <=> n = c.off)
      BY <1>4, <1>6, <1>7
    <2>2. n = 0 \/ (n \in 1 .. n /\ fr[n] \in Frame)
      BY <1>4
    <2>3. IdAt(fr, n) \in 0 .. MaxOcc
      BY <2>2, BoundsFacts DEF IdAt, Frame, Occs
    <2>4. last = IdAt(fr, n)
      <3>1. CASE n = c.off
        BY <3>1, <2>1, <1>6
      <3>2. CASE n # c.off
        <4>1. n # 0
          BY <3>2, <2>1
        <4>. QED  BY <3>2, <4>1, <2>1 DEF IdAt
      <3>. QED  BY <3>1, <3>2
    <2>5. work = [c EXCEPT !.off = i - 1, !.last = last]
      BY <1>3 DEF Cursor
    <2>. HIDE DEF last
    <2>. QED  BY <2>1, <2>3, <2>4, <2>5, <1>3, <1>4 DEF Cursor
  <1>10. \A k \in 1 .. n : Solid(fr[k])
    <2>1. \A k \in 1 .. c.off : Solid(fr[k])
      BY <1>3 DEF Points
    <2>2. \A k \in c.off + 1 .. n : Solid(fr[k])
      BY <1>4, <1>7 DEF Solid
    <2>. QED  BY <2>1, <2>2, <1>4, <1>6
  <1>. HIDE DEF new, work
  <1>11. l = [sh[p] EXCEPT !.pc = pc, !.work = work, !.snap = new, !.snapgen = log.gen]
    BY DEF new, work, Seen
  <1>12. /\ l \in Shell /\ SameView(sh[p], l) /\ l.op = sh[p].op /\ l.pc = pc
         /\ l.work = work /\ l.snap = new /\ l.snapgen = log.gen
    BY <1>1, <1>4, <1>8, <1>9, <1>11 DEF Shell, SameView, Pcs
  <1>13. ASSUME sh[p].op # "render" PROVE Snapshot(l, log, n)
    <2>1. old = IF l.gen = log.gen THEN Len(l.view) ELSE 0
      BY <1>12, <1>13 DEF old, Fresh, At, SameView
    <2>2. Points(work, log, n)
      BY <1>4, <1>9, <1>10 DEF Points
    <2>3. old + Len(new) = n /\ \A k \in DOMAIN new : new[k] = fr[old + k]
      <3>1. DOMAIN new = 1 .. Len(new)
        BY <1>8, LenProperties
      <3>2. old + (n - old) = n
        BY <1>4, <1>5
      <3>. QED  BY <1>8, <3>1, <3>2
    <2>. QED  BY <1>9, <1>12, <2>1, <2>2, <2>3 DEF Snapshot
  <1>. QED  BY <1>12, <1>13

\* The valid prefix, as a new generation.
Halts(p, c, i, pub) ==
    /\ c = Revalidate(p, Base(p))
    /\ i = Stop(fs.log.frames, c.off, c.last)
    /\ pub = Repaired(i - 1)

LEMMA RepairedFacts ==
    ASSUME IInv, NEW p \in Shells, fs.log.ino # 0, sh[p].pc \in {"read", "salvage"}, CanPublish,
           NEW c, NEW i, NEW pub, Halts(p, c, i, pub), i <= Len(fs.log.frames)
    PROVE  /\ pub \in Log /\ pub.gen > fs.log.gen /\ Increasing(pub.frames) /\ Framed(pub.frames)
           /\ i \in 1 .. Len(fs.log.frames) /\ fs.log.frames[i].st # "ok"
           /\ \A o \in OkOccs(fs.log.frames) :
                 o \in OkOccs(pub.frames)
                 \/ \E k \in i .. Len(fs.log.frames) : k # i /\ fs.log.frames[k].st = "ok" /\ fs.log.frames[k].occ = o
  <1>. DEFINE log == fs.log
              fr == log.frames
              n == Len(fr)
              fr2 == SubSeq(fr, 1, i - 1)
  <1>1. fs \in Files /\ FileOK(fs) /\ log \in Log
    BY DEF IInv, TypeOK, DiskInv, Files
  <1>2. c \in Cursor /\ Points(c, log, n)
    BY RevalidateFacts DEF Reader, Halts
  <1>3. /\ fr \in Seq(Frame) /\ n \in Nat /\ (\A k \in 1 .. n : fr[k] \in Frame) /\ log.gen \in 0 .. MaxGen
        /\ Increasing(fr) /\ Framed(fr) /\ DOMAIN fr = 1 .. n
    BY <1>1, FileFields DEF FileOK, Log
  <1>4. c.off \in 0 .. n /\ c.last = IdAt(fr, c.off) /\ \A k \in 1 .. c.off : Solid(fr[k])
    BY <1>2, <1>3 DEF Cursor, Points
  <1>5. i \in c.off + 1 .. n + 1 /\ (\A k \in c.off + 1 .. i - 1 : fr[k].st = "ok") /\ fr[i].st # "ok"
    <2>1. i = Stop(fr, c.off, c.last)
      BY DEF Halts
    <2>2. /\ i \in c.off + 1 .. n + 1 /\ (\A k \in c.off + 1 .. i - 1 : fr[k].st = "ok")
          /\ (i <= n => fr[i].st # "ok")
      BY <1>3, <1>4, <2>1, StopStopped
    <2>. QED  BY <2>2
  <1>6. i \in 1 .. n /\ i - 1 \in 0 .. n
    BY <1>3, <1>4, <1>5
  <1>7. fr2 \in Seq(Frame) /\ Len(fr2) = i - 1 /\ (\A k \in 1 .. i - 1 : fr2[k] = fr[k]) /\ DOMAIN fr2 = 1 .. i - 1
    BY <1>3, <1>6, PrefixFacts, LenProperties
  <1>. HIDE DEF fr2
  <1>8. pub = [log EXCEPT !.frames = fr2, !.gen = @ + 1, !.ino = 0]
    BY <1>1 DEF Repaired, fr2, Halts
  <1>9. log.gen + 1 \in 0 .. MaxGen
    BY <1>3, BoundsFacts DEF CanPublish
  <1>10. pub \in Log /\ pub.gen = log.gen + 1 /\ pub.frames = fr2
    BY <1>1, <1>7, <1>8, <1>9 DEF Log
  <1>11. Increasing(fr2) /\ Framed(fr2)
    <2>1. \A j, k \in 1 .. i - 1 : j < k => fr[j].id < fr[k].id
      <3>1. \A k \in 1 .. i - 1 : k \in 1 .. n
        BY <1>3, <1>6
      <3>. QED  BY <3>1, <1>3 DEF Increasing
    <2>2. \A k \in 1 .. i - 1 : Solid(fr[k])
      <3>1. \A k \in 1 .. i - 1 : k \in 1 .. c.off \/ k \in c.off + 1 .. i - 1
        BY <1>4, <1>6
      <3>. QED  BY <3>1, <1>4, <1>5 DEF Solid
    <2>. QED  BY <1>7, <2>1, <2>2 DEF Increasing, Framed
  <1>12. ASSUME NEW o \in OkOccs(fr)
         PROVE  o \in OkOccs(fr2) \/ \E k \in i .. n : k # i /\ fr[k].st = "ok" /\ fr[k].occ = o
    <2>1. PICK k \in 1 .. n : fr[k].st = "ok" /\ fr[k].occ = o
      BY <1>3, RangeFacts
    <2>2. k # i /\ (k \in 1 .. i - 1 \/ k \in i .. n)
      BY <2>1, <1>5, <1>6
    <2>3. CASE k \in 1 .. i - 1
      <3>1. fr2[k].st = "ok" /\ fr2[k].occ = o
        BY <2>1, <2>3, <1>7
      <3>. QED  BY <2>3, <3>1, <1>7, RangeFacts
    <2>. QED  BY <2>1, <2>2, <2>3
  <1>13. pub.gen > log.gen
    BY <1>3, <1>10
  <1>. QED  BY <1>5, <1>6, <1>10, <1>11, <1>12, <1>13

LEMMA ReadInv == ASSUME IInv, NEW p \in Shells, Read(p) PROVE IInv'
  <1>. DEFINE log == fs.log
              fr == log.frames
              n == Len(fr)
              s == sh[p]
              c == Revalidate(p, IF Fresh(p) THEN Default ELSE s.work)
              i == Stop(fr, c.off, c.last)
              cut == IF ~ Fresh(p) /\ s.gen = log.gen THEN s.last ELSE 0
              pub == Repaired(i - 1)
  <1>1. sh \in [Shells -> Shell] /\ s \in Shell /\ OwnerOK(p) /\ s.pc \in {"read", "salvage"}
        /\ Agrees(s, log, n) /\ fs \in Files /\ fs \in disk /\ FileOK(fs) /\ log \in Log
    BY DEF IInv, TypeOK, ShellsInv, DiskInv, Read, At, Files
  <1>2. /\ holder = p /\ log.ino # 0 /\ s.pc \in Busy /\ UNCHANGED <<ghost, budget>> /\ disk' = disk \cup {fs'}
        /\ log.hdr = "ok"
    BY <1>1 DEF Read, OwnerOK, Busy
  <1>3. c = Revalidate(p, Base(p))
    BY DEF Base
  <1>4. s.op # "reset" /\ (s.pc = "salvage" => s.op = "load")
    BY <1>1 DEF OwnerOK
  <1>5. s.op \in Ops /\ OnError(p) \in {"off", "idle", "refused"}
    BY <1>1 DEF Shell, OnError
  <1>6. /\ Outcome(fr, c.off, c.last) = "clean" => i > n
        /\ Outcome(fr, c.off, c.last) = "torn" => i <= n /\ Torn(fr, i)
        /\ Outcome(fr, c.off, c.last) = "corrupt" => ~ (i > n) /\ ~ (i <= n /\ Torn(fr, i))
    BY OutcomeFacts
  <1>7. n \in Nat /\ i \in Nat
    <2>1. c \in Cursor /\ Points(c, log, n) /\ n \in Nat /\ fr \in Seq(Frame) /\ Increasing(fr)
      BY <1>1, <1>2, <1>3, RevalidateFacts, FileFields DEF Reader, FileOK
    <2>2. c.off \in 0 .. n /\ c.last = IdAt(fr, c.off)
      BY <2>1 DEF Cursor, Points
    <2>3. i \in c.off + 1 .. n + 1
      BY <2>1, <2>2, StopStopped
    <2>. QED  BY <2>1, <2>2, <2>3
  <1>8. CASE /\ Outcome(fr, c.off, c.last) = "clean" /\ ~ At(p, "salvage")
             /\ sh' = [sh EXCEPT ![p].pc = IF s.op = "add" THEN "write" ELSE "apply",
                           ![p].work = [c EXCEPT !.off = i - 1,
                                           !.last = IF i = c.off + 1 THEN @ ELSE fr[i - 1].id],
                           ![p].snap = New(fr, c.off, i, cut),
                           ![p].snapgen = log.gen]
             /\ UNCHANGED <<fs, holder>>
    <2>. DEFINE l == [s EXCEPT !.pc = IF s.op = "add" THEN "write" ELSE "apply",
                           !.work = [c EXCEPT !.off = i - 1,
                                           !.last = IF i = c.off + 1 THEN @ ELSE fr[i - 1].id],
                           !.snap = New(fr, c.off, i, cut),
                           !.snapgen = log.gen]
    <2>1. Seen(p, c, i, cut, l)
      BY <1>3 DEF Seen
    <2>2. s.pc = "read" /\ i > n /\ fs' = fs /\ holder' = p
      BY <1>1, <1>2, <1>6, <1>8 DEF At
    <2>. HIDE DEF c, i, cut
    <2>3. sh' = [sh EXCEPT ![p] = l]
      BY <1>1, <1>8
    <2>. HIDE DEF l
    <2>4. /\ l \in Shell /\ SameView(s, l) /\ l.op = s.op
          /\ l.pc = (IF s.op = "add" THEN "write" ELSE "apply")
          /\ (s.op # "render" => Snapshot(l, log, n))
      BY <1>2, <2>1, <2>2, ReadNew
    <2>5. sh' \in [Shells -> Shell] /\ sh'[p] = l /\ \A q \in Shells \ {p} : sh'[q] = sh[q]
      BY <1>1, <2>3, <2>4, LocalFacts
    <2>6. Agrees(sh'[p], fs.log, Len(fs.log.frames))
      BY <1>1, <2>4, <2>5, AgreesSame
    <2>7. s.op # "render" => Snapshot(sh[p], fs.log, Len(fs.log.frames))'
      BY <1>2, <2>2, <2>4, <2>5 DEF Snapshot, Points, Solid
    <2>8. OwnerOK(p)' /\ Loading(sh'[p])
      BY <1>2, <2>2, <2>4, <2>5, <2>7 DEF OwnerOK, Loading
    <2>9. ShellsInv'
      BY <1>2, <2>2, <2>5, <2>6, <2>8, MoveInv
    <2>10. disk' = disk
      BY <1>1, <1>2, <2>2
    <2>. QED  BY <1>2, <2>2, <2>5, <2>9, <2>10, SameDisk, SameGhost DEF IInv, TypeOK
  <1>9. CASE Unlock(p, "refused") /\ UNCHANGED fs
    <2>1. ShellsInv' /\ sh' \in [Shells -> Shell]
      BY <1>2, <1>9, UnlockInv
    <2>2. disk' = disk
      BY <1>1, <1>2, <1>9
    <2>. QED  BY <1>2, <1>9, <2>1, <2>2, SameDisk, SameGhost DEF IInv, TypeOK
  <1>10. CASE /\ Unlock(p, IF s.op = "load" /\ ~ s.salvaged THEN "salvaging" ELSE OnError(p))
              /\ UNCHANGED fs
    <2>1. PICK pc \in {"off", "idle", "refused", "salvaging"} : Unlock(p, pc) /\ (pc = "salvaging" => s.op = "load")
      BY <1>5, <1>10
    <2>2. ShellsInv' /\ sh' \in [Shells -> Shell]
      BY <1>2, <1>10, <2>1, UnlockInv
    <2>3. disk' = disk
      BY <1>1, <1>2, <1>10
    <2>. QED  BY <1>2, <1>10, <2>2, <2>3, SameDisk, SameGhost DEF IInv, TypeOK
  <1>11. CASE /\ Outcome(fr, c.off, c.last) = "torn" /\ CanPublish
              /\ sh' = [sh EXCEPT ![p].pc = "rename", ![p].pub = pub,
                                  ![p].work = Default, ![p].then = s.pc]
              /\ UNCHANGED <<fs, holder>>
    <2>. DEFINE l == [s EXCEPT !.pc = "rename", !.pub = pub, !.work = Default, !.then = s.pc]
    <2>1. i <= n /\ Torn(fr, i)
      BY <1>6, <1>11
    <2>2. sh' = [sh EXCEPT ![p] = l]
      BY <1>1, <1>11
    <2>3. /\ pub \in Log /\ pub.gen > log.gen /\ Increasing(pub.frames) /\ Framed(pub.frames)
          /\ i \in 1 .. n /\ fr[i].st # "ok"
          /\ \A o \in OkOccs(fr) : o \in OkOccs(pub.frames)
                                   \/ \E k \in i .. n : k # i /\ fr[k].st = "ok" /\ fr[k].occ = o
      <3>1. Halts(p, c, i, pub)
        BY <1>3 DEF Halts
      <3>2. CanPublish
        BY <1>11
      <3>. HIDE DEF pub, i, c
      <3>. QED  BY <1>1, <1>2, <2>1, <3>1, <3>2, RepairedFacts
    <2>. HIDE DEF pub, i, c
    <2>4. i = n
      <3>1. Framed(fr) /\ DOMAIN fr = 1 .. n
        BY <1>1, FileFields DEF FileOK
      <3>2. fr[i].st = "bad" => i = n
        BY <2>1 DEF Torn
      <3>3. fr[i].st \in {"short", "zero", "bad"}
        BY <2>1, <1>7, <2>3 DEF Torn
      <3>. QED  BY <2>3, <3>1, <3>2, <3>3 DEF Framed, Solid, Loose
    <2>5. OkOccs(fr) \subseteq OkOccs(pub.frames)
      BY <1>7, <2>3, <2>4
    <2>6. l \in Shell /\ SameView(s, l) /\ l.op = s.op /\ l.pc = "rename" /\ l.pub = pub /\ l.work = Default /\ l.then = s.pc
      BY <1>1, <2>3, DefaultType DEF Shell, SameView, Pcs, Thens
    <2>. HIDE DEF l
    <2>7. sh' \in [Shells -> Shell] /\ sh'[p] = l /\ \A q \in Shells \ {p} : sh'[q] = sh[q]
      BY <1>1, <2>2, <2>6, LocalFacts
    <2>8. Agrees(sh'[p], fs.log, Len(fs.log.frames))
      BY <1>1, <2>6, <2>7, AgreesSame
    <2>9. Survives([fs EXCEPT !.log = pub])
      <3>1. [fs EXCEPT !.log = pub].log = pub /\ [fs EXCEPT !.log = pub].saved = fs.saved
            /\ [fs EXCEPT !.log = pub].legacy = fs.legacy
        BY <1>1 DEF Files
      <3>. QED  BY <1>1, <2>5, <3>1, KeptFacts DEF FileOK, Survives
    <2>10. Publishes(l, fs)
      BY <1>1, <2>3, <2>6, <2>9 DEF Publishes
    <2>11. Publishes(sh[p], fs)'
      BY <1>2, <1>11, <2>7, <2>10, PublishesSame
    <2>12. Resumes(l)
      BY <1>1, <1>4, <1>5, <2>6 DEF Resumes, Ops
    <2>13. OwnerOK(p)' /\ Loading(sh'[p])
      BY <1>2, <1>11, <2>6, <2>7, <2>11, <2>12 DEF OwnerOK, Loading, Resumes
    <2>14. ShellsInv'
      BY <1>2, <1>11, <2>7, <2>8, <2>13, MoveInv
    <2>15. disk' = disk
      BY <1>1, <1>2, <1>11
    <2>. QED  BY <1>2, <1>11, <2>7, <2>14, <2>15, SameDisk, SameGhost DEF IInv, TypeOK
  <1>12. CASE /\ Outcome(fr, c.off, c.last) = "corrupt" /\ At(p, "salvage") /\ CanPublish
              /\ fs' = [fs EXCEPT !.saved = @ \cup {f.occ : f \in {fr[j] : j \in {k \in i .. n : fr[k].st = "ok"}}}]
              /\ sh' = [sh EXCEPT ![p].pc = "rename", ![p].pub = pub,
                                  ![p].then = "loading", ![p].salvaged = TRUE]
              /\ UNCHANGED holder
    <2>. DEFINE l == [s EXCEPT !.pc = "rename", !.pub = pub, !.then = "loading", !.salvaged = TRUE]
                more == {f.occ : f \in {fr[j] : j \in {k \in i .. n : fr[k].st = "ok"}}}
    <2>1. i <= n
      BY <1>6, <1>7, <1>12
    <2>2. sh' = [sh EXCEPT ![p] = l]
      BY <1>1, <1>12
    <2>3. /\ pub \in Log /\ pub.gen > log.gen /\ Increasing(pub.frames) /\ Framed(pub.frames)
          /\ i \in 1 .. n /\ fr[i].st # "ok"
          /\ \A o \in OkOccs(fr) : o \in OkOccs(pub.frames)
                                   \/ \E k \in i .. n : k # i /\ fr[k].st = "ok" /\ fr[k].occ = o
      <3>1. Halts(p, c, i, pub)
        BY <1>3 DEF Halts
      <3>2. CanPublish
        BY <1>12
      <3>. HIDE DEF pub, i, c
      <3>. QED  BY <1>1, <1>2, <2>1, <3>1, <3>2, RepairedFacts
    <2>. HIDE DEF pub, i, c
    <2>4. OkOccs(fr) \subseteq OkOccs(pub.frames) \cup more
      BY <2>3
    <2>5. more \subseteq Occs
      <3>1. \A k \in i .. n : fr[k] \in Frame
        BY <1>1, <1>7, <2>3, FileFields
      <3>. QED  BY <3>1 DEF Frame
    <2>. HIDE DEF more
    <2>6. /\ fs' \in Files /\ fs'.log = log /\ fs'.legacy = fs.legacy /\ fs'.saved = fs.saved \cup more
      <3>1. fs' = [fs EXCEPT !.saved = fs.saved \cup more]
        BY <1>1, <1>12 DEF more, Files
      <3>. QED  BY <1>1, <2>5, <3>1 DEF Files
    <2>7. FileOK(fs')
      <3>1. ghost.acked \subseteq OkOccs(fr) \cup fs.saved \cup fs.legacy \cup ghost.erased \cup ghost.damaged
        BY <1>1, KeptFacts DEF FileOK, Survives
      <3>2. ghost.acked \subseteq Kept(fs') \cup ghost.erased \cup ghost.damaged
        BY <2>6, <3>1, KeptFacts
      <3>. QED  BY <1>1, <2>6, <3>2 DEF FileOK, Survives
    <2>8. disk' \subseteq Files /\ DiskInv'
      <3>1. \A f : FileOK(f) => FileOK(f)'
        BY <1>2, FileGrows
      <3>2. \A f \in disk' : f \in Files /\ FileOK(f)
        BY <1>2, <2>6, <2>7 DEF IInv, TypeOK, DiskInv
      <3>3. fs' \in disk'
        BY <1>2
      <3>. QED  BY <3>1, <3>2, <3>3 DEF DiskInv
    <2>9. s.op = "load" /\ s.pc = "salvage"
      BY <1>4, <1>12 DEF At
    <2>10. l \in Shell /\ SameView(s, l) /\ l.op = s.op /\ l.pc = "rename" /\ l.pub = pub /\ l.then = "loading"
      BY <1>1, <2>3 DEF Shell, SameView, Pcs, Thens
    <2>. HIDE DEF l
    <2>11. sh' \in [Shells -> Shell] /\ sh'[p] = l /\ \A q \in Shells \ {p} : sh'[q] = sh[q]
      BY <1>1, <2>2, <2>10, LocalFacts
    <2>12. Agrees(sh'[p], fs.log, Len(fs.log.frames))
      BY <1>1, <2>10, <2>11, AgreesSame
    <2>13. Survives([fs' EXCEPT !.log = pub])
      <3>1. [fs' EXCEPT !.log = pub].log = pub /\ [fs' EXCEPT !.log = pub].saved = fs.saved \cup more
            /\ [fs' EXCEPT !.log = pub].legacy = fs.legacy
        BY <2>6 DEF Files
      <3>2. ghost.acked \subseteq OkOccs(fr) \cup fs.saved \cup fs.legacy \cup ghost.erased \cup ghost.damaged
        BY <1>1, KeptFacts DEF FileOK, Survives
      <3>3. ghost.acked \subseteq OkOccs(pub.frames) \cup (fs.saved \cup more) \cup fs.legacy
                                  \cup ghost.erased \cup ghost.damaged
        BY <2>4, <3>2
      <3>. QED  BY <3>1, <3>3, KeptFacts DEF Survives
    <2>14. Publishes(l, fs')
      BY <1>1, <2>3, <2>6, <2>10, <2>13 DEF Publishes
    <2>15. Publishes(sh[p], fs)'
      BY <1>2, <2>11, <2>14, PublishesSame
    <2>16. Resumes(l)
      BY <2>9, <2>10 DEF Resumes
    <2>17. OwnerOK(p)' /\ Loading(sh'[p])
      BY <1>2, <1>12, <2>10, <2>11, <2>15, <2>16 DEF OwnerOK, Loading, Resumes
    <2>18. ShellsInv'
      BY <1>2, <1>12, <2>6, <2>11, <2>12, <2>17, MoveInv
    <2>. QED  BY <1>2, <2>6, <2>8, <2>11, <2>18, SameGhost DEF IInv, TypeOK
  <1>. QED  BY <1>8, <1>9, <1>10, <1>11, <1>12 DEF Read
-----------------------------------------------------------------------------
(* The specification.                                                      *)

LEMMA InitInv == Init => IInv
  <1>. SUFFICES ASSUME Init PROVE IInv
    OBVIOUS
  <1>1. fs = [log |-> NoLog, legacy |-> 1 .. Legacy, saved |-> {}] /\ disk = {fs} /\ holder = None
        /\ sh = [p \in Shells |-> Shell0]
        /\ ghost = [acked |-> 1 .. Legacy, erased |-> {}, damaged |-> {}, header |-> FALSE, clock |-> FALSE]
        /\ budget = [ops |-> MaxOps, occ |-> MaxOcc - Legacy, fail |-> MaxFail, crash |-> MaxCrash, rot |-> MaxRot]
    BY DEF Init
  <1>2. 1 .. Legacy \subseteq Occs /\ MaxOcc - Legacy \in 0 .. MaxOcc /\ MaxOcc - (MaxOcc - Legacy) = Legacy
    BY BoundsFacts DEF Occs
  <1>3. fs \in Files /\ fs.log = NoLog /\ fs.legacy = 1 .. Legacy /\ fs.log \in Log
    BY <1>1, <1>2, NoLogType DEF Files
  <1>4. sh \in [Shells -> Shell] /\ \A p \in Shells : sh[p] = Shell0
    BY <1>1, Shell0Type
  <1>5. budget \in [ops : Nat, occ : 0 .. MaxOcc, fail : Nat, crash : Nat, rot : 0 .. MaxRot]
        /\ MaxOcc - budget.occ = Legacy
    BY <1>1, <1>2, BoundsFacts
  <1>6. ghost \in Ghost /\ ghost.acked = 1 .. Legacy /\ ghost.damaged = {}
    BY <1>1, <1>2 DEF Ghost
  <1>7. FileOK(fs)
    <2>1. Increasing(<<>>) /\ Framed(<<>>)
      BY EmptyLog
    <2>2. Survives(fs)
      BY <1>3, <1>6, KeptFacts DEF Survives
    <2>. QED  BY <1>3, <2>1, <2>2, NoLogType DEF FileOK
  <1>8. DiskInv /\ GhostInv
    BY <1>1, <1>5, <1>6, <1>7 DEF DiskInv, GhostInv
  <1>9. ShellsInv
    <2>1. Len(fs.log.frames) \in Nat
      BY <1>3, FileFields
    <2>2. Agrees(Shell0, fs.log, Len(fs.log.frames))
      BY <1>3, <2>1, AgreesFresh
    <2>3. \A p \in Shells : sh[p].pc = "off"
      BY <1>4 DEF Shell0
    <2>4. \A p \in Shells : OwnerOK(p) /\ Loading(sh[p])
      BY <2>3 DEF OwnerOK, Busy, Loading
    <2>. QED  BY <1>4, <2>2, <2>4 DEF ShellsInv
  <1>. QED  BY <1>1, <1>3, <1>4, <1>5, <1>6, <1>8, <1>9 DEF IInv, TypeOK

LEMMA StepInv == ASSUME IInv, NEW p \in Shells, Step(p), ~ ghost.clock' PROVE IInv'
  BY ReadInv, HeaderDamagedInv, RenameInv, DirSyncInv, OpenLogInv, RetireInv, WriteInv, FsyncInv,
     RollbackInv, ApplySnapshotInv, RenderedInv, ResetInv DEF Step

LEMMA StutterInv == ASSUME IInv, UNCHANGED vars PROVE IInv'
  <1>1. UNCHANGED <<fs, disk, holder, sh, ghost, budget>>
    BY DEF vars
  <1>2. fs' \in Files /\ disk' \subseteq Files /\ DiskInv'
    BY <1>1, SameDisk DEF IInv
  <1>3. \A q \in Shells : Agrees(sh[q], fs.log, Len(fs.log.frames))' /\ Loading(sh[q])'
    BY <1>1 DEF IInv, ShellsInv, Agrees, Points, Solid, Loading
  <1>4. ASSUME NEW q \in Shells PROVE OwnerOK(q)'
    <2>1. OwnerOK(q)
      BY DEF IInv, ShellsInv
    <2>2. \A log : Appending(sh[q], log) => Appending(sh[q], log)'
      BY <1>1 DEF Appending, Agrees, Points, Solid
    <2>3. \A log, n : Snapshot(sh[q], log, n) => Snapshot(sh[q], log, n)'
      BY <1>1 DEF Snapshot, Points, Solid
    <2>4. Publishes(sh[q], fs) => Publishes(sh[q], fs)'
      BY <1>1 DEF Publishes, Framed, Solid, Loose, Survives, Emptied, Increasing, Kept, OkOccs
    <2>. QED  BY <1>1, <2>1, <2>2, <2>3, <2>4 DEF OwnerOK, Resumes, Emptied, OkOccs, Busy
  <1>. QED  BY <1>1, <1>2, <1>3, <1>4 DEF IInv, TypeOK, GhostInv, ShellsInv

LEMMA NextInv == IInv /\ [Next]_vars /\ ~ ghost.clock' => IInv'
  <1>. SUFFICES ASSUME IInv, [Next]_vars, ~ ghost.clock' PROVE IInv'
    OBVIOUS
  <1>1. ASSUME NEW p \in Shells, Step(p) PROVE IInv'
    BY <1>1, StepInv
  <1>2. ASSUME NEW p \in Shells, Relock(p) \/ Exit(p) \/ Fail(p) \/ FsyncFails(p) \/ Kill(p) PROVE IInv'
    BY <1>2, RelockInv, ExitInv, FailInv, FsyncFailsInv, KillInv
  <1>3. ASSUME NEW p \in Shells, NEW op \in {"load", "render"}, Open(p, op) PROVE IInv'
    BY <1>3, OpenInv
  <1>4. ASSUME NEW p \in Shells, NEW op \in {"sync", "add", "reset"}, Begin(p, op) PROVE IInv'
    BY <1>4, BeginInv
  <1>5. CASE PowerLoss \/ Rot
    BY <1>5, PowerLossInv, RotInv
  <1>6. CASE UNCHANGED vars
    BY <1>6, StutterInv
  <1>. QED  BY <1>1, <1>2, <1>3, <1>4, <1>5, <1>6 DEF Next

-----------------------------------------------------------------------------
(* What holds whatever the clock says: it stays wrong, and without damage   *)
(* every header can be read, so that no reset asks the clock.              *)

ShapeOK ==
    /\ ghost = [acked |-> ghost.acked, erased |-> ghost.erased, damaged |-> ghost.damaged,
                header |-> ghost.header, clock |-> ghost.clock]
    /\ ghost.clock \in BOOLEAN

BudgetOK == budget \in [ops : Nat, occ : 0 .. MaxOcc, fail : Nat, crash : Nat, rot : 0 .. MaxRot]

Headers == /\ \A f \in disk : f.log.hdr = "ok"
           /\ \A p \in Shells : sh[p].pub.hdr = "ok"

Undamaged == budget.rot = MaxRot => ~ ghost.clock /\ Headers

Told == \/ ghost' = ghost
        \/ \E x : ghost' = [ghost EXCEPT !.acked = x]
        \/ \E x : ghost' = [ghost EXCEPT !.damaged = x]
        \/ \E x : ghost' = [ghost EXCEPT !.header = x]
        \/ \E x, y : ghost' = [ghost EXCEPT !.erased = x, !.clock = @ \/ y]

LEMMA ClockStays ==
    ASSUME ShapeOK, Told
    PROVE  ShapeOK' /\ (ghost.clock => ghost'.clock) /\ ghost'.clock \in BOOLEAN
  <1>1. CASE ghost' = ghost
    BY <1>1 DEF ShapeOK
  <1>2. ASSUME NEW x, ghost' = [ghost EXCEPT !.acked = x] \/ ghost' = [ghost EXCEPT !.damaged = x]
                      \/ ghost' = [ghost EXCEPT !.header = x]
        PROVE  ShapeOK' /\ ghost'.clock = ghost.clock
    BY <1>2 DEF ShapeOK
  <1>3. ASSUME NEW x, NEW y, ghost' = [ghost EXCEPT !.erased = x, !.clock = @ \/ y]
        PROVE  ShapeOK' /\ ghost'.clock = (ghost.clock \/ y)
    BY <1>3 DEF ShapeOK
  <1>. QED  BY <1>1, <1>2, <1>3 DEF Told, ShapeOK

LEMMA StepTold == ASSUME [Next]_vars PROVE Told
  <1>1. ASSUME NEW p \in Shells, Step(p) PROVE Told
    <2>1. CASE ApplySnapshot(p)
      BY <2>1 DEF ApplySnapshot, Told
    <2>2. CASE Reset(p)
      <3>. DEFINE occ == {f.occ : f \in Range(fs.log.frames)}
      <3>1. PICK g : ghost' = [ghost EXCEPT !.erased = @ \cup occ, !.clock = @ \/ g <= fs.log.gen]
        BY <2>2 DEF Reset
      <3>. HIDE DEF occ
      <3>. QED  BY <3>1 DEF Told
    <2>3. CASE Read(p) \/ HeaderDamaged(p) \/ Rename(p) \/ DirSync(p) \/ OpenLog(p) \/ Retire(p)
      <3>1. ghost' = ghost
        BY <2>3 DEF Read, HeaderDamaged, Rename, DirSync, OpenLog, Retire
      <3>. QED  BY <3>1 DEF Told
    <2>4. CASE Write(p) \/ Fsync(p) \/ Rollback(p) \/ Rendered(p)
      <3>1. ghost' = ghost
        BY <2>4 DEF Write, Fsync, Rollback, Rendered
      <3>. QED  BY <3>1 DEF Told
    <2>. QED  BY <1>1, <2>1, <2>2, <2>3, <2>4 DEF Step
  <1>2. ASSUME NEW p \in Shells, Relock(p) \/ Exit(p) \/ Fail(p) \/ FsyncFails(p) \/ Kill(p) PROVE Told
    BY <1>2 DEF Relock, Exit, Fail, FsyncFails, Kill, Told
  <1>3. ASSUME NEW p \in Shells, NEW op, Open(p, op) \/ Begin(p, op) PROVE Told
    BY <1>3 DEF Open, Begin, Told
  <1>4. CASE PowerLoss
    BY <1>4 DEF PowerLoss, Told
  <1>5. CASE Rot
    BY <1>5 DEF Rot, Told
  <1>6. CASE UNCHANGED vars
    BY <1>6 DEF vars, Told
  <1>. QED  BY <1>1, <1>2, <1>3, <1>4, <1>5, <1>6 DEF Next

\* The budgets only shrink.
LEMMA BudgetShrinks ==
    ASSUME BudgetOK, [Next]_vars
    PROVE  BudgetOK' /\ budget'.rot <= budget.rot
  <1>. DEFINE Same == budget' = budget
              Spent == \E b \in {"ops", "fail", "crash", "rot"} : Spend(b)
              Wrote == budget.occ > 0 /\ budget' = [budget EXCEPT !.occ = @ - 1]
  <1>1. Same \/ Spent \/ Wrote
    <2>1. ASSUME NEW p \in Shells, Step(p) PROVE Same \/ Spent \/ Wrote
      <3>1. CASE Rollback(p)
        BY <3>1 DEF Rollback
      <3>2. CASE Write(p)
        BY <3>2 DEF Write
      <3>3. CASE Reset(p)
        BY <3>3 DEF Reset
      <3>4. CASE Read(p) \/ HeaderDamaged(p) \/ Rename(p) \/ DirSync(p) \/ OpenLog(p) \/ Retire(p)
        BY <3>4 DEF Read, HeaderDamaged, Rename, DirSync, OpenLog, Retire
      <3>5. CASE Fsync(p) \/ ApplySnapshot(p) \/ Rendered(p)
        BY <3>5 DEF Fsync, ApplySnapshot, Rendered
      <3>. QED  BY <2>1, <3>1, <3>2, <3>3, <3>4, <3>5 DEF Step
    <2>2. ASSUME NEW p \in Shells, Relock(p) \/ Exit(p) \/ Fail(p) \/ FsyncFails(p) \/ Kill(p)
          PROVE  Same \/ Spent \/ Wrote
      BY <2>2 DEF Relock, Exit, Fail, FsyncFails, Kill
    <2>3. ASSUME NEW p \in Shells, NEW op, Open(p, op) \/ Begin(p, op) PROVE Same \/ Spent \/ Wrote
      BY <2>3 DEF Open, Begin
    <2>4. CASE PowerLoss \/ Rot
      BY <2>4 DEF PowerLoss, Rot
    <2>5. CASE UNCHANGED vars
      BY <2>5 DEF vars
    <2>. QED  BY <2>1, <2>2, <2>3, <2>4, <2>5 DEF Next
  <1>2. budget.rot \in Nat /\ budget.occ \in 0 .. MaxOcc
    BY BoundsFacts DEF BudgetOK
  <1>3. CASE Same
    BY <1>2, <1>3 DEF BudgetOK
  <1>4. CASE Spent
    <2>1. PICK b \in {"ops", "fail", "crash", "rot"} : budget[b] > 0 /\ budget' = [budget EXCEPT ![b] = @ - 1]
      BY <1>4 DEF Spend
    <2>2. CASE b = "rot"
      BY <2>1, <2>2, <1>2, BoundsFacts DEF BudgetOK
    <2>3. CASE b # "rot"
      BY <2>1, <2>3, <1>2, BoundsFacts DEF BudgetOK
    <2>. QED  BY <2>2, <2>3
  <1>5. CASE Wrote
    <2>1. budget.occ - 1 \in 0 .. MaxOcc
      BY <1>2, <1>5, BoundsFacts
    <2>. QED  BY <2>1, <1>2, <1>5, BoundsFacts DEF BudgetOK
  <1>. QED  BY <1>1, <1>3, <1>4, <1>5

\* A log whose header can be read.
Legible(f) == f.log.hdr = "ok"

LEMMA PubFacts ==
    ASSUME NEW s \in Shell, NEW pc
    PROVE  Rest(s, pc).pub.hdr = "ok" /\ Shell0.pub.hdr = "ok" /\ NoLog.hdr = "ok"
  BY DEF Rest, Shell, Shell0, NoLog

LEMMA UnlockPub ==
    ASSUME TypeOK, Headers, NEW p \in Shells, NEW pc, Unlock(p, pc)
    PROVE  \A q \in Shells : sh'[q].pub.hdr = "ok"
  BY PubFacts DEF TypeOK, Headers, Unlock

\* A step that changes at most the program counter and what is no file.
LEMMA SamePub ==
    ASSUME TypeOK, Headers, NEW p \in Shells, NEW l, sh' = [sh EXCEPT ![p] = l], l.pub.hdr = "ok"
    PROVE  \A q \in Shells : sh'[q].pub.hdr = "ok"
  BY DEF TypeOK, Headers

LEMMA GotoPub ==
    ASSUME TypeOK, Headers, NEW p \in Shells, NEW pc, Goto(p, pc)
    PROVE  \A q \in Shells : sh'[q].pub.hdr = "ok"
  BY DEF TypeOK, Headers, Goto, Shell

LEMMA ResetHeaders ==
    ASSUME IInv, Headers, ~ ghost.clock, NEW p \in Shells, Reset(p)
    PROVE  Headers' /\ ~ ghost.clock'
  <1>1. fs.log.hdr = "ok" /\ fs.log.gen \in Nat /\ ghost \in Ghost
    BY FileFields, BoundsFacts DEF IInv, DiskInv, TypeOK, Headers, Files, Log
  <1>2. PICK g \in 0 .. MaxGen :
             /\ g = fs.log.gen + 1
             /\ sh' = [sh EXCEPT ![p].pc = "rename", ![p].then = "apply",
                         ![p].pub = [NoLog EXCEPT !.gen = g], ![p].snap = <<>>,
                         ![p].snapgen = g, ![p].work = Default]
             /\ \E x : ghost' = [ghost EXCEPT !.erased = x, !.clock = @ \/ g <= fs.log.gen]
    BY <1>1 DEF Reset
  <1>3. ~ ghost.clock'
    BY <1>1, <1>2 DEF Ghost
  <1>4. disk' = disk \cup {fs'} /\ fs' = fs
    BY <1>1 DEF Reset
  <1>. DEFINE l == [sh[p] EXCEPT !.pc = "rename", !.then = "apply", !.pub = [NoLog EXCEPT !.gen = g],
                                 !.snap = <<>>, !.snapgen = g, !.work = Default]
  <1>5. sh' = [sh EXCEPT ![p] = l] /\ l.pub.hdr = "ok"
    BY <1>2 DEF IInv, TypeOK, Shell, NoLog
  <1>. HIDE DEF l
  <1>6. \A q \in Shells : sh'[q].pub.hdr = "ok"
    BY <1>5, SamePub DEF IInv
  <1>. QED  BY <1>1, <1>3, <1>4, <1>6 DEF Headers

LEMMA ReadHeaders ==
    ASSUME IInv, Headers, NEW p \in Shells, Read(p)
    PROVE  Headers'
  <1>1. fs.log.hdr = "ok" /\ fs \in Files /\ fs.log \in Log
    BY DEF IInv, DiskInv, TypeOK, Headers, Files
  <1>2. fs'.log.hdr = "ok" /\ disk' = disk \cup {fs'}
    BY <1>1 DEF Read, Files
  <1>3. \A n : Repaired(n).hdr = "ok"
    BY <1>1 DEF Repaired, Log
  <1>4. sh \in [Shells -> Shell] /\ TypeOK
    BY DEF IInv, TypeOK
  <1>5. \A q \in Shells : sh'[q].pub.hdr = "ok"
    <2>1. CASE \E pc : Unlock(p, pc)
      BY <1>4, <2>1, UnlockPub
    <2>3. ASSUME NEW n, NEW y, NEW t,
                 sh' = [sh EXCEPT ![p].pc = "rename", ![p].pub = Repaired(n), ![p].work = y, ![p].then = t]
          PROVE  \A q \in Shells : sh'[q].pub.hdr = "ok"
      BY <1>3, <1>4, <2>3 DEF Headers, Shell
    <2>4. ASSUME NEW n,
                 sh' = [sh EXCEPT ![p].pc = "rename", ![p].pub = Repaired(n), ![p].then = "loading",
                                  ![p].salvaged = TRUE]
          PROVE  \A q \in Shells : sh'[q].pub.hdr = "ok"
      BY <1>3, <1>4, <2>4 DEF Headers, Shell
    <2>. DEFINE c == Revalidate(p, IF Fresh(p) THEN Default ELSE sh[p].work)
                fr == fs.log.frames
                i == Stop(fr, c.off, c.last)
                cut == IF ~ Fresh(p) /\ sh[p].gen = fs.log.gen THEN sh[p].last ELSE 0
                pc0 == IF sh[p].op = "add" THEN "write" ELSE "apply"
                work == [c EXCEPT !.off = i - 1, !.last = IF i = c.off + 1 THEN @ ELSE fr[i - 1].id]
                snap == New(fr, c.off, i, cut)
                pub == Repaired(i - 1)
    <2>5. \/ sh' = [sh EXCEPT ![p].pc = pc0, ![p].work = work, ![p].snap = snap, ![p].snapgen = fs.log.gen]
          \/ Unlock(p, "refused")
          \/ Unlock(p, IF sh[p].op = "load" /\ ~ sh[p].salvaged THEN "salvaging" ELSE OnError(p))
          \/ sh' = [sh EXCEPT ![p].pc = "rename", ![p].pub = pub, ![p].work = Default, ![p].then = sh[p].pc]
          \/ sh' = [sh EXCEPT ![p].pc = "rename", ![p].pub = pub, ![p].then = "loading", ![p].salvaged = TRUE]
      BY DEF Read
    <2>6. pub = Repaired(i - 1)
      OBVIOUS
    <2>. HIDE DEF pc0, work, snap, i, pub, fr, c
    <2>7. sh' = [sh EXCEPT ![p].pc = pc0, ![p].work = work, ![p].snap = snap, ![p].snapgen = fs.log.gen]
            => \A q \in Shells : sh'[q].pub.hdr = "ok"
      BY <1>4 DEF Headers, Shell
    <2>8. sh' = [sh EXCEPT ![p].pc = "rename", ![p].pub = pub, ![p].work = Default, ![p].then = sh[p].pc]
            => \A q \in Shells : sh'[q].pub.hdr = "ok"
      BY <2>3, <2>6
    <2>9. sh' = [sh EXCEPT ![p].pc = "rename", ![p].pub = pub, ![p].then = "loading", ![p].salvaged = TRUE]
            => \A q \in Shells : sh'[q].pub.hdr = "ok"
      BY <2>4, <2>6
    <2>. QED  BY <2>1, <2>5, <2>7, <2>8, <2>9
  <1>. QED  BY <1>2, <1>5 DEF Headers

LEMMA WriteHeaders ==
    ASSUME IInv, Headers, NEW p \in Shells, Write(p)
    PROVE  Headers'
  <1>1. fs.log.hdr = "ok" /\ fs \in Files /\ fs.log \in Log /\ sh \in [Shells -> Shell]
    BY DEF IInv, DiskInv, TypeOK, Headers, Files
  <1>2. \A st, id, o : Longer(st, id, o).log.hdr = "ok"
    BY <1>1 DEF Longer, Files, Log
  <1>. DEFINE o == MaxOcc - budget.occ + 1
  <1>3. /\ disk' = disk \cup {Longer(st, NextId(p), o) : st \in Conditions}
        /\ \/ sh' = [sh EXCEPT ![p].pc = "fsync", ![p].fresh = o]
           \/ sh' = [sh EXCEPT ![p].pc = "rollback", ![p].fresh = o]
    BY DEF Write, Longer
  <1>4. \A f \in disk' : f.log.hdr = "ok"
    BY <1>2, <1>3 DEF Headers
  <1>. HIDE DEF o
  <1>5. ASSUME NEW x, sh' = [sh EXCEPT ![p].pc = x, ![p].fresh = o]
        PROVE  \A q \in Shells : sh'[q].pub.hdr = "ok"
    BY <1>1, <1>5 DEF Headers, Shell
  <1>. QED  BY <1>3, <1>4, <1>5 DEF Headers

LEMMA FileHeaders ==
    ASSUME IInv, Headers, NEW p \in Shells, Rename(p) \/ Retire(p) \/ Rollback(p)
    PROVE  Headers'
  <1>1. fs.log.hdr = "ok" /\ fs \in Files /\ fs.log \in Log /\ sh \in [Shells -> Shell] /\ sh[p].pub \in Log
        /\ sh[p].pub.hdr = "ok" /\ TypeOK
    BY DEF IInv, DiskInv, TypeOK, Headers, Files, Shell
  <1>2. CASE Rename(p)
    <2>1. PICK n : Put([fs EXCEPT !.log = [sh[p].pub EXCEPT !.ino = n]])
      BY <1>2 DEF Rename
    <2>2. [fs EXCEPT !.log = [sh[p].pub EXCEPT !.ino = n]].log.hdr = "ok"
      BY <1>1 DEF Files, Log
    <2>3. \A q \in Shells : sh'[q].pub.hdr = "ok"
      BY <1>1, <1>2, GotoPub DEF Rename
    <2>. QED  BY <2>1, <2>2, <2>3 DEF Headers, Put
  <1>3. CASE Retire(p)
    <2>1. \A x : [fs EXCEPT !.legacy = x].log.hdr = "ok"
      BY <1>1 DEF Files
    <2>2. \A f \in disk' : f.log.hdr = "ok"
      BY <1>3, <2>1 DEF Retire, Put, Headers
    <2>3. \A q \in Shells : sh'[q].pub.hdr = "ok"
      <3>1. CASE sh' = sh
        BY <3>1 DEF Headers
      <3>2. CASE Unlock(p, "loading")
        BY <1>1, <3>2, UnlockPub
      <3>. QED  BY <1>3, <3>1, <3>2 DEF Retire
    <2>. QED  BY <2>2, <2>3 DEF Headers
  <1>4. CASE Rollback(p)
    <2>1. \A q \in Shells : sh'[q].pub.hdr = "ok"
      BY <1>1, <1>4, UnlockPub DEF Rollback
    <2>2. [fs EXCEPT !.log.frames = SubSeq(@, 1, sh[p].work.off)].log.hdr = "ok"
      BY <1>1 DEF Files, Log
    <2>3. \A f \in disk' : f.log.hdr = "ok"
      BY <1>4, <2>2 DEF Rollback, Headers
    <2>. QED  BY <2>1, <2>3 DEF Headers
  <1>. QED  BY <1>2, <1>3, <1>4

\* The steps that write no file.
LEMMA DiskHeaders ==
    ASSUME IInv, Headers,
           disk' = disk \/ disk' = {fs}, \A q \in Shells : sh'[q].pub.hdr = "ok"
    PROVE  Headers'
  BY DEF IInv, DiskInv, Headers

LEMMA QuietHeaders ==
    ASSUME IInv, Headers, NEW p \in Shells,
           \/ HeaderDamaged(p) \/ DirSync(p) \/ Fsync(p) \/ ApplySnapshot(p) \/ Rendered(p)
           \/ Relock(p) \/ Exit(p) \/ Fail(p) \/ FsyncFails(p) \/ Kill(p)
    PROVE  Headers'
  <1>1. TypeOK /\ sh \in [Shells -> Shell] /\ Shell0.pub.hdr = "ok"
    BY PubFacts DEF IInv, TypeOK, Shell0, NoLog
  <1>2. CASE HeaderDamaged(p)
    BY <1>1, <1>2, UnlockPub, DiskHeaders DEF HeaderDamaged
  <1>3. CASE DirSync(p)
    <2>1. \A q \in Shells : sh'[q].pub.hdr = "ok"
      BY <1>1, <1>3, UnlockPub, GotoPub DEF DirSync
    <2>. QED  BY <1>3, <2>1, DiskHeaders DEF DirSync, Commit
  <1>4. CASE Fsync(p)
    <2>1. \A q \in Shells : sh'[q].pub.hdr = "ok"
      BY <1>1, <1>4 DEF Fsync, Headers, Shell
    <2>. QED  BY <1>4, <2>1, DiskHeaders DEF Fsync, Commit
  <1>5. CASE ApplySnapshot(p)
    <2>1. PICK x, y, z, t :
             sh' = [sh EXCEPT ![p] = [Rest(sh[p], "idle") EXCEPT !.gen = x, !.cursor = y, !.view = z, !.last = t]]
      BY <1>1, <1>5 DEF ApplySnapshot
    <2>2. Rest(sh[p], "idle") \in Shell /\ Rest(sh[p], "idle").pub.hdr = "ok"
      BY <1>1, PubFacts, RestType DEF Pcs
    <2>3. \A q \in Shells : sh'[q].pub.hdr = "ok"
      BY <1>1, <2>1, <2>2 DEF Headers, Shell
    <2>. QED  BY <1>5, <2>3, DiskHeaders DEF ApplySnapshot
  <1>6. CASE Rendered(p)
    BY <1>1, <1>6, UnlockPub, DiskHeaders DEF Rendered
  <1>7. CASE Relock(p)
    <2>1. \A q \in Shells : sh'[q].pub.hdr = "ok"
      BY <1>1, <1>7, GotoPub DEF Relock, Headers, Shell
    <2>. QED  BY <1>7, <2>1, DiskHeaders DEF Relock
  <1>8. CASE Exit(p) \/ Kill(p)
    <2>1. \A q \in Shells : sh'[q].pub.hdr = "ok"
      BY <1>1, <1>8, SamePub DEF Exit, Kill
    <2>. QED  BY <1>8, <2>1, DiskHeaders DEF Exit, Kill
  <1>9. CASE Fail(p)
    BY <1>1, <1>9, UnlockPub, DiskHeaders DEF Fail
  <1>10. CASE FsyncFails(p)
    BY <1>1, <1>10, GotoPub, DiskHeaders DEF FsyncFails
  <1>. QED  BY <1>2, <1>3, <1>4, <1>5, <1>6, <1>7, <1>8, <1>9, <1>10

LEMMA StartHeaders ==
    ASSUME IInv, Headers, NEW p \in Shells, NEW op, Open(p, op) \/ Begin(p, op) \/ OpenLog(p)
    PROVE  Headers'
  <1>1. TypeOK /\ sh \in [Shells -> Shell] /\ Shell0.pub.hdr = "ok"
    BY PubFacts DEF IInv, TypeOK, Shell0, NoLog
  <1>2. CASE Open(p, op)
    <2>1. PICK x : sh' = [sh EXCEPT ![p] = [Shell0 EXCEPT !.pc = x, !.op = op]]
      BY <1>2 DEF Open
    <2>2. [Shell0 EXCEPT !.pc = x, !.op = op].pub.hdr = "ok"
      BY <1>1 DEF Shell0
    <2>3. \A q \in Shells : sh'[q].pub.hdr = "ok"
      BY <1>1, <2>1, <2>2, SamePub
    <2>. QED  BY <1>2, <2>3, DiskHeaders DEF Open
  <1>3. CASE Begin(p, op)
    <2>1. \A q \in Shells : sh'[q].pub.hdr = "ok"
      BY <1>1, <1>3 DEF Begin, Headers, Shell
    <2>. QED  BY <1>3, <2>1, DiskHeaders DEF Begin
  <1>4. CASE OpenLog(p)
    <2>1. \A x : [NoLog EXCEPT !.frames = x].hdr = "ok"
      BY DEF NoLog
    <2>2. \A q \in Shells : sh'[q].pub.hdr = "ok"
      <3>1. CASE Unlock(p, "loading")
        BY <1>1, <3>1, UnlockPub
      <3>2. ASSUME NEW x, sh' = [sh EXCEPT ![p].pc = "rename", ![p].then = "retire",
                                           ![p].pub = [NoLog EXCEPT !.frames = x]]
            PROVE  \A q \in Shells : sh'[q].pub.hdr = "ok"
        BY <1>1, <2>1, <3>2 DEF Headers, Shell
      <3>. QED  BY <1>4, <3>1, <3>2 DEF OpenLog
    <2>. QED  BY <1>4, <2>2, DiskHeaders DEF OpenLog
  <1>. QED  BY <1>2, <1>3, <1>4

LEMMA NextHeaders ==
    ASSUME IInv, Headers, ~ ghost.clock, [Next]_vars, ~ Rot
    PROVE  Headers' /\ ~ ghost.clock'
  <1>1. ASSUME NEW p \in Shells, Reset(p) PROVE Headers' /\ ~ ghost.clock'
    BY <1>1, ResetHeaders
  <1>2. ghost \in Ghost
    BY DEF IInv, TypeOK
  <1>3. ASSUME NEW p \in Shells, Step(p), ~ Reset(p) PROVE Headers' /\ ~ ghost.clock'
    <2>1. Headers'
      BY <1>3, ReadHeaders, WriteHeaders, FileHeaders, QuietHeaders, StartHeaders DEF Step
    <2>2. ghost' = ghost \/ \E x : ghost' = [ghost EXCEPT !.acked = x]
      BY <1>3 DEF Step, Read, HeaderDamaged, Rename, DirSync, OpenLog, Retire, Write, Fsync, Rollback,
                  ApplySnapshot, Rendered
    <2>. QED  BY <1>2, <2>1, <2>2 DEF Ghost
  <1>4. ASSUME NEW p \in Shells, Relock(p) \/ Exit(p) \/ Fail(p) \/ FsyncFails(p) \/ Kill(p)
        PROVE  Headers' /\ ~ ghost.clock'
    BY <1>4, QuietHeaders DEF Relock, Exit, Fail, FsyncFails, Kill
  <1>5. ASSUME NEW p \in Shells, NEW op, Open(p, op) \/ Begin(p, op) PROVE Headers' /\ ~ ghost.clock'
    BY <1>5, StartHeaders DEF Open, Begin
  <1>6. CASE PowerLoss
    <2>1. \A q \in Shells : sh'[q].pub.hdr = "ok"
      BY <1>6 DEF PowerLoss, Shell0, NoLog
    <2>. QED  BY <1>6, <2>1 DEF PowerLoss, Headers
  <1>7. CASE UNCHANGED vars
    BY <1>7 DEF vars, Headers
  <1>. QED  BY <1>1, <1>3, <1>4, <1>5, <1>6, <1>7 DEF Next

LEMMA RotSpends == ASSUME BudgetOK, Rot PROVE budget'.rot # MaxRot
  <1>1. budget.rot \in 0 .. MaxRot /\ budget' = [budget EXCEPT !["rot"] = @ - 1]
    BY DEF BudgetOK, Rot, Spend
  <1>2. budget'.rot = budget.rot - 1
    BY <1>1 DEF BudgetOK
  <1>. QED  BY <1>1, <1>2, BoundsFacts

\* The inductive invariant: IInv until a clock goes back.
Sound == ShapeOK /\ BudgetOK /\ Undamaged /\ (ghost.clock \/ IInv)

LEMMA NextSound == Sound /\ [Next]_vars => Sound'
  <1>. SUFFICES ASSUME Sound, [Next]_vars PROVE Sound'
    OBVIOUS
  <1>1. ShapeOK' /\ (ghost.clock => ghost.clock') /\ BudgetOK' /\ budget'.rot <= budget.rot
    BY StepTold, ClockStays, BudgetShrinks DEF Sound
  <1>2. ghost.clock' \/ IInv'
    BY <1>1, NextInv DEF Sound
  <1>3. ASSUME budget'.rot = MaxRot PROVE ~ ghost.clock' /\ Headers'
    <2>1. budget.rot = MaxRot
      BY <1>1, <1>3, BoundsFacts DEF Sound, BudgetOK
    <2>. QED  BY <1>3, <2>1, RotSpends, NextHeaders DEF Sound, Undamaged
  <1>. QED  BY <1>1, <1>2, <1>3 DEF Sound, Undamaged

LEMMA InitSound == Init => Sound
  <1>. SUFFICES ASSUME Init PROVE Sound
    OBVIOUS
  <1>1. IInv
    BY InitInv
  <1>2. ShapeOK /\ ~ ghost.clock
    BY DEF Init, ShapeOK
  <1>3. BudgetOK
    BY <1>1 DEF IInv, TypeOK, BudgetOK
  <1>4. Headers
    <2>1. \A f \in disk : f.log.hdr = "ok"
      BY DEF Init, NoLog
    <2>2. \A p \in Shells : sh[p].pub.hdr = "ok"
      BY DEF Init, Shell0, NoLog
    <2>. QED  BY <2>1, <2>2 DEF Headers
  <1>. QED  BY <1>1, <1>2, <1>3, <1>4 DEF Sound, Undamaged

\* Until a clock goes back, every frame a shell points at, waits for or publishes
\* is where the shell believes it to be, in every interleaving of operations,
\* failures and kills; without damaged bytes no clock is ever asked.
THEOREM HistoryInductive ==
    Spec => []((ghost.clock \/ IInv) /\ (budget.rot = MaxRot => ~ ghost.clock))
  <1>1. Init => Sound
    BY InitSound
  <1>2. Sound /\ [Next]_vars => Sound'
    BY NextSound
  <1>3. Sound => (ghost.clock \/ IInv) /\ (budget.rot = MaxRot => ~ ghost.clock)
    BY DEF Sound, Undamaged
  <1>. QED  BY <1>1, <1>2, <1>3, PTL DEF Spec

\* AckedSurvives: what add_in_dir acknowledged, and every legacy occurrence,
\* stays readable in every state a power loss can leave.
THEOREM HistorySurvives == Spec => []AckedSurvives
  <1>1. ghost.clock \/ IInv => AckedSurvives
    BY DEF IInv, DiskInv, FileOK, Survives, AckedSurvives
  <1>. QED  BY <1>1, HistoryInductive, PTL

\* ViewExact: an idle shell that knows the log's generation has applied
\* exactly the log's first frames.
THEOREM ViewsExact == Spec => []ViewExact
  <1>1. ghost.clock \/ IInv => ViewExact
    <2>. SUFFICES ASSUME IInv PROVE ViewExact
      BY DEF ViewExact
    <2>1. ASSUME NEW p \in Shells, sh[p].gen = fs.log.gen
          PROVE  LET v == sh[p].view
                     fr == fs.log.frames
                 IN  /\ Len(v) <= Len(fr)
                     /\ \A i \in DOMAIN v : v[i] = fr[i].occ
                     /\ sh[p].last = (IF v = <<>> THEN 0 ELSE fr[Len(v)].id)
      <3>1. Agrees(sh[p], fs.log, Len(fs.log.frames)) /\ sh[p].view \in Seq(Occs)
        BY DEF IInv, ShellsInv, TypeOK, Shell
      <3>2. sh[p].view = <<>> <=> Len(sh[p].view) = 0
        BY <3>1, EmptySeq
      <3>. QED  BY <2>1, <3>1, <3>2 DEF Agrees, IdAt
    <2>. QED  BY <2>1 DEF ViewExact
  <1>. QED  BY <1>1, HistoryInductive, PTL

\* NoSelfDamage: unless stored bytes went bad, every state a crash can leave
\* reads to its end, to a torn tail or to one last frame nobody was told of.
THEOREM NeverSelfDamaged == Spec => []NoSelfDamage
  <1>1. (ghost.clock \/ IInv) /\ (budget.rot = MaxRot => ~ ghost.clock) => NoSelfDamage
    <2>. SUFFICES ASSUME IInv, budget.rot = MaxRot, NEW f \in disk,
                         Outcome(f.log.frames, 0, 0) = "corrupt"
                  PROVE  LET fr == f.log.frames
                         IN  Stop(fr, 0, 0) = Len(fr) /\ fr[Len(fr)].st # "ok"
                             /\ fr[Len(fr)].occ \notin ghost.acked
      BY DEF NoSelfDamage
    <2>. DEFINE fr == f.log.frames
                n == Len(fr)
                i == Stop(fr, 0, 0)
    <2>1. f \in Files /\ Increasing(fr) /\ Framed(fr) /\ ghost.damaged = {}
      BY DEF IInv, TypeOK, DiskInv, FileOK, GhostInv
    <2>2. fr \in Seq(Frame) /\ n \in Nat /\ DOMAIN fr = 1 .. n /\ \A k \in 1 .. n : fr[k] \in Frame
      BY <2>1, FileFields
    <2>3. i \in 1 .. n + 1 /\ (i <= n => fr[i].st # "ok")
      <3>1. 0 \in 0 .. n /\ 0 = IdAt(fr, 0)
        BY <2>2 DEF IdAt
      <3>. QED  BY <2>1, <2>2, <3>1, StopStopped
    <2>4. ~ (i > n)
      BY OutcomeFacts
    <2>. HIDE DEF i
    <2>5. i \in 1 .. n /\ fr[i].st # "ok"
      BY <2>2, <2>3, <2>4
    <2>6. i = n /\ Loose(fr[i])
      BY <2>1, <2>2, <2>5 DEF Framed, Solid
    <2>. QED  BY <2>6 DEF i, Loose
  <1>. QED  BY <1>1, HistoryInductive, PTL
=============================================================================
