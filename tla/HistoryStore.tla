----------------------------- MODULE HistoryStore -----------------------------
(***************************************************************************)
(* The shared history log of src/history/store.rs and the shells that read *)
(* and append to it (History::load_from, sync, add_in_dir, reset of        *)
(* src/history.rs). Every operation holds one blocking flock; a shell can  *)
(* be killed, and the machine can lose power, between any two steps.       *)
(*                                                                         *)
(* A frame is an occurrence id, the occurrence itself (a serial number     *)
(* standing for command, time and directory) and its condition:            *)
(*   ok     checksums match          short  ends before its length says    *)
(*   zero   zero fill                 bad    payload checksum mismatch     *)
(*   rot    length checksum mismatch                                       *)
(* `disk` holds the states a power loss may expose, as in Quarantine.      *)
(***************************************************************************)
EXTENDS Naturals, Sequences, FiniteSets, Functions

CONSTANTS
    Shells,     \* running shells and `ish -c history` renderers
    Legacy,     \* occurrences in the legacy text and cache files, in import order
    Inos,       \* inode numbers the file system hands out
    MaxOcc,     \* bound on occurrences
    MaxGen,     \* bound on log generations
    MaxOps,     \* bound on operations started
    MaxFail,    \* bound on failing calls
    MaxCrash,   \* bound on kills and power losses
    MaxRot      \* bound on damage to stored frames or the header

None == "none"

ASSUME BoundsAssumption ==
    /\ None \notin Shells /\ Inos \subseteq Nat \ {0}
    /\ MaxOcc \in Nat /\ MaxGen \in Nat /\ MaxOps \in Nat
    /\ MaxFail \in Nat /\ MaxCrash \in Nat /\ MaxRot \in Nat
    /\ Legacy <= MaxOcc /\ Legacy \in Nat

VARIABLES
    fs,      \* the log, the legacy files and the preserved damage, as seen now
    disk,    \* the values of fs a power loss may leave
    holder,  \* the shell that holds the flock
    sh,      \* per shell: program counter and the state of History and Store
    ghost,   \* what was acknowledged, erased on request, or damaged
    budget

vars == <<fs, disk, holder, sh, ghost, budget>>

Occs == 1 .. MaxOcc
Conditions == {"ok", "short", "zero", "bad", "rot"}
Frame == [id : Occs, occ : Occs, st : Conditions]
Good(i, o) == [id |-> i, occ |-> o, st |-> "ok"]

\* ino 0: the log does not exist.
Log == [ino : Inos \cup {0}, gen : 0 .. MaxGen, hdr : {"ok", "rot"}, frames : Seq(Frame)]
NoLog == [ino |-> 0, gen |-> 0, hdr |-> "ok", frames |-> <<>>]

\* The Store's Cursor. Offsets count frames.
Cursor == [ino : Inos \cup {0}, gen : 0 .. MaxGen, off : Nat, last : 0 .. MaxOcc]
Default == [ino |-> 0, gen |-> 0, off |-> 0, last |-> 0]

Pcs == {"off", "open", "retire", "loading", "salvaging", "idle", "wait", "read", "salvage",
        "write", "fsync", "rollback", "reset", "rename", "dirsync", "apply", "refused"}
Ops == {"load", "sync", "add", "reset", "render"}
Ghost == [acked : SUBSET Occs, erased : SUBSET Occs, damaged : SUBSET Occs, header : BOOLEAN,
          clock : BOOLEAN]

Shell0 == [pc |-> "off", op |-> "load", gen |-> 0, last |-> 0, view |-> <<>>,
           cursor |-> Default, work |-> Default, snap |-> <<>>, snapgen |-> 0,
           pub |-> NoLog, then |-> "idle", fresh |-> 0, salvaged |-> FALSE]

Put(f) == fs' = f /\ disk' = disk \cup {f}
Commit == disk' = {fs} /\ UNCHANGED fs
Spend(b) == budget[b] > 0 /\ budget' = [budget EXCEPT ![b] = @ - 1]
At(p, pc) == sh[p].pc = pc
Goto(p, pc) == sh' = [sh EXCEPT ![p].pc = pc]
\* Between operations nothing but History's and Store's own fields is kept.
Rest(s, pc) == [s EXCEPT !.pc = pc, !.work = Default, !.snap = <<>>, !.snapgen = 0,
                         !.pub = NoLog, !.then = "idle", !.fresh = 0]
\* The lock file is closed: the operation is over.
Unlock(p, pc) ==
    /\ holder' = None
    /\ sh' = [sh EXCEPT ![p] = IF pc = "off" THEN Shell0 ELSE Rest(@, pc)]
\* Where an error leaves the caller of the current operation.
OnError(p) == CASE sh[p].op = "load" -> "refused" [] sh[p].op = "render" -> "off" [] OTHER -> "idle"
-----------------------------------------------------------------------------
(* read_snapshot.                                                          *)

\* The frame at which reading from `off` stops, one past the end if none does,
\* and why: a tail to discard or damage to report.
Stops(fr, i, last) == fr[i].st # "ok" \/ fr[i].id <= last
Stop(fr, off, last) ==
    LET prev(i) == IF i = off + 1 THEN last ELSE fr[i - 1].id
        bad == {i \in off + 1 .. Len(fr) : Stops(fr, i, prev(i))}
    IN  IF bad = {} THEN Len(fr) + 1 ELSE CHOOSE i \in bad : \A j \in bad : i <= j

Torn(fr, i) ==
    \/ fr[i].st = "short"
    \/ fr[i].st = "zero" /\ \A j \in i .. Len(fr) : fr[j].st = "zero"
    \/ fr[i].st = "bad" /\ i = Len(fr)

Outcome(fr, off, last) ==
    LET i == Stop(fr, off, last)
    IN  CASE i > Len(fr)  -> "clean"
          [] i <= Len(fr) /\ Torn(fr, i) -> "torn"
          [] OTHER -> "corrupt"

\* The frames from off + 1 to i - 1 that are new after id `cut`: their ids
\* increase, so they are the last ones.
New(fr, off, i, cut) ==
    LET first == CHOOSE j \in off + 1 .. i : \A k \in off + 1 .. i - 1 : fr[k].id > cut <=> k >= j
    IN  SubSeq(fr, first, i - 1)

\* Mutant: a reused inode number alone keeps the cursor.
RevalidateByInode(p, c) ==
    IF c.ino # fs.log.ino \/ Len(fs.log.frames) < c.off
    THEN [Default EXCEPT !.ino = fs.log.ino, !.gen = fs.log.gen] ELSE c

\* A cursor is kept only for the same file and generation.
Revalidate(p, c) ==
    IF \/ c.ino # fs.log.ino \/ c.gen # fs.log.gen
       \/ Len(fs.log.frames) < c.off \/ sh[p].last < c.last
       \/ sh[p].gen # fs.log.gen
    THEN [Default EXCEPT !.ino = fs.log.ino, !.gen = fs.log.gen] ELSE c

\* The rewritten log of the valid prefix.
Repaired(n) ==
    [fs.log EXCEPT !.frames = SubSeq(@, 1, n), !.gen = @ + 1, !.ino = 0]

CanPublish == fs.log.gen < MaxGen

\* render and salvage read with a fresh cursor and no generation of their own.
Fresh(p) == sh[p].op = "render" \/ At(p, "salvage")

Read(p) ==
    LET c  == Revalidate(p, IF Fresh(p) THEN Default ELSE sh[p].work)
        fr == fs.log.frames
        i  == Stop(fr, c.off, c.last)
        cut == IF ~Fresh(p) /\ sh[p].gen = fs.log.gen THEN sh[p].last ELSE 0
    IN  /\ At(p, "read") \/ At(p, "salvage")
        /\ fs.log.hdr = "ok" /\ fs.log.ino # 0
        /\ \/ /\ Outcome(fr, c.off, c.last) = "clean" /\ ~At(p, "salvage")
              /\ sh' = [sh EXCEPT ![p].pc = IF sh[p].op = "add" THEN "write" ELSE "apply",
                           ![p].work = [c EXCEPT !.off = i - 1,
                                           !.last = IF i = c.off + 1 THEN @ ELSE fr[i - 1].id],
                           ![p].snap = New(fr, c.off, i, cut),
                           ![p].snapgen = fs.log.gen]
              /\ UNCHANGED <<fs, holder>>
           \/ /\ Outcome(fr, c.off, c.last) = "clean" /\ At(p, "salvage")
              /\ Unlock(p, "refused") /\ UNCHANGED fs
           \/ /\ Outcome(fr, c.off, c.last) = "torn" /\ CanPublish
              /\ sh' = [sh EXCEPT ![p].pc = "rename", ![p].pub = Repaired(i - 1),
                                  ![p].work = Default, ![p].then = sh[p].pc]
              /\ UNCHANGED <<fs, holder>>
           \/ /\ Outcome(fr, c.off, c.last) = "corrupt" /\ ~At(p, "salvage")
              /\ Unlock(p, IF sh[p].op = "load" /\ ~sh[p].salvaged THEN "salvaging" ELSE OnError(p))
              /\ UNCHANGED fs
           \/ /\ Outcome(fr, c.off, c.last) = "corrupt" /\ At(p, "salvage") /\ CanPublish
              /\ fs' = [fs EXCEPT !.saved = @ \cup {f.occ : f \in
                              {fr[j] : j \in {k \in i .. Len(fr) : fr[k].st = "ok"}}}]
              /\ sh' = [sh EXCEPT ![p].pc = "rename", ![p].pub = Repaired(i - 1),
                                  ![p].then = "loading", ![p].salvaged = TRUE]
              /\ UNCHANGED holder
        /\ disk' = disk \cup {fs'}
        /\ UNCHANGED <<ghost, budget>>

\* An unreadable header is an error that no repair follows.
HeaderDamaged(p) ==
    /\ At(p, "read") \/ At(p, "salvage")
    /\ fs.log.hdr = "rot"
    /\ Unlock(p, OnError(p))
    /\ UNCHANGED <<fs, disk, ghost, budget>>
-----------------------------------------------------------------------------
(* publish: a synced temporary file, rename, directory sync.               *)

\* Inode numbers of replaced files are handed out again.
Rename(p) ==
    /\ At(p, "rename")
    /\ \E n \in Inos \ {fs.log.ino} :
         Put([fs EXCEPT !.log = [sh[p].pub EXCEPT !.ino = n]])
    /\ Goto(p, "dirsync")
    /\ UNCHANGED <<holder, ghost, budget>>

DirSync(p) ==
    /\ At(p, "dirsync") /\ Commit
    /\ IF sh[p].then = "loading" THEN Unlock(p, "loading")
                                 ELSE Goto(p, sh[p].then) /\ UNCHANGED holder
    /\ UNCHANGED <<ghost, budget>>
-----------------------------------------------------------------------------
(* Store::open with the legacy import, and the steps of load_from.         *)

Lock(p) == holder = None /\ holder' = p

Open(p, op) ==
    /\ At(p, "off") /\ Lock(p) /\ Spend("ops")
    /\ op = "render" => fs.log.ino # 0
    /\ sh' = [sh EXCEPT ![p] = [Shell0 EXCEPT !.pc = IF op = "load" THEN "open" ELSE "read",
                                              !.op = op]]
    /\ UNCHANGED <<fs, disk, ghost>>

\* A missing log is built from the legacy files, ids counted from one.
OpenLog(p) ==
    /\ At(p, "open")
    /\ IF fs.log.ino # 0
       THEN Unlock(p, "loading")
       ELSE /\ sh' = [sh EXCEPT ![p].pc = "rename", ![p].then = "retire",
                 ![p].pub = [NoLog EXCEPT !.frames =
                     [i \in 1 .. Cardinality(fs.legacy) |->
                        Good(i, CHOOSE o \in fs.legacy :
                                  Cardinality({x \in fs.legacy : x < o}) = i - 1)]]]
            /\ UNCHANGED holder
    /\ UNCHANGED <<fs, disk, ghost, budget>>

\* legacy::retire: the text file, then the cache.
Retire(p) ==
    /\ At(p, "retire")
    /\ IF fs.legacy = {} THEN Unlock(p, "loading") /\ UNCHANGED <<fs, disk>>
       ELSE /\ Put([fs EXCEPT !.legacy = @ \ {CHOOSE o \in @ : \A x \in @ : x <= o}])
            /\ UNCHANGED <<sh, holder>>
    /\ UNCHANGED <<ghost, budget>>

\* load_from's sync and salvage take the lock anew.
Relock(p) ==
    /\ Lock(p)
    /\ \/ At(p, "loading") /\ sh' = [sh EXCEPT ![p].pc = "read", ![p].work = sh[p].cursor]
       \/ At(p, "salvaging") /\ Goto(p, "salvage")
    /\ UNCHANGED <<fs, disk, ghost, budget>>
-----------------------------------------------------------------------------
(* sync, add_in_dir and reset of a running shell.                          *)

Begin(p, op) ==
    /\ At(p, "idle") /\ Lock(p) /\ Spend("ops")
    /\ sh' = [sh EXCEPT ![p].pc = IF op = "reset" THEN "reset" ELSE "read", ![p].op = op,
                        ![p].work = sh[p].cursor]
    /\ UNCHANGED <<fs, disk, ghost>>

\* Mutant: the frame is written at the end of the file, over a stale id.
NextIdFromHistory(p) == sh[p].last + 1

\* append numbers the occurrence after the last id it just read.
NextId(p) == sh[p].work.last + 1

\* write_all may stop part way. Until the sync the frame's pages reach the disk
\* in any order: "rot" is a header page still empty under a written payload.
Write(p) ==
    /\ At(p, "write") /\ budget.occ > 0 /\ NextId(p) <= MaxOcc
    /\ budget' = [budget EXCEPT !.occ = @ - 1]
    /\ LET o == MaxOcc - budget.occ + 1
           f(st) == [fs EXCEPT !.log.frames = Append(@, [Good(NextId(p), o) EXCEPT !.st = st])]
       IN  /\ \/ fs' = f("ok") /\ sh' = [sh EXCEPT ![p].pc = "fsync", ![p].fresh = o]
              \/ fs' = f("short") /\ sh' = [sh EXCEPT ![p].pc = "rollback", ![p].fresh = o]
           /\ disk' = disk \cup {f(st) : st \in Conditions}
    /\ UNCHANGED <<holder, ghost>>

\* Mutant: the append is not synced.
FsyncSkipped(p) ==
    /\ At(p, "fsync")
    /\ sh' = [sh EXCEPT ![p].pc = "apply", ![p].snap = Append(@, Good(NextId(p), sh[p].fresh)),
                        ![p].work.off = @ + 1, ![p].work.last = @ + 1]
    /\ UNCHANGED <<fs, disk, holder, ghost, budget>>

Fsync(p) ==
    /\ At(p, "fsync")
    /\ Commit
    /\ sh' = [sh EXCEPT ![p].pc = "apply", ![p].snap = Append(@, Good(NextId(p), sh[p].fresh)),
                        ![p].work.off = @ + 1, ![p].work.last = @ + 1]
    /\ UNCHANGED <<holder, ghost, budget>>

\* set_len back to the cursor and sync; each half may fail.
Rollback(p) ==
    /\ At(p, "rollback")
    /\ \/ /\ fs' = [fs EXCEPT !.log.frames = SubSeq(@, 1, sh[p].work.off)]
          /\ \/ disk' = {fs'} /\ UNCHANGED budget
             \/ disk' = disk \cup {fs'} /\ Spend("fail")
       \/ UNCHANGED <<fs, disk>> /\ Spend("fail")
    /\ Unlock(p, "idle")
    /\ UNCHANGED ghost

\* apply_snapshot, remember_session and the return: the index is cleared when
\* the generation changed, the new occurrences follow. The session's recall list is
\* HistoryIndex's.
ApplySnapshot(p) ==
    /\ At(p, "apply") /\ sh[p].op # "render"
    /\ LET s == sh[p]
           keep == s.snapgen = s.gen
           occ == [i \in DOMAIN s.snap |-> s.snap[i].occ]
           grown == (IF keep THEN s.view ELSE <<>>) \o occ
       IN  sh' = [sh EXCEPT ![p] =
                   [Rest(s, "idle") EXCEPT
                      !.gen = s.snapgen, !.cursor = s.work, !.view = grown,
                      !.last = IF s.snap # <<>> THEN s.snap[Len(s.snap)].id
                               ELSE IF keep THEN @ ELSE 0]]
    /\ holder' = None
    /\ ghost' = IF sh[p].op = "add" THEN [ghost EXCEPT !.acked = @ \cup {sh[p].fresh}] ELSE ghost
    /\ UNCHANGED <<fs, disk, budget>>

\* render: nothing is kept.
Rendered(p) ==
    /\ At(p, "apply") /\ sh[p].op = "render"
    /\ Unlock(p, "off")
    /\ UNCHANGED <<fs, disk, ghost, budget>>

\* Store::reset: a new empty generation; a log with an unreadable header is
\* kept under another name and the clock gives the generation, whatever it is.
\* ghost.clock: it was not a new one.
Reset(p) ==
    LET occ == {f.occ : f \in Range(fs.log.frames)}
    IN  /\ At(p, "reset")
        /\ \E g \in 0 .. MaxGen :
             /\ fs.log.hdr = "ok" => g = fs.log.gen + 1
             /\ sh' = [sh EXCEPT ![p].pc = "rename", ![p].then = "apply",
                         ![p].pub = [NoLog EXCEPT !.gen = g], ![p].snap = <<>>,
                         ![p].snapgen = g, ![p].work = Default]
             /\ ghost' = [ghost EXCEPT !.erased = @ \cup occ, !.clock = @ \/ g <= fs.log.gen]
        /\ fs' = IF fs.log.hdr = "ok" THEN fs ELSE [fs EXCEPT !.saved = @ \cup occ]
        /\ disk' = disk \cup {fs'}
        /\ UNCHANGED <<holder, budget>>
-----------------------------------------------------------------------------
(* Failing calls, crashes, damage.                                         *)

\* Any other failing call ends the operation; the caller keeps its state.
Fail(p) ==
    /\ sh[p].pc \in {"open", "retire", "read", "salvage", "write", "reset", "rename", "dirsync"}
    /\ Spend("fail")
    /\ Unlock(p, OnError(p))
    /\ UNCHANGED <<fs, disk, ghost>>

FsyncFails(p) ==
    /\ At(p, "fsync") /\ Spend("fail")
    /\ Goto(p, "rollback")
    /\ UNCHANGED <<fs, disk, holder, ghost>>

Kill(p) ==
    /\ sh[p].pc \notin {"off", "refused"} /\ Spend("crash")
    /\ holder' = IF holder = p THEN None ELSE holder
    /\ sh' = [sh EXCEPT ![p] = Shell0]
    /\ UNCHANGED <<fs, disk, ghost>>

PowerLoss ==
    /\ Spend("crash")
    /\ \E f \in disk : fs' = f
    /\ disk' = {fs'}
    /\ holder' = None
    /\ sh' = [p \in Shells |-> Shell0]
    /\ UNCHANGED ghost

\* A refused shell exits; the user may start another.
Exit(p) ==
    /\ At(p, "refused") \/ At(p, "idle")
    /\ sh' = [sh EXCEPT ![p] = Shell0]
    /\ UNCHANGED <<fs, disk, holder, ghost, budget>>

\* Stored bytes go bad while no operation runs.
Rot ==
    /\ holder = None /\ fs.log.ino # 0 /\ Spend("rot")
    /\ \/ \E i \in DOMAIN fs.log.frames, st \in {"bad", "rot"} :
            /\ fs.log.frames[i].st = "ok"
            /\ fs' = [fs EXCEPT !.log.frames[i].st = st]
            /\ ghost' = [ghost EXCEPT !.damaged = @ \cup {fs.log.frames[i].occ}]
       \/ /\ fs' = [fs EXCEPT !.log.hdr = "rot"]
          /\ ghost' = [ghost EXCEPT !.header = TRUE]
    /\ disk' = disk \cup {fs'}
    /\ UNCHANGED <<holder, sh>>
-----------------------------------------------------------------------------
Init ==
    /\ fs = [log |-> NoLog, legacy |-> 1 .. Legacy, saved |-> {}]
    /\ disk = {fs}
    /\ holder = None
    /\ sh = [p \in Shells |-> Shell0]
    /\ ghost = [acked |-> 1 .. Legacy, erased |-> {}, damaged |-> {},
               header |-> FALSE, clock |-> FALSE]
    /\ budget = [ops |-> MaxOps, occ |-> MaxOcc - Legacy, fail |-> MaxFail,
                 crash |-> MaxCrash, rot |-> MaxRot]

Step(p) ==
    \/ Read(p) \/ HeaderDamaged(p) \/ Rename(p) \/ DirSync(p)
    \/ OpenLog(p) \/ Retire(p) \/ Write(p) \/ Fsync(p) \/ Rollback(p)
    \/ ApplySnapshot(p) \/ Rendered(p) \/ Reset(p)

Next ==
    \/ \E p \in Shells :
         \/ Step(p) \/ Relock(p) \/ Exit(p) \/ Fail(p) \/ FsyncFails(p) \/ Kill(p)
         \/ \E op \in {"load", "render"} : Open(p, op)
         \/ \E op \in {"sync", "add", "reset"} : Begin(p, op)
    \/ PowerLoss \/ Rot

Spec == Init /\ [][Next]_vars
-----------------------------------------------------------------------------

\* Whatever is killed or fails, an acknowledged occurrence (and every legacy
\* one) is in the log, in a legacy file or in a preserved copy of damage, in
\* every state a power loss can leave, unless the user reset the history, its own
\* bytes went bad, or a clock gave a reset no newer generation than that of the
\* unreadable log (then a stale cursor may fit the new file).
Kept(f) == {fr.occ : fr \in {x \in Range(f.log.frames) : x.st = "ok"}} \cup f.saved \cup f.legacy
AckedSurvives ==
    ~ ghost.clock => \A f \in disk : ghost.acked \subseteq Kept(f) \cup ghost.erased \cup ghost.damaged

\* A shell that knows the log's generation has applied exactly the log's first
\* frames, in order and once each: cursors that survive repairs, rollbacks and
\* reused inode numbers never skip or repeat an occurrence, with the same clock.
ViewExact ==
    ~ ghost.clock => \A p \in Shells :
        LET v == sh[p].view
            fr == fs.log.frames
        IN  sh[p].pc = "idle" /\ sh[p].gen = fs.log.gen /\ fs.log.hdr = "ok" =>
              /\ Len(v) <= Len(fr)
              /\ \A i \in DOMAIN v : v[i] = fr[i].occ
              /\ sh[p].last = (IF v = <<>> THEN 0 ELSE fr[Len(v)].id)

\* The protocol never damages the log itself: as long as no stored byte went
\* bad, every state a crash can leave reads as clean or ends in a torn tail, or
\* stops at the one frame of an append that nobody was told of, with nothing
\* behind it.
NoSelfDamage ==
    budget.rot = MaxRot =>
      \A f \in disk :
        LET fr == f.log.frames
        IN  Outcome(fr, 0, 0) = "corrupt" =>
              Stop(fr, 0, 0) = Len(fr) /\ fr[Len(fr)].st # "ok"
              /\ fr[Len(fr)].occ \notin ghost.acked

=============================================================================
