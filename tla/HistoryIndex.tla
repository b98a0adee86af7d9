----------------------------- MODULE HistoryIndex -----------------------------
(***************************************************************************)
(* The in-memory index of src/history.rs: per-command usage with its       *)
(* shared, tracked and split directory records, the latest-occurrence      *)
(* table, and the session recall list with tombstones.                     *)
(*                                                                         *)
(* `seen` and `recalled` are the plain sequences the index condenses: every *)
(* occurrence applied, and every command remembered, in order. Properties  *)
(* compare what the index answers with what those sequences say.           *)
(***************************************************************************)
EXTENDS Naturals, Sequences, FiniteSets

CONSTANTS
    Cmds,       \* commands
    Dirs,       \* directories, each the sequence of its path components
    NoDir,      \* an occurrence without a directory
    Times,      \* timestamps, which a clock may repeat or turn back
    CompactAt,  \* session length below which tombstones stay (64 in the code)
    MaxOcc      \* bound on occurrences

Removed == "removed"    \* a tombstone

ASSUME IndexAssumption ==
    /\ NoDir \notin Dirs /\ \A d \in Dirs : d \in Seq({d[i] : i \in DOMAIN d})
    /\ MaxOcc \in Nat /\ CompactAt \in Nat /\ Times \subseteq Nat /\ Removed \notin Cmds

VARIABLES usage, latest, session, seen, recalled

vars == <<usage, latest, session, seen, recalled>>

\* Usage; a command not in the index has none.
Use == [count : Nat, time : Nat]
Zero == [count |-> 0, time |-> 0]
Record(u, t) == [count |-> u.count + 1, time |-> IF u.time < t THEN t ELSE u.time]

\* EntryUsage.directories: NONE, one shared code, or DETAILED with what
\* DirectoryDetail holds: the only tracked directory, or one record for each.
None   == [kind |-> "none"]
Shared(d) == [kind |-> "shared", dir |-> d]
Tracked(d, u) == [kind |-> "tracked", dir |-> d, use |-> u]
Many(f) == [kind |-> "many", map |-> f]

Absent == [total |-> Zero, dirs |-> None, latest |-> 0, position |-> 0]
Known(c) == usage[c].latest # 0
-----------------------------------------------------------------------------
(* apply_occurrence.                                                       *)

Put(f, d, t) == [x \in DOMAIN f \cup {d} |->
                    IF x = d THEN Record(IF d \in DOMAIN f THEN f[d] ELSE Zero, t) ELSE f[x]]
Only(d, u) == [x \in {d} |-> u]

\* Mutant: a shared code is split without the totals it stood for.
RecordDirectoryForgetting(u, d, t) ==
    LET r == u.dirs
    IN  CASE r.kind = "none" -> Shared(d)
          [] r.kind = "shared" -> IF r.dir = d THEN r ELSE Many(Put(Only(r.dir, Zero), d, t))
          [] r.kind = "tracked" -> IF r.dir = d THEN Tracked(d, Record(r.use, t))
                                   ELSE Many(Put(Only(r.dir, r.use), d, t))
          [] r.kind = "many" -> Many(Put(r.map, d, t))

\* record_directory, before the totals take the occurrence.
RecordDirectory(u, d, t) ==
    LET r == u.dirs
    IN  CASE r.kind = "none" -> Shared(d)
          [] r.kind = "shared" -> IF r.dir = d THEN r ELSE Many(Put(Only(r.dir, u.total), d, t))
          [] r.kind = "tracked" -> IF r.dir = d THEN Tracked(d, Record(r.use, t))
                                   ELSE Many(Put(Only(r.dir, r.use), d, t))
          [] r.kind = "many" -> Many(Put(r.map, d, t))

\* detach_shared_directory.
DetachSharedDirectory(u) ==
    IF u.dirs.kind = "shared" THEN Tracked(u.dirs.dir, u.total) ELSE u.dirs

\* What is at the positions K of s, in order.
Rank(K, k) == Cardinality({j \in K : j <= k})
Kept(s, K) == [i \in 1 .. Cardinality(K) |-> s[CHOOSE k \in K : Rank(K, k) = i]]

\* forget_latest_occurrence and record_latest_occurrence: ids grow, so the row
\* lands at the end.
MoveRow(c, id) ==
    Append(Kept(latest, {i \in DOMAIN latest : latest[i][1] # usage[c].latest}), <<id, c>>)

Applied(c, d, t, id) ==
    [usage[c] EXCEPT
        !.dirs = IF d = NoDir THEN DetachSharedDirectory(usage[c])
                              ELSE RecordDirectory(usage[c], d, t),
        !.total = Record(@, t),
        !.latest = id]
-----------------------------------------------------------------------------
(* remember_session and compact_session.                                   *)

Live(s) == Kept(s, {i \in DOMAIN s : s[i] # Removed})
Position(s, c) == IF \E i \in DOMAIN s : s[i] = c THEN CHOOSE i \in DOMAIN s : s[i] = c ELSE 0

\* Mutant: a repeated command keeps its older slot.
RememberedTwice(us, c) ==
    LET s == Append(session, c)
        compact == Len(s) > 2 * Len(Live(s)) /\ Len(s) > CompactAt
        final == IF compact THEN Live(s) ELSE s
    IN  [session |-> final, usage |-> [us EXCEPT ![c].position = Len(s)]]

\* The replaced occurrence becomes a tombstone; tombstones are reclaimed, and
\* every position rewritten, once they outnumber the live entries.
Remembered(us, c) ==
    LET s == Append(IF us[c].position # 0 THEN [session EXCEPT ![us[c].position] = Removed]
                                          ELSE session, c)
        compact == Len(s) > 2 * Len(Live(s)) /\ Len(s) > CompactAt
        final == IF compact THEN Live(s) ELSE s
    IN  [session |-> final,
         usage |-> IF compact THEN [x \in Cmds |-> [us[x] EXCEPT !.position = Position(final, x)]]
                   ELSE [us EXCEPT ![c].position = Len(s)]]
-----------------------------------------------------------------------------
(* The operations.                                                         *)

NextId == Len(seen) + 1

\* An occurrence another shell wrote.
Sync(c, d, t) ==
    /\ Len(seen) < MaxOcc
    /\ usage' = [usage EXCEPT ![c] = Applied(c, d, t, NextId)]
    /\ latest' = MoveRow(c, NextId)
    /\ seen' = Append(seen, [cmd |-> c, dir |-> d, time |-> t])
    /\ UNCHANGED <<session, recalled>>

\* add_in_dir: apply, then remember.
Add(c, d, t) ==
    /\ Len(seen) < MaxOcc
    /\ LET r == Remembered([usage EXCEPT ![c] = Applied(c, d, t, NextId)], c)
       IN  usage' = r.usage /\ session' = r.session
    /\ latest' = MoveRow(c, NextId)
    /\ seen' = Append(seen, [cmd |-> c, dir |-> d, time |-> t])
    /\ recalled' = Append(recalled, c)

\* load_from: everything loaded is recalled, in order of last use.
Load ==
    /\ recalled = <<>> /\ latest # <<>>
    /\ session' = [i \in DOMAIN latest |-> latest[i][2]]
    /\ usage' = [c \in Cmds |-> [usage[c] EXCEPT !.position = Position(session', c)]]
    /\ recalled' = session'
    /\ UNCHANGED <<latest, seen>>

\* clear: a reset, or a snapshot of another generation.
Clear ==
    /\ seen # <<>>
    /\ usage' = [c \in Cmds |-> Absent]
    /\ latest' = <<>> /\ session' = <<>> /\ seen' = <<>> /\ recalled' = <<>>

Init ==
    /\ usage = [c \in Cmds |-> Absent]
    /\ latest = <<>> /\ session = <<>> /\ seen = <<>> /\ recalled = <<>>

Next ==
    \/ \E c \in Cmds, d \in Dirs \cup {NoDir}, t \in Times : Sync(c, d, t) \/ Add(c, d, t)
    \/ Load \/ Clear

Spec == Init /\ [][Next]_vars
-----------------------------------------------------------------------------
(* context_usage: the nearest recorded directory at or above cwd.          *)

IsAncestor(d, cwd) == Len(d) <= Len(cwd) /\ SubSeq(cwd, 1, Len(d)) = d
Ancestors(cwd) == {SubSeq(cwd, 1, n) : n \in 0 .. Len(cwd)}
Far == 100    \* usize::MAX: nearer directories score higher

\* Both walks of the code, over the map or over cwd's ancestors.
Nearest(f, cwd) ==
    LET above == IF Cardinality(DOMAIN f) <= Len(cwd) + 1
                 THEN {d \in DOMAIN f : IsAncestor(d, cwd)}
                 ELSE {d \in Ancestors(cwd) : d \in DOMAIN f}
    IN  IF above = {} THEN NoDir ELSE CHOOSE d \in above : \A x \in above : Len(x) <= Len(d)

ContextUsage(c, cwd) ==
    LET u == usage[c]
        r == u.dirs
        one(d, x) == IF IsAncestor(d, cwd) THEN <<Far - (Len(cwd) - Len(d)), x>> ELSE <<0, u.total>>
    IN  CASE r.kind = "none" -> <<0, u.total>>
          [] r.kind = "shared" -> one(r.dir, u.total)
          [] r.kind = "tracked" -> one(r.dir, r.use)
          [] r.kind = "many" ->
               LET d == Nearest(r.map, cwd)
               IN  IF d = NoDir THEN <<0, u.total>> ELSE <<Far - (Len(cwd) - Len(d)), r.map[d]>>
-----------------------------------------------------------------------------
(* Properties.                                                             *)

\* What the occurrences of c in directories D amount to.
Uses(c, D) == {i \in DOMAIN seen : seen[i].cmd = c /\ seen[i].dir \in D}
Amount(I) == [count |-> Cardinality(I),
              time |-> IF I = {} THEN 0
                       ELSE CHOOSE t \in {seen[i].time : i \in I} : \A i \in I : seen[i].time <= t]

\* The ranking context of a command is the usage of the nearest directory it
\* ran in at or above cwd, however its records were shared, tracked or split
\* along the way.
Reference(c, cwd) ==
    LET ran == {seen[i].dir : i \in Uses(c, Dirs)} \cap Ancestors(cwd)
    IN  IF ran = {} THEN <<0, Amount(Uses(c, Dirs \cup {NoDir}))>>
        ELSE LET d == CHOOSE x \in ran : \A y \in ran : Len(y) <= Len(x)
             IN  <<Far - (Len(cwd) - Len(d)), Amount(Uses(c, {d}))>>
FirstHasDirectory(c) ==
    \A i \in DOMAIN seen : seen[i].cmd = c /\ seen[i].dir = NoDir =>
        \E j \in 1 .. i - 1 : seen[j].cmd = c /\ seen[j].dir # NoDir
ContextExact ==
    \A c \in Cmds, cwd \in Dirs : Known(c) /\ FirstHasDirectory(c) => ContextUsage(c, cwd) = Reference(c, cwd)

LastUses == {i \in DOMAIN seen : \A j \in i + 1 .. Len(seen) : seen[j].cmd # seen[i].cmd}

\* Prefix search and Ctrl+R walk each command once, at its last use, newest
\* last: the table is sorted and holds exactly the last occurrences. Up-arrow
\* recall offers each remembered command once, at its last use, in order, through
\* tombstones and compaction, and the tombstones stay bounded by the live entries.
LastRecalls == {i \in DOMAIN recalled : \A j \in i + 1 .. Len(recalled) : recalled[j] # recalled[i]}
RecallExact ==
    LET live == Live(session)
    IN  /\ {latest[i] : i \in DOMAIN latest} = {<<i, seen[i].cmd>> : i \in LastUses}
        /\ \A i, j \in DOMAIN latest : i < j => latest[i][1] < latest[j][1]
        /\ Len(live) = Cardinality(LastRecalls)
        /\ \A i \in LastRecalls : live[Rank(LastRecalls, i)] = recalled[i]
        /\ Len(session) <= 2 * Len(live) \/ Len(session) <= CompactAt
=============================================================================
