------------------------------ MODULE Quarantine ------------------------------
(***************************************************************************)
(* The shared capture-and-retire journal of crates/fdu-posix/src/          *)
(* quarantine.rs: sessions under a flock'ed recovery root, single          *)
(* retirements, replacements, staging entries, restart recovery.           *)
(*                                                                         *)
(* Every directory entry the protocol can move lives in one function `at`  *)
(* from slots to objects: a name of the source parent, the destination     *)
(* name of a publication, or entry <<s, i>> ("i.entry") of session s.      *)
(* `disk` holds every file system state a power loss may expose: a change  *)
(* of the namespace adds the new state, an fsync leaves only the current   *)
(* one (an ordered metadata journal; file contents not synced may tear).   *)
(***************************************************************************)
EXTENDS Naturals, FiniteSets

CONSTANTS
    Procs,      \* processes that open sessions (or inherit one by fork)
    Names,      \* entry names in the source parent directory
    Dst,        \* the destination name of a publication
    Objs,       \* file system objects (device, inode, kind)
    Sess,       \* session directory names drawn by create_session_directory
    Legacy,     \* the sessions written by the v1 format
    MaxId,      \* bound on the per-session entry counter
    None,       \* no object, no slot
    MaxRuns,    \* bound on session starts
    MaxEnv,     \* bound on steps of unrelated processes
    MaxFail,    \* bound on failing system calls and refused authorizations
    MaxCrash    \* bound on kills and power losses

E    == Sess \X (0 .. MaxId)
Slot == Names \cup {Dst} \cup E

ASSUME SlotAssumption ==
    /\ MaxId \in Nat /\ MaxRuns \in Nat /\ MaxEnv \in Nat
    /\ MaxFail \in Nat /\ MaxCrash \in Nat
    /\ Dst \notin Names \cup E
    /\ Names \cap E = {}
    /\ None \notin Objs \cup Slot \cup Sess \cup Procs
    /\ Legacy \subseteq Sess

VARIABLES
    fs,       \* the file system as running processes see it
    disk,     \* the file system states a power loss may leave
    moved,    \* the source parent's path no longer leads to the held directory
    lock,     \* the flock on the recovery root: held flag and open descriptors
    ps,       \* per process: program counter and local state
    budget    \* what is left of the named bounds

vars == <<fs, disk, moved, lock, ps, budget>>

-----------------------------------------------------------------------------
(* Records and file system states.                                         *)

Kinds == {"retire", "replace", "stage"}
Data  == {"cached", "durable", "torn"}
File  == [st : {"none", "pend", "pub"}, data : Data]
NoFile == [st |-> "none", data |-> "durable"]

Intent == [kind : Kinds, name : Slot \cup {None},
           expect : Objs \cup {None}, source : Objs \cup {None}]
NoIntent == [kind |-> "retire", name |-> None, expect |-> None, source |-> None]

FS == [at      : [Slot -> Objs \cup {None}],
       dirs    : SUBSET Sess,        \* session directories in the root
       hdr     : [Sess -> File],
       rec     : [E -> File],        \* pending-i or i.intent
       intent  : [E -> Intent],      \* what the record says
       unborn  : SUBSET Objs,        \* inodes not yet allocated
       dropped : SUBSET Objs,        \* objects their own owners removed
       retired : SUBSET Objs,        \* objects the journal was asked to remove
       displaced : SUBSET Objs]      \* objects a stage took from the destination

\* The rename and exchange primitives on a file system state.
Move(f, a, b) == [f EXCEPT !.at = [@ EXCEPT ![a] = None, ![b] = f.at[a]]]
Swap(f, a, b) == [f EXCEPT !.at = [@ EXCEPT ![a] = f.at[b], ![b] = f.at[a]],
                           !.displaced = IF a \in E THEN @ \cup ({f.at[b]} \ {None}) ELSE @]

\* Unsynced file contents do not survive a power loss.
TearFile(r) == IF r.data = "cached" THEN [r EXCEPT !.data = "torn"] ELSE r
Tear(f) == [f EXCEPT !.hdr = [s \in Sess |-> TearFile(f.hdr[s])],
                     !.rec = [e \in E |-> TearFile(f.rec[e])]]

\* A namespace change that no fsync covers yet, and an fsync.
Put(f)   == fs' = f /\ disk' = disk \cup {f}
Commit   == disk' = {fs} /\ UNCHANGED fs
-----------------------------------------------------------------------------
(* Process state.                                                          *)

\* Program counters whose step is one fsync, with the counter that follows.
SyncNext ==
    [pubsync |-> "published",                          \* publish()
     capP    |-> "capD",    capD   |-> "verify",       \* capture
     rmD     |-> "rmP",     rmP    |-> "clear",        \* after unlink
     rstP    |-> "rstD",    rstD   |-> "rstclr",       \* restore()
     clrsync |-> "settle",                             \* clear_record()
     hdrD    |-> "hdrRoot", hdrRoot |-> "ready",       \* Session::start
     recP    |-> "recD",    recD   |-> "recclr",       \* recover_directory
     recclrD |-> "recdir",
     finD    |-> "rmdir",   finRoot |-> "ended"]       \* finish / recover

\* Every other program counter.
StepPcs == {"idle", "scan", "recdir", "recclr", "mkdir", "hdrwrite", "hdrfsync",
            "hdrrename", "ready", "check", "write", "fsyncrec", "rename",
            "published", "exchange", "swap", "swapcheck", "swapback", "precap",
            "capture", "verify", "preunlink", "unlink", "clear", "rst", "rstclr",
            "fail", "settle", "stagemk", "stagepub", "stagedrop", "rmdir", "ended"}
Pcs == StepPcs \cup DOMAIN SyncNext

Local == [pc : Pcs, owner : Procs \cup {None}, s : Sess \cup {None},
          next : 0 .. MaxId + 1, e : E \cup {None}, intent : Intent,
          captured : BOOLEAN, removed : BOOLEAN,
          verdict : {"none", "removed", "changed", "absent", "error"},
          recoveryRequired : BOOLEAN,
          check : BOOLEAN, recovered : BOOLEAN,
          dst : Objs \cup {None},          \* what Dst held when the call began
          stage : E \cup {None}, staged : BOOLEAN]

Idle == [pc |-> "idle", owner |-> None, s |-> None, next |-> 0, e |-> None,
         intent |-> NoIntent, captured |-> FALSE, removed |-> FALSE,
         verdict |-> "none", recoveryRequired |-> FALSE, check |-> FALSE,
         recovered |-> FALSE, dst |-> None, stage |-> None, staged |-> FALSE]

Budget == [runs : 0 .. MaxRuns, env : 0 .. MaxEnv,
           fail : 0 .. MaxFail, crash : 0 .. MaxCrash]

TypeOK ==
    /\ fs \in FS
    /\ disk \subseteq FS /\ fs \in disk
    /\ moved \in BOOLEAN
    /\ lock \in [held : BOOLEAN, fds : SUBSET Procs]
    /\ ps \in [Procs -> Local]
    /\ budget \in Budget

At(p, pc) == ps[p].pc = pc
Goto(p, pc) == ps' = [ps EXCEPT ![p].pc = pc]
Spend(b) == budget[b] > 0 /\ budget' = [budget EXCEPT ![b] = @ - 1]
Root == <<moved, lock, budget>>

\* The object the caller saw at the name before anything happened.
Before(t) == IF t.kind = "replace" THEN t.source ELSE t.expect

\* Intent::parent and parent_of: the recorded ancestry still leads to the
\* parent. A stage, and an entry displaced inside its session, sit under the
\* locked root itself.
ParentOK(t) == t.name \in Names => ~moved

\* The RootLock's destructor: only the owning process unlocks explicitly; the
\* kernel unlocks when the last descriptor is closed.
Unlock(p) == lock' = [held |-> /\ lock.held
                               /\ ps[p].owner # p
                               /\ lock.fds \ {p} # {},
                      fds  |-> lock.fds \ {p}]
End(p) == Unlock(p) /\ ps' = [ps EXCEPT ![p] = Idle]
-----------------------------------------------------------------------------
(* Session::start and Session::check_recovery.                             *)

\* Mutant: the session does not take the lock.
StartUnlocked(p, checkOnly) ==
    /\ At(p, "idle")
    /\ Spend("runs")
    /\ ps' = [ps EXCEPT ![p] = [Idle EXCEPT !.pc = "scan", !.owner = p, !.check = checkOnly]]
    /\ UNCHANGED <<fs, disk, moved, lock>>

Start(p, checkOnly) ==
    /\ At(p, "idle") /\ ~lock.held
    /\ Spend("runs")
    /\ lock' = [held |-> TRUE, fds |-> {p}]
    /\ ps' = [ps EXCEPT ![p] = [Idle EXCEPT !.pc = "scan", !.owner = p,
                                            !.check = checkOnly]]
    /\ UNCHANGED <<fs, disk, moved>>

\* A trustworthy header; anything else blocks the root for inspection.
HeaderOK(s) == fs.hdr[s].st = "pub" /\ fs.hdr[s].data # "torn"

RecoverEnter(p, s) ==
    /\ At(p, "scan") /\ s \in fs.dirs
    /\ IF HeaderOK(s)
       THEN ps' = [ps EXCEPT ![p].pc = "recdir", ![p].s = s] /\ UNCHANGED lock
       ELSE End(p)
    /\ UNCHANGED <<fs, disk, moved, budget>>

\* All sessions handled: an interrupted deletion asks for a rescan.
ScanDone(p) ==
    /\ At(p, "scan") /\ fs.dirs = {}
    /\ IF ps[p].recovered \/ ps[p].check THEN End(p)
                                         ELSE Goto(p, "mkdir") /\ UNCHANGED lock
    /\ UNCHANGED <<fs, disk, moved, budget>>

MakeSession(p, s) ==
    /\ At(p, "mkdir") /\ s \in Sess \ (fs.dirs \cup Legacy)
    /\ Put([fs EXCEPT !.dirs = @ \cup {s}])
    /\ ps' = [ps EXCEPT ![p].pc = "hdrwrite", ![p].s = s]
    /\ UNCHANGED Root

HeaderWrite(p) ==
    /\ At(p, "hdrwrite")
    /\ Put([fs EXCEPT !.hdr[ps[p].s] = [st |-> "pend", data |-> "cached"]])
    /\ Goto(p, "hdrfsync") /\ UNCHANGED Root

HeaderSync(p) ==
    /\ At(p, "hdrfsync")
    /\ fs' = [fs EXCEPT !.hdr[ps[p].s].data = "durable"]
    /\ disk' = {fs'}
    /\ Goto(p, "hdrrename") /\ UNCHANGED Root

HeaderRename(p) ==
    /\ At(p, "hdrrename")
    /\ Put([fs EXCEPT !.hdr[ps[p].s].st = "pub"])
    /\ Goto(p, "hdrD") /\ UNCHANGED Root
-----------------------------------------------------------------------------
(* recover_directory: one visited name at a time, in any readdir order.    *)

SessionOf(e) == e[1]
Entries(s) == {e \in E : SessionOf(e) = s}

\* pending-i: v2 keeps it for inspection, v1 deletes it.
RecoverPending(p, e) ==
    /\ At(p, "recdir") /\ e \in Entries(ps[p].s) /\ fs.rec[e].st = "pend"
    /\ IF ps[p].s \in Legacy
       THEN /\ fs' = [fs EXCEPT !.rec[e] = NoFile, !.intent[e] = NoIntent]
            /\ disk' = {fs'}
            /\ UNCHANGED <<lock, ps>>
       ELSE End(p) /\ UNCHANGED <<fs, disk>>
    /\ UNCHANGED <<moved, budget>>

\* i.entry without i.intent is not ours to interpret.
RecoverUnknown(p, e) ==
    /\ At(p, "recdir") /\ e \in Entries(ps[p].s)
    /\ fs.at[e] # None /\ fs.rec[e].st # "pub"
    /\ End(p)
    /\ UNCHANGED <<fs, disk, moved, budget>>

\* The captured object may go back: it is the recorded one and the name is free.
Restorable(e) ==
    LET t == fs.intent[e]
    IN  /\ t.kind # "stage"
        /\ SessionOf(e) \notin Legacy => fs.at[e] = t.expect
        /\ fs.at[t.name] = None

\* i.intent: restore a capture, or clear the record of an absent one.
RecoverRecord(p, e) ==
    LET t == fs.intent[e]
    IN  /\ At(p, "recdir") /\ e \in Entries(ps[p].s) /\ fs.rec[e].st = "pub"
        /\ \/ /\ fs.rec[e].data # "torn" /\ ParentOK(t)
              /\ \/ fs.at[e] # None /\ Restorable(e) /\ Put(Move(fs, e, t.name))
                 \/ /\ fs.at[e] = None
                    /\ t.kind = "replace" => fs.at[t.name] = t.source
                    /\ UNCHANGED <<fs, disk>>
              /\ ps' = [ps EXCEPT ![p].pc = "recP", ![p].e = e]
              /\ UNCHANGED lock
           \/ /\ \/ fs.rec[e].data = "torn"
                 \/ ~ParentOK(t)
                 \/ fs.at[e] # None /\ ~Restorable(e)
                 \/ fs.at[e] = None /\ t.kind = "replace" /\ fs.at[t.name] # t.source
              /\ End(p) /\ UNCHANGED <<fs, disk>>
        /\ UNCHANGED <<moved, budget>>

RecoverClear(p) ==
    /\ At(p, "recclr")
    /\ Put([fs EXCEPT !.rec[ps[p].e] = NoFile, !.intent[ps[p].e] = NoIntent])
    /\ Goto(p, "recclrD") /\ UNCHANGED Root
-----------------------------------------------------------------------------
(* The end of a session: Session::finish and the tail of recover.          *)

RequireOwner(p) == ps[p].owner = p
Empty(s) == \A e \in Entries(s) : fs.at[e] = None /\ fs.rec[e].st = "none"

\* recover removes the header once every name was visited; an entry restored
\* behind the iterator may still be there.
RemoveHeader(p) ==
    LET s == ps[p].s
    IN  /\ \/ /\ At(p, "recdir") /\ \A e \in Entries(s) : fs.rec[e].st = "none"
              /\ ps' = [ps EXCEPT ![p].pc = "finD", ![p].recovered = TRUE]
           \/ At(p, "ready") /\ RequireOwner(p) /\ Empty(s) /\ Goto(p, "finD")
        /\ Put([fs EXCEPT !.hdr[s] = NoFile])
        /\ UNCHANGED Root

RemoveDirectory(p) ==
    /\ At(p, "rmdir")
    /\ IF Empty(ps[p].s)
       THEN /\ Put([fs EXCEPT !.dirs = @ \ {ps[p].s}])
            /\ Goto(p, "finRoot") /\ UNCHANGED lock
       ELSE End(p) /\ UNCHANGED <<fs, disk>>
    /\ UNCHANGED <<moved, budget>>

Ended(p) ==
    /\ At(p, "ended")
    /\ IF ps[p].recovered
       THEN ps' = [ps EXCEPT ![p].pc = "scan", ![p].s = None] /\ UNCHANGED lock
       ELSE End(p)
    /\ UNCHANGED <<fs, disk, moved, budget>>

\* A session value dropped without finish(): its directory stays behind.
Drop(p) ==
    /\ At(p, "ready")
    /\ End(p)
    /\ UNCHANGED <<fs, disk, moved, budget>>
-----------------------------------------------------------------------------
(* remove and remove_after_publication.                                    *)

\* fetch_add on the session counter, whatever becomes of the request.
Request(p, t) ==
    /\ At(p, "ready") /\ RequireOwner(p) /\ ps[p].next <= MaxId
    /\ LET e == <<ps[p].s, ps[p].next>>
       IN  ps' = [ps EXCEPT ![p] =
                   [ps[p] EXCEPT !.pc = IF t.kind = "stage" THEN "write" ELSE "check",
                                 !.e = e, !.next = ps[p].next + 1, !.intent = t,
                                 !.captured = FALSE, !.removed = FALSE, !.verdict = "none",
                                 !.dst = fs.at[Dst],
                                 !.stage = IF t.kind = "stage" THEN e ELSE ps[p].stage]]
    /\ UNCHANGED <<fs, disk>> /\ UNCHANGED Root

Remove(p, n) ==
    /\ fs.at[n] # None /\ ps[p].stage = None
    /\ Request(p, [NoIntent EXCEPT !.name = n, !.expect = fs.at[n]])

RemoveAfterPublication(p, n) ==
    /\ fs.at[n] # None /\ fs.at[Dst] # None /\ ps[p].stage = None
    /\ Request(p, [kind |-> "replace", name |-> n,
                   expect |-> fs.at[Dst], source |-> fs.at[n]])

\* What the parent holds now decides: absent, changed, or journal it.
Check(p) ==
    LET t == ps[p].intent
        found == fs.at[t.name]
    IN  /\ At(p, "check")
        /\ \/ ~ParentOK(t) /\ Goto(p, "fail")
           \/ /\ ParentOK(t) /\ found # Before(t)
              /\ ps' = [ps EXCEPT ![p].pc = "settle",
                          ![p].verdict = IF found = None THEN "absent" ELSE "changed"]
           \/ ParentOK(t) /\ found = Before(t) /\ Goto(p, "write")
        /\ UNCHANGED <<fs, disk>> /\ UNCHANGED Root

WritePending(p) ==
    /\ At(p, "write")
    /\ Put([fs EXCEPT !.rec[ps[p].e] = [st |-> "pend", data |-> "cached"],
                      !.intent[ps[p].e] = ps[p].intent])
    /\ Goto(p, "fsyncrec") /\ UNCHANGED Root

\* Mutant: the record's bytes are not synced before it is renamed.
SyncRecordSkipped(p) ==
    /\ At(p, "fsyncrec")
    /\ Goto(p, "rename") /\ UNCHANGED <<fs, disk>> /\ UNCHANGED Root

SyncRecord(p) ==
    /\ At(p, "fsyncrec")
    /\ fs' = [fs EXCEPT !.rec[ps[p].e].data = "durable"]
    /\ disk' = {fs'}
    /\ Goto(p, "rename") /\ UNCHANGED Root

PublishRecord(p) ==
    /\ At(p, "rename")
    /\ Put([fs EXCEPT !.rec[ps[p].e].st = "pub"])
    /\ Goto(p, "pubsync") /\ UNCHANGED Root

\* IntentPublished: a replacement re-reads its source before it publishes.
Published(p) ==
    LET t == ps[p].intent
    IN  /\ At(p, "published")
        /\ Goto(p, CASE t.kind = "stage"   -> "stagemk"
                     [] t.kind = "replace" ->
                          IF fs.at[t.name] = t.source THEN "exchange" ELSE "fail"
                     [] t.kind = "retire"  -> "precap")
        /\ UNCHANGED <<fs, disk>> /\ UNCHANGED Root

\* publish_entry: both names must still hold what the caller observed.
Exchange(p) ==
    LET t == ps[p].intent
    IN  /\ At(p, "exchange")
        /\ Goto(p, IF fs.at[Dst] = t.expect /\ fs.at[t.name] = t.source THEN "swap" ELSE "fail")
        /\ UNCHANGED <<fs, disk>> /\ UNCHANGED Root

\* replace_by_exchange: the new object's name and where a failure leads.
Outgoing(p) == IF ps[p].intent.kind = "stage" THEN ps[p].e ELSE ps[p].intent.name
NotPublished(p) == IF ps[p].intent.kind = "stage" THEN "stagedrop" ELSE "fail"

\* rename_exchange, forwards and, when it displaced a stranger, back again.
RenameExchange(p) ==
    LET n == Outgoing(p)
        ok == fs.at[n] # None /\ fs.at[Dst] # None
    IN  /\ At(p, "swap") \/ At(p, "swapback")
        /\ IF ok THEN Put(Swap(fs, n, Dst)) ELSE UNCHANGED <<fs, disk>>
        /\ Goto(p, IF ok /\ At(p, "swap") THEN "swapcheck" ELSE NotPublished(p))
        /\ UNCHANGED Root

\* The displaced object must be the observed one. A stage's displaced object
\* then goes through a retirement of its own inside the same session.
ExchangeCheck(p) ==
    LET t == ps[p].intent
        n == Outgoing(p)
    IN  /\ At(p, "swapcheck")
        /\ \/ fs.at[n] # ps[p].dst /\ Goto(p, "swapback")
           \/ /\ fs.at[n] = ps[p].dst /\ t.kind # "stage"
              /\ Goto(p, IF fs.at[Dst] = t.source THEN "precap" ELSE "fail")
           \/ /\ fs.at[n] = ps[p].dst /\ t.kind = "stage"
              /\ ps' = [ps EXCEPT ![p].pc = "check", ![p].staged = TRUE,
                           ![p].e = <<ps[p].s, ps[p].next>>, ![p].next = @ + 1,
                           ![p].intent = [NoIntent EXCEPT !.name = n, !.expect = ps[p].dst]]
        /\ UNCHANGED <<fs, disk>> /\ UNCHANGED Root

PreCapture(p) ==
    /\ At(p, "precap")
    /\ Goto(p, IF ParentOK(ps[p].intent) THEN "capture" ELSE "fail")
    /\ UNCHANGED <<fs, disk>> /\ UNCHANGED Root

\* rename into the session through the held parent descriptor.
Capture(p) ==
    LET t == ps[p].intent
    IN  /\ At(p, "capture")
        /\ IF fs.at[t.name] # None
           THEN /\ Put(Move(fs, t.name, ps[p].e))
                /\ ps' = [ps EXCEPT ![p].pc = "capP", ![p].captured = TRUE]
           ELSE UNCHANGED <<fs, disk>> /\ Goto(p, "fail")
        /\ UNCHANGED Root

\* The captured object must be the expected one; otherwise put it back.
Verify(p) ==
    LET t == ps[p].intent
    IN  /\ At(p, "verify")
        /\ \/ fs.at[ps[p].e] = t.expect /\ Goto(p, "preunlink")
           \/ /\ fs.at[ps[p].e] # t.expect
              /\ \/ ParentOK(t) /\ ps' = [ps EXCEPT ![p].pc = "rst", ![p].verdict = "changed"]
                 \/ ~ParentOK(t) /\ Goto(p, "fail")
        /\ UNCHANGED <<fs, disk>> /\ UNCHANGED Root

PreUnlink(p) ==
    LET t == ps[p].intent
    IN  /\ At(p, "preunlink")
        /\ Goto(p, IF ParentOK(t) /\ fs.at[ps[p].e] = t.expect THEN "unlink" ELSE "fail")
        /\ UNCHANGED <<fs, disk>> /\ UNCHANGED Root

\* Mutant: the record goes with the capture and nothing is synced.
UnlinkUnsynced(p) ==
    /\ At(p, "unlink")
    /\ Put([fs EXCEPT !.at[ps[p].e] = None, !.retired = @ \cup {ps[p].intent.expect},
                      !.rec[ps[p].e] = NoFile, !.intent[ps[p].e] = NoIntent])
    /\ ps' = [ps EXCEPT ![p].pc = "settle", ![p].removed = TRUE, ![p].verdict = "removed"]
    /\ UNCHANGED Root

Unlink(p) ==
    /\ At(p, "unlink")
    /\ Put([fs EXCEPT !.at[ps[p].e] = None, !.retired = @ \cup {ps[p].intent.expect}])
    /\ ps' = [ps EXCEPT ![p].pc = "rmD", ![p].removed = TRUE]
    /\ UNCHANGED Root

\* clear_record, after a removal ("clear"), a restoration ("rstclr").
ClearRecord(p) ==
    /\ At(p, "clear") \/ At(p, "rstclr")
    /\ Put([fs EXCEPT !.rec[ps[p].e] = NoFile, !.intent[ps[p].e] = NoIntent])
    /\ ps' = [ps EXCEPT ![p].pc = "clrsync",
                        ![p].verdict = IF @ = "none" /\ ps[p].removed THEN "removed" ELSE @]
    /\ UNCHANGED Root

\* Mutant: the rename back replaces a live name.
RestoreReplacing(p) ==
    /\ At(p, "rst") /\ fs.at[ps[p].e] # None
    /\ Put(Move(fs, ps[p].e, ps[p].intent.name)) /\ Goto(p, "rstP") /\ UNCHANGED Root

\* restore: rename back without replacing a live name.
Restore(p) ==
    LET t == ps[p].intent
        ok == fs.at[ps[p].e] # None /\ fs.at[t.name] = None
    IN  /\ At(p, "rst")
        /\ \/ ok /\ Put(Move(fs, ps[p].e, t.name)) /\ Goto(p, "rstP")
           \/ /\ ~ok /\ UNCHANGED <<fs, disk>>
              /\ Goto(p, IF ps[p].verdict = "changed" THEN "fail" ELSE "settle")
        /\ UNCHANGED Root

\* The error arm: restore a capture, or clear a record nothing depends on.
Failed(p) ==
    LET t == ps[p].intent
        clean == /\ ~ps[p].captured /\ ~ps[p].removed
                 /\ t.kind = "replace" => fs.at[t.name] = t.source
                 /\ fs.rec[ps[p].e].st = "pub"
    IN  /\ At(p, "fail")
        /\ ps' = [ps EXCEPT ![p].verdict = "error",
                    ![p].pc = CASE ps[p].captured /\ ~ps[p].removed /\ ParentOK(t) -> "rst"
                                [] clean -> "clear"
                                [] OTHER -> "settle"]
        /\ UNCHANGED <<fs, disk>> /\ UNCHANGED Root

\* The call returns; a record left behind is flagged to the caller, and a
\* stage whose displaced entry is settled goes on to clear its own record.
Settle(p) ==
    LET left == fs.rec[ps[p].e].st # "none"
    IN  /\ At(p, "settle")
        /\ ps' = [ps EXCEPT
                    ![p].pc = IF ps[p].stage # None /\ ps[p].intent.kind # "stage"
                              THEN "stagedrop" ELSE "ready",
                    ![p].recoveryRequired = IF left THEN TRUE ELSE @]
        /\ UNCHANGED <<fs, disk>> /\ UNCHANGED Root
-----------------------------------------------------------------------------
(* Staging entries: register_stage, the transfer's Stage, clear_stage.     *)

\* new_stage: a session of its own, whose first entry is the stage.
RegisterStage(p) ==
    /\ ps[p].stage = None /\ ps[p].next = 0
    /\ fs.at[Dst] # None => MaxId > 0
    /\ Request(p, [NoIntent EXCEPT !.kind = "stage"])

\* The copy is built at its registered entry name.
StageCreate(p) ==
    /\ At(p, "stagemk")
    /\ \E o \in fs.unborn :
         /\ Put([fs EXCEPT !.at[ps[p].e] = o, !.unborn = @ \ {o}])
         /\ ps' = [ps EXCEPT ![p].pc = "stagepub", ![p].intent.source = o]
    /\ UNCHANGED Root

\* Publication: an exchange with the observed destination, or a rename that
\* refuses to replace one.
StagePublish(p) ==
    /\ At(p, "stagepub")
    /\ \/ ps[p].dst # None /\ Goto(p, "swap") /\ UNCHANGED <<fs, disk>>
       \/ /\ ps[p].dst = None /\ fs.at[Dst] = None
          /\ Put(Move(fs, ps[p].e, Dst))
          /\ ps' = [ps EXCEPT ![p].pc = "stagedrop", ![p].staged = TRUE]
       \/ /\ ps[p].dst = None /\ fs.at[Dst] # None
          /\ Goto(p, "stagedrop") /\ UNCHANGED <<fs, disk>>
    /\ UNCHANGED Root

\* Stage::drop and clear_stage: a published stage that is still occupied, and
\* an unpublished one that is not the stage's own copy, are left for recovery;
\* an unpublished copy is deleted and the record goes with it.
StageDrop(p) ==
    LET e == ps[p].stage
        held == fs.at[e]
        foreign == held # None /\ (ps[p].staged \/ held # ps[p].intent.source)
    IN  /\ At(p, "stagedrop")
        /\ \/ foreign /\ End(p) /\ UNCHANGED <<fs, disk, moved, budget>>
           \/ /\ ~foreign
              /\ Put([fs EXCEPT !.at[e] = None, !.dropped = @ \cup ({held} \ {None})])
              /\ ps' = [ps EXCEPT ![p].pc = "clear", ![p].e = e, ![p].staged = FALSE,
                           ![p].intent = [NoIntent EXCEPT !.kind = "stage"],
                           ![p].removed = FALSE, ![p].captured = FALSE,
                           ![p].verdict = "none"]
              /\ UNCHANGED Root
-----------------------------------------------------------------------------
(* Synchronization, failing calls, other processes, crashes.               *)

Sync(p) ==
    /\ ps[p].pc \in DOMAIN SyncNext
    /\ Commit
    /\ Goto(p, SyncNext[ps[p].pc])
    /\ UNCHANGED Root

\* Where a failing system call or a refused authorization leads: out of
\* recovery and session creation, into the removal's error arm, or, once
\* that arm is running, to its end.
RemovalPcs == {"check", "write", "fsyncrec", "rename", "pubsync", "published",
               "exchange", "swap", "swapcheck", "swapback", "precap", "capture", "capP", "capD", "verify",
               "preunlink", "unlink", "rmD", "rmP", "clear", "clrsync",
               "rst", "rstP", "rstD", "rstclr"}
SessionPcs == {"scan", "recdir", "recP", "recD", "recclr", "recclrD", "mkdir",
               "hdrwrite", "hdrfsync", "hdrrename", "hdrD", "hdrRoot",
               "finD", "rmdir", "finRoot"}

Fail(p) ==
    /\ Spend("fail")
    /\ \/ /\ \/ ps[p].pc \in SessionPcs \cup {"stagedrop"}
             \/ ps[p].pc \in RemovalPcs \ {"swap", "swapcheck", "swapback"} /\ ps[p].intent.kind = "stage"
          /\ End(p)
       \/ /\ ps[p].pc \in RemovalPcs /\ ps[p].intent.kind # "stage"
          /\ Goto(p, IF ps[p].verdict = "error" THEN "settle" ELSE "fail")
          /\ UNCHANGED lock
       \/ /\ \/ ps[p].pc \in {"stagemk", "stagepub"}
             \/ ps[p].pc \in {"swap", "swapback"} /\ ps[p].intent.kind = "stage"
          /\ Goto(p, "stagedrop")
          /\ UNCHANGED lock
    /\ UNCHANGED <<fs, disk, moved>>

\* A child process inherits the session value and the lock's descriptor.
Fork(p, c) ==
    /\ At(p, "ready") /\ RequireOwner(p) /\ At(c, "idle")
    /\ Spend("runs")
    /\ ps' = [ps EXCEPT ![c] = ps[p]]
    /\ lock' = [lock EXCEPT !.fds = @ \cup {c}]
    /\ UNCHANGED <<fs, disk, moved>>

\* Unrelated processes create, replace, remove and rename entries and move
\* the parent directory's path away and back.
EnvSlots == Names \cup {Dst}
EnvCreate(n, o) ==
    /\ o \in fs.unborn
    /\ Put([fs EXCEPT !.at[n] = o, !.unborn = @ \ {o},
                      !.dropped = @ \cup ({fs.at[n]} \ {None})])
EnvUnlink(n) ==
    /\ fs.at[n] # None
    /\ Put([fs EXCEPT !.at[n] = None, !.dropped = @ \cup {fs.at[n]}])
EnvRename(n, m) ==
    /\ fs.at[n] # None /\ fs.at[m] = None
    /\ Put(Move(fs, n, m))

Env ==
    /\ Spend("env")
    /\ \/ /\ \/ \E n \in EnvSlots, o \in Objs : EnvCreate(n, o)
             \/ \E n \in EnvSlots : EnvUnlink(n)
             \/ \E n, m \in EnvSlots : EnvRename(n, m)
          /\ UNCHANGED moved
       \/ moved' = ~moved /\ UNCHANGED <<fs, disk>>
    /\ UNCHANGED <<lock, ps>>

Kill(p) ==
    /\ ~At(p, "idle") /\ Spend("crash")
    /\ lock' = [held |-> lock.held /\ lock.fds \ {p} # {}, fds |-> lock.fds \ {p}]
    /\ ps' = [ps EXCEPT ![p] = Idle]
    /\ UNCHANGED <<fs, disk, moved>>

PowerLoss ==
    /\ Spend("crash")
    /\ \E f \in disk : fs' = Tear(f)
    /\ disk' = {fs'}
    /\ lock' = [held |-> FALSE, fds |-> {}]
    /\ ps' = [p \in Procs |-> Idle]
    /\ UNCHANGED moved
-----------------------------------------------------------------------------
(* The specification. Legacy sessions may be on disk from the start: one   *)
(* captured object with its v1 record, or one unpublished v1 record.       *)

LegacySlots == Legacy \X {0}

Init ==
    /\ \E at0 \in [EnvSlots \cup LegacySlots -> Objs \cup {None}],
          old \in [LegacySlots -> Names] :
         /\ \A a, b \in DOMAIN at0 : at0[a] = at0[b] /\ a # b => at0[a] = None
         /\ fs = [at |-> [x \in Slot |-> IF x \in DOMAIN at0 THEN at0[x] ELSE None],
                  dirs |-> Legacy,
                  hdr |-> [s \in Sess |-> IF s \in Legacy THEN [st |-> "pub", data |-> "durable"]
                                                          ELSE NoFile],
                  rec |-> [e \in E |-> IF e \in LegacySlots
                                       THEN [st |-> IF at0[e] = None THEN "pend" ELSE "pub",
                                             data |-> "durable"]
                                       ELSE NoFile],
                  intent |-> [e \in E |-> IF e \in LegacySlots
                                          THEN [NoIntent EXCEPT !.name = old[e]] ELSE NoIntent],
                  unborn |-> Objs \ {at0[x] : x \in DOMAIN at0},
                  dropped |-> {}, retired |-> {}, displaced |-> {}]
    /\ disk = {fs}
    /\ moved = FALSE
    /\ lock = [held |-> FALSE, fds |-> {}]
    /\ ps = [p \in Procs |-> Idle]
    /\ budget = [runs |-> MaxRuns, env |-> MaxEnv, fail |-> MaxFail, crash |-> MaxCrash]

Session(p) ==
    \/ \E c \in BOOLEAN : Start(p, c)
    \/ \E s \in Sess : RecoverEnter(p, s) \/ MakeSession(p, s)
    \/ ScanDone(p) \/ HeaderWrite(p) \/ HeaderSync(p) \/ HeaderRename(p)
    \/ \E e \in E : RecoverPending(p, e) \/ RecoverUnknown(p, e) \/ RecoverRecord(p, e)
    \/ RecoverClear(p)
    \/ RemoveHeader(p) \/ RemoveDirectory(p) \/ Ended(p) \/ Drop(p)
    \/ Sync(p) \/ Fail(p)
    \/ \E c \in Procs : Fork(p, c)

Removal(p) ==
    \/ \E n \in Names : Remove(p, n) \/ RemoveAfterPublication(p, n)
    \/ RegisterStage(p) \/ StageCreate(p) \/ StagePublish(p) \/ StageDrop(p)
    \/ Check(p) \/ WritePending(p) \/ SyncRecord(p) \/ PublishRecord(p) \/ Published(p)
    \/ Exchange(p) \/ RenameExchange(p) \/ ExchangeCheck(p) \/ PreCapture(p) \/ Capture(p) \/ Verify(p) \/ PreUnlink(p)
    \/ Unlink(p) \/ ClearRecord(p) \/ Restore(p) \/ Failed(p) \/ Settle(p)

Next == (\E p \in Procs : Session(p) \/ Removal(p) \/ Kill(p)) \/ Env \/ PowerLoss

Spec == Init /\ [][Next]_vars
-----------------------------------------------------------------------------
(* Safety.                                                                 *)

\* No object disappears: in every state a crash can expose, each object is at
\* some name, was removed by its owner, or was retired by a request for exactly
\* that object (the identity checks of remove_with_publication and recover).
Located(f) == {f.at[x] : x \in Slot} \ {None}
NothingLost == \A f \in disk : Objs \subseteq Located(f) \cup f.unborn \cup f.dropped \cup f.retired

Recorded(f, e) ==
    /\ SessionOf(e) \in f.dirs
    /\ f.hdr[SessionOf(e)].st = "pub" /\ f.hdr[SessionOf(e)].data = "durable"
    /\ f.rec[e].st = "pub" /\ f.rec[e].data = "durable"
CapturesRecorded ==
    \A f \in disk : \A e \in E : f.at[e] # None /\ f.at[e] \notin f.displaced => Recorded(f, e)

\* Whatever the crash, a captured object sits in a listed session directory
\* under a published, untorn record (intent before capture, capture before
\* record removal) and a valid header; and as long as no other process
\* interfered, recovery can put it back: it is the recorded object and its name
\* is free (the record names the displaced object, not the publication's
\* source). Left out: what a replacing transfer took from its destination, and
\* for the second half the captures of the v1 format.
Recoverable ==
    /\ CapturesRecorded
    /\ budget.env = MaxEnv =>
        \A f \in disk : \A e \in E :
            f.at[e] # None /\ f.intent[e].kind # "stage" /\ SessionOf(e) \notin Legacy /\ f.at[e] \notin f.displaced
            => f.at[e] = f.intent[e].expect /\ f.at[f.intent[e].name] = None

\* A removal acknowledged as done cannot be undone by a crash: no exposable
\* state still holds the object, so recovery cannot bring it back.
Acked == {ps[p].intent.expect : p \in {q \in Procs : ps[q].verdict = "removed" /\ At(q, "ready")}}

\* Even after a crash at most one session directory of the current format is in
\* the root, and at most one process owns a session or a recovery (nonblocking
\* flock, recovery before creation, a fork child that never unlocks).
OneSession ==
    /\ \A f \in disk : \A s, t \in f.dirs \ Legacy : s = t
    /\ \A p, q \in Procs : ps[p].owner = p /\ ps[q].owner = q => p = q

\* The error's `removed` flag tells the truth about the expected object, and a
\* session with an unresolved retirement says so between calls: the deleter stops
\* on that flag. A removal acknowledged as done cannot be undone by a crash: no
\* exposable state still holds the object.
TruthfulReport ==
    /\ \A f \in disk : Acked \subseteq f.retired
    /\ \A p \in Procs : At(p, "ready") /\ RequireOwner(p) =>
         /\ ps[p].verdict # "none" /\ ps[p].intent.expect # None
            => (ps[p].removed <=> ps[p].intent.expect \in fs.retired)
         /\ (\E e \in Entries(ps[p].s) : fs.rec[e].st # "none") => ps[p].recoveryRequired

-----------------------------------------------------------------------------
(* The inductive invariant behind OneSession (QuarantineProofs).           *)

\* Program counters of a call on one entry; those of a retirement; those of a
\* stage up to its publication.
RetirePcs == {"check", "exchange", "precap", "capture", "capP", "capD", "verify",
              "preunlink", "unlink", "rmD", "rmP", "rst", "rstP", "rstD", "rstclr", "fail"}
ExchangePcs == {"swap", "swapcheck", "swapback"}
StagePcs == {"write", "fsyncrec", "rename", "pubsync", "published", "stagemk", "stagepub"}
EntryPcs == RetirePcs \cup ExchangePcs \cup StagePcs \cup {"clear", "clrsync", "settle", "stagedrop"}

\* What the local state l of process p satisfies beyond its type.
WellFormed(p, l) ==
    /\ l.pc \notin {"idle", "ready"} => l.owner = p
    /\ l.pc \notin {"idle", "scan", "mkdir"} => l.s \in Sess
    /\ l.pc \in EntryPcs \cup {"recP", "recD", "recclr"} => l.e \in E
    /\ l.pc \in RetirePcs => l.intent.kind # "stage"
    /\ l.pc \in EntryPcs /\ l.intent.kind # "stage" =>
          l.intent.name \in Slot /\ l.intent.expect \in Objs
    /\ l.pc \in EntryPcs /\ l.intent.kind = "stage" => l.stage \in E
    /\ l.pc \in {"stagemk", "stagepub"} => l.intent.kind = "stage"
    /\ l.pc = "exchange" => l.intent.kind = "replace"
    /\ l.pc \in EntryPcs /\ l.intent.kind = "replace" => l.dst \in Objs
    /\ l.pc = "stagedrop" => l.stage \in E
    /\ l.pc \in ExchangePcs => l.dst \in Objs
    /\ l.pc \in StagePcs \cup ExchangePcs /\ l.intent.kind = "stage" /\ l.dst # None =>
          l.next <= MaxId

LockInv ==
    /\ \A p \in Procs : ps[p].owner = p => lock.held /\ p \in lock.fds
    /\ \A p \in Procs : ps[p].pc = "mkdir" => fs.dirs = {}

IInv ==
    /\ TypeOK
    /\ \A p \in Procs : WellFormed(p, ps[p])
    /\ LockInv
    /\ OneSession
=============================================================================
