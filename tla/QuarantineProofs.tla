--------------------------- MODULE QuarantineProofs ---------------------------
(***************************************************************************)
(* The quarantine journal for every value of its constants: types, at most *)
(* one session, and then NothingLost, Recoverable and TruthfulReport from  *)
(* what each file system state a crash can expose satisfies by itself and  *)
(* what the owner of the session knows of the current one.                 *)
(***************************************************************************)
EXTENDS Quarantine, TLAPS

LEMMA SlotFacts ==
    /\ E \subseteq Slot /\ Names \subseteq Slot /\ Dst \in Slot
    /\ Legacy \subseteq Sess
    /\ None \notin Slot /\ None \notin Procs
  BY SlotAssumption DEF Slot

LEMMA MoveType ==
    ASSUME NEW f \in FS, NEW a \in Slot, NEW b
    PROVE  /\ Move(f, a, b) \in FS /\ Move(f, a, b).dirs = f.dirs
           /\ b \in Slot => Swap(f, a, b) \in FS
           /\ Swap(f, a, b).dirs = f.dirs
  BY DEF FS, Move, Swap

LEMMA IdleType == Idle \in Local
  <1>1. NoIntent \in Intent
    BY DEF NoIntent, Intent, Kinds
  <1>2. 0 \in 0 .. MaxId + 1
    BY SlotAssumption
  <1>3. "idle" \in Pcs
    BY DEF Pcs, StepPcs
  <1>. QED  BY <1>1, <1>2, <1>3 DEF Idle, Local

LEMMA PcFacts ==
    /\ StepPcs \subseteq Pcs
    /\ \A x \in DOMAIN SyncNext : SyncNext[x] \in Pcs
    /\ {"pubsync", "capP", "capD", "rmD", "rmP", "rstP", "rstD", "clrsync", "hdrD",
        "recP", "recclrD", "finD", "finRoot"} \subseteq Pcs
  BY DEF Pcs, StepPcs, SyncNext

LEMMA NoFileType == NoFile \in File /\ NoIntent \in Intent
  BY DEF NoFile, File, Data, NoIntent, Intent, Kinds

\* Record and header updates keep a file system state well typed.
LEMMA RecordTypes ==
    ASSUME NEW f \in FS, NEW e \in E, NEW st \in {"none", "pend", "pub"}
    PROVE  /\ [f EXCEPT !.rec[e].data = "durable"] \in FS
           /\ [f EXCEPT !.rec[e].st = st] \in FS
           /\ [f EXCEPT !.rec[e].data = "durable"].dirs = f.dirs
           /\ [f EXCEPT !.rec[e].st = st].dirs = f.dirs
  <1>1. [f.rec[e] EXCEPT !.data = "durable"] \in File /\ [f.rec[e] EXCEPT !.st = st] \in File
    BY DEF FS, File, Data
  <1>2. [f EXCEPT !.rec[e].data = "durable"] \in FS
    BY <1>1 DEF FS
  <1>3. [f EXCEPT !.rec[e].st = st] \in FS
    BY <1>1 DEF FS
  <1>. QED  BY <1>2, <1>3 DEF FS

LEMMA HeaderTypes ==
    ASSUME NEW f \in FS, NEW s \in Sess, NEW st \in {"none", "pend", "pub"}
    PROVE  /\ [f EXCEPT !.hdr[s].data = "durable"] \in FS
           /\ [f EXCEPT !.hdr[s].st = st] \in FS
           /\ [f EXCEPT !.hdr[s].data = "durable"].dirs = f.dirs
           /\ [f EXCEPT !.hdr[s].st = st].dirs = f.dirs
  <1>1. [f.hdr[s] EXCEPT !.data = "durable"] \in File /\ [f.hdr[s] EXCEPT !.st = st] \in File
    BY DEF FS, File, Data
  <1>2. [f EXCEPT !.hdr[s].data = "durable"] \in FS
    BY <1>1 DEF FS
  <1>3. [f EXCEPT !.hdr[s].st = st] \in FS
    BY <1>1 DEF FS
  <1>. QED  BY <1>2, <1>3 DEF FS

LEMMA FSTypes ==
    ASSUME NEW f \in FS, NEW x \in Slot, NEW o \in Objs \cup {None}, NEW S \in SUBSET Objs,
           NEW D \in SUBSET Sess
    PROVE  /\ [f EXCEPT !.at[x] = o, !.unborn = S] \in FS
           /\ [f EXCEPT !.at[x] = o, !.unborn = S, !.dropped = @ \cup (S \ {None})] \in FS
           /\ [f EXCEPT !.at[x] = o, !.dropped = S] \in FS
           /\ [f EXCEPT !.at[x] = o, !.retired = S] \in FS
           /\ [f EXCEPT !.dirs = D] \in FS
           /\ f.at[x] \in Objs \cup {None}
  BY DEF FS
-----------------------------------------------------------------------------
(* Frames: what a step must show about the part it changes.                *)

FSOK(f) == f \in FS /\ \A s, t \in f.dirs \ Legacy : s = t
FSPart == fs \in disk /\ \A f \in disk : FSOK(f)
LocalPart == ps \in [Procs -> Local] /\ \A p \in Procs : WellFormed(p, ps[p])
LockPart ==
    /\ lock \in [held : BOOLEAN, fds : SUBSET Procs]
    /\ LockInv
    /\ \A p, q \in Procs : ps[p].owner = p /\ ps[q].owner = q => p = q

LEMMA Parts ==
    IInv <=> FSPart /\ LocalPart /\ LockPart /\ moved \in BOOLEAN /\ budget \in Budget
  BY DEF IInv, FSPart, LocalPart, LockPart, FSOK, TypeOK, OneSession

LEMMA PartsPrime ==
    ASSUME FSPart', LocalPart', LockPart', moved' \in BOOLEAN, budget' \in Budget
    PROVE  IInv'
  BY DEF IInv, FSPart, LocalPart, LockPart, FSOK, TypeOK, OneSession

LEMMA FSFrame ==
    ASSUME FSPart,
           \/ UNCHANGED <<fs, disk>>
           \/ Commit
           \/ \E f : FSOK(f) /\ Put(f)
           \/ FSOK(fs') /\ disk' = {fs'}
    PROVE  FSPart'
  BY DEF FSPart, FSOK, Commit, Put

Verdicts == {"none", "removed", "changed", "absent", "error"}

\* Updates of a process record keep its type.
LEMMA UpdateFlag ==
    ASSUME NEW l \in Local, NEW x \in Pcs, NEW b \in BOOLEAN
    PROVE  /\ [l EXCEPT !.pc = x, !.removed = b] \in Local
           /\ [l EXCEPT !.pc = x, !.captured = b] \in Local
           /\ [l EXCEPT !.pc = x, !.recovered = b] \in Local
           /\ [l EXCEPT !.pc = x, !.recoveryRequired = b] \in Local
           /\ [l EXCEPT !.pc = x, !.staged = b] \in Local
  <1>1. [l EXCEPT !.pc = x, !.removed = b] \in Local
    BY DEF Local
  <1>2. [l EXCEPT !.pc = x, !.captured = b] \in Local
    BY DEF Local
  <1>3. [l EXCEPT !.pc = x, !.recovered = b] \in Local
    BY DEF Local
  <1>4. [l EXCEPT !.pc = x, !.recoveryRequired = b] \in Local
    BY DEF Local
  <1>5. [l EXCEPT !.pc = x, !.staged = b] \in Local
    BY DEF Local
  <1>. QED  BY <1>1, <1>2, <1>3, <1>4, <1>5

LEMMA UpdatePc ==
    ASSUME NEW l \in Local, NEW x \in Pcs
    PROVE  [l EXCEPT !.pc = x] \in Local
  BY DEF Local

LEMMA UpdateRequest ==
    ASSUME NEW l \in Local, NEW x \in Pcs, NEW e \in E, NEW g \in E \cup {None},
           NEW n \in 0 .. MaxId + 1, NEW t \in Intent, NEW o \in Objs \cup {None}
    PROVE  [l EXCEPT !.pc = x, !.e = e, !.next = n, !.intent = t, !.captured = FALSE,
                     !.removed = FALSE, !.verdict = "none", !.dst = o, !.stage = g] \in Local
  BY DEF Local

LEMMA UpdateExchange ==
    ASSUME NEW l \in Local, NEW x \in Pcs, NEW e \in E, NEW n \in 0 .. MaxId + 1, NEW t \in Intent
    PROVE  /\ [l EXCEPT !.pc = x, !.staged = TRUE, !.e = e, !.next = n, !.intent = t] \in Local
           /\ [l EXCEPT !.pc = x, !.e = e, !.staged = FALSE, !.intent = t, !.removed = FALSE,
                        !.captured = FALSE, !.verdict = "none"] \in Local
  <1>1. [l EXCEPT !.pc = x, !.staged = TRUE, !.e = e, !.next = n, !.intent = t] \in Local
    BY DEF Local
  <1>2. [l EXCEPT !.pc = x, !.e = e, !.staged = FALSE, !.intent = t, !.removed = FALSE,
                  !.captured = FALSE, !.verdict = "none"] \in Local
    BY DEF Local
  <1>. QED  BY <1>1, <1>2


LEMMA PutFrame ==
    ASSUME FSPart, NEW f \in FS, f.dirs = fs.dirs, Put(f) \/ (fs' = f /\ disk' = {fs'})
    PROVE  FSPart' /\ fs'.dirs = fs.dirs
  BY DEF FSPart, FSOK, Put

LEMMA LocalFrame ==
    ASSUME LocalPart, NEW p \in Procs, NEW l \in Local, WellFormed(p, l),
           ps' = [ps EXCEPT ![p] = l]
    PROVE  LocalPart'
  <1>1. ps' \in [Procs -> Local]
    BY DEF LocalPart
  <1>2. ASSUME NEW q \in Procs PROVE WellFormed(q, ps'[q])
    BY DEF LocalPart
  <1>. QED  BY <1>1, <1>2 DEF LocalPart, WellFormed

\* A step of p that keeps the lock and the owner.
LEMMA LockFrame ==
    ASSUME LockPart, LocalPart, NEW p \in Procs, NEW l, ps' = [ps EXCEPT ![p] = l], lock' = lock,
           l.owner = ps[p].owner,
           fs'.dirs = fs.dirs \/ ps[p].owner = p,
           l.pc = "mkdir" => fs'.dirs = {}
    PROVE  LockPart'
  <1>1. ASSUME NEW q \in Procs PROVE ps'[q].owner = ps[q].owner
    BY DEF LocalPart
  <1>2. ASSUME NEW q \in Procs, ps'[q].pc = "mkdir" PROVE fs'.dirs = {}
    <2>1. CASE q = p
      BY <2>1, <1>2 DEF LocalPart
    <2>2. CASE q # p
      <3>1. ps[q].pc = "mkdir"
        BY <2>2, <1>2 DEF LocalPart
      <3>2. ps[q].owner = q
        BY <3>1 DEF LocalPart, WellFormed
      <3>. QED  BY <3>1, <3>2, <2>2 DEF LockPart, LockInv
    <2>. QED  BY <2>1, <2>2
  <1>. QED  BY <1>1, <1>2 DEF LockPart, LockInv

\* The session value is dropped.
LEMMA EndFrame ==
    ASSUME LocalPart, LockPart, NEW p \in Procs, End(p), fs'.dirs = fs.dirs
    PROVE  LocalPart' /\ LockPart'
  <1>1. WellFormed(p, Idle) /\ Idle.owner # p
    BY SlotFacts DEF WellFormed, Idle, EntryPcs, RetirePcs, ExchangePcs, StagePcs
  <1>2. LocalPart'
    BY <1>1, IdleType, LocalFrame DEF End
  <1>3. \A q \in Procs : q # p => ps'[q] = ps[q]
    BY DEF End, LocalPart
  <1>4. ps'[p] = Idle
    BY DEF End, LocalPart
  <1>5. LockPart'
    <2>1. lock' \in [held : BOOLEAN, fds : SUBSET Procs]
      BY DEF End, Unlock, LockPart
    <2>2. ASSUME NEW q \in Procs, ps'[q].owner = q PROVE lock'.held /\ q \in lock'.fds
      BY <2>2, <1>1, <1>3, <1>4 DEF End, Unlock, LockPart, LockInv
    <2>3. ASSUME NEW q \in Procs, ps'[q].pc = "mkdir" PROVE fs'.dirs = {}
      BY <2>3, <1>3, <1>4 DEF LockPart, LockInv, Idle
    <2>. QED  BY <2>1, <2>2, <2>3, <1>1, <1>3, <1>4 DEF LockPart, LockInv
  <1>. QED  BY <1>2, <1>5

LEMMA LocalStep ==
    ASSUME IInv, NEW p \in Procs, NEW l \in Local, WellFormed(p, l), l.owner = ps[p].owner,
           ps' = [ps EXCEPT ![p] = l], FSPart', UNCHANGED Root,
           fs'.dirs = fs.dirs \/ ps[p].owner = p,
           l.pc = "mkdir" => fs'.dirs = {}
    PROVE  IInv'
  <1>1. LocalPart'
    BY LocalFrame, Parts
  <1>2. LockPart'
    BY LockFrame, Parts DEF Root
  <1>. QED  BY <1>1, <1>2, Parts, PartsPrime DEF Root

LEMMA EndStep ==
    ASSUME IInv, NEW p \in Procs, End(p), UNCHANGED <<fs, disk, moved>>, budget' \in Budget
    PROVE  IInv'
  <1>1. LocalPart' /\ LockPart'
    BY EndFrame, Parts
  <1>2. FSPart'
    BY FSFrame, Parts
  <1>. QED  BY <1>1, <1>2, Parts, PartsPrime

\* What holds of a process in IInv.
LEMMA LocalFacts ==
    ASSUME IInv, NEW p \in Procs
    PROVE  ps[p] \in Local /\ WellFormed(p, ps[p]) /\ fs \in FS /\ FSOK(fs) /\ FSPart
           /\ DOMAIN ps = Procs
  BY Parts DEF LocalPart, FSPart, FSOK
-----------------------------------------------------------------------------
(* Each action preserves the invariant.                                    *)

LEMMA StartStep ==
    ASSUME IInv, NEW p \in Procs, NEW c \in BOOLEAN, Start(p, c)
    PROVE  IInv'
  <1> DEFINE l == [Idle EXCEPT !.pc = "scan", !.owner = p, !.check = c]
  <1>1. l \in Local /\ l.pc = "scan" /\ l.owner = p
    BY IdleType, PcFacts DEF Local, StepPcs, Idle
  <1>2. WellFormed(p, l)
    BY <1>1 DEF WellFormed, EntryPcs, RetirePcs, ExchangePcs, StagePcs, Idle
  <1>3. ps' = [ps EXCEPT ![p] = l] /\ lock' = [held |-> TRUE, fds |-> {p}] /\ ~lock.held
    BY DEF Start
  <1> HIDE DEF l
  <1>4. LocalPart'
    BY <1>1, <1>2, <1>3, LocalFrame, Parts
  <1>5. \A q \in Procs : ps[q].owner # q
    BY <1>3, Parts DEF LockPart, LockInv
  <1>6. LockPart'
    BY <1>1, <1>3, <1>5, Parts DEF LockPart, LockInv, LocalPart, Start
  <1>7. FSPart'
    BY FSFrame, Parts DEF Start
  <1>8. budget' \in Budget /\ moved' \in BOOLEAN
    BY Parts, SlotAssumption DEF Start, Spend, Budget
  <1>. QED  BY <1>4, <1>6, <1>7, <1>8, PartsPrime

LEMMA RecoverEnterStep ==
    ASSUME IInv, NEW p \in Procs, NEW s \in Sess, RecoverEnter(p, s)
    PROVE  IInv'
  <1>1. CASE ~HeaderOK(s)
    BY <1>1, EndStep, Parts DEF RecoverEnter
  <1>2. CASE HeaderOK(s)
    <2> DEFINE l == [ps[p] EXCEPT !.pc = "recdir", !.s = s]
    <2>1. l \in Local /\ l.owner = ps[p].owner /\ l.pc # "mkdir"
      BY LocalFacts, PcFacts DEF Local, StepPcs
    <2>2. WellFormed(p, l)
      BY LocalFacts DEF RecoverEnter, At, WellFormed, EntryPcs, RetirePcs, ExchangePcs, StagePcs, Local
    <2>3. ps' = [ps EXCEPT ![p] = l]
      BY <1>2, LocalFacts DEF RecoverEnter
    <2> HIDE DEF l
    <2>. QED  BY <1>2, <2>1, <2>2, <2>3, LocalStep, FSFrame, Parts DEF RecoverEnter, Root
  <1>. QED  BY <1>1, <1>2

LEMMA ScanDoneStep ==
    ASSUME IInv, NEW p \in Procs, ScanDone(p)
    PROVE  IInv'
  <1>1. CASE ps[p].recovered \/ ps[p].check
    BY <1>1, EndStep, Parts DEF ScanDone
  <1>2. CASE ~(ps[p].recovered \/ ps[p].check)
    <2> DEFINE l == [ps[p] EXCEPT !.pc = "mkdir"]
    <2>1. l \in Local /\ l.owner = ps[p].owner
      BY LocalFacts, PcFacts DEF Local, StepPcs
    <2>2. WellFormed(p, l)
      BY LocalFacts DEF ScanDone, At, WellFormed, EntryPcs, RetirePcs, ExchangePcs, StagePcs, Local
    <2>3. ps' = [ps EXCEPT ![p] = l]
      BY <1>2, LocalFacts DEF ScanDone, Goto
    <2>4. fs'.dirs = {} /\ fs'.dirs = fs.dirs
      BY DEF ScanDone
    <2> HIDE DEF l
    <2>. QED  BY <1>2, <2>1, <2>2, <2>3, <2>4, LocalStep, FSFrame, Parts DEF ScanDone, Root
  <1>. QED  BY <1>1, <1>2

LEMMA HeaderWriteStep ==
    ASSUME IInv, NEW p \in Procs, HeaderWrite(p)
    PROVE  IInv'
  <1>1. ps' = [ps EXCEPT ![p] = ps'[p]] /\ ps'[p].owner = ps[p].owner /\ ps'[p].pc # "mkdir"
    BY LocalFacts DEF HeaderWrite, Goto, Local, At
  <1>2. ps'[p] \in Local
    BY LocalFacts, PcFacts DEF HeaderWrite, Goto, Local, StepPcs
  <1>3. WellFormed(p, ps'[p])
    BY LocalFacts DEF HeaderWrite, Goto, At, WellFormed, EntryPcs, RetirePcs, ExchangePcs, StagePcs, Local
  <1>4. FSPart' /\ fs'.dirs = fs.dirs
    <2> DEFINE f == [fs EXCEPT !.hdr[ps[p].s] = [st |-> "pend", data |-> "cached"]]
    <2>1. f \in FS /\ f.dirs = fs.dirs
      BY LocalFacts DEF FS, File, Data
    <2>2. Put(f)
      BY DEF HeaderWrite
    <2> HIDE DEF f
    <2>. QED  BY <2>1, <2>2, LocalFacts, PutFrame
  <1>. QED  BY <1>1, <1>2, <1>3, <1>4, LocalStep DEF HeaderWrite

LEMMA HeaderSyncStep ==
    ASSUME IInv, NEW p \in Procs, HeaderSync(p)
    PROVE  IInv'
  <1>1. ps' = [ps EXCEPT ![p] = ps'[p]] /\ ps'[p].owner = ps[p].owner /\ ps'[p].pc # "mkdir"
    BY LocalFacts DEF HeaderSync, Goto, Local, At
  <1>2. ps'[p] \in Local
    BY LocalFacts, PcFacts DEF HeaderSync, Goto, Local, StepPcs
  <1>3. WellFormed(p, ps'[p])
    BY LocalFacts DEF HeaderSync, Goto, At, WellFormed, EntryPcs, RetirePcs, ExchangePcs, StagePcs, Local
  <1>4. FSPart' /\ fs'.dirs = fs.dirs
    <2> DEFINE f == [fs EXCEPT !.hdr[ps[p].s].data = "durable"]
    <2>0. ps[p].s \in Sess
      BY LocalFacts DEF HeaderSync, At, WellFormed
    <2>1. f \in FS /\ f.dirs = fs.dirs
      BY LocalFacts, <2>0, HeaderTypes
    <2>2. fs' = f /\ disk' = {fs'}
      BY DEF HeaderSync
    <2> HIDE DEF f
    <2>. QED  BY <2>1, <2>2, LocalFacts, PutFrame
  <1>. QED  BY <1>1, <1>2, <1>3, <1>4, LocalStep DEF HeaderSync

LEMMA HeaderRenameStep ==
    ASSUME IInv, NEW p \in Procs, HeaderRename(p)
    PROVE  IInv'
  <1>1. ps' = [ps EXCEPT ![p] = ps'[p]] /\ ps'[p].owner = ps[p].owner /\ ps'[p].pc # "mkdir"
    BY LocalFacts DEF HeaderRename, Goto, Local, At
  <1>2. ps'[p] \in Local
    BY LocalFacts, PcFacts DEF HeaderRename, Goto, Local, StepPcs
  <1>3. WellFormed(p, ps'[p])
    BY LocalFacts DEF HeaderRename, Goto, At, WellFormed, EntryPcs, RetirePcs, ExchangePcs, StagePcs, Local
  <1>4. FSPart' /\ fs'.dirs = fs.dirs
    <2> DEFINE f == [fs EXCEPT !.hdr[ps[p].s].st = "pub"]
    <2>0. ps[p].s \in Sess
      BY LocalFacts DEF HeaderRename, At, WellFormed
    <2>1. f \in FS /\ f.dirs = fs.dirs
      BY LocalFacts, <2>0, HeaderTypes
    <2>2. Put(f)
      BY DEF HeaderRename
    <2> HIDE DEF f
    <2>. QED  BY <2>1, <2>2, LocalFacts, PutFrame
  <1>. QED  BY <1>1, <1>2, <1>3, <1>4, LocalStep DEF HeaderRename

LEMMA RecoverClearStep ==
    ASSUME IInv, NEW p \in Procs, RecoverClear(p)
    PROVE  IInv'
  <1>1. ps' = [ps EXCEPT ![p] = ps'[p]] /\ ps'[p].owner = ps[p].owner /\ ps'[p].pc # "mkdir"
    BY LocalFacts DEF RecoverClear, Goto, Local, At
  <1>2. ps'[p] \in Local
    BY LocalFacts, PcFacts DEF RecoverClear, Goto, Local, StepPcs
  <1>3. WellFormed(p, ps'[p])
    BY LocalFacts DEF RecoverClear, Goto, At, WellFormed, EntryPcs, RetirePcs, ExchangePcs, StagePcs, Local
  <1>4. FSPart' /\ fs'.dirs = fs.dirs
    <2> DEFINE f == [fs EXCEPT !.rec[ps[p].e] = NoFile, !.intent[ps[p].e] = NoIntent]
    <2>1. f \in FS /\ f.dirs = fs.dirs
      BY LocalFacts, NoFileType DEF FS, File, Data
    <2>2. Put(f)
      BY DEF RecoverClear
    <2> HIDE DEF f
    <2>. QED  BY <2>1, <2>2, LocalFacts, PutFrame
  <1>. QED  BY <1>1, <1>2, <1>3, <1>4, LocalStep DEF RecoverClear

LEMMA RemoveHeaderStep ==
    ASSUME IInv, NEW p \in Procs, RemoveHeader(p)
    PROVE  IInv'
  <1>1. ps' = [ps EXCEPT ![p] = ps'[p]] /\ ps'[p].owner = ps[p].owner /\ ps'[p].pc # "mkdir"
    BY LocalFacts DEF RemoveHeader, RequireOwner, Goto, Local, At
  <1>2. ps'[p] \in Local
    BY LocalFacts, PcFacts DEF RemoveHeader, RequireOwner, Goto, Local, StepPcs
  <1>3. WellFormed(p, ps'[p])
    BY LocalFacts DEF RemoveHeader, RequireOwner, Goto, At, WellFormed, EntryPcs, RetirePcs, ExchangePcs, StagePcs, Local
  <1>4. FSPart' /\ fs'.dirs = fs.dirs
    <2> DEFINE f == [fs EXCEPT !.hdr[ps[p].s] = NoFile]
    <2>1. f \in FS /\ f.dirs = fs.dirs
      BY LocalFacts, NoFileType DEF FS, File, Data
    <2>2. Put(f)
      BY DEF RemoveHeader
    <2> HIDE DEF f
    <2>. QED  BY <2>1, <2>2, LocalFacts, PutFrame
  <1>. QED  BY <1>1, <1>2, <1>3, <1>4, LocalStep DEF RemoveHeader

LEMMA CheckStep ==
    ASSUME IInv, NEW p \in Procs, Check(p)
    PROVE  IInv'
  <1>1. ps' = [ps EXCEPT ![p] = ps'[p]] /\ ps'[p].owner = ps[p].owner /\ ps'[p].pc # "mkdir"
    BY LocalFacts DEF Check, Goto, Local, At
  <1>2. ps'[p] \in Local
    BY LocalFacts, PcFacts DEF Check, Goto, Local, StepPcs
  <1>3. WellFormed(p, ps'[p])
    BY LocalFacts DEF Check, Goto, At, WellFormed, EntryPcs, RetirePcs, ExchangePcs, StagePcs, Local
  <1>4. FSPart' /\ fs'.dirs = fs.dirs
    BY LocalFacts, FSFrame DEF Check
  <1>. QED  BY <1>1, <1>2, <1>3, <1>4, LocalStep DEF Check

LEMMA WritePendingStep ==
    ASSUME IInv, NEW p \in Procs, WritePending(p)
    PROVE  IInv'
  <1>1. ps' = [ps EXCEPT ![p] = ps'[p]] /\ ps'[p].owner = ps[p].owner /\ ps'[p].pc # "mkdir"
    BY LocalFacts DEF WritePending, Goto, Local, At
  <1>2. ps'[p] \in Local
    BY LocalFacts, PcFacts DEF WritePending, Goto, Local, StepPcs
  <1>3. WellFormed(p, ps'[p])
    BY LocalFacts DEF WritePending, Goto, At, WellFormed, EntryPcs, RetirePcs, ExchangePcs, StagePcs, Local
  <1>4. FSPart' /\ fs'.dirs = fs.dirs
    <2> DEFINE f == [fs EXCEPT !.rec[ps[p].e] = [st |-> "pend", data |-> "cached"], !.intent[ps[p].e] = ps[p].intent]
    <2>1. f \in FS /\ f.dirs = fs.dirs
      BY LocalFacts DEF FS, File, Data, Local
    <2>2. Put(f)
      BY DEF WritePending
    <2> HIDE DEF f
    <2>. QED  BY <2>1, <2>2, LocalFacts, PutFrame
  <1>. QED  BY <1>1, <1>2, <1>3, <1>4, LocalStep DEF WritePending

LEMMA SyncRecordStep ==
    ASSUME IInv, NEW p \in Procs, SyncRecord(p)
    PROVE  IInv'
  <1>1. ps' = [ps EXCEPT ![p] = ps'[p]] /\ ps'[p].owner = ps[p].owner /\ ps'[p].pc # "mkdir"
    BY LocalFacts DEF SyncRecord, Goto, Local, At
  <1>2. ps'[p] \in Local
    BY LocalFacts, PcFacts DEF SyncRecord, Goto, Local, StepPcs
  <1>3. WellFormed(p, ps'[p])
    BY LocalFacts DEF SyncRecord, Goto, At, WellFormed, EntryPcs, RetirePcs, ExchangePcs, StagePcs, Local
  <1>4. FSPart' /\ fs'.dirs = fs.dirs
    <2> DEFINE f == [fs EXCEPT !.rec[ps[p].e].data = "durable"]
    <2>0. ps[p].e \in E
      BY LocalFacts DEF SyncRecord, At, WellFormed, EntryPcs, RetirePcs, ExchangePcs, StagePcs
    <2>1. f \in FS /\ f.dirs = fs.dirs
      BY LocalFacts, <2>0, RecordTypes
    <2>2. fs' = f /\ disk' = {fs'}
      BY DEF SyncRecord
    <2> HIDE DEF f
    <2>. QED  BY <2>1, <2>2, LocalFacts, PutFrame
  <1>. QED  BY <1>1, <1>2, <1>3, <1>4, LocalStep DEF SyncRecord

LEMMA PublishRecordStep ==
    ASSUME IInv, NEW p \in Procs, PublishRecord(p)
    PROVE  IInv'
  <1>1. ps' = [ps EXCEPT ![p] = ps'[p]] /\ ps'[p].owner = ps[p].owner /\ ps'[p].pc # "mkdir"
    BY LocalFacts DEF PublishRecord, Goto, Local, At
  <1>2. ps'[p] \in Local
    BY LocalFacts, PcFacts DEF PublishRecord, Goto, Local, StepPcs
  <1>3. WellFormed(p, ps'[p])
    BY LocalFacts DEF PublishRecord, Goto, At, WellFormed, EntryPcs, RetirePcs, ExchangePcs, StagePcs, Local
  <1>4. FSPart' /\ fs'.dirs = fs.dirs
    <2> DEFINE f == [fs EXCEPT !.rec[ps[p].e].st = "pub"]
    <2>0. ps[p].e \in E
      BY LocalFacts DEF PublishRecord, At, WellFormed, EntryPcs, RetirePcs, ExchangePcs, StagePcs
    <2>1. f \in FS /\ f.dirs = fs.dirs
      BY LocalFacts, <2>0, RecordTypes
    <2>2. Put(f)
      BY DEF PublishRecord
    <2> HIDE DEF f
    <2>. QED  BY <2>1, <2>2, LocalFacts, PutFrame
  <1>. QED  BY <1>1, <1>2, <1>3, <1>4, LocalStep DEF PublishRecord

LEMMA PublishedStep ==
    ASSUME IInv, NEW p \in Procs, Published(p)
    PROVE  IInv'
  <1>1. ps' = [ps EXCEPT ![p] = ps'[p]] /\ ps'[p].owner = ps[p].owner /\ ps'[p].pc # "mkdir"
    BY LocalFacts DEF Published, Kinds, Intent, Goto, Local, At
  <1>2. ps'[p] \in Local
    BY LocalFacts, PcFacts DEF Published, Kinds, Intent, Goto, Local, StepPcs
  <1>3. WellFormed(p, ps'[p])
    BY LocalFacts DEF Published, Kinds, Intent, Goto, At, WellFormed, EntryPcs, RetirePcs, ExchangePcs, StagePcs, Local
  <1>4. FSPart' /\ fs'.dirs = fs.dirs
    BY LocalFacts, FSFrame DEF Published
  <1>. QED  BY <1>1, <1>2, <1>3, <1>4, LocalStep DEF Published

LEMMA ExchangeStep ==
    ASSUME IInv, NEW p \in Procs, Exchange(p)
    PROVE  IInv'
  <1>1. ps' = [ps EXCEPT ![p] = ps'[p]] /\ ps'[p].owner = ps[p].owner /\ ps'[p].pc # "mkdir"
    BY LocalFacts DEF Exchange, Goto, Local, At
  <1>2. ps'[p] \in Local
    BY LocalFacts, PcFacts DEF Exchange, Goto, Local, StepPcs
  <1>3. WellFormed(p, ps'[p])
    BY LocalFacts DEF Exchange, Goto, At, WellFormed, EntryPcs, RetirePcs, ExchangePcs, StagePcs, Local
  <1>4. FSPart' /\ fs'.dirs = fs.dirs
    BY LocalFacts, FSFrame DEF Exchange
  <1>. QED  BY <1>1, <1>2, <1>3, <1>4, LocalStep DEF Exchange

LEMMA PreCaptureStep ==
    ASSUME IInv, NEW p \in Procs, PreCapture(p)
    PROVE  IInv'
  <1>1. ps' = [ps EXCEPT ![p] = ps'[p]] /\ ps'[p].owner = ps[p].owner /\ ps'[p].pc # "mkdir"
    BY LocalFacts DEF PreCapture, Goto, Local, At
  <1>2. ps'[p] \in Local
    <2> DEFINE x == IF ParentOK(ps[p].intent) THEN "capture" ELSE "fail"
    <2>1. x \in Pcs
      BY PcFacts DEF StepPcs
    <2>2. ps[p] \in Local /\ ps'[p] = [ps[p] EXCEPT !.pc = x]
      BY LocalFacts DEF PreCapture, Goto
    <2> HIDE DEF x
    <2>. QED  BY <2>1, <2>2, UpdatePc
  <1>3. WellFormed(p, ps'[p])
    BY LocalFacts DEF PreCapture, Goto, At, WellFormed, EntryPcs, RetirePcs, ExchangePcs, StagePcs, Local
  <1>4. FSPart' /\ fs'.dirs = fs.dirs
    BY LocalFacts, FSFrame DEF PreCapture
  <1>. QED  BY <1>1, <1>2, <1>3, <1>4, LocalStep DEF PreCapture

LEMMA PreUnlinkStep ==
    ASSUME IInv, NEW p \in Procs, PreUnlink(p)
    PROVE  IInv'
  <1>1. ps' = [ps EXCEPT ![p] = ps'[p]] /\ ps'[p].owner = ps[p].owner /\ ps'[p].pc # "mkdir"
    BY LocalFacts DEF PreUnlink, Goto, Local, At
  <1>2. ps'[p] \in Local
    BY LocalFacts, PcFacts DEF PreUnlink, Goto, Local, StepPcs
  <1>3. WellFormed(p, ps'[p])
    BY LocalFacts DEF PreUnlink, Goto, At, WellFormed, EntryPcs, RetirePcs, ExchangePcs, StagePcs, Local
  <1>4. FSPart' /\ fs'.dirs = fs.dirs
    BY LocalFacts, FSFrame DEF PreUnlink
  <1>. QED  BY <1>1, <1>2, <1>3, <1>4, LocalStep DEF PreUnlink

LEMMA VerifyStep ==
    ASSUME IInv, NEW p \in Procs, Verify(p)
    PROVE  IInv'
  <1>1. ps' = [ps EXCEPT ![p] = ps'[p]] /\ ps'[p].owner = ps[p].owner /\ ps'[p].pc # "mkdir"
    BY LocalFacts DEF Verify, Goto, Local, At
  <1>2. ps'[p] \in Local
    BY LocalFacts, PcFacts DEF Verify, Goto, Local, StepPcs
  <1>3. WellFormed(p, ps'[p])
    BY LocalFacts DEF Verify, Goto, At, WellFormed, EntryPcs, RetirePcs, ExchangePcs, StagePcs, Local
  <1>4. FSPart' /\ fs'.dirs = fs.dirs
    BY LocalFacts, FSFrame DEF Verify
  <1>. QED  BY <1>1, <1>2, <1>3, <1>4, LocalStep DEF Verify

LEMMA FailedStep ==
    ASSUME IInv, NEW p \in Procs, Failed(p)
    PROVE  IInv'
  <1>1. ps' = [ps EXCEPT ![p] = ps'[p]] /\ ps'[p].owner = ps[p].owner /\ ps'[p].pc # "mkdir"
    BY LocalFacts DEF Failed, Local, At
  <1>2. ps'[p] \in Local
    <2>1. PICK x \in {"rst", "clear", "settle"} : ps'[p] = [ps[p] EXCEPT !.verdict = "error", !.pc = x]
      BY LocalFacts DEF Failed
    <2>2. ps[p] \in Local /\ x \in Pcs
      BY LocalFacts, PcFacts DEF StepPcs
    <2>. QED  BY <2>1, <2>2 DEF Local
  <1>3. WellFormed(p, ps'[p])
    BY LocalFacts DEF Failed, At, WellFormed, EntryPcs, RetirePcs, ExchangePcs, StagePcs, Local
  <1>4. FSPart' /\ fs'.dirs = fs.dirs
    BY LocalFacts, FSFrame DEF Failed
  <1>. QED  BY <1>1, <1>2, <1>3, <1>4, LocalStep DEF Failed

LEMMA SettleStep ==
    ASSUME IInv, NEW p \in Procs, Settle(p)
    PROVE  IInv'
  <1>1. ps' = [ps EXCEPT ![p] = ps'[p]] /\ ps'[p].owner = ps[p].owner /\ ps'[p].pc # "mkdir"
    BY LocalFacts DEF Settle, Local, At
  <1>2. ps'[p] \in Local
    <2>0. ps[p].recoveryRequired \in BOOLEAN
      BY LocalFacts DEF Local
    <2>1. PICK x \in {"stagedrop", "ready"}, b \in BOOLEAN :
             ps'[p] = [ps[p] EXCEPT !.pc = x, !.recoveryRequired = b]
      BY <2>0, LocalFacts DEF Settle
    <2>2. ps[p] \in Local /\ x \in Pcs
      BY LocalFacts, PcFacts DEF StepPcs
    <2>. QED  BY <2>1, <2>2 DEF Local
  <1>3. WellFormed(p, ps'[p])
    BY LocalFacts DEF Settle, At, WellFormed, EntryPcs, RetirePcs, ExchangePcs, StagePcs, Local
  <1>4. FSPart' /\ fs'.dirs = fs.dirs
    BY LocalFacts, FSFrame DEF Settle
  <1>. QED  BY <1>1, <1>2, <1>3, <1>4, LocalStep DEF Settle

LEMMA ClearRecordStep ==
    ASSUME IInv, NEW p \in Procs, ClearRecord(p)
    PROVE  IInv'
  <1>1. ps' = [ps EXCEPT ![p] = ps'[p]] /\ ps'[p].owner = ps[p].owner /\ ps'[p].pc # "mkdir"
    BY LocalFacts DEF ClearRecord, Goto, Local, At
  <1>2. ps'[p] \in Local
    <2>1. CASE ps[p].verdict = "none" /\ ps[p].removed
      <3>1. ps'[p] = [ps[p] EXCEPT !.pc = "clrsync", !.verdict = "removed"]
        BY <2>1, LocalFacts DEF ClearRecord, Goto
      <3>2. "clrsync" \in Pcs /\ "removed" \in Verdicts
        BY PcFacts DEF StepPcs, Verdicts
      <3>3. ps[p] \in Local
        BY LocalFacts
      <3>. QED  BY <3>1, <3>2, <3>3 DEF Local, Verdicts
    <2>2. CASE ~(ps[p].verdict = "none" /\ ps[p].removed)
      <3>1. ps'[p] = [ps[p] EXCEPT !.pc = "clrsync"]
        BY <2>2, LocalFacts DEF ClearRecord, Goto
      <3>2. "clrsync" \in Pcs
        BY PcFacts DEF StepPcs, Verdicts
      <3>3. ps[p] \in Local
        BY LocalFacts
      <3>. QED  BY <3>1, <3>2, <3>3, UpdatePc
    <2>. QED  BY <2>1, <2>2
  <1>3. WellFormed(p, ps'[p])
    BY LocalFacts DEF ClearRecord, Goto, At, WellFormed, EntryPcs, RetirePcs, ExchangePcs, StagePcs, Local
  <1>4. FSPart' /\ fs'.dirs = fs.dirs
    <2> DEFINE f == [fs EXCEPT !.rec[ps[p].e] = NoFile, !.intent[ps[p].e] = NoIntent]
    <2>1. f \in FS /\ f.dirs = fs.dirs
      BY LocalFacts, NoFileType DEF FS
    <2>2. Put(f)
      BY DEF ClearRecord
    <2> HIDE DEF f
    <2>. QED  BY <2>1, <2>2, LocalFacts, PutFrame
  <1>. QED  BY <1>1, <1>2, <1>3, <1>4, LocalStep DEF ClearRecord

LEMMA UnlinkStep ==
    ASSUME IInv, NEW p \in Procs, Unlink(p)
    PROVE  IInv'
  <1>1. ps' = [ps EXCEPT ![p] = ps'[p]] /\ ps'[p].owner = ps[p].owner /\ ps'[p].pc # "mkdir"
    BY LocalFacts DEF Unlink, Local, At
  <1>2. ps'[p] \in Local
    <2>1. ps'[p] = [ps[p] EXCEPT !.pc = "rmD", !.removed = TRUE]
      BY LocalFacts DEF Unlink
    <2>2. ps[p] \in Local /\ "rmD" \in Pcs
      BY LocalFacts, PcFacts
    <2>. QED  BY <2>1, <2>2, UpdateFlag
  <1>3. WellFormed(p, ps'[p])
    BY LocalFacts DEF Unlink, Goto, At, WellFormed, EntryPcs, RetirePcs, ExchangePcs, StagePcs, Local
  <1>4. FSPart' /\ fs'.dirs = fs.dirs
    <2> DEFINE f == [fs EXCEPT !.at[ps[p].e] = None, !.retired = @ \cup {ps[p].intent.expect}]
    <2>1. ps[p].intent.expect \in Objs
      BY LocalFacts DEF Unlink, At, WellFormed, EntryPcs, RetirePcs
    <2>2. f \in FS /\ f.dirs = fs.dirs
      BY <2>1, LocalFacts DEF FS
    <2>3. Put(f)
      BY DEF Unlink
    <2> HIDE DEF f
    <2>. QED  BY <2>2, <2>3, LocalFacts, PutFrame
  <1>. QED  BY <1>1, <1>2, <1>3, <1>4, LocalStep DEF Unlink

LEMMA CaptureStep ==
    ASSUME IInv, NEW p \in Procs, Capture(p)
    PROVE  IInv'
  <1>1. ps' = [ps EXCEPT ![p] = ps'[p]] /\ ps'[p].owner = ps[p].owner /\ ps'[p].pc # "mkdir"
    BY LocalFacts DEF Capture, Goto, Local, At
  <1>2. ps'[p] \in Local
    <2>1. CASE fs.at[ps[p].intent.name] # None
      <3>1. ps'[p] = [ps[p] EXCEPT !.pc = "capP", !.captured = TRUE]
        BY <2>1, LocalFacts DEF Capture
      <3>2. ps[p] \in Local /\ "capP" \in Pcs
        BY LocalFacts, PcFacts
      <3>. QED  BY <3>1, <3>2, UpdateFlag
    <2>2. CASE fs.at[ps[p].intent.name] = None
      BY <2>2, LocalFacts, PcFacts DEF Capture, Goto, Local, StepPcs
    <2>. QED  BY <2>1, <2>2
  <1>3. WellFormed(p, ps'[p])
    BY LocalFacts DEF Capture, Goto, At, WellFormed, EntryPcs, RetirePcs, ExchangePcs, StagePcs, Local
  <1>4. FSPart' /\ fs'.dirs = fs.dirs
    <2>1. CASE fs.at[ps[p].intent.name] = None
      BY <2>1, LocalFacts, FSFrame DEF Capture
    <2>2. CASE fs.at[ps[p].intent.name] # None
      <3>1. ps[p].intent.name \in Slot
        BY LocalFacts DEF Capture, At, WellFormed, EntryPcs, RetirePcs
      <3>2. Put(Move(fs, ps[p].intent.name, ps[p].e))
        BY <2>2 DEF Capture
      <3>. QED  BY <3>1, <3>2, MoveType, PutFrame, LocalFacts
    <2>. QED  BY <2>1, <2>2
  <1>. QED  BY <1>1, <1>2, <1>3, <1>4, LocalStep DEF Capture

LEMMA RestoreStep ==
    ASSUME IInv, NEW p \in Procs, Restore(p)
    PROVE  IInv'
  <1>1. ps' = [ps EXCEPT ![p] = ps'[p]] /\ ps'[p].owner = ps[p].owner /\ ps'[p].pc # "mkdir"
    BY LocalFacts DEF Restore, Goto, Local, At
  <1>2. ps'[p] \in Local
    BY LocalFacts, PcFacts DEF Restore, Goto, Local, StepPcs
  <1>3. WellFormed(p, ps'[p])
    BY LocalFacts DEF Restore, Goto, At, WellFormed, EntryPcs, RetirePcs, ExchangePcs, StagePcs, Local
  <1>4. FSPart' /\ fs'.dirs = fs.dirs
    <2>1. CASE UNCHANGED <<fs, disk>>
      BY <2>1, LocalFacts, FSFrame
    <2>2. CASE Put(Move(fs, ps[p].e, ps[p].intent.name))
      <3>1. ps[p].e \in Slot
        BY LocalFacts, SlotFacts DEF Restore, At, WellFormed, EntryPcs, RetirePcs
      <3>. QED  BY <3>1, <2>2, MoveType, PutFrame, LocalFacts
    <2>. QED  BY <2>1, <2>2 DEF Restore
  <1>. QED  BY <1>1, <1>2, <1>3, <1>4, LocalStep DEF Restore

LEMMA RequestStep ==
    ASSUME IInv, NEW p \in Procs, NEW t \in Intent, Request(p, t),
           t.kind # "stage" => t.name \in Slot /\ t.expect \in Objs,
           t.kind = "replace" => fs.at[Dst] # None,
           t.kind = "stage" /\ fs.at[Dst] # None => ps[p].next + 1 <= MaxId
    PROVE  IInv'
  <1> DEFINE x == IF t.kind = "stage" THEN "write" ELSE "check"
             e == <<ps[p].s, ps[p].next>>
             g == IF t.kind = "stage" THEN e ELSE ps[p].stage
             o == fs.at[Dst]
             l == [ps[p] EXCEPT !.pc = x, !.e = e, !.next = ps[p].next + 1, !.intent = t,
                                !.captured = FALSE, !.removed = FALSE, !.verdict = "none",
                                !.dst = o, !.stage = g]
  <1>1. ps[p] \in Local /\ ps[p].s \in Sess /\ ps[p].next \in 0 .. MaxId /\ ps[p].owner = p
    <2>1. ps[p] \in Local /\ WellFormed(p, ps[p]) /\ ps[p].pc = "ready" /\ ps[p].owner = p
          /\ ps[p].next <= MaxId
      BY LocalFacts DEF Request, At, RequireOwner
    <2>. QED  BY <2>1, SlotAssumption DEF WellFormed, Local
  <1>2. e \in E /\ ps[p].next + 1 \in 0 .. MaxId + 1
    BY <1>1, SlotAssumption DEF E
  <1>3. o \in Objs \cup {None}
    BY LocalFacts, SlotFacts DEF FS
  <1>4. x \in Pcs /\ x \in {"write", "check"}
    BY PcFacts DEF StepPcs
  <1>5. g \in E \cup {None}
    BY <1>1, <1>2 DEF Local
  <1>6. ps' = [ps EXCEPT ![p] = l]
    BY DEF Request
  <1>7. /\ l.pc = x /\ l.e = e /\ l.next = ps[p].next + 1 /\ l.intent = t /\ l.dst = o /\ l.stage = g
        /\ l.owner = p /\ l.s = ps[p].s
    BY <1>1 DEF Local
  <1>8. t.kind = "stage" => x = "write" /\ g = e
    OBVIOUS
  <1> HIDE DEF x, e, g, o
  <1>9. l \in Local
    <2> DEFINE k == ps[p].next + 1
    <2>1. k \in 0 .. MaxId + 1
      BY <1>2
    <2> HIDE DEF k
    <2>2. [ps[p] EXCEPT !.pc = x, !.e = e, !.next = k, !.intent = t, !.captured = FALSE,
                        !.removed = FALSE, !.verdict = "none", !.dst = o, !.stage = g] \in Local
      BY <2>1, <1>1, <1>2, <1>3, <1>4, <1>5, UpdateRequest, Zenon
    <2>. QED  BY <2>2 DEF k
  <1>10. t.kind = "replace" => o \in Objs
    BY <1>3 DEF o
  <1>11. t.kind = "stage" /\ o # None => ps[p].next + 1 <= MaxId
    BY DEF o
  <1>12. t.kind # "stage" => x = "check"
    BY DEF x
  <1> HIDE DEF l
  <1>13. WellFormed(p, l)
    BY <1>1, <1>2, <1>4, <1>7, <1>8, <1>10, <1>11, <1>12
       DEF WellFormed, EntryPcs, RetirePcs, ExchangePcs, StagePcs
  <1>14. FSPart' /\ fs'.dirs = fs.dirs
    BY LocalFacts, FSFrame DEF Request
  <1>. QED  BY <1>1, <1>4, <1>6, <1>7, <1>9, <1>13, <1>14, LocalStep DEF Request

LEMMA RemoveSteps ==
    ASSUME IInv, NEW p \in Procs, NEW n \in Names, Remove(p, n) \/ RemoveAfterPublication(p, n)
    PROVE  IInv'
  <1>1. n \in Slot /\ fs.at[n] \in Objs \cup {None} /\ fs.at[Dst] \in Objs \cup {None}
    BY LocalFacts, SlotFacts DEF FS
  <1>2. CASE Remove(p, n)
    <2> DEFINE t == [NoIntent EXCEPT !.name = n, !.expect = fs.at[n]]
    <2>1. t \in Intent /\ t.kind = "retire" /\ t.name = n /\ t.expect = fs.at[n]
      BY <1>1 DEF NoIntent, Intent, Kinds
    <2>2. Request(p, t) /\ fs.at[n] # None
      BY <1>2 DEF Remove
    <2> HIDE DEF t
    <2>. QED  BY <1>1, <2>1, <2>2, RequestStep
  <1>3. CASE RemoveAfterPublication(p, n)
    <2> DEFINE t == [kind |-> "replace", name |-> n, expect |-> fs.at[Dst], source |-> fs.at[n]]
    <2>1. t \in Intent /\ t.kind = "replace" /\ t.name = n /\ t.expect = fs.at[Dst]
      BY <1>1 DEF Intent, Kinds
    <2>2. Request(p, t) /\ fs.at[Dst] # None
      BY <1>3 DEF RemoveAfterPublication
    <2> HIDE DEF t
    <2>. QED  BY <1>1, <2>1, <2>2, RequestStep
  <1>. QED  BY <1>2, <1>3

LEMMA RegisterStageStep ==
    ASSUME IInv, NEW p \in Procs, RegisterStage(p)
    PROVE  IInv'
  <1> DEFINE t == [NoIntent EXCEPT !.kind = "stage"]
  <1>1. t \in Intent /\ t.kind = "stage"
    BY DEF NoIntent, Intent, Kinds
  <1>2. Request(p, t) /\ ps[p].next = 0 /\ (fs.at[Dst] # None => MaxId > 0)
    BY DEF RegisterStage
  <1> HIDE DEF t
  <1>3. fs.at[Dst] # None => ps[p].next + 1 <= MaxId
    BY <1>2, SlotAssumption
  <1>. QED  BY <1>1, <1>2, <1>3, RequestStep

LEMMA SyncStep ==
    ASSUME IInv, NEW p \in Procs, Sync(p)
    PROVE  IInv'
  <1>1. ps' = [ps EXCEPT ![p] = ps'[p]] /\ ps'[p].owner = ps[p].owner /\ ps'[p].pc # "mkdir"
    <2>1. ps[p].pc \in DOMAIN SyncNext => SyncNext[ps[p].pc] # "mkdir"
      BY DEF SyncNext
    <2>. QED  BY <2>1, LocalFacts DEF Sync, Goto, Local
  <1>2. ps'[p] \in Local
    <2>1. ps'[p] = [ps[p] EXCEPT !.pc = SyncNext[ps[p].pc]] /\ ps[p].pc \in DOMAIN SyncNext
      BY LocalFacts DEF Sync, Goto
    <2>2. ps[p] \in Local /\ SyncNext[ps[p].pc] \in Pcs
      BY <2>1, LocalFacts, PcFacts
    <2>. QED  BY <2>1, <2>2, UpdatePc
  <1>3. WellFormed(p, ps'[p])
    BY LocalFacts DEF Sync, SyncNext, Goto, WellFormed, EntryPcs, RetirePcs, ExchangePcs, StagePcs, Local
  <1>4. FSPart' /\ fs'.dirs = fs.dirs
    BY LocalFacts, FSFrame DEF Sync, Commit
  <1>. QED  BY <1>1, <1>2, <1>3, <1>4, LocalStep DEF Sync

LEMMA MakeSessionStep ==
    ASSUME IInv, NEW p \in Procs, NEW s \in Sess, MakeSession(p, s)
    PROVE  IInv'
  <1>1. ps' = [ps EXCEPT ![p] = ps'[p]] /\ ps'[p].owner = ps[p].owner /\ ps'[p].pc # "mkdir"
    BY LocalFacts DEF MakeSession, Local
  <1>2. ps'[p] \in Local
    <2>1. ps[p] \in Local /\ "hdrwrite" \in Pcs
      BY LocalFacts, PcFacts DEF StepPcs
    <2>2. ps'[p] = [ps[p] EXCEPT !.pc = "hdrwrite", !.s = s]
      BY LocalFacts DEF MakeSession
    <2>. QED  BY <2>1, <2>2 DEF Local
  <1>3. WellFormed(p, ps'[p]) /\ ps[p].owner = p
    BY LocalFacts DEF MakeSession, At, WellFormed, EntryPcs, RetirePcs, ExchangePcs, StagePcs, Local
  <1>4. fs.dirs = {}
    BY Parts DEF MakeSession, At, LockPart, LockInv
  <1>5. FSPart'
    <2> DEFINE f == [fs EXCEPT !.dirs = @ \cup {s}]
    <2>1. FSOK(f)
      BY <1>4, LocalFacts DEF FSOK, FS
    <2>2. Put(f)
      BY DEF MakeSession
    <2> HIDE DEF f
    <2>. QED  BY <2>1, <2>2, LocalFacts, FSFrame
  <1>. QED  BY <1>1, <1>2, <1>3, <1>5, LocalStep DEF MakeSession

LEMMA EndSteps ==
    ASSUME IInv, NEW p \in Procs, NEW e \in E, RecoverUnknown(p, e) \/ Drop(p)
    PROVE  IInv'
  BY EndStep, Parts DEF RecoverUnknown, Drop

LEMMA EndedStep ==
    ASSUME IInv, NEW p \in Procs, Ended(p)
    PROVE  IInv'
  <1>1. CASE ~ps[p].recovered
    BY <1>1, EndStep, Parts DEF Ended
  <1>2. CASE ps[p].recovered
    <2>1. ps' = [ps EXCEPT ![p] = ps'[p]] /\ ps'[p].owner = ps[p].owner /\ ps'[p].pc # "mkdir"
      BY <1>2, LocalFacts DEF Ended, Local
    <2>2. ps'[p] \in Local
      BY <1>2, LocalFacts, PcFacts DEF Ended, Local, StepPcs
    <2>3. WellFormed(p, ps'[p])
      BY <1>2, LocalFacts DEF Ended, At, WellFormed, EntryPcs, RetirePcs, ExchangePcs, StagePcs, Local
    <2>4. FSPart' /\ fs'.dirs = fs.dirs
      BY LocalFacts, FSFrame DEF Ended
    <2>. QED  BY <1>2, <2>1, <2>2, <2>3, <2>4, LocalStep DEF Ended, Root
  <1>. QED  BY <1>1, <1>2

LEMMA RemoveDirectoryStep ==
    ASSUME IInv, NEW p \in Procs, RemoveDirectory(p)
    PROVE  IInv'
  <1>1. CASE ~Empty(ps[p].s)
    BY <1>1, EndStep, Parts DEF RemoveDirectory
  <1>2. CASE Empty(ps[p].s)
    <2>1. ps' = [ps EXCEPT ![p] = ps'[p]] /\ ps'[p].owner = ps[p].owner /\ ps'[p].pc # "mkdir"
      BY <1>2, LocalFacts DEF RemoveDirectory, Goto, Local
    <2>2. ps'[p] \in Local
      BY <1>2, LocalFacts, PcFacts DEF RemoveDirectory, Goto, Local, StepPcs
    <2>3. WellFormed(p, ps'[p]) /\ ps[p].owner = p
      BY <1>2, LocalFacts
         DEF RemoveDirectory, Goto, At, WellFormed, EntryPcs, RetirePcs, ExchangePcs, StagePcs, Local
    <2>4. FSPart'
      <3> DEFINE f == [fs EXCEPT !.dirs = @ \ {ps[p].s}]
      <3>1. FSOK(f)
        BY LocalFacts DEF FSOK, FS
      <3>2. Put(f)
        BY <1>2 DEF RemoveDirectory
      <3> HIDE DEF f
      <3>. QED  BY <3>1, <3>2, LocalFacts, FSFrame
    <2>. QED  BY <1>2, <2>1, <2>2, <2>3, <2>4, LocalStep DEF RemoveDirectory, Root
  <1>. QED  BY <1>1, <1>2

LEMMA RecoverPendingStep ==
    ASSUME IInv, NEW p \in Procs, NEW e \in E, RecoverPending(p, e)
    PROVE  IInv'
  <1>1. CASE ps[p].s \notin Legacy
    BY <1>1, EndStep, Parts DEF RecoverPending
  <1>2. CASE ps[p].s \in Legacy
    <2> DEFINE f == [fs EXCEPT !.rec[e] = NoFile, !.intent[e] = NoIntent]
    <2>1. f \in FS /\ f.dirs = fs.dirs
      BY LocalFacts, NoFileType DEF FS
    <2>2. fs' = f /\ disk' = {fs'} /\ ps' = ps /\ lock' = lock /\ moved' = moved /\ budget' = budget
      BY <1>2 DEF RecoverPending
    <2> HIDE DEF f
    <2>3. FSPart' /\ fs'.dirs = fs.dirs
      BY <2>1, <2>2, LocalFacts, PutFrame
    <2>4. LocalPart' /\ LockPart'
      BY <2>2, <2>3, Parts DEF LocalPart, LockPart, LockInv, WellFormed
    <2>. QED  BY <2>2, <2>3, <2>4, Parts, PartsPrime
  <1>. QED  BY <1>1, <1>2

LEMMA RecoverRecordStep ==
    ASSUME IInv, NEW p \in Procs, NEW e \in E, RecoverRecord(p, e)
    PROVE  IInv'
  <1>1. CASE End(p) /\ UNCHANGED <<fs, disk>>
    BY <1>1, EndStep, Parts DEF RecoverRecord
  <1>2. CASE /\ ps' = [ps EXCEPT ![p].pc = "recP", ![p].e = e] /\ lock' = lock
             /\ Put(Move(fs, e, fs.intent[e].name)) \/ UNCHANGED <<fs, disk>>
    <2>1. ps' = [ps EXCEPT ![p] = ps'[p]] /\ ps'[p].owner = ps[p].owner /\ ps'[p].pc # "mkdir"
      BY <1>2, LocalFacts DEF Local
    <2>2. ps'[p] \in Local
      <3>1. ps[p] \in Local /\ "recP" \in Pcs
        BY LocalFacts, PcFacts
      <3>2. ps'[p] = [ps[p] EXCEPT !.pc = "recP", !.e = e]
        BY <1>2, LocalFacts
      <3>. QED  BY <3>1, <3>2 DEF Local
    <2>3. WellFormed(p, ps'[p])
      BY <1>2, LocalFacts
         DEF RecoverRecord, At, WellFormed, EntryPcs, RetirePcs, ExchangePcs, StagePcs, Local
    <2>4. FSPart' /\ fs'.dirs = fs.dirs
      <3>1. CASE UNCHANGED <<fs, disk>>
        BY <3>1, LocalFacts, FSFrame
      <3>2. CASE Put(Move(fs, e, fs.intent[e].name))
        BY <3>2, MoveType, PutFrame, LocalFacts, SlotFacts
      <3>. QED  BY <1>2, <3>1, <3>2
    <2>. QED  BY <1>2, <2>1, <2>2, <2>3, <2>4, LocalStep DEF RecoverRecord, Root
  <1>. QED  BY <1>1, <1>2 DEF RecoverRecord

LEMMA RenameExchangeStep ==
    ASSUME IInv, NEW p \in Procs, RenameExchange(p)
    PROVE  IInv'
  <1>1. Outgoing(p) \in Slot
    BY LocalFacts, SlotFacts DEF RenameExchange, Outgoing, At, WellFormed, EntryPcs, ExchangePcs
  <1>2. PICK x \in {"swapcheck", "stagedrop", "fail"} :
           /\ ps' = [ps EXCEPT ![p].pc = x]
           /\ ps[p].intent.kind = "stage" => x # "fail"
           /\ ps[p].intent.kind # "stage" => x # "stagedrop"
    BY DEF RenameExchange, NotPublished, Goto
  <1>3. ps' = [ps EXCEPT ![p] = ps'[p]] /\ ps'[p].owner = ps[p].owner /\ ps'[p].pc # "mkdir"
    BY <1>2, LocalFacts DEF Local
  <1>4. ps'[p] \in Local
    BY <1>2, LocalFacts, PcFacts, UpdatePc DEF StepPcs
  <1>5. WellFormed(p, ps'[p])
    BY <1>2, LocalFacts
       DEF RenameExchange, At, WellFormed, EntryPcs, RetirePcs, ExchangePcs, StagePcs, Local
  <1>6. FSPart' /\ fs'.dirs = fs.dirs
    <2>1. CASE UNCHANGED <<fs, disk>>
      BY <2>1, LocalFacts, FSFrame
    <2>2. CASE Put(Swap(fs, Outgoing(p), Dst))
      BY <1>1, <2>2, MoveType, PutFrame, LocalFacts, SlotFacts
    <2>. QED  BY <2>1, <2>2 DEF RenameExchange
  <1>. QED  BY <1>3, <1>4, <1>5, <1>6, LocalStep DEF RenameExchange

LEMMA ExchangeCheckStep ==
    ASSUME IInv, NEW p \in Procs, ExchangeCheck(p)
    PROVE  IInv'
  <1>0. ps[p] \in Local /\ WellFormed(p, ps[p]) /\ ps[p].pc = "swapcheck"
    BY LocalFacts DEF ExchangeCheck, At
  <1>1. FSPart' /\ fs'.dirs = fs.dirs
    BY LocalFacts, FSFrame DEF ExchangeCheck
  <1>2. CASE \E x \in {"swapback", "precap", "fail"} :
               Goto(p, x) /\ (ps[p].intent.kind = "stage" => x = "swapback")
    <2>1. PICK x \in {"swapback", "precap", "fail"} :
             ps' = [ps EXCEPT ![p].pc = x] /\ (ps[p].intent.kind = "stage" => x = "swapback")
      BY <1>2 DEF Goto
    <2>2. ps' = [ps EXCEPT ![p] = ps'[p]] /\ ps'[p].owner = ps[p].owner /\ ps'[p].pc # "mkdir"
      BY <2>1, LocalFacts DEF Local
    <2>3. ps'[p] \in Local
      BY <2>1, LocalFacts, PcFacts, UpdatePc DEF StepPcs
    <2>4. WellFormed(p, ps'[p])
      BY <1>0, <2>1, LocalFacts DEF WellFormed, EntryPcs, RetirePcs, ExchangePcs, StagePcs, Local
    <2>. QED  BY <1>1, <2>2, <2>3, <2>4, LocalStep DEF ExchangeCheck
  <1>3. CASE ps[p].intent.kind = "stage" /\
             ps' = [ps EXCEPT ![p].pc = "check", ![p].staged = TRUE,
                         ![p].e = <<ps[p].s, ps[p].next>>, ![p].next = @ + 1,
                         ![p].intent = [NoIntent EXCEPT !.name = Outgoing(p), !.expect = ps[p].dst]]
    <2> DEFINE e == <<ps[p].s, ps[p].next>>
               t == [NoIntent EXCEPT !.name = Outgoing(p), !.expect = ps[p].dst]
               l == [ps[p] EXCEPT !.pc = "check", !.staged = TRUE, !.e = e,
                                  !.next = ps[p].next + 1, !.intent = t]
    <2>1. ps[p].s \in Sess /\ ps[p].next \in 0 .. MaxId /\ ps[p].dst \in Objs /\ Outgoing(p) \in Slot
          /\ ps[p].owner = p
      <3>1. ps[p].dst \in Objs /\ ps[p].next <= MaxId /\ ps[p].s \in Sess /\ ps[p].e \in E
            /\ ps[p].owner = p
        BY <1>0, <1>3, SlotAssumption DEF WellFormed, EntryPcs, ExchangePcs
      <3>. QED  BY <1>0, <1>3, <3>1, SlotFacts, SlotAssumption DEF Local, Outgoing
    <2>2. e \in E /\ ps[p].next + 1 \in 0 .. MaxId + 1
      BY <2>1, SlotAssumption DEF E
    <2>3. t \in Intent /\ t.kind = "retire" /\ t.name = Outgoing(p) /\ t.expect = ps[p].dst
      BY <2>1 DEF NoIntent, Intent, Kinds
    <2>4. ps' = [ps EXCEPT ![p] = l]
      BY <1>3, Zenon
    <2> HIDE DEF e, t
    <2>5. l \in Local
      BY <1>0, <2>2, <2>3, PcFacts, UpdateExchange DEF StepPcs
    <2>6. l.pc = "check" /\ l.e = e /\ l.intent = t /\ l.owner = p /\ l.s = ps[p].s
      BY <1>0, <2>1 DEF Local
    <2> HIDE DEF l
    <2>7. WellFormed(p, l)
      BY <2>1, <2>2, <2>3, <2>6 DEF WellFormed, EntryPcs, RetirePcs, ExchangePcs, StagePcs
    <2>. QED  BY <1>1, <2>1, <2>4, <2>5, <2>6, <2>7, LocalStep DEF ExchangeCheck
  <1>. QED  BY <1>2, <1>3 DEF ExchangeCheck

LEMMA StageCreateStep ==
    ASSUME IInv, NEW p \in Procs, StageCreate(p)
    PROVE  IInv'
  <1>0. ps[p] \in Local /\ WellFormed(p, ps[p]) /\ ps[p].pc = "stagemk" /\ fs \in FS
    BY LocalFacts DEF StageCreate, At
  <1>1. PICK o \in fs.unborn :
          /\ Put([fs EXCEPT !.at[ps[p].e] = o, !.unborn = @ \ {o}])
          /\ ps' = [ps EXCEPT ![p].pc = "stagepub", ![p].intent.source = o]
    BY DEF StageCreate
  <1>2. ps'[p] = [ps[p] EXCEPT !.pc = "stagepub", !.intent.source = o]
    BY <1>1, LocalFacts
  <1>3. ps' = [ps EXCEPT ![p] = ps'[p]] /\ ps'[p].owner = ps[p].owner /\ ps'[p].pc # "mkdir"
    BY <1>0, <1>1, LocalFacts DEF Local
  <1>4. o \in Objs
    BY <1>0, <1>1 DEF FS
  <1>5. ps'[p] \in Local
    <2>1. [ps[p].intent EXCEPT !.source = o] \in Intent
      BY <1>0, <1>4 DEF Local, Intent
    <2>2. "stagepub" \in Pcs
      BY PcFacts DEF StepPcs
    <2>. QED  BY <1>0, <1>2, <2>1, <2>2 DEF Local
  <1>6. WellFormed(p, ps'[p])
    BY <1>0, <1>2 DEF WellFormed, EntryPcs, RetirePcs, ExchangePcs, StagePcs, Local, Intent
  <1>7. FSPart' /\ fs'.dirs = fs.dirs
    <2> DEFINE f == [fs EXCEPT !.at[ps[p].e] = o, !.unborn = @ \ {o}]
    <2>1. f \in FS /\ f.dirs = fs.dirs
      BY <1>0, <1>4 DEF FS
    <2> HIDE DEF f
    <2>. QED  BY <1>1, <2>1, LocalFacts, PutFrame DEF f
  <1>. QED  BY <1>3, <1>5, <1>6, <1>7, LocalStep DEF StageCreate

LEMMA StagePublishStep ==
    ASSUME IInv, NEW p \in Procs, StagePublish(p)
    PROVE  IInv'
  <1>0. ps[p] \in Local /\ WellFormed(p, ps[p]) /\ ps[p].pc = "stagepub" /\ fs \in FS
        /\ ps[p].e \in Slot
    BY LocalFacts, SlotFacts DEF StagePublish, At, WellFormed, EntryPcs, StagePcs
  <1>1. CASE /\ ps[p].dst # None \/ Goto(p, "stagedrop")
             /\ Goto(p, "swap") \/ Goto(p, "stagedrop")
             /\ UNCHANGED <<fs, disk>>
    <2>1. PICK x \in {"swap", "stagedrop"} :
             ps' = [ps EXCEPT ![p].pc = x] /\ (x = "swap" => ps[p].dst # None)
      BY <1>1 DEF Goto
    <2>2. ps' = [ps EXCEPT ![p] = ps'[p]] /\ ps'[p].owner = ps[p].owner /\ ps'[p].pc # "mkdir"
      BY <2>1, LocalFacts DEF Local
    <2>3. ps'[p] \in Local
      BY <2>1, LocalFacts, PcFacts, UpdatePc DEF StepPcs
    <2>4. WellFormed(p, ps'[p])
      BY <1>0, <2>1, LocalFacts DEF WellFormed, EntryPcs, RetirePcs, ExchangePcs, StagePcs, Local
    <2>5. FSPart' /\ fs'.dirs = fs.dirs
      BY <1>1, LocalFacts, FSFrame
    <2>. QED  BY <2>2, <2>3, <2>4, <2>5, LocalStep DEF StagePublish
  <1>2. CASE /\ Put(Move(fs, ps[p].e, Dst))
             /\ ps' = [ps EXCEPT ![p].pc = "stagedrop", ![p].staged = TRUE]
    <2>1. ps'[p] = [ps[p] EXCEPT !.pc = "stagedrop", !.staged = TRUE]
      BY <1>2, LocalFacts
    <2>2. ps' = [ps EXCEPT ![p] = ps'[p]] /\ ps'[p].owner = ps[p].owner /\ ps'[p].pc # "mkdir"
      BY <1>0, <1>2, LocalFacts DEF Local
    <2>3. ps'[p] \in Local
      <3>1. "stagedrop" \in Pcs
        BY PcFacts DEF StepPcs
      <3>. QED  BY <1>0, <2>1, <3>1 DEF Local
    <2>4. WellFormed(p, ps'[p])
      BY <1>0, <2>1 DEF WellFormed, EntryPcs, RetirePcs, ExchangePcs, StagePcs, Local
    <2>5. FSPart' /\ fs'.dirs = fs.dirs
      BY <1>0, <1>2, MoveType, PutFrame, LocalFacts, SlotFacts
    <2>. QED  BY <2>2, <2>3, <2>4, <2>5, LocalStep DEF StagePublish
  <1>. QED  BY <1>1, <1>2 DEF StagePublish

LEMMA StageDropStep ==
    ASSUME IInv, NEW p \in Procs, StageDrop(p)
    PROVE  IInv'
  <1>1. CASE End(p) /\ UNCHANGED <<fs, disk, moved, budget>>
    BY <1>1, EndStep, Parts
  <1> DEFINE e == ps[p].stage
             t == [NoIntent EXCEPT !.kind = "stage"]
             l == [ps[p] EXCEPT !.pc = "clear", !.e = e, !.staged = FALSE, !.intent = t,
                                !.removed = FALSE, !.captured = FALSE, !.verdict = "none"]
             f == [fs EXCEPT !.at[e] = None, !.dropped = @ \cup ({fs.at[e]} \ {None})]
  <1>2. CASE Put(f) /\ ps' = [ps EXCEPT ![p] = l] /\ UNCHANGED Root
    <2>1. ps[p] \in Local /\ WellFormed(p, ps[p]) /\ ps[p].pc = "stagedrop" /\ fs \in FS
      BY LocalFacts DEF StageDrop, At
    <2>2. e \in E /\ ps[p].owner = p /\ ps[p].s \in Sess
      BY <2>1 DEF WellFormed
    <2>3. t \in Intent /\ t.kind = "stage"
      BY DEF NoIntent, Intent, Kinds
    <2>4. f \in FS /\ f.dirs = fs.dirs
      <3>1. e \in Slot
        BY <2>2, SlotFacts
      <3>. QED  BY <2>1, <3>1 DEF FS
    <2>5. l.pc = "clear" /\ l.e = e /\ l.intent = t /\ l.owner = p /\ l.s = ps[p].s /\ l.stage = e
      BY <2>1, <2>2 DEF Local
    <2> HIDE DEF f, t, e
    <2>6. l \in Local
      <3>1. "clear" \in Pcs /\ ps[p].next \in 0 .. MaxId + 1
        BY <2>1, PcFacts DEF StepPcs, Local
      <3>. QED  BY <2>1, <2>2, <2>3, <3>1, UpdateExchange
    <2> HIDE DEF l
    <2>7. WellFormed(p, l)
      BY <2>2, <2>3, <2>5 DEF WellFormed, EntryPcs, RetirePcs, ExchangePcs, StagePcs
    <2>8. FSPart' /\ fs'.dirs = fs.dirs
      BY <1>2, <2>4, LocalFacts, PutFrame
    <2>. QED  BY <1>2, <2>2, <2>5, <2>6, <2>7, <2>8, LocalStep
  <1>3. (End(p) /\ UNCHANGED <<fs, disk, moved, budget>>)
        \/ (Put(f) /\ ps' = [ps EXCEPT ![p] = l] /\ UNCHANGED Root)
    BY Zenon DEF StageDrop
  <1>. QED  BY <1>1, <1>2, <1>3

LEMMA FailStep ==
    ASSUME IInv, NEW p \in Procs, Fail(p)
    PROVE  IInv'
  <1>0. ps[p] \in Local /\ WellFormed(p, ps[p]) /\ budget' \in Budget /\ UNCHANGED <<fs, disk, moved>>
    BY LocalFacts, Parts, SlotAssumption DEF Fail, Spend, Budget
  <1>1. CASE End(p)
    BY <1>0, <1>1, EndStep
  <1>2. CASE \E x \in {"settle", "fail", "stagedrop"} :
               /\ Goto(p, x) /\ lock' = lock
               /\ x # "stagedrop" => ps[p].pc \in RemovalPcs /\ ps[p].intent.kind # "stage"
               /\ x = "stagedrop" =>
                    ps[p].pc \in {"stagemk", "stagepub", "swap", "swapback"} /\ ps[p].intent.kind = "stage"
    <2>1. PICK x \in {"settle", "fail", "stagedrop"} :
               /\ ps' = [ps EXCEPT ![p].pc = x]
               /\ x # "stagedrop" => ps[p].pc \in RemovalPcs /\ ps[p].intent.kind # "stage"
               /\ x = "stagedrop" =>
                    ps[p].pc \in {"stagemk", "stagepub", "swap", "swapback"} /\ ps[p].intent.kind = "stage"
      BY <1>2 DEF Goto
    <2>2. ps' = [ps EXCEPT ![p] = ps'[p]] /\ ps'[p].owner = ps[p].owner /\ ps'[p].pc # "mkdir"
      BY <2>1, LocalFacts DEF Local
    <2>3. ps'[p] \in Local
      BY <2>1, LocalFacts, PcFacts, UpdatePc DEF StepPcs
    <2>4. ps[p].pc \in EntryPcs /\ ps[p].pc \notin {"idle", "ready", "scan", "mkdir"}
      BY <2>1 DEF RemovalPcs, EntryPcs, RetirePcs, ExchangePcs, StagePcs
    <2>5. WellFormed(p, ps'[p])
      BY <1>0, <2>1, <2>4, LocalFacts DEF WellFormed, EntryPcs, RetirePcs, ExchangePcs, StagePcs, Local
    <2>6. LocalPart'
      BY <2>2, <2>3, <2>5, LocalFrame, Parts
    <2>7. LockPart'
      BY <1>0, <1>2, <2>2, LockFrame, Parts
    <2>8. FSPart'
      BY <1>0, FSFrame, Parts
    <2>. QED  BY <1>0, <2>6, <2>7, <2>8, Parts, PartsPrime
  <1>3. ASSUME ps[p].pc \in RemovalPcs, ps[p].intent.kind # "stage",
               Goto(p, IF ps[p].verdict = "error" THEN "settle" ELSE "fail"), lock' = lock
        PROVE  IInv'
    <2>1. Goto(p, "settle") \/ Goto(p, "fail")
      BY <1>3
    <2>. QED  BY <1>2, <1>3, <2>1
  <1>4. ASSUME \/ ps[p].pc \in {"stagemk", "stagepub"}
               \/ ps[p].pc \in {"swap", "swapback"} /\ ps[p].intent.kind = "stage",
               Goto(p, "stagedrop"), lock' = lock
        PROVE  IInv'
    <2>1. ps[p].pc \in {"stagemk", "stagepub", "swap", "swapback"} /\ ps[p].intent.kind = "stage"
      BY <1>0, <1>4 DEF WellFormed
    <2>. QED  BY <1>2, <1>4, <2>1
  <1>. QED  BY <1>1, <1>3, <1>4 DEF Fail

LEMMA ForkStep ==
    ASSUME IInv, NEW p \in Procs, NEW c \in Procs, Fork(p, c)
    PROVE  IInv'
  <1>0. ps[p] \in Local /\ WellFormed(p, ps[p]) /\ ps[p].pc = "ready" /\ ps[p].owner = p
        /\ ps[c].pc = "idle" /\ c # p
    BY LocalFacts DEF Fork, At, RequireOwner
  <1>1. ps' = [ps EXCEPT ![c] = ps[p]] /\ lock' = [lock EXCEPT !.fds = @ \cup {c}]
        /\ UNCHANGED <<fs, disk, moved>> /\ budget' \in Budget
    BY Parts, SlotAssumption DEF Fork, Spend, Budget
  <1>2. WellFormed(c, ps[p])
    BY <1>0 DEF WellFormed, EntryPcs, RetirePcs, ExchangePcs, StagePcs
  <1>3. LocalPart'
    BY <1>0, <1>1, <1>2, LocalFrame, Parts
  <1>4. LockPart'
    <2>1. lock \in [held : BOOLEAN, fds : SUBSET Procs]
      BY Parts DEF LockPart
    <2>2. lock' \in [held : BOOLEAN, fds : SUBSET Procs] /\ lock'.held = lock.held
          /\ lock'.fds = lock.fds \cup {c}
      BY <1>1, <2>1
    <2>3. ps'[c] = ps[p] /\ \A q \in Procs : q # c => ps'[q] = ps[q]
      BY <1>1, LocalFacts
    <2>4. ASSUME NEW q \in Procs, ps'[q].owner = q PROVE q # c /\ ps[q].owner = q
      BY <1>0, <2>3, <2>4
    <2>5. ASSUME NEW q \in Procs, ps'[q].pc = "mkdir" PROVE q # c /\ ps[q].pc = "mkdir"
      BY <1>0, <2>3, <2>5
    <2>. QED  BY <1>1, <2>2, <2>4, <2>5, Parts DEF LockPart, LockInv
  <1>5. FSPart'
    BY <1>1, FSFrame, Parts
  <1>. QED  BY <1>1, <1>3, <1>4, <1>5, Parts, PartsPrime

LEMMA KillStep ==
    ASSUME IInv, NEW p \in Procs, Kill(p)
    PROVE  IInv'
  <1>1. /\ ps' = [ps EXCEPT ![p] = Idle]
        /\ lock' = [held |-> lock.held /\ lock.fds \ {p} # {}, fds |-> lock.fds \ {p}]
        /\ UNCHANGED <<fs, disk, moved>> /\ budget' \in Budget
    BY Parts, SlotAssumption DEF Kill, Spend, Budget
  <1>2. WellFormed(p, Idle) /\ Idle.owner # p /\ Idle.pc # "mkdir"
    BY SlotFacts DEF WellFormed, Idle, EntryPcs, RetirePcs, ExchangePcs, StagePcs
  <1>3. LocalPart'
    BY <1>1, <1>2, IdleType, LocalFrame, Parts
  <1>4. LockPart'
    <2>1. ps'[p] = Idle /\ \A q \in Procs : q # p => ps'[q] = ps[q]
      BY <1>1, LocalFacts
    <2>2. lock' \in [held : BOOLEAN, fds : SUBSET Procs]
      BY <1>1, Parts DEF LockPart
    <2>3. ASSUME NEW q \in Procs, ps'[q].owner = q PROVE q # p /\ ps[q].owner = q
      BY <1>2, <2>1, <2>3
    <2>4. ASSUME NEW q \in Procs, ps'[q].owner = q PROVE lock'.held /\ q \in lock'.fds
      BY <1>1, <2>3, <2>4, Parts DEF LockPart, LockInv
    <2>5. ASSUME NEW q \in Procs, ps'[q].pc = "mkdir" PROVE ps[q].pc = "mkdir"
      BY <1>2, <2>1, <2>5
    <2>. QED  BY <1>1, <2>2, <2>3, <2>4, <2>5, Parts DEF LockPart, LockInv
  <1>5. FSPart'
    BY <1>1, FSFrame, Parts
  <1>. QED  BY <1>1, <1>3, <1>4, <1>5, Parts, PartsPrime

LEMMA EnvStep ==
    ASSUME IInv, Env
    PROVE  IInv'
  <1>1. UNCHANGED <<lock, ps>> /\ budget' \in Budget
    BY Parts, SlotAssumption DEF Env, Spend, Budget
  <1>2. moved' \in BOOLEAN
    BY Parts DEF Env
  <1>3. fs \in FS /\ FSPart /\ EnvSlots \subseteq Slot
    BY Parts DEF FSPart, FSOK, EnvSlots, Slot
  <1>4. FSPart' /\ fs'.dirs = fs.dirs
    <2>1. ASSUME NEW n \in EnvSlots, NEW o \in Objs, EnvCreate(n, o)
          PROVE  FSPart' /\ fs'.dirs = fs.dirs
      <3> DEFINE f == [fs EXCEPT !.at[n] = o, !.unborn = @ \ {o},
                                 !.dropped = @ \cup ({fs.at[n]} \ {None})]
      <3>1. f \in FS /\ f.dirs = fs.dirs
        BY <1>3 DEF FS
      <3>2. Put(f)
        BY <2>1 DEF EnvCreate
      <3> HIDE DEF f
      <3>. QED  BY <1>3, <3>1, <3>2, PutFrame
    <2>2. ASSUME NEW n \in EnvSlots, EnvUnlink(n)
          PROVE  FSPart' /\ fs'.dirs = fs.dirs
      <3> DEFINE f == [fs EXCEPT !.at[n] = None, !.dropped = @ \cup {fs.at[n]}]
      <3>1. f \in FS /\ f.dirs = fs.dirs
        BY <1>3, <2>2 DEF FS, EnvUnlink
      <3>2. Put(f)
        BY <2>2 DEF EnvUnlink
      <3> HIDE DEF f
      <3>. QED  BY <1>3, <3>1, <3>2, PutFrame
    <2>3. ASSUME NEW n \in EnvSlots, NEW m \in EnvSlots, EnvRename(n, m)
          PROVE  FSPart' /\ fs'.dirs = fs.dirs
      BY <1>3, <2>3, MoveType, PutFrame DEF EnvRename
    <2>4. CASE UNCHANGED <<fs, disk>>
      BY <1>3, <2>4, FSFrame
    <2>. QED  BY <2>1, <2>2, <2>3, <2>4 DEF Env
  <1>5. LocalPart'
    BY <1>1, Parts DEF LocalPart, WellFormed
  <1>6. LockPart'
    BY <1>1, <1>4, Parts DEF LockPart, LockInv
  <1>. QED  BY <1>1, <1>2, <1>4, <1>5, <1>6, PartsPrime

LEMMA TearType ==
    ASSUME NEW f \in FS
    PROVE  Tear(f) \in FS /\ Tear(f).dirs = f.dirs
  <1>1. ASSUME NEW r \in File PROVE TearFile(r) \in File
    BY DEF File, TearFile, Data
  <1>2. /\ [s \in Sess |-> TearFile(f.hdr[s])] \in [Sess -> File]
        /\ [e \in E |-> TearFile(f.rec[e])] \in [E -> File]
    BY <1>1 DEF FS
  <1>. QED  BY <1>2 DEF Tear, FS

\* Every process idle and no descriptor open.
LEMMA AllIdle ==
    ASSUME ps = [p \in Procs |-> Idle], lock = [held |-> FALSE, fds |-> {}]
    PROVE  LocalPart /\ LockPart
  <1>1. ASSUME NEW p \in Procs PROVE WellFormed(p, Idle) /\ Idle.owner # p /\ Idle.pc # "mkdir"
    BY SlotFacts DEF WellFormed, Idle, EntryPcs, RetirePcs, ExchangePcs, StagePcs
  <1>. QED  BY <1>1, IdleType DEF LocalPart, LockPart, LockInv

LEMMA PowerLossStep ==
    ASSUME IInv, PowerLoss
    PROVE  IInv'
  <1>1. PICK f \in disk : fs' = Tear(f)
    BY DEF PowerLoss
  <1>2. f \in FS /\ \A s, t \in f.dirs \ Legacy : s = t
    BY <1>1, Parts DEF FSPart, FSOK
  <1>3. FSOK(fs')
    BY <1>1, <1>2, TearType DEF FSOK
  <1>4. FSPart'
    BY <1>3, Parts, FSFrame DEF PowerLoss
  <1>5. budget' \in Budget /\ moved' \in BOOLEAN
    BY Parts, SlotAssumption DEF PowerLoss, Spend, Budget
  <1>6. LocalPart' /\ LockPart'
    <2>1. ps' = [p \in Procs |-> Idle] /\ lock' = [held |-> FALSE, fds |-> {}]
      BY DEF PowerLoss
    <2>2. ASSUME NEW p \in Procs PROVE WellFormed(p, Idle) /\ Idle.owner # p /\ Idle.pc # "mkdir"
      BY SlotFacts DEF WellFormed, Idle, EntryPcs, RetirePcs, ExchangePcs, StagePcs
    <2>. QED  BY <2>1, <2>2, IdleType DEF LocalPart, LockPart, LockInv
  <1>. QED  BY <1>4, <1>5, <1>6, PartsPrime
-----------------------------------------------------------------------------
(* The invariant holds initially and every step keeps it.                  *)

LEMMA InitInvariant == Init => IInv
  <1> SUFFICES ASSUME Init PROVE IInv
    OBVIOUS
  <1>1. PICK at0 \in [EnvSlots \cup LegacySlots -> Objs \cup {None}], old \in [LegacySlots -> Names] :
          fs = [at |-> [x \in Slot |-> IF x \in DOMAIN at0 THEN at0[x] ELSE None],
                  dirs |-> Legacy,
                  hdr |-> [s \in Sess |-> IF s \in Legacy THEN [st |-> "pub", data |-> "durable"]
                                                          ELSE NoFile],
                  rec |-> [e \in E |-> IF e \in LegacySlots
                                       THEN [st |-> IF at0[e] = None THEN "pend" ELSE "pub",
                                             data |-> "durable"]
                                       ELSE NoFile],
                  intent |-> [e \in E |-> IF e \in LegacySlots
                                          THEN [NoIntent EXCEPT !.name = old[e]] ELSE NoIntent],
                  unborn |-> Objs \ {at0[x] : x \in DOMAIN at0},
                  dropped |-> {}, retired |-> {}, displaced |-> {}]
    BY Zenon DEF Init
  <1>2. [x \in Slot |-> IF x \in DOMAIN at0 THEN at0[x] ELSE None] \in [Slot -> Objs \cup {None}]
    OBVIOUS
  <1>3. [s \in Sess |-> IF s \in Legacy THEN [st |-> "pub", data |-> "durable"] ELSE NoFile]
          \in [Sess -> File]
    BY NoFileType DEF File, Data
  <1>4. [e \in E |-> IF e \in LegacySlots
                     THEN [st |-> IF at0[e] = None THEN "pend" ELSE "pub", data |-> "durable"]
                     ELSE NoFile] \in [E -> File]
    BY NoFileType DEF File, Data
  <1>5. ASSUME NEW n \in Names PROVE [NoIntent EXCEPT !.name = n] \in Intent
    BY DEF NoIntent, Intent, Kinds, Slot
  <1>6. [e \in E |-> IF e \in LegacySlots THEN [NoIntent EXCEPT !.name = old[e]] ELSE NoIntent]
          \in [E -> Intent]
    BY <1>5, NoFileType
  <1>7. fs \in FS /\ fs.dirs = Legacy
    BY <1>1, <1>2, <1>3, <1>4, <1>6, SlotAssumption DEF FS
  <1>8. FSPart
    BY <1>7 DEF Init, FSPart, FSOK
  <1>9. LocalPart /\ LockPart
    BY AllIdle DEF Init
  <1>10. moved \in BOOLEAN /\ budget \in Budget
    <2>1. moved = FALSE
      BY Zenon DEF Init
    <2>2. budget = [runs |-> MaxRuns, env |-> MaxEnv, fail |-> MaxFail, crash |-> MaxCrash]
      BY Zenon DEF Init
    <2>3. moved \in BOOLEAN
      BY <2>1, Zenon
    <2>4. budget \in Budget
      BY <2>2, SlotAssumption DEF Budget
    <2>. QED  BY <2>3, <2>4
  <1>. QED  BY <1>8, <1>9, <1>10, Parts

LEMMA Stutter == IInv /\ UNCHANGED vars => IInv'
  BY DEF vars, IInv, TypeOK, WellFormed, LockInv, OneSession

LEMMA SessionStep ==
    ASSUME IInv, NEW p \in Procs, Session(p)
    PROVE  IInv'
  <1>1. ASSUME NEW c \in BOOLEAN, Start(p, c) PROVE IInv'
    BY <1>1, StartStep
  <1>2. ASSUME NEW s \in Sess, RecoverEnter(p, s) \/ MakeSession(p, s) PROVE IInv'
    BY <1>2, RecoverEnterStep, MakeSessionStep
  <1>3. ASSUME ScanDone(p) \/ HeaderWrite(p) \/ HeaderSync(p) \/ HeaderRename(p) PROVE IInv'
    BY <1>3, ScanDoneStep, HeaderWriteStep, HeaderSyncStep, HeaderRenameStep
  <1>4. ASSUME NEW e \in E, RecoverPending(p, e) \/ RecoverUnknown(p, e) \/ RecoverRecord(p, e)
        PROVE  IInv'
    BY <1>4, RecoverPendingStep, EndSteps, RecoverRecordStep
  <1>5. ASSUME RecoverClear(p) \/ RemoveHeader(p) \/ RemoveDirectory(p) \/ Ended(p) PROVE IInv'
    BY <1>5, RecoverClearStep, RemoveHeaderStep, RemoveDirectoryStep, EndedStep
  <1>6. ASSUME Drop(p) PROVE IInv'
    BY <1>6, EndStep, Parts DEF Drop
  <1>7. ASSUME Sync(p) \/ Fail(p) PROVE IInv'
    BY <1>7, SyncStep, FailStep
  <1>8. ASSUME NEW c \in Procs, Fork(p, c) PROVE IInv'
    BY <1>8, ForkStep
  <1>. QED  BY <1>1, <1>2, <1>3, <1>4, <1>5, <1>6, <1>7, <1>8 DEF Session

LEMMA RemovalStep ==
    ASSUME IInv, NEW p \in Procs, Removal(p)
    PROVE  IInv'
  <1>1. ASSUME NEW n \in Names, Remove(p, n) \/ RemoveAfterPublication(p, n) PROVE IInv'
    BY <1>1, RemoveSteps
  <1>2. ASSUME RegisterStage(p) \/ StageCreate(p) \/ StagePublish(p) \/ StageDrop(p) PROVE IInv'
    BY <1>2, RegisterStageStep, StageCreateStep, StagePublishStep, StageDropStep
  <1>3. ASSUME Check(p) \/ WritePending(p) \/ SyncRecord(p) \/ PublishRecord(p) \/ Published(p)
        PROVE  IInv'
    BY <1>3, CheckStep, WritePendingStep, SyncRecordStep, PublishRecordStep, PublishedStep
  <1>4. ASSUME Exchange(p) \/ RenameExchange(p) \/ ExchangeCheck(p) PROVE IInv'
    BY <1>4, ExchangeStep, RenameExchangeStep, ExchangeCheckStep
  <1>5. ASSUME PreCapture(p) \/ Capture(p) \/ Verify(p) \/ PreUnlink(p) \/ Unlink(p) PROVE IInv'
    BY <1>5, PreCaptureStep, CaptureStep, VerifyStep, PreUnlinkStep, UnlinkStep
  <1>6. ASSUME ClearRecord(p) \/ Restore(p) \/ Failed(p) \/ Settle(p) PROVE IInv'
    BY <1>6, ClearRecordStep, RestoreStep, FailedStep, SettleStep
  <1>. QED  BY <1>1, <1>2, <1>3, <1>4, <1>5, <1>6 DEF Removal

LEMMA NextInvariant == IInv /\ [Next]_vars => IInv'
  <1> SUFFICES ASSUME IInv, [Next]_vars PROVE IInv'
    OBVIOUS
  <1>1. ASSUME NEW p \in Procs, Session(p) \/ Removal(p) \/ Kill(p) PROVE IInv'
    BY <1>1, SessionStep, RemovalStep, KillStep
  <1>2. CASE Env
    BY <1>2, EnvStep
  <1>3. CASE PowerLoss
    BY <1>3, PowerLossStep
  <1>4. CASE UNCHANGED vars
    BY <1>4, Stutter
  <1>. QED  BY <1>1, <1>2, <1>3, <1>4 DEF Next

\* The inductive invariant: besides the types, what each program counter of the
\* retirement protocol implies about its local state, and who holds the flock.
THEOREM Inductive == Spec => []IInv
  BY InitInvariant, NextInvariant, PTL DEF Spec

\* Whatever the numbers of processes, names, objects, sessions and entries,
\* and however often calls fail and machines crash, the state of the journal
\* stays well typed: no retirement uses an entry id past the session's counter
\* or an intent without a name (Session::allocate_entry, Intent).
THEOREM TypeCorrect == Spec => []TypeOK
  <1>1. IInv => TypeOK
    BY DEF IInv
  <1>. QED  BY <1>1, Inductive, PTL

\* In every file system state a crash can expose there is at most one session
\* directory of the current format, and at most one process owns a session
\* (open_root's nonblocking flock, recovery before create_session_directory,
\* and a RootLock that a forked child never unlocks).
THEOREM SingleSession == Spec => []OneSession
  <1>1. IInv => OneSession
    BY DEF IInv
  <1>. QED  BY <1>1, Inductive, PTL

-----------------------------------------------------------------------------
(* A file system state.                                                    *)

Accounted(f) == Objs \subseteq Located(f) \cup f.unborn \cup f.dropped \cup f.retired

\* An object is in one place, and one that is there was not retired.
Distinct(f) ==
    /\ \A a, b \in Slot : f.at[a] = f.at[b] /\ f.at[a] # None => a = b
    /\ \A a \in Slot : f.at[a] # None => f.at[a] \notin f.unborn \cup f.retired
    /\ f.unborn \cap f.retired = {}

\* Entries and records are in session directories, of one format at a time.
Housed(f) ==
    /\ \A e \in E : f.at[e] # None \/ f.rec[e].st # "none" => SessionOf(e) \in f.dirs
    /\ f.dirs \subseteq Legacy \/ f.dirs \cap Legacy = {}

Kept(f) == \A e \in E : f.at[e] # None /\ f.at[e] \notin f.displaced => Recorded(f, e)

\* Entries of the current format that hold an object by a record of retirement.
Captured(f) ==
    {e \in E : f.at[e] # None /\ f.intent[e].kind # "stage" /\ SessionOf(e) \notin Legacy}

\* What lies in e by its record: an object from a name of the parent, or the one
\* a stage displaced, which comes from the stage's entry.
Origin(f, e, o) ==
    f.intent[e].name \notin Names =>
        /\ o \in f.displaced
        /\ f.intent[e].name \in E =>
              /\ f.intent[e].name = <<SessionOf(e), 0>>
              /\ \/ f.intent[f.intent[e].name].kind = "stage"
                 \/ f.intent[f.intent[e].name] = NoIntent
Named(f) ==
    /\ \A e \in E : f.rec[e].st # "none" /\ f.intent[e].kind # "stage" =>
          f.intent[e].name \in Slot /\ (SessionOf(e) \in Legacy => f.intent[e].name \in Names)
    /\ \A e \in Captured(f) : Origin(f, e, f.at[e])

Sound(f) == Accounted(f) /\ Distinct(f) /\ Housed(f) /\ Kept(f) /\ Named(f)

\* Without interference a capture holds the recorded object, its name is free
\* and no other capture's.
Back(f) ==
    /\ \A e \in Captured(f) : f.intent[e].name \in Names =>
          f.at[e] = f.intent[e].expect /\ f.at[f.intent[e].name] = None
    /\ \A e, g \in Captured(f) :
          f.intent[e].name \in Names /\ f.intent[e].name = f.intent[g].name => e = g

Quiet == budget.env = MaxEnv

FilesInv == \A f \in disk : Sound(f) /\ (Quiet => Back(f))
-----------------------------------------------------------------------------
(* What the owner of the session or of the recovery knows: l its state, f  *)
(* the file system.                                                        *)

HeaderPcs == {"hdrD", "hdrRoot", "ready"} \cup EntryPcs

\* The session is in the root, and its coming entries are free.
InSession(l, f) ==
    /\ l.pc \in {"hdrwrite", "hdrfsync", "hdrrename"} \cup HeaderPcs =>
          /\ l.s \in f.dirs \ Legacy
          /\ \A i \in l.next .. MaxId : f.at[<<l.s, i>>] = None /\ f.rec[<<l.s, i>>].st = "none"
    /\ l.pc = "hdrrename" => f.hdr[l.s].data = "durable"
    /\ l.pc \in HeaderPcs => f.hdr[l.s] = [st |-> "pub", data |-> "durable"]

\* The entry counter starts at 0 with the session.
RecoverPcs == {"scan", "recdir", "recP", "recD", "recclr", "recclrD", "mkdir"}
Fresh(l) ==
    /\ l.pc \in RecoverPcs \/ l.recovered => l.next = 0 /\ l.stage = None
    /\ l.pc \in {"hdrwrite", "hdrfsync", "hdrrename"} => l.next = 0 /\ l.stage = None
    /\ l.pc \in {"mkdir", "hdrwrite", "hdrfsync", "hdrrename"} \cup HeaderPcs => ~ l.recovered

\* The entries of the call are the session's, and used.
Used(l, e) == SessionOf(e) = l.s /\ e[2] < l.next
Entry(l) ==
    /\ l.pc \in EntryPcs => Used(l, l.e)
    /\ l.pc \in EntryPcs /\ l.intent.kind # "stage" => l.e[2] + 1 = l.next
    /\ l.pc \in ExchangePcs => l.intent.kind # "retire"
    /\ l.stage # None => l.stage = <<l.s, 0>> /\ l.next > 0
    /\ l.pc \in EntryPcs /\ l.intent.kind = "stage" => l.e = l.stage
    /\ l.pc \in EntryPcs /\ l.intent.kind # "stage" /\ l.stage = None => l.intent.name \in Names
    /\ l.intent.kind = "replace" => l.stage = None /\ l.dst = l.intent.expect
    /\ l.intent.kind = "stage" => l.intent.expect = None

BeforeCapture == {"check", "write", "fsyncrec", "rename", "pubsync", "published", "exchange",
                  "swap", "swapcheck", "swapback", "precap", "capture"}
PublishedPcs == {"pubsync", "published", "exchange", "swap", "swapcheck", "swapback", "precap", "capture"}
NowEmpty == {"rmD", "rmP", "clear", "clrsync", "rstP", "rstD", "rstclr"}
NotRemoved == BeforeCapture \cup {"capP", "capD", "verify", "preunlink", "unlink", "rst", "rstP", "rstD", "rstclr"}

\* The entry of a retirement: empty until the capture, then under its record.
Retiring(l, f) ==
    l.intent.kind # "stage" =>
        /\ l.pc \in BeforeCapture => ~ l.captured
        /\ l.pc \in NotRemoved => ~ l.removed
        /\ l.pc \in EntryPcs /\ ~ l.captured => f.at[l.e] = None
        /\ l.pc \in EntryPcs /\ f.at[l.e] # None => f.intent[l.e] = l.intent
        /\ l.pc \in NowEmpty => f.at[l.e] = None
        /\ l.pc \in {"fsyncrec", "rename"} => f.rec[l.e].st = "pend"
        /\ l.pc \in PublishedPcs => f.rec[l.e].st = "pub" /\ f.rec[l.e].data = "durable"
        /\ l.pc = "rename" => f.rec[l.e].data = "durable"
        /\ l.pc \in {"fsyncrec", "rename"} \cup PublishedPcs => f.intent[l.e] = l.intent
        /\ l.pc = "unlink" => f.at[l.e] = l.intent.expect

\* The stage's entry: empty until the copy is built, under a record of its own.
Staging(l, f) ==
    /\ l.intent.kind = "stage" =>
        /\ ~ l.captured /\ ~ l.removed /\ l.verdict # "removed"
        /\ l.pc \in StagePcs \ {"stagepub"} => f.at[l.e] = None
        /\ l.pc \in {"clear", "clrsync"} => f.at[l.e] = None
        /\ l.pc \in {"fsyncrec", "rename"} => f.rec[l.e].st = "pend"
        /\ l.pc \in {"pubsync", "published", "stagemk", "stagepub"} \cup ExchangePcs =>
              f.rec[l.e].st = "pub" /\ f.rec[l.e].data = "durable"
        /\ l.pc = "rename" => f.rec[l.e].data = "durable"
        /\ l.pc \in (StagePcs \ {"write"}) \cup ExchangePcs => f.intent[l.e].kind = "stage"
        /\ l.pc = "swapcheck" => f.at[l.e] \in f.displaced \cup {None}
    \* The object it displaced is retired by a call of its own.
    /\ l.pc \in EntryPcs \ {"stagedrop"} /\ l.intent.kind # "stage" /\ l.stage # None =>
        /\ l.intent.name = l.stage /\ l.e # l.stage /\ l.intent.kind = "retire"
        /\ l.intent.expect \in f.displaced
        /\ l.pc \in BeforeCapture => f.at[l.stage] = l.intent.expect
        /\ f.intent[l.stage].kind = "stage"

Recovering(l, f) == l.pc \in {"recP", "recD", "recclr"} => f.at[l.e] = None

\* The flag says whether the object was retired.
Flagged(l, f) ==
    /\ l.intent.kind # "stage" /\ l.intent.expect # None => (l.removed <=> l.intent.expect \in f.retired)
    /\ l.pc \in {"rmD", "rmP"} => l.removed

\* Records the caller was not told of belong to the call.
Pending(l) == IF l.pc = "stagedrop" THEN {l.stage}
              ELSE IF l.pc \in EntryPcs THEN {l.e, l.stage} ELSE {}
Told(l, f) ==
    l.pc \in HeaderPcs =>
        \A e \in E : SessionOf(e) = l.s /\ f.rec[e].st # "none" => l.recoveryRequired \/ e \in Pending(l)

\* Without interference the name still holds what the call is about.
Expected(l, f) ==
    l.intent.kind # "stage" =>
        /\ l.intent.kind = "retire" /\ l.pc \in BeforeCapture \ {"check"} => f.at[l.intent.name] = l.intent.expect
        /\ l.pc \in {"precap", "capture"} => f.at[l.intent.name] = l.intent.expect

OwnerOK(l, f) ==
    /\ Fresh(l) /\ InSession(l, f) /\ Entry(l) /\ Retiring(l, f) /\ Staging(l, f) /\ Recovering(l, f)
    /\ Flagged(l, f) /\ Told(l, f)

OwnerInv ==
    \A p \in Procs : ps[p].owner = p => OwnerOK(ps[p], fs) /\ (Quiet => Expected(ps[p], fs))

\* An acknowledged removal is in every state a crash can expose.
Acknowledges(l) ==
    \/ l.verdict = "removed"
    \/ l.pc = "rmP"
    \/ l.pc = "clear" /\ l.removed /\ l.verdict = "none"
AckInv == \A p \in Procs : Acknowledges(ps[p]) => \A f \in disk : ps[p].intent.expect \in f.retired

RInv == IInv /\ FilesInv /\ OwnerInv /\ AckInv
-----------------------------------------------------------------------------
(* What the operations do to a file system state.                          *)

SameObjs(f, g) ==
    g.unborn = f.unborn /\ g.dropped = f.dropped /\ g.retired = f.retired /\ g.displaced = f.displaced
SameRecs(f, g) == g.rec = f.rec /\ g.intent = f.intent
SameHome(f, g) == g.dirs = f.dirs /\ g.hdr = f.hdr

LEMMA EntryFacts ==
    \A e \in E : /\ e = <<SessionOf(e), e[2]>> /\ SessionOf(e) \in Sess /\ e[2] \in 0 .. MaxId
                 /\ e \in Slot /\ e \notin Names /\ e # Dst /\ e # None
  BY SlotAssumption DEF E, Slot, SessionOf

LEMMA FSFields ==
    ASSUME NEW f \in FS
    PROVE  /\ \A x \in Slot : f.at[x] \in Objs \cup {None}
           /\ \A e \in E : f.rec[e] \in File /\ f.intent[e] \in Intent
           /\ \A s \in Sess : f.hdr[s] \in File
  BY DEF FS

\* A rename.
Renamed(f, g, a, b) ==
    /\ g \in FS /\ SameObjs(f, g) /\ SameRecs(f, g) /\ SameHome(f, g)
    /\ g.at[a] = None /\ g.at[b] = f.at[a]
    /\ \A x \in Slot \ {a, b} : g.at[x] = f.at[x]
LEMMA MoveFS ==
    ASSUME NEW f \in FS, NEW a \in Slot, NEW b \in Slot, a # b
    PROVE  Renamed(f, Move(f, a, b), a, b)
  <1>. DEFINE g == Move(f, a, b)
  <1>1. g \in FS
    BY MoveType
  <1>2. SameObjs(f, g) /\ SameRecs(f, g) /\ SameHome(f, g)
    BY DEF Move, FS, SameObjs, SameRecs, SameHome
  <1>3. g.at = [f.at EXCEPT ![a] = None, ![b] = f.at[a]] /\ f.at \in [Slot -> Objs \cup {None}]
    BY DEF Move, FS
  <1>. HIDE DEF g
  <1>4. Renamed(f, g, a, b)
    BY <1>1, <1>2, <1>3 DEF Renamed
  <1>. QED  BY <1>4 DEF g

\* An exchange.
Swapped(f, g, a, b) ==
    /\ g \in FS /\ SameRecs(f, g) /\ SameHome(f, g)
    /\ g.unborn = f.unborn /\ g.dropped = f.dropped /\ g.retired = f.retired
    /\ g.displaced = IF a \in E THEN f.displaced \cup ({f.at[b]} \ {None}) ELSE f.displaced
    /\ g.at[a] = f.at[b] /\ g.at[b] = f.at[a]
    /\ \A x \in Slot \ {a, b} : g.at[x] = f.at[x]
LEMMA SwapFS ==
    ASSUME NEW f \in FS, NEW a \in Slot, NEW b \in Slot, a # b
    PROVE  Swapped(f, Swap(f, a, b), a, b)
  <1>. DEFINE g == Swap(f, a, b)
  <1>1. g \in FS
    BY MoveType
  <1>2. SameRecs(f, g) /\ SameHome(f, g)
        /\ g.unborn = f.unborn /\ g.dropped = f.dropped /\ g.retired = f.retired
    BY DEF Swap, FS, SameRecs, SameHome
  <1>3. g.displaced = IF a \in E THEN f.displaced \cup ({f.at[b]} \ {None}) ELSE f.displaced
    BY DEF Swap, FS
  <1>4. g.at = [f.at EXCEPT ![a] = f.at[b], ![b] = f.at[a]] /\ f.at \in [Slot -> Objs \cup {None}]
    BY DEF Swap, FS
  <1>. HIDE DEF g
  <1>5. Swapped(f, g, a, b)
    BY <1>1, <1>2, <1>3, <1>4 DEF Swapped
  <1>. QED  BY <1>5 DEF g

\* An update of one record.
WithRecord(f, e, r, t) == [f EXCEPT !.rec[e] = r, !.intent[e] = t]
LEMMA RecordFS ==
    ASSUME NEW f \in FS, NEW e \in E, NEW r \in File, NEW t \in Intent, NEW g, g = WithRecord(f, e, r, t)
    PROVE  /\ g \in FS /\ SameObjs(f, g) /\ SameHome(f, g) /\ g.at = f.at
           /\ g.rec[e] = r /\ g.intent[e] = t
           /\ \A x \in E \ {e} : g.rec[x] = f.rec[x] /\ g.intent[x] = f.intent[x]
  BY DEF FS, SameObjs, SameHome, WithRecord

SyncedRecord(f, e) == [f EXCEPT !.rec[e].data = "durable"]
PublishedRecord(f, e) == [f EXCEPT !.rec[e].st = "pub"]
LEMMA RecordFieldFS ==
    ASSUME NEW f \in FS, NEW e \in E, NEW g,
           g = SyncedRecord(f, e) \/ g = PublishedRecord(f, e)
    PROVE  /\ g \in FS /\ SameObjs(f, g) /\ SameHome(f, g) /\ g.at = f.at /\ g.intent = f.intent
           /\ g = SyncedRecord(f, e) =>
                g.rec[e].st = f.rec[e].st /\ g.rec[e].data = "durable"
           /\ g = PublishedRecord(f, e) =>
                g.rec[e].st = "pub" /\ g.rec[e].data = f.rec[e].data
           /\ \A x \in E \ {e} : g.rec[x] = f.rec[x]
  <1>1. f.rec[e] \in File /\ [f.rec[e] EXCEPT !.data = "durable"] \in File
        /\ [f.rec[e] EXCEPT !.st = "pub"] \in File
    BY DEF FS, File, Data
  <1>2. \A r \in File : [f EXCEPT !.rec[e] = r] \in FS
    BY DEF FS
  <1>3. ASSUME NEW r \in File, g = [f EXCEPT !.rec[e] = r]
        PROVE  /\ SameObjs(f, g) /\ SameHome(f, g) /\ g.at = f.at /\ g.intent = f.intent
               /\ g.rec[e] = r /\ \A x \in E \ {e} : g.rec[x] = f.rec[x]
    BY <1>3 DEF FS, SameObjs, SameHome
  <1>4. CASE g = SyncedRecord(f, e)
    <2>. DEFINE r == [f.rec[e] EXCEPT !.data = "durable"]
    <2>1. g = [f EXCEPT !.rec[e] = r] /\ r.st = f.rec[e].st /\ r.data = "durable" /\ r \in File
      BY <1>1, <1>4 DEF FS, File, SyncedRecord, PublishedRecord
    <2>. HIDE DEF r
    <2>2. g \in FS /\ SameObjs(f, g) /\ SameHome(f, g) /\ g.at = f.at /\ g.intent = f.intent
          /\ g.rec[e] = r /\ \A x \in E \ {e} : g.rec[x] = f.rec[x]
      BY <1>2, <1>3, <2>1
    <2>3. g = PublishedRecord(f, e) => g.rec[e].st = "pub" /\ g.rec[e].data = f.rec[e].data
      BY <1>1 DEF FS, File, SyncedRecord, PublishedRecord
    <2>. QED  BY <2>1, <2>2, <2>3
  <1>5. CASE g = PublishedRecord(f, e)
    <2>. DEFINE r == [f.rec[e] EXCEPT !.st = "pub"]
    <2>1. g = [f EXCEPT !.rec[e] = r] /\ r.st = "pub" /\ r.data = f.rec[e].data /\ r \in File
      BY <1>1, <1>5 DEF FS, File, SyncedRecord, PublishedRecord
    <2>. HIDE DEF r
    <2>2. g \in FS /\ SameObjs(f, g) /\ SameHome(f, g) /\ g.at = f.at /\ g.intent = f.intent
          /\ g.rec[e] = r /\ \A x \in E \ {e} : g.rec[x] = f.rec[x]
      BY <1>2, <1>3, <2>1
    <2>3. g = SyncedRecord(f, e) => g.rec[e].st = f.rec[e].st /\ g.rec[e].data = "durable"
      BY <1>1 DEF FS, File, SyncedRecord, PublishedRecord
    <2>. QED  BY <2>1, <2>2, <2>3
  <1>. QED  BY <1>4, <1>5

\* An update of one header.
WithHeader(f, s, r) == [f EXCEPT !.hdr[s] = r]
LEMMA HeaderFS ==
    ASSUME NEW f \in FS, NEW s \in Sess, NEW r \in File, NEW g, g = WithHeader(f, s, r)
    PROVE  /\ g \in FS /\ SameObjs(f, g) /\ SameRecs(f, g) /\ g.at = f.at /\ g.dirs = f.dirs
           /\ g.hdr[s] = r /\ \A x \in Sess \ {s} : g.hdr[x] = f.hdr[x]
  BY DEF FS, SameObjs, SameRecs, WithHeader

\* A name loses or gets an object.
Updated(f, x, o, U, D, R) == [f EXCEPT !.at[x] = o, !.unborn = U, !.dropped = D, !.retired = R]
Replaced(f, g, x, o) ==
    /\ g \in FS /\ SameRecs(f, g) /\ SameHome(f, g) /\ g.displaced = f.displaced
    /\ g.at[x] = o /\ \A y \in Slot \ {x} : g.at[y] = f.at[y]
LEMMA EntryFS ==
    ASSUME NEW f \in FS, NEW x \in Slot, NEW o \in Objs \cup {None},
           NEW U \in SUBSET Objs, NEW D \in SUBSET Objs, NEW R \in SUBSET Objs
    PROVE  /\ Replaced(f, Updated(f, x, o, U, D, R), x, o)
           /\ Updated(f, x, o, U, D, R).unborn = U
           /\ Updated(f, x, o, U, D, R).dropped = D
           /\ Updated(f, x, o, U, D, R).retired = R
  <1>. DEFINE g == Updated(f, x, o, U, D, R)
  <1>1. g \in FS
    BY DEF FS, Updated
  <1>2. g.at = [f.at EXCEPT ![x] = o] /\ f.at \in [Slot -> Objs \cup {None}]
    BY DEF FS, Updated
  <1>3. SameRecs(f, g) /\ SameHome(f, g) /\ g.displaced = f.displaced
        /\ g.unborn = U /\ g.dropped = D /\ g.retired = R
    BY DEF FS, SameRecs, SameHome, Updated
  <1>. HIDE DEF g
  <1>4. Replaced(f, g, x, o)
    BY <1>1, <1>2, <1>3 DEF Replaced
  <1>. QED  BY <1>3, <1>4 DEF g
-----------------------------------------------------------------------------
(* Soundness of file system states.                                        *)

\* Objects move to a free name.
LEMMA MoveObjs ==
    ASSUME NEW f \in FS, NEW g \in FS, Accounted(f), Distinct(f), SameObjs(f, g),
           NEW a \in Slot, NEW b \in Slot, a # b, f.at[b] = None,
           g.at[a] = None, g.at[b] = f.at[a], \A x \in Slot \ {a, b} : g.at[x] = f.at[x]
    PROVE  Accounted(g) /\ Distinct(g)
  <1>1. Located(f) \subseteq Located(g)
    <2>1. ASSUME NEW o \in Located(f) PROVE o \in Located(g)
      <3>1. PICK x \in Slot : f.at[x] = o /\ o # None
        BY <2>1 DEF Located
      <3>2. \E y \in Slot : g.at[y] = o
        BY <3>1
      <3>. QED  BY <3>1, <3>2 DEF Located
    <2>. QED  BY <2>1
  <1>2. Distinct(g)
    BY DEF Distinct, SameObjs
  <1>. QED  BY <1>1, <1>2 DEF Accounted, SameObjs

LEMMA SwapObjs ==
    ASSUME NEW f \in FS, NEW g \in FS, Accounted(f), Distinct(f),
           g.unborn = f.unborn, g.dropped = f.dropped, g.retired = f.retired,
           NEW a \in Slot, NEW b \in Slot, a # b,
           g.at[a] = f.at[b], g.at[b] = f.at[a], \A x \in Slot \ {a, b} : g.at[x] = f.at[x]
    PROVE  Accounted(g) /\ Distinct(g)
  <1>1. Located(f) \subseteq Located(g)
    <2>1. ASSUME NEW o \in Located(f) PROVE o \in Located(g)
      <3>1. PICK x \in Slot : f.at[x] = o /\ o # None
        BY <2>1 DEF Located
      <3>2. \E y \in Slot : g.at[y] = o
        BY <3>1
      <3>. QED  BY <3>1, <3>2 DEF Located
    <2>. QED  BY <2>1
  <1>2. Distinct(g)
    BY DEF Distinct
  <1>. QED  BY <1>1, <1>2 DEF Accounted

\* The object of one name changes, the one that was there is accounted for, the
\* one that comes is new.
LEMMA EntryObjs ==
    ASSUME NEW f \in FS, NEW g \in FS, Accounted(f), Distinct(f), NEW x \in Slot,
           \A y \in Slot \ {x} : g.at[y] = f.at[y],
           f.at[x] # None => f.at[x] \in g.dropped \cup g.retired,
           f.dropped \subseteq g.dropped, f.retired \subseteq g.retired,
           g.retired \subseteq f.retired \cup {f.at[x]},
           \/ g.at[x] = None /\ g.unborn = f.unborn
           \/ g.at[x] \in f.unborn /\ g.unborn = f.unborn \ {g.at[x]} /\ g.retired = f.retired
    PROVE  Accounted(g) /\ Distinct(g)
  <1>1. Located(f) \subseteq Located(g) \cup g.dropped \cup g.retired
    BY DEF Located
  <1>2. f.unborn \subseteq g.unborn \cup Located(g)
    <2>1. CASE g.at[x] \in f.unborn
      <3>1. g.at[x] \in Objs /\ g.at[x] # None
        BY <2>1, SlotAssumption DEF FS
      <3>. QED  BY <3>1 DEF Located
    <2>. QED  BY <2>1
  <1>3. Accounted(g)
    BY <1>1, <1>2 DEF Accounted
  <1>4. \A y \in Slot : y # x /\ g.at[y] # None => g.at[y] # f.at[x] \/ f.at[x] = None
    BY DEF Distinct
  <1>5. g.unborn \cap g.retired = {}
    <2>1. f.at[x] = None \/ f.at[x] \notin f.unborn
      BY DEF Distinct
    <2>2. None \notin g.unborn
      BY SlotAssumption DEF FS
    <2>. QED  BY <2>1, <2>2 DEF Distinct
  <1>6. \A y \in Slot : g.at[y] # None => g.at[y] \notin g.unborn \cup g.retired
    BY <1>4 DEF Distinct
  <1>7. \A y, z \in Slot : g.at[y] = g.at[z] /\ g.at[y] # None => y = z
    BY DEF Distinct
  <1>. QED  BY <1>3, <1>5, <1>6, <1>7 DEF Distinct

\* Records untouched; entries lose objects, or a stage's entry gets one.
LEMMA SameEntries ==
    ASSUME NEW f \in FS, NEW g \in FS, Housed(f), Kept(f), Named(f),
           SameRecs(f, g), SameHome(f, g), f.displaced \subseteq g.displaced,
           \A e \in E : g.at[e] # None =>
              \/ g.at[e] = f.at[e]
              \/ /\ f.intent[e].kind = "stage" /\ SessionOf(e) \in f.dirs
                 /\ g.at[e] \in g.displaced \/ Recorded(f, e)
    PROVE  Housed(g) /\ Kept(g) /\ Named(g)
  <1>1. Housed(g)
    BY DEF Housed, SameRecs, SameHome
  <1>2. Kept(g)
    BY DEF Kept, Recorded, SameRecs, SameHome
  <1>3. \A e \in Captured(g) : e \in Captured(f) /\ g.at[e] = f.at[e]
    BY DEF Captured, SameRecs
  <1>4. Named(g)
    BY <1>3 DEF Named, Origin, SameRecs, Captured
  <1>. QED  BY <1>1, <1>2, <1>4

\* The restoration of a capture.
LEMMA RestoreSound ==
    ASSUME NEW f \in FS, NEW g \in FS, Sound(f), SameObjs(f, g), SameRecs(f, g), SameHome(f, g),
           NEW e \in E, NEW b \in Slot, f.at[e] # None, f.at[b] = None,
           f.intent[e].kind # "stage", b = f.intent[e].name,
           SessionOf(e) \in Legacy => b \in Names,
           g.at[e] = None, g.at[b] = f.at[e], \A x \in Slot \ {e, b} : g.at[x] = f.at[x]
    PROVE  Sound(g) /\ (Back(f) => Back(g))
  <1>1. Accounted(g) /\ Distinct(g)
    BY MoveObjs, EntryFacts DEF Sound
  <1>2. e # b
    OBVIOUS
  <1>3. b \notin Names => e \in Captured(f) /\ f.at[e] \in f.displaced
    BY DEF Sound, Named, Captured, Origin
  <1>4. b \in E => /\ SessionOf(b) = SessionOf(e) /\ b \notin Names
                   /\ f.intent[b].kind = "stage" \/ f.intent[b] = NoIntent
    <2>1. ASSUME b \in E PROVE /\ SessionOf(b) = SessionOf(e) /\ b \notin Names
                               /\ f.intent[b].kind = "stage" \/ f.intent[b] = NoIntent
      <3>1. b \notin Names
        BY <2>1, EntryFacts
      <3>2. b = <<SessionOf(e), 0>> /\ (f.intent[b].kind = "stage" \/ f.intent[b] = NoIntent)
        BY <1>3, <2>1, <3>1 DEF Sound, Named, Origin
      <3>. QED  BY <3>1, <3>2 DEF SessionOf
    <2>. QED  BY <2>1
  <1>5. Housed(g)
    BY <1>4, EntryFacts DEF Sound, Housed, SameRecs, SameHome
  <1>6. Kept(g)
    BY <1>3, <1>4, EntryFacts DEF Sound, Kept, Recorded, SameRecs, SameHome, SameObjs
  <1>7. \A x \in Captured(g) : x # e /\ (x # b => x \in Captured(f) /\ g.at[x] = f.at[x])
    BY EntryFacts DEF Captured, SameRecs
  <1>8. b \in Captured(g) => f.intent[b].name = None /\ None \notin Names \cup E
    BY <1>4, SlotAssumption DEF Captured, NoIntent, SameRecs, Slot
  <1>9. Named(g)
    <2>1. \A x \in E : g.rec[x].st # "none" /\ g.intent[x].kind # "stage" =>
            g.intent[x].name \in Slot /\ (SessionOf(x) \in Legacy => g.intent[x].name \in Names)
      BY DEF Sound, Named, SameRecs
    <2>2. ASSUME NEW x \in Captured(g) PROVE Origin(g, x, g.at[x])
      <3>1. CASE x = b
        <4>1. b \in E /\ g.at[b] \in g.displaced /\ g.intent[b].name \notin E
          BY <1>3, <1>4, <1>8, <2>2, <3>1 DEF SameRecs, SameObjs, Captured
        <4>. QED  BY <3>1, <4>1 DEF Origin
      <3>2. CASE x # b
        BY <1>7, <2>2, <3>2 DEF Sound, Named, Origin, SameRecs, SameObjs
      <3>. QED  BY <3>1, <3>2
    <2>. QED  BY <2>1, <2>2 DEF Named
  <1>10. ASSUME Back(f) PROVE Back(g)
    <2>1. ASSUME NEW x \in Captured(g), g.intent[x].name \in Names
          PROVE  x # b /\ x # e /\ x \in Captured(f) /\ g.at[x] = f.at[x]
      BY <1>7, <1>8, <2>1 DEF SameRecs
    <2>2. ASSUME NEW x \in Captured(g), g.intent[x].name \in Names
          PROVE  g.at[x] = g.intent[x].expect /\ g.at[g.intent[x].name] = None
      <3>1. f.at[x] = f.intent[x].expect /\ f.at[f.intent[x].name] = None /\ x \in E
        BY <1>10, <2>1, <2>2 DEF Back, SameRecs, Captured
      <3>2. f.intent[x].name # b
        <4>1. SUFFICES ASSUME f.intent[x].name = b PROVE FALSE
          OBVIOUS
        <4>2. CASE SessionOf(e) \notin Legacy
          <5>1. e \in Captured(f)
            BY <4>2 DEF Captured
          <5>. QED  BY <1>10, <2>1, <2>2, <4>1, <5>1 DEF Back, SameRecs
        <4>3. CASE SessionOf(e) \in Legacy
          <5>1. SessionOf(x) \in f.dirs \ Legacy /\ SessionOf(e) \in f.dirs
            BY <2>1, <2>2 DEF Sound, Housed, Captured
          <5>. QED  BY <4>3, <5>1 DEF Sound, Housed
        <4>. QED  BY <4>2, <4>3
      <3>3. f.intent[x].name \in Slot /\ f.intent[x].name # e
        BY <2>2, SlotFacts, EntryFacts DEF SameRecs
      <3>. QED  BY <2>1, <2>2, <3>1, <3>2, <3>3 DEF SameRecs
    <2>3. ASSUME NEW x \in Captured(g), NEW y \in Captured(g),
                 g.intent[x].name \in Names, g.intent[x].name = g.intent[y].name
          PROVE  x = y
      BY <1>10, <2>1, <2>3 DEF Back, SameRecs
    <2>. QED  BY <2>2, <2>3 DEF Back
  <1>. QED  BY <1>1, <1>5, <1>6, <1>9, <1>10 DEF Sound

\* A capture under a durable record.
LEMMA CaptureSound ==
    ASSUME NEW f \in FS, NEW g \in FS, Sound(f), SameObjs(f, g), SameRecs(f, g), SameHome(f, g),
           NEW e \in E, NEW a \in Slot, a # e, f.at[e] = None, f.at[a] # None,
           Recorded(f, e), a = f.intent[e].name, f.intent[e].kind # "stage", Origin(f, e, f.at[a]),
           g.at[a] = None, g.at[e] = f.at[a], \A x \in Slot \ {a, e} : g.at[x] = f.at[x]
    PROVE  /\ Sound(g)
           /\ Back(f) /\ (a \in Names => f.at[a] = f.intent[e].expect) => Back(g)
  <1>1. Accounted(g) /\ Distinct(g)
    BY MoveObjs, EntryFacts DEF Sound
  <1>2. Housed(g)
    BY EntryFacts DEF Sound, Housed, SameRecs, SameHome, Recorded
  <1>3. Kept(g)
    BY EntryFacts DEF Sound, Kept, Recorded, SameRecs, SameHome, SameObjs
  <1>4. \A x \in Captured(g) : x \in E /\ (x # e => x \in Captured(f) /\ g.at[x] = f.at[x])
    BY EntryFacts DEF Captured, SameRecs
  <1>5. Named(g)
    <2>1. \A x \in E : g.rec[x].st # "none" /\ g.intent[x].kind # "stage" =>
            g.intent[x].name \in Slot /\ (SessionOf(x) \in Legacy => g.intent[x].name \in Names)
      BY DEF Sound, Named, SameRecs
    <2>2. ASSUME NEW x \in Captured(g) PROVE Origin(g, x, g.at[x])
      <3>1. CASE x = e
        BY <3>1 DEF Origin, SameRecs, SameObjs
      <3>2. CASE x # e
        BY <1>4, <2>2, <3>2 DEF Sound, Named, Origin, SameRecs, SameObjs
      <3>. QED  BY <3>1, <3>2
    <2>. QED  BY <2>1, <2>2 DEF Named
  <1>6. ASSUME Back(f), a \in Names => f.at[a] = f.intent[e].expect PROVE Back(g)
    <2>1. \A x \in Captured(f) : f.intent[x].name \in Names => f.intent[x].name # a
      BY <1>6 DEF Back
    <2>2. ASSUME NEW x \in Captured(g), g.intent[x].name \in Names
          PROVE  g.at[x] = g.intent[x].expect /\ g.at[g.intent[x].name] = None
      <3>1. g.intent[x].name \in Slot /\ g.intent[x].name # e /\ f.intent[x].name = g.intent[x].name
        BY <2>2, SlotFacts, EntryFacts DEF SameRecs
      <3>2. CASE x = e
        BY <1>6, <2>2, <3>1, <3>2 DEF SameRecs
      <3>3. CASE x # e
        BY <1>4, <1>6, <2>1, <2>2, <3>1, <3>3 DEF Back, SameRecs
      <3>. QED  BY <3>2, <3>3
    <2>3. ASSUME NEW x \in Captured(g), NEW y \in Captured(g),
                 g.intent[x].name \in Names, g.intent[x].name = g.intent[y].name
          PROVE  x = y
      <3>1. f.intent[x].name = g.intent[x].name /\ f.intent[y].name = g.intent[y].name
        BY DEF SameRecs
      <3>2. CASE x # e /\ y # e
        BY <1>4, <1>6, <2>3, <3>1, <3>2 DEF Back
      <3>3. CASE x = e \/ y = e
        BY <1>4, <2>1, <2>3, <3>1, <3>3
      <3>. QED  BY <3>2, <3>3
    <2>. QED  BY <2>2, <2>3 DEF Back
  <1>. QED  BY <1>1, <1>2, <1>3, <1>5, <1>6 DEF Sound

\* Entries and the parent's names are untouched, or lose what they held.
LEMMA SameBack ==
    ASSUME NEW f \in FS, NEW g \in FS, SameRecs(f, g), Back(f),
           \A e \in Captured(g) : e \in Captured(f) /\ g.at[e] = f.at[e],
           \A n \in Names : f.at[n] = None => g.at[n] = None
    PROVE  Back(g)
  BY DEF Back, SameRecs

\* A record is cleared: nothing is behind it.
LEMMA ClearedSound ==
    ASSUME NEW f \in FS, NEW g \in FS, Sound(f), SameObjs(f, g), SameHome(f, g), g.at = f.at,
           NEW e \in E, f.at[e] = None \/ (SessionOf(e) \in Legacy /\ f.rec[e].st # "pub"),
           g.rec[e] = NoFile, g.intent[e] = NoIntent,
           \A x \in E \ {e} : g.rec[x] = f.rec[x] /\ g.intent[x] = f.intent[x]
    PROVE  Sound(g) /\ (Back(f) => Back(g))
  <1>1. Accounted(g) /\ Distinct(g)
    BY DEF Sound, Accounted, Located, Distinct, SameObjs
  <1>2. g.rec[e].st = "none"
    BY DEF NoFile
  <1>3. Housed(g)
    BY <1>2 DEF Sound, Housed, SameHome
  <1>4. Kept(g)
    BY <1>2 DEF Sound, Kept, Recorded, SameHome, SameObjs
  <1>5. \A x \in Captured(g) : x # e /\ x \in Captured(f)
    BY DEF Captured
  <1>6. \A x \in Captured(g) : Origin(g, x, g.at[x])
    <2>1. ASSUME NEW x \in Captured(g) PROVE Origin(g, x, g.at[x])
      <3>1. x \in E /\ Origin(f, x, f.at[x]) /\ g.intent[x] = f.intent[x]
        BY <1>5 DEF Sound, Named, Captured
      <3>. QED  BY <3>1 DEF Origin, SameObjs
    <2>. QED  BY <2>1
  <1>7. Named(g)
    BY <1>2, <1>6 DEF Sound, Named
  <1>8. Back(f) => Back(g)
    BY <1>5 DEF Back, Captured
  <1>. QED  BY <1>1, <1>3, <1>4, <1>7, <1>8 DEF Sound

\* A record is written for a free entry.
LEMMA WrittenSound ==
    ASSUME NEW f \in FS, NEW g \in FS, Sound(f), SameObjs(f, g), SameHome(f, g), g.at = f.at,
           NEW e \in E, f.at[e] = None, SessionOf(e) \in f.dirs \ Legacy,
           g.intent[e].kind # "stage" => g.intent[e].name \in Slot,
           g.intent[e].kind = "stage" \/ \A x \in Captured(f) : f.intent[x].name # e,
           \A x \in E \ {e} : g.rec[x] = f.rec[x] /\ g.intent[x] = f.intent[x]
    PROVE  Sound(g) /\ (Back(f) => Back(g))
  <1>1. Accounted(g) /\ Distinct(g)
    BY DEF Sound, Accounted, Located, Distinct, SameObjs
  <1>3. Housed(g)
    BY DEF Sound, Housed, SameHome
  <1>4. Kept(g)
    BY DEF Sound, Kept, Recorded, SameHome, SameObjs
  <1>5. \A x \in Captured(g) : x # e /\ x \in Captured(f)
    BY DEF Captured
  <1>6. \A x \in Captured(g) : Origin(g, x, g.at[x])
    <2>1. ASSUME NEW x \in Captured(g) PROVE Origin(g, x, g.at[x])
      <3>1. x \in E /\ Origin(f, x, f.at[x]) /\ g.intent[x] = f.intent[x]
        BY <1>5 DEF Sound, Named, Captured
      <3>2. f.intent[x].name = e => g.intent[e].kind = "stage"
        BY <1>5
      <3>. QED  BY <3>1, <3>2 DEF Origin, SameObjs
    <2>. QED  BY <2>1
  <1>7. Named(g)
    BY <1>6 DEF Sound, Named
  <1>8. Back(f) => Back(g)
    BY <1>5 DEF Back, Captured
  <1>. QED  BY <1>1, <1>3, <1>4, <1>7, <1>8 DEF Sound

\* Records and headers become more durable, sessions without entries come and go.
LEMMA StrongerSound ==
    ASSUME NEW f \in FS, NEW g \in FS, Sound(f), SameObjs(f, g), g.at = f.at, g.intent = f.intent,
           \A e \in E : f.rec[e].st = "none" => g.rec[e].st = "none",
           \A e \in E : f.rec[e].st = "pub" /\ f.rec[e].data = "durable" =>
                            g.rec[e].st = "pub" /\ g.rec[e].data = "durable",
           \A e \in E : f.at[e] # None /\ f.at[e] \notin f.displaced =>
                LET s == SessionOf(e) IN f.hdr[s].st = "pub" /\ f.hdr[s].data = "durable" =>
                                         g.hdr[s].st = "pub" /\ g.hdr[s].data = "durable",
           \A e \in E : f.at[e] # None \/ f.rec[e].st # "none" =>
                            (SessionOf(e) \in f.dirs => SessionOf(e) \in g.dirs),
           g.dirs \subseteq Legacy \/ g.dirs \cap Legacy = {}
    PROVE  Sound(g) /\ (Back(f) => Back(g))
  <1>1. Accounted(g) /\ Distinct(g)
    BY DEF Sound, Accounted, Located, Distinct, SameObjs
  <1>2. Housed(g)
    BY DEF Sound, Housed
  <1>3. Kept(g)
    BY DEF Sound, Kept, Recorded, SameObjs
  <1>4. Captured(g) = Captured(f)
    BY DEF Captured
  <1>5. Named(g)
    BY <1>4 DEF Sound, Named, Origin, SameObjs
  <1>6. Back(f) => Back(g)
    BY <1>4 DEF Back
  <1>. QED  BY <1>1, <1>2, <1>3, <1>5, <1>6 DEF Sound

\* A power loss leaves what was synced.
LEMMA TearSound ==
    ASSUME NEW f \in FS, Sound(f)
    PROVE  Sound(Tear(f)) /\ (Back(f) => Back(Tear(f)))
  <1>. DEFINE g == Tear(f)
  <1>1. g \in FS /\ g.dirs = f.dirs
    BY TearType
  <1>2. SameObjs(f, g) /\ g.at = f.at /\ g.intent = f.intent
    BY DEF Tear, SameObjs, FS
  <1>3. \A e \in E : g.rec[e] = TearFile(f.rec[e])
    BY DEF Tear, FS
  <1>4. \A s \in Sess : g.hdr[s] = TearFile(f.hdr[s])
    BY DEF Tear, FS
  <1>5. \A r \in File : TearFile(r).st = r.st /\ (r.data = "durable" => TearFile(r).data = "durable")
    BY DEF TearFile, File
  <1>. HIDE DEF g
  <1>6. \A e \in E : f.rec[e] \in File /\ SessionOf(e) \in Sess
    BY FSFields, EntryFacts
  <1>7. \A s \in Sess : f.hdr[s] \in File
    BY FSFields
  <1>8. Sound(g) /\ (Back(f) => Back(g))
    <2>1. \A e \in E : f.rec[e].st = "none" => g.rec[e].st = "none"
      BY <1>3, <1>5, <1>6
    <2>2. \A e \in E : f.rec[e].st = "pub" /\ f.rec[e].data = "durable" =>
                            g.rec[e].st = "pub" /\ g.rec[e].data = "durable"
      BY <1>3, <1>5, <1>6
    <2>3. \A s \in Sess : f.hdr[s].st = "pub" /\ f.hdr[s].data = "durable" =>
                            g.hdr[s].st = "pub" /\ g.hdr[s].data = "durable"
      BY <1>4, <1>5, <1>7
    <2>4. g.dirs \subseteq Legacy \/ g.dirs \cap Legacy = {}
      BY <1>1 DEF Sound, Housed
    <2>. QED  BY <1>1, <1>2, <1>6, <2>1, <2>2, <2>3, <2>4, StrongerSound
  <1>. QED  BY <1>8 DEF g
-----------------------------------------------------------------------------
(* Frames: what a step of the owner must show.                             *)

RemovedStays(k, l, g) ==
    Acknowledges(l) => \/ Acknowledges(k) /\ l.intent.expect = k.intent.expect
                       \/ l.intent.expect \in g.retired /\ disk' = {g}

\* What the owner's step starts from.
LEMMA OwnerFacts ==
    ASSUME RInv, NEW p \in Procs, ps[p].owner = p \/ ps[p].pc \notin {"idle", "ready"}
    PROVE  /\ ps[p].owner = p /\ ps[p] \in Local /\ WellFormed(p, ps[p]) /\ OwnerOK(ps[p], fs)
           /\ fs \in FS /\ Sound(fs) /\ (Quiet => Back(fs)) /\ (Quiet => Expected(ps[p], fs))
           /\ DOMAIN ps = Procs
  <1>1. ps[p].owner = p
    BY LocalFacts DEF RInv, WellFormed
  <1>2. fs \in disk
    BY Parts DEF RInv, FSPart
  <1>. QED  BY <1>1, <1>2, LocalFacts DEF RInv, FilesInv, OwnerInv

\* Every file system state a crash exposes is an earlier one or the current one.
LEMMA FilesStep ==
    ASSUME RInv, disk' \subseteq disk \cup {fs'}, Sound(fs'), Quiet' => Quiet, Quiet' => Back(fs')
    PROVE  FilesInv'
  BY DEF RInv, FilesInv

LEMMA AckStep ==
    ASSUME RInv, disk' \subseteq disk \cup {fs'}, fs.retired \subseteq fs'.retired,
           NEW p \in Procs, NEW l, ps' = [ps EXCEPT ![p] = l], RemovedStays(ps[p], l, fs')
    PROVE  AckInv'
  <1>1. fs \in disk /\ DOMAIN ps = Procs
    BY Parts DEF RInv, FSPart, LocalPart
  <1>2. ASSUME NEW q \in Procs, Acknowledges(ps[q]), NEW f \in disk'
        PROVE  ps[q].intent.expect \in f.retired
    BY <1>1, <1>2 DEF RInv, AckInv
  <1>3. ASSUME NEW q \in Procs, Acknowledges(ps'[q]), NEW f \in disk'
        PROVE  ps'[q].intent.expect \in f.retired
    <2>1. CASE q # p
      BY <1>1, <1>2, <1>3, <2>1
    <2>2. CASE q = p
      BY <1>1, <1>2, <1>3, <2>2 DEF RemovedStays
    <2>. QED  BY <2>1, <2>2
  <1>. QED  BY <1>3 DEF AckInv

LEMMA OwnerStep ==
    ASSUME RInv, IInv', NEW p \in Procs, NEW l, ps' = [ps EXCEPT ![p] = l],
           ps[p].owner = p \/ l.owner = p,
           disk' \subseteq disk \cup {fs'}, fs.retired \subseteq fs'.retired,
           Sound(fs'), Quiet' => Quiet, Quiet => Back(fs'),
           OwnerOK(l, fs'), Quiet => Expected(l, fs'), RemovedStays(ps[p], l, fs')
    PROVE  RInv'
  <1>1. FilesInv'
    BY FilesStep
  <1>2. AckInv'
    BY AckStep
  <1>3. DOMAIN ps = Procs
    BY Parts DEF RInv, LocalPart
  <1>4. ASSUME NEW q \in Procs, ps'[q].owner = q PROVE q = p
    <2>1. CASE ps[p].owner = p
      BY <1>3, <1>4, <2>1, Parts DEF RInv, LockPart
    <2>2. CASE l.owner = p
      <3>1. ps'[p].owner = p
        BY <1>3, <2>2
      <3>. QED  BY <1>4, <3>1 DEF IInv, OneSession
    <2>. QED  BY <2>1, <2>2
  <1>5. OwnerInv'
    <2>1. ps'[p] = l
      BY <1>3
    <2>. QED  BY <1>4, <2>1 DEF OwnerInv, Expected
  <1>. QED  BY <1>1, <1>2, <1>5 DEF RInv

\* The session value goes; files stay as they are.
LEMMA IdleStep ==
    ASSUME RInv, IInv', NEW p \in Procs, ps' = [ps EXCEPT ![p] = Idle], UNCHANGED <<fs, disk>>,
           Quiet' => Quiet
    PROVE  RInv'
  <1>1. Sound(fs) /\ (Quiet => Back(fs)) /\ DOMAIN ps = Procs
    BY Parts DEF RInv, FSPart, FilesInv, LocalPart
  <1>2. FilesInv'
    BY <1>1, FilesStep
  <1>3. ~ Acknowledges(Idle) /\ Idle.owner # p
    BY SlotAssumption DEF Acknowledges, Idle
  <1>4. AckInv'
    BY <1>3, AckStep DEF RemovedStays
  <1>5. OwnerInv'
    BY <1>1, <1>3 DEF RInv, OwnerInv
  <1>. QED  BY <1>2, <1>4, <1>5 DEF RInv

LEMMA EndRec ==
    ASSUME RInv, IInv', NEW p \in Procs, End(p), UNCHANGED <<fs, disk>>, Quiet' => Quiet
    PROVE  RInv'
  BY IdleStep DEF End

\* The locals a step on an entry keeps.
Keeps(k, l) ==
    /\ l.s = k.s /\ l.next = k.next /\ l.e = k.e /\ l.dst = k.dst /\ l.stage = k.stage
    /\ l.intent.kind = k.intent.kind /\ l.intent.name = k.intent.name /\ l.intent.expect = k.intent.expect
    /\ l.recovered = k.recovered /\ l.recoveryRequired = k.recoveryRequired

\* A step on an entry, from locals k and file system f to l and g.
Touches(k, l, f, g) ==
    /\ Keeps(k, l)
    /\ k.pc \in EntryPcs \ {"stagedrop"} /\ l.pc \in EntryPcs
    /\ l.pc \in ExchangePcs => k.intent.kind # "retire"
    /\ l.pc = "stagedrop" => k.intent.kind = "stage"
    /\ g.dirs = f.dirs /\ g.hdr = f.hdr
    /\ \A x \in E : x # k.e => g.rec[x] = f.rec[x]
    /\ \A x \in E : x # k.e /\ x # k.stage => g.at[x] = f.at[x]
OnEntry(k, l, f, g) ==
    /\ Touches(k, l, f, g) /\ l.removed = k.removed /\ g.retired = f.retired
    /\ l.pc \in {"rmD", "rmP"} => l.removed

LEMMA TouchesOK ==
    ASSUME NEW p \in Procs, NEW k \in Local, NEW l, NEW f \in FS, NEW g, WellFormed(p, k), OwnerOK(k, f),
           Touches(k, l, f, g), Retiring(l, g), Staging(l, g), Flagged(l, g)
    PROVE  OwnerOK(l, g)
  <1>. USE DEF HeaderPcs, EntryPcs, RetirePcs, ExchangePcs, StagePcs
  <1>1. Fresh(l)
    BY DEF OwnerOK, Touches, Keeps, Fresh, RecoverPcs
  <1>2. Entry(l)
    <2>1. k.pc \in EntryPcs /\ l.pc \in EntryPcs /\ Entry(k)
      BY DEF Touches, OwnerOK
    <2>. QED  BY <2>1 DEF Touches, Keeps, Entry, Used
  <1>3. InSession(l, g)
    <2>1. k.pc \in HeaderPcs /\ l.pc \in HeaderPcs /\ l.s = k.s /\ l.next = k.next
      BY DEF Touches, Keeps
    <2>2. k.next \in Nat /\ k.s \in Sess
      BY <2>1, SlotAssumption DEF Local, WellFormed
    <2>3. /\ SessionOf(k.e) = k.s /\ k.e[2] < k.next
          /\ k.stage # None => k.stage = <<k.s, 0>> /\ k.next > 0
      BY DEF Touches, OwnerOK, Entry, Used
    <2>4. ASSUME NEW i \in k.next .. MaxId
          PROVE  g.at[<<k.s, i>>] = f.at[<<k.s, i>>] /\ g.rec[<<k.s, i>>] = f.rec[<<k.s, i>>]
      <3>1. i \in 0 .. MaxId /\ i >= k.next
        BY <2>2, SlotAssumption
      <3>2. <<k.s, i>> \in E /\ <<k.s, i>>[2] = i
        BY <2>2, <3>1 DEF E
      <3>3. <<k.s, i>> # k.e
        BY <2>2, <2>3, <3>1, <3>2
      <3>4. <<k.s, i>> # k.stage
        BY <2>2, <2>3, <3>1, <3>2, SlotAssumption, EntryFacts
      <3>. QED  BY <3>2, <3>3, <3>4 DEF Touches
    <2>5. InSession(k, f)
      BY DEF OwnerOK
    <2>6. g.dirs = f.dirs /\ g.hdr = f.hdr
      BY DEF Touches
    <2>7. l.pc \notin {"hdrwrite", "hdrfsync", "hdrrename"}
      BY <2>1
    <2>. QED  BY <2>1, <2>4, <2>5, <2>6, <2>7 DEF InSession
  <1>4. Recovering(l, g)
    BY DEF Touches, Recovering
  <1>6. Told(l, g)
    <2>1. Pending(k) = {k.e, k.stage}
      BY DEF Touches, Pending
    <2>2. Pending(l) = {k.e, k.stage}
      BY DEF Touches, Keeps, Pending, OwnerOK, Entry
    <2>. QED  BY <2>1, <2>2 DEF Touches, Keeps, OwnerOK, Told
  <1>. QED  BY <1>1, <1>2, <1>3, <1>4, <1>6 DEF OwnerOK

LEMMA OnEntryOK ==
    ASSUME NEW p \in Procs, NEW k \in Local, NEW l, NEW f \in FS, NEW g, WellFormed(p, k), OwnerOK(k, f),
           OnEntry(k, l, f, g), Retiring(l, g), Staging(l, g)
    PROVE  OwnerOK(l, g)
  <1>1. Flagged(l, g)
    BY DEF OnEntry, Touches, Keeps, OwnerOK, Flagged
  <1>. QED  BY <1>1, TouchesOK DEF OnEntry

LEMMA OnEntryStep ==
    ASSUME RInv, IInv', NEW p \in Procs, NEW l, ps' = [ps EXCEPT ![p] = l],
           OnEntry(ps[p], l, fs, fs'), Quiet' => Quiet,
           disk' \subseteq disk \cup {fs'}, Sound(fs'), Quiet => Back(fs'),
           Retiring(l, fs'), Staging(l, fs'), Quiet => Expected(l, fs'),
           RemovedStays(ps[p], l, fs')
    PROVE  RInv'
  <1>1. ps[p].pc \notin {"idle", "ready"}
    BY DEF OnEntry, Touches, EntryPcs, RetirePcs, ExchangePcs, StagePcs
  <1>2. OwnerOK(l, fs') /\ ps[p].owner = p
    BY <1>1, OwnerFacts, OnEntryOK
  <1>3. fs.retired \subseteq fs'.retired
    BY DEF OnEntry
  <1>. QED  BY <1>2, <1>3, OwnerStep
-----------------------------------------------------------------------------
(* Steps that only move the program counter of a call, and its verdict.    *)

Moved(k, l, x, v) ==
    /\ l.pc = x /\ l.verdict = v /\ Keeps(k, l)
    /\ l.intent = k.intent /\ l.captured = k.captured /\ l.removed = k.removed

LEMMA GotoMoves ==
    ASSUME IInv, NEW p \in Procs, NEW x, Goto(p, x)
    PROVE  ps' = [ps EXCEPT ![p] = ps'[p]] /\ Moved(ps[p], ps'[p], x, ps[p].verdict)
  BY LocalFacts DEF Goto, Moved, Keeps, Local

LEMMA VerdictMoves ==
    ASSUME IInv, NEW p \in Procs, NEW x, NEW v, ps' = [ps EXCEPT ![p].pc = x, ![p].verdict = v]
    PROVE  ps' = [ps EXCEPT ![p] = ps'[p]] /\ Moved(ps[p], ps'[p], x, v)
  BY LocalFacts DEF Moved, Keeps, Local

\* Where the counter may go from k without a change of the files f.
MayGo(k, x, v, f) ==
    /\ k.pc \in EntryPcs \ {"stagedrop"} /\ x \in EntryPcs
    /\ x \in ExchangePcs => k.intent.kind # "retire"
    /\ x \in {"rmD", "rmP"} => k.removed
    /\ x = "stagedrop" => k.intent.kind = "stage"
    /\ k.intent.kind # "stage" =>
        /\ x \in BeforeCapture => k.pc \in BeforeCapture
        /\ x \in NotRemoved => ~ k.removed
        /\ x \in NowEmpty => f.at[k.e] = None
        /\ x \in {"fsyncrec", "rename"} \cup PublishedPcs => k.pc \in PublishedPcs /\ x \in PublishedPcs
        /\ x = "unlink" => f.at[k.e] = k.intent.expect
        /\ Quiet /\ k.intent.kind = "retire" /\ x \in BeforeCapture \ {"check"} =>
              k.pc \in BeforeCapture \ {"check"} \/ f.at[k.intent.name] = k.intent.expect
        /\ Quiet /\ x \in {"precap", "capture"} => f.at[k.intent.name] = k.intent.expect
    /\ k.intent.kind = "stage" =>
        /\ v # "removed" /\ x \notin {"write", "fsyncrec", "rename"}
        /\ x \in StagePcs \ {"stagepub"} => k.pc \in StagePcs \ {"stagepub"}
        /\ x \in {"clear", "clrsync"} => f.at[k.e] = None
        /\ x \in {"pubsync", "published", "stagemk", "stagepub"} \cup ExchangePcs =>
              k.pc \in {"pubsync", "published", "stagemk", "stagepub"} \cup ExchangePcs
        /\ x = "swapcheck" => f.at[k.e] \in f.displaced \cup {None}

LEMMA GotoRec ==
    ASSUME RInv, IInv', NEW p \in Procs, NEW x, NEW v,
           ps' = [ps EXCEPT ![p] = ps'[p]], Moved(ps[p], ps'[p], x, v), MayGo(ps[p], x, v, fs),
           fs' = fs, disk' \subseteq disk \cup {fs}, Quiet' => Quiet,
           RemovedStays(ps[p], ps'[p], fs)
    PROVE  RInv'
  <1>. DEFINE k == ps[p]
              l == ps'[p]
  <1>. USE DEF EntryPcs, RetirePcs, ExchangePcs, StagePcs
  <1>1. k.pc \in EntryPcs \ {"stagedrop"} /\ x \in EntryPcs /\ k.pc \notin {"idle", "ready"}
    BY DEF MayGo
  <1>2. OwnerOK(k, fs) /\ Sound(fs) /\ (Quiet => Back(fs)) /\ (Quiet => Expected(k, fs))
    BY <1>1, OwnerFacts
  <1>3. OnEntry(k, l, fs, fs)
    BY DEF OnEntry, Touches, Moved, MayGo
  <1>4. Retiring(l, fs)
    <2>1. Retiring(k, fs)
      BY <1>2 DEF OwnerOK
    <2>. HIDE DEF k, l
    <2>. QED  BY <2>1 DEF Retiring, Moved, Keeps, MayGo, BeforeCapture, PublishedPcs, NowEmpty,
                 NotRemoved, k, l
  <1>5. Staging(l, fs)
    <2>1. Staging(k, fs)
      BY <1>2 DEF OwnerOK
    <2>. QED  BY <2>1 DEF Staging, Moved, Keeps, MayGo, BeforeCapture
  <1>6. Quiet => Expected(l, fs)
    BY <1>2 DEF Expected, Moved, MayGo, BeforeCapture
  <1>. HIDE DEF k, l
  <1>. QED  BY <1>2, <1>3, <1>4, <1>5, <1>6, OnEntryStep DEF k, l

\* What a step of a call starts from.
LEMMA CallFacts ==
    ASSUME RInv, NEW p \in Procs, ps[p].pc \in EntryPcs
    PROVE  /\ ps[p].owner = p /\ ps[p] \in Local /\ WellFormed(p, ps[p]) /\ ps[p].e \in E
           /\ ps[p].intent \in Intent /\ ps[p].intent.kind \in Kinds
           /\ Entry(ps[p]) /\ Retiring(ps[p], fs) /\ Staging(ps[p], fs) /\ Flagged(ps[p], fs)
           /\ (Quiet => Expected(ps[p], fs)) /\ fs \in FS /\ fs \in disk /\ IInv
           /\ OwnerOK(ps[p], fs) /\ Sound(fs) /\ (Quiet => Back(fs))
  <1>1. ps[p].pc \notin {"idle", "ready"}
    BY DEF EntryPcs, RetirePcs, ExchangePcs, StagePcs
  <1>2. fs \in disk
    BY Parts DEF RInv, FSPart
  <1>3. ps[p].intent \in Intent /\ ps[p].intent.kind \in Kinds /\ ps[p].e \in E
    BY <1>1, OwnerFacts DEF Local, Intent, WellFormed
  <1>. QED  BY <1>1, <1>2, <1>3, OwnerFacts DEF OwnerOK, RInv

LEMMA CheckRec ==
    ASSUME RInv, IInv', NEW p \in Procs, Check(p)
    PROVE  RInv'
  <1>1. ps[p].pc = "check" /\ ps[p].pc \in EntryPcs
    BY DEF Check, At, EntryPcs, RetirePcs
  <1>2. ps[p].intent.kind \in {"retire", "replace"}
    BY <1>1, CallFacts DEF WellFormed, RetirePcs, Kinds
  <1>3. PICK x \in {"fail", "settle", "write"}, v \in {ps[p].verdict, "absent", "changed"} :
           /\ ps' = [ps EXCEPT ![p] = ps'[p]] /\ Moved(ps[p], ps'[p], x, v)
           /\ x = "write" => fs.at[ps[p].intent.name] = Before(ps[p].intent)
    <2>1. \A x : Goto(p, x) => ps' = [ps EXCEPT ![p] = ps'[p]] /\ Moved(ps[p], ps'[p], x, ps[p].verdict)
      BY GotoMoves DEF RInv
    <2>2. \A x, v : ps' = [ps EXCEPT ![p].pc = x, ![p].verdict = v] =>
                      ps' = [ps EXCEPT ![p] = ps'[p]] /\ Moved(ps[p], ps'[p], x, v)
      BY VerdictMoves DEF RInv
    <2>. QED  BY <2>1, <2>2 DEF Check
  <1>4. MayGo(ps[p], x, v, fs)
    BY <1>1, <1>2, <1>3, CallFacts DEF MayGo, EntryPcs, RetirePcs, ExchangePcs, StagePcs,
       BeforeCapture,
       PublishedPcs, NowEmpty, NotRemoved, Retiring, Before
  <1>5. RemovedStays(ps[p], ps'[p], fs)
    BY <1>3 DEF RemovedStays, Moved, Keeps, Acknowledges
  <1>6. UNCHANGED <<fs, disk>> /\ (Quiet' => Quiet)
    BY DEF Check, Root, Quiet
  <1>. QED  BY <1>3, <1>4, <1>5, <1>6, GotoRec

LEMMA PublishedRec ==
    ASSUME RInv, IInv', NEW p \in Procs, Published(p)
    PROVE  RInv'
  <1>1. ps[p].pc = "published" /\ ps[p].pc \in EntryPcs
    BY DEF Published, At, EntryPcs, StagePcs
  <1>2. PICK x \in {"stagemk", "exchange", "fail", "precap"} :
           /\ ps' = [ps EXCEPT ![p] = ps'[p]] /\ Moved(ps[p], ps'[p], x, ps[p].verdict)
           /\ ps[p].intent.kind = "stage" => x = "stagemk"
           /\ ps[p].intent.kind # "stage" => x # "stagemk"
           /\ x = "precap" => ps[p].intent.kind = "retire"
    <2>1. ps[p].intent.kind \in {"stage", "replace", "retire"}
      BY <1>1, CallFacts DEF Kinds
    <2>2. \A x : Goto(p, x) => ps' = [ps EXCEPT ![p] = ps'[p]] /\ Moved(ps[p], ps'[p], x, ps[p].verdict)
      BY GotoMoves DEF RInv
    <2>3. CASE ps[p].intent.kind = "stage"
      BY <2>2, <2>3 DEF Published
    <2>4. CASE ps[p].intent.kind = "replace"
      BY <2>2, <2>4 DEF Published
    <2>5. CASE ps[p].intent.kind = "retire"
      BY <2>2, <2>5 DEF Published
    <2>. QED  BY <2>1, <2>3, <2>4, <2>5
  <1>3. MayGo(ps[p], x, ps[p].verdict, fs)
    BY <1>1, <1>2, CallFacts DEF MayGo, NotRemoved, Retiring, EntryPcs, RetirePcs, ExchangePcs,
       StagePcs, BeforeCapture,
       PublishedPcs, NowEmpty, Staging, Expected
  <1>4. RemovedStays(ps[p], ps'[p], fs)
    BY <1>2 DEF RemovedStays, Moved, Keeps, Acknowledges
  <1>5. UNCHANGED <<fs, disk>> /\ (Quiet' => Quiet)
    BY DEF Published, Root, Quiet
  <1>. QED  BY <1>2, <1>3, <1>4, <1>5, GotoRec

LEMMA ExchangeRec ==
    ASSUME RInv, IInv', NEW p \in Procs, Exchange(p)
    PROVE  RInv'
  <1>1. ps[p].pc = "exchange" /\ ps[p].pc \in EntryPcs
    BY DEF Exchange, At, EntryPcs, RetirePcs
  <1>2. ps[p].intent.kind = "replace"
    BY <1>1, CallFacts DEF WellFormed
  <1>3. PICK x \in {"swap", "fail"} :
           ps' = [ps EXCEPT ![p] = ps'[p]] /\ Moved(ps[p], ps'[p], x, ps[p].verdict)
    <2>1. \A x : Goto(p, x) => ps' = [ps EXCEPT ![p] = ps'[p]] /\ Moved(ps[p], ps'[p], x, ps[p].verdict)
      BY GotoMoves DEF RInv
    <2>. QED  BY <2>1 DEF Exchange
  <1>4. MayGo(ps[p], x, ps[p].verdict, fs)
    BY <1>1, <1>2, <1>3, CallFacts DEF MayGo, NotRemoved, Retiring, EntryPcs, RetirePcs,
       ExchangePcs, BeforeCapture, PublishedPcs, NowEmpty
  <1>5. RemovedStays(ps[p], ps'[p], fs)
    BY <1>3 DEF RemovedStays, Moved, Keeps, Acknowledges
  <1>6. UNCHANGED <<fs, disk>> /\ (Quiet' => Quiet)
    BY DEF Exchange, Root, Quiet
  <1>. QED  BY <1>3, <1>4, <1>5, <1>6, GotoRec

LEMMA PreCaptureRec ==
    ASSUME RInv, IInv', NEW p \in Procs, PreCapture(p)
    PROVE  RInv'
  <1>1. ps[p].pc = "precap" /\ ps[p].pc \in EntryPcs
    BY DEF PreCapture, At, EntryPcs, RetirePcs
  <1>2. ps[p].intent.kind # "stage" /\ (Quiet => Expected(ps[p], fs))
    BY <1>1, CallFacts DEF WellFormed, RetirePcs
  <1>3. PICK x \in {"capture", "fail"} :
           ps' = [ps EXCEPT ![p] = ps'[p]] /\ Moved(ps[p], ps'[p], x, ps[p].verdict)
    <2>1. \A x : Goto(p, x) => ps' = [ps EXCEPT ![p] = ps'[p]] /\ Moved(ps[p], ps'[p], x, ps[p].verdict)
      BY GotoMoves DEF RInv
    <2>. QED  BY <2>1 DEF PreCapture
  <1>4. MayGo(ps[p], x, ps[p].verdict, fs)
    BY <1>1, <1>2, <1>3, CallFacts DEF MayGo, NotRemoved, Retiring, EntryPcs, RetirePcs,
       ExchangePcs, BeforeCapture, PublishedPcs,
       NowEmpty, Expected
  <1>5. RemovedStays(ps[p], ps'[p], fs)
    BY <1>3 DEF RemovedStays, Moved, Keeps, Acknowledges
  <1>6. UNCHANGED <<fs, disk>> /\ (Quiet' => Quiet)
    BY DEF PreCapture, Root, Quiet
  <1>. QED  BY <1>3, <1>4, <1>5, <1>6, GotoRec

LEMMA VerifyRec ==
    ASSUME RInv, IInv', NEW p \in Procs, Verify(p)
    PROVE  RInv'
  <1>1. ps[p].pc = "verify" /\ ps[p].pc \in EntryPcs
    BY DEF Verify, At, EntryPcs, RetirePcs
  <1>2. ps[p].intent.kind # "stage"
    BY <1>1, CallFacts DEF WellFormed, RetirePcs
  <1>3. PICK x \in {"preunlink", "rst", "fail"}, v \in {ps[p].verdict, "changed"} :
           ps' = [ps EXCEPT ![p] = ps'[p]] /\ Moved(ps[p], ps'[p], x, v)
    <2>1. \A x : Goto(p, x) => ps' = [ps EXCEPT ![p] = ps'[p]] /\ Moved(ps[p], ps'[p], x, ps[p].verdict)
      BY GotoMoves DEF RInv
    <2>2. \A x, v : ps' = [ps EXCEPT ![p].pc = x, ![p].verdict = v] =>
                      ps' = [ps EXCEPT ![p] = ps'[p]] /\ Moved(ps[p], ps'[p], x, v)
      BY VerdictMoves DEF RInv
    <2>. QED  BY <2>1, <2>2 DEF Verify
  <1>4. MayGo(ps[p], x, v, fs)
    BY <1>1, <1>2, <1>3, CallFacts DEF MayGo, NotRemoved, Retiring, EntryPcs, RetirePcs,
       ExchangePcs, BeforeCapture, PublishedPcs, NowEmpty
  <1>5. RemovedStays(ps[p], ps'[p], fs)
    BY <1>3 DEF RemovedStays, Moved, Keeps, Acknowledges
  <1>6. UNCHANGED <<fs, disk>> /\ (Quiet' => Quiet)
    BY DEF Verify, Root, Quiet
  <1>. QED  BY <1>3, <1>4, <1>5, <1>6, GotoRec

LEMMA PreUnlinkRec ==
    ASSUME RInv, IInv', NEW p \in Procs, PreUnlink(p)
    PROVE  RInv'
  <1>1. ps[p].pc = "preunlink" /\ ps[p].pc \in EntryPcs
    BY DEF PreUnlink, At, EntryPcs, RetirePcs
  <1>2. ps[p].intent.kind # "stage"
    BY <1>1, CallFacts DEF WellFormed, RetirePcs
  <1>3. PICK x \in {"unlink", "fail"} :
           /\ ps' = [ps EXCEPT ![p] = ps'[p]] /\ Moved(ps[p], ps'[p], x, ps[p].verdict)
           /\ x = "unlink" => fs.at[ps[p].e] = ps[p].intent.expect
    <2>1. \A x : Goto(p, x) => ps' = [ps EXCEPT ![p] = ps'[p]] /\ Moved(ps[p], ps'[p], x, ps[p].verdict)
      BY GotoMoves DEF RInv
    <2>. QED  BY <2>1 DEF PreUnlink
  <1>4. MayGo(ps[p], x, ps[p].verdict, fs)
    BY <1>1, <1>2, <1>3, CallFacts DEF MayGo, NotRemoved, Retiring, EntryPcs, RetirePcs,
       ExchangePcs, BeforeCapture, PublishedPcs, NowEmpty
  <1>5. RemovedStays(ps[p], ps'[p], fs)
    BY <1>3 DEF RemovedStays, Moved, Keeps, Acknowledges
  <1>6. UNCHANGED <<fs, disk>> /\ (Quiet' => Quiet)
    BY DEF PreUnlink, Root, Quiet
  <1>. QED  BY <1>3, <1>4, <1>5, <1>6, GotoRec

LEMMA FailedRec ==
    ASSUME RInv, IInv', NEW p \in Procs, Failed(p)
    PROVE  RInv'
  <1>1. ps[p].pc = "fail" /\ ps[p].pc \in EntryPcs
    BY DEF Failed, At, EntryPcs, RetirePcs
  <1>2. ps[p].intent.kind # "stage" /\ (~ ps[p].captured => fs.at[ps[p].e] = None)
    BY <1>1, CallFacts DEF WellFormed, RetirePcs, Retiring
  <1>3. PICK x \in {"rst", "clear", "settle"} :
           /\ ps' = [ps EXCEPT ![p] = ps'[p]] /\ Moved(ps[p], ps'[p], x, "error")
           /\ x = "clear" => ~ ps[p].captured
           /\ x = "rst" => ~ ps[p].removed
    <2>1. \A x : ps' = [ps EXCEPT ![p].verdict = "error", ![p].pc = x] =>
                      ps' = [ps EXCEPT ![p] = ps'[p]] /\ Moved(ps[p], ps'[p], x, "error")
      <3>1. ASSUME NEW x, ps' = [ps EXCEPT ![p].verdict = "error", ![p].pc = x]
            PROVE  ps' = [ps EXCEPT ![p].pc = x, ![p].verdict = "error"]
        <4>1. ps[p] \in Local /\ DOMAIN ps = Procs
          BY LocalFacts DEF RInv
        <4>2. [ps[p] EXCEPT !.verdict = "error", !.pc = x] = [ps[p] EXCEPT !.pc = x, !.verdict = "error"]
          BY <4>1 DEF Local
        <4>. QED  BY <3>1, <4>1, <4>2
      <3>. QED  BY <3>1, VerdictMoves DEF RInv
    <2>2. PICK x \in {"rst", "clear", "settle"} :
             /\ ps' = [ps EXCEPT ![p].verdict = "error", ![p].pc = x]
             /\ x = "clear" => ~ ps[p].captured
             /\ x = "rst" => ~ ps[p].removed
      BY DEF Failed
    <2>. QED  BY <2>1, <2>2
  <1>4. MayGo(ps[p], x, "error", fs)
    BY <1>1, <1>2, <1>3, CallFacts DEF MayGo, NotRemoved, Retiring, EntryPcs, RetirePcs,
       ExchangePcs, BeforeCapture, PublishedPcs, NowEmpty
  <1>5. RemovedStays(ps[p], ps'[p], fs)
    BY <1>3 DEF RemovedStays, Moved, Keeps, Acknowledges
  <1>6. UNCHANGED <<fs, disk>> /\ (Quiet' => Quiet)
    BY DEF Failed, Root, Quiet
  <1>. QED  BY <1>3, <1>4, <1>5, <1>6, GotoRec

\* An fsync in a call.
LEMMA EntrySyncRec ==
    ASSUME RInv, IInv', NEW p \in Procs, Sync(p), ps[p].pc \in EntryPcs
    PROVE  RInv'
  <1>1. ps[p].pc \in {"pubsync", "capP", "capD", "rmD", "rmP", "rstP", "rstD", "clrsync"}
    BY DEF Sync, SyncNext, EntryPcs, RetirePcs, ExchangePcs, StagePcs
  <1>. DEFINE x == SyncNext[ps[p].pc]
  <1>2. /\ ps[p].pc = "pubsync" => x = "published"
        /\ ps[p].pc = "capP" => x = "capD"
        /\ ps[p].pc = "capD" => x = "verify"
        /\ ps[p].pc = "rmD" => x = "rmP"
        /\ ps[p].pc = "rmP" => x = "clear"
        /\ ps[p].pc = "rstP" => x = "rstD"
        /\ ps[p].pc = "rstD" => x = "rstclr"
        /\ ps[p].pc = "clrsync" => x = "settle"
    BY DEF SyncNext
  <1>3. Goto(p, x) /\ disk' = {fs} /\ fs' = fs
    BY DEF Sync, Commit
  <1>. HIDE DEF x
  <1>4. ps' = [ps EXCEPT ![p] = ps'[p]] /\ Moved(ps[p], ps'[p], x, ps[p].verdict)
    BY <1>3, GotoMoves DEF RInv
  <1>5. /\ Retiring(ps[p], fs) /\ Staging(ps[p], fs) /\ WellFormed(p, ps[p])
        /\ Flagged(ps[p], fs) /\ (Quiet => Expected(ps[p], fs))
    BY CallFacts
  <1>6. MayGo(ps[p], x, ps[p].verdict, fs)
    <2>1. ps[p].intent.kind # "stage" \/ ps[p].pc \in {"pubsync", "clrsync"}
      BY <1>1, <1>5 DEF WellFormed, RetirePcs
    <2>2. ps[p].intent.kind # "stage" /\ ps[p].pc \in NowEmpty => fs.at[ps[p].e] = None
      BY <1>5 DEF Retiring
    <2>3. ps[p].pc \in {"rmD", "rmP"} => ps[p].removed
      BY <1>5 DEF Flagged
    <2>4. ps[p].intent.kind = "stage" => ps[p].verdict # "removed"
      BY <1>5 DEF Staging
    <2>5. ps[p].intent.kind # "stage" /\ ps[p].pc \in NotRemoved => ~ ps[p].removed
      BY <1>5 DEF Retiring
    <2>. QED  BY <1>1, <1>2, <2>1, <2>2, <2>3, <2>4, <2>5 DEF MayGo, NotRemoved, EntryPcs,
                 RetirePcs, ExchangePcs, StagePcs,
              BeforeCapture, PublishedPcs, NowEmpty
  <1>7. RemovedStays(ps[p], ps'[p], fs)
    <2>1. CASE ps[p].pc = "rmD"
      <3>1. ps[p].intent.kind # "stage" /\ ps[p].intent.expect \in Objs /\ ps[p].removed
        BY <1>5, <2>1 DEF WellFormed, Flagged, EntryPcs, RetirePcs
      <3>2. ps[p].intent.expect \in fs.retired
        BY <1>5, <3>1, SlotAssumption DEF Flagged
      <3>. QED  BY <1>3, <1>4, <3>2 DEF RemovedStays, Moved
    <2>2. CASE ps[p].pc # "rmD"
      BY <1>1, <1>2, <1>4, <2>2 DEF RemovedStays, Moved, Acknowledges
    <2>. QED  BY <2>1, <2>2
  <1>8. Quiet' => Quiet
    BY DEF Sync, Root, Quiet
  <1>. QED  BY <1>3, <1>4, <1>6, <1>7, <1>8, GotoRec

\* A failing call or a refused authorization inside a removal or a publication.
LEMMA EntryFailRec ==
    ASSUME RInv, IInv', NEW p \in Procs, NEW x \in {"settle", "fail", "stagedrop"}, Goto(p, x),
           ps[p].pc \in EntryPcs \ {"stagedrop"}, x = "stagedrop" <=> ps[p].intent.kind = "stage",
           UNCHANGED <<fs, disk>>, Quiet' => Quiet
    PROVE  RInv'
  <1>1. ps' = [ps EXCEPT ![p] = ps'[p]] /\ Moved(ps[p], ps'[p], x, ps[p].verdict)
    BY GotoMoves DEF RInv
  <1>2. Staging(ps[p], fs)
    BY CallFacts
  <1>3. MayGo(ps[p], x, ps[p].verdict, fs)
    BY <1>2, CallFacts DEF MayGo, NotRemoved, Retiring, EntryPcs, RetirePcs, ExchangePcs, StagePcs,
       BeforeCapture, PublishedPcs,
       NowEmpty, Staging
  <1>4. RemovedStays(ps[p], ps'[p], fs)
    BY <1>1 DEF RemovedStays, Moved, Keeps, Acknowledges
  <1>. QED  BY <1>1, <1>3, <1>4, GotoRec

-----------------------------------------------------------------------------
(* Steps of a call that change the file system.                            *)

\* The session of a call.
LEMMA SessionFacts ==
    ASSUME RInv, NEW p \in Procs, ps[p].pc \in EntryPcs
    PROVE  /\ ps[p].s \in Sess /\ ps[p].s \in fs.dirs \ Legacy
           /\ fs.hdr[ps[p].s] = [st |-> "pub", data |-> "durable"]
           /\ \A i \in ps[p].next .. MaxId :
                 fs.at[<<ps[p].s, i>>] = None /\ fs.rec[<<ps[p].s, i>>].st = "none"
           /\ ps[p].pc # "stagedrop" => SessionOf(ps[p].e) = ps[p].s /\ ps[p].e[2] < ps[p].next
           /\ ps[p].stage # None => ps[p].stage = <<ps[p].s, 0>> /\ ps[p].stage \in E
           /\ ps[p].next \in 0 .. MaxId + 1
  <1>1. OwnerOK(ps[p], fs) /\ WellFormed(p, ps[p]) /\ ps[p] \in Local
    BY CallFacts
  <1>2. ps[p].pc \in HeaderPcs /\ ps[p].pc \notin {"idle", "scan", "mkdir"}
    BY DEF HeaderPcs, EntryPcs, RetirePcs, ExchangePcs, StagePcs
  <1>3. InSession(ps[p], fs) /\ Entry(ps[p])
    BY <1>1 DEF OwnerOK
  <1>. QED  BY <1>1, <1>2, <1>3 DEF InSession, Entry, Used, WellFormed, Local

\* No capture refers to a free entry.
LEMMA Unreferred ==
    ASSUME RInv, NEW p \in Procs, ps[p].pc = "write", ps[p].intent.kind # "stage"
    PROVE  \A x \in Captured(fs) : fs.intent[x].name # ps[p].e
  <1>1. ps[p].pc \in EntryPcs
    BY DEF EntryPcs, StagePcs
  <1>2. ps[p].e \in E /\ fs.at[ps[p].e] = None /\ ps[p].e[2] + 1 = ps[p].next /\ Sound(fs)
    BY <1>1, CallFacts DEF Retiring, Entry, BeforeCapture
  <1>3. SUFFICES ASSUME NEW x \in Captured(fs), fs.intent[x].name = ps[p].e PROVE FALSE
    OBVIOUS
  <1>4. x \in E /\ fs.at[x] # None /\ Origin(fs, x, fs.at[x])
    BY <1>2, <1>3 DEF Sound, Named, Captured
  <1>5. ps[p].e = <<SessionOf(x), 0>>
    BY <1>2, <1>3, <1>4, EntryFacts DEF Origin
  <1>6. SessionOf(x) = ps[p].s /\ ps[p].next = 1
    BY <1>1, <1>2, <1>5, SessionFacts DEF SessionOf
  <1>7. x # ps[p].e
    BY <1>2, <1>4
  <1>8. x[2] \in ps[p].next .. MaxId
    BY <1>4, <1>5, <1>6, <1>7, EntryFacts, SlotAssumption
  <1>9. fs.at[x] = None
    BY <1>1, <1>4, <1>6, <1>8, SessionFacts, EntryFacts
  <1>. QED  BY <1>4, <1>9

LEMMA WritePendingRec ==
    ASSUME RInv, IInv', NEW p \in Procs, WritePending(p)
    PROVE  RInv'
  <1>. DEFINE k == ps[p]
              l == ps'[p]
              e == ps[p].e
              r == [st |-> "pend", data |-> "cached"]
  <1>1. k.pc = "write" /\ k.pc \in EntryPcs
    BY DEF WritePending, At, EntryPcs, StagePcs
  <1>2. ps' = [ps EXCEPT ![p] = l] /\ Moved(k, l, "fsyncrec", k.verdict)
    BY GotoMoves DEF RInv, WritePending
  <1>3. /\ fs \in FS /\ e \in E /\ Sound(fs) /\ (Quiet => Back(fs)) /\ k.intent \in Intent
        /\ Retiring(k, fs) /\ Staging(k, fs) /\ Entry(k) /\ WellFormed(p, k)
        /\ (Quiet => Expected(k, fs))
    BY <1>1, CallFacts
  <1>4. r \in File /\ r.st = "pend"
    BY DEF File, Data
  <1>5. fs' = WithRecord(fs, e, r, k.intent) /\ disk' = disk \cup {fs'} /\ (Quiet' => Quiet)
    BY DEF WritePending, Put, Root, Quiet, WithRecord
  <1>0. e = k.e
    OBVIOUS
  <1>. HIDE DEF r, k, l, e
  <1>6. /\ fs' \in FS /\ SameObjs(fs, fs') /\ SameHome(fs, fs') /\ fs'.at = fs.at
        /\ fs'.rec[e] = r /\ fs'.intent[e] = k.intent
        /\ \A x \in E \ {e} : fs'.rec[x] = fs.rec[x] /\ fs'.intent[x] = fs.intent[x]
    BY <1>3, <1>4, <1>5, RecordFS
  <1>7. fs.at[e] = None
    BY <1>0, <1>1, <1>3 DEF Retiring, Staging, BeforeCapture, StagePcs, EntryPcs
  <1>8. Sound(fs') /\ (Quiet => Back(fs'))
    <2>1. SessionOf(e) \in fs.dirs \ Legacy
      BY <1>1, SessionFacts DEF k, e
    <2>2. k.intent.kind # "stage" => k.intent.name \in Slot
      BY <1>1, <1>3 DEF WellFormed
    <2>3. k.intent.kind = "stage" \/ \A x \in Captured(fs) : fs.intent[x].name # e
      BY <1>1, Unreferred DEF k, e
    <2>. QED  BY <1>3, <1>6, <1>7, <2>1, <2>2, <2>3, WrittenSound
  <1>9. OnEntry(k, l, fs, fs')
    BY <1>0, <1>1, <1>2, <1>6 DEF OnEntry, Touches, Moved, Keeps, SameHome, SameObjs, EntryPcs,
       RetirePcs, ExchangePcs, StagePcs
  <1>10. Retiring(l, fs')
    BY <1>0, <1>1, <1>2, <1>3, <1>4, <1>6, <1>7 DEF Retiring, Moved, Keeps, BeforeCapture,
       PublishedPcs, NowEmpty,
       NotRemoved
  <1>11. Staging(l, fs')
    BY <1>0, <1>1, <1>2, <1>3, <1>4, <1>6, <1>7, SessionFacts DEF Staging, Moved, Keeps,
       BeforeCapture, StagePcs,
       ExchangePcs, EntryPcs, SameObjs, k
  <1>12. Quiet => Expected(l, fs')
    BY <1>1, <1>2, <1>3, <1>6 DEF Expected, Moved, Keeps, BeforeCapture
  <1>13. RemovedStays(k, l, fs')
    BY <1>2 DEF RemovedStays, Moved, Keeps, Acknowledges
  <1>. QED  BY <1>2, <1>5, <1>8, <1>9, <1>10, <1>11, <1>12, <1>13, OnEntryStep DEF k, l

LEMMA RecordStepRec ==
    ASSUME RInv, IInv', NEW p \in Procs, SyncRecord(p) \/ PublishRecord(p)
    PROVE  RInv'
  <1>. DEFINE k == ps[p]
              l == ps'[p]
              e == ps[p].e
              x == IF SyncRecord(p) THEN "rename" ELSE "pubsync"
  <1>0. e = k.e
    OBVIOUS
  <1>1. k.pc \in {"fsyncrec", "rename"} /\ k.pc \in EntryPcs
    BY DEF SyncRecord, PublishRecord, At, EntryPcs, StagePcs
  <1>2. ps' = [ps EXCEPT ![p] = l] /\ Moved(k, l, x, k.verdict)
    BY GotoMoves DEF RInv, SyncRecord, PublishRecord
  <1>3. /\ fs \in FS /\ e \in E /\ Sound(fs) /\ (Quiet => Back(fs)) /\ k.intent \in Intent
        /\ Retiring(k, fs) /\ Staging(k, fs) /\ Entry(k) /\ (Quiet => Expected(k, fs))
    BY <1>1, CallFacts
  <1>4. /\ x = "rename" => k.pc = "fsyncrec" /\ fs' = SyncedRecord(fs, e)
        /\ x = "pubsync" => k.pc = "rename" /\ fs' = PublishedRecord(fs, e)
        /\ disk' \subseteq disk \cup {fs'} /\ (Quiet' => Quiet) /\ x \in {"rename", "pubsync"}
    BY DEF SyncRecord, PublishRecord, At, Put, Root, Quiet, SyncedRecord, PublishedRecord
  <1>. HIDE DEF k, l, e, x
  <1>5. /\ fs' \in FS /\ SameObjs(fs, fs') /\ SameHome(fs, fs') /\ fs'.at = fs.at /\ fs'.intent = fs.intent
        /\ x = "rename" => fs'.rec[e].st = fs.rec[e].st /\ fs'.rec[e].data = "durable"
        /\ x = "pubsync" => fs'.rec[e].st = "pub" /\ fs'.rec[e].data = fs.rec[e].data
        /\ \A y \in E \ {e} : fs'.rec[y] = fs.rec[y]
    BY <1>3, <1>4, RecordFieldFS
  <1>6. fs.rec[e].st = "pend" /\ (x = "pubsync" => fs.rec[e].data = "durable")
    BY <1>0, <1>1, <1>3, <1>4 DEF Retiring, Staging
  <1>7. Sound(fs') /\ (Quiet => Back(fs'))
    <2>1. \A y \in E : fs.rec[y].st = "none" => fs'.rec[y].st = "none"
      BY <1>5, <1>6
    <2>2. \A y \in E : fs.rec[y].st = "pub" /\ fs.rec[y].data = "durable" =>
                          fs'.rec[y].st = "pub" /\ fs'.rec[y].data = "durable"
      BY <1>5, <1>6
    <2>3. fs'.hdr = fs.hdr /\ fs'.dirs = fs.dirs
      BY <1>5 DEF SameHome
    <2>4. fs'.dirs \subseteq Legacy \/ fs'.dirs \cap Legacy = {}
      BY <1>3, <2>3 DEF Sound, Housed
    <2>. QED  BY <1>3, <1>5, <2>1, <2>2, <2>3, <2>4, StrongerSound
  <1>8. OnEntry(k, l, fs, fs')
    BY <1>0, <1>1, <1>2, <1>4, <1>5 DEF OnEntry, Touches, Moved, Keeps, SameHome, SameObjs,
       EntryPcs, RetirePcs,
       ExchangePcs, StagePcs
  <1>9. Retiring(l, fs')
    BY <1>0, <1>1, <1>2, <1>3, <1>4, <1>5, <1>6 DEF Retiring, Moved, Keeps, BeforeCapture,
       PublishedPcs,
       NowEmpty, NotRemoved, EntryPcs, StagePcs
  <1>10. Staging(l, fs')
    BY <1>0, <1>1, <1>2, <1>3, <1>4, <1>5, <1>6 DEF Staging, Moved, Keeps, BeforeCapture, StagePcs,
       ExchangePcs, EntryPcs, SameObjs
  <1>11. Quiet => Expected(l, fs')
    BY <1>1, <1>2, <1>3, <1>4, <1>5 DEF Expected, Moved, Keeps, BeforeCapture
  <1>12. RemovedStays(k, l, fs')
    BY <1>2, <1>4 DEF RemovedStays, Moved, Keeps, Acknowledges
  <1>. QED  BY <1>2, <1>4, <1>7, <1>8, <1>9, <1>10, <1>11, <1>12, OnEntryStep DEF k, l

LEMMA ClearRecordRec ==
    ASSUME RInv, IInv', NEW p \in Procs, ClearRecord(p)
    PROVE  RInv'
  <1>. DEFINE k == ps[p]
              l == ps'[p]
              e == ps[p].e
              v == IF ps[p].verdict = "none" /\ ps[p].removed THEN "removed" ELSE ps[p].verdict
  <1>0. e = k.e /\ v = IF k.verdict = "none" /\ k.removed THEN "removed" ELSE k.verdict
    OBVIOUS
  <1>1. k.pc \in {"clear", "rstclr"} /\ k.pc \in EntryPcs
    BY DEF ClearRecord, At, EntryPcs, RetirePcs
  <1>2. ps' = [ps EXCEPT ![p] = l] /\ Moved(k, l, "clrsync", v)
    <2>1. ps' = [ps EXCEPT ![p].pc = "clrsync", ![p].verdict = v]
      BY LocalFacts DEF RInv, ClearRecord, Local
    <2>. QED  BY <2>1, VerdictMoves DEF RInv
  <1>3. /\ fs \in FS /\ e \in E /\ Sound(fs) /\ (Quiet => Back(fs))
        /\ Retiring(k, fs) /\ Staging(k, fs) /\ Entry(k) /\ WellFormed(p, k)
    BY <1>1, CallFacts
  <1>4. fs' = WithRecord(fs, e, NoFile, NoIntent) /\ disk' = disk \cup {fs'} /\ (Quiet' => Quiet)
    BY DEF ClearRecord, Put, Root, Quiet, WithRecord
  <1>5. ps[p].stage # None => ps[p].stage \in E
    BY <1>1, SessionFacts
  <1>. HIDE DEF k, l, e, v
  <1>6. /\ fs' \in FS /\ SameObjs(fs, fs') /\ SameHome(fs, fs') /\ fs'.at = fs.at
        /\ fs'.rec[e] = NoFile /\ fs'.intent[e] = NoIntent
        /\ \A x \in E \ {e} : fs'.rec[x] = fs.rec[x] /\ fs'.intent[x] = fs.intent[x]
    BY <1>3, <1>4, NoFileType, RecordFS
  <1>7. fs.at[e] = None
    <2>1. k.intent.kind = "stage" => k.pc = "clear"
      BY <1>1, <1>3 DEF WellFormed, RetirePcs
    <2>. QED  BY <1>0, <1>1, <1>3, <2>1 DEF Retiring, Staging, NowEmpty
  <1>8. Sound(fs') /\ (Quiet => Back(fs'))
    BY <1>3, <1>6, <1>7, ClearedSound
  <1>9. OnEntry(k, l, fs, fs')
    BY <1>0, <1>1, <1>2, <1>6 DEF OnEntry, Touches, Moved, Keeps, SameHome, SameObjs, EntryPcs,
       RetirePcs,
       ExchangePcs, StagePcs
  <1>10. Retiring(l, fs')
    BY <1>0, <1>1, <1>2, <1>3, <1>6, <1>7 DEF Retiring, Moved, Keeps, BeforeCapture, PublishedPcs,
       NowEmpty, NotRemoved
  <1>11. Staging(l, fs')
    BY <1>0, <1>1, <1>2, <1>3, <1>5, <1>6, <1>7 DEF Staging, Moved, Keeps, BeforeCapture, StagePcs,
       ExchangePcs, EntryPcs, SameObjs, k
  <1>12. Quiet => Expected(l, fs')
    BY <1>2 DEF Expected, Moved, BeforeCapture
  <1>13. RemovedStays(k, l, fs')
    <2>1. k.pc = "rstclr" => ~ k.removed
      BY <1>3 DEF Retiring, WellFormed, RetirePcs, NotRemoved
    <2>. QED  BY <1>0, <1>1, <1>2, <2>1 DEF RemovedStays, Moved, Keeps, Acknowledges
  <1>. QED  BY <1>2, <1>4, <1>8, <1>9, <1>10, <1>11, <1>12, <1>13, OnEntryStep DEF k, l

LEMMA RenameExchangeRec ==
    ASSUME RInv, IInv', NEW p \in Procs, RenameExchange(p)
    PROVE  RInv'
  <1>. DEFINE k == ps[p]
              l == ps'[p]
              n == Outgoing(p)
              ok == fs.at[n] # None /\ fs.at[Dst] # None
              x == IF ok /\ At(p, "swap") THEN "swapcheck" ELSE NotPublished(p)
  <1>1. k.pc \in {"swap", "swapback"} /\ k.pc \in EntryPcs
    BY DEF RenameExchange, At, EntryPcs, ExchangePcs
  <1>2. ps' = [ps EXCEPT ![p] = l] /\ Moved(k, l, x, k.verdict)
    BY GotoMoves DEF RInv, RenameExchange
  <1>3. /\ fs \in FS /\ k.e \in E /\ Sound(fs) /\ (Quiet => Back(fs)) /\ k.intent.kind \in Kinds
        /\ Retiring(k, fs) /\ Staging(k, fs) /\ Entry(k) /\ WellFormed(p, k)
    BY <1>1, CallFacts
  <1>4. /\ x \in {"swapcheck", "fail", "stagedrop"} /\ (x = "swapcheck" => ok)
        /\ x # "swapcheck" => (x = "stagedrop" <=> k.intent.kind = "stage")
        /\ Quiet' => Quiet
        /\ ok => fs' = Swap(fs, n, Dst) /\ disk' = disk \cup {fs'}
        /\ ~ ok => UNCHANGED <<fs, disk>>
    BY DEF RenameExchange, NotPublished, Put, Root, Quiet
  <1>5. /\ k.intent.kind = "stage" => n = k.e
        /\ k.intent.kind # "stage" => n = k.intent.name /\ n \in Names /\ k.intent.kind = "replace" /\ k.stage = None
    BY <1>1, <1>3 DEF Outgoing, Entry, EntryPcs, ExchangePcs, Kinds
  <1>6. SessionOf(k.e) \in fs.dirs
    <2>1. k.pc # "stagedrop"
      BY <1>1
    <2>. QED  BY <1>1, <2>1, SessionFacts
  <1>. HIDE DEF k, l, n, ok, x
  <1>7. CASE ~ ok
    <2>1. MayGo(k, x, k.verdict, fs)
      BY <1>1, <1>3, <1>4, <1>7 DEF MayGo, NotRemoved, Retiring, EntryPcs, RetirePcs, ExchangePcs,
         StagePcs,
         BeforeCapture, PublishedPcs, NowEmpty, Staging
    <2>2. RemovedStays(k, l, fs)
      BY <1>2, <1>4 DEF RemovedStays, Moved, Keeps, Acknowledges
    <2>. QED  BY <1>2, <1>4, <1>7, <2>1, <2>2, GotoRec DEF k, l
  <1>8. CASE ok
    <2>1. n \in Slot /\ Dst \in Slot /\ n # Dst
      BY <1>3, <1>5, SlotFacts, SlotAssumption, EntryFacts
    <2>2. /\ fs' \in FS /\ SameRecs(fs, fs') /\ SameHome(fs, fs')
          /\ fs'.unborn = fs.unborn /\ fs'.dropped = fs.dropped /\ fs'.retired = fs.retired
          /\ fs'.displaced = IF n \in E THEN fs.displaced \cup ({fs.at[Dst]} \ {None}) ELSE fs.displaced
          /\ fs'.at[n] = fs.at[Dst] /\ fs'.at[Dst] = fs.at[n]
          /\ \A y \in Slot \ {n, Dst} : fs'.at[y] = fs.at[y]
      <3>1. fs' = Swap(fs, n, Dst)
        BY <1>4, <1>8
      <3>2. Swapped(fs, fs', n, Dst)
        BY <1>3, <2>1, <3>1, SwapFS
      <3>. QED  BY <3>2 DEF Swapped
    <2>3. Accounted(fs') /\ Distinct(fs')
      BY <1>3, <2>1, <2>2, SwapObjs DEF Sound
    <2>4. \A e \in E : e # n => fs'.at[e] = fs.at[e]
      BY <2>2, EntryFacts
    <2>5. n \in E => n = k.e /\ k.intent.kind = "stage" /\ fs.intent[n].kind = "stage" /\ fs'.at[n] \in fs'.displaced
      <3>1. n \in E => k.intent.kind = "stage" /\ n = k.e
        BY <1>5, EntryFacts
      <3>2. k.intent.kind = "stage" => fs.intent[k.e].kind = "stage"
        BY <1>1, <1>3 DEF Staging, ExchangePcs
      <3>. QED  BY <1>8, <2>2, <3>1, <3>2 DEF ok
    <2>6. Housed(fs') /\ Kept(fs') /\ Named(fs')
      <3>1. fs.displaced \subseteq fs'.displaced
        BY <2>2
      <3>. QED  BY <1>3, <1>6, <2>2, <2>4, <2>5, <3>1, SameEntries DEF Sound
    <2>7. Quiet => Back(fs')
      <3>1. \A e \in Captured(fs') : e \in Captured(fs) /\ fs'.at[e] = fs.at[e]
        BY <2>2, <2>4, <2>5 DEF Captured, SameRecs
      <3>2. \A m \in Names : fs.at[m] = None => fs'.at[m] = None
        BY <1>8, <2>2, SlotFacts, SlotAssumption DEF ok
      <3>. QED  BY <1>3, <2>2, <3>1, <3>2, SameBack
    <2>8. OnEntry(k, l, fs, fs')
      BY <1>1, <1>2, <1>4, <1>5, <2>2, <2>4, <2>5 DEF OnEntry, Touches, Moved, Keeps, SameHome,
         SameRecs, EntryPcs,
         RetirePcs, ExchangePcs, StagePcs
    <2>9. Retiring(l, fs')
      <3>1. k.intent.kind # "stage" => fs'.at[k.e] = fs.at[k.e]
        BY <1>3, <2>4, <2>5
      <3>. QED  BY <1>1, <1>2, <1>3, <1>4, <2>2, <3>1 DEF Retiring, Moved, Keeps, BeforeCapture,
                PublishedPcs, NowEmpty, NotRemoved, SameRecs, EntryPcs, ExchangePcs, RetirePcs
    <2>10. Staging(l, fs')
      BY <1>1, <1>2, <1>3, <1>4, <1>5, <2>2, <2>5 DEF Staging, Moved, Keeps, BeforeCapture,
         StagePcs,
         ExchangePcs, EntryPcs, RetirePcs, SameRecs
    <2>11. Quiet => Expected(l, fs')
      BY <1>2, <1>4, <1>5 DEF Expected, Moved, BeforeCapture
    <2>12. RemovedStays(k, l, fs')
      BY <1>2, <1>4 DEF RemovedStays, Moved, Keeps, Acknowledges
    <2>13. Sound(fs') /\ disk' \subseteq disk \cup {fs'}
      BY <1>4, <1>8, <2>3, <2>6 DEF Sound
    <2>. QED  BY <1>2, <1>4, <2>7, <2>8, <2>9, <2>10, <2>11, <2>12, <2>13, OnEntryStep DEF k, l
  <1>. QED  BY <1>7, <1>8

LEMMA CaptureRec ==
    ASSUME RInv, IInv', NEW p \in Procs, Capture(p)
    PROVE  RInv'
  <1>. DEFINE k == ps[p]
              l == ps'[p]
              n == ps[p].intent.name
  <1>0. n = k.intent.name
    OBVIOUS
  <1>1. k.pc = "capture" /\ k.pc \in EntryPcs /\ k.pc # "stagedrop"
    BY DEF Capture, At, EntryPcs, RetirePcs
  <1>2. /\ fs \in FS /\ k \in Local /\ k.e \in E /\ Sound(fs) /\ (Quiet => Back(fs)) /\ (Quiet => Expected(k, fs))
        /\ Retiring(k, fs) /\ Staging(k, fs) /\ Entry(k) /\ WellFormed(p, k)
    BY <1>1, CallFacts
  <1>3. k.intent.kind # "stage" /\ n \in Slot /\ (Quiet' => Quiet)
    BY <1>1, <1>2 DEF WellFormed, RetirePcs, Capture, Root, Quiet
  <1>4. /\ SessionOf(k.e) = k.s /\ k.s \in fs.dirs \ Legacy
        /\ fs.hdr[k.s] = [st |-> "pub", data |-> "durable"]
        /\ k.stage # None => k.stage = <<k.s, 0>> /\ k.stage \in E
    BY <1>1, SessionFacts
  <1>5. CASE fs.at[n] = None
    <2>1. ps' = [ps EXCEPT ![p] = l] /\ Moved(k, l, "fail", k.verdict) /\ UNCHANGED <<fs, disk>>
      BY <1>5, GotoMoves DEF RInv, Capture
    <2>2. RemovedStays(k, l, fs)
      BY <2>1 DEF RemovedStays, Moved, Keeps, Acknowledges
    <2>. HIDE DEF k, l, n
    <2>3. MayGo(k, "fail", k.verdict, fs)
      BY <1>1, <1>3 DEF MayGo, NotRemoved, EntryPcs, RetirePcs, ExchangePcs, BeforeCapture,
         PublishedPcs, NowEmpty
    <2>. QED  BY <1>3, <2>1, <2>2, <2>3, GotoRec DEF k, l
  <1>6. CASE fs.at[n] # None
    <2>1. /\ ps' = [ps EXCEPT ![p] = l] /\ Keeps(k, l) /\ l.pc = "capP" /\ l.verdict = k.verdict
          /\ l.intent = k.intent /\ l.removed = k.removed /\ l.captured
      <3>1. ps' = [ps EXCEPT ![p].pc = "capP", ![p].captured = TRUE]
        BY <1>6 DEF Capture
      <3>2. l = [k EXCEPT !.pc = "capP", !.captured = TRUE] /\ ps' = [ps EXCEPT ![p] = l]
        BY <3>1, LocalFacts DEF RInv
      <3>. HIDE DEF l, k
      <3>. QED  BY <1>2, <3>2 DEF Keeps, Local
    <2>2. fs' = Move(fs, n, k.e) /\ disk' = disk \cup {fs'}
      BY <1>6 DEF Capture, Put
    <2>. HIDE DEF k, l, n
    <2>3. n # k.e /\ fs.at[k.e] = None /\ fs.intent[k.e] = k.intent /\ Recorded(fs, k.e)
          /\ Origin(fs, k.e, fs.at[n]) /\ (n \in Names \/ n = k.stage)
      <3>1. fs.at[k.e] = None /\ fs.intent[k.e] = k.intent
            /\ fs.rec[k.e].st = "pub" /\ fs.rec[k.e].data = "durable"
        BY <1>1, <1>2, <1>3 DEF Retiring, BeforeCapture, PublishedPcs
      <3>2. Recorded(fs, k.e)
        BY <1>4, <3>1 DEF Recorded
      <3>3. n \notin Names => /\ k.stage # None /\ n = k.stage /\ k.e # k.stage
                              /\ fs.at[n] \in fs.displaced /\ fs.intent[k.stage].kind = "stage"
        BY <1>0, <1>1, <1>2, <1>3 DEF Entry, Staging, BeforeCapture
      <3>4. Origin(fs, k.e, fs.at[n])
        BY <1>0, <1>4, <3>1, <3>3 DEF Origin
      <3>5. n # k.e
        BY <1>2, <3>3, EntryFacts
      <3>. QED  BY <3>1, <3>2, <3>3, <3>4, <3>5
    <2>4. k.e \in Slot
      BY <1>2, EntryFacts
    <2>5. Renamed(fs, fs', n, k.e)
      BY <1>2, <1>3, <2>2, <2>3, <2>4, MoveFS
    <2>6. Sound(fs') /\ (Quiet => Back(fs'))
      <3>1. Quiet => fs.at[n] = fs.intent[k.e].expect
        BY <1>0, <1>1, <1>2, <1>3, <2>3 DEF Expected
      <3>. QED  BY <1>0, <1>2, <1>3, <1>6, <2>3, <2>5, <3>1, CaptureSound DEF Renamed
    <2>7. OnEntry(k, l, fs, fs')
      <3>1. \A x \in E : x # k.e /\ x # k.stage => fs'.at[x] = fs.at[x]
        BY <2>3, <2>5, EntryFacts DEF Renamed
      <3>. QED  BY <1>1, <2>1, <2>5, <3>1 DEF OnEntry, Touches, Renamed, SameObjs, SameRecs,
                   SameHome, EntryPcs, RetirePcs,
                ExchangePcs, StagePcs
    <2>8. Retiring(l, fs')
      BY <1>1, <1>2, <1>3, <2>1, <2>3, <2>5 DEF Retiring, Keeps, BeforeCapture, PublishedPcs,
         NowEmpty, NotRemoved, Renamed, SameRecs
    <2>9. Staging(l, fs')
      BY <1>1, <1>2, <1>3, <2>1, <2>3, <2>5 DEF Staging, Keeps, BeforeCapture, Renamed, SameRecs,
         SameObjs,
         EntryPcs, RetirePcs
    <2>10. Quiet => Expected(l, fs')
      BY <2>1 DEF Expected, BeforeCapture
    <2>11. RemovedStays(k, l, fs')
      BY <2>1 DEF RemovedStays, Acknowledges
    <2>. QED  BY <1>3, <2>1, <2>2, <2>6, <2>7, <2>8, <2>9, <2>10, <2>11, OnEntryStep DEF k, l
  <1>. QED  BY <1>5, <1>6

LEMMA RestoreRec ==
    ASSUME RInv, IInv', NEW p \in Procs, Restore(p)
    PROVE  RInv'
  <1>. DEFINE k == ps[p]
              l == ps'[p]
              n == ps[p].intent.name
              ok == fs.at[k.e] # None /\ fs.at[n] = None
  <1>0. n = k.intent.name
    OBVIOUS
  <1>1. k.pc = "rst" /\ k.pc \in EntryPcs /\ k.pc # "stagedrop"
    BY DEF Restore, At, EntryPcs, RetirePcs
  <1>2. /\ fs \in FS /\ k \in Local /\ k.e \in E /\ Sound(fs) /\ (Quiet => Back(fs))
        /\ Retiring(k, fs) /\ Staging(k, fs) /\ Entry(k) /\ WellFormed(p, k)
    BY <1>1, CallFacts
  <1>3. k.intent.kind # "stage" /\ n \in Slot /\ (Quiet' => Quiet)
    BY <1>1, <1>2 DEF WellFormed, RetirePcs, Restore, Root, Quiet
  <1>4. SessionOf(k.e) = k.s /\ k.s \notin Legacy
    BY <1>1, SessionFacts
  <1>5. CASE ~ ok
    <2>1. PICK x \in {"fail", "settle"} :
            ps' = [ps EXCEPT ![p] = l] /\ Moved(k, l, x, k.verdict) /\ UNCHANGED <<fs, disk>>
      <3>1. \A x : Goto(p, x) => ps' = [ps EXCEPT ![p] = ps'[p]] /\ Moved(ps[p], ps'[p], x, ps[p].verdict)
        BY GotoMoves DEF RInv
      <3>. QED  BY <1>5, <3>1 DEF Restore
    <2>2. RemovedStays(k, l, fs)
      BY <2>1 DEF RemovedStays, Moved, Keeps, Acknowledges
    <2>. HIDE DEF k, l, n, ok
    <2>3. MayGo(k, x, k.verdict, fs)
      BY <1>1, <1>3, <2>1 DEF MayGo, NotRemoved, EntryPcs, RetirePcs, ExchangePcs, BeforeCapture,
         PublishedPcs, NowEmpty
    <2>. QED  BY <1>3, <2>1, <2>2, <2>3, GotoRec DEF k, l
  <1>6. CASE ok
    <2>1. /\ ps' = [ps EXCEPT ![p] = l] /\ Moved(k, l, "rstP", k.verdict)
          /\ fs' = Move(fs, k.e, n) /\ disk' = disk \cup {fs'}
      BY <1>6, GotoMoves DEF RInv, Restore, Put
    <2>. HIDE DEF k, l, n
    <2>2. n # k.e /\ fs.intent[k.e] = k.intent /\ (n \in Names \/ n = k.stage)
      <3>1. fs.intent[k.e] = k.intent
        BY <1>1, <1>2, <1>3, <1>6 DEF Retiring
      <3>2. n \in Names \/ n = k.stage
        BY <1>0, <1>1, <1>2, <1>3 DEF Entry, Staging
      <3>. QED  BY <1>6, <3>1, <3>2
    <2>3. k.e \in Slot
      BY <1>2, EntryFacts
    <2>4. Renamed(fs, fs', k.e, n)
      BY <1>2, <1>3, <2>1, <2>2, <2>3, MoveFS
    <2>5. Sound(fs') /\ (Quiet => Back(fs'))
      BY <1>0, <1>2, <1>3, <1>4, <1>6, <2>2, <2>4, RestoreSound DEF Renamed
    <2>6. OnEntry(k, l, fs, fs')
      <3>1. \A x \in E : x # k.e /\ x # k.stage => fs'.at[x] = fs.at[x]
        BY <2>2, <2>4, EntryFacts DEF Renamed
      <3>. QED  BY <1>1, <2>1, <2>4, <3>1 DEF OnEntry, Touches, Moved, Renamed, SameObjs, SameRecs,
                   SameHome,
                EntryPcs, RetirePcs, ExchangePcs, StagePcs
    <2>7. Retiring(l, fs')
      BY <1>1, <1>2, <1>3, <2>1, <2>4 DEF Retiring, Moved, Keeps, BeforeCapture, PublishedPcs,
         NowEmpty, NotRemoved, Renamed
    <2>8. Staging(l, fs')
      BY <1>1, <1>2, <1>3, <2>1, <2>4 DEF Staging, Moved, Keeps, BeforeCapture, Renamed, SameRecs,
         SameObjs,
         EntryPcs, RetirePcs
    <2>9. Quiet => Expected(l, fs')
      BY <2>1 DEF Expected, Moved, BeforeCapture
    <2>10. RemovedStays(k, l, fs')
      BY <2>1 DEF RemovedStays, Moved, Keeps, Acknowledges
    <2>. QED  BY <1>3, <2>1, <2>5, <2>6, <2>7, <2>8, <2>9, <2>10, OnEntryStep DEF k, l
  <1>. QED  BY <1>5, <1>6

\* The copy is built.
LEMMA StageCreateRec ==
    ASSUME RInv, IInv', NEW p \in Procs, StageCreate(p)
    PROVE  RInv'
  <1>. DEFINE k == ps[p]
              l == ps'[p]
              e == ps[p].e
  <1>0. e = k.e
    OBVIOUS
  <1>1. k.pc = "stagemk" /\ k.pc \in EntryPcs /\ k.pc # "stagedrop"
    BY DEF StageCreate, At, EntryPcs, StagePcs
  <1>2. /\ fs \in FS /\ k \in Local /\ e \in E /\ Sound(fs) /\ (Quiet => Back(fs))
        /\ Staging(k, fs) /\ WellFormed(p, k)
    BY <1>1, CallFacts
  <1>3. SessionOf(e) = k.s /\ k.s \in fs.dirs /\ fs.hdr[k.s] = [st |-> "pub", data |-> "durable"]
    BY <1>1, SessionFacts
  <1>4. k.intent.kind = "stage"
    BY <1>1, <1>2 DEF WellFormed
  <1>5. PICK o \in fs.unborn :
          /\ fs' = [fs EXCEPT !.at[e] = o, !.unborn = fs.unborn \ {o}]
          /\ disk' = disk \cup {fs'} /\ (Quiet' => Quiet)
          /\ ps' = [ps EXCEPT ![p].pc = "stagepub", ![p].intent.source = o]
    BY DEF StageCreate, Put, Root, Quiet
  <1>6. /\ ps' = [ps EXCEPT ![p] = l] /\ Keeps(k, l) /\ l.pc = "stagepub"
        /\ l.verdict = k.verdict /\ l.removed = k.removed /\ l.captured = k.captured
    <2>1. ps' = [ps EXCEPT ![p] = l] /\ l = [k EXCEPT !.pc = "stagepub", !.intent.source = o]
      BY <1>5, LocalFacts DEF RInv
    <2>. HIDE DEF l, k
    <2>2. k.intent \in Intent
      BY <1>2 DEF Local
    <2>. QED  BY <1>2, <2>1, <2>2 DEF Keeps, Local, Intent
  <1>. HIDE DEF k, l, e
  <1>7. e \in Slot /\ o \in Objs \cup {None} /\ fs.unborn \ {o} \in SUBSET Objs /\ o # None
    BY <1>2, <1>5, EntryFacts, SlotAssumption DEF FS
  <1>8. /\ fs' \in FS /\ SameRecs(fs, fs') /\ SameHome(fs, fs') /\ fs'.displaced = fs.displaced
        /\ fs'.at[e] = o /\ \A y \in Slot \ {e} : fs'.at[y] = fs.at[y]
        /\ fs'.unborn = fs.unborn \ {o} /\ fs'.dropped = fs.dropped /\ fs'.retired = fs.retired
    <2>. DEFINE U == fs.unborn \ {o}
                g == Updated(fs, e, o, U, fs.dropped, fs.retired)
    <2>1. fs' = g
      BY <1>2, <1>5 DEF Updated, FS
    <2>2. U \in SUBSET Objs /\ fs.dropped \in SUBSET Objs /\ fs.retired \in SUBSET Objs
      BY <1>2 DEF FS
    <2>3. U = fs.unborn \ {o}
      OBVIOUS
    <2>. HIDE DEF U
    <2>4. Replaced(fs, g, e, o) /\ g.unborn = U /\ g.dropped = fs.dropped /\ g.retired = fs.retired
      BY <1>2, <1>7, <2>2, EntryFS
    <2>. QED  BY <2>1, <2>3, <2>4 DEF Replaced
  <1>9. /\ fs.at[e] = None /\ fs.intent[e].kind = "stage"
        /\ fs.rec[e].st = "pub" /\ fs.rec[e].data = "durable"
    BY <1>0, <1>1, <1>2, <1>4 DEF Staging, StagePcs
  <1>10. Sound(fs')
    <2>1. Accounted(fs') /\ Distinct(fs')
      BY <1>2, <1>7, <1>8, <1>9, EntryObjs DEF Sound
    <2>2. Recorded(fs, e)
      BY <1>3, <1>9 DEF Recorded
    <2>3. Housed(fs') /\ Kept(fs') /\ Named(fs')
      BY <1>2, <1>3, <1>8, <1>9, <2>2, EntryFacts, SameEntries DEF Sound
    <2>. QED  BY <2>1, <2>3 DEF Sound
  <1>11. Quiet => Back(fs')
    <2>1. \A x \in Captured(fs') : x \in Captured(fs) /\ fs'.at[x] = fs.at[x]
      BY <1>8, <1>9, EntryFacts DEF Captured, SameRecs
    <2>2. \A n \in Names : fs.at[n] = None => fs'.at[n] = None
      BY <1>2, <1>8, SlotFacts, EntryFacts
    <2>. QED  BY <1>2, <1>8, <2>1, <2>2, SameBack
  <1>12. OnEntry(k, l, fs, fs')
    <2>1. \A x \in E : x # e => fs'.at[x] = fs.at[x]
      BY <1>8, EntryFacts
    <2>. QED  BY <1>0, <1>1, <1>6, <1>8, <2>1 DEF OnEntry, Touches, SameRecs, SameHome, EntryPcs,
                 RetirePcs,
              ExchangePcs, StagePcs
  <1>13. Retiring(l, fs')
    BY <1>4, <1>6 DEF Retiring, Keeps
  <1>14. Staging(l, fs')
    BY <1>0, <1>1, <1>2, <1>4, <1>6, <1>8, <1>9 DEF Staging, Keeps, StagePcs, ExchangePcs, SameRecs
  <1>15. Quiet => Expected(l, fs')
    BY <1>4, <1>6 DEF Expected, Keeps
  <1>16. RemovedStays(k, l, fs')
    BY <1>6 DEF RemovedStays, Keeps, Acknowledges
  <1>. QED  BY <1>5, <1>6, <1>10, <1>11, <1>12, <1>13, <1>14, <1>15, <1>16, OnEntryStep DEF k, l

LEMMA StagePublishRec ==
    ASSUME RInv, IInv', NEW p \in Procs, StagePublish(p)
    PROVE  RInv'
  <1>. DEFINE k == ps[p]
              l == ps'[p]
              e == ps[p].e
  <1>0. e = k.e
    OBVIOUS
  <1>1. k.pc = "stagepub" /\ k.pc \in EntryPcs /\ k.pc # "stagedrop"
    BY DEF StagePublish, At, EntryPcs, StagePcs
  <1>2. /\ fs \in FS /\ k \in Local /\ e \in E /\ Sound(fs) /\ (Quiet => Back(fs))
        /\ Staging(k, fs) /\ WellFormed(p, k) /\ (Quiet' => Quiet)
    BY <1>1, CallFacts DEF StagePublish, Root, Quiet
  <1>3. SessionOf(e) = k.s /\ k.s \in fs.dirs
    BY <1>1, SessionFacts
  <1>4. k.intent.kind = "stage"
    BY <1>1, <1>2 DEF WellFormed
  <1>5. CASE \E x \in {"swap", "stagedrop"} : Goto(p, x) /\ UNCHANGED <<fs, disk>>
    <2>1. PICK x \in {"swap", "stagedrop"} :
            ps' = [ps EXCEPT ![p] = l] /\ Moved(k, l, x, k.verdict) /\ UNCHANGED <<fs, disk>>
      BY <1>5, GotoMoves DEF RInv
    <2>2. RemovedStays(k, l, fs)
      BY <2>1 DEF RemovedStays, Moved, Keeps, Acknowledges
    <2>. HIDE DEF k, l, e
    <2>3. MayGo(k, x, k.verdict, fs)
      BY <1>1, <1>2, <1>4, <2>1 DEF MayGo, EntryPcs, RetirePcs, ExchangePcs, StagePcs, Staging
    <2>. QED  BY <1>2, <2>1, <2>2, <2>3, GotoRec DEF k, l
  <1>6. CASE /\ fs.at[Dst] = None /\ Put(Move(fs, e, Dst))
             /\ ps' = [ps EXCEPT ![p].pc = "stagedrop", ![p].staged = TRUE]
    <2>1. /\ ps' = [ps EXCEPT ![p] = l] /\ Moved(k, l, "stagedrop", k.verdict)
          /\ fs' = Move(fs, e, Dst) /\ disk' = disk \cup {fs'}
      <3>1. ps' = [ps EXCEPT ![p] = l] /\ l = [k EXCEPT !.pc = "stagedrop", !.staged = TRUE]
        BY <1>6, LocalFacts DEF RInv
      <3>2. fs' = Move(fs, e, Dst) /\ disk' = disk \cup {fs'}
        BY <1>6 DEF Put
      <3>. HIDE DEF l, k
      <3>. QED  BY <1>2, <3>1, <3>2 DEF Moved, Keeps, Local
    <2>. HIDE DEF k, l, e
    <2>2. e \in Slot /\ Dst \in Slot /\ e # Dst
      BY <1>2, EntryFacts, SlotFacts
    <2>3. Renamed(fs, fs', e, Dst)
      BY <1>2, <2>1, <2>2, MoveFS
    <2>4. \A x \in E : x # e => fs'.at[x] = fs.at[x]
      BY <2>3, EntryFacts DEF Renamed
    <2>5. Sound(fs')
      <3>1. Accounted(fs') /\ Distinct(fs')
        BY <1>2, <1>6, <2>2, <2>3, MoveObjs DEF Sound, Renamed
      <3>2. Housed(fs') /\ Kept(fs') /\ Named(fs')
        BY <1>2, <2>3, <2>4, SameEntries DEF Sound, Renamed, SameObjs
      <3>. QED  BY <3>1, <3>2 DEF Sound
    <2>6. Quiet => Back(fs')
      <3>1. \A x \in Captured(fs') : x \in Captured(fs) /\ fs'.at[x] = fs.at[x]
        BY <2>3, <2>4 DEF Captured, Renamed, SameRecs
      <3>2. \A n \in Names : fs.at[n] = None => fs'.at[n] = None
        BY <1>2, <2>3, SlotFacts, SlotAssumption DEF Renamed
      <3>. QED  BY <1>2, <2>3, <3>1, <3>2, SameBack DEF Renamed
    <2>7. OnEntry(k, l, fs, fs')
      BY <1>0, <1>1, <1>4, <2>1, <2>3, <2>4 DEF OnEntry, Touches, Moved, Keeps, Renamed, SameObjs,
         SameRecs, SameHome,
         EntryPcs, RetirePcs, ExchangePcs, StagePcs
    <2>8. Retiring(l, fs')
      BY <1>4, <2>1 DEF Retiring, Moved, Keeps
    <2>9. Staging(l, fs')
      BY <1>0, <1>1, <1>2, <1>4, <2>1 DEF Staging, Moved, Keeps, StagePcs, ExchangePcs
    <2>10. Quiet => Expected(l, fs')
      BY <1>4, <2>1 DEF Expected, Moved, Keeps
    <2>11. RemovedStays(k, l, fs')
      BY <2>1 DEF RemovedStays, Moved, Keeps, Acknowledges
    <2>. QED  BY <1>2, <2>1, <2>5, <2>6, <2>7, <2>8, <2>9, <2>10, <2>11, OnEntryStep DEF k, l
  <1>. QED  BY <1>5, <1>6 DEF StagePublish

LEMMA UnlinkRec ==
    ASSUME RInv, IInv', NEW p \in Procs, Unlink(p)
    PROVE  RInv'
  <1>. DEFINE k == ps[p]
              l == ps'[p]
              e == ps[p].e
              o == ps[p].intent.expect
  <1>0. e = k.e /\ o = k.intent.expect
    OBVIOUS
  <1>1. k.pc = "unlink" /\ k.pc \in EntryPcs /\ k.pc # "stagedrop"
    BY DEF Unlink, At, EntryPcs, RetirePcs
  <1>2. /\ fs \in FS /\ k \in Local /\ e \in E /\ Sound(fs) /\ (Quiet => Back(fs)) /\ OwnerOK(k, fs)
        /\ Retiring(k, fs) /\ Staging(k, fs) /\ WellFormed(p, k) /\ k.owner = p
    BY <1>1, CallFacts
  <1>3. k.intent.kind # "stage" /\ o \in Objs /\ fs.at[e] = o
    BY <1>1, <1>2 DEF WellFormed, RetirePcs, Retiring
  <1>4. /\ fs' = [fs EXCEPT !.at[e] = None, !.retired = fs.retired \cup {o}] /\ disk' = disk \cup {fs'} /\ (Quiet' => Quiet)
        /\ ps' = [ps EXCEPT ![p].pc = "rmD", ![p].removed = TRUE]
    BY DEF Unlink, Put, Root, Quiet
  <1>5. /\ ps' = [ps EXCEPT ![p] = l] /\ Keeps(k, l) /\ l.pc = "rmD" /\ l.removed
        /\ l.verdict = k.verdict /\ l.intent = k.intent /\ l.captured = k.captured
    <2>1. ps' = [ps EXCEPT ![p] = l] /\ l = [k EXCEPT !.pc = "rmD", !.removed = TRUE]
      BY <1>4, LocalFacts DEF RInv
    <2>. HIDE DEF l, k
    <2>. QED  BY <1>2, <2>1 DEF Keeps, Local
  <1>. HIDE DEF k, l, e, o
  <1>6. e \in Slot /\ None \in Objs \cup {None} /\ fs.retired \cup {o} \in SUBSET Objs
    BY <1>2, <1>3, EntryFacts DEF FS
  <1>7. /\ fs' \in FS /\ SameRecs(fs, fs') /\ SameHome(fs, fs') /\ fs'.displaced = fs.displaced
        /\ fs'.at[e] = None /\ \A y \in Slot \ {e} : fs'.at[y] = fs.at[y]
        /\ fs'.unborn = fs.unborn /\ fs'.dropped = fs.dropped /\ fs'.retired = fs.retired \cup {o}
    <2>. DEFINE R == fs.retired \cup {o}
                g == Updated(fs, e, None, fs.unborn, fs.dropped, R)
    <2>1. fs' = g
      BY <1>2, <1>4 DEF Updated, FS
    <2>2. R \in SUBSET Objs /\ fs.dropped \in SUBSET Objs /\ fs.unborn \in SUBSET Objs
      BY <1>2, <1>6 DEF FS
    <2>3. R = fs.retired \cup {o}
      OBVIOUS
    <2>. HIDE DEF R
    <2>4. Replaced(fs, g, e, None) /\ g.unborn = fs.unborn /\ g.dropped = fs.dropped /\ g.retired = R
      BY <1>2, <1>6, <2>2, EntryFS
    <2>. QED  BY <2>1, <2>3, <2>4 DEF Replaced
  <1>8. \A x \in E : x # e => fs'.at[x] = fs.at[x]
    BY <1>7, EntryFacts
  <1>9. Sound(fs')
    <2>1. Accounted(fs') /\ Distinct(fs')
      BY <1>2, <1>3, <1>6, <1>7, EntryObjs DEF Sound
    <2>2. Housed(fs') /\ Kept(fs') /\ Named(fs')
      BY <1>2, <1>7, <1>8, SameEntries DEF Sound
    <2>. QED  BY <2>1, <2>2 DEF Sound
  <1>10. Quiet => Back(fs')
    <2>1. \A x \in Captured(fs') : x \in Captured(fs) /\ fs'.at[x] = fs.at[x]
      BY <1>7, <1>8 DEF Captured, SameRecs
    <2>2. \A n \in Names : fs.at[n] = None => fs'.at[n] = None
      BY <1>2, <1>7, SlotFacts, EntryFacts
    <2>. QED  BY <1>2, <1>7, <2>1, <2>2, SameBack
  <1>11. Touches(k, l, fs, fs')
    BY <1>0, <1>1, <1>5, <1>7, <1>8 DEF Touches, SameRecs, SameHome, EntryPcs, RetirePcs,
       ExchangePcs, StagePcs
  <1>12. Retiring(l, fs')
    BY <1>0, <1>1, <1>2, <1>3, <1>5, <1>7 DEF Retiring, Keeps, BeforeCapture, PublishedPcs,
       NowEmpty, NotRemoved
  <1>13. Staging(l, fs')
    BY <1>0, <1>1, <1>2, <1>3, <1>5, <1>7 DEF Staging, Keeps, BeforeCapture, EntryPcs, RetirePcs,
       SameRecs
  <1>14. Flagged(l, fs')
    BY <1>0, <1>5, <1>7 DEF Flagged
  <1>15. OwnerOK(l, fs')
    BY <1>2, <1>7, <1>11, <1>12, <1>13, <1>14, TouchesOK
  <1>16. Quiet => Expected(l, fs')
    BY <1>5 DEF Expected, BeforeCapture
  <1>17. RemovedStays(k, l, fs')
    BY <1>5 DEF RemovedStays, Acknowledges
  <1>18. ps[p].owner = p
    BY <1>2 DEF k
  <1>. QED  BY <1>4, <1>5, <1>7, <1>9, <1>10, <1>15, <1>16, <1>17, <1>18, OwnerStep DEF k, l

-----------------------------------------------------------------------------
(* Calls begin and end.                                                    *)

\* What the owner of a session between two calls starts from.
LEMMA ReadyFacts ==
    ASSUME RInv, NEW p \in Procs, ps[p].pc = "ready", ps[p].owner = p
    PROVE  /\ ps[p] \in Local /\ WellFormed(p, ps[p]) /\ OwnerOK(ps[p], fs)
           /\ fs \in FS /\ Sound(fs) /\ (Quiet => Back(fs)) /\ ps[p].s \in Sess
           /\ ps[p].next \in 0 .. MaxId + 1 /\ ~ ps[p].recovered
           /\ InSession(ps[p], fs) /\ Told(ps[p], fs)
  <1>1. ps[p] \in Local /\ WellFormed(p, ps[p]) /\ OwnerOK(ps[p], fs)
        /\ fs \in FS /\ Sound(fs) /\ (Quiet => Back(fs))
    BY OwnerFacts
  <1>2. ps[p].s \in Sess /\ ps[p].next \in 0 .. MaxId + 1
    BY <1>1 DEF WellFormed, Local
  <1>. QED  BY <1>1, <1>2 DEF OwnerOK, Fresh, HeaderPcs

\* A new entry: free, and the ones after it stay free.
LEMMA NextEntry ==
    ASSUME NEW l \in Local, NEW f, l.s \in Sess, l.next \in 0 .. MaxId,
           \A i \in l.next .. MaxId : f.at[<<l.s, i>>] = None /\ f.rec[<<l.s, i>>].st = "none"
    PROVE  /\ <<l.s, l.next>> \in E /\ SessionOf(<<l.s, l.next>>) = l.s /\ <<l.s, l.next>>[2] = l.next
           /\ f.at[<<l.s, l.next>>] = None /\ f.rec[<<l.s, l.next>>].st = "none"
           /\ l.next + 1 \in Nat /\ l.next < l.next + 1
           /\ \A i \in l.next + 1 .. MaxId : f.at[<<l.s, i>>] = None /\ f.rec[<<l.s, i>>].st = "none"
  BY SlotAssumption DEF E, SessionOf

LEMMA RequestRec ==
    ASSUME RInv, IInv', NEW p \in Procs, NEW t \in Intent, Request(p, t),
           t.kind # "stage" =>
             /\ t.name \in Names /\ ps[p].stage = None
             /\ t.expect # None /\ \E x \in Slot : fs.at[x] = t.expect,
           t.kind = "replace" => t.expect = fs.at[Dst],
           t.kind = "stage" => t.expect = None /\ ps[p].next = 0
    PROVE  RInv'
  <1>. DEFINE k == ps[p]
              x == IF t.kind = "stage" THEN "write" ELSE "check"
              e == <<ps[p].s, ps[p].next>>
              n == ps[p].next + 1
              g == IF t.kind = "stage" THEN e ELSE ps[p].stage
              o == fs.at[Dst]
              l == [ps[p] EXCEPT !.pc = x, !.e = e, !.next = n, !.intent = t,
                                 !.captured = FALSE, !.removed = FALSE, !.verdict = "none",
                                 !.dst = o, !.stage = g]
  <1>1. k.pc = "ready" /\ k.owner = p /\ k.next <= MaxId
    BY DEF Request, At, RequireOwner
  <1>2. /\ k \in Local /\ OwnerOK(k, fs) /\ fs \in FS /\ Sound(fs) /\ (Quiet => Back(fs)) /\ k.s \in Sess
        /\ k.next \in 0 .. MaxId + 1 /\ ~ k.recovered /\ InSession(k, fs) /\ Told(k, fs)
    BY <1>1, ReadyFacts
  <1>3. ps' = [ps EXCEPT ![p] = l] /\ UNCHANGED <<fs, disk>> /\ (Quiet' => Quiet)
    BY DEF Request, Root, Quiet
  <1>4. /\ e \in E /\ SessionOf(e) = k.s /\ e[2] = k.next /\ fs.at[e] = None /\ fs.rec[e].st = "none"
        /\ n \in Nat /\ n = k.next + 1 /\ k.next < n
        /\ \A i \in n .. MaxId : fs.at[<<k.s, i>>] = None /\ fs.rec[<<k.s, i>>].st = "none"
        /\ k.s \in fs.dirs \ Legacy /\ fs.hdr[k.s] = [st |-> "pub", data |-> "durable"]
    <2>1. k.next \in 0 .. MaxId
      BY <1>1, <1>2, SlotAssumption
    <2>2. /\ k.s \in fs.dirs \ Legacy /\ fs.hdr[k.s] = [st |-> "pub", data |-> "durable"]
          /\ \A i \in k.next .. MaxId : fs.at[<<k.s, i>>] = None /\ fs.rec[<<k.s, i>>].st = "none"
      BY <1>1, <1>2 DEF InSession, HeaderPcs
    <2>. QED  BY <1>2, <2>1, <2>2, NextEntry
  <1>5. /\ e = <<k.s, k.next>> /\ g = IF t.kind = "stage" THEN e ELSE k.stage
        /\ x = IF t.kind = "stage" THEN "write" ELSE "check"
    OBVIOUS
  <1>. HIDE DEF e, g, n, x, o
  <1>6. /\ l.pc = x /\ l.e = e /\ l.next = n /\ l.intent = t /\ l.dst = o /\ l.stage = g
        /\ ~ l.captured /\ ~ l.removed /\ l.verdict = "none" /\ l.owner = p /\ l.s = k.s
        /\ l.recovered = k.recovered /\ l.recoveryRequired = k.recoveryRequired
    BY <1>1, <1>2 DEF Local
  <1>. HIDE DEF l, k
  <1>7. o = fs.at[Dst]
    BY DEF o
  <1>8. x \in EntryPcs /\ x \in {"write", "check"}
    BY <1>5 DEF EntryPcs, RetirePcs, StagePcs
  <1>9. t.expect # None => t.expect \notin fs.retired
    BY <1>2 DEF Sound, Distinct
  <1>10. OwnerOK(l, fs)
    <2>1. Fresh(l)
      BY <1>2, <1>6, <1>8 DEF Fresh, RecoverPcs
    <2>2. InSession(l, fs)
      BY <1>4, <1>6, <1>8 DEF InSession
    <2>3. Entry(l)
      BY <1>4, <1>5, <1>6, <1>7, <1>8 DEF Entry, Used, ExchangePcs, k
    <2>4. Retiring(l, fs)
      BY <1>4, <1>6, <1>8 DEF Retiring, NowEmpty, PublishedPcs
    <2>5. Staging(l, fs)
      BY <1>4, <1>5, <1>6, <1>8 DEF Staging, StagePcs, ExchangePcs, k
    <2>6. Recovering(l, fs)
      BY <1>6, <1>8 DEF Recovering
    <2>7. Flagged(l, fs)
      BY <1>6, <1>8, <1>9 DEF Flagged
    <2>8. Told(l, fs)
      BY <1>1, <1>2, <1>6 DEF Told, Pending, EntryPcs, RetirePcs, ExchangePcs, StagePcs, HeaderPcs
    <2>. QED  BY <2>1, <2>2, <2>3, <2>4, <2>5, <2>6, <2>7, <2>8 DEF OwnerOK
  <1>11. Quiet => Expected(l, fs)
    BY <1>5, <1>6 DEF Expected
  <1>12. RemovedStays(k, l, fs)
    BY <1>6, <1>8 DEF RemovedStays, Acknowledges
  <1>. QED  BY <1>2, <1>3, <1>6, <1>10, <1>11, <1>12, OwnerStep DEF k

LEMMA RemoveRec ==
    ASSUME RInv, IInv', NEW p \in Procs, NEW n \in Names, Remove(p, n) \/ RemoveAfterPublication(p, n)
    PROVE  RInv'
  <1>0. IInv
    BY DEF RInv
  <1>1. n \in Slot /\ Dst \in Slot /\ fs.at[n] \in Objs \cup {None} /\ fs.at[Dst] \in Objs \cup {None}
    BY <1>0, LocalFacts, SlotFacts DEF FS
  <1>2. CASE Remove(p, n)
    <2> DEFINE t == [NoIntent EXCEPT !.name = n, !.expect = fs.at[n]]
    <2>1. t \in Intent /\ t.kind = "retire" /\ t.name = n /\ t.expect = fs.at[n]
      BY <1>1 DEF NoIntent, Intent, Kinds
    <2>2. Request(p, t) /\ fs.at[n] # None /\ ps[p].stage = None
      BY <1>2 DEF Remove
    <2> HIDE DEF t
    <2>. QED  BY <1>1, <2>1, <2>2, RequestRec
  <1>3. CASE RemoveAfterPublication(p, n)
    <2> DEFINE t == [kind |-> "replace", name |-> n, expect |-> fs.at[Dst], source |-> fs.at[n]]
    <2>1. t \in Intent /\ t.kind = "replace" /\ t.name = n /\ t.expect = fs.at[Dst]
      BY <1>1 DEF Intent, Kinds
    <2>2. Request(p, t) /\ fs.at[Dst] # None /\ ps[p].stage = None
      BY <1>3 DEF RemoveAfterPublication
    <2> HIDE DEF t
    <2>. QED  BY <1>1, <2>1, <2>2, RequestRec
  <1>. QED  BY <1>2, <1>3

LEMMA RegisterStageRec ==
    ASSUME RInv, IInv', NEW p \in Procs, RegisterStage(p)
    PROVE  RInv'
  <1>. DEFINE t == [NoIntent EXCEPT !.kind = "stage"]
  <1>1. t \in Intent /\ t.kind = "stage" /\ t.expect = None
    BY DEF NoIntent, Intent, Kinds
  <1>2. Request(p, t) /\ ps[p].next = 0
    BY DEF RegisterStage
  <1>. HIDE DEF t
  <1>. QED  BY <1>1, <1>2, RequestRec

LEMMA SettleRec ==
    ASSUME RInv, IInv', NEW p \in Procs, Settle(p)
    PROVE  RInv'
  <1>. DEFINE k == ps[p]
              l == ps'[p]
              x == IF k.stage # None /\ k.intent.kind # "stage" THEN "stagedrop" ELSE "ready"
  <1>1. k.pc = "settle" /\ k.pc \in EntryPcs /\ k.pc # "stagedrop"
    BY DEF Settle, At, EntryPcs
  <1>2. /\ fs \in FS /\ k \in Local /\ Sound(fs) /\ (Quiet => Back(fs)) /\ OwnerOK(k, fs)
        /\ Retiring(k, fs) /\ Staging(k, fs) /\ Entry(k) /\ Flagged(k, fs) /\ WellFormed(p, k) /\ k.owner = p
    BY <1>1, CallFacts
  <1>3. PICK r \in BOOLEAN : r = (IF fs.rec[k.e].st # "none" THEN TRUE ELSE k.recoveryRequired)
    BY <1>2 DEF Local
  <1>4. /\ ps' = [ps EXCEPT ![p] = l] /\ UNCHANGED <<fs, disk>> /\ (Quiet' => Quiet)
        /\ l = [k EXCEPT !.pc = x, !.recoveryRequired = r]
    BY <1>2, <1>3, LocalFacts DEF Settle, RInv, Root, Quiet, Local
  <1>. HIDE DEF l
  <1>5. /\ l.pc = x /\ l.recoveryRequired = r /\ l.s = k.s /\ l.next = k.next /\ l.e = k.e /\ l.dst = k.dst
        /\ l.stage = k.stage /\ l.intent = k.intent /\ l.recovered = k.recovered /\ l.removed = k.removed
        /\ l.captured = k.captured /\ l.verdict = k.verdict /\ l.owner = k.owner
    BY <1>2, <1>3, <1>4 DEF Local
  <1>6. x = IF k.stage # None /\ k.intent.kind # "stage" THEN "stagedrop" ELSE "ready"
    OBVIOUS
  <1>. HIDE DEF k, x
  <1>7. OwnerOK(l, fs)
    <2>1. Fresh(l)
      BY <1>1, <1>2, <1>5, <1>6 DEF OwnerOK, Fresh, RecoverPcs, HeaderPcs
    <2>2. InSession(l, fs)
      BY <1>1, <1>2, <1>5, <1>6 DEF OwnerOK, InSession, HeaderPcs
    <2>3. Entry(l)
      BY <1>1, <1>2, <1>5, <1>6 DEF Entry, Used, EntryPcs, ExchangePcs
    <2>4. Retiring(l, fs)
      BY <1>1, <1>2, <1>5, <1>6 DEF Retiring, BeforeCapture, NotRemoved, NowEmpty, PublishedPcs,
         EntryPcs,
         RetirePcs, StagePcs, ExchangePcs
    <2>5. Staging(l, fs)
      BY <1>1, <1>2, <1>5, <1>6 DEF Staging, StagePcs, ExchangePcs, EntryPcs, RetirePcs,
         BeforeCapture
    <2>6. Recovering(l, fs)
      BY <1>5, <1>6 DEF Recovering
    <2>7. Flagged(l, fs)
      BY <1>2, <1>5, <1>6 DEF Flagged
    <2>8. Told(l, fs)
      <3>1. Told(k, fs) /\ k.pc \in HeaderPcs /\ Pending(k) = {k.e, k.stage}
        BY <1>1, <1>2 DEF OwnerOK, HeaderPcs, Pending
      <3>2. k.stage = None \/ k.intent.kind # "stage" \/ k.stage = k.e
        BY <1>1, <1>2 DEF Entry
      <3>3. None \notin E
        BY EntryFacts
      <3>4. fs.rec[k.e].st # "none" => r
        BY <1>3
      <3>5. k.recoveryRequired => r
        BY <1>3
      <3>. QED  BY <1>5, <1>6, <3>1, <3>2, <3>3, <3>4, <3>5 DEF Told, Pending
    <2>. QED  BY <2>1, <2>2, <2>3, <2>4, <2>5, <2>6, <2>7, <2>8 DEF OwnerOK
  <1>8. Quiet => Expected(l, fs)
    BY <1>5, <1>6 DEF Expected, BeforeCapture
  <1>9. RemovedStays(k, l, fs)
    BY <1>5, <1>6 DEF RemovedStays, Acknowledges
  <1>10. ps[p].owner = p
    BY <1>2 DEF k
  <1>. QED  BY <1>2, <1>4, <1>7, <1>8, <1>9, <1>10, OwnerStep DEF k

\* The exchange displaced the observed object: its retirement begins.
LEMMA DisplacedRec ==
    ASSUME RInv, IInv', NEW p \in Procs, ps[p].pc = "swapcheck", ps[p].intent.kind = "stage",
           fs.at[ps[p].e] = ps[p].dst, UNCHANGED <<fs, disk>>, Quiet' => Quiet,
           ps' = [ps EXCEPT ![p].pc = "check", ![p].staged = TRUE,
                            ![p].e = <<ps[p].s, ps[p].next>>, ![p].next = @ + 1,
                            ![p].intent = [NoIntent EXCEPT !.name = ps[p].e, !.expect = ps[p].dst]]
    PROVE  RInv'
  <1>. DEFINE k == ps[p]
              e == <<ps[p].s, ps[p].next>>
              n == ps[p].next + 1
              t == [NoIntent EXCEPT !.name = ps[p].e, !.expect = ps[p].dst]
              l == [ps[p] EXCEPT !.pc = "check", !.staged = TRUE, !.e = e, !.next = n, !.intent = t]
  <1>1. k.pc \in EntryPcs /\ k.pc # "stagedrop"
    BY DEF EntryPcs, ExchangePcs
  <1>2. /\ fs \in FS /\ k \in Local /\ Sound(fs) /\ (Quiet => Back(fs)) /\ OwnerOK(k, fs) /\ k.e \in E
        /\ Staging(k, fs) /\ Entry(k) /\ WellFormed(p, k) /\ k.owner = p
    BY <1>1, CallFacts
  <1>3. ps' = [ps EXCEPT ![p] = l]
    BY Zenon
  <1>4. k.dst \in Objs /\ k.next <= MaxId
    BY <1>2, SlotAssumption DEF WellFormed, ExchangePcs
  <1>5. /\ k.s \in Sess /\ k.s \in fs.dirs \ Legacy /\ fs.hdr[k.s] = [st |-> "pub", data |-> "durable"]
        /\ \A i \in k.next .. MaxId : fs.at[<<k.s, i>>] = None /\ fs.rec[<<k.s, i>>].st = "none"
        /\ k.next \in 0 .. MaxId + 1
    BY <1>1, SessionFacts
  <1>6. /\ e \in E /\ SessionOf(e) = k.s /\ e[2] = k.next /\ fs.at[e] = None /\ fs.rec[e].st = "none"
        /\ n \in Nat /\ n = k.next + 1 /\ k.next < n
        /\ \A i \in n .. MaxId : fs.at[<<k.s, i>>] = None /\ fs.rec[<<k.s, i>>].st = "none"
    <2>1. k.next \in 0 .. MaxId /\ k \in Local /\ k.s \in Sess
      BY <1>2, <1>4, <1>5, SlotAssumption
    <2>2. \A i \in k.next .. MaxId : fs.at[<<k.s, i>>] = None /\ fs.rec[<<k.s, i>>].st = "none"
      BY <1>5
    <2>3. e = <<k.s, k.next>> /\ n = k.next + 1
      OBVIOUS
    <2>. HIDE DEF k, e, n
    <2>. QED  BY <2>1, <2>2, <2>3, NextEntry
  <1>7. t.kind = "retire" /\ t.name = k.e /\ t.expect = k.dst
    BY DEF NoIntent
  <1>. HIDE DEF e, n, t
  <1>8. /\ l.pc = "check" /\ l.e = e /\ l.next = n /\ l.intent = t /\ l.dst = k.dst /\ l.stage = k.stage
        /\ l.captured = k.captured /\ l.removed = k.removed /\ l.verdict = k.verdict /\ l.owner = p /\ l.s = k.s
        /\ l.recovered = k.recovered /\ l.recoveryRequired = k.recoveryRequired
    BY <1>2 DEF Local
  <1>9. k.pc = "swapcheck" /\ k.intent.kind = "stage" /\ fs.at[k.e] = k.dst
    OBVIOUS
  <1>. HIDE DEF k, l
  <1>10. /\ k.stage = k.e /\ k.stage = <<k.s, 0>> /\ k.next > 0 /\ ~ k.captured /\ ~ k.removed
         /\ k.dst \in fs.displaced /\ fs.intent[k.e].kind = "stage" /\ k.dst \notin fs.retired /\ k.dst # None
         /\ k.stage # None /\ k.verdict # "removed"
    <2>1. k.dst # None /\ k.stage = k.e /\ k.stage # None
      BY <1>1, <1>2, <1>4, <1>9, SlotAssumption, EntryFacts DEF Entry
    <2>2. k.dst \in fs.displaced /\ fs.intent[k.e].kind = "stage" /\ ~ k.captured /\ ~ k.removed
          /\ k.verdict # "removed"
      BY <1>2, <1>9, <2>1 DEF Staging, ExchangePcs
    <2>3. k.dst \notin fs.retired
      BY <1>2, <1>9, <2>1, EntryFacts DEF Sound, Distinct
    <2>. QED  BY <1>2, <2>1, <2>2, <2>3 DEF Entry
  <1>11. e # k.e
    BY <1>5, <1>6, <1>10, SlotAssumption
  <1>12. OwnerOK(l, fs)
    <2>1. Fresh(l)
      BY <1>1, <1>2, <1>8, <1>9 DEF OwnerOK, Fresh, RecoverPcs, HeaderPcs
    <2>2. InSession(l, fs)
      BY <1>5, <1>6, <1>8 DEF InSession
    <2>3. Entry(l)
      BY <1>5, <1>6, <1>7, <1>8, <1>10, SlotAssumption DEF Entry, Used, ExchangePcs
    <2>4. Retiring(l, fs)
      BY <1>6, <1>8, <1>10 DEF Retiring, NowEmpty, PublishedPcs
    <2>5. Staging(l, fs)
      BY <1>7, <1>8, <1>9, <1>10, <1>11 DEF Staging
    <2>6. Recovering(l, fs)
      BY <1>8 DEF Recovering
    <2>7. Flagged(l, fs)
      BY <1>7, <1>8, <1>10 DEF Flagged
    <2>8. Told(l, fs)
      <3>1. Told(k, fs) /\ k.pc \in HeaderPcs /\ Pending(k) = {k.e, k.stage} /\ Pending(l) = {e, k.stage}
        BY <1>1, <1>2, <1>8 DEF OwnerOK, HeaderPcs, Pending, EntryPcs, RetirePcs
      <3>. QED  BY <1>8, <1>10, <3>1 DEF Told
    <2>. QED  BY <2>1, <2>2, <2>3, <2>4, <2>5, <2>6, <2>7, <2>8 DEF OwnerOK
  <1>13. Quiet => Expected(l, fs)
    BY <1>8 DEF Expected
  <1>14. RemovedStays(k, l, fs)
    BY <1>8, <1>10 DEF RemovedStays, Acknowledges
  <1>15. fs' = fs /\ disk' \subseteq disk \cup {fs'} /\ (Quiet' => Quiet) /\ fs.retired \subseteq fs'.retired
    OBVIOUS
  <1>16. Sound(fs') /\ (Quiet => Back(fs')) /\ OwnerOK(l, fs') /\ (Quiet => Expected(l, fs'))
         /\ RemovedStays(ps[p], l, fs') /\ l.owner = p
    BY <1>2, <1>8, <1>12, <1>13, <1>14, <1>15 DEF k
  <1>. QED  BY <1>3, <1>15, <1>16, OwnerStep

LEMMA ExchangeCheckRec ==
    ASSUME RInv, IInv', NEW p \in Procs, ExchangeCheck(p)
    PROVE  RInv'
  <1>. DEFINE k == ps[p]
              l == ps'[p]
  <1>1. k.pc = "swapcheck" /\ k.pc \in EntryPcs /\ (Quiet' => Quiet) /\ UNCHANGED <<fs, disk>>
    BY DEF ExchangeCheck, At, EntryPcs, ExchangePcs, Root, Quiet
  <1>2. /\ k.intent.kind \in Kinds /\ Retiring(k, fs) /\ Staging(k, fs) /\ Entry(k) /\ WellFormed(p, k)
    BY <1>1, CallFacts
  <1>3. CASE \E x \in {"swapback", "precap", "fail"} :
               /\ Goto(p, x)
               /\ k.intent.kind = "stage" => x = "swapback"
               /\ x = "precap" => fs.at[Outgoing(p)] = k.dst
    <2>1. PICK x \in {"swapback", "precap", "fail"} :
               /\ ps' = [ps EXCEPT ![p] = l] /\ Moved(k, l, x, k.verdict)
               /\ k.intent.kind = "stage" => x = "swapback"
               /\ x = "precap" => fs.at[Outgoing(p)] = k.dst
      BY <1>3, GotoMoves DEF RInv
    <2>2. RemovedStays(k, l, fs)
      BY <2>1 DEF RemovedStays, Moved, Keeps, Acknowledges
    <2>3. k.intent.kind # "stage" => k.intent.kind = "replace" /\ Outgoing(p) = k.intent.name /\ k.dst = k.intent.expect
      BY <1>1, <1>2 DEF Entry, ExchangePcs, Outgoing, Kinds
    <2>. HIDE DEF k, l
    <2>4. MayGo(k, x, k.verdict, fs)
      BY <1>1, <1>2, <2>1, <2>3 DEF MayGo, NotRemoved, Retiring, EntryPcs, RetirePcs, ExchangePcs,
         StagePcs,
         BeforeCapture, PublishedPcs, NowEmpty, Staging
    <2>. QED  BY <1>1, <2>1, <2>2, <2>4, GotoRec DEF k, l
  <1>4. CASE /\ fs.at[Outgoing(p)] = k.dst /\ k.intent.kind = "stage"
             /\ ps' = [ps EXCEPT ![p].pc = "check", ![p].staged = TRUE,
                         ![p].e = <<ps[p].s, ps[p].next>>, ![p].next = @ + 1,
                         ![p].intent = [NoIntent EXCEPT !.name = Outgoing(p), !.expect = ps[p].dst]]
    <2>1. Outgoing(p) = k.e
      BY <1>4 DEF Outgoing
    <2>. QED  BY <1>1, <1>4, <2>1, DisplacedRec
  <1>. QED  BY <1>3, <1>4 DEF ExchangeCheck

LEMMA StageDropRec ==
    ASSUME RInv, IInv', NEW p \in Procs, StageDrop(p)
    PROVE  RInv'
  <1>1. CASE End(p) /\ UNCHANGED <<fs, disk, moved, budget>>
    BY <1>1, EndRec DEF Quiet
  <1>. DEFINE k == ps[p]
              e == ps[p].stage
              t == [NoIntent EXCEPT !.kind = "stage"]
              D == fs.dropped \cup ({fs.at[e]} \ {None})
              l == [ps[p] EXCEPT !.pc = "clear", !.e = e, !.staged = FALSE, !.intent = t,
                                 !.removed = FALSE, !.captured = FALSE, !.verdict = "none"]
              g == [fs EXCEPT !.at[e] = None, !.dropped = @ \cup ({fs.at[e]} \ {None})]
  <1>2. CASE Put(g) /\ ps' = [ps EXCEPT ![p] = l] /\ UNCHANGED Root
    <2>1. k.pc = "stagedrop" /\ k.pc \in EntryPcs
      BY DEF StageDrop, At, EntryPcs
    <2>2. /\ fs \in FS /\ k \in Local /\ Sound(fs) /\ (Quiet => Back(fs)) /\ OwnerOK(k, fs)
          /\ Staging(k, fs) /\ Entry(k) /\ WellFormed(p, k) /\ k.owner = p
      BY <2>1, CallFacts
    <2>3. e \in E /\ e = k.stage /\ e \in Slot /\ e # None
      BY <2>1, <2>2, EntryFacts DEF WellFormed
    <2>4. e = <<k.s, 0>> /\ SessionOf(e) = k.s /\ e[2] = 0 /\ k.next > 0
      BY <2>2, <2>3 DEF Entry, SessionOf
    <2>5. fs' = Updated(fs, e, None, fs.unborn, D, fs.retired) /\ disk' = disk \cup {fs'} /\ (Quiet' => Quiet)
      BY <1>2, <2>2 DEF Updated, FS, Put, Root, Quiet
    <2>6. D \in SUBSET Objs /\ fs.unborn \in SUBSET Objs /\ fs.retired \in SUBSET Objs
          /\ fs.dropped \subseteq D /\ (fs.at[e] # None => fs.at[e] \in D)
      BY <2>2, <2>3 DEF FS
    <2>7. t.kind = "stage" /\ t.expect = None
      BY DEF NoIntent
    <2>. HIDE DEF e, t, D, g
    <2>8. /\ l.pc = "clear" /\ l.e = e /\ l.intent = t /\ ~ l.removed /\ ~ l.captured /\ l.verdict = "none"
          /\ l.owner = p /\ l.s = k.s /\ l.next = k.next /\ l.stage = k.stage
          /\ l.recovered = k.recovered /\ l.recoveryRequired = k.recoveryRequired
      BY <2>2 DEF Local
    <2>. HIDE DEF l, k
    <2>9. /\ Replaced(fs, fs', e, None)
          /\ fs'.unborn = fs.unborn /\ fs'.dropped = D /\ fs'.retired = fs.retired
      BY <2>2, <2>3, <2>5, <2>6, EntryFS
    <2>10. \A x \in E : x # e => fs'.at[x] = fs.at[x]
      BY <2>9, EntryFacts DEF Replaced
    <2>11. Sound(fs')
      <3>1. Accounted(fs') /\ Distinct(fs')
        BY <2>2, <2>3, <2>6, <2>9, EntryObjs DEF Sound, Replaced
      <3>2. Housed(fs') /\ Kept(fs') /\ Named(fs')
        BY <2>2, <2>9, <2>10, SameEntries DEF Sound, Replaced
      <3>. QED  BY <3>1, <3>2 DEF Sound
    <2>12. Quiet => Back(fs')
      <3>1. \A x \in Captured(fs') : x \in Captured(fs) /\ fs'.at[x] = fs.at[x]
        BY <2>9, <2>10 DEF Captured, SameRecs, Replaced
      <3>2. \A n \in Names : fs.at[n] = None => fs'.at[n] = None
        BY <2>3, <2>9, SlotFacts, EntryFacts DEF Replaced
      <3>. QED  BY <2>2, <2>9, <3>1, <3>2, SameBack DEF Replaced
    <2>13. OwnerOK(l, fs')
      <3>1. Fresh(l)
        BY <2>1, <2>2, <2>8 DEF OwnerOK, Fresh, RecoverPcs, HeaderPcs
      <3>2. InSession(l, fs')
        <4>1. /\ k.s \in Sess /\ k.s \in fs.dirs \ Legacy /\ fs.hdr[k.s] = [st |-> "pub", data |-> "durable"]
              /\ \A i \in k.next .. MaxId : fs.at[<<k.s, i>>] = None /\ fs.rec[<<k.s, i>>].st = "none"
              /\ k.next \in 0 .. MaxId + 1
          BY <2>1, SessionFacts DEF k
        <4>2. ASSUME NEW i \in k.next .. MaxId
              PROVE  fs'.at[<<k.s, i>>] = None /\ fs'.rec[<<k.s, i>>].st = "none"
          <5>1. <<k.s, i>> \in E
            BY <4>1, SlotAssumption DEF E
          <5>. QED  BY <2>9, <2>10, <4>1, <5>1 DEF Replaced, SameRecs
        <4>3. fs'.dirs = fs.dirs /\ fs'.hdr = fs.hdr
          BY <2>9 DEF Replaced, SameHome
        <4>. QED  BY <2>8, <4>1, <4>2, <4>3 DEF InSession
      <3>3. Entry(l)
        BY <2>3, <2>4, <2>7, <2>8 DEF Entry, Used, ExchangePcs
      <3>4. Retiring(l, fs')
        BY <2>7, <2>8 DEF Retiring
      <3>5. Staging(l, fs')
        BY <2>7, <2>8, <2>9 DEF Staging, StagePcs, ExchangePcs, Replaced
      <3>6. Recovering(l, fs')
        BY <2>8 DEF Recovering
      <3>7. Flagged(l, fs')
        BY <2>7, <2>8 DEF Flagged
      <3>8. Told(l, fs')
        <4>1. Told(k, fs) /\ k.pc \in HeaderPcs /\ Pending(k) = {k.stage} /\ e \in Pending(l)
          BY <2>1, <2>2, <2>8 DEF OwnerOK, HeaderPcs, Pending, EntryPcs
        <4>. QED  BY <2>3, <2>8, <2>9, <4>1 DEF Told, Replaced, SameRecs
      <3>. QED  BY <3>1, <3>2, <3>3, <3>4, <3>5, <3>6, <3>7, <3>8 DEF OwnerOK
    <2>14. Quiet => Expected(l, fs')
      BY <2>7, <2>8 DEF Expected
    <2>15. RemovedStays(k, l, fs')
      BY <2>8 DEF RemovedStays, Acknowledges
    <2>16. ps' = [ps EXCEPT ![p] = l]
      BY <1>2
    <2>. QED  BY <2>2, <2>5, <2>8, <2>9, <2>11, <2>12, <2>13, <2>14, <2>15, <2>16, OwnerStep DEF k
  <1>3. (End(p) /\ UNCHANGED <<fs, disk, moved, budget>>)
        \/ (Put(g) /\ ps' = [ps EXCEPT ![p] = l] /\ UNCHANGED Root)
    BY Zenon DEF StageDrop
  <1>. QED  BY <1>1, <1>2, <1>3

-----------------------------------------------------------------------------
(* Sessions and recovery.                                                  *)

\* The locals a step between calls keeps.
Between(k, l) ==
    /\ l.owner = k.owner /\ l.next = k.next /\ l.stage = k.stage /\ l.dst = k.dst /\ l.intent = k.intent
    /\ l.removed = k.removed /\ l.captured = k.captured /\ l.verdict = k.verdict
    /\ l.recoveryRequired = k.recoveryRequired
    /\ k.pc \notin EntryPcs /\ l.pc \notin EntryPcs

LEMMA BetweenStep ==
    ASSUME RInv, IInv', NEW p \in Procs, ps[p].pc \notin {"idle", "ready"} \/ ps[p].owner = p,
           NEW l, ps' = [ps EXCEPT ![p] = l], Between(ps[p], l),
           disk' \subseteq disk \cup {fs'}, Quiet' => Quiet,
           fs'.retired = fs.retired, Sound(fs'), Quiet => Back(fs'),
           l.s = ps[p].s \/ ps[p].stage = None,
           Fresh(l), InSession(l, fs'), Recovering(l, fs'), Told(l, fs')
    PROVE  RInv'
  <1>. USE DEF EntryPcs, RetirePcs, ExchangePcs, StagePcs
  <1>1. ps[p].owner = p /\ OwnerOK(ps[p], fs)
    BY OwnerFacts
  <1>2. Entry(l)
    BY <1>1 DEF Between, OwnerOK, Entry
  <1>3. Retiring(l, fs')
    BY <1>1 DEF Between, OwnerOK, Retiring, BeforeCapture, NotRemoved, NowEmpty, PublishedPcs
  <1>4. Staging(l, fs')
    BY <1>1 DEF Between, OwnerOK, Staging
  <1>5. Flagged(l, fs')
    BY <1>1 DEF Between, OwnerOK, Flagged
  <1>6. OwnerOK(l, fs')
    BY <1>2, <1>3, <1>4, <1>5 DEF OwnerOK
  <1>7. Expected(l, fs')
    BY DEF Between, Expected, BeforeCapture
  <1>8. RemovedStays(ps[p], l, fs')
    BY DEF Between, RemovedStays, Acknowledges
  <1>9. fs.retired \subseteq fs'.retired
    OBVIOUS
  <1>. QED  BY <1>1, <1>6, <1>7, <1>8, <1>9, OwnerStep

\* What a step of the owner between calls starts from.
LEMMA BetweenFacts ==
    ASSUME RInv, NEW p \in Procs, ps[p].pc \notin {"idle", "ready"} \/ ps[p].owner = p
    PROVE  /\ ps[p] \in Local /\ WellFormed(p, ps[p]) /\ fs \in FS /\ Sound(fs) /\ (Quiet => Back(fs))
           /\ Fresh(ps[p]) /\ InSession(ps[p], fs) /\ Recovering(ps[p], fs) /\ Told(ps[p], fs)
           /\ DOMAIN ps = Procs /\ IInv
  BY OwnerFacts DEF OwnerOK, RInv

LEMMA StartRec ==
    ASSUME RInv, IInv', NEW p \in Procs, NEW c \in BOOLEAN, Start(p, c)
    PROVE  RInv'
  <1>. DEFINE l == [Idle EXCEPT !.pc = "scan", !.owner = p, !.check = c]
  <1>1. ps' = [ps EXCEPT ![p] = l] /\ UNCHANGED <<fs, disk>> /\ (Quiet' => Quiet)
    BY DEF Start, Spend, Quiet, RInv, IInv, TypeOK, Budget
  <1>2. /\ l.pc = "scan" /\ l.owner = p /\ l.next = 0 /\ l.stage = None /\ l.intent = NoIntent
        /\ ~ l.captured /\ ~ l.removed /\ l.verdict = "none" /\ ~ l.recovered
    BY DEF Idle
  <1>. HIDE DEF l
  <1>3. NoIntent.kind = "retire" /\ NoIntent.expect = None
    BY DEF NoIntent
  <1>4. OwnerOK(l, fs)
    BY <1>2, <1>3 DEF OwnerOK, Fresh, InSession, HeaderPcs, Entry, Used, Retiring, Staging,
       Recovering, Flagged,
       Told, EntryPcs, RetirePcs, ExchangePcs, StagePcs, BeforeCapture, NotRemoved, NowEmpty,
       PublishedPcs
  <1>5. Expected(l, fs) /\ RemovedStays(ps[p], l, fs)
    BY <1>2 DEF Expected, BeforeCapture, RemovedStays, Acknowledges
  <1>6. Sound(fs) /\ (Quiet => Back(fs))
    BY Parts DEF RInv, FilesInv, FSPart
  <1>7. fs' = fs /\ disk' \subseteq disk \cup {fs'} /\ fs.retired \subseteq fs'.retired
    BY <1>1
  <1>. QED  BY <1>1, <1>2, <1>4, <1>5, <1>6, <1>7, OwnerStep

LEMMA RecoverEnterRec ==
    ASSUME RInv, IInv', NEW p \in Procs, NEW s \in Sess, RecoverEnter(p, s)
    PROVE  RInv'
  <1>. DEFINE k == ps[p]
              l == ps'[p]
  <1>1. k.pc = "scan" /\ UNCHANGED <<fs, disk>> /\ (Quiet' => Quiet)
    BY DEF RecoverEnter, At, Quiet
  <1>2. CASE End(p)
    BY <1>1, <1>2, EndRec
  <1>3. CASE ps' = [ps EXCEPT ![p].pc = "recdir", ![p].s = s]
    <2>1. /\ k \in Local /\ fs \in FS /\ Sound(fs) /\ (Quiet => Back(fs)) /\ Fresh(k)
      BY <1>1, BetweenFacts
    <2>2. ps' = [ps EXCEPT ![p] = l] /\ l = [k EXCEPT !.pc = "recdir", !.s = s]
      BY <1>3, LocalFacts DEF RInv
    <2>3. k.pc \notin EntryPcs /\ "recdir" \notin EntryPcs
      BY <1>1 DEF EntryPcs, RetirePcs, ExchangePcs, StagePcs
    <2>. HIDE DEF k, l
    <2>4. Between(k, l) /\ l.pc = "recdir" /\ l.s = s /\ l.recovered = k.recovered
      BY <2>1, <2>2, <2>3 DEF Between, Local
    <2>5. k.next = 0 /\ k.stage = None
      BY <1>1, <2>1 DEF Fresh, RecoverPcs
    <2>6. Fresh(l) /\ InSession(l, fs) /\ Recovering(l, fs) /\ Told(l, fs)
      BY <2>4, <2>5 DEF Fresh, RecoverPcs, InSession, HeaderPcs, Recovering, Told, Between
    <2>. QED  BY <1>1, <2>1, <2>2, <2>4, <2>5, <2>6, BetweenStep DEF k, l
  <1>. QED  BY <1>2, <1>3 DEF RecoverEnter

LEMMA ScanDoneRec ==
    ASSUME RInv, IInv', NEW p \in Procs, ScanDone(p)
    PROVE  RInv'
  <1>. DEFINE k == ps[p]
              l == ps'[p]
  <1>1. k.pc = "scan" /\ UNCHANGED <<fs, disk>> /\ (Quiet' => Quiet)
    BY DEF ScanDone, At, Quiet
  <1>2. CASE End(p)
    BY <1>1, <1>2, EndRec
  <1>3. CASE Goto(p, "mkdir") /\ ~ k.recovered
    <2>1. /\ k \in Local /\ fs \in FS /\ Sound(fs) /\ (Quiet => Back(fs)) /\ Fresh(k)
      BY <1>1, BetweenFacts
    <2>2. ps' = [ps EXCEPT ![p] = l] /\ l = [k EXCEPT !.pc = "mkdir"]
      BY <1>3, LocalFacts DEF RInv, Goto
    <2>3. k.pc \notin EntryPcs /\ "mkdir" \notin EntryPcs
      BY <1>1 DEF EntryPcs, RetirePcs, ExchangePcs, StagePcs
    <2>. HIDE DEF k, l
    <2>4. Between(k, l) /\ l.pc = "mkdir" /\ l.s = k.s /\ l.recovered = k.recovered
      BY <2>1, <2>2, <2>3 DEF Between, Local
    <2>5. Fresh(l) /\ InSession(l, fs) /\ Recovering(l, fs) /\ Told(l, fs)
      BY <1>1, <1>3, <2>1, <2>4 DEF Fresh, RecoverPcs, InSession, HeaderPcs, Recovering, Told,
         Between
    <2>. QED  BY <1>1, <2>1, <2>2, <2>4, <2>5, BetweenStep DEF k, l
  <1>. QED  BY <1>2, <1>3 DEF ScanDone

\* Steps between calls that only move the program counter.
LEMMA BetweenGoto ==
    ASSUME IInv, NEW p \in Procs, NEW x, Goto(p, x), ps[p].pc \notin EntryPcs, x \notin EntryPcs
    PROVE  /\ ps' = [ps EXCEPT ![p] = ps'[p]] /\ Between(ps[p], ps'[p])
           /\ ps'[p].pc = x /\ ps'[p].s = ps[p].s /\ ps'[p].e = ps[p].e
           /\ ps'[p].recovered = ps[p].recovered
  <1>1. ps' = [ps EXCEPT ![p] = [ps[p] EXCEPT !.pc = x]]
    BY LocalFacts DEF Goto
  <1>. QED  BY <1>1, LocalFacts DEF Between, Local

\* A header is that of a session none of whose captures depends on it.
LEMMA HeaderSound ==
    ASSUME NEW f \in FS, Sound(f), NEW s \in Sess, NEW r \in File, NEW g, g = WithHeader(f, s, r),
           \A e \in E : SessionOf(e) = s /\ f.at[e] # None => f.at[e] \in f.displaced
    PROVE  Sound(g) /\ (Back(f) => Back(g))
  <1>1. /\ g \in FS /\ SameObjs(f, g) /\ SameRecs(f, g) /\ g.at = f.at /\ g.dirs = f.dirs
        /\ \A x \in Sess \ {s} : g.hdr[x] = f.hdr[x]
    BY HeaderFS
  <1>2. g.dirs \subseteq Legacy \/ g.dirs \cap Legacy = {}
    BY <1>1 DEF Sound, Housed
  <1>3. \A e \in E : SessionOf(e) \in Sess
    BY EntryFacts
  <1>4. \A e \in E : f.at[e] # None /\ f.at[e] \notin f.displaced => g.hdr[SessionOf(e)] = f.hdr[SessionOf(e)]
    BY <1>1, <1>3
  <1>5. g.rec = f.rec /\ g.intent = f.intent
    BY <1>1 DEF SameRecs
  <1>. HIDE DEF WithHeader
  <1>. QED  BY <1>1, <1>2, <1>4, <1>5, StrongerSound

\* An update of the listing.
WithDirs(f, D) == [f EXCEPT !.dirs = D]
LEMMA DirsFS ==
    ASSUME NEW f \in FS, NEW D \in SUBSET Sess, NEW g, g = WithDirs(f, D)
    PROVE  /\ g \in FS /\ SameObjs(f, g) /\ SameRecs(f, g) /\ g.at = f.at /\ g.hdr = f.hdr /\ g.dirs = D
  BY DEF FS, SameObjs, SameRecs, WithDirs

LEMMA DirsSound ==
    ASSUME NEW f \in FS, Sound(f), NEW D \in SUBSET Sess, NEW g, g = WithDirs(f, D),
           \A e \in E : f.at[e] # None \/ f.rec[e].st # "none" =>
                            (SessionOf(e) \in f.dirs => SessionOf(e) \in D),
           D \subseteq Legacy \/ D \cap Legacy = {}
    PROVE  Sound(g) /\ (Back(f) => Back(g))
  <1>1. g \in FS /\ SameObjs(f, g) /\ SameRecs(f, g) /\ g.at = f.at /\ g.hdr = f.hdr /\ g.dirs = D
    BY DirsFS
  <1>2. g.rec = f.rec /\ g.intent = f.intent
    BY <1>1 DEF SameRecs
  <1>. HIDE DEF WithDirs
  <1>. QED  BY <1>1, <1>2, StrongerSound

LEMMA MakeSessionRec ==
    ASSUME RInv, IInv', NEW p \in Procs, NEW s \in Sess, MakeSession(p, s)
    PROVE  RInv'
  <1>. DEFINE k == ps[p]
              l == ps'[p]
  <1>1. k.pc = "mkdir" /\ s \in Sess \ Legacy /\ (Quiet' => Quiet) /\ disk' = disk \cup {fs'}
        /\ fs' = [fs EXCEPT !.dirs = @ \cup {s}]
        /\ ps' = [ps EXCEPT ![p].pc = "hdrwrite", ![p].s = s]
    BY DEF MakeSession, At, Quiet, Put, Root
  <1>2. k \in Local /\ fs \in FS /\ Sound(fs) /\ (Quiet => Back(fs)) /\ Fresh(k) /\ fs.dirs = {}
    BY <1>1, BetweenFacts DEF IInv, LockInv
  <1>3. \A e \in E : fs.at[e] = None /\ fs.rec[e].st = "none"
    BY <1>2 DEF Sound, Housed
  <1>4. fs' = WithDirs(fs, {s})
    BY <1>1, <1>2 DEF WithDirs, FS
  <1>5. {s} \in SUBSET Sess /\ {s} \cap Legacy = {}
    BY <1>1
  <1>6. Sound(fs') /\ (Quiet => Back(fs'))
    BY <1>2, <1>3, <1>4, <1>5, DirsSound
  <1>7. fs' \in FS /\ SameObjs(fs, fs') /\ fs'.rec = fs.rec /\ fs'.at = fs.at /\ fs'.dirs = {s}
    BY <1>2, <1>4, <1>5, DirsFS DEF SameRecs
  <1>8. ps' = [ps EXCEPT ![p] = l] /\ l = [k EXCEPT !.pc = "hdrwrite", !.s = s]
    BY <1>1, LocalFacts DEF RInv
  <1>9. k.pc \notin EntryPcs /\ "hdrwrite" \notin EntryPcs
    BY <1>1 DEF EntryPcs, RetirePcs, ExchangePcs, StagePcs
  <1>. HIDE DEF k, l
  <1>10. Between(k, l) /\ l.pc = "hdrwrite" /\ l.s = s /\ l.recovered = k.recovered
    BY <1>2, <1>8, <1>9 DEF Between, Local
  <1>11. k.next = 0 /\ k.stage = None /\ ~ k.recovered
    BY <1>1, <1>2 DEF Fresh, RecoverPcs
  <1>12. \A i \in 0 .. MaxId : fs'.at[<<s, i>>] = None /\ fs'.rec[<<s, i>>].st = "none"
    BY <1>3, <1>7 DEF E
  <1>13. Fresh(l)
    BY <1>10, <1>11 DEF Fresh, RecoverPcs, Between
  <1>14. InSession(l, fs')
    BY <1>1, <1>7, <1>10, <1>11, <1>12 DEF InSession, HeaderPcs, Between, EntryPcs, RetirePcs,
       ExchangePcs, StagePcs
  <1>15. Recovering(l, fs') /\ Told(l, fs')
    BY <1>10 DEF Recovering, Told, HeaderPcs, EntryPcs, RetirePcs, ExchangePcs, StagePcs
  <1>16. fs'.retired = fs.retired
    BY <1>7 DEF SameObjs
  <1>. QED  BY <1>1, <1>6, <1>8, <1>10, <1>11, <1>13, <1>14, <1>15, <1>16, BetweenStep DEF k, l

\* The session's first header: nothing is in the directory yet.
LEMMA FreshHeader ==
    ASSUME RInv, IInv', NEW p \in Procs, NEW x \in {"hdrfsync", "hdrrename", "hdrD"}, NEW r \in File,
           ps[p].pc \in {"hdrwrite", "hdrfsync", "hdrrename"}, Goto(p, x),
           fs' = WithHeader(fs, ps[p].s, r), disk' \subseteq disk \cup {fs'}, UNCHANGED Root,
           x = "hdrrename" => r.data = "durable",
           x = "hdrD" => r = [st |-> "pub", data |-> "durable"]
    PROVE  RInv'
  <1>. DEFINE k == ps[p]
              l == ps'[p]
  <1>1. k.pc \in {"hdrwrite", "hdrfsync", "hdrrename"} /\ (Quiet' => Quiet)
        /\ k.pc \notin EntryPcs /\ x \notin EntryPcs
    BY DEF EntryPcs, RetirePcs, ExchangePcs, StagePcs, Root, Quiet
  <1>2. /\ k \in Local /\ fs \in FS /\ Sound(fs) /\ (Quiet => Back(fs)) /\ Fresh(k) /\ InSession(k, fs)
        /\ WellFormed(p, k)
    BY <1>1, BetweenFacts
  <1>3. /\ ps' = [ps EXCEPT ![p] = l] /\ Between(k, l)
        /\ l.pc = x /\ l.s = k.s /\ l.recovered = k.recovered
    BY <1>1, BetweenGoto DEF RInv
  <1>4. k.next = 0 /\ k.stage = None /\ ~ k.recovered /\ k.s \in fs.dirs \ Legacy /\ k.s \in Sess
    BY <1>1, <1>2 DEF Fresh, InSession, WellFormed
  <1>5. \A i \in 0 .. MaxId : fs.at[<<k.s, i>>] = None /\ fs.rec[<<k.s, i>>].st = "none"
    BY <1>1, <1>2, <1>4 DEF InSession
  <1>. HIDE DEF k, l
  <1>6. \A e \in E : SessionOf(e) = k.s => fs.at[e] = None /\ fs.rec[e].st = "none"
    BY <1>5, EntryFacts
  <1>7. fs' = WithHeader(fs, k.s, r)
    BY DEF k
  <1>8. Sound(fs') /\ (Quiet => Back(fs'))
    BY <1>2, <1>4, <1>6, <1>7, HeaderSound
  <1>9. SameObjs(fs, fs') /\ fs'.rec = fs.rec /\ fs'.at = fs.at /\ fs'.dirs = fs.dirs /\ fs'.hdr[k.s] = r
    BY <1>2, <1>4, <1>7, HeaderFS DEF SameRecs
  <1>10. Fresh(l)
    BY <1>3, <1>4 DEF Fresh, RecoverPcs, Between
  <1>11. InSession(l, fs')
    BY <1>3, <1>4, <1>5, <1>9 DEF InSession, HeaderPcs, Between, EntryPcs, RetirePcs, ExchangePcs,
       StagePcs
  <1>12. Recovering(l, fs') /\ Told(l, fs')
    BY <1>3, <1>6, <1>9 DEF Recovering, Told
  <1>13. fs'.retired = fs.retired
    BY <1>9 DEF SameObjs
  <1>. QED  BY <1>1, <1>3, <1>8, <1>10, <1>11, <1>12, <1>13, BetweenStep DEF k, l

LEMMA HeaderRec ==
    ASSUME RInv, IInv', NEW p \in Procs, HeaderWrite(p) \/ HeaderSync(p) \/ HeaderRename(p)
    PROVE  RInv'
  <1>. DEFINE h == fs.hdr[ps[p].s]
  <1>1. ps[p].pc \in {"hdrwrite", "hdrfsync", "hdrrename"}
    BY DEF HeaderWrite, HeaderSync, HeaderRename, At
  <1>2. fs \in FS /\ ps[p].s \in Sess /\ InSession(ps[p], fs)
    BY <1>1, BetweenFacts DEF WellFormed
  <1>3. h \in File
    BY <1>2, FSFields
  <1>4. CASE HeaderWrite(p)
    <2>1. [st |-> "pend", data |-> "cached"] \in File
      BY DEF File, Data
    <2>2. fs' = WithHeader(fs, ps[p].s, [st |-> "pend", data |-> "cached"])
      BY <1>4 DEF HeaderWrite, Put, WithHeader
    <2>. QED  BY <1>1, <1>4, <2>1, <2>2, FreshHeader DEF HeaderWrite, Put
  <1>5. CASE HeaderSync(p)
    <2>1. [h EXCEPT !.data = "durable"] \in File /\ [h EXCEPT !.data = "durable"].data = "durable"
      BY <1>3 DEF File, Data
    <2>2. fs' = WithHeader(fs, ps[p].s, [h EXCEPT !.data = "durable"])
      BY <1>2, <1>5 DEF HeaderSync, WithHeader, FS
    <2>. QED  BY <1>1, <1>5, <2>1, <2>2, FreshHeader DEF HeaderSync
  <1>6. CASE HeaderRename(p)
    <2>1. h.data = "durable"
      BY <1>2, <1>6 DEF InSession, HeaderRename, At
    <2>2. [h EXCEPT !.st = "pub"] \in File /\ [h EXCEPT !.st = "pub"] = [st |-> "pub", data |-> "durable"]
      BY <1>3, <2>1 DEF File, Data
    <2>3. fs' = WithHeader(fs, ps[p].s, [h EXCEPT !.st = "pub"])
      BY <1>2, <1>6 DEF HeaderRename, Put, WithHeader, FS
    <2>. QED  BY <1>1, <1>6, <2>2, <2>3, FreshHeader DEF HeaderRename, Put
  <1>. QED  BY <1>4, <1>5, <1>6

LEMMA RecoverPendingRec ==
    ASSUME RInv, IInv', NEW p \in Procs, NEW e \in E, RecoverPending(p, e)
    PROVE  RInv'
  <1>. DEFINE k == ps[p]
  <1>1. k.pc = "recdir" /\ (Quiet' => Quiet) /\ k.pc \notin {"idle", "ready"} /\ k.pc \notin EntryPcs
        /\ SessionOf(e) = k.s /\ fs.rec[e].st = "pend"
    BY DEF RecoverPending, At, Quiet, Entries, EntryPcs, RetirePcs, ExchangePcs, StagePcs
  <1>2. /\ k \in Local /\ fs \in FS /\ Sound(fs) /\ (Quiet => Back(fs)) /\ Fresh(k) /\ DOMAIN ps = Procs
    BY <1>1, BetweenFacts
  <1>3. CASE k.s \in Legacy
    <2>1. /\ fs' = WithRecord(fs, e, NoFile, NoIntent) /\ disk' \subseteq disk \cup {fs'} /\ ps' = ps
      BY <1>3 DEF RecoverPending, WithRecord
    <2>2. ps' = [ps EXCEPT ![p] = k]
      BY <2>1 DEF RInv, IInv, TypeOK
    <2>. HIDE DEF k
    <2>3. /\ fs' \in FS /\ SameObjs(fs, fs') /\ SameHome(fs, fs') /\ fs'.at = fs.at
          /\ fs'.rec[e] = NoFile /\ fs'.intent[e] = NoIntent
          /\ \A x \in E \ {e} : fs'.rec[x] = fs.rec[x] /\ fs'.intent[x] = fs.intent[x]
      BY <1>2, <2>1, RecordFS, NoFileType
    <2>4. Sound(fs') /\ (Back(fs) => Back(fs'))
      BY <1>1, <1>2, <1>3, <2>3, ClearedSound
    <2>5. Between(k, k)
      BY <1>1 DEF Between
    <2>6. InSession(k, fs') /\ Recovering(k, fs') /\ Told(k, fs')
      BY <1>1 DEF InSession, Recovering, Told, HeaderPcs
    <2>7. fs'.retired = fs.retired
      BY <2>3 DEF SameObjs
    <2>. QED  BY <1>1, <1>2, <2>1, <2>2, <2>4, <2>5, <2>6, <2>7, BetweenStep DEF k
  <1>4. CASE k.s \notin Legacy
    BY <1>1, <1>4, EndRec DEF RecoverPending
  <1>. QED  BY <1>3, <1>4

\* Recovery goes on to the entry e: a file system state that frees it.
LEMMA RecoverMoves ==
    ASSUME RInv, IInv', NEW p \in Procs, NEW e \in E, ps[p].pc = "recdir",
           ps' = [ps EXCEPT ![p].pc = "recP", ![p].e = e],
           disk' \subseteq disk \cup {fs'}, Quiet' => Quiet, fs'.retired = fs.retired,
           Sound(fs'), Quiet => Back(fs'), fs'.at[e] = None
    PROVE  RInv'
  <1>. DEFINE k == ps[p]
              l == ps'[p]
  <1>1. k.pc = "recdir" /\ k.pc \notin EntryPcs /\ "recP" \notin EntryPcs
    BY DEF EntryPcs, RetirePcs, ExchangePcs, StagePcs
  <1>2. k \in Local /\ Fresh(k)
    BY <1>1, BetweenFacts
  <1>3. ps' = [ps EXCEPT ![p] = l] /\ l = [k EXCEPT !.pc = "recP", !.e = e]
    BY LocalFacts DEF RInv
  <1>. HIDE DEF k, l
  <1>4. Between(k, l) /\ l.pc = "recP" /\ l.s = k.s /\ l.e = e /\ l.recovered = k.recovered
    BY <1>1, <1>2, <1>3 DEF Between, Local
  <1>5. Fresh(l) /\ InSession(l, fs') /\ Recovering(l, fs') /\ Told(l, fs')
    BY <1>1, <1>2, <1>4 DEF Fresh, RecoverPcs, InSession, HeaderPcs, Recovering, Told, Between
  <1>. QED  BY <1>1, <1>3, <1>4, <1>5, BetweenStep DEF k, l

LEMMA RecoverRecordRec ==
    ASSUME RInv, IInv', NEW p \in Procs, NEW e \in E, RecoverRecord(p, e)
    PROVE  RInv'
  <1>. DEFINE t == fs.intent[e]
  <1>1. ps[p].pc = "recdir" /\ fs.rec[e].st = "pub" /\ (Quiet' => Quiet) /\ ps[p].pc \notin {"idle", "ready"}
    BY DEF RecoverRecord, At, Quiet
  <1>2. fs \in FS /\ Sound(fs) /\ (Quiet => Back(fs))
    BY <1>1, BetweenFacts
  <1>3. CASE End(p) /\ UNCHANGED <<fs, disk>>
    BY <1>1, <1>3, EndRec
  <1>4. CASE /\ fs.at[e] # None /\ Restorable(e) /\ Put(Move(fs, e, t.name))
             /\ ps' = [ps EXCEPT ![p].pc = "recP", ![p].e = e]
    <2>1. t.kind # "stage" /\ fs.at[t.name] = None
      BY <1>4 DEF Restorable
    <2>2. t.name \in Slot /\ (SessionOf(e) \in Legacy => t.name \in Names)
      BY <1>1, <1>2, <2>1 DEF Sound, Named
    <2>3. e # t.name /\ e \in Slot
      BY <1>4, <2>1, EntryFacts
    <2>4. fs' = Move(fs, e, t.name) /\ disk' = disk \cup {fs'}
      BY <1>4 DEF Put
    <2>. HIDE DEF t
    <2>5. Renamed(fs, fs', e, t.name)
      BY <1>2, <2>2, <2>3, <2>4, MoveFS
    <2>6. Sound(fs') /\ (Back(fs) => Back(fs'))
      <3>1. t.name = fs.intent[e].name /\ fs.intent[e].kind # "stage"
        BY <2>1 DEF t
      <3>2. /\ fs' \in FS /\ SameObjs(fs, fs') /\ SameRecs(fs, fs') /\ SameHome(fs, fs')
            /\ fs'.at[e] = None /\ fs'.at[t.name] = fs.at[e]
            /\ \A x \in Slot \ {e, t.name} : fs'.at[x] = fs.at[x]
        BY <2>5 DEF Renamed
      <3>. QED  BY <1>2, <1>4, <2>1, <2>2, <3>1, <3>2, RestoreSound
    <2>7. fs'.at[e] = None /\ fs'.retired = fs.retired
      BY <2>5 DEF Renamed, SameObjs
    <2>. QED  BY <1>1, <1>2, <1>4, <2>4, <2>6, <2>7, RecoverMoves
  <1>5. CASE /\ fs.at[e] = None /\ UNCHANGED <<fs, disk>>
             /\ ps' = [ps EXCEPT ![p].pc = "recP", ![p].e = e]
    BY <1>1, <1>2, <1>5, RecoverMoves
  <1>. QED  BY <1>3, <1>4, <1>5 DEF RecoverRecord

LEMMA RecoverClearRec ==
    ASSUME RInv, IInv', NEW p \in Procs, RecoverClear(p)
    PROVE  RInv'
  <1>. DEFINE k == ps[p]
              l == ps'[p]
  <1>1. k.pc = "recclr" /\ k.pc \notin EntryPcs /\ "recclrD" \notin EntryPcs /\ (Quiet' => Quiet)
    BY DEF RecoverClear, At, Root, Quiet, EntryPcs, RetirePcs, ExchangePcs, StagePcs
  <1>2. /\ k \in Local /\ fs \in FS /\ Sound(fs) /\ (Quiet => Back(fs)) /\ Fresh(k) /\ WellFormed(p, k)
        /\ Recovering(k, fs)
    BY <1>1, BetweenFacts
  <1>3. /\ ps' = [ps EXCEPT ![p] = l] /\ Between(k, l)
        /\ l.pc = "recclrD" /\ l.s = k.s /\ l.recovered = k.recovered
    BY <1>1, BetweenGoto DEF RInv, RecoverClear
  <1>4. k.e \in E /\ fs.at[k.e] = None
    BY <1>1, <1>2 DEF WellFormed, Recovering
  <1>5. fs' = WithRecord(fs, k.e, NoFile, NoIntent) /\ disk' = disk \cup {fs'}
    BY DEF RecoverClear, Put, WithRecord
  <1>. HIDE DEF k, l
  <1>6. /\ fs' \in FS /\ SameObjs(fs, fs') /\ SameHome(fs, fs') /\ fs'.at = fs.at
        /\ fs'.rec[k.e] = NoFile /\ fs'.intent[k.e] = NoIntent
        /\ \A x \in E \ {k.e} : fs'.rec[x] = fs.rec[x] /\ fs'.intent[x] = fs.intent[x]
    BY <1>2, <1>4, <1>5, RecordFS, NoFileType
  <1>7. Sound(fs') /\ (Back(fs) => Back(fs'))
    BY <1>2, <1>4, <1>6, ClearedSound
  <1>8. Fresh(l) /\ InSession(l, fs') /\ Recovering(l, fs') /\ Told(l, fs')
    BY <1>1, <1>2, <1>3 DEF Fresh, RecoverPcs, InSession, HeaderPcs, Recovering, Told, Between,
       EntryPcs, RetirePcs,
       ExchangePcs, StagePcs
  <1>9. fs'.retired = fs.retired
    BY <1>6 DEF SameObjs
  <1>. QED  BY <1>1, <1>2, <1>3, <1>5, <1>7, <1>8, <1>9, BetweenStep DEF k, l

LEMMA EndingRec ==
    ASSUME RInv, IInv', NEW p \in Procs,
           (\E e \in E : RecoverUnknown(p, e)) \/ Drop(p)
    PROVE  RInv'
  BY EndRec DEF RecoverUnknown, Drop, Quiet

LEMMA RemoveHeaderRec ==
    ASSUME RInv, IInv', NEW p \in Procs, RemoveHeader(p)
    PROVE  RInv'
  <1>. DEFINE k == ps[p]
              l == ps'[p]
  <1>1. /\ k.pc \in {"recdir", "ready"} /\ (Quiet' => Quiet) /\ k.pc \notin EntryPcs /\ "finD" \notin EntryPcs
        /\ k.pc \notin {"idle", "ready"} \/ k.owner = p
    BY DEF RemoveHeader, RequireOwner, At, Quiet, Root, EntryPcs, RetirePcs, ExchangePcs, StagePcs
  <1>2. /\ k \in Local /\ fs \in FS /\ Sound(fs) /\ (Quiet => Back(fs)) /\ Fresh(k) /\ WellFormed(p, k)
    BY <1>1, BetweenFacts
  <1>3. k.s \in Sess
    BY <1>1, <1>2 DEF WellFormed
  <1>4. fs' = WithHeader(fs, k.s, NoFile) /\ disk' = disk \cup {fs'}
    BY DEF RemoveHeader, Put, WithHeader
  <1>5. /\ ps' = [ps EXCEPT ![p] = l] /\ Between(k, l) /\ l.pc = "finD" /\ l.s = k.s
        /\ l.recovered => k.pc = "recdir" \/ k.recovered
    <2>1. CASE Goto(p, "finD") /\ k.pc = "ready"
      BY <1>1, <2>1, BetweenGoto DEF RInv
    <2>2. CASE ps' = [ps EXCEPT ![p].pc = "finD", ![p].recovered = TRUE] /\ k.pc = "recdir"
      <3>1. ps' = [ps EXCEPT ![p] = l] /\ l = [k EXCEPT !.pc = "finD", !.recovered = TRUE]
        BY <2>2, LocalFacts DEF RInv
      <3>. HIDE DEF k, l
      <3>2. Between(k, l) /\ l.pc = "finD" /\ l.s = k.s
        BY <1>1, <1>2, <3>1 DEF Between, Local
      <3>. QED  BY <2>2, <3>1, <3>2
    <2>. QED  BY <2>1, <2>2 DEF RemoveHeader, At
  <1>6. \A e \in E : SessionOf(e) = k.s => fs.at[e] = None \/ fs.rec[e].st = "none"
    BY DEF RemoveHeader, Entries, Empty
  <1>. HIDE DEF k, l
  <1>7. \A e \in E : SessionOf(e) = k.s /\ fs.at[e] # None => fs.at[e] \in fs.displaced
    BY <1>2, <1>6 DEF Sound, Kept, Recorded
  <1>8. Sound(fs') /\ (Back(fs) => Back(fs'))
    BY <1>2, <1>3, <1>4, <1>7, NoFileType, HeaderSound
  <1>9. fs'.retired = fs.retired
    BY <1>2, <1>3, <1>4, NoFileType, HeaderFS DEF SameObjs
  <1>10. Fresh(l)
    BY <1>1, <1>2, <1>5 DEF Fresh, RecoverPcs, Between, HeaderPcs, EntryPcs, RetirePcs,
       ExchangePcs, StagePcs
  <1>11. InSession(l, fs') /\ Recovering(l, fs') /\ Told(l, fs')
    BY <1>5 DEF InSession, Recovering, Told, HeaderPcs, EntryPcs, RetirePcs, ExchangePcs, StagePcs
  <1>. QED  BY <1>1, <1>2, <1>4, <1>5, <1>8, <1>9, <1>10, <1>11, BetweenStep DEF k, l

LEMMA RemoveDirectoryRec ==
    ASSUME RInv, IInv', NEW p \in Procs, RemoveDirectory(p)
    PROVE  RInv'
  <1>. DEFINE k == ps[p]
              l == ps'[p]
  <1>1. k.pc = "rmdir" /\ (Quiet' => Quiet) /\ k.pc \notin EntryPcs /\ "finRoot" \notin EntryPcs
    BY DEF RemoveDirectory, At, Quiet, EntryPcs, RetirePcs, ExchangePcs, StagePcs
  <1>2. /\ k \in Local /\ fs \in FS /\ Sound(fs) /\ (Quiet => Back(fs)) /\ Fresh(k)
    BY <1>1, BetweenFacts
  <1>3. CASE End(p) /\ UNCHANGED <<fs, disk>>
    BY <1>1, <1>3, EndRec
  <1>4. CASE Empty(k.s) /\ Put([fs EXCEPT !.dirs = @ \ {k.s}]) /\ Goto(p, "finRoot")
    <2>1. fs' = WithDirs(fs, fs.dirs \ {k.s}) /\ disk' = disk \cup {fs'} /\ fs.dirs \ {k.s} \in SUBSET Sess
      BY <1>2, <1>4 DEF Put, WithDirs, FS
    <2>2. /\ ps' = [ps EXCEPT ![p] = l] /\ Between(k, l)
          /\ l.pc = "finRoot" /\ l.s = k.s /\ l.recovered = k.recovered
      BY <1>1, <1>4, BetweenGoto DEF RInv
    <2>3. \A e \in E : SessionOf(e) = k.s => fs.at[e] = None /\ fs.rec[e].st = "none"
      BY <1>4 DEF Empty, Entries
    <2>. HIDE DEF k, l
    <2>4. Sound(fs') /\ (Back(fs) => Back(fs'))
      <3>1. fs.dirs \ {k.s} \subseteq Legacy \/ (fs.dirs \ {k.s}) \cap Legacy = {}
        BY <1>2 DEF Sound, Housed
      <3>. QED  BY <1>2, <2>1, <2>3, <3>1, DirsSound
    <2>5. fs'.retired = fs.retired
      BY <1>2, <2>1, DirsFS DEF SameObjs
    <2>6. Fresh(l) /\ InSession(l, fs') /\ Recovering(l, fs') /\ Told(l, fs')
      BY <1>2, <2>2 DEF Fresh, RecoverPcs, InSession, HeaderPcs, Recovering, Told, Between,
         EntryPcs, RetirePcs,
         ExchangePcs, StagePcs
    <2>. QED  BY <1>1, <1>2, <2>1, <2>2, <2>4, <2>5, <2>6, BetweenStep DEF k, l
  <1>. QED  BY <1>3, <1>4 DEF RemoveDirectory

LEMMA EndedRec ==
    ASSUME RInv, IInv', NEW p \in Procs, Ended(p)
    PROVE  RInv'
  <1>. DEFINE k == ps[p]
              l == ps'[p]
  <1>1. k.pc = "ended" /\ (Quiet' => Quiet) /\ UNCHANGED <<fs, disk>>
        /\ k.pc \notin EntryPcs /\ "scan" \notin EntryPcs
    BY DEF Ended, At, Quiet, EntryPcs, RetirePcs, ExchangePcs, StagePcs
  <1>2. /\ k \in Local /\ fs \in FS /\ Sound(fs) /\ (Quiet => Back(fs)) /\ Fresh(k)
    BY <1>1, BetweenFacts
  <1>3. CASE End(p)
    BY <1>1, <1>3, EndRec
  <1>4. CASE k.recovered /\ ps' = [ps EXCEPT ![p].pc = "scan", ![p].s = None]
    <2>1. ps' = [ps EXCEPT ![p] = l] /\ l = [k EXCEPT !.pc = "scan", !.s = None]
      BY <1>4, LocalFacts DEF RInv
    <2>. HIDE DEF k, l
    <2>2. Between(k, l) /\ l.pc = "scan" /\ l.recovered = k.recovered
      BY <1>1, <1>2, <2>1 DEF Between, Local
    <2>3. Fresh(l) /\ InSession(l, fs) /\ Recovering(l, fs) /\ Told(l, fs) /\ k.stage = None
      BY <1>2, <1>4, <2>2 DEF Fresh, RecoverPcs, InSession, HeaderPcs, Recovering, Told, Between,
         EntryPcs, RetirePcs,
         ExchangePcs, StagePcs
    <2>. QED  BY <1>1, <1>2, <2>1, <2>2, <2>3, BetweenStep DEF k, l
  <1>. QED  BY <1>3, <1>4 DEF Ended

LEMMA SessionSyncRec ==
    ASSUME RInv, IInv', NEW p \in Procs, Sync(p), ps[p].pc \notin EntryPcs
    PROVE  RInv'
  <1>. DEFINE k == ps[p]
              l == ps'[p]
              x == SyncNext[ps[p].pc]
  <1>1. k.pc \in {"hdrD", "hdrRoot", "recP", "recD", "recclrD", "finD", "finRoot"} /\ k.pc \notin EntryPcs
    BY DEF Sync, SyncNext, EntryPcs, RetirePcs, ExchangePcs, StagePcs
  <1>2. /\ k.pc = "hdrD" => x = "hdrRoot"
        /\ k.pc = "hdrRoot" => x = "ready"
        /\ k.pc = "recP" => x = "recD"
        /\ k.pc = "recD" => x = "recclr"
        /\ k.pc = "recclrD" => x = "recdir"
        /\ k.pc = "finD" => x = "rmdir"
        /\ k.pc = "finRoot" => x = "ended"
    BY DEF SyncNext
  <1>3. Goto(p, x) /\ disk' = {fs} /\ fs' = fs /\ (Quiet' => Quiet)
    BY DEF Sync, Commit, Root, Quiet
  <1>. HIDE DEF x
  <1>4. x \notin EntryPcs
    BY <1>1, <1>2 DEF EntryPcs, RetirePcs, ExchangePcs, StagePcs
  <1>5. /\ ps' = [ps EXCEPT ![p] = l] /\ Between(k, l)
        /\ l.pc = x /\ l.s = k.s /\ l.e = k.e /\ l.recovered = k.recovered
    BY <1>1, <1>3, <1>4, BetweenGoto DEF RInv
  <1>6. /\ fs \in FS /\ Sound(fs) /\ (Quiet => Back(fs)) /\ fs \in disk
        /\ Fresh(k) /\ InSession(k, fs) /\ Recovering(k, fs) /\ Told(k, fs)
    BY <1>1, BetweenFacts DEF IInv, TypeOK
  <1>. HIDE DEF k, l
  <1>7. Fresh(l)
    BY <1>1, <1>2, <1>5, <1>6 DEF Fresh, RecoverPcs, HeaderPcs, Between
  <1>8. InSession(l, fs)
    <2>1. l.pc \notin {"hdrwrite", "hdrfsync", "hdrrename"} /\ (l.pc \in HeaderPcs => k.pc \in HeaderPcs)
      BY <1>1, <1>2, <1>4, <1>5 DEF HeaderPcs
    <2>. QED  BY <1>5, <1>6, <2>1 DEF InSession, Between
  <1>9. Told(l, fs)
    <2>1. l.pc \in HeaderPcs => k.pc \in HeaderPcs
      BY <1>1, <1>2, <1>4, <1>5 DEF HeaderPcs
    <2>2. k.pc # "stagedrop" /\ l.pc # "stagedrop" /\ k.pc \notin EntryPcs /\ l.pc \notin EntryPcs
      BY <1>1, <1>2, <1>5, <1>4
    <2>. QED  BY <1>5, <1>6, <2>1, <2>2 DEF Told, Pending, Between
  <1>10. Recovering(l, fs)
    BY <1>1, <1>2, <1>5, <1>6 DEF Recovering
  <1>. QED  BY <1>1, <1>3, <1>5, <1>6, <1>7, <1>8, <1>9, <1>10, BetweenStep DEF k, l

-----------------------------------------------------------------------------
(* Failing calls, forks, other processes, crashes.                         *)

LEMMA SpendQuiet ==
    ASSUME IInv, NEW b \in {"runs", "fail", "crash"}, Spend(b)
    PROVE  Quiet' => Quiet
  BY DEF IInv, TypeOK, Budget, Spend, Quiet

LEMMA FailRec ==
    ASSUME RInv, IInv', NEW p \in Procs, Fail(p)
    PROVE  RInv'
  <1>1. UNCHANGED <<fs, disk>> /\ (Quiet' => Quiet)
    BY SpendQuiet DEF Fail, RInv
  <1>2. CASE End(p)
    BY <1>1, <1>2, EndRec
  <1>3. CASE ps[p].pc \in RemovalPcs /\ ps[p].intent.kind # "stage" /\ (Goto(p, "settle") \/ Goto(p, "fail"))
    <2>1. ps[p].pc \in EntryPcs \ {"stagedrop"}
      BY <1>3 DEF RemovalPcs, EntryPcs, RetirePcs, ExchangePcs, StagePcs
    <2>. QED  BY <1>1, <1>3, <2>1, EntryFailRec
  <1>4. CASE /\ Goto(p, "stagedrop")
             /\ \/ ps[p].pc \in {"stagemk", "stagepub"}
                \/ ps[p].pc \in {"swap", "swapback"} /\ ps[p].intent.kind = "stage"
    <2>1. ps[p].pc \in EntryPcs \ {"stagedrop"}
      BY <1>4 DEF EntryPcs, ExchangePcs, StagePcs
    <2>2. ps[p].intent.kind = "stage"
      BY <1>4, LocalFacts DEF RInv, WellFormed
    <2>. QED  BY <1>1, <1>4, <2>1, <2>2, EntryFailRec
  <1>. QED  BY <1>2, <1>3, <1>4 DEF Fail

\* The child does not own the session it inherits.
LEMMA ForkRec ==
    ASSUME RInv, IInv', NEW p \in Procs, NEW c \in Procs, Fork(p, c)
    PROVE  RInv'
  <1>1. /\ ps[p].owner = p /\ ps[p].pc = "ready" /\ ps[c].pc = "idle"
        /\ ps' = [ps EXCEPT ![c] = ps[p]] /\ UNCHANGED <<fs, disk>> /\ (Quiet' => Quiet)
    BY SpendQuiet DEF Fork, At, RequireOwner, RInv
  <1>2. c # p /\ DOMAIN ps = Procs
    BY <1>1, LocalFacts DEF RInv
  <1>3. \A q \in Procs : ps'[q] = IF q = c THEN ps[p] ELSE ps[q]
    BY <1>1, <1>2
  <1>4. FilesInv'
    BY <1>1 DEF RInv, FilesInv
  <1>5. OwnerInv'
    BY <1>1, <1>2, <1>3 DEF RInv, OwnerInv, Expected
  <1>6. AckInv'
    BY <1>1, <1>3 DEF RInv, AckInv, Acknowledges
  <1>. QED  BY <1>4, <1>5, <1>6 DEF RInv

LEMMA KillRec ==
    ASSUME RInv, IInv', NEW p \in Procs, Kill(p)
    PROVE  RInv'
  BY IdleStep, SpendQuiet DEF Kill, RInv

\* The owner knows nothing of the names other processes work on.
LEMMA NamesApart ==
    ASSUME RInv, NEW p \in Procs, ps[p].owner = p, NEW g,
           SameRecs(fs, g), SameHome(fs, g), g.retired = fs.retired, g.displaced = fs.displaced,
           \A e \in E : g.at[e] = fs.at[e]
    PROVE  OwnerOK(ps[p], g)
  <1>. DEFINE l == ps[p]
  <1>1. l \in Local /\ WellFormed(p, l) /\ OwnerOK(l, fs)
    BY OwnerFacts
  <1>2. g.rec = fs.rec /\ g.intent = fs.intent /\ g.dirs = fs.dirs /\ g.hdr = fs.hdr
    BY DEF SameRecs, SameHome
  <1>. HIDE DEF l
  <1>3. InSession(l, g)
    <2>1. ASSUME l.pc \in {"hdrwrite", "hdrfsync", "hdrrename"} \cup HeaderPcs, NEW i \in l.next .. MaxId
          PROVE  <<l.s, i>> \in E
      <3>1. l.s \in Sess /\ l.next \in 0 .. MaxId + 1
        BY <1>1, <2>1 DEF WellFormed, Local, HeaderPcs, EntryPcs, RetirePcs, ExchangePcs, StagePcs
      <3>2. i \in 0 .. MaxId
        BY <3>1, SlotAssumption
      <3>. QED  BY <3>1, <3>2 DEF E
    <2>2. InSession(l, fs)
      BY <1>1 DEF OwnerOK
    <2>. QED  BY <1>2, <2>1, <2>2 DEF InSession
  <1>4. l.pc \in EntryPcs \cup {"recP", "recD", "recclr"} => l.e \in E
    BY <1>1 DEF WellFormed
  <1>5. l.pc \in EntryPcs /\ l.stage # None => l.stage \in E
    BY <1>1 DEF Local
  <1>6. Retiring(l, g)
    <2>1. /\ \A x \in NowEmpty \cup {"unlink"} : x \in EntryPcs
      BY DEF NowEmpty, EntryPcs, RetirePcs
    <2>2. Retiring(l, fs)
      BY <1>1 DEF OwnerOK
    <2>. QED  BY <1>2, <1>4, <2>1, <2>2 DEF Retiring
  <1>7. Staging(l, g)
    <2>1. \A x \in StagePcs \cup ExchangePcs \cup {"clear", "clrsync"} : x \in EntryPcs
      BY DEF EntryPcs
    <2>2. "swapcheck" \in EntryPcs
      BY DEF EntryPcs, ExchangePcs
    <2>3. Staging(l, fs)
      BY <1>1 DEF OwnerOK
    <2>. QED  BY <1>2, <1>4, <1>5, <2>1, <2>2, <2>3 DEF Staging
  <1>8. Recovering(l, g) /\ Flagged(l, g) /\ Told(l, g)
    BY <1>1, <1>2, <1>4 DEF OwnerOK, Recovering, Flagged, Told
  <1>9. OwnerOK(l, g)
    BY <1>1, <1>3, <1>6, <1>7, <1>8 DEF OwnerOK
  <1>. QED  BY <1>9 DEF l

\* What a step of an unrelated process does to the files.
Foreign(f, g) ==
    /\ g \in FS /\ Accounted(g) /\ Distinct(g) /\ SameRecs(f, g) /\ SameHome(f, g)
    /\ g.retired = f.retired /\ g.displaced = f.displaced
    /\ \A e \in E : g.at[e] = f.at[e]

LEMMA NameChange ==
    ASSUME NEW f \in FS, Sound(f), NEW n \in EnvSlots, NEW o \in Objs \cup {None},
           NEW U \in SUBSET Objs, NEW D \in SUBSET Objs,
           f.dropped \subseteq D, f.at[n] # None => f.at[n] \in D,
           (o = None /\ U = f.unborn) \/ (o \in f.unborn /\ U = f.unborn \ {o})
    PROVE  Foreign(f, Updated(f, n, o, U, D, f.retired))
  <1>. DEFINE g == Updated(f, n, o, U, D, f.retired)
  <1>1. n \in Slot /\ f.retired \in SUBSET Objs /\ n \notin E
    BY SlotAssumption DEF EnvSlots, Slot, FS
  <1>2. Replaced(f, g, n, o) /\ g.unborn = U /\ g.dropped = D /\ g.retired = f.retired
    BY <1>1, EntryFS
  <1>. HIDE DEF g
  <1>3. \A e \in E : g.at[e] = f.at[e]
    BY <1>1, <1>2, EntryFacts DEF Replaced
  <1>4. Accounted(g) /\ Distinct(g)
    <2>1. /\ g \in FS /\ Accounted(f) /\ Distinct(f) /\ g.at[n] = o /\ f.dropped \subseteq g.dropped
          /\ \A y \in Slot \ {n} : g.at[y] = f.at[y]
          /\ f.at[n] # None => f.at[n] \in g.dropped \cup g.retired
          /\ g.retired \subseteq f.retired \cup {f.at[n]}
      BY <1>2 DEF Replaced, Sound
    <2>2. \/ g.at[n] = None /\ g.unborn = f.unborn
          \/ g.at[n] \in f.unborn /\ g.unborn = f.unborn \ {g.at[n]} /\ g.retired = f.retired
      BY <1>2, <2>1
    <2>. QED  BY <1>1, <1>2, <2>1, <2>2, EntryObjs
  <1>5. Foreign(f, g)
    BY <1>2, <1>3, <1>4 DEF Replaced, Foreign
  <1>. QED  BY <1>5 DEF g

LEMMA EnvForeign ==
    ASSUME RInv, NEW n \in EnvSlots, NEW m \in EnvSlots, NEW o \in Objs,
           EnvCreate(n, o) \/ EnvUnlink(n) \/ EnvRename(n, m)
    PROVE  Foreign(fs, fs') /\ disk' = disk \cup {fs'}
  <1>1. fs \in FS /\ Sound(fs)
    BY Parts DEF RInv, FSPart, FSOK, FilesInv
  <1>2. n \in Slot /\ m \in Slot /\ n \notin E /\ m \notin E
    BY SlotAssumption DEF EnvSlots, Slot
  <1>3. fs.at[n] \in Objs \cup {None} /\ fs.unborn \in SUBSET Objs /\ fs.dropped \in SUBSET Objs
    BY <1>1, <1>2 DEF FS
  <1>4. CASE EnvCreate(n, o)
    <2>. DEFINE U == fs.unborn \ {o}
                D == fs.dropped \cup ({fs.at[n]} \ {None})
    <2>1. fs' = Updated(fs, n, o, U, D, fs.retired) /\ disk' = disk \cup {fs'} /\ o \in fs.unborn
      BY <1>1, <1>4 DEF EnvCreate, Put, Updated, FS
    <2>2. U \in SUBSET Objs /\ D \in SUBSET Objs /\ U = fs.unborn \ {o}
          /\ fs.dropped \subseteq D /\ (fs.at[n] # None => fs.at[n] \in D)
      BY <1>3
    <2>. HIDE DEF U, D
    <2>. QED  BY <1>1, <2>1, <2>2, NameChange
  <1>5. CASE EnvUnlink(n)
    <2>. DEFINE D == fs.dropped \cup {fs.at[n]}
                U == fs.unborn
                N == None
    <2>1. fs' = Updated(fs, n, N, U, D, fs.retired) /\ disk' = disk \cup {fs'}
      BY <1>1, <1>5 DEF EnvUnlink, Put, Updated, FS
    <2>3. U \in SUBSET Objs /\ N \in Objs \cup {None} /\ N = None /\ U = fs.unborn
      BY <1>3
    <2>2. D \in SUBSET Objs /\ fs.dropped \subseteq D /\ fs.at[n] \in D
      BY <1>3, <1>5 DEF EnvUnlink
    <2>4. (N = None /\ U = fs.unborn) \/ (N \in fs.unborn /\ U = fs.unborn \ {N})
      OBVIOUS
    <2>. HIDE DEF D, U, N
    <2>5. Foreign(fs, Updated(fs, n, N, U, D, fs.retired))
      BY <1>1, <2>2, <2>3, <2>4, NameChange
    <2>. QED  BY <2>1, <2>5
  <1>6. CASE EnvRename(n, m)
    <2>1. fs' = Move(fs, n, m) /\ disk' = disk \cup {fs'} /\ fs.at[m] = None /\ n # m
      BY <1>6 DEF EnvRename, Put
    <2>2. Renamed(fs, fs', n, m)
      BY <1>1, <1>2, <2>1, MoveFS
    <2>3. \A e \in E : fs'.at[e] = fs.at[e]
      BY <1>2, <2>2, EntryFacts DEF Renamed
    <2>4. Accounted(fs') /\ Distinct(fs')
      BY <1>1, <1>2, <2>1, <2>2, MoveObjs DEF Renamed, Sound
    <2>. QED  BY <2>1, <2>2, <2>3, <2>4 DEF Renamed, SameObjs, Foreign
  <1>. QED  BY <1>4, <1>5, <1>6

LEMMA EnvRec ==
    ASSUME RInv, IInv', Env
    PROVE  RInv'
  <1>1. ~ Quiet' /\ ps' = ps
    BY DEF Env, Spend, Quiet, RInv, IInv, TypeOK, Budget
  <1>2. fs \in disk /\ fs \in FS /\ Sound(fs)
    BY Parts DEF RInv, FSPart, FSOK, FilesInv
  <1>3. disk' \subseteq disk \cup {fs'} /\ (fs' = fs \/ Foreign(fs, fs'))
    <2>1. ASSUME NEW n \in EnvSlots, NEW o \in Objs, EnvCreate(n, o)
          PROVE  Foreign(fs, fs') /\ disk' = disk \cup {fs'}
      BY <2>1, EnvForeign
    <2>2. ASSUME NEW n \in EnvSlots, NEW m \in EnvSlots, EnvUnlink(n) \/ EnvRename(n, m)
          PROVE  Foreign(fs, fs') /\ disk' = disk \cup {fs'}
      <3>1. n \in Slot /\ fs.at[n] # None
        BY <2>2, SlotFacts DEF EnvSlots, EnvUnlink, EnvRename
      <3>2. fs.at[n] \in Objs
        BY <1>2, <3>1, FSFields
      <3>. QED  BY <2>2, <3>2, EnvForeign
    <2>. QED  BY <2>1, <2>2 DEF Env
  <1>4. CASE fs' = fs
    <2>1. FilesInv'
      BY <1>1, <1>2, <1>3, <1>4 DEF RInv, FilesInv
    <2>2. OwnerInv' /\ AckInv'
      BY <1>1, <1>2, <1>3, <1>4 DEF RInv, OwnerInv, AckInv
    <2>. QED  BY <2>1, <2>2 DEF RInv
  <1>5. CASE Foreign(fs, fs')
    <2>1. Housed(fs') /\ Kept(fs') /\ Named(fs')
      BY <1>2, <1>5, SameEntries DEF Sound, Foreign
    <2>2. FilesInv'
      BY <1>1, <1>3, <1>5, <2>1 DEF RInv, FilesInv, Sound, Foreign
    <2>3. OwnerInv'
      BY <1>1, <1>5, NamesApart DEF OwnerInv, Foreign
    <2>4. AckInv'
      BY <1>1, <1>2, <1>3, <1>5 DEF RInv, AckInv, Foreign
    <2>. QED  BY <2>2, <2>3, <2>4 DEF RInv
  <1>. QED  BY <1>3, <1>4, <1>5

\* No process runs: nothing is owned, nothing acknowledged.
LEMMA NobodyRuns ==
    ps = [p \in Procs |-> Idle] => OwnerInv /\ AckInv
  <1>. SUFFICES ASSUME ps = [p \in Procs |-> Idle] PROVE OwnerInv /\ AckInv
    OBVIOUS
  <1>1. \A p \in Procs : ps[p] = Idle
    OBVIOUS
  <1>2. Idle.owner = None /\ Idle.verdict = "none" /\ Idle.pc = "idle" /\ ~ Idle.removed
    BY DEF Idle
  <1>3. \A p \in Procs : Idle.owner # p
    BY <1>2, SlotFacts
  <1>. QED  BY <1>1, <1>2, <1>3 DEF OwnerInv, AckInv, Acknowledges

LEMMA PowerLossRec ==
    ASSUME RInv, IInv', PowerLoss
    PROVE  RInv'
  <1>1. PICK f \in disk : fs' = Tear(f)
    BY DEF PowerLoss
  <1>2. f \in FS /\ Sound(f) /\ (Quiet => Back(f)) /\ (Quiet' => Quiet)
    BY <1>1, Parts, SpendQuiet DEF PowerLoss, RInv, FSPart, FSOK, FilesInv
  <1>3. disk' = {fs'}
    BY DEF PowerLoss
  <1>4. FilesInv'
    BY <1>1, <1>2, <1>3, TearSound DEF FilesInv
  <1>5. OwnerInv' /\ AckInv'
    <2>1. ps' = [p \in Procs |-> Idle]
      BY DEF PowerLoss
    <2>2. (ps = [p \in Procs |-> Idle] => OwnerInv /\ AckInv)'
      BY NobodyRuns, PTL
    <2>. QED  BY <2>1, <2>2
  <1>. QED  BY <1>4, <1>5 DEF RInv

LEMMA InitSound == Init => Sound(fs) /\ Captured(fs) = {}
  <1>. SUFFICES ASSUME Init PROVE Sound(fs) /\ Captured(fs) = {}
    OBVIOUS
  <1>1. PICK at0 \in [EnvSlots \cup LegacySlots -> Objs \cup {None}], old \in [LegacySlots -> Names] :
          /\ \A a, b \in DOMAIN at0 : at0[a] = at0[b] /\ a # b => at0[a] = None
          /\ fs = [at |-> [x \in Slot |-> IF x \in DOMAIN at0 THEN at0[x] ELSE None],
                  dirs |-> Legacy,
                  hdr |-> [s \in Sess |-> IF s \in Legacy THEN [st |-> "pub", data |-> "durable"]
                                                          ELSE NoFile],
                  rec |-> [e \in E |-> IF e \in LegacySlots
                                       THEN [st |-> IF at0[e] = None THEN "pend" ELSE "pub",
                                             data |-> "durable"]
                                       ELSE NoFile],
                  intent |-> [e \in E |-> IF e \in LegacySlots
                                          THEN [NoIntent EXCEPT !.name = old[e]] ELSE NoIntent],
                  unborn |-> Objs \ {at0[x] : x \in DOMAIN at0},
                  dropped |-> {}, retired |-> {}, displaced |-> {}]
    BY Zenon DEF Init
  <1>. DEFINE D == EnvSlots \cup LegacySlots
  <1>2. /\ \A x \in Slot : fs.at[x] = IF x \in D THEN at0[x] ELSE None
        /\ \A x \in D : at0[x] \in Objs \cup {None}
        /\ \A a, b \in D : at0[a] = at0[b] /\ a # b => at0[a] = None
        /\ fs.dirs = Legacy /\ fs.retired = {}
        /\ fs.unborn = Objs \ {at0[x] : x \in D}
    BY <1>1, Zenon
  <1>3. /\ \A s \in Legacy : fs.hdr[s] = [st |-> "pub", data |-> "durable"]
        /\ \A e \in E : fs.rec[e] = IF e \in LegacySlots
                                    THEN [st |-> IF at0[e] = None THEN "pend" ELSE "pub", data |-> "durable"]
                                    ELSE NoFile
        /\ \A e \in E : e \in LegacySlots => fs.intent[e] = [NoIntent EXCEPT !.name = old[e]]
        /\ \A e \in LegacySlots : old[e] \in Names
    BY <1>1, SlotFacts
  <1>4. /\ LegacySlots \subseteq E /\ D \subseteq Slot /\ EnvSlots \cap E = {}
        /\ \A e \in LegacySlots : SessionOf(e) \in Legacy
    BY SlotAssumption DEF LegacySlots, E, D, EnvSlots, Slot, SessionOf
  <1>5. NoFile.st = "none" /\ NoIntent.kind = "retire"
        /\ \A n : [NoIntent EXCEPT !.name = n].name = n /\ [NoIntent EXCEPT !.name = n].kind = "retire"
    BY DEF NoFile, NoIntent
  <1>. HIDE DEF D
  <1>6. Accounted(fs)
    <2>1. ASSUME NEW o \in Objs, NEW x \in D, at0[x] = o PROVE o \in Located(fs)
      <3>1. x \in Slot /\ fs.at[x] = o /\ o # None
        BY <1>2, <1>4, <2>1, SlotAssumption
      <3>. QED  BY <3>1 DEF Located
    <2>. QED  BY <1>2, <2>1 DEF Accounted
  <1>7. Distinct(fs)
    BY <1>2 DEF Distinct
  <1>8. \A e \in E : fs.at[e] # None \/ fs.rec[e].st # "none" => e \in LegacySlots
    <2>. SUFFICES ASSUME NEW e \in E, fs.at[e] # None \/ fs.rec[e].st # "none", e \notin LegacySlots
                  PROVE FALSE
      OBVIOUS
    <2>1. e \in Slot /\ e \notin D
      BY <1>4, SlotFacts DEF D
    <2>. QED  BY <1>2, <1>3, <1>5, <2>1
  <1>9. \A e \in LegacySlots : fs.at[e] = at0[e]
    BY <1>2, <1>4, SlotFacts DEF D
  <1>10. Housed(fs)
    BY <1>2, <1>4, <1>8 DEF Housed
  <1>11. Kept(fs)
    BY <1>2, <1>3, <1>4, <1>8, <1>9 DEF Kept, Recorded
  <1>12. Captured(fs) = {}
    BY <1>4, <1>8 DEF Captured
  <1>13. Named(fs)
    <2>1. ASSUME NEW e \in LegacySlots PROVE fs.intent[e].name \in Names
      <3>1. fs.intent[e] = [NoIntent EXCEPT !.name = old[e]] /\ old[e] \in Names
        BY <1>3, <1>4
      <3>. QED  BY <1>5, <3>1
    <2>. QED  BY <1>8, <1>12, <2>1, SlotFacts DEF Named
  <1>. QED  BY <1>6, <1>7, <1>10, <1>11, <1>12, <1>13 DEF Sound

LEMMA InitRec == Init => RInv
  <1>. SUFFICES ASSUME Init PROVE RInv
    OBVIOUS
  <1>1. FilesInv
    BY InitSound DEF Init, FilesInv, Back
  <1>2. OwnerInv /\ AckInv
    BY NobodyRuns DEF Init
  <1>. QED  BY <1>1, <1>2, InitInvariant DEF RInv
-----------------------------------------------------------------------------
(* The theorems.                                                           *)

LEMMA SessionRec ==
    ASSUME RInv, IInv', NEW p \in Procs, Session(p)
    PROVE  RInv'
  <1>1. CASE \E c \in BOOLEAN : Start(p, c)
    BY <1>1, StartRec
  <1>2. CASE \E s \in Sess : RecoverEnter(p, s) \/ MakeSession(p, s)
    BY <1>2, RecoverEnterRec, MakeSessionRec
  <1>3. CASE ScanDone(p) \/ HeaderWrite(p) \/ HeaderSync(p) \/ HeaderRename(p)
    BY <1>3, ScanDoneRec, HeaderRec
  <1>4. CASE \E e \in E : RecoverPending(p, e) \/ RecoverUnknown(p, e) \/ RecoverRecord(p, e)
    BY <1>4, RecoverPendingRec, EndingRec, RecoverRecordRec
  <1>5. CASE RecoverClear(p) \/ RemoveHeader(p) \/ RemoveDirectory(p) \/ Ended(p) \/ Drop(p)
    BY <1>5, RecoverClearRec, RemoveHeaderRec, RemoveDirectoryRec, EndedRec, EndingRec
  <1>6. CASE Sync(p)
    BY <1>6, EntrySyncRec, SessionSyncRec
  <1>7. CASE Fail(p) \/ \E c \in Procs : Fork(p, c)
    BY <1>7, FailRec, ForkRec
  <1>. QED  BY <1>1, <1>2, <1>3, <1>4, <1>5, <1>6, <1>7 DEF Session

LEMMA RemovalRec ==
    ASSUME RInv, IInv', NEW p \in Procs, Removal(p)
    PROVE  RInv'
  <1>1. CASE \E n \in Names : Remove(p, n) \/ RemoveAfterPublication(p, n)
    BY <1>1, RemoveRec
  <1>2. CASE RegisterStage(p) \/ StageCreate(p) \/ StagePublish(p) \/ StageDrop(p)
    BY <1>2, RegisterStageRec, StageCreateRec, StagePublishRec, StageDropRec
  <1>3. CASE Check(p) \/ WritePending(p) \/ SyncRecord(p) \/ PublishRecord(p) \/ Published(p)
    BY <1>3, CheckRec, WritePendingRec, RecordStepRec, PublishedRec
  <1>4. CASE Exchange(p) \/ RenameExchange(p) \/ ExchangeCheck(p) \/ PreCapture(p) \/ Capture(p)
    BY <1>4, ExchangeRec, RenameExchangeRec, ExchangeCheckRec, PreCaptureRec, CaptureRec
  <1>5. CASE Verify(p) \/ PreUnlink(p) \/ Unlink(p) \/ ClearRecord(p)
    BY <1>5, VerifyRec, PreUnlinkRec, UnlinkRec, ClearRecordRec
  <1>6. CASE Restore(p) \/ Failed(p) \/ Settle(p)
    BY <1>6, RestoreRec, FailedRec, SettleRec
  <1>. QED  BY <1>1, <1>2, <1>3, <1>4, <1>5, <1>6 DEF Removal

LEMMA NextRec == RInv /\ [Next]_vars => RInv'
  <1>. SUFFICES ASSUME RInv, [Next]_vars PROVE RInv'
    OBVIOUS
  <1>1. IInv'
    BY NextInvariant DEF RInv
  <1>2. ASSUME NEW p \in Procs, Session(p) \/ Removal(p) \/ Kill(p) PROVE RInv'
    BY <1>1, <1>2, SessionRec, RemovalRec, KillRec
  <1>3. CASE Env \/ PowerLoss
    BY <1>1, <1>3, EnvRec, PowerLossRec
  <1>4. CASE UNCHANGED vars
    <2>1. FilesInv' /\ OwnerInv' /\ AckInv'
      BY <1>4 DEF vars, RInv, FilesInv, OwnerInv, AckInv, Quiet, Expected
    <2>. QED  BY <1>1, <2>1 DEF RInv
  <1>. QED  BY <1>2, <1>3, <1>4 DEF Next

\* The inductive invariant of recovery: what every exposable file system state
\* satisfies by itself (each object accounted for, in one place; each capture
\* in a listed session under a published record), what the owner knows of the
\* current state at each program counter, what an acknowledgement stands for.
THEOREM RecoveryInductive == Spec => []RInv
  BY InitRec, NextRec, PTL DEF Spec

\* remove_with_publication, recover and the transfer's Stage never lose an
\* object: whatever fails, crashes or interferes, and however often, each
\* object is in every file system state a power loss can expose at some name,
\* or its owner removed it, or the journal was asked to retire it.
THEOREM Preserved == Spec => []NothingLost
  <1>1. RInv => NothingLost
    BY DEF RInv, FilesInv, Sound, Accounted, NothingLost
  <1>. QED  BY <1>1, RecoveryInductive, PTL

\* Whatever the crash, a capture sits in a listed session under a published,
\* durable record and a valid header (intent before capture, capture before the
\* record goes); without interference it is the recorded object and its name
\* is free, so recover_directory can put it back.
THEOREM AlwaysRecoverable == Spec => []Recoverable
  <1>1. RInv => Recoverable
    <2>. SUFFICES ASSUME RInv PROVE Recoverable
      OBVIOUS
    <2>1. CapturesRecorded
      BY DEF RInv, FilesInv, Sound, Kept, CapturesRecorded
    <2>2. ASSUME budget.env = MaxEnv, NEW f \in disk, NEW e \in E,
                 f.at[e] # None, f.intent[e].kind # "stage", SessionOf(e) \notin Legacy,
                 f.at[e] \notin f.displaced
          PROVE  f.at[e] = f.intent[e].expect /\ f.at[f.intent[e].name] = None
      <3>1. e \in Captured(f)
        BY <2>2 DEF Captured
      <3>2. Sound(f) /\ Back(f)
        BY <2>2 DEF RInv, FilesInv, Quiet
      <3>3. f.intent[e].name \in Names
        BY <2>2, <3>1, <3>2 DEF Sound, Named, Origin
      <3>. QED  BY <3>1, <3>2, <3>3 DEF Back
    <2>. QED  BY <2>1, <2>2 DEF Recoverable
  <1>. QED  BY <1>1, RecoveryInductive, PTL

\* The `removed` flag of the error and of the verdict tells the truth about the
\* expected object, a session between calls admits to the records it left, and
\* a removal reported as done is in every state a crash can expose.
THEOREM Truthful == Spec => []TruthfulReport
  <1>1. RInv => TruthfulReport
    <2>. SUFFICES ASSUME RInv PROVE TruthfulReport
      OBVIOUS
    <2>1. \A f \in disk : Acked \subseteq f.retired
      BY DEF RInv, AckInv, Acked, Acknowledges
    <2>2. ASSUME NEW p \in Procs, At(p, "ready"), RequireOwner(p)
          PROVE  /\ ps[p].verdict # "none" /\ ps[p].intent.expect # None
                    => (ps[p].removed <=> ps[p].intent.expect \in fs.retired)
                 /\ (\E e \in Entries(ps[p].s) : fs.rec[e].st # "none") => ps[p].recoveryRequired
      <3>1. ps[p].owner = p /\ ps[p].pc = "ready"
        BY <2>2 DEF At, RequireOwner
      <3>2. Flagged(ps[p], fs) /\ Entry(ps[p]) /\ Told(ps[p], fs)
        BY <3>1, OwnerFacts DEF OwnerOK
      <3>3. Pending(ps[p]) = {}
        BY <3>1 DEF Pending, EntryPcs, RetirePcs, ExchangePcs, StagePcs
      <3>4. (\E e \in Entries(ps[p].s) : fs.rec[e].st # "none") => ps[p].recoveryRequired
        BY <3>1, <3>2, <3>3 DEF Told, Entries, HeaderPcs
      <3>. QED  BY <3>2, <3>4 DEF Flagged, Entry
    <2>. QED  BY <2>1, <2>2 DEF TruthfulReport
  <1>. QED  BY <1>1, RecoveryInductive, PTL
=============================================================================
