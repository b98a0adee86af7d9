------------------------------- MODULE DirEnv -------------------------------
(***************************************************************************)
(* denv, the directory environments of ish (src/denv.rs): trust in .envrc  *)
(* and .env files, the layer of variables a project puts over the shell's  *)
(* own, and the record on disk from which the layer is taken off again.    *)
(*                                                                         *)
(* Several shells share the data directory: trust entries and one active   *)
(* record per shell.  Other programs edit the files at any time.  A shell  *)
(* may be killed anywhere; every access to the data directory may fail.    *)
(***************************************************************************)
EXTENDS EnvEval, FiniteSets, SequencesExt

CONSTANTS
    Processes(_),        \* <<pid, pid namespace>>: what process a shell may be
    Dirs, PathUp,        \* PathUp[d]: d and its ancestors, nearest first
    Slots,               \* the <<directory, kind>> where a file may be
    Setups,              \* what there is at the start, see Init
    Bodies(_),           \* contents a file of a kind may have
    Effect(_),           \* what a body does to each name: a value, or Leave, Drop
    UsesBash(_),         \* whether the first line of a body mentions bash
    IsText(_),           \* whether a .env body is text
    Names, Values,       \* the variables, and the values users and projects give them
    Typed,               \* the values users give them
    None,                \* no file, no entry, no record, no value
    Malformed, Refused   \* a record that cannot be read, changes that are refused

Kinds == {"envrc", "dotenv"}
Leave == "leave"
Drop  == "drop"

ASSUME EffectAssumption ==
    \A k \in Kinds : \A b \in Bodies(k) : \A n \in Names :
        Effect(b)[n] \in Values \cup {Leave, Drop}

ASSUME PathAssumption ==
    PathUp \in [Dirs -> Seq(Dirs)] /\ Slots \subseteq Dirs \X Kinds

ASSUME SetupAssumption ==
    \A setup \in Setups :
        /\ DOMAIN setup.legacy = Slots
        /\ \A slot \in Slots : {setup.body[slot], setup.legacy[slot]} \subseteq Bodies(slot[2]) \cup {None}

VARIABLES
    file,      \* the file in each slot: body and modification second, or None
    trust,     \* its trust entries: the file under the path's key, whose content
               \* is a body's, torn or no file, the shells that have that file
               \* open, and the legacy entry
    disk,      \* the active record of each shell, or None
    temps,     \* the shells with a temporary record left
    sh,        \* each shell: process, cwd, variables and session
    op,        \* the denv operation each shell is executing
    decided,   \* history: the decisions that stand in each slot, see Allowed
    left       \* the bounds: the commands, edits and faults still to come

vars == <<file, trust, disk, temps, sh, op, decided, left, ev>>

-----------------------------------------------------------------------------
(* Variables (crates/epsh/src/var.rs).  A binding without a value may      *)
(* still be declared and exported.                                         *)

Unset == [val |-> None, bound |-> FALSE, exported |-> FALSE, readonly |-> FALSE]

SetBytes(v, n, x)  == [v EXCEPT ![n].val = x, ![n].bound = TRUE]
Export(v, n)       == [v EXCEPT ![n].exported = TRUE, ![n].bound = TRUE]
Unexport(v, n)     == [v EXCEPT ![n].exported = FALSE]
Declare(v, n)      == [v EXCEPT ![n].bound = TRUE]
Environment(v)     == {n \in Names : v[n].exported /\ v[n].val # None}
FromEnvironment(v) == [n \in Names |-> IF n \in Environment(v)
                                       THEN [v[n] EXCEPT !.readonly = FALSE]
                                       ELSE Unset]

(***************************************************************************)
(* Changes give some names a new binding; one readonly name among them     *)
(* refuses them all.                                                       *)
(***************************************************************************)
ApplyChanges(v, changes) ==
    IF \E n \in DOMAIN changes : v[n].readonly THEN Refused
    ELSE [n \in Names |-> IF n \in DOMAIN changes THEN changes[n] ELSE v[n]]

(***************************************************************************)
(* What was there before the layer, and the changes that bring it back: a  *)
(* value is set, which exports it, and then unexported if it was local; a  *)
(* name that was only declared is unset and declared again.                *)
(***************************************************************************)
Saved ==
    [kind : {"unset"}] \cup [kind : {"unassigned"}, exported : BOOLEAN]
      \cup [kind : {"restore"}, val : Values \cup Typed, exported : BOOLEAN]

CapturePrev(touched, v) ==
    [n \in touched |-> IF ~v[n].bound THEN [kind |-> "unset"]
                       ELSE IF v[n].val = None THEN [kind |-> "unassigned", exported |-> v[n].exported]
                       ELSE [kind |-> "restore", val |-> v[n].val, exported |-> v[n].exported]]

ApplyRestore(prev, v) ==
    [n \in DOMAIN prev |->
        CASE prev[n].kind = "unset"      -> Unset
          [] prev[n].kind = "unassigned" ->
                IF prev[n].exported THEN Export([v EXCEPT ![n] = Unset], n)[n]
                                    ELSE Declare([v EXCEPT ![n] = Unset], n)[n]
          [] prev[n].kind = "restore"    ->
                LET set == Export(SetBytes(v, n, prev[n].val), n)
                IN  IF prev[n].exported THEN set[n] ELSE Unexport(set, n)[n]]

\* What stands for nothing is no content and no record.
ASSUME NoneAssumption ==
    /\ None # "torn" /\ \A k \in Kinds : {None, "torn"} \cap Bodies(k) = {}
    /\ None \notin [dir : Dirs, mtime : [Kinds -> Nat],
                    prev : UNION {[T -> Saved] : T \in SUBSET Names}]

-----------------------------------------------------------------------------
(* Files and trust. *)

Present(d) == {k \in Kinds : <<d, k>> \in Slots /\ file[<<d, k>>] # None}

FindEnvFiles(start) ==
    LET hits == {i \in DOMAIN PathUp[start] : Present(PathUp[start][i]) # {}}
        dir  == PathUp[start][CHOOSE i \in hits : \A j \in hits : i <= j]
    IN  IF hits = {} THEN None
        ELSE [dir |-> dir,
              mtime |-> [k \in Kinds |-> IF k \in Present(dir) THEN file[<<dir, k>>].mtime ELSE 0],
              kinds |-> Present(dir)]

(***************************************************************************)
(* The entry under the path's key counts; the legacy entry counts only     *)
(* when there is none.                                                     *)
(***************************************************************************)
Stored(slot) == IF trust[slot].key # None THEN trust[slot].key ELSE trust[slot].legacy

(***************************************************************************)
(* What the user decided.  stand: the bodies whose allow came to its end   *)
(* and that no later decision replaced; an allow replaces those that were  *)
(* complete when it opened the entry.  since: what was allowed since each  *)
(* shell opened the entry it is writing.  A deny replaces everything.      *)
(***************************************************************************)
Opened(d, s) == [d EXCEPT !.since[s] = {}]

Allowed(d, s, body) ==
    [stand |-> d.since[s] \cup {body},
     since |-> [t \in Shells |-> IF t = s THEN {} ELSE d.since[t] \cup {body}]]

Standing(bodies) == [stand |-> bodies, since |-> [t \in Shells |-> {}]]

(***************************************************************************)
(* __DENV_STATE, an exported variable, names the times and the directory   *)
(* of the layer that is loaded.                                            *)
(***************************************************************************)
StateVarMatches(found, mark) ==
    mark.state # None /\ mark.state.mtime = found.mtime /\ mark.state.dir = found.dir

ActiveMatches(found, active) ==
    active # None /\ active.mtime = found.mtime /\ active.dir = found.dir

NoMark == [state |-> None, dirty |-> FALSE]

-----------------------------------------------------------------------------
(* The difference a layer makes to the environment.                        *)

LoadDotenvEntries(bodies) ==
    IF "dotenv" \in DOMAIN bodies THEN Effect(bodies["dotenv"]) ELSE [n \in Names |-> Leave]

After(bodies, env, n) ==
    LET in(k) == k \in DOMAIN bodies /\ Effect(bodies[k])[n] # Leave
    IN  IF in("dotenv") THEN LoadDotenvEntries(bodies)[n]
        ELSE IF in("envrc") THEN Effect(bodies["envrc"])[n]
        ELSE IF n \in Environment(env) THEN env[n].val ELSE Drop

Before(env, n) == IF n \in Environment(env) THEN env[n].val ELSE Drop

DiffSortedEnv(bodies, env) == {n \in Names : After(bodies, env, n) # Before(env, n)}

ApplyDiff(bodies, env) ==
    [n \in DiffSortedEnv(bodies, env) |->
        IF After(bodies, env, n) = Drop THEN Unset
        ELSE Export(SetBytes(env, n, After(bodies, env, n)), n)[n]]

-----------------------------------------------------------------------------
(* A shell's operation.  Idle means it reads a command line.               *)

Idle == [pc |-> "idle"]
Unborn == [up |-> FALSE, pid |-> None, ns |-> None]

Go(s, pc)       == op' = [op EXCEPT ![s].pc = pc]
Return(s)       == op' = [op EXCEPT ![s] = Idle]
Refresh(force)  == [pc |-> "load", force |-> force]
Ready(s)        == sh[s].up /\ op[s].pc = "idle"

MayFail == left.faults > 0
Fail    == left' = [left EXCEPT !.faults = @ - 1]
Command(kind) ==
    kind \in left.may /\ left.commands > 0 /\ left' = [left EXCEPT !.commands = @ - 1]

(***************************************************************************)
(* A shell starts, from a login or from a shell inside a project, whose    *)
(* exported variables it inherits, __DENV_STATE too.  Its record is named  *)
(* by its pid, its pid namespace and a random token.                       *)
(***************************************************************************)
AliveIn(pid, ns) == \E t \in Shells : sh[t].up /\ sh[t].pid = pid /\ sh[t].ns = ns

Parents == {t \in Shells : Ready(t)}

Login == [vars |-> [n \in Names |-> Unset], mark |-> NoMark]

Inherited == {Login} \cup {[vars |-> FromEnvironment(sh[t].vars), mark |-> sh[t].mark] : t \in Parents}

InitSession(s) ==
    /\ sh[s] = Unborn
    /\ \E p \in Processes(s), d \in Dirs, from \in Inherited :
          /\ <<s, p, d>> \in left.starts
          /\ ~AliveIn(p[1], p[2])
          /\ sh' = [sh EXCEPT ![s] = [up |-> TRUE, pid |-> p[1], ns |-> p[2], cwd |-> d,
                        vars |-> from.vars, base |-> from.vars, mark |-> from.mark,
                        active |-> None, loaded |-> FALSE]]
    /\ op' = [op EXCEPT ![s] = [pc |-> "clean", force |-> FALSE, todo |->
                 {<<"rec", t>> : t \in {t \in Shells : disk[t] # None}}
                 \cup {<<"tmp", t>> : t \in temps}]]
    /\ UNCHANGED <<file, trust, disk, temps, decided, left, ev>>

(***************************************************************************)
(* The records of shells that run no more are removed, one after another.  *)
(* kill(pid, 0) asks about this shell's own pid namespace, so the records  *)
(* of another namespace are left alone; so is one whose pid is in use.     *)
(***************************************************************************)
SparedByPid(s, t) == AliveIn(sh[t].pid, sh[s].ns)

Spared(s, t) == sh[t].ns # sh[s].ns \/ AliveIn(sh[t].pid, sh[s].ns)

RemoveDeadShellRecord(s) ==
    /\ op[s].pc = "clean"
    /\ \E e \in op[s].todo :
          \/ /\ op' = [op EXCEPT ![s].todo = @ \ {e}]
             /\ disk' = IF e[1] = "rec" /\ ~Spared(s, e[2])
                        THEN [disk EXCEPT ![e[2]] = None] ELSE disk
             /\ temps' = IF e[1] = "tmp" /\ ~Spared(s, e[2]) THEN temps \ {e[2]} ELSE temps
             /\ UNCHANGED left
          \/ /\ MayFail /\ Fail                       \* reported, and the rest is kept
             /\ op' = [op EXCEPT ![s].todo = {}]
             /\ UNCHANGED <<disk, temps>>
    /\ UNCHANGED <<file, trust, sh, decided, ev>>

OnStartup(s) ==
    /\ op[s].pc = "clean" /\ op[s].todo = {}
    /\ op' = [op EXCEPT ![s] = Refresh(FALSE)]
    /\ UNCHANGED <<file, trust, disk, temps, sh, decided, left, ev>>

(***************************************************************************)
(* exit, and a kill that leaves the record behind.                         *)
(***************************************************************************)
Dead(s) == [up |-> FALSE, pid |-> sh[s].pid, ns |-> sh[s].ns]

OnExit(s) ==
    /\ Ready(s)
    /\ \/ disk' = [disk EXCEPT ![s] = None] /\ UNCHANGED left
       \/ MayFail /\ Fail /\ UNCHANGED disk
    /\ sh' = [sh EXCEPT ![s] = Dead(s)]
    /\ UNCHANGED <<file, trust, temps, op, decided, ev>>

Killed(s) ==
    /\ sh[s].up
    /\ MayFail /\ Fail
    /\ sh' = [sh EXCEPT ![s] = Dead(s)]
    /\ op' = [op EXCEPT ![s] = Idle]
    /\ ev' = [ev EXCEPT ![s] = NoEval]
    /\ UNCHANGED <<file, trust, disk, temps, decided>>

-----------------------------------------------------------------------------
(* Commands. *)

Cd(s) ==
    /\ Ready(s) /\ Command("cd")
    /\ \E d \in Dirs :
          /\ sh' = [sh EXCEPT ![s].cwd = d]
          /\ op' = [op EXCEPT ![s] = Refresh(FALSE)]
    /\ UNCHANGED <<file, trust, disk, temps, decided, ev>>

Reload(s) ==
    /\ Ready(s) /\ Command("reload")
    /\ op' = [op EXCEPT ![s] = Refresh(TRUE)]
    /\ UNCHANGED <<file, trust, disk, temps, sh, decided, ev>>

(***************************************************************************)
(* The user assigns, unsets or protects a variable.  base, a history       *)
(* variable, is what each variable would be without the layer: a change to *)
(* a variable the layer holds is undone with the layer.                    *)
(***************************************************************************)
Managed(s) == IF sh[s].active = None THEN {} ELSE DOMAIN sh[s].active.prev

Assign(s) ==
    /\ Ready(s) /\ Command("assign")
    /\ \E n \in Names, x \in Typed :
          /\ ~sh[s].vars[n].readonly
          /\ \E to \in {SetBytes(sh[s].vars, n, x)[n], Export(sh[s].vars, n)[n], Unset,
                        [sh[s].vars[n] EXCEPT !.readonly = TRUE, !.bound = TRUE]} :
                sh' = [sh EXCEPT ![s].vars[n] = to,
                                 ![s].base[n] = IF n \in Managed(s) THEN @ ELSE to]
    /\ UNCHANGED <<file, trust, disk, temps, op, decided, ev>>

Entries(found) ==
    SelectSeq(<<<<found.dir, "envrc">>, <<found.dir, "dotenv">>>>,
              LAMBDA slot : slot[2] \in found.kinds)

(***************************************************************************)
(* allow reads each file found and writes its entry: opening creates the   *)
(* entry or empties it, and the write goes to the file that was opened,    *)
(* which another shell may have unlinked, or emptied and written, since.   *)
(* A write that fails may leave a part.  deny removes the legacy entry,    *)
(* then the other.  Either stops at the first error, and ends with a       *)
(* forced refresh.                                                         *)
(***************************************************************************)
Allow(s) ==
    /\ Ready(s) /\ Command("allow")
    /\ FindEnvFiles(sh[s].cwd) # None
    /\ op' = [op EXCEPT ![s] = [pc |-> "allow", body |-> None,
                 todo |-> Entries(FindEnvFiles(sh[s].cwd))]]
    /\ UNCHANGED <<file, trust, disk, temps, sh, decided, ev>>

WriteEntry(s, slot, content) ==
    IF s \in trust[slot].writers
    THEN trust' = [trust EXCEPT ![slot].key = content, ![slot].writers = @ \ {s}]
    ELSE UNCHANGED trust

AllowFile(s) ==
    /\ op[s].pc = "allow" /\ op[s].todo # <<>>
    /\ LET slot == Head(op[s].todo)  body == op[s].body IN
          \/ /\ body = None /\ file[slot] # None              \* read, open
             /\ trust' = [trust EXCEPT ![slot].key = "torn", ![slot].writers = @ \cup {s}]
             /\ decided' = [decided EXCEPT ![slot] = Opened(@, s)]
             /\ op' = [op EXCEPT ![s].body = file[slot].body]
             /\ UNCHANGED left
          \/ /\ body # None                                   \* write
             /\ WriteEntry(s, slot, body)
             /\ decided' = [decided EXCEPT ![slot] = Allowed(@, s, body)]
             /\ op' = [op EXCEPT ![s].body = None, ![s].todo = Tail(@)]
             /\ UNCHANGED left
          \/ /\ \/ file[slot] = None /\ body = None /\ UNCHANGED left
                \/ MayFail /\ Fail
             /\ UNCHANGED trust \/ (body # None /\ WriteEntry(s, slot, "torn"))
             /\ Return(s)
             /\ UNCHANGED decided
    /\ UNCHANGED <<file, disk, temps, sh, ev>>

Deny(s) ==
    /\ Ready(s) /\ Command("deny")
    /\ FindEnvFiles(sh[s].cwd) # None
    /\ op' = [op EXCEPT ![s] = [pc |-> "deny", at |-> 1,
                 todo |-> Entries(FindEnvFiles(sh[s].cwd))]]
    /\ UNCHANGED <<file, trust, disk, temps, sh, decided, ev>>

DenyOrderSwapped == <<"key", "legacy">>

DenyOrder == <<"legacy", "key">>

DenyFile(s) ==
    /\ op[s].pc = "deny" /\ op[s].todo # <<>>
    /\ LET slot == Head(op[s].todo)  last == op[s].at = Len(DenyOrder) IN
          \/ /\ trust' = [trust EXCEPT ![slot][DenyOrder[op[s].at]] = None,
                            ![slot].writers = IF DenyOrder[op[s].at] = "key" THEN {} ELSE @]
             /\ op' = [op EXCEPT ![s].at = IF last THEN 1 ELSE @ + 1,
                                 ![s].todo = IF last THEN Tail(@) ELSE @]
             /\ decided' = IF last THEN [decided EXCEPT ![slot] = Standing({})] ELSE decided
             /\ UNCHANGED left
          \/ /\ MayFail /\ Fail
             /\ Return(s)
             /\ UNCHANGED <<trust, decided>>
    /\ UNCHANGED <<file, disk, temps, sh, ev>>

Decided(s) ==
    /\ op[s].pc \in {"allow", "deny"} /\ op[s].todo = <<>>
    /\ op' = [op EXCEPT ![s] = Refresh(TRUE)]
    /\ UNCHANGED <<file, trust, disk, temps, sh, decided, left, ev>>

-----------------------------------------------------------------------------
(* refresh.  Any error returns with variables and session as they are.     *)

(***************************************************************************)
(* The first refresh looks for a record under this shell's own name; only  *)
(* damage can have put one there.  A forced refresh discards a malformed   *)
(* one, any other refresh stops.                                           *)
(***************************************************************************)
ParseActive(s) == disk[s]            \* None, or Malformed

LoadActive(s) ==
    /\ op[s].pc = "load"
    /\ \/ /\ sh[s].loaded \/ op[s].force \/ ParseActive(s) # Malformed
          /\ disk' = IF sh[s].loaded THEN disk ELSE [disk EXCEPT ![s] = None]
          /\ sh' = [sh EXCEPT ![s].loaded = TRUE]
          /\ Go(s, "find")
          /\ UNCHANGED left
       \/ /\ ~sh[s].loaded
          /\ IF ParseActive(s) = Malformed /\ ~op[s].force THEN UNCHANGED left
             ELSE MayFail /\ Fail
          /\ Return(s)
          /\ UNCHANGED <<disk, sh>>
    /\ UNCHANGED <<file, trust, temps, decided, ev>>

(***************************************************************************)
(* The nearest directory with a file, then the bytes of its files.  A file *)
(* that is gone meanwhile is an error.                                     *)
(***************************************************************************)
FindFiles(s) ==
    /\ op[s].pc = "find"
    /\ op' = [op EXCEPT ![s] = [pc |-> "read", force |-> op[s].force,
                                found |-> FindEnvFiles(sh[s].cwd)]]
    /\ UNCHANGED <<file, trust, disk, temps, sh, decided, left, ev>>

ReadTrustedCandidates(s) ==
    /\ op[s].pc = "read"
    /\ LET found == op[s].found
           Candidates(pc, bodies) ==
               [pc |-> pc, force |-> op[s].force, found |-> found, bodies |-> bodies,
                todo |-> DOMAIN bodies, at |-> "key", blocked |-> FALSE,
                grant |-> [k \in DOMAIN bodies |-> {}]]
       IN IF found = None
          THEN op' = [op EXCEPT ![s] = Candidates("check", <<>>)]
          ELSE IF \A k \in found.kinds : file[<<found.dir, k>>] # None
          THEN op' = [op EXCEPT ![s] = Candidates("trust",
                         [k \in found.kinds |-> file[<<found.dir, k>>].body])]
          ELSE Return(s)
    /\ UNCHANGED <<file, trust, disk, temps, sh, decided, left, ev>>

(***************************************************************************)
(* The .envrc is looked up first, then the .env; the first that is not     *)
(* allowed ends the search.  The key's entry is read, and the legacy entry *)
(* in a second access when there was none; an entry that cannot be read    *)
(* allows nothing.  grant is what stood when the key's entry was read.     *)
(***************************************************************************)
NextKind(todo) == IF "envrc" \in todo THEN "envrc" ELSE "dotenv"

IsAllowedIn(s) ==
    /\ op[s].pc = "trust"
    /\ LET o == op[s]
           k == NextKind(o.todo)
           slot == <<o.found.dir, k>>
           entry == trust[slot][o.at]
           grant == IF o.at = "key" THEN decided[slot].stand ELSE o.grant[k]
       IN \/ /\ o.at = "key" /\ entry = None
             /\ op' = [op EXCEPT ![s].at = "legacy", ![s].grant[k] = grant]
             /\ UNCHANGED left
          \/ /\ entry = o.bodies[k]
             /\ op' = [op EXCEPT ![s].at = "key", ![s].todo = @ \ {k}, ![s].grant[k] = grant,
                                 ![s].pc = IF o.todo = {k} THEN "check" ELSE "trust"]
             /\ UNCHANGED left
          \/ /\ \/ entry # o.bodies[k] /\ (entry # None \/ o.at = "legacy") /\ UNCHANGED left
                \/ MayFail /\ Fail
             /\ op' = [op EXCEPT ![s].pc = "check", ![s].blocked = TRUE]
    /\ UNCHANGED <<file, trust, disk, temps, sh, decided, ev>>

(***************************************************************************)
(* What the refresh will do.  A layer that is already loaded is kept; else *)
(* the one that is loaded comes off first, in a copy of the variables.     *)
(***************************************************************************)
BadDotenv(bodies) == "dotenv" \in DOMAIN bodies /\ ~IsText(bodies["dotenv"])

Keeps(s) ==
    LET o == op[s] IN
        /\ ~o.force
        /\ o.found # None
        /\ ~o.blocked
        /\ StateVarMatches(o.found, sh[s].mark) \/ ActiveMatches(o.found, sh[s].active)

Working(s) ==
    IF sh[s].active = None THEN sh[s].vars
    ELSE ApplyChanges(sh[s].vars, ApplyRestore(sh[s].active.prev, sh[s].vars))

Outcome(pc, record, to, mark) == [pc |-> pc, record |-> record, to |-> to, mark |-> mark]

EvalEnv(s, bodies) ==
    CASE "envrc" \notin DOMAIN bodies -> [phase |-> "plain"]
      [] "envrc" \in DOMAIN bodies /\ s \notin left.stepwise -> [phase |-> "whole"]
      [] "envrc" \in DOMAIN bodies /\ s \in left.stepwise /\ UsesBash(bodies["envrc"]) -> StartBash
      [] OTHER -> StartEpsh

DirtyMark == [state |-> None, dirty |-> TRUE]

CheckTrust(s) ==
    /\ op[s].pc = "check"
    /\ LET o == op[s]  w == Working(s)
           error == (~o.blocked /\ BadDotenv(o.bodies)) \/ (~Keeps(s) /\ w = Refused) IN
          CASE error \/ Keeps(s) ->
                 Return(s) /\ UNCHANGED ev
            [] ~error /\ ~Keeps(s) /\ (o.found = None \/ o.blocked) ->
                 /\ op' = [op EXCEPT ![s] = Outcome("clear", None, w,
                                              IF o.blocked THEN DirtyMark ELSE NoMark)]
                 /\ UNCHANGED ev
            [] OTHER ->
                 /\ op' = [op EXCEPT ![s] = [pc |-> "eval", found |-> o.found,
                                             bodies |-> o.bodies, grant |-> o.grant]]
                 /\ ev' = [ev EXCEPT ![s] = EvalEnv(s, o.bodies)]
    /\ UNCHANGED <<file, trust, disk, temps, sh, decided, left>>

(***************************************************************************)
(* A failed evaluation takes the old layer off and marks the project; a    *)
(* successful one saves what its layer covers before it is put on.         *)
(***************************************************************************)
Layer(s) ==
    LET o == op[s]  w == Working(s)
        to == ApplyChanges(w, ApplyDiff(o.bodies, w))
    IN  IF to = Refused THEN Idle
        ELSE Outcome("save", [dir |-> o.found.dir, mtime |-> o.found.mtime,
                              prev |-> CapturePrev(DiffSortedEnv(o.bodies, w), w)],
                     to, [state |-> [dir |-> o.found.dir, mtime |-> o.found.mtime],
                          dirty |-> FALSE])

Outcomes(e) == CASE e.phase = "done"  -> {e.out}
                 [] e.phase = "plain" -> {"ok"}
                 [] e.phase = "whole" -> {"ok", "error"}
                 [] OTHER             -> {}

Evaluated(s) ==
    /\ op[s].pc = "eval"
    /\ \E out \in Outcomes(ev[s]) :
          op' = [op EXCEPT ![s] = IF out = "error"
                                  THEN Outcome("clear", None, Working(s), DirtyMark)
                                  ELSE Layer(s)]
    /\ ev' = [ev EXCEPT ![s] = NoEval]
    /\ UNCHANGED <<file, trust, disk, temps, sh, decided, left>>

(***************************************************************************)
(* The record first, in a temporary file that is renamed, and then the     *)
(* variables.                                                              *)
(***************************************************************************)
Publish(s) ==
    sh' = [sh EXCEPT ![s].vars = op[s].to, ![s].mark = op[s].mark, ![s].active = op[s].record]

ClearActive(s) ==
    /\ op[s].pc = "clear"
    /\ \/ /\ disk' = [disk EXCEPT ![s] = None]
          /\ Publish(s)
          /\ UNCHANGED left
       \/ MayFail /\ Fail /\ UNCHANGED <<disk, sh>>
    /\ Return(s)
    /\ UNCHANGED <<file, trust, temps, decided, ev>>

SaveTemporary(s) ==
    /\ op[s].pc = "save"
    /\ \/ temps' = temps \cup {s} /\ Go(s, "rename") /\ UNCHANGED left
       \/ MayFail /\ Fail /\ Return(s) /\ UNCHANGED temps
    /\ UNCHANGED <<file, trust, disk, sh, decided, ev>>

SaveActive(s) ==
    /\ op[s].pc = "rename"
    /\ \/ /\ s \in temps
          /\ disk' = [disk EXCEPT ![s] = op[s].record]
          /\ Publish(s)
          /\ UNCHANGED left
       \/ MayFail /\ Fail /\ UNCHANGED <<disk, sh>>
    /\ temps' = temps \ {s}
    /\ Return(s)
    /\ UNCHANGED <<file, trust, decided, ev>>

-----------------------------------------------------------------------------
(* Another program edits or removes a file; two edits within a second      *)
(* leave the same modification time.  Damage makes a record unreadable.    *)

Edit(slot) ==
    /\ left.edits > 0
    /\ \/ \E b \in Bodies(slot[2]), later \in {0, 1} :
             file' = [file EXCEPT ![slot] = [body |-> b,
                        mtime |-> IF file[slot] = None THEN 1
                                  ELSE IF later = 1 THEN 3 - file[slot].mtime
                                  ELSE file[slot].mtime]]
       \/ file[slot] # None /\ file' = [file EXCEPT ![slot] = None]
    /\ left' = [left EXCEPT !.edits = @ - 1]
    /\ UNCHANGED <<trust, disk, temps, sh, op, decided, ev>>

Damage(s) ==
    /\ MayFail /\ Fail
    /\ sh[s].up /\ ~sh[s].loaded /\ disk[s] = None
    /\ disk' = [disk EXCEPT ![s] = Malformed]
    /\ UNCHANGED <<file, trust, temps, sh, op, decided, ev>>

-----------------------------------------------------------------------------
(***************************************************************************)
(* A setup gives the files and legacy trust entries, which commands users  *)
(* give, how many of them, of edits and of faults there are, where and as which process a shell may      *)
(* start, and the shells whose evaluations are followed step by step       *)
(* (EnvEval); the others' just have an outcome.                            *)
(***************************************************************************)
Init ==
    /\ \E setup \in Setups :
          /\ file = [slot \in Slots |-> IF setup.body[slot] = None THEN None
                                       ELSE [body |-> setup.body[slot], mtime |-> 1]]
          /\ trust = [slot \in Slots |-> [key |-> None, legacy |-> setup.legacy[slot],
                                          writers |-> {}]]
          /\ decided = [slot \in Slots |-> Standing({setup.legacy[slot]} \ {None})]
          /\ left = setup.left
    /\ disk = [s \in Shells |-> None]
    /\ temps = {}
    /\ sh = [s \in Shells |-> Unborn]
    /\ op = [s \in Shells |-> Idle]
    /\ ev = [s \in Shells |-> NoEval]

Elsewhere == <<file, trust, disk, temps, sh, op, decided, left>>

Step(s) ==
    \/ RemoveDeadShellRecord(s) \/ OnStartup(s) \/ AllowFile(s) \/ DenyFile(s) \/ Decided(s)
    \/ LoadActive(s) \/ FindFiles(s) \/ ReadTrustedCandidates(s) \/ IsAllowedIn(s) \/ CheckTrust(s)
    \/ EvalStep(s) /\ UNCHANGED Elsewhere
    \/ Evaluated(s) \/ ClearActive(s) \/ SaveTemporary(s) \/ SaveActive(s)

User(s) ==
    \/ InitSession(s) \/ Cd(s) \/ Reload(s) \/ Allow(s) \/ Deny(s) \/ Assign(s)
    \/ OnExit(s) \/ Killed(s) \/ Damage(s)

Next ==
    \/ \E s \in Shells : Step(s) \/ User(s) \/ (EvalEnvironment(s) /\ UNCHANGED Elsewhere)
    \/ \E slot \in Slots : Edit(slot)

Spec == Init /\ [][Next]_vars

(***************************************************************************)
(* The shells that execute an operation go on with it (their processes are *)
(* scheduled), and the 60 seconds of an evaluation pass.                   *)
(***************************************************************************)
FairSpec ==
    /\ Spec
    /\ WF_vars(\E s \in Shells : Step(s))
    /\ WF_vars(\E s \in Shells : TimeUp(s) /\ UNCHANGED Elsewhere)

-----------------------------------------------------------------------------
(***************************************************************************)
(* The layer comes off exactly.  Whatever fails, whoever is killed and     *)
(* whatever other shells clean up: a variable the layer does not cover is  *)
(* the user's own, what the session saved of a covered one is what the     *)
(* user had, value and export alike, and the record on disk is the same as *)
(* the session's (refresh, capture_prev, remove_dead_shell_records).       *)
(***************************************************************************)
LayerExact ==
    \A s \in Shells : sh[s].up =>
        /\ \A n \in Names \ Managed(s) : sh[s].vars[n] = sh[s].base[n]
        /\ sh[s].active # None => sh[s].active.prev = CapturePrev(Managed(s), sh[s].base)
        /\ sh[s].loaded => disk[s] = sh[s].active

(***************************************************************************)
(* Only bytes the user allowed are evaluated, whatever the shells decide   *)
(* at once and however files change, entries are half-written or removed   *)
(* and calls fail: what the store allows was allowed by a decision that    *)
(* none after it has replaced, nothing after a completed deny; and each    *)
(* file's bytes are ones whose decision stood when its entry was looked up *)
(* (read_trusted_candidate, is_allowed_in, allow_file_in, deny_file).      *)
(***************************************************************************)
TrustedOnly ==
    /\ \A slot \in Slots : Stored(slot) \in decided[slot].stand \cup {"torn", None}
    /\ \A s \in Shells : op[s].pc = "eval" =>
          \A k \in DOMAIN op[s].bodies : op[s].bodies[k] \in op[s].grant[k]

(***************************************************************************)
(* Every denv operation returns to the prompt, also when the .envrc never  *)
(* ends or leaves processes behind that hold its pipes.                    *)
(***************************************************************************)
OperationsReturn == \A s \in Shells : op[s].pc # "idle" ~> op[s].pc = "idle"
=============================================================================
