---------------------------- MODULE DirEnvProofs ----------------------------
(***************************************************************************)
(* CandidateWhole, TrustedOnly and LayerExact for any shells, directories, *)
(* files, bodies, variables and bounds.                                    *)
(***************************************************************************)
EXTENDS DirEnv, WellFoundedInduction, TLAPS

(* An evaluation. *)

Evals ==
    [phase : {"channel", "wait", "epsh", "done"}, leader : {"run", "zombie", "gone"},
     ok : BOOLEAN, kid : {"none", "holds", "quiet"}, wrote : SUBSET {"before", "after", "Z"},
     chan : Seq({"A", "Z"}), called : BOOLEAN, late : BOOLEAN, exited : BOOLEAN,
     open : SUBSET {"before", "after", "failure"}, observed : BOOLEAN,
     out : {"pending", "ok", "error"}, stopped : BOOLEAN]

\* A record on the failure channel is there until it is read; the channel is
\* closed only once the completion was seen and nothing can write any more.
RunningOK(e) ==
    /\ e.leader # "gone" /\ e.out = "pending" /\ ~ e.stopped
    /\ "Z" \in e.wrote => {"before", "after"} \subseteq e.wrote
    /\ e.observed => "Z" \in e.wrote
    /\ \A i \in 1 .. Len(e.chan) : e.chan[i] = "Z" => "Z" \in e.wrote
    /\ e.called => \E i \in 1 .. Len(e.chan) : e.chan[i] = "A"
    /\ "failure" \notin e.open => e.observed /\ ~ Held(e) /\ e.chan = <<>>

DoneOK(e) ==
    /\ e.leader = "gone"
    /\ e.stopped => e.kid = "none"
    /\ e.out = "ok" => /\ e.ok /\ ~ e.called /\ e.kid # "holds"
                       /\ {"before", "after"} \subseteq e.wrote

EvalOK(e) ==
    \/ e \in {[phase |-> "none"], [phase |-> "plain"], [phase |-> "whole"]}
    \/ /\ e \in Evals
       /\ e.phase \in {"channel", "wait"} => RunningOK(e)
       /\ e.phase = "epsh" => e.leader = "gone" /\ ~ e.stopped
       /\ e.phase = "done" => DoneOK(e)

EvalInv == DOMAIN ev = Shells /\ \A s \in Shells : EvalOK(ev[s])
-----------------------------------------------------------------------------
(* Trust. *)

Contents == [body : UNION {Bodies(k) : k \in Kinds}, mtime : {1, 2}]

FileInv ==
    /\ DOMAIN file = Slots
    /\ \A slot \in Slots : file[slot] # None =>
          file[slot] \in Contents /\ file[slot].body \in Bodies(slot[2])

\* What the store allows stands.
EntryOK(slot) ==
    /\ DOMAIN trust[slot] = {"key", "legacy", "writers"}
    /\ DOMAIN decided[slot] = {"stand", "since"} /\ DOMAIN decided[slot].since = Shells
    /\ Stored(slot) \in decided[slot].stand \cup {"torn", None}

\* The first removal of a deny is done when the second comes.  While a shell
\* writes an entry the store allows nothing that was replaced when it opened
\* the entry.  While a shell looks for a legacy entry, one that is there stood
\* when the key had none.
DecisionOK(s) ==
    /\ op[s].pc = "deny" =>
        /\ op[s].at \in {1, 2}
        /\ op[s].at = 2 /\ Head(op[s].todo) \in Slots => trust[Head(op[s].todo)].legacy = None
    /\ op[s].pc = "allow" /\ op[s].body # None =>
        \A slot \in Slots : slot = Head(op[s].todo) =>
            Stored(slot) \in decided[slot].since[s] \cup {"torn", None}
    /\ op[s].pc = "trust" /\ op[s].at = "legacy" =>
        \A k \in Kinds : k = NextKind(op[s].todo) /\ <<op[s].found.dir, k>> \in Slots =>
            trust[<<op[s].found.dir, k>>].legacy \in op[s].grant[k] \cup {"torn", None}

TrustInv ==
    /\ DOMAIN trust = Slots /\ DOMAIN decided = Slots
    /\ \A slot \in Slots : EntryOK(slot)
    /\ \A s \in Shells : DecisionOK(s)
-----------------------------------------------------------------------------
(* Operations. *)

FoundOK(f) ==
    /\ f.dir \in Dirs /\ f.mtime \in [Kinds -> Nat]
    /\ f.kinds # {} /\ \A k \in f.kinds : k \in Kinds /\ <<f.dir, k>> \in Slots

\* The bodies of a set of files stood when their entries were looked up.
Stood(o, kinds) == \A k \in kinds : o.bodies[k] \in o.grant[k]

BodiesOK(f, b) == b = [k \in f.kinds |-> b[k]] /\ \A k \in f.kinds : b[k] \in Bodies(k)

Binding ==
    [val : Values \cup Typed \cup {None}, bound : BOOLEAN, exported : BOOLEAN, readonly : BOOLEAN]
Bindings == {v \in [Names -> Binding] : \A n \in Names : ~ v[n].bound => v[n] = Unset}

Covered(record) == IF record = None THEN {} ELSE DOMAIN record.prev

\* The variables v are the user's own, base, under the layer that record undoes.
Layered(v, record, base) ==
    /\ v \in Bindings /\ base \in Bindings
    /\ Covered(record) \subseteq Names
    /\ \A n \in Names \ Covered(record) : v[n] = base[n]
    /\ \A n \in Covered(record) : ~ base[n].readonly
    /\ record # None => record.prev = CapturePrev(Covered(record), base)

Fields(pc) ==
    CASE pc = "clean" -> {"pc", "force", "todo"}
      [] pc \in {"load", "find"} -> {"pc", "force"}
      [] pc = "read"  -> {"pc", "force", "found"}
      [] pc \in {"trust", "check"} ->
            {"pc", "force", "found", "bodies", "todo", "at", "blocked", "grant"}
      [] pc = "eval"  -> {"pc", "found", "bodies", "grant"}
      [] pc \in {"clear", "save", "rename"} -> {"pc", "record", "to", "mark"}
      [] pc = "allow" -> {"pc", "body", "todo"}
      [] pc = "deny"  -> {"pc", "at", "todo"}
      [] OTHER        -> {"pc"}

OpPcs == {"idle", "clean", "load", "find", "read", "trust", "check", "eval", "clear", "save",
          "rename", "allow", "deny"}

OpOK(s) ==
    /\ op[s].pc \in OpPcs /\ DOMAIN op[s] = Fields(op[s].pc)
    /\ op[s].pc # "idle" => sh[s].up
    /\ op[s].pc \in {"find", "read", "trust", "check", "eval", "clear", "save", "rename"} => sh[s].loaded
    /\ op[s].pc \in {"read", "check"} => op[s].found = None \/ FoundOK(op[s].found)
    /\ op[s].pc = "trust" =>
         /\ FoundOK(op[s].found) /\ BodiesOK(op[s].found, op[s].bodies)
         /\ op[s].todo # {} /\ op[s].todo \subseteq op[s].found.kinds /\ op[s].at \in {"key", "legacy"}
         /\ DOMAIN op[s].grant = op[s].found.kinds /\ Stood(op[s], op[s].found.kinds \ op[s].todo)
    /\ op[s].pc = "check" /\ op[s].found # None =>
         /\ BodiesOK(op[s].found, op[s].bodies)
         /\ op[s].blocked \/ Stood(op[s], op[s].found.kinds)
    /\ op[s].pc = "eval" =>
         /\ FoundOK(op[s].found) /\ BodiesOK(op[s].found, op[s].bodies)
         /\ Stood(op[s], op[s].found.kinds) /\ Working(s) # Refused
    /\ op[s].pc \in {"clear", "save", "rename"} => Layered(op[s].to, op[s].record, sh[s].base)
    /\ op[s].pc = "clear" => op[s].record = None

OpInv == DOMAIN op = Shells /\ \A s \in Shells : OpOK(s)
-----------------------------------------------------------------------------
(* Shells. *)

ShellOK(s) ==
    /\ sh[s].up \in BOOLEAN
    /\ sh[s].up =>
         /\ DOMAIN sh[s] = {"up", "pid", "ns", "cwd", "vars", "base", "mark", "active", "loaded"}
         /\ sh[s].cwd \in Dirs
         /\ Layered(sh[s].vars, sh[s].active, sh[s].base)
         /\ sh[s].loaded \in BOOLEAN
         /\ IF sh[s].loaded THEN disk[s] = sh[s].active ELSE sh[s].active = None

ShellInv == DOMAIN sh = Shells /\ DOMAIN disk = Shells /\ \A s \in Shells : ShellOK(s)

IInv == EvalInv /\ FileInv /\ TrustInv /\ OpInv /\ ShellInv
-----------------------------------------------------------------------------
(* An evaluation keeps its invariant. *)

Running(e) == e \in Evals /\ e.phase \in {"channel", "wait"} /\ RunningOK(e)

LEMMA RunningEval == ASSUME NEW e, Running(e) PROVE EvalOK(e)
  BY DEF Running, EvalOK

LEMMA EvalRunning == ASSUME NEW e, EvalOK(e), e.phase \in {"channel", "wait"} PROVE Running(e)
  BY DEF Running, EvalOK

LEMMA StopOK == ASSUME NEW e \in Evals PROVE StopBashGroup(e) \in Evals /\ EvalOK(StopBashGroup(e))
  <1>1. StopBashGroup(e) \in Evals
    BY DEF StopBashGroup, Evals
  <1>2. StopBashGroup(e).phase = "done" /\ DoneOK(StopBashGroup(e))
    BY DEF StopBashGroup, Evals, DoneOK
  <1>. QED  BY <1>1, <1>2 DEF EvalOK

LEMMA StartOK == EvalOK(StartBash) /\ EvalOK(StartEpsh)
  <1>1. StartBash \in Evals /\ RunningOK(StartBash) /\ StartBash.phase = "channel"
    BY DEF StartBash, Evals, RunningOK
  <1>2. StartEpsh \in Evals /\ StartEpsh.phase = "epsh"
        /\ StartEpsh.leader = "gone" /\ ~ StartEpsh.stopped
    BY <1>1 DEF StartBash, StartEpsh, Evals
  <1>. QED  BY <1>1, <1>2 DEF EvalOK

LEMMA PutOK ==
    ASSUME EvalInv, NEW s \in Shells, NEW f, EvalOK(f), ev' = [ev EXCEPT ![s] = f]
    PROVE  EvalInv'
  BY DEF EvalInv

\* What the script writes and starts.
LEMMA WriteOK ==
    ASSUME NEW e, Running(e), NEW x \in {"before", "after"}
    PROVE  Running([e EXCEPT !.wrote = @ \cup {x}])
  <1>1. e.wrote \cup {x} \in SUBSET {"before", "after", "Z"}
    BY DEF Running, Evals
  <1>2. [e EXCEPT !.wrote = @ \cup {x}] \in Evals
    BY <1>1 DEF Running, Evals
  <1>. QED  BY <1>2 DEF Running, Evals, RunningOK, Held

LEMMA CompleteOK ==
    ASSUME NEW e, Running(e), e.leader = "run", e.wrote = {"before", "after"}
    PROVE  Running([e EXCEPT !.wrote = @ \cup {"Z"}, !.chan = Append(@, "Z")])
  <1>. DEFINE c == Append(e.chan, "Z")
  <1>1. e.wrote \cup {"Z"} \in SUBSET {"before", "after", "Z"}
    BY DEF Running, Evals
  <1>2. e.chan \in Seq({"A", "Z"}) /\ c \in Seq({"A", "Z"})
    BY DEF Running, Evals
  <1>3. Len(c) = Len(e.chan) + 1 /\ c[Len(e.chan) + 1] = "Z"
        /\ \A i \in 1 .. Len(e.chan) : c[i] = e.chan[i]
    BY <1>2
  <1>. HIDE DEF c
  <1>4. \A u \in SUBSET {"before", "after", "Z"} : [e EXCEPT !.wrote = u, !.chan = c] \in Evals
    BY <1>2 DEF Running, Evals
  <1>5. [e EXCEPT !.wrote = @ \cup {"Z"}, !.chan = Append(@, "Z")]
        = [e EXCEPT !.wrote = e.wrote \cup {"Z"}, !.chan = c]
    BY DEF Running, Evals, c
  <1>. DEFINE u == e.wrote \cup {"Z"}
              f == [e EXCEPT !.wrote = u, !.chan = c]
  <1>6. u \in SUBSET {"before", "after", "Z"} /\ {"before", "after", "Z"} \subseteq u
    BY <1>1
  <1>. HIDE DEF u
  <1>7. f \in Evals
    BY <1>4, <1>6
  <1>8. f.wrote = u /\ f.chan = c /\ f.leader = e.leader /\ f.phase = e.phase /\ f.out = e.out
        /\ f.stopped = e.stopped /\ f.called = e.called /\ f.open = e.open
    BY DEF Running, Evals
  <1>. HIDE DEF f
  <1>9. RunningOK(f)
    BY <1>2, <1>3, <1>6, <1>8 DEF Running, Evals, RunningOK, Held
  <1>. QED  BY <1>5, <1>7, <1>8, <1>9 DEF Running, u, f

LEMMA HelperOK ==
    ASSUME NEW e, Running(e), Held(e)
    PROVE  Running([e EXCEPT !.chan = Append(@, "A"), !.called = TRUE])
  <1>. DEFINE c == Append(e.chan, "A")
  <1>2. e.chan \in Seq({"A", "Z"}) /\ c \in Seq({"A", "Z"})
    BY DEF Running, Evals
  <1>3. Len(c) = Len(e.chan) + 1 /\ c[Len(e.chan) + 1] = "A"
        /\ \A i \in 1 .. Len(e.chan) : c[i] = e.chan[i]
    BY <1>2
  <1>4. [e EXCEPT !.chan = Append(@, "A"), !.called = TRUE] = [e EXCEPT !.chan = c, !.called = TRUE]
    BY DEF Running, Evals
  <1>. HIDE DEF c
  <1>5. [e EXCEPT !.chan = c, !.called = TRUE] \in Evals
    BY <1>2 DEF Running, Evals
  <1>. QED  BY <1>2, <1>3, <1>4, <1>5 DEF Running, Evals, RunningOK, Held

LEMMA ScriptOK ==
    ASSUME EvalInv, NEW s \in Shells, Script(s)
    PROVE  EvalInv'
  <1>. DEFINE e == ev[s]
  <1>1. Running(e) /\ e.leader = "run"
    BY EvalRunning DEF EvalInv, Script
  <1>2. CASE \E x \in {"before", "after"} : ev' = [ev EXCEPT ![s].wrote = @ \cup {x}]
    BY <1>1, <1>2, WriteOK, RunningEval, PutOK
  <1>3. CASE e.wrote = {"before", "after"}
             /\ ev' = [ev EXCEPT ![s].wrote = @ \cup {"Z"}, ![s].chan = Append(@, "Z")]
    <2>1. ev' = [ev EXCEPT ![s] = [e EXCEPT !.wrote = @ \cup {"Z"}, !.chan = Append(@, "Z")]]
      BY <1>3
    <2>. QED  BY <1>1, <1>3, <2>1, CompleteOK, RunningEval, PutOK
  <1>4. CASE ev' = [ev EXCEPT ![s].kid = "holds"]
    <2>1. Running([e EXCEPT !.kid = "holds"])
      BY <1>1 DEF Running, Evals, RunningOK, Held
    <2>. QED  BY <1>4, <2>1, RunningEval, PutOK
  <1>5. CASE \E ok \in BOOLEAN : ev' = [ev EXCEPT ![s].ok = ok, ![s].leader = "zombie"]
    <2>1. PICK ok \in BOOLEAN : ev' = [ev EXCEPT ![s].ok = ok, ![s].leader = "zombie"]
      BY <1>5
    <2>2. Running([e EXCEPT !.ok = ok, !.leader = "zombie"])
      BY <1>1 DEF Running, Evals, RunningOK, Held
    <2>3. ev' = [ev EXCEPT ![s] = [e EXCEPT !.ok = ok, !.leader = "zombie"]]
      BY <2>1
    <2>. QED  BY <2>2, <2>3, RunningEval, PutOK
  <1>6. CASE \E next \in {<<{}, "before">>, <<{"before"}, "after">>} :
               e.wrote = next[1] /\ ev' = [ev EXCEPT ![s].wrote = @ \cup {next[2]}]
    <2>. DEFINE Writes(x) == ev' = [ev EXCEPT ![s].wrote = @ \cup {x}]
    <2>1. PICK next \in {<<{}, "before">>, <<{"before"}, "after">>} : Writes(next[2])
      BY <1>6
    <2>. HIDE DEF Writes
    <2>2. next[2] \in {"before", "after"}
      OBVIOUS
    <2>3. \E x \in {"before", "after"} : Writes(x)
      BY <2>1, <2>2
    <2>. QED  BY <1>2, <2>3 DEF Writes
  <1>. HIDE DEF e
  <1>. QED  BY <1>3, <1>4, <1>5, <1>6 DEF Script, e

LEMMA OthersOK ==
    ASSUME EvalInv, NEW s \in Shells, CallHelper(s) \/ Background(s) \/ TimeUp(s)
    PROVE  EvalInv'
  <1>. DEFINE e == ev[s]
  <1>1. Running(e)
    BY EvalRunning DEF EvalInv, CallHelper, Background, TimeUp
  <1>2. CASE CallHelper(s)
    <2>1. ev' = [ev EXCEPT ![s] = [e EXCEPT !.chan = Append(@, "A"), !.called = TRUE]] /\ Held(e)
      BY <1>2 DEF CallHelper
    <2>. QED  BY <1>1, <2>1, HelperOK, RunningEval, PutOK
  <1>3. CASE Background(s)
    <2>1. Running([e EXCEPT !.kid = "quiet"])
      BY <1>1 DEF Running, Evals, RunningOK, Held
    <2>2. Running([e EXCEPT !.kid = "none"])
      BY <1>1 DEF Running, Evals, RunningOK, Held
    <2>. QED  BY <1>3, <2>1, <2>2, RunningEval, PutOK DEF Background
  <1>4. CASE TimeUp(s)
    <2>1. Running([e EXCEPT !.late = TRUE])
      BY <1>1 DEF Running, Evals, RunningOK, Held
    <2>. QED  BY <1>4, <2>1, RunningEval, PutOK DEF TimeUp
  <1>. QED  BY <1>2, <1>3, <1>4

\* A turn of the channel that goes on has read nothing but the completion.
LEMMA ReadOK ==
    ASSUME NEW e, Running(e)
    PROVE  /\ ReadState(e) \in Evals /\ EvalOK(ReadState(e))
  <1>1. CASE Rejects(e) \/ (~ Held(e) /\ ~ Completed(e))
    BY <1>1, StopOK DEF ReadState, Running
  <1>2. CASE ~ Rejects(e) /\ ~ (~ Held(e) /\ ~ Completed(e))
    <2>. DEFINE o == IF Held(e) THEN e.open ELSE e.open \ {"failure"}
                f(b) == [e EXCEPT !.observed = b, !.chan = <<>>, !.open = o, !.phase = "wait"]
    <2>1. e.chan \in Seq({"A", "Z"}) /\ e.observed \in BOOLEAN
          /\ o \in SUBSET {"before", "after", "failure"}
      BY DEF Running, Evals
    <2>2. e.chan = <<>> \/ (~ e.observed /\ Len(e.chan) = 1 /\ e.chan[1] = "Z")
      <3>1. e.chan # <<>> => Len(e.chan) >= 1 /\ Head(e.chan) = e.chan[1]
        BY <2>1
      <3>2. Len(e.chan) \in Nat
        BY <2>1
      <3>. HIDE DEF o, f
      <3>3. e.observed => e.chan = <<>>
        BY <1>2, <3>1 DEF Rejects
      <3>4. ASSUME ~ e.observed, e.chan # <<>> PROVE Len(e.chan) = 1 /\ e.chan[1] = "Z"
        <4>. DEFINE extra == IF e.observed THEN Len(e.chan) ELSE Len(e.chan) - 1
        <4>1. ~ (extra >= 1) /\ Head(e.chan) = "Z"
          BY ONLY <1>2, <3>4 DEF Rejects
        <4>2. extra = Len(e.chan) - 1
          BY <3>4
        <4>. HIDE DEF extra
        <4>3. \A n \in Nat : n >= 1 /\ ~ (n - 1 >= 1) => n = 1
          OBVIOUS
        <4>4. Len(e.chan) = 1
          BY <3>1, <3>2, <3>4, <4>1, <4>2, <4>3
        <4>. QED  BY <3>1, <3>4, <4>1, <4>4
      <3>. QED  BY <3>3, <3>4
    <2>3. ~ e.called /\ (Completed(e) => "Z" \in e.wrote)
      BY <2>2 DEF Running, RunningOK, Completed
    <2>4. PICK b \in BOOLEAN : b = Completed(e)
      BY DEF Completed
    <2>5. ReadState(e) = f(b)
      BY <1>2, <2>4 DEF ReadState, Running, Evals
    <2>6. "failure" \notin o => b /\ ~ Held(e)
      BY <1>2, <2>4 DEF Running, RunningOK, Completed
    <2>. HIDE DEF o
    <2>7. f(b) \in Evals
      <3>1. <<>> \in Seq({"A", "Z"})
        OBVIOUS
      <3>2. \A x \in Seq({"A", "Z"}) :
                [e EXCEPT !.observed = b, !.chan = x, !.open = o, !.phase = "wait"] \in Evals
        BY <2>1 DEF Running, Evals
      <3>. QED  BY <3>1, <3>2
    <2>8. RunningOK(f(b)) /\ f(b).phase = "wait"
      BY <2>1, <2>3, <2>4, <2>6 DEF Running, Evals, RunningOK, Held
    <2>. QED  BY <2>5, <2>7, <2>8 DEF EvalOK
  <1>. QED  BY <1>1, <1>2

LEMMA ChannelOK ==
    ASSUME EvalInv, NEW s \in Shells, Channel(s)
    PROVE  EvalInv'
  <1>1. Running(ev[s])
    BY EvalRunning DEF EvalInv, Channel
  <1>2. \E f : EvalOK(f) /\ ev' = [ev EXCEPT ![s] = f]
    BY <1>1, ReadOK, StopOK DEF Channel
  <1>. QED  BY <1>2, PutOK

LEMMA WaitAndDrainOK ==
    ASSUME EvalInv, NEW s \in Shells, WaitAndDrain(s)
    PROVE  EvalInv'
  <1>. DEFINE e == ev[s]
  <1>1. Running(e)
    BY EvalRunning DEF EvalInv, WaitAndDrain
  <1>2. PICK still \in SUBSET {"before", "after"} :
          LET seen == [DrainEnvPipe(e, still) EXCEPT !.exited = @ \/ e.leader = "zombie"]
          IN  ev' = [ev EXCEPT ![s] =
                 IF seen.exited /\ seen.open = {}
                 THEN [seen EXCEPT !.leader = "gone", !.phase = "done",
                                   !.out = IF seen.ok THEN "ok" ELSE "error"]
                 ELSE [seen EXCEPT !.phase = "channel"]]
    BY DEF WaitAndDrain
  <1>. DEFINE o == IF Held(e) THEN e.open ELSE e.open \ ({"before", "after"} \ still)
              seen(b) == [e EXCEPT !.open = o, !.exited = b]
  <1>3. o \in SUBSET {"before", "after", "failure"} /\ ("failure" \in o <=> "failure" \in e.open)
    BY <1>1 DEF Running, Evals
  <1>4. PICK b \in BOOLEAN : b = (e.exited \/ e.leader = "zombie")
    OBVIOUS
  <1>5. [DrainEnvPipe(e, still) EXCEPT !.exited = @ \/ e.leader = "zombie"] = seen(b)
    BY <1>1, <1>4 DEF DrainEnvPipe, Running, Evals
  <1>. HIDE DEF o
  <1>6. seen(b) \in Evals
    BY <1>1, <1>3 DEF Running, Evals
  <1>7. /\ seen(b).leader = e.leader /\ seen(b).out = e.out /\ seen(b).stopped = e.stopped
        /\ seen(b).wrote = e.wrote /\ seen(b).observed = e.observed /\ seen(b).chan = e.chan
        /\ seen(b).called = e.called /\ seen(b).open = o /\ seen(b).kid = e.kid
    BY <1>1 DEF Running, Evals
  <1>8. RunningOK(seen(b))
    BY <1>1, <1>3, <1>7 DEF Running, RunningOK, Held
  <1>. HIDE DEF seen, e
  <1>9. EvalOK([seen(b) EXCEPT !.phase = "channel"])
    BY <1>6, <1>8 DEF Evals, RunningOK, Held, EvalOK
  <1>10. ASSUME seen(b).open = {}, NEW x \in {"ok", "error"}, x = "ok" => seen(b).ok
         PROVE  EvalOK([seen(b) EXCEPT !.leader = "gone", !.phase = "done", !.out = x])
    <2>1. seen(b).observed /\ ~ Held(seen(b)) /\ seen(b).chan = <<>>
      BY <1>8, <1>10 DEF RunningOK
    <2>2. ~ seen(b).called /\ {"before", "after"} \subseteq seen(b).wrote /\ ~ seen(b).stopped
      BY <1>8, <2>1 DEF RunningOK
    <2>3. [seen(b) EXCEPT !.leader = "gone", !.phase = "done", !.out = x] \in Evals
      BY <1>6 DEF Evals
    <2>. QED  BY <1>6, <1>10, <2>1, <2>2, <2>3 DEF Evals, DoneOK, EvalOK, Held
  <1>11. \E f : EvalOK(f) /\ ev' = [ev EXCEPT ![s] = f]
    BY <1>2, <1>5, <1>9, <1>10
  <1>. QED  BY <1>11, PutOK

LEMMA EvalEnvEpshOK ==
    ASSUME EvalInv, NEW s \in Shells, EvalEnvEpsh(s)
    PROVE  EvalInv'
  <1>. DEFINE e == ev[s]
  <1>1. e \in Evals /\ e.leader = "gone" /\ ~ e.stopped
    BY DEF EvalInv, EvalEnvEpsh, EvalOK
  <1>2. PICK ok \in BOOLEAN, called \in BOOLEAN, held \in BOOLEAN :
          ev' = [ev EXCEPT ![s].phase = "done", ![s].called = called,
                           ![s].kid = IF held THEN "holds" ELSE "none",
                           ![s].ok = ok,
                           ![s].wrote = IF ok THEN {"before", "after"} ELSE {},
                           ![s].out = IF ok /\ ~called /\ ~held THEN "ok" ELSE "error"]
    BY DEF EvalEnvEpsh
  <1>3. ASSUME NEW k \in {"holds", "none"}, NEW u \in SUBSET {"before", "after"},
               NEW x \in {"ok", "error"},
               x = "ok" => ok /\ ~ called /\ k = "none" /\ u = {"before", "after"}
        PROVE  EvalOK([e EXCEPT !.phase = "done", !.called = called, !.kid = k,
                      !.ok = ok, !.wrote = u, !.out = x])
    <2>. DEFINE f == [e EXCEPT !.phase = "done", !.called = called, !.kid = k,
                      !.ok = ok, !.wrote = u, !.out = x]
    <2>1. f \in Evals
      BY <1>1 DEF Evals
    <2>2. f.leader = "gone" /\ ~ f.stopped /\ f.phase = "done" /\ f.out = x
          /\ f.kid = k /\ f.wrote = u /\ (f.called => called) /\ (ok => f.ok)
      BY <1>1 DEF Evals
    <2>. HIDE DEF f
    <2>3. EvalOK(f)
      BY <1>3, <2>1, <2>2 DEF DoneOK, EvalOK
    <2>. QED  BY <2>3 DEF f
  <1>4. \E f : EvalOK(f) /\ ev' = [ev EXCEPT ![s] = f]
    <2>. DEFINE k == IF held THEN "holds" ELSE "none"
                u == IF ok THEN {"before", "after"} ELSE {}
                x == IF ok /\ ~called /\ ~held THEN "ok" ELSE "error"
    <2>1. k \in {"holds", "none"} /\ u \in SUBSET {"before", "after"} /\ x \in {"ok", "error"}
          /\ (x = "ok" => ok /\ ~ called /\ k = "none" /\ u = {"before", "after"})
      OBVIOUS
    <2>2. ev' = [ev EXCEPT ![s] =
                      [e EXCEPT !.phase = "done", !.called = called, !.kid = k,
                      !.ok = ok, !.wrote = u, !.out = x]]
      BY <1>2
    <2>. HIDE DEF k, u, x
    <2>. QED  BY <1>3, <2>1, <2>2
  <1>. QED  BY <1>4, PutOK
-----------------------------------------------------------------------------
(* Bindings, and the layer that comes off exactly. *)

LEMMA UnsetBinding == Unset \in Binding
  BY DEF Unset, Binding

LEMMA PutBinding ==
    ASSUME NEW v \in Bindings, NEW n \in Names, NEW b \in Binding, ~ b.bound => b = Unset
    PROVE  [v EXCEPT ![n] = b] \in Bindings
  BY DEF Bindings

\* The bindings the user's commands leave.
AssignTo(v, n, x) ==
    {SetBytes(v, n, x)[n], Export(v, n)[n], Unset, [v[n] EXCEPT !.readonly = TRUE, !.bound = TRUE]}

LEMMA AssignedBinding ==
    ASSUME NEW v \in Bindings, NEW n \in Names, NEW x \in Values \cup Typed,
           NEW to \in AssignTo(v, n, x)
    PROVE  to \in Binding /\ (~ to.bound => to = Unset)
  <1>1. v \in [Names -> Binding] /\ v[n] \in Binding
    BY DEF Bindings
  <1>2. CASE to = Unset
    BY <1>2, UnsetBinding
  <1>3. CASE to = SetBytes(v, n, x)[n]
    <2>1. to = [v[n] EXCEPT !.val = x, !.bound = TRUE]
      BY <1>1, <1>3 DEF SetBytes, Binding
    <2>. QED  BY <1>1, <2>1 DEF Binding
  <1>4. CASE to = Export(v, n)[n]
    <2>1. to = [v[n] EXCEPT !.exported = TRUE, !.bound = TRUE]
      BY <1>1, <1>4 DEF Export, Binding
    <2>. QED  BY <1>1, <2>1 DEF Binding
  <1>5. CASE to = [v[n] EXCEPT !.readonly = TRUE, !.bound = TRUE]
    BY <1>1, <1>5 DEF Binding
  <1>. QED  BY <1>2, <1>3, <1>4, <1>5 DEF AssignTo

\* A variable that was covered gets the binding the user had.
LEMMA RestoreOne ==
    ASSUME NEW v \in Bindings, NEW base \in Bindings, NEW n \in Names, NEW T, n \in T,
           NEW prev, prev = CapturePrev(T, base), ~ v[n].readonly, ~ base[n].readonly
    PROVE  ApplyRestore(prev, v)[n] = base[n]
  <1>. DEFINE p == prev[n]
  <1>1. /\ v \in [Names -> Binding] /\ base \in [Names -> Binding]
        /\ v[n] \in Binding /\ base[n] \in Binding /\ (~ base[n].bound => base[n] = Unset)
    BY DEF Bindings
  <1>2. DOMAIN prev = T /\
        p = IF ~base[n].bound THEN [kind |-> "unset"]
            ELSE IF base[n].val = None THEN [kind |-> "unassigned", exported |-> base[n].exported]
            ELSE [kind |-> "restore", val |-> base[n].val, exported |-> base[n].exported]
    BY DEF CapturePrev
  <1>3. ApplyRestore(prev, v)[n] =
          CASE p.kind = "unset"      -> Unset
            [] p.kind = "unassigned" ->
                  IF p.exported THEN Export([v EXCEPT ![n] = Unset], n)[n]
                                ELSE Declare([v EXCEPT ![n] = Unset], n)[n]
            [] p.kind = "restore"    ->
                  LET set == Export(SetBytes(v, n, p.val), n)
                  IN  IF p.exported THEN set[n] ELSE Unexport(set, n)[n]
    BY <1>2 DEF ApplyRestore
  <1>. HIDE DEF p
  <1>4. CASE ~ base[n].bound
    <2>1. p.kind = "unset"
      BY <1>2, <1>4
    <2>. QED  BY <1>1, <1>3, <1>4, <2>1
  <1>5. CASE base[n].bound /\ base[n].val = None
    <2>. DEFINE Was(b) == [val |-> None, bound |-> TRUE, exported |-> b, readonly |-> FALSE]
    <2>1. p.kind = "unassigned" /\ p.exported = base[n].exported
      BY <1>2, <1>5
    <2>2. /\ Export([v EXCEPT ![n] = Unset], n)[n] = Was(TRUE)
          /\ Declare([v EXCEPT ![n] = Unset], n)[n] = Was(FALSE)
      BY <1>1 DEF Export, Declare, Unset
    <2>3. base[n].exported \in BOOLEAN /\ base[n] = Was(base[n].exported)
      BY <1>1, <1>5 DEF Binding
    <2>4. ApplyRestore(prev, v)[n] = IF p.exported THEN Was(TRUE) ELSE Was(FALSE)
      BY <1>3, <2>1, <2>2
    <2>. HIDE DEF Was
    <2>5. CASE base[n].exported = TRUE
      BY <2>1, <2>3, <2>4, <2>5
    <2>6. CASE base[n].exported = FALSE
      BY <2>1, <2>3, <2>4, <2>6
    <2>. QED  BY <2>3, <2>5, <2>6
  <1>6. CASE base[n].bound /\ base[n].val # None
    <2>. DEFINE x == base[n].val
                set == Export(SetBytes(v, n, x), n)
                Was(b) == [val |-> x, bound |-> TRUE, exported |-> b, readonly |-> FALSE]
    <2>1. p.kind = "restore" /\ p.val = x /\ p.exported = base[n].exported
      BY <1>2, <1>6
    <2>2. /\ set \in [Names -> Binding]
          /\ set[n] = Was(TRUE)
      BY <1>1 DEF Export, SetBytes, Binding
    <2>3. ApplyRestore(prev, v)[n] = IF p.exported THEN set[n] ELSE Unexport(set, n)[n]
      BY <1>3, <2>1
    <2>4. base[n].exported \in BOOLEAN /\ base[n] = Was(base[n].exported)
      BY <1>1, <1>6 DEF Binding
    <2>. HIDE DEF set
    <2>5. Unexport(set, n)[n] = [set[n] EXCEPT !.exported = FALSE]
      BY <2>2 DEF Unexport
    <2>. DEFINE r == set[n]
    <2>. HIDE DEF r
    <2>6. Unexport(set, n)[n] = Was(FALSE)
      <3>1. r = Was(TRUE) /\ Unexport(set, n)[n] = [r EXCEPT !.exported = FALSE]
        BY <2>2, <2>5 DEF r
      <3>. QED  BY <3>1
    <2>. HIDE DEF Was
    <2>7. CASE base[n].exported = TRUE
      BY <2>1, <2>2, <2>3, <2>4, <2>7
    <2>8. CASE base[n].exported = FALSE
      BY <2>1, <2>3, <2>4, <2>6, <2>8
    <2>. QED  BY <2>4, <2>7, <2>8
  <1>. QED  BY <1>4, <1>5, <1>6

\* Taking the layer off gives back the user's own variables, or is refused.
LEMMA WorkingExact ==
    ASSUME NEW s \in Shells, ShellOK(s), sh[s].up, Working(s) # Refused
    PROVE  Working(s) = sh[s].base /\ sh[s].base \in Bindings
  <1>. DEFINE v == sh[s].vars  base == sh[s].base  record == sh[s].active
  <1>1. Layered(v, record, base)
    BY DEF ShellOK
  <1>2. v \in Bindings /\ base \in Bindings
        /\ v \in [Names -> Binding] /\ base \in [Names -> Binding]
    BY <1>1 DEF Layered, Bindings
  <1>3. CASE record = None
    <2>1. Working(s) = v
      BY <1>3 DEF Working
    <2>2. \A n \in Names : v[n] = base[n]
      BY <1>1, <1>3 DEF Layered, Covered
    <2>. QED  BY <1>2, <2>1, <2>2
  <1>4. CASE record # None
    <2>. DEFINE T == Covered(record)  changes == ApplyRestore(record.prev, v)
    <2>1. record.prev = CapturePrev(T, base) /\ T \subseteq Names
          /\ (\A n \in Names \ T : v[n] = base[n]) /\ \A n \in T : ~ base[n].readonly
      BY <1>1, <1>4 DEF Layered
    <2>2. DOMAIN changes = T
      BY <2>1 DEF ApplyRestore, CapturePrev
    <2>3. Working(s) = ApplyChanges(v, changes)
      BY <1>4 DEF Working
    <2>. HIDE DEF changes, T, v, base
    <2>4. ~ (\E n \in T : v[n].readonly)
          /\ Working(s) = [n \in Names |-> IF n \in T THEN changes[n] ELSE v[n]]
      BY <2>2, <2>3 DEF ApplyChanges
    <2>5. \A n \in T : changes[n] = base[n]
      BY <1>2, <2>1, <2>4, RestoreOne DEF changes
    <2>6. Working(s) = [n \in Names |-> base[n]]
      BY <2>1, <2>4, <2>5
    <2>7. Working(s) = base
      BY <1>2, <2>6
    <2>. QED  BY <1>2, <2>7 DEF base
  <1>. QED  BY <1>3, <1>4
-----------------------------------------------------------------------------
(* What a step of one shell leaves alone. *)

LEMMA KeepOps ==
    ASSUME OpInv, NEW s \in Shells, DOMAIN op' = Shells, OpOK(s)',
           \A t \in Shells \ {s} : op'[t] = op[t] /\ sh'[t] = sh[t]
    PROVE  OpInv'
  <1>1. \A t \in Shells \ {s} : OpOK(t)'
    BY DEF OpInv, OpOK, Working, Stood
  <1>. QED  BY <1>1 DEF OpInv

LEMMA KeepShells ==
    ASSUME ShellInv, NEW s \in Shells, DOMAIN sh' = Shells, DOMAIN disk' = Shells, ShellOK(s)',
           \A t \in Shells \ {s} : sh'[t] = sh[t] /\ disk'[t] = disk[t]
    PROVE  ShellInv'
  <1>1. \A t \in Shells \ {s} : ShellOK(t)'
    BY DEF ShellInv, ShellOK
  <1>. QED  BY <1>1 DEF ShellInv

LEMMA SameShells == ASSUME ShellInv, UNCHANGED <<sh, disk>> PROVE ShellInv'
  BY DEF ShellInv, ShellOK

LEMMA KeepTrust ==
    ASSUME TrustInv, NEW s \in Shells, UNCHANGED <<trust, decided>>, DecisionOK(s)',
           \A t \in Shells \ {s} : op'[t] = op[t]
    PROVE  TrustInv'
  <1>1. \A t \in Shells \ {s} : DecisionOK(t)'
    BY DEF TrustInv, DecisionOK, Stored
  <1>2. \A slot \in Slots : EntryOK(slot)'
    BY DEF TrustInv, EntryOK, Stored
  <1>. QED  BY <1>1, <1>2 DEF TrustInv

LEMMA SameFiles == ASSUME FileInv, UNCHANGED file PROVE FileInv'
  BY DEF FileInv

LEMMA SameEval == ASSUME EvalInv, UNCHANGED ev PROVE EvalInv'
  BY DEF EvalInv

\* A step that only moves one shell's operation on.
LEMMA TurnOK ==
    ASSUME IInv, NEW s \in Shells, NEW o, op' = [op EXCEPT ![s] = o],
           UNCHANGED <<file, trust, disk, sh, decided, ev>>,
           op'[s] = o => OpOK(s)' /\ DecisionOK(s)'
    PROVE  IInv'
  <1>1. DOMAIN op' = Shells /\ op'[s] = o /\ \A t \in Shells \ {s} : op'[t] = op[t]
    BY DEF IInv, OpInv
  <1>. QED  BY <1>1, KeepOps, SameShells, KeepTrust, SameFiles, SameEval DEF IInv

LEMMA IdleOK == ASSUME NEW s \in Shells, op'[s] = Idle PROVE OpOK(s)' /\ DecisionOK(s)'
  BY DEF Idle, OpOK, DecisionOK, Fields, OpPcs

LEMMA RefreshOK ==
    ASSUME NEW s \in Shells, NEW force, op'[s] = Refresh(force), sh'[s].up
    PROVE  OpOK(s)' /\ DecisionOK(s)'
  BY DEF Refresh, OpOK, DecisionOK, Fields, OpPcs

LEMMA ShellUp ==
    ASSUME IInv, NEW s \in Shells, op[s].pc # "idle"
    PROVE  /\ sh[s].up /\ ShellOK(s) /\ OpOK(s)
           /\ op[s].pc \in {"find", "read", "trust", "check", "eval", "clear", "save", "rename"} => sh[s].loaded
           /\ DOMAIN op[s] = Fields(op[s].pc)
  BY DEF IInv, OpInv, OpOK, ShellInv

-----------------------------------------------------------------------------
(* Commands, and the operations that move no data. *)

LEMMA ReturnsOK ==
    ASSUME IInv, NEW s \in Shells, Return(s), UNCHANGED <<file, trust, disk, sh, decided, ev>>
    PROVE  IInv'
  <1>1. op' = [op EXCEPT ![s] = Idle]
    BY DEF Return
  <1>2. op'[s] = Idle => OpOK(s)' /\ DecisionOK(s)'
    BY IdleOK
  <1>. QED  BY <1>1, <1>2, TurnOK

LEMMA RefreshesOK ==
    ASSUME IInv, NEW s \in Shells, sh[s].up, NEW force, op' = [op EXCEPT ![s] = Refresh(force)],
           UNCHANGED <<file, trust, disk, sh, decided, ev>>
    PROVE  IInv'
  <1>1. op'[s] = Refresh(force) => OpOK(s)' /\ DecisionOK(s)'
    BY RefreshOK
  <1>. QED  BY <1>1, TurnOK

LEMMA ReloadOK == ASSUME IInv, NEW s \in Shells, Reload(s) PROVE IInv'
  BY RefreshesOK DEF Reload, Ready

LEMMA OnStartupOK == ASSUME IInv, NEW s \in Shells, OnStartup(s) PROVE IInv'
  <1>1. sh[s].up
    BY ShellUp DEF OnStartup
  <1>. QED  BY <1>1, RefreshesOK DEF OnStartup

LEMMA DecidedOK == ASSUME IInv, NEW s \in Shells, Decided(s) PROVE IInv'
  <1>1. sh[s].up
    BY ShellUp DEF Decided
  <1>. QED  BY <1>1, RefreshesOK DEF Decided

LEMMA CdOK == ASSUME IInv, NEW s \in Shells, Cd(s) PROVE IInv'
  <1>1. PICK d \in Dirs : sh' = [sh EXCEPT ![s].cwd = d] /\ op' = [op EXCEPT ![s] = Refresh(FALSE)]
    BY DEF Cd
  <1>2. UNCHANGED <<file, trust, disk, decided, ev>> /\ sh[s].up
    BY DEF Cd, Ready
  <1>3. DOMAIN sh = Shells /\ DOMAIN op = Shells /\ ShellOK(s)
        /\ DOMAIN sh[s] = {"up", "pid", "ns", "cwd", "vars", "base", "mark", "active", "loaded"}
    BY <1>2 DEF IInv, OpInv, ShellInv, ShellOK
  <1>4. sh'[s] = [sh[s] EXCEPT !.cwd = d] /\ op'[s] = Refresh(FALSE)
        /\ DOMAIN sh' = Shells /\ DOMAIN op' = Shells
        /\ \A t \in Shells \ {s} : op'[t] = op[t] /\ sh'[t] = sh[t] /\ disk'[t] = disk[t]
    BY <1>1, <1>2, <1>3
  <1>5. /\ sh'[s].up = sh[s].up /\ sh'[s].cwd = d /\ sh'[s].vars = sh[s].vars
        /\ sh'[s].active = sh[s].active /\ sh'[s].base = sh[s].base /\ sh'[s].loaded = sh[s].loaded
        /\ DOMAIN sh'[s] = DOMAIN sh[s]
    BY <1>3, <1>4
  <1>6. ShellOK(s)'
    BY <1>2, <1>3, <1>5 DEF ShellOK
  <1>7. OpOK(s)' /\ DecisionOK(s)'
    BY <1>2, <1>4, <1>5, RefreshOK
  <1>8. DOMAIN disk' = Shells
    BY <1>2 DEF IInv, ShellInv
  <1>. QED
    BY <1>2, <1>4, <1>6, <1>7, <1>8, KeepOps, KeepShells, KeepTrust, SameFiles, SameEval DEF IInv

LEMMA AssignOK == ASSUME IInv, NEW s \in Shells, Assign(s) PROVE IInv'
  <1>. DEFINE v == sh[s].vars  base == sh[s].base
  <1>1. PICK n \in Names, x \in Typed :
          /\ ~sh[s].vars[n].readonly
          /\ \E to \in {SetBytes(sh[s].vars, n, x)[n], Export(sh[s].vars, n)[n], Unset,
                        [sh[s].vars[n] EXCEPT !.readonly = TRUE, !.bound = TRUE]} :
                sh' = [sh EXCEPT ![s].vars[n] = to,
                                 ![s].base[n] = IF n \in Managed(s) THEN @ ELSE to]
    BY DEF Assign
  <1>2. PICK to \in {SetBytes(sh[s].vars, n, x)[n], Export(sh[s].vars, n)[n], Unset,
                     [sh[s].vars[n] EXCEPT !.readonly = TRUE, !.bound = TRUE]} :
            sh' = [sh EXCEPT ![s].vars[n] = to,
                             ![s].base[n] = IF n \in Managed(s) THEN @ ELSE to]
    BY <1>1
  <1>3. UNCHANGED <<file, trust, disk, op, decided, ev>> /\ sh[s].up /\ op[s].pc = "idle"
    BY DEF Assign, Ready
  <1>4. DOMAIN sh = Shells /\ DOMAIN op = Shells /\ DOMAIN disk = Shells /\ ShellOK(s) /\ OpOK(s)
        /\ DOMAIN sh[s] = {"up", "pid", "ns", "cwd", "vars", "base", "mark", "active", "loaded"}
        /\ Layered(v, sh[s].active, base)
    BY <1>3 DEF IInv, OpInv, ShellInv, ShellOK
  <1>5. v \in Bindings /\ base \in Bindings /\ Managed(s) = Covered(sh[s].active)
    BY <1>4 DEF Layered, Managed, Covered
  <1>6. to \in Binding /\ (~ to.bound => to = Unset)
    <2>1. x \in Values \cup Typed
      OBVIOUS
    <2>2. to \in AssignTo(sh[s].vars, n, x)
      BY <1>2 DEF AssignTo
    <2>. QED  BY <1>5, <2>1, <2>2, AssignedBinding
  <1>. DEFINE v2 == [v EXCEPT ![n] = to]
              b2 == IF n \in Managed(s) THEN base ELSE [base EXCEPT ![n] = to]
  <1>7. v2 \in Bindings /\ b2 \in Bindings
    BY <1>5, <1>6, PutBinding
  <1>8. [base EXCEPT ![n] = IF n \in Managed(s) THEN @ ELSE to] = b2
    BY <1>5 DEF Bindings
  <1>9. sh'[s] = [sh[s] EXCEPT !.vars = v2, !.base = b2]
    BY <1>2, <1>4, <1>8
  <1>10. /\ \A m \in Names : v2[m] = IF m = n THEN to ELSE v[m]
         /\ \A m \in Names : b2[m] = IF m = n /\ n \notin Managed(s) THEN to ELSE base[m]
    BY <1>5 DEF Bindings
  <1>. HIDE DEF v2, b2
  <1>11. /\ sh'[s].up = sh[s].up /\ sh'[s].cwd = sh[s].cwd /\ sh'[s].vars = v2
         /\ sh'[s].active = sh[s].active /\ sh'[s].base = b2 /\ sh'[s].loaded = sh[s].loaded
         /\ DOMAIN sh'[s] = DOMAIN sh[s]
    BY <1>4, <1>9
  <1>12. DOMAIN sh' = Shells /\ \A t \in Shells \ {s} : sh'[t] = sh[t]
    BY <1>2, <1>4
  <1>13. CapturePrev(Covered(sh[s].active), b2) = CapturePrev(Covered(sh[s].active), base)
    <2>1. \A m \in Covered(sh[s].active) : b2[m] = base[m]
      BY <1>4, <1>5, <1>10 DEF Layered
    <2>. QED  BY <2>1 DEF CapturePrev
  <1>14. Layered(v2, sh[s].active, b2)
    BY <1>4, <1>5, <1>7, <1>10, <1>13 DEF Layered
  <1>15. ShellOK(s)'
    BY <1>3, <1>4, <1>11, <1>14 DEF ShellOK
  <1>16. OpOK(s)' /\ DecisionOK(s)'
    BY <1>3, <1>4 DEF OpOK, DecisionOK
  <1>. QED
    BY <1>3, <1>4, <1>12, <1>15, <1>16, KeepOps, KeepShells, KeepTrust, SameFiles, SameEval DEF IInv
-----------------------------------------------------------------------------
(* Shells start and end, and clean up after each other. *)

LEMMA InheritedOK == ASSUME IInv, NEW from \in Inherited PROVE from.vars \in Bindings
  <1>1. CASE from = Login
    <2>1. from.vars = [n \in Names |-> Unset]
      BY <1>1 DEF Login
    <2>. QED  BY <2>1, UnsetBinding DEF Bindings
  <1>2. CASE \E t \in Parents : from = [vars |-> FromEnvironment(sh[t].vars), mark |-> sh[t].mark]
    <2>1. PICK t \in Parents : from = [vars |-> FromEnvironment(sh[t].vars), mark |-> sh[t].mark]
      BY <1>2
    <2>. DEFINE v == sh[t].vars
    <2>2. v \in Bindings /\ from.vars = FromEnvironment(v)
      BY <2>1 DEF Parents, Ready, IInv, ShellInv, ShellOK, Layered
    <2>. HIDE DEF v
    <2>3. ASSUME NEW n \in Names
          PROVE  /\ FromEnvironment(v)[n] \in Binding
                 /\ ~ FromEnvironment(v)[n].bound => FromEnvironment(v)[n] = Unset
      <3>. DEFINE b == v[n]
      <3>1. b \in Binding /\ (~ b.bound => b = Unset)
        BY <2>2 DEF Bindings
      <3>2. FromEnvironment(v)[n] = IF b.exported /\ b.val # None THEN [b EXCEPT !.readonly = FALSE]
                                    ELSE Unset
        BY DEF FromEnvironment, Environment
      <3>. HIDE DEF b
      <3>3. CASE b.exported /\ b.val # None
        <4>1. b.bound
          BY <3>1, <3>3 DEF Unset
        <4>2. [b EXCEPT !.readonly = FALSE] \in Binding /\ [b EXCEPT !.readonly = FALSE].bound
          BY <3>1, <4>1 DEF Binding
        <4>. QED  BY <3>2, <3>3, <4>2
      <3>. QED  BY <3>2, <3>3, UnsetBinding
    <2>4. FromEnvironment(v) \in [Names -> Binding]
      BY <2>3 DEF FromEnvironment
    <2>. QED  BY <2>2, <2>3, <2>4 DEF Bindings
  <1>. QED  BY <1>1, <1>2 DEF Inherited

LEMMA InitSessionOK == ASSUME IInv, NEW s \in Shells, InitSession(s) PROVE IInv'
  <1>1. PICK p \in Processes(s), d \in Dirs, from \in Inherited :
          sh' = [sh EXCEPT ![s] = [up |-> TRUE, pid |-> p[1], ns |-> p[2], cwd |-> d,
                        vars |-> from.vars, base |-> from.vars, mark |-> from.mark,
                        active |-> None, loaded |-> FALSE]]
    BY DEF InitSession
  <1>2. PICK todo : op' = [op EXCEPT ![s] = [pc |-> "clean", force |-> FALSE, todo |-> todo]]
    BY DEF InitSession
  <1>3. UNCHANGED <<file, trust, disk, decided, ev>>
    BY DEF InitSession
  <1>4. DOMAIN sh = Shells /\ DOMAIN op = Shells /\ DOMAIN disk = Shells
    BY DEF IInv, OpInv, ShellInv
  <1>5. /\ sh'[s] = [up |-> TRUE, pid |-> p[1], ns |-> p[2], cwd |-> d,
                     vars |-> from.vars, base |-> from.vars, mark |-> from.mark,
                     active |-> None, loaded |-> FALSE]
        /\ op'[s] = [pc |-> "clean", force |-> FALSE, todo |-> todo]
        /\ DOMAIN sh' = Shells /\ DOMAIN op' = Shells /\ DOMAIN disk' = Shells
        /\ \A t \in Shells \ {s} : op'[t] = op[t] /\ sh'[t] = sh[t] /\ disk'[t] = disk[t]
    BY <1>1, <1>2, <1>3, <1>4
  <1>6. Layered(from.vars, None, from.vars)
    BY InheritedOK DEF Layered, Covered
  <1>7. ShellOK(s)'
    BY <1>5, <1>6 DEF ShellOK
  <1>8. OpOK(s)' /\ DecisionOK(s)'
    BY <1>5 DEF OpOK, DecisionOK, Fields, OpPcs
  <1>. QED
    BY <1>3, <1>5, <1>7, <1>8, KeepOps, KeepShells, KeepTrust, SameFiles, SameEval DEF IInv

LEMMA GoneOK ==
    ASSUME IInv, NEW s \in Shells, sh' = [sh EXCEPT ![s] = Dead(s)],
           op' = [op EXCEPT ![s] = Idle] \/ (op[s].pc = "idle" /\ op' = op),
           DOMAIN disk' = Shells, \A t \in Shells \ {s} : disk'[t] = disk[t],
           UNCHANGED <<file, trust, decided>>, EvalInv'
    PROVE  IInv'
  <1>1. DOMAIN sh = Shells /\ DOMAIN op = Shells /\ OpOK(s)
    BY DEF IInv, OpInv, ShellInv
  <1>2. /\ sh'[s] = Dead(s) /\ DOMAIN sh' = Shells /\ DOMAIN op' = Shells
        /\ \A t \in Shells \ {s} : op'[t] = op[t] /\ sh'[t] = sh[t]
        /\ op'[s] = Idle \/ (op[s].pc = "idle" /\ op'[s] = op[s])
    BY <1>1
  <1>3. ShellOK(s)'
    BY <1>2 DEF ShellOK, Dead
  <1>4. OpOK(s)' /\ DecisionOK(s)'
    BY <1>1, <1>2, IdleOK DEF OpOK, DecisionOK
  <1>. QED
    BY <1>2, <1>3, <1>4, KeepOps, KeepShells, KeepTrust, SameFiles DEF IInv

LEMMA OnExitOK == ASSUME IInv, NEW s \in Shells, OnExit(s) PROVE IInv'
  <1>1. sh' = [sh EXCEPT ![s] = Dead(s)] /\ op[s].pc = "idle" /\ op' = op
        /\ UNCHANGED <<file, trust, decided, ev>>
    BY DEF OnExit, Ready
  <1>2. DOMAIN disk' = Shells /\ \A t \in Shells \ {s} : disk'[t] = disk[t]
    BY DEF OnExit, IInv, ShellInv
  <1>3. EvalInv'
    BY <1>1, SameEval DEF IInv
  <1>. QED  BY <1>1, <1>2, <1>3, GoneOK

LEMMA NoEvalOK == EvalOK(NoEval)
  BY DEF NoEval, EvalOK

LEMMA KilledOK == ASSUME IInv, NEW s \in Shells, Killed(s) PROVE IInv'
  <1>1. EvalInv'
    BY NoEvalOK, PutOK DEF Killed, IInv
  <1>2. DOMAIN disk' = Shells /\ \A t \in Shells \ {s} : disk'[t] = disk[t]
    BY DEF Killed, IInv, ShellInv
  <1>. QED  BY <1>1, <1>2, GoneOK DEF Killed

LEMMA DamageOK == ASSUME IInv, NEW s \in Shells, Damage(s) PROVE IInv'
  <1>1. disk' = [disk EXCEPT ![s] = Malformed] /\ sh[s].up /\ ~ sh[s].loaded
        /\ UNCHANGED <<file, trust, sh, op, decided, ev>>
    BY DEF Damage
  <1>2. DOMAIN sh' = Shells /\ DOMAIN op' = Shells /\ DOMAIN disk' = Shells
        /\ ShellOK(s) /\ OpOK(s) /\ DecisionOK(s)
        /\ \A t \in Shells \ {s} : op'[t] = op[t] /\ sh'[t] = sh[t] /\ disk'[t] = disk[t]
    BY <1>1 DEF IInv, OpInv, ShellInv, TrustInv
  <1>3. ShellOK(s)'
    BY <1>1, <1>2 DEF ShellOK
  <1>4. OpOK(s)' /\ DecisionOK(s)'
    BY <1>1, <1>2 DEF OpOK, DecisionOK, Stored, Stood, Working
  <1>. QED
    BY <1>1, <1>2, <1>3, <1>4, KeepOps, KeepShells, KeepTrust, SameFiles, SameEval DEF IInv

\* Only the records of shells that run no more are removed.
LEMMA RemoveDeadShellRecordOK == ASSUME IInv, NEW s \in Shells, RemoveDeadShellRecord(s) PROVE IInv'
  <1>1. UNCHANGED <<file, trust, sh, decided, ev>> /\ op[s].pc = "clean"
    BY DEF RemoveDeadShellRecord
  <1>2. sh[s].up /\ DOMAIN op[s] = {"pc", "force", "todo"} /\ DOMAIN op = Shells
        /\ DOMAIN sh = Shells /\ DOMAIN disk = Shells
    BY <1>1, ShellUp DEF Fields, IInv, OpInv, ShellInv
  <1>3. PICK e \in op[s].todo :
          \/ /\ op' = [op EXCEPT ![s].todo = @ \ {e}]
             /\ disk' = IF e[1] = "rec" /\ ~Spared(s, e[2])
                        THEN [disk EXCEPT ![e[2]] = None] ELSE disk
          \/ /\ op' = [op EXCEPT ![s].todo = {}]
             /\ UNCHANGED disk
    BY DEF RemoveDeadShellRecord
  <1>4. PICK todo : op' = [op EXCEPT ![s].todo = todo]
    BY <1>3
  <1>5. op'[s] = [op[s] EXCEPT !.todo = todo] /\ DOMAIN op' = Shells
        /\ \A t \in Shells \ {s} : op'[t] = op[t]
    BY <1>2, <1>4
  <1>6. op'[s].pc = "clean" /\ DOMAIN op'[s] = {"pc", "force", "todo"}
    BY <1>1, <1>2, <1>5
  <1>7. OpOK(s)' /\ DecisionOK(s)'
    BY <1>1, <1>2, <1>6 DEF OpOK, DecisionOK, Fields, OpPcs
  <1>8. DOMAIN disk' = Shells /\ \A t \in Shells : sh[t].up => disk'[t] = disk[t]
    <2>1. ASSUME NEW t \in Shells, sh[t].up, ~ Spared(s, t)
          PROVE  FALSE
      BY <2>1 DEF Spared, AliveIn
    <2>2. CASE disk' = disk
      BY <1>2, <2>2
    <2>3. CASE ~ Spared(s, e[2]) /\ disk' = [disk EXCEPT ![e[2]] = None]
      BY <1>2, <2>1, <2>3
    <2>. QED  BY <1>3, <2>2, <2>3
  <1>9. \A t \in Shells : ShellOK(t)'
    <2>1. ASSUME NEW t \in Shells PROVE ShellOK(t)'
      <3>1. ShellOK(t) /\ sh'[t] = sh[t] /\ (sh[t].up => disk'[t] = disk[t])
        BY <1>1, <1>8 DEF IInv, ShellInv
      <3>. QED  BY <3>1 DEF ShellOK
    <2>. QED  BY <2>1
  <1>10. ShellInv'
    BY <1>1, <1>2, <1>8, <1>9 DEF ShellInv
  <1>. QED
    BY <1>1, <1>5, <1>7, <1>10, KeepOps, KeepTrust, SameFiles, SameEval DEF IInv
-----------------------------------------------------------------------------
(* The entries of the trust store. *)

LEMMA PutFileOK ==
    ASSUME FileInv, NEW slot \in Slots, NEW c, file' = [file EXCEPT ![slot] = c],
           c = None \/ (c \in Contents /\ c.body \in Bodies(slot[2]))
    PROVE  FileInv'
  <1>1. DOMAIN file' = Slots /\ file'[slot] = c /\ \A x \in Slots \ {slot} : file'[x] = file[x]
    BY DEF FileInv
  <1>2. ASSUME NEW x \in Slots, file'[x] # None
        PROVE  file'[x] \in Contents /\ file'[x].body \in Bodies(x[2])
    <2>1. CASE x = slot
      BY <1>1, <1>2, <2>1
    <2>2. CASE x # slot
      <3>1. file'[x] = file[x]
        BY <1>1, <2>2
      <3>. QED  BY <1>2, <3>1 DEF FileInv
    <2>. QED  BY <2>1, <2>2
  <1>3. FileInv' = (DOMAIN file' = Slots /\ \A x \in Slots : file'[x] # None =>
                       file'[x] \in Contents /\ file'[x].body \in Bodies(x[2]))
    BY DEF FileInv
  <1>. QED  BY <1>1, <1>2, <1>3

LEMMA EditOK == ASSUME IInv, NEW slot \in Slots, Edit(slot) PROVE IInv'
  <1>1. UNCHANGED <<trust, disk, sh, op, decided, ev>>
    BY DEF Edit
  <1>2. FileInv
    BY DEF IInv
  <1>3. OpInv' /\ TrustInv'
    BY <1>1 DEF IInv, OpInv, OpOK, Stood, Working, TrustInv, EntryOK, DecisionOK, Stored
  <1>4. SUFFICES FileInv'
    BY <1>1, <1>3, SameShells, SameEval DEF IInv
  <1>5. CASE file' = [file EXCEPT ![slot] = None]
    BY <1>2, <1>5, PutFileOK
  <1>6. CASE \E b \in Bodies(slot[2]), later \in {0, 1} :
             file' = [file EXCEPT ![slot] = [body |-> b,
                        mtime |-> IF file[slot] = None THEN 1
                                  ELSE IF later = 1 THEN 3 - file[slot].mtime
                                  ELSE file[slot].mtime]]
    <2>1. PICK b \in Bodies(slot[2]), later \in {0, 1} :
             file' = [file EXCEPT ![slot] = [body |-> b,
                        mtime |-> IF file[slot] = None THEN 1
                                  ELSE IF later = 1 THEN 3 - file[slot].mtime
                                  ELSE file[slot].mtime]]
      BY <1>6
    <2>. DEFINE m == IF file[slot] = None THEN 1
                     ELSE IF later = 1 THEN 3 - file[slot].mtime ELSE file[slot].mtime
    <2>2. file[slot] # None => file[slot].mtime \in {1, 2}
      BY <1>2 DEF FileInv, Contents
    <2>3. m \in {1, 2}
      BY <2>2
    <2>4. file' = [file EXCEPT ![slot] = [body |-> b, mtime |-> m]]
      BY <2>1
    <2>. HIDE DEF m
    <2>5. slot[2] \in Kinds
      BY PathAssumption
    <2>6. [body |-> b, mtime |-> m] \in Contents
      BY <2>3, <2>5 DEF Contents
    <2>7. [body |-> b, mtime |-> m].body \in Bodies(slot[2])
      OBVIOUS
    <2>. QED  BY <1>2, <2>4, <2>6, <2>7, PutFileOK
  <1>7. \/ \E b \in Bodies(slot[2]), later \in {0, 1} :
             file' = [file EXCEPT ![slot] = [body |-> b,
                        mtime |-> IF file[slot] = None THEN 1
                                  ELSE IF later = 1 THEN 3 - file[slot].mtime
                                  ELSE file[slot].mtime]]
        \/ file' = [file EXCEPT ![slot] = None]
    BY DEF Edit
  <1>. QED  BY <1>5, <1>6, <1>7
-----------------------------------------------------------------------------
(* allow and deny. *)

LEMMA AllowOK == ASSUME IInv, NEW s \in Shells, Allow(s) PROVE IInv'
  <1>. DEFINE o == [pc |-> "allow", body |-> None, todo |-> Entries(FindEnvFiles(sh[s].cwd))]
  <1>1. op' = [op EXCEPT ![s] = o] /\ sh[s].up /\ UNCHANGED <<file, trust, disk, sh, decided, ev>>
    BY DEF Allow, Ready
  <1>2. op'[s] = o => OpOK(s)' /\ DecisionOK(s)'
    BY <1>1 DEF OpOK, DecisionOK, Fields, OpPcs
  <1>. HIDE DEF o
  <1>. QED  BY <1>1, <1>2, TurnOK

LEMMA DenyStartOK == ASSUME IInv, NEW s \in Shells, Deny(s) PROVE IInv'
  <1>. DEFINE o == [pc |-> "deny", at |-> 1, todo |-> Entries(FindEnvFiles(sh[s].cwd))]
  <1>1. op' = [op EXCEPT ![s] = o] /\ sh[s].up /\ UNCHANGED <<file, trust, disk, sh, decided, ev>>
    BY DEF Deny, Ready
  <1>2. op'[s] = o => OpOK(s)' /\ DecisionOK(s)'
    BY <1>1 DEF OpOK, DecisionOK, Fields, OpPcs
  <1>. HIDE DEF o
  <1>. QED  BY <1>1, <1>2, TurnOK

\* Nobody but allow writes an entry, and nobody writes a legacy entry; what a
\* decision leaves in the store is not replaced for those who are still writing.
LEMMA StoreOK ==
    ASSUME IInv, NEW s \in Shells, UNCHANGED <<file, disk, sh, ev>>,
           DOMAIN trust' = Slots, DOMAIN decided' = Slots, \A x \in Slots : EntryOK(x)',
           \A x \in Slots : trust'[x].legacy \in {trust[x].legacy, None},
           \A x \in Slots, t \in Shells \ {s} :
               Stored(x) \in decided[x].since[t] \cup {"torn", None}
               => Stored(x)' \in decided'[x].since[t] \cup {"torn", None},
           DOMAIN op' = Shells, \A t \in Shells \ {s} : op'[t] = op[t], OpOK(s)', DecisionOK(s)'
    PROVE  IInv'
  <1>1. \A t \in Shells \ {s} : DecisionOK(t)'
    <2>1. ASSUME NEW t \in Shells \ {s} PROVE DecisionOK(t)'
      <3>1. DecisionOK(t) /\ op'[t] = op[t]
        BY DEF IInv, TrustInv
      <3>2. ASSUME op[t].pc = "deny"
            PROVE  /\ op[t].at \in {1, 2}
                   /\ op[t].at = 2 /\ Head(op[t].todo) \in Slots => trust'[Head(op[t].todo)].legacy = None
        BY <3>1, <3>2 DEF DecisionOK
      <3>3. ASSUME op[t].pc = "allow", op[t].body # None, NEW slot \in Slots, slot = Head(op[t].todo)
            PROVE  Stored(slot)' \in decided'[slot].since[t] \cup {"torn", None}
        BY <3>1, <3>3 DEF DecisionOK
      <3>4. ASSUME op[t].pc = "trust", op[t].at = "legacy", NEW k \in Kinds,
                   k = NextKind(op[t].todo), <<op[t].found.dir, k>> \in Slots
            PROVE  trust'[<<op[t].found.dir, k>>].legacy \in op[t].grant[k] \cup {"torn", None}
        BY <3>1, <3>4 DEF DecisionOK
      <3>. QED  BY <3>1, <3>2, <3>3, <3>4 DEF DecisionOK
    <2>. QED  BY <2>1
  <1>2. TrustInv'
    BY <1>1 DEF TrustInv
  <1>. QED  BY <1>2, KeepOps, SameShells, SameFiles, SameEval DEF IInv

\* A body is allowed: it stands, for those who are still writing too.
LEMMA AllowedStands ==
    ASSUME NEW d, NEW s \in Shells, NEW b
    PROVE  /\ DOMAIN Allowed(d, s, b) = {"stand", "since"} /\ DOMAIN Allowed(d, s, b).since = Shells
           /\ Allowed(d, s, b).stand = d.since[s] \cup {b}
           /\ \A t \in Shells \ {s} : Allowed(d, s, b).since[t] = d.since[t] \cup {b}
  BY DEF Allowed

\* Writing an entry leaves it as it was, or with the content written.
LEMMA WriteEntryOK ==
    ASSUME NEW s \in Shells, NEW slot, NEW b, b # None, DOMAIN trust = Slots, WriteEntry(s, slot, b),
           \A x \in Slots : DOMAIN trust[x] = {"key", "legacy", "writers"}
    PROVE  /\ DOMAIN trust' = Slots
           /\ \A x \in Slots : /\ DOMAIN trust'[x] = {"key", "legacy", "writers"}
                               /\ trust'[x].legacy = trust[x].legacy
                               /\ x # slot => trust'[x] = trust[x]
                               /\ Stored(x)' = Stored(x) \/ (x = slot /\ Stored(x)' = b)
  <1>1. CASE UNCHANGED trust
    BY <1>1 DEF Stored
  <1>2. CASE trust' = [trust EXCEPT ![slot].key = b, ![slot].writers = @ \ {s}]
    <2>1. DOMAIN trust' = Slots
          /\ \A x \in Slots : trust'[x] = IF x = slot THEN [trust[x] EXCEPT !.key = b, !.writers = @ \ {s}]
                                            ELSE trust[x]
      BY <1>2
    <2>2. ASSUME NEW x \in Slots
          PROVE  /\ DOMAIN trust'[x] = {"key", "legacy", "writers"}
                 /\ trust'[x].legacy = trust[x].legacy
                 /\ x # slot => trust'[x] = trust[x]
                 /\ Stored(x)' = Stored(x) \/ (x = slot /\ Stored(x)' = b)
      <3>1. CASE x = slot
        <4>1. trust'[x] = [trust[x] EXCEPT !.key = b, !.writers = @ \ {s}]
          BY <2>1, <3>1
        <4>2. trust'[x].key = b /\ trust'[x].legacy = trust[x].legacy /\ DOMAIN trust'[x] = DOMAIN trust[x]
          BY <4>1
        <4>. QED  BY <3>1, <4>2 DEF Stored
      <3>2. CASE x # slot
        BY <2>1, <3>2 DEF Stored
      <3>. QED  BY <3>1, <3>2
    <2>. QED  BY <2>1, <2>2
  <1>. QED  BY <1>1, <1>2 DEF WriteEntry

LEMMA AllowFileOK == ASSUME IInv, NEW s \in Shells, AllowFile(s) PROVE IInv'
  <1>. DEFINE slot == Head(op[s].todo)
              body == op[s].body
  <1>1. op[s].pc = "allow" /\ sh[s].up /\ DOMAIN op[s] = {"pc", "body", "todo"}
        /\ DOMAIN op = Shells /\ UNCHANGED <<file, disk, sh, ev>>
    BY ShellUp DEF AllowFile, Fields, IInv, OpInv
  <1>2. DOMAIN trust = Slots /\ DOMAIN decided = Slots /\ (\A x \in Slots : EntryOK(x)) /\ DecisionOK(s)
    BY DEF IInv, TrustInv
  <1>3. CASE trust' = [trust EXCEPT ![slot].key = "torn", ![slot].writers = @ \cup {s}]
             /\ decided' = [decided EXCEPT ![slot] = Opened(@, s)]
             /\ op' = [op EXCEPT ![s].body = file[slot].body]
    <2>1. op'[s] = [op[s] EXCEPT !.body = file[slot].body] /\ DOMAIN op' = Shells
          /\ \A t \in Shells \ {s} : op'[t] = op[t]
      BY <1>1, <1>3
    <2>2. op'[s].pc = "allow" /\ DOMAIN op'[s] = {"pc", "body", "todo"} /\ op'[s].todo = op[s].todo
      BY <1>1, <2>1
    <2>3. DOMAIN trust' = Slots /\ DOMAIN decided' = Slots
          /\ \A x \in Slots :
                /\ trust'[x] = IF x = slot THEN [trust[x] EXCEPT !.key = "torn", !.writers = @ \cup {s}]
                               ELSE trust[x]
                /\ decided'[x] = IF x = slot THEN Opened(decided[x], s) ELSE decided[x]
      BY <1>2, <1>3
    <2>4. ASSUME NEW x \in Slots
          PROVE  /\ EntryOK(x)' /\ trust'[x].legacy \in {trust[x].legacy, None}
                 /\ x = slot => Stored(x)' = "torn"
                 /\ x # slot => Stored(x)' = Stored(x) /\ decided'[x] = decided[x]
      <3>1. CASE x = slot
        <4>1. trust'[x] = [trust[x] EXCEPT !.key = "torn", !.writers = @ \cup {s}]
              /\ decided'[x] = Opened(decided[x], s) /\ EntryOK(x)
          BY <1>2, <2>3, <3>1
        <4>2. trust'[x].key = "torn" /\ trust'[x].legacy = trust[x].legacy
              /\ DOMAIN trust'[x] = {"key", "legacy", "writers"}
          BY <4>1 DEF EntryOK
        <4>3. DOMAIN decided'[x] = {"stand", "since"} /\ DOMAIN decided'[x].since = Shells
          BY <4>1 DEF EntryOK, Opened
        <4>4. Stored(x)' = "torn"
          BY <4>2, NoneAssumption DEF Stored
        <4>. QED  BY <3>1, <4>2, <4>3, <4>4 DEF EntryOK
      <3>2. CASE x # slot
        BY <1>2, <2>3, <3>2 DEF EntryOK, Stored
      <3>. QED  BY <3>1, <3>2
    <2>5. OpOK(s)'
      BY <1>1, <2>2 DEF OpOK, Fields, OpPcs
    <2>6. DecisionOK(s)'
      BY <2>2, <2>4 DEF DecisionOK
    <2>. HIDE DEF slot
    <2>. QED  BY <1>1, <2>1, <2>3, <2>4, <2>5, <2>6, StoreOK
  <1>4. CASE /\ body # None /\ WriteEntry(s, slot, body)
             /\ decided' = [decided EXCEPT ![slot] = Allowed(@, s, body)]
             /\ op' = [op EXCEPT ![s].body = None, ![s].todo = Tail(@)]
    <2>1. op'[s] = [op[s] EXCEPT !.body = None, !.todo = Tail(@)] /\ DOMAIN op' = Shells
          /\ \A t \in Shells \ {s} : op'[t] = op[t]
      BY <1>1, <1>4
    <2>2. op'[s].pc = "allow" /\ DOMAIN op'[s] = {"pc", "body", "todo"} /\ op'[s].body = None
      BY <1>1, <2>1
    <2>3. OpOK(s)' /\ DecisionOK(s)'
      BY <1>1, <2>2 DEF OpOK, DecisionOK, Fields, OpPcs
    <2>4. \A x \in Slots : DOMAIN trust[x] = {"key", "legacy", "writers"}
      BY <1>2 DEF EntryOK
    <2>5. DOMAIN decided' = Slots
          /\ \A x \in Slots : decided'[x] = IF x = slot THEN Allowed(decided[x], s, body) ELSE decided[x]
      BY <1>2, <1>4
    <2>6. slot \in Slots => Stored(slot) \in decided[slot].since[s] \cup {"torn", None}
      BY <1>1, <1>2, <1>4 DEF DecisionOK
    <2>. HIDE DEF slot, body
    <2>7. /\ DOMAIN trust' = Slots
          /\ \A x \in Slots : /\ DOMAIN trust'[x] = {"key", "legacy", "writers"}
                              /\ trust'[x].legacy = trust[x].legacy
                              /\ x # slot => trust'[x] = trust[x]
                              /\ Stored(x)' = Stored(x) \/ (x = slot /\ Stored(x)' = body)
      BY <1>2, <1>4, <2>4, WriteEntryOK
    <2>8. ASSUME NEW x \in Slots
          PROVE  /\ EntryOK(x)'
                 /\ \A t \in Shells \ {s} :
                      Stored(x) \in decided[x].since[t] \cup {"torn", None}
                      => Stored(x)' \in decided'[x].since[t] \cup {"torn", None}
      <3>1. CASE x = slot
        <4>1. decided'[x] = Allowed(decided[x], s, body)
          BY <2>5, <3>1
        <4>. DEFINE d == decided'[x]
        <4>2. /\ DOMAIN d = {"stand", "since"} /\ DOMAIN d.since = Shells
              /\ d.stand = decided[x].since[s] \cup {body}
              /\ \A t \in Shells \ {s} : d.since[t] = decided[x].since[t] \cup {body}
          BY <4>1, AllowedStands
        <4>3. Stored(x)' = Stored(x) \/ Stored(x)' = body
          BY <2>7, <3>1
        <4>. QED  BY <2>6, <2>7, <3>1, <4>2, <4>3 DEF EntryOK
      <3>2. CASE x # slot
        <4>1. Stored(x)' = Stored(x) /\ decided'[x] = decided[x] /\ trust'[x] = trust[x]
          BY <2>5, <2>7, <3>2
        <4>. QED  BY <1>2, <4>1 DEF EntryOK
      <3>. QED  BY <3>1, <3>2
    <2>. QED  BY <1>1, <2>1, <2>3, <2>5, <2>7, <2>8, StoreOK
  <1>5. CASE Return(s) /\ UNCHANGED decided /\ UNCHANGED trust
    BY <1>1, <1>5, ReturnsOK
  <1>6. CASE Return(s) /\ UNCHANGED decided /\ WriteEntry(s, slot, "torn")
    <2>1. op'[s] = Idle /\ DOMAIN op' = Shells /\ \A t \in Shells \ {s} : op'[t] = op[t]
      BY <1>1, <1>6 DEF Return
    <2>2. \A x \in Slots : DOMAIN trust[x] = {"key", "legacy", "writers"}
      BY <1>2 DEF EntryOK
    <2>. HIDE DEF slot
    <2>3. /\ DOMAIN trust' = Slots
          /\ \A x \in Slots : /\ DOMAIN trust'[x] = {"key", "legacy", "writers"}
                              /\ trust'[x].legacy = trust[x].legacy
                              /\ Stored(x)' = Stored(x) \/ Stored(x)' = "torn"
      BY <1>2, <1>6, <2>2, NoneAssumption, WriteEntryOK
    <2>4. \A x \in Slots : EntryOK(x)'
      BY <1>2, <1>6, <2>3 DEF EntryOK
    <2>. QED  BY <1>1, <1>2, <1>6, <2>1, <2>3, <2>4, IdleOK, StoreOK
  <1>. HIDE DEF slot
  <1>. QED  BY <1>3, <1>4, <1>5, <1>6 DEF AllowFile, slot

\* The legacy entry goes first: while the entry is there it hides the other.
LEMMA DenyFileOK == ASSUME IInv, NEW s \in Shells, DenyFile(s) PROVE IInv'
  <1>. DEFINE slot == Head(op[s].todo)
              last == op[s].at = Len(DenyOrder)
  <1>1. op[s].pc = "deny" /\ sh[s].up /\ DOMAIN op[s] = {"pc", "at", "todo"} /\ DOMAIN op = Shells
        /\ UNCHANGED <<file, disk, sh, ev>>
    BY ShellUp DEF DenyFile, Fields, IInv, OpInv
  <1>2. DOMAIN trust = Slots /\ DOMAIN decided = Slots /\ (\A x \in Slots : EntryOK(x)) /\ DecisionOK(s)
    BY DEF IInv, TrustInv
  <1>3. op[s].at \in {1, 2} /\ (op[s].at = 2 /\ slot \in Slots => trust[slot].legacy = None)
    BY <1>1, <1>2 DEF DecisionOK
  <1>4. Len(DenyOrder) = 2 /\ DenyOrder[1] = "legacy" /\ DenyOrder[2] = "key"
    BY DEF DenyOrder
  <1>5. CASE op[s].at = 1 /\ trust' = [trust EXCEPT ![slot].legacy = None, ![slot].writers = @]
             /\ op' = [op EXCEPT ![s].at = 2, ![s].todo = op[s].todo] /\ UNCHANGED decided
    <2>1. op'[s] = [op[s] EXCEPT !.at = 2, !.todo = op[s].todo] /\ DOMAIN op' = Shells
          /\ \A t \in Shells \ {s} : op'[t] = op[t]
      BY <1>1, <1>5
    <2>2. op'[s].pc = "deny" /\ DOMAIN op'[s] = {"pc", "at", "todo"} /\ op'[s].at = 2
          /\ op'[s].todo = op[s].todo
      BY <1>1, <2>1
    <2>3. DOMAIN trust' = Slots
          /\ \A x \in Slots : trust'[x] = IF x = slot THEN [trust[x] EXCEPT !.legacy = None, !.writers = @]
                                            ELSE trust[x]
      BY <1>2, <1>5
    <2>4. ASSUME NEW x \in Slots
          PROVE  /\ EntryOK(x)' /\ trust'[x].legacy \in {trust[x].legacy, None}
                 /\ Stored(x)' \in {Stored(x), None} /\ (x = slot => trust'[x].legacy = None)
      <3>1. CASE x = slot
        <4>1. trust'[x] = [trust[x] EXCEPT !.legacy = None, !.writers = @] /\ EntryOK(x)
          BY <1>2, <2>3, <3>1
        <4>2. trust'[x].legacy = None /\ trust'[x].key = trust[x].key
              /\ DOMAIN trust'[x] = {"key", "legacy", "writers"}
          BY <4>1 DEF EntryOK
        <4>3. Stored(x)' \in {Stored(x), None}
          BY <4>2 DEF Stored
        <4>. QED  BY <1>5, <4>1, <4>2, <4>3 DEF EntryOK
      <3>2. CASE x # slot
        BY <1>2, <1>5, <2>3, <3>2 DEF EntryOK, Stored
      <3>. QED  BY <3>1, <3>2
    <2>6. OpOK(s)'
      BY <1>1, <2>2 DEF OpOK, Fields, OpPcs
    <2>7. DecisionOK(s)'
      BY <2>2, <2>4 DEF DecisionOK
    <2>8. \A x \in Slots, t \in Shells \ {s} :
            Stored(x) \in decided[x].since[t] \cup {"torn", None}
            => Stored(x)' \in decided'[x].since[t] \cup {"torn", None}
      BY <1>5, <2>4
    <2>. HIDE DEF slot
    <2>. QED  BY <1>1, <1>2, <1>5, <2>1, <2>3, <2>4, <2>6, <2>7, <2>8, StoreOK
  <1>6. CASE op[s].at = 2 /\ trust' = [trust EXCEPT ![slot].key = None, ![slot].writers = {}]
             /\ op' = [op EXCEPT ![s].at = 1, ![s].todo = Tail(op[s].todo)]
             /\ decided' = [decided EXCEPT ![slot] = Standing({})]
    <2>1. op'[s] = [op[s] EXCEPT !.at = 1, !.todo = Tail(op[s].todo)] /\ DOMAIN op' = Shells
          /\ \A t \in Shells \ {s} : op'[t] = op[t]
      BY <1>1, <1>6
    <2>2. op'[s].pc = "deny" /\ DOMAIN op'[s] = {"pc", "at", "todo"} /\ op'[s].at = 1
      BY <1>1, <2>1
    <2>3. /\ DOMAIN trust' = Slots /\ DOMAIN decided' = Slots
          /\ \A x \in Slots :
                /\ trust'[x] = IF x = slot THEN [trust[x] EXCEPT !.key = None, !.writers = {}] ELSE trust[x]
                /\ decided'[x] = IF x = slot THEN Standing({}) ELSE decided[x]
      BY <1>2, <1>6
    <2>4. ASSUME NEW x \in Slots
          PROVE  /\ EntryOK(x)' /\ trust'[x].legacy \in {trust[x].legacy, None}
                 /\ x = slot => Stored(x)' = None
                 /\ x # slot => Stored(x)' = Stored(x) /\ decided'[x] = decided[x]
      <3>1. CASE x = slot
        <4>1. trust'[x] = [trust[x] EXCEPT !.key = None, !.writers = {}] /\ EntryOK(x)
              /\ decided'[x] = Standing({})
          BY <1>2, <2>3, <3>1
        <4>2. trust'[x].legacy = trust[x].legacy /\ trust'[x].key = None
              /\ DOMAIN trust'[x] = {"key", "legacy", "writers"}
          BY <4>1 DEF EntryOK
        <4>3. Stored(x)' = None
          BY <1>3, <1>6, <3>1, <4>2 DEF Stored
        <4>4. DOMAIN decided'[x] = {"stand", "since"} /\ DOMAIN decided'[x].since = Shells
          BY <4>1 DEF Standing
        <4>. QED  BY <3>1, <4>2, <4>3, <4>4 DEF EntryOK
      <3>2. CASE x # slot
        BY <1>2, <2>3, <3>2 DEF EntryOK, Stored
      <3>. QED  BY <3>1, <3>2
    <2>5. OpOK(s)' /\ DecisionOK(s)'
      BY <1>1, <2>2 DEF OpOK, DecisionOK, Fields, OpPcs
    <2>6. \A x \in Slots, t \in Shells \ {s} :
            Stored(x) \in decided[x].since[t] \cup {"torn", None}
            => Stored(x)' \in decided'[x].since[t] \cup {"torn", None}
      BY <2>4
    <2>. HIDE DEF slot
    <2>. QED  BY <1>1, <2>1, <2>3, <2>4, <2>5, <2>6, StoreOK
  <1>7. CASE Return(s) /\ UNCHANGED <<trust, decided>>
    BY <1>1, <1>7, ReturnsOK
  <1>8. CASE
         /\ trust' = [trust EXCEPT ![slot][DenyOrder[op[s].at]] = None,
                        ![slot].writers = IF DenyOrder[op[s].at] = "key" THEN {} ELSE @]
         /\ op' = [op EXCEPT ![s].at = IF last THEN 1 ELSE @ + 1,
                             ![s].todo = IF last THEN Tail(@) ELSE @]
         /\ decided' = IF last THEN [decided EXCEPT ![slot] = Standing({})] ELSE decided
    <2>1. CASE op[s].at = 1
      <3>1. op' = [op EXCEPT ![s].at = 2, ![s].todo = op[s].todo]
        BY <1>1, <1>4, <1>8, <2>1
      <3>2. trust' = [trust EXCEPT ![slot].legacy = None, ![slot].writers = @] /\ decided' = decided
        BY <1>4, <1>8, <2>1
      <3>. QED  BY <1>5, <2>1, <3>1, <3>2
    <2>2. CASE op[s].at = 2
      <3>1. op' = [op EXCEPT ![s].at = 1, ![s].todo = Tail(op[s].todo)]
        BY <1>1, <1>4, <1>8, <2>2
      <3>2. trust' = [trust EXCEPT ![slot].key = None, ![slot].writers = {}]
            /\ decided' = [decided EXCEPT ![slot] = Standing({})]
        BY <1>4, <1>8, <2>2
      <3>. QED  BY <1>6, <2>2, <3>1, <3>2
    <2>. QED  BY <1>3, <2>1, <2>2
  <1>. HIDE DEF slot, last
  <1>. QED  BY <1>7, <1>8 DEF DenyFile, slot, last
-----------------------------------------------------------------------------
(* A refresh. *)

LEMMA LoadActiveOK == ASSUME IInv, NEW s \in Shells, LoadActive(s) PROVE IInv'
  <1>1. /\ op[s].pc = "load" /\ sh[s].up /\ ShellOK(s) /\ DOMAIN op[s] = {"pc", "force"}
        /\ UNCHANGED <<file, trust, decided, ev>>
        /\ DOMAIN op = Shells /\ DOMAIN sh = Shells /\ DOMAIN disk = Shells
    BY ShellUp DEF LoadActive, Fields, IInv, OpInv, ShellInv
  <1>2. CASE /\ disk' = IF sh[s].loaded THEN disk ELSE [disk EXCEPT ![s] = None]
             /\ sh' = [sh EXCEPT ![s].loaded = TRUE]
             /\ Go(s, "find")
    <2>1. /\ sh'[s] = [sh[s] EXCEPT !.loaded = TRUE] /\ op'[s] = [op[s] EXCEPT !.pc = "find"]
          /\ DOMAIN sh' = Shells /\ DOMAIN op' = Shells /\ DOMAIN disk' = Shells
          /\ disk'[s] = IF sh[s].loaded THEN disk[s] ELSE None
          /\ \A t \in Shells \ {s} : op'[t] = op[t] /\ sh'[t] = sh[t] /\ disk'[t] = disk[t]
      BY <1>1, <1>2 DEF Go
    <2>2. DOMAIN sh[s] = {"up", "pid", "ns", "cwd", "vars", "base", "mark", "active", "loaded"}
      BY <1>1 DEF ShellOK
    <2>3. /\ sh'[s].up = sh[s].up /\ sh'[s].cwd = sh[s].cwd /\ sh'[s].vars = sh[s].vars
          /\ sh'[s].active = sh[s].active /\ sh'[s].base = sh[s].base /\ sh'[s].loaded = TRUE
          /\ DOMAIN sh'[s] = DOMAIN sh[s]
      BY <2>1, <2>2
    <2>4. ShellOK(s)'
      BY <1>1, <2>1, <2>3 DEF ShellOK
    <2>5. op'[s].pc = "find" /\ DOMAIN op'[s] = {"pc", "force"}
      BY <1>1, <2>1
    <2>6. OpOK(s)' /\ DecisionOK(s)'
      BY <1>1, <2>3, <2>5 DEF OpOK, DecisionOK, Fields, OpPcs
    <2>. QED
      BY <1>1, <2>1, <2>4, <2>6, KeepOps, KeepShells, KeepTrust, SameFiles, SameEval DEF IInv
  <1>3. CASE Return(s) /\ UNCHANGED <<disk, sh>>
    BY <1>1, <1>3, ReturnsOK
  <1>. QED  BY <1>2, <1>3 DEF LoadActive

LEMMA LeastNatural ==
    ASSUME NEW T, T \subseteq Nat, T # {}
    PROVE  \E x \in T : \A y \in T : x <= y
  <1>1. PICK x \in T : \A y \in T : ~ (<<y, x>> \in OpToRel(<, Nat))
    BY NatLessThanWellFounded, WFMin
  <1>2. \A y \in T : ~ (y < x)
    BY <1>1 DEF OpToRel
  <1>. QED  BY <1>2

\* The directory found is on the path and its files are known.
LEMMA FoundFiles ==
    ASSUME FileInv, NEW start \in Dirs, FindEnvFiles(start) # None
    PROVE  FoundOK(FindEnvFiles(start))
  <1>. DEFINE hits == {i \in DOMAIN PathUp[start] : Present(PathUp[start][i]) # {}}
              at   == CHOOSE i \in hits : \A j \in hits : i <= j
              dir  == PathUp[start][at]
              mtime == [k \in Kinds |-> IF k \in Present(dir) THEN file[<<dir, k>>].mtime ELSE 0]
  <1>1. hits # {} /\ FindEnvFiles(start) = [dir |-> dir, mtime |-> mtime, kinds |-> Present(dir)]
    BY DEF FindEnvFiles
  <1>2. PathUp[start] \in Seq(Dirs)
    BY PathAssumption
  <1>3. hits \subseteq Nat
    BY <1>2
  <1>. HIDE DEF hits
  <1>4. at \in hits
    BY <1>1, <1>3, LeastNatural
  <1>. HIDE DEF at
  <1>5. dir \in Dirs
    BY <1>2, <1>4 DEF hits
  <1>. HIDE DEF dir
  <1>6. \A k \in Present(dir) : k \in Kinds /\ <<dir, k>> \in Slots /\ file[<<dir, k>>].mtime \in Nat
    <2>1. ASSUME NEW k \in Present(dir)
          PROVE  k \in Kinds /\ <<dir, k>> \in Slots /\ file[<<dir, k>>] # None
      BY PathAssumption DEF Present
    <2>2. \A slot \in Slots : file[slot] # None => file[slot].mtime \in Nat
      BY DEF FileInv, Contents
    <2>. QED  BY <2>1, <2>2
  <1>7. mtime \in [Kinds -> Nat]
    BY <1>6
  <1>. HIDE DEF mtime
  <1>8. Present(dir) # {}
    BY <1>4 DEF hits, dir
  <1>. QED  BY <1>1, <1>5, <1>6, <1>7, <1>8 DEF FoundOK

LEMMA FindFilesOK == ASSUME IInv, NEW s \in Shells, FindFiles(s) PROVE IInv'
  <1>. DEFINE found == FindEnvFiles(sh[s].cwd)
              o == [pc |-> "read", force |-> op[s].force, found |-> found]
  <1>1. op[s].pc = "find" /\ op' = [op EXCEPT ![s] = o]
        /\ UNCHANGED <<file, trust, disk, sh, decided, ev>>
    BY DEF FindFiles
  <1>2. sh[s].up /\ sh[s].loaded /\ sh[s].cwd \in Dirs
    BY <1>1, ShellUp DEF ShellOK
  <1>3. found = None \/ FoundOK(found)
    BY <1>2, FoundFiles DEF IInv
  <1>. HIDE DEF found
  <1>4. op'[s] = o => OpOK(s)' /\ DecisionOK(s)'
    BY <1>1, <1>2, <1>3 DEF OpOK, DecisionOK, Fields, OpPcs
  <1>. HIDE DEF o
  <1>. QED  BY <1>1, <1>4, TurnOK

LEMMA ReadTrustedCandidatesOK ==
    ASSUME IInv, NEW s \in Shells, ReadTrustedCandidates(s)
    PROVE  IInv'
  <1>. DEFINE found == op[s].found
              o(pc, b) == [pc |-> pc, force |-> op[s].force, found |-> found, bodies |-> b,
                           todo |-> DOMAIN b, at |-> "key", blocked |-> FALSE,
                           grant |-> [k \in DOMAIN b |-> {}]]
  <1>1. op[s].pc = "read" /\ UNCHANGED <<file, trust, disk, sh, decided, ev>>
    BY DEF ReadTrustedCandidates
  <1>2. sh[s].up /\ sh[s].loaded /\ (found = None \/ FoundOK(found))
    BY <1>1, ShellUp DEF OpOK
  <1>4. CASE found = None
    <2>1. op' = [op EXCEPT ![s] = o("check", <<>>)]
      BY <1>4 DEF ReadTrustedCandidates
    <2>2. op'[s] = o("check", <<>>) => OpOK(s)' /\ DecisionOK(s)'
      BY <1>1, <1>2, <1>4 DEF OpOK, DecisionOK, Fields, OpPcs
    <2>. HIDE DEF o
    <2>. QED  BY <1>1, <2>1, <2>2, TurnOK
  <1>5. CASE found # None /\ \A k \in found.kinds : file[<<found.dir, k>>] # None
    <2>. DEFINE b == [k \in found.kinds |-> file[<<found.dir, k>>].body]
    <2>1. op' = [op EXCEPT ![s] = o("trust", b)]
      BY <1>5 DEF ReadTrustedCandidates
    <2>2. ASSUME NEW k \in found.kinds PROVE b[k] \in Bodies(k)
      <3>1. <<found.dir, k>> \in Slots /\ file[<<found.dir, k>>] # None
        BY <1>2, <1>5 DEF FoundOK
      <3>2. file[<<found.dir, k>>].body \in Bodies(<<found.dir, k>>[2])
        BY <3>1 DEF IInv, FileInv
      <3>. QED  BY <3>2
    <2>3. BodiesOK(found, b) /\ DOMAIN b = found.kinds
      BY <2>2 DEF BodiesOK
    <2>4. FoundOK(found) /\ found.kinds # {}
      BY <1>2, <1>5 DEF FoundOK
    <2>. HIDE DEF b
    <2>5. o("trust", b).pc = "trust" /\ o("trust", b).found = found /\ o("trust", b).bodies = b
          /\ o("trust", b).todo = found.kinds /\ DOMAIN o("trust", b).grant = found.kinds
          /\ o("trust", b).at = "key" /\ DOMAIN o("trust", b) = Fields("trust")
      BY <2>3 DEF Fields
    <2>. HIDE DEF o, found
    <2>6. ASSUME op'[s] = o("trust", b) PROVE OpOK(s)' /\ DecisionOK(s)'
      <3>1. Stood(op'[s], found.kinds \ found.kinds)
        BY DEF Stood
      <3>2. OpOK(s)'
        BY <1>1, <1>2, <2>3, <2>4, <2>5, <2>6, <3>1 DEF OpOK, OpPcs
      <3>. QED  BY <2>5, <2>6, <3>2 DEF DecisionOK
    <2>. QED  BY <1>1, <2>1, <2>6, TurnOK
  <1>6. CASE Return(s)
    BY <1>1, <1>6, ReturnsOK
  <1>. HIDE DEF o
  <1>. QED  BY <1>4, <1>5, <1>6 DEF ReadTrustedCandidates

\* A file is allowed only when its bytes stood as the key's entry was read.
LEMMA IsAllowedInOK == ASSUME IInv, NEW s \in Shells, IsAllowedIn(s) PROVE IInv'
  <1>. DEFINE o == op[s]
              k == NextKind(o.todo)
              slot == <<o.found.dir, k>>
              entry == trust[slot][o.at]
              grant == IF o.at = "key" THEN decided[slot].stand ELSE o.grant[k]
  <1>1. o.pc = "trust" /\ UNCHANGED <<file, trust, disk, sh, decided, ev>>
    BY DEF IsAllowedIn
  <1>2. sh[s].up /\ sh[s].loaded /\ OpOK(s) /\ DOMAIN o = Fields("trust") /\ DOMAIN op = Shells
        /\ DecisionOK(s)
    BY <1>1, ShellUp DEF IInv, OpInv, TrustInv
  <1>3. /\ FoundOK(o.found) /\ BodiesOK(o.found, o.bodies)
        /\ o.todo # {} /\ o.todo \subseteq o.found.kinds
        /\ DOMAIN o.grant = o.found.kinds /\ Stood(o, o.found.kinds \ o.todo)
    BY <1>1, <1>2 DEF OpOK
  <1>4. k \in o.todo /\ k \in Kinds /\ slot \in Slots /\ o.bodies[k] \in Bodies(k)
    <2>1. o.todo \subseteq Kinds
      BY <1>3 DEF FoundOK
    <2>2. k \in o.todo
      BY <1>3, <2>1 DEF NextKind, Kinds
    <2>. QED  BY <1>3, <2>1, <2>2 DEF FoundOK, BodiesOK
  <1>5. o.bodies[k] # None /\ o.bodies[k] # "torn"
    BY <1>4, NoneAssumption
  <1>6. EntryOK(slot)
    BY <1>4 DEF IInv, TrustInv
  <1>. DEFINE Fixed(x) == /\ DOMAIN x = Fields("trust") /\ x.found = o.found /\ x.bodies = o.bodies
  <1>7. CASE /\ o.at = "key" /\ entry = None
             /\ op' = [op EXCEPT ![s].at = "legacy", ![s].grant[k] = grant]
    <2>. DEFINE x == [o EXCEPT !.at = "legacy", !.grant[k] = grant]
    <2>1. op' = [op EXCEPT ![s] = x]
      BY <1>2, <1>7
    <2>2. /\ Fixed(x) /\ x.pc = "trust" /\ x.todo = o.todo /\ x.at = "legacy"
          /\ DOMAIN x.grant = DOMAIN o.grant /\ x.grant[k] = decided[slot].stand
          /\ \A j \in DOMAIN o.grant \ {k} : x.grant[j] = o.grant[j]
      BY <1>1, <1>2, <1>3, <1>4, <1>7 DEF Fields
    <2>3. Stood(x, o.found.kinds \ o.todo)
      BY <1>3, <1>4, <2>2 DEF Stood
    <2>4. trust[slot].legacy \in decided[slot].stand \cup {"torn", None}
      BY <1>6, <1>7 DEF EntryOK, Stored
    <2>. HIDE DEF x, k, slot
    <2>5. ASSUME op'[s] = x PROVE OpOK(s)' /\ DecisionOK(s)'
      <3>1. OpOK(s)'
        BY <1>1, <1>2, <1>3, <2>2, <2>3, <2>5 DEF OpOK, OpPcs
      <3>2. /\ op'[s].pc = "trust" /\ op'[s].at = "legacy" /\ op'[s].grant[k] = decided[slot].stand
            /\ NextKind(op'[s].todo) = k /\ <<op'[s].found.dir, k>> = slot /\ trust' = trust
        BY <1>1, <2>2, <2>5 DEF k, slot
      <3>3. ASSUME NEW j \in Kinds, j = NextKind(op'[s].todo)
            PROVE  trust'[<<op'[s].found.dir, j>>].legacy \in op'[s].grant[j] \cup {"torn", None}
        BY <2>4, <3>2, <3>3
      <3>. QED  BY <3>1, <3>2, <3>3 DEF DecisionOK
    <2>. QED  BY <1>1, <2>1, <2>5, TurnOK
  <1>8. CASE /\ entry = o.bodies[k]
             /\ op' = [op EXCEPT ![s].at = "key", ![s].todo = @ \ {k}, ![s].grant[k] = grant,
                                 ![s].pc = IF o.todo = {k} THEN "check" ELSE "trust"]
    <2>. DEFINE x == [o EXCEPT !.at = "key", !.todo = @ \ {k}, !.grant[k] = grant,
                              !.pc = IF o.todo = {k} THEN "check" ELSE "trust"]
    <2>1. op' = [op EXCEPT ![s] = x]
      BY <1>2, <1>8
    <2>2. /\ Fixed(x) /\ x.pc = (IF o.todo = {k} THEN "check" ELSE "trust")
          /\ x.todo = o.todo \ {k} /\ x.at = "key"
          /\ DOMAIN x.grant = DOMAIN o.grant /\ x.grant[k] = grant
          /\ \A j \in DOMAIN o.grant \ {k} : x.grant[j] = o.grant[j]
      BY <1>1, <1>2, <1>3, <1>4, <1>8 DEF Fields
    <2>3. o.bodies[k] \in grant
      <3>1. CASE o.at = "key"
        <4>1. trust[slot].key = o.bodies[k]
          BY <1>8, <3>1
        <4>. QED  BY <1>5, <1>6, <3>1, <4>1 DEF EntryOK, Stored
      <3>2. CASE o.at # "key"
        <4>1. o.at = "legacy" => trust[slot].legacy \in o.grant[k] \cup {"torn", None}
          BY <1>1, <1>2, <1>4 DEF DecisionOK
        <4>2. o.at = "legacy"
          BY <1>1, <1>2, <3>2 DEF OpOK
        <4>3. trust[slot].legacy = o.bodies[k]
          BY <1>8, <4>2
        <4>. QED  BY <1>5, <3>2, <4>1, <4>2, <4>3
      <3>. QED  BY <3>1, <3>2
    <2>. HIDE DEF grant
    <2>4. Stood(x, o.found.kinds \ x.todo)
      BY <1>3, <2>2, <2>3 DEF Stood
    <2>. HIDE DEF x, k
    <2>5. ASSUME op'[s] = x PROVE OpOK(s)' /\ DecisionOK(s)'
      <3>1. OpOK(s)'
        BY <1>1, <1>2, <1>3, <1>4, <2>2, <2>4, <2>5 DEF OpOK, OpPcs, Fields
      <3>. QED  BY <1>1, <2>2, <2>5, <3>1 DEF DecisionOK
    <2>. QED  BY <1>1, <2>1, <2>5, TurnOK
  <1>9. CASE op' = [op EXCEPT ![s].pc = "check", ![s].blocked = TRUE]
    <2>. DEFINE x == [o EXCEPT !.pc = "check", !.blocked = TRUE]
    <2>1. op' = [op EXCEPT ![s] = x]
      BY <1>2, <1>9
    <2>2. Fixed(x) /\ x.pc = "check" /\ x.blocked
      BY <1>2 DEF Fields
    <2>. HIDE DEF x
    <2>3. ASSUME op'[s] = x PROVE OpOK(s)' /\ DecisionOK(s)'
      <3>1. OpOK(s)'
        BY <1>1, <1>2, <1>3, <2>2, <2>3 DEF OpOK, OpPcs, Fields
      <3>. QED  BY <1>1, <2>2, <2>3, <3>1 DEF DecisionOK
    <2>. QED  BY <1>1, <2>1, <2>3, TurnOK
  <1>. HIDE DEF o, k, entry, grant, slot
  <1>. QED  BY <1>7, <1>8, <1>9 DEF IsAllowedIn, o, k, entry, grant, slot

LEMMA EvalEnvOK == ASSUME NEW s, NEW bodies PROVE EvalOK(EvalEnv(s, bodies))
  <1>1. EvalEnv(s, bodies) \in {[phase |-> "plain"], [phase |-> "whole"], StartBash, StartEpsh}
    BY DEF EvalEnv
  <1>2. EvalOK([phase |-> "plain"]) /\ EvalOK([phase |-> "whole"])
    BY DEF EvalOK
  <1>. QED  BY <1>1, <1>2, StartOK

LEMMA CheckTrustOK == ASSUME IInv, NEW s \in Shells, CheckTrust(s) PROVE IInv'
  <1>. DEFINE o == op[s]
              w == Working(s)
              blocked == o.blocked
              error == (~blocked /\ BadDotenv(o.bodies)) \/ (~Keeps(s) /\ w = Refused)
              m == IF blocked THEN DirtyMark ELSE NoMark
              e == [pc |-> "eval", found |-> o.found, bodies |-> o.bodies, grant |-> o.grant]
  <1>1. op[s].pc = "check" /\ UNCHANGED <<file, trust, disk, sh, decided>>
    BY DEF CheckTrust
  <1>2. sh[s].up /\ sh[s].loaded /\ ShellOK(s) /\ OpOK(s) /\ DOMAIN op = Shells
    BY <1>1, ShellUp DEF IInv, OpInv
  <1>3. w # Refused => Layered(w, None, sh[s].base)
    BY <1>2, WorkingExact DEF Layered, Covered
  <1>4. \/ Return(s) /\ UNCHANGED ev
        \/ w # Refused /\ op' = [op EXCEPT ![s] = Outcome("clear", None, w, m)] /\ UNCHANGED ev
        \/ /\ w # Refused /\ o.found # None /\ ~ blocked
           /\ op' = [op EXCEPT ![s] = e] /\ ev' = [ev EXCEPT ![s] = EvalEnv(s, o.bodies)]
    <2>1. CASE error \/ Keeps(s)
      BY <2>1 DEF CheckTrust
    <2>2. CASE ~ error /\ ~ Keeps(s) /\ (o.found = None \/ blocked)
      BY <2>2 DEF CheckTrust
    <2>3. CASE ~ error /\ ~ Keeps(s) /\ ~ (o.found = None \/ blocked)
      BY <2>3 DEF CheckTrust
    <2>. QED  BY <2>1, <2>2, <2>3
  <1>5. CASE Return(s) /\ UNCHANGED ev
    BY <1>1, <1>5, ReturnsOK
  <1>6. CASE w # Refused /\ op' = [op EXCEPT ![s] = Outcome("clear", None, w, m)] /\ UNCHANGED ev
    <2>. HIDE DEF w, m
    <2>. DEFINE c == Outcome("clear", None, w, m)
    <2>1. op'[s] = c => OpOK(s)' /\ DecisionOK(s)'
      BY <1>1, <1>2, <1>3, <1>6 DEF OpOK, DecisionOK, Fields, OpPcs, Outcome
    <2>. HIDE DEF c
    <2>. QED  BY <1>1, <1>6, <2>1, TurnOK DEF c
  <1>7. CASE /\ w # Refused /\ o.found # None /\ ~ blocked
             /\ op' = [op EXCEPT ![s] = e] /\ ev' = [ev EXCEPT ![s] = EvalEnv(s, o.bodies)]
    <2>1. FoundOK(o.found) /\ BodiesOK(o.found, o.bodies) /\ Stood(o, o.found.kinds)
      BY <1>1, <1>2, <1>7 DEF OpOK
    <2>3. Stood(e, o.found.kinds)
      BY <2>1 DEF Stood
    <2>4. DOMAIN op' = Shells /\ op'[s] = e /\ \A t \in Shells \ {s} : op'[t] = op[t]
      BY <1>2, <1>7
    <2>. HIDE DEF o
    <2>5. Working(s)' # Refused
      BY <1>1, <1>7 DEF Working
    <2>6. OpOK(s)' /\ DecisionOK(s)'
      BY <1>1, <1>2, <2>1, <2>3, <2>4, <2>5 DEF OpOK, DecisionOK, Fields, OpPcs
    <2>7. EvalInv'
      BY <1>7, EvalEnvOK, PutOK DEF IInv
    <2>. QED  BY <1>1, <2>4, <2>6, <2>7, KeepOps, SameShells, KeepTrust, SameFiles DEF IInv
  <1>. QED  BY <1>4, <1>5, <1>6, <1>7
-----------------------------------------------------------------------------
(* The layer that is put on. *)

\* What a project leaves of a name is a value, or nothing.
LEMMA AfterOK ==
    ASSUME NEW found, NEW bodies, BodiesOK(found, bodies), FoundOK(found),
           NEW env \in Bindings, NEW n \in Names
    PROVE  After(bodies, env, n) \in Values \cup Typed \cup {Drop}
  <1>1. ASSUME NEW k \in Kinds, k \in DOMAIN bodies
        PROVE  Effect(bodies[k])[n] \in Values \cup {Leave, Drop}
    <2>1. k \in found.kinds /\ bodies[k] \in Bodies(k)
      BY <1>1 DEF BodiesOK
    <2>. QED  BY <2>1, EffectAssumption
  <1>2. LoadDotenvEntries(bodies)[n] # Leave =>
          LoadDotenvEntries(bodies)[n] \in Values \cup {Drop}
    BY <1>1 DEF LoadDotenvEntries, Kinds
  <1>3. "envrc" \in DOMAIN bodies /\ Effect(bodies["envrc"])[n] # Leave =>
          Effect(bodies["envrc"])[n] \in Values \cup {Drop}
    BY <1>1 DEF Kinds
  <1>4. n \in Environment(env) => env[n].val \in Values \cup Typed
    BY DEF Environment, Bindings, Binding
  <1>5. "dotenv" \in DOMAIN bodies /\ Effect(bodies["dotenv"])[n] # Leave =>
          LoadDotenvEntries(bodies)[n] # Leave
    BY DEF LoadDotenvEntries
  <1>. QED  BY <1>2, <1>3, <1>4, <1>5 DEF After

LEMMA LayerBinding ==
    ASSUME NEW base \in Bindings, NEW n \in Names, NEW x \in Values \cup Typed
    PROVE  /\ Export(SetBytes(base, n, x), n)[n] \in Binding
           /\ Export(SetBytes(base, n, x), n)[n].bound
  <1>1. base \in [Names -> Binding] /\ base[n] \in Binding
    BY DEF Bindings
  <1>. DEFINE b == [base[n] EXCEPT !.val = x, !.bound = TRUE]
  <1>2. SetBytes(base, n, x) \in [Names -> Binding] /\ SetBytes(base, n, x)[n] = b
    BY <1>1 DEF SetBytes, Binding
  <1>3. b \in Binding
    BY <1>1 DEF Binding
  <1>. HIDE DEF b
  <1>. DEFINE set == SetBytes(base, n, x)
  <1>. HIDE DEF set
  <1>4. Export(set, n)[n] = [b EXCEPT !.exported = TRUE, !.bound = TRUE]
    BY <1>2 DEF Export, set
  <1>5. [b EXCEPT !.exported = TRUE, !.bound = TRUE] \in Binding
        /\ [b EXCEPT !.exported = TRUE, !.bound = TRUE].bound
    BY <1>3 DEF Binding
  <1>. QED  BY <1>4, <1>5 DEF set

LEMMA LayerOK ==
    ASSUME NEW s \in Shells, ShellOK(s), OpOK(s), op[s].pc = "eval", sh[s].up, Layer(s) # Idle
    PROVE  \E mark : \E record, to : /\ Layer(s) = Outcome("save", record, to, mark)
                                     /\ Layered(to, record, sh[s].base)
  <1>. DEFINE o == op[s]  base == sh[s].base
              D == DiffSortedEnv(o.bodies, base)
              changes == ApplyDiff(o.bodies, base)
              to == ApplyChanges(base, changes)
              record == [dir |-> o.found.dir, mtime |-> o.found.mtime, prev |-> CapturePrev(D, base)]
              mark == [state |-> [dir |-> o.found.dir, mtime |-> o.found.mtime], dirty |-> FALSE]
  <1>1. Working(s) = base /\ base \in Bindings /\ FoundOK(o.found) /\ BodiesOK(o.found, o.bodies)
    BY WorkingExact DEF OpOK
  <1>2. to # Refused /\ Layer(s) = Outcome("save", record, to, mark)
    BY <1>1 DEF Layer
  <1>3. D \subseteq Names /\ DOMAIN changes = D
    BY DEF DiffSortedEnv, ApplyDiff
  <1>. HIDE DEF o, base, mark
  <1>4. ASSUME NEW n \in D PROVE changes[n] \in Binding /\ (~ changes[n].bound => changes[n] = Unset)
    <2>. DEFINE x == After(o.bodies, base, n)
    <2>1. x \in Values \cup Typed \cup {Drop}
      BY <1>1, <1>3, AfterOK
    <2>2. changes[n] = IF x = Drop THEN Unset ELSE Export(SetBytes(base, n, x), n)[n]
      BY DEF ApplyDiff
    <2>. HIDE DEF x, changes
    <2>3. CASE x = Drop
      BY <2>2, <2>3, UnsetBinding
    <2>4. CASE x # Drop
      BY <1>1, <1>3, <2>1, <2>2, <2>4, LayerBinding
    <2>. QED  BY <2>3, <2>4
  <1>. HIDE DEF changes, D
  <1>5. (\A n \in D : ~ base[n].readonly)
        /\ to = [n \in Names |-> IF n \in D THEN changes[n] ELSE base[n]]
    BY <1>2, <1>3 DEF ApplyChanges
  <1>. HIDE DEF to
  <1>6. to \in Bindings
    <2>1. ASSUME NEW n \in Names PROVE to[n] \in Binding /\ (~ to[n].bound => to[n] = Unset)
      BY <1>1, <1>4, <1>5, <2>1 DEF Bindings
    <2>2. to \in [Names -> Binding]
      BY <1>5, <2>1
    <2>. QED  BY <2>1, <2>2 DEF Bindings
  <1>7. record # None
    <2>. DEFINE prev == CapturePrev(D, base)
    <2>1. ASSUME NEW n \in D PROVE prev[n] \in Saved
      <3>1. base[n] \in Binding
        BY <1>1, <1>3 DEF Bindings
      <3>2. prev[n] = IF ~base[n].bound THEN [kind |-> "unset"]
                      ELSE IF base[n].val = None THEN [kind |-> "unassigned", exported |-> base[n].exported]
                      ELSE [kind |-> "restore", val |-> base[n].val, exported |-> base[n].exported]
        BY DEF CapturePrev
      <3>. HIDE DEF prev
      <3>. DEFINE b == base[n]
      <3>3. b.exported \in BOOLEAN /\ b.val \in Values \cup Typed \cup {None}
        BY <3>1 DEF Binding
      <3>. HIDE DEF b
      <3>4. CASE prev[n] = [kind |-> "unset"]
        BY <3>4 DEF Saved
      <3>5. CASE prev[n] = [kind |-> "unassigned", exported |-> b.exported]
        BY <3>3, <3>5 DEF Saved
      <3>6. CASE b.val # None /\ prev[n] = [kind |-> "restore", val |-> b.val, exported |-> b.exported]
        BY <3>3, <3>6 DEF Saved
      <3>. QED  BY <3>2, <3>4, <3>5, <3>6 DEF b
    <2>2. prev \in [D -> Saved]
      BY <2>1 DEF CapturePrev
    <2>. HIDE DEF prev
    <2>3. [D -> Saved] \in {[T -> Saved] : T \in SUBSET Names}
      BY <1>3
    <2>4. prev \in UNION {[T -> Saved] : T \in SUBSET Names}
      BY <2>2, <2>3
    <2>5. o.found.dir \in Dirs /\ o.found.mtime \in [Kinds -> Nat]
      BY <1>1 DEF FoundOK
    <2>. DEFINE Prevs == UNION {[T -> Saved] : T \in SUBSET Names}
                Times == [Kinds -> Nat]
    <2>6. None \notin [dir : Dirs, mtime : Times, prev : Prevs] /\ prev \in Prevs /\ o.found.mtime \in Times
      BY <2>4, <2>5, NoneAssumption
    <2>. HIDE DEF Prevs, Times
    <2>. QED  BY <2>5, <2>6 DEF prev
  <1>8. Covered(record) = D /\ record.prev = CapturePrev(D, base)
    BY <1>7 DEF Covered, CapturePrev
  <1>. HIDE DEF record
  <1>9. Layered(to, record, base)
    BY <1>1, <1>3, <1>5, <1>6, <1>8 DEF Layered
  <1>. QED  BY <1>2, <1>9 DEF base

LEMMA EvaluatedOK == ASSUME IInv, NEW s \in Shells, Evaluated(s) PROVE IInv'
  <1>1. op[s].pc = "eval" /\ UNCHANGED <<file, trust, disk, sh, decided>> /\ ev' = [ev EXCEPT ![s] = NoEval]
    BY DEF Evaluated
  <1>2. sh[s].up /\ sh[s].loaded /\ ShellOK(s) /\ OpOK(s) /\ DOMAIN op = Shells
    BY <1>1, ShellUp DEF IInv, OpInv
  <1>3. Layered(Working(s), None, sh[s].base)
    BY <1>1, <1>2, WorkingExact DEF OpOK, Layered, Covered
  <1>4. EvalInv'
    BY <1>1, NoEvalOK, PutOK DEF IInv
  <1>5. ASSUME NEW o, op' = [op EXCEPT ![s] = o], op'[s] = o => OpOK(s)' /\ DecisionOK(s)'
        PROVE  IInv'
    <2>1. DOMAIN op' = Shells /\ op'[s] = o /\ \A t \in Shells \ {s} : op'[t] = op[t]
      BY <1>2, <1>5
    <2>. QED  BY <1>1, <1>4, <1>5, <2>1, KeepOps, SameShells, KeepTrust, SameFiles DEF IInv
  <1>6. CASE op' = [op EXCEPT ![s] = Outcome("clear", None, Working(s), DirtyMark)]
    <2>. DEFINE w == Working(s)
    <2>. HIDE DEF w
    <2>. DEFINE c == Outcome("clear", None, w, DirtyMark)
    <2>1. op'[s] = c => OpOK(s)' /\ DecisionOK(s)'
      BY <1>1, <1>2, <1>3 DEF OpOK, DecisionOK, Fields, OpPcs, Outcome, w
    <2>. HIDE DEF c
    <2>. QED  BY <1>5, <1>6, <2>1 DEF c, w
  <1>7. CASE op' = [op EXCEPT ![s] = Layer(s)]
    <2>1. CASE Layer(s) = Idle
      BY <1>5, <1>7, <2>1, IdleOK
    <2>2. CASE Layer(s) # Idle
      <3>1. PICK mark : \E record, to : /\ Layer(s) = Outcome("save", record, to, mark)
                                        /\ Layered(to, record, sh[s].base)
        BY <1>1, <1>2, <2>2, LayerOK
      <3>2. PICK record, to : /\ Layer(s) = Outcome("save", record, to, mark)
                              /\ Layered(to, record, sh[s].base)
        BY <3>1
      <3>. DEFINE c == Outcome("save", record, to, mark)
      <3>3. op'[s] = c => OpOK(s)' /\ DecisionOK(s)'
        BY <1>1, <1>2, <3>2 DEF OpOK, DecisionOK, Fields, OpPcs, Outcome
      <3>. HIDE DEF c
      <3>. QED  BY <1>5, <1>7, <3>2, <3>3 DEF c
    <2>. QED  BY <2>1, <2>2
  <1>. QED  BY <1>6, <1>7 DEF Evaluated
-----------------------------------------------------------------------------
(* The record and the variables are published together. *)

LEMMA PublishOK ==
    ASSUME IInv, NEW s \in Shells, op[s].pc \in {"clear", "rename"}, Publish(s), Return(s),
           disk' = [disk EXCEPT ![s] = op[s].record], UNCHANGED <<file, trust, decided, ev>>
    PROVE  IInv'
  <1>1. /\ sh[s].up /\ sh[s].loaded /\ ShellOK(s) /\ OpOK(s)
        /\ DOMAIN op = Shells /\ DOMAIN sh = Shells /\ DOMAIN disk = Shells
    BY ShellUp DEF IInv, OpInv, ShellInv
  <1>2. /\ sh'[s] = [sh[s] EXCEPT !.vars = op[s].to, !.mark = op[s].mark, !.active = op[s].record]
        /\ op'[s] = Idle /\ disk'[s] = op[s].record
        /\ DOMAIN sh' = Shells /\ DOMAIN op' = Shells /\ DOMAIN disk' = Shells
        /\ \A t \in Shells \ {s} : op'[t] = op[t] /\ sh'[t] = sh[t] /\ disk'[t] = disk[t]
    BY <1>1 DEF Publish, Return
  <1>3. DOMAIN sh[s] = {"up", "pid", "ns", "cwd", "vars", "base", "mark", "active", "loaded"}
    BY <1>1 DEF ShellOK
  <1>4. /\ sh'[s].up = sh[s].up /\ sh'[s].cwd = sh[s].cwd /\ sh'[s].vars = op[s].to
        /\ sh'[s].active = op[s].record /\ sh'[s].base = sh[s].base /\ sh'[s].loaded = sh[s].loaded
        /\ DOMAIN sh'[s] = DOMAIN sh[s]
    BY <1>2, <1>3
  <1>5. Layered(op[s].to, op[s].record, sh[s].base)
    BY <1>1 DEF OpOK
  <1>6. ShellOK(s)'
    BY <1>1, <1>2, <1>4, <1>5 DEF ShellOK
  <1>7. OpOK(s)' /\ DecisionOK(s)'
    BY <1>2, IdleOK
  <1>. QED
    BY <1>2, <1>6, <1>7, KeepOps, KeepShells, KeepTrust, SameFiles, SameEval DEF IInv

LEMMA ClearActiveOK == ASSUME IInv, NEW s \in Shells, ClearActive(s) PROVE IInv'
  <1>1. op[s].pc = "clear" /\ Return(s) /\ UNCHANGED <<file, trust, decided, ev>>
    BY DEF ClearActive
  <1>2. op[s].record = None
    BY <1>1, ShellUp DEF OpOK
  <1>3. CASE disk' = [disk EXCEPT ![s] = None] /\ Publish(s)
    BY <1>1, <1>2, <1>3, PublishOK
  <1>4. CASE UNCHANGED <<disk, sh>>
    BY <1>1, <1>4, ReturnsOK
  <1>. QED  BY <1>3, <1>4 DEF ClearActive

LEMMA SaveTemporaryOK == ASSUME IInv, NEW s \in Shells, SaveTemporary(s) PROVE IInv'
  <1>1. op[s].pc = "save" /\ UNCHANGED <<file, trust, disk, sh, decided, ev>>
    BY DEF SaveTemporary
  <1>2. sh[s].up /\ sh[s].loaded /\ OpOK(s) /\ DOMAIN op = Shells
        /\ DOMAIN op[s] = {"pc", "record", "to", "mark"}
    BY <1>1, ShellUp DEF IInv, OpInv, Fields
  <1>3. CASE Go(s, "rename")
    <2>. DEFINE o == [op[s] EXCEPT !.pc = "rename"]
    <2>1. op' = [op EXCEPT ![s] = o]
      BY <1>3 DEF Go
    <2>2. o.pc = "rename" /\ o.record = op[s].record /\ o.to = op[s].to /\ DOMAIN o = DOMAIN op[s]
      BY <1>2
    <2>3. Layered(op[s].to, op[s].record, sh[s].base)
      BY <1>1, <1>2 DEF OpOK
    <2>. HIDE DEF o
    <2>4. op'[s] = o => OpOK(s)' /\ DecisionOK(s)'
      BY <1>1, <1>2, <2>2, <2>3 DEF OpOK, DecisionOK, Fields, OpPcs
    <2>. QED  BY <1>1, <2>1, <2>4, TurnOK
  <1>4. CASE Return(s)
    BY <1>1, <1>4, ReturnsOK
  <1>. QED  BY <1>3, <1>4 DEF SaveTemporary

LEMMA SaveActiveOK == ASSUME IInv, NEW s \in Shells, SaveActive(s) PROVE IInv'
  <1>1. op[s].pc = "rename" /\ Return(s) /\ UNCHANGED <<file, trust, decided, ev>>
    BY DEF SaveActive
  <1>2. CASE disk' = [disk EXCEPT ![s] = op[s].record] /\ Publish(s)
    BY <1>1, <1>2, PublishOK
  <1>3. CASE UNCHANGED <<disk, sh>>
    BY <1>1, <1>3, ReturnsOK
  <1>. QED  BY <1>2, <1>3 DEF SaveActive

-----------------------------------------------------------------------------
(* The invariant, and what follows from it. *)

LEMMA InitOK == Init => IInv
  <1>. SUFFICES ASSUME Init PROVE IInv
    OBVIOUS
  <1>1. PICK setup \in Setups :
          /\ file = [slot \in Slots |-> IF setup.body[slot] = None THEN None
                                       ELSE [body |-> setup.body[slot], mtime |-> 1]]
          /\ trust = [slot \in Slots |-> [key |-> None, legacy |-> setup.legacy[slot],
                                          writers |-> {}]]
          /\ decided = [slot \in Slots |-> Standing({setup.legacy[slot]} \ {None})]
    BY DEF Init
  <1>2. \A slot \in Slots : setup.body[slot] \in Bodies(slot[2]) \cup {None} /\ slot[2] \in Kinds
    BY SetupAssumption, PathAssumption
  <1>3. FileInv
    <2>1. ASSUME NEW slot \in Slots, file[slot] # None
          PROVE  file[slot] \in Contents /\ file[slot].body \in Bodies(slot[2])
      <3>1. file[slot] = [body |-> setup.body[slot], mtime |-> 1]
        BY <1>1, <2>1
      <3>2. setup.body[slot] \in Bodies(slot[2])
        BY <1>1, <1>2, <2>1
      <3>. QED  BY <1>2, <3>1, <3>2 DEF Contents
    <2>. QED  BY <1>1, <2>1 DEF FileInv
  <1>4. op = [s \in Shells |-> Idle] /\ sh = [s \in Shells |-> Unborn]
        /\ disk = [s \in Shells |-> None] /\ ev = [s \in Shells |-> NoEval]
    BY DEF Init
  <1>5. TrustInv
    <2>1. DOMAIN trust = Slots /\ DOMAIN decided = Slots
      BY <1>1
    <2>2. \A slot \in Slots : EntryOK(slot)
      BY <1>1 DEF EntryOK, Stored, Standing
    <2>3. \A s \in Shells : DecisionOK(s)
      BY <1>4 DEF DecisionOK, Idle
    <2>. QED  BY <2>1, <2>2, <2>3 DEF TrustInv
  <1>6. OpInv
    BY <1>4 DEF OpInv, OpOK, Idle, Fields, OpPcs
  <1>7. ShellInv
    BY <1>4 DEF ShellInv, ShellOK, Unborn
  <1>8. EvalInv
    BY <1>4, NoEvalOK DEF EvalInv
  <1>. QED  BY <1>3, <1>5, <1>6, <1>7, <1>8 DEF IInv

LEMMA EvalOnlyOK == ASSUME IInv, EvalInv', UNCHANGED Elsewhere PROVE IInv'
  BY DEF IInv, Elsewhere, FileInv, TrustInv, EntryOK, DecisionOK, Stored, OpInv, OpOK, Stood, Working,
         ShellInv, ShellOK

LEMMA StepOK == ASSUME IInv, NEW s \in Shells, Step(s) PROVE IInv'
  <1>1. CASE EvalStep(s) /\ UNCHANGED Elsewhere
    <2>1. EvalInv'
      BY <1>1, ChannelOK, WaitAndDrainOK, EvalEnvEpshOK DEF EvalStep, IInv
    <2>. QED  BY <1>1, <2>1, EvalOnlyOK
  <1>. QED
    BY <1>1, RemoveDeadShellRecordOK, OnStartupOK, AllowFileOK, DenyFileOK, DecidedOK, LoadActiveOK,
       FindFilesOK, ReadTrustedCandidatesOK, IsAllowedInOK, CheckTrustOK, EvaluatedOK, ClearActiveOK,
       SaveTemporaryOK, SaveActiveOK DEF Step

LEMMA NextOK == IInv /\ [Next]_vars => IInv'
  <1>. SUFFICES ASSUME IInv, [Next]_vars PROVE IInv'
    OBVIOUS
  <1>1. ASSUME NEW s \in Shells, User(s) PROVE IInv'
    BY <1>1, InitSessionOK, CdOK, ReloadOK, AllowOK, DenyStartOK, AssignOK, OnExitOK, KilledOK, DamageOK
       DEF User
  <1>2. ASSUME NEW s \in Shells, EvalEnvironment(s), UNCHANGED Elsewhere PROVE IInv'
    <2>1. EvalInv'
      BY <1>2, ScriptOK, OthersOK DEF EvalEnvironment, IInv
    <2>. QED  BY <1>2, <2>1, EvalOnlyOK
  <1>3. CASE UNCHANGED vars
    <2>1. UNCHANGED Elsewhere /\ UNCHANGED ev
      BY <1>3 DEF vars, Elsewhere
    <2>. QED  BY <2>1, EvalOnlyOK, SameEval DEF IInv
  <1>. QED  BY <1>1, <1>2, <1>3, StepOK, EditOK DEF Next

(***************************************************************************)
(* The invariant of the whole of denv (eval_env, allow, deny, refresh,     *)
(* remove_dead_shell_records) holds in every behaviour.                    *)
(***************************************************************************)
THEOREM Inductive == Spec => []IInv
  BY InitOK, NextOK, PTL DEF Spec

(***************************************************************************)
(* An environment is used only when its script ended, called no retired    *)
(* helper and wrote both snapshots (eval_env_bash, stop_bash_group).       *)
(***************************************************************************)
THEOREM CandidatesWhole == Spec => []CandidateWhole
  <1>1. IInv => CandidateWhole
    BY DEF IInv, EvalInv, EvalOK, DoneOK, CandidateWhole
  <1>. QED  BY <1>1, Inductive, PTL

(***************************************************************************)
(* Only bytes the user allowed are evaluated (read_trusted_candidate,      *)
(* is_allowed_in, deny_file).                                              *)
(***************************************************************************)
THEOREM OnlyTrusted == Spec => []TrustedOnly
  <1>1. ASSUME IInv PROVE TrustedOnly
    <2>1. \A slot \in Slots : Stored(slot) \in decided[slot].stand \cup {"torn", None}
      BY <1>1 DEF IInv, TrustInv, EntryOK
    <2>2. ASSUME NEW s \in Shells, op[s].pc = "eval", NEW k \in DOMAIN op[s].bodies
          PROVE  op[s].bodies[k] \in op[s].grant[k]
      BY <1>1, <2>2 DEF IInv, OpInv, OpOK, BodiesOK, Stood
    <2>. QED  BY <2>1, <2>2 DEF TrustedOnly
  <1>. QED  BY <1>1, Inductive, PTL

(***************************************************************************)
(* What is put over the user's variables comes off exactly (refresh,       *)
(* capture_prev, remove_dead_shell_records).                               *)
(***************************************************************************)
THEOREM LayersExact == Spec => []LayerExact
  <1>1. ASSUME IInv PROVE LayerExact
    <2>1. ASSUME NEW s \in Shells, sh[s].up
          PROVE  /\ \A n \in Names \ Managed(s) : sh[s].vars[n] = sh[s].base[n]
                 /\ sh[s].active # None => sh[s].active.prev = CapturePrev(Managed(s), sh[s].base)
                 /\ sh[s].loaded => disk[s] = sh[s].active
      <3>1. ShellOK(s) /\ Layered(sh[s].vars, sh[s].active, sh[s].base)
        BY <1>1, <2>1 DEF IInv, ShellInv, ShellOK
      <3>2. Managed(s) = Covered(sh[s].active)
        BY DEF Managed, Covered
      <3>. QED  BY <2>1, <3>1, <3>2 DEF ShellOK, Layered
    <2>. QED  BY <2>1 DEF LayerExact
  <1>. QED  BY <1>1, Inductive, PTL
=============================================================================
