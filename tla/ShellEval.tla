------------------------------ MODULE ShellEval ------------------------------
(***************************************************************************)
(* The evaluator of epsh (epsh/src/eval.rs, and the builtins that run      *)
(* commands) as the steps of the processes of ShellSystem.  A process      *)
(* evaluates a command ("eval"), returns a result to the frame on top of   *)
(* its stack ("ret") or is between the parts of a command: expanding words *)
(* ("args", "for", "case"), redirecting ("redir"), assigning ("assign"),   *)
(* running ("run", "read"), or waiting for children.                       *)
(*                                                                         *)
(* Left out: job control (the module ForegroundJob), output sinks and      *)
(* their relays, command policies, timeouts (a timeout is a cancellation   *)
(* by another name) and pipes that are full.  All members of a pipeline    *)
(* start in one step: the gate keeps each from running before the last.    *)
(***************************************************************************)
EXTENDS ShellSystem

CONSTANTS
    ProgramKind,  \* what the programs do: [Programs -> {"cat", "show", "fail", "sleep"}]
    Hosted,       \* names the embedding process handles itself
    ParentOnly    \* names placed in the original process

VARIABLES procs, descs, pipes, files,
          cancel, \* the cancellation flag of the embedding program
          session \* what runs: session.parsed is what the parser makes of its texts

World == [procs |-> procs, descs |-> descs, pipes |-> pipes, files |-> files]
Becomes(w) ==
    LET next == Collected(w)
    IN  /\ procs' = next.procs /\ descs' = next.descs
        /\ pipes' = next.pipes /\ files' = next.files
        /\ UNCHANGED <<cancel, session>>

\* Shell::check_cancel.  A child has the flag as it was when it was forked.
Cancelled(p) == p = Root /\ cancel
CancelledRes == Res("Cancelled", 0)
RuntimeRes == Res("Runtime", 0)
At(p, t) == p \in DOMAIN procs /\ procs[p].c.t = t

-----------------------------------------------------------------------------
(* Expansion, and the command substitutions it needs                       *)

\* The expansion a process starts, with the outputs it has.
Start(p) == Expansion(procs[p].sh, procs[p].c.outs)

\* An expansion fails: a redirection that was being set up is undone, and in
\* a new subshell the failure is its end.  The scope of a function whose
\* assignments fail stays open.
ExpansionFails(w, p, P, c, res) ==
    IF c.t = "redir" THEN
        IF c.mode = "child" THEN Exit(Put(w, p, [P EXCEPT !.report = @ \/ res.k = "Refused"]), p, 1)
        ELSE Put(w, p, Ret(Restored(P, c.saved), res))
    ELSE IF c.t = "assign" /\ c.mode = "local"
    THEN Put(w, p, Ret([Pop(P) EXCEPT !.leaks.scopes = @ + 1], res))
    ELSE Put(w, p, Ret(P, res))

\* command_subst: a child writes to a pipe that the shell reads to its end.
Substitute(w, p, P, x) ==
    LET pipe == FreshId(w.pipes)
        r == FreshId(w.descs)
        opened == [w EXCEPT !.pipes = With(@, pipe, <<>>), !.descs = With(@, r, Desc("read", pipe))]
        s == FreshId(opened.descs)
        both == [opened EXCEPT !.descs = With(@, s, Desc("write", pipe))]
        pid == NewPids(w, 1)[1]
        child == [ChildOf(P, p, pid) EXCEPT
                    !.sh = [NoExitTrap(x.sh) EXCEPT !.substDepth = @ + 1],
                    !.fds = With(@, 1, s), !.k = <<Bottom("subst")>>,
                    !.c = [Control("eval") EXCEPT !.cmd = x.need[1]]]
        reader == [P EXCEPT !.fds = With(@, PrivateFd, r),
                            !.c = [Control("subst") EXCEPT !.kids = <<pid>>,
                                  !.resume = <<[c |-> P.c, sh |-> x.sh]>>]]
    IN  Spawned(Put(both, p, reader), p, <<pid>>, <<child>>)

\* The step of a process that expands: it substitutes, fails or goes on.
ExpandedTo(p, x, Done(_, _)) ==
    LET P == procs[p]
        changed == [P EXCEPT !.sh = x.sh]
    IN  IF x.need # <<>> /\ CanFork(World, 1) THEN Substitute(World, p, P, x)
        ELSE IF Stuck(x) THEN ExpansionFails(World, p, changed, P.c, RuntimeRes)
        ELSE Done(changed, x.v)

\* Reading the output, with a look at the flag before every read.
ReadSubstitution(p) ==
    /\ At(p, "subst")
    /\ LET P == procs[p]
           text == Unread(World, p, PrivateFd)
           Take(n) == Consume(World, p, PrivateFd, n)
       IN  Becomes(IF Cancelled(p)
             THEN LET killed == TerminateGroup(World, procs[P.c.kids[1]].pgid)
                  IN  Put(killed, p, [P EXCEPT !.c.t = "substwait", !.c.res = CancelledRes,
                                               !.c.mode = "broken off"])
             ELSE IF text # <<>>
             THEN LET w == Take(Len(text))
                  IN  Put(w, p, [P EXCEPT !.c.text = @ \o text])
             ELSE Put(World, p, [P EXCEPT !.c.t = "substwait"]))

\* Reaping the child: its output loses its last newlines.  Reading that was
\* broken off comes first, then what wait_child_pgid says: the refusal the
\* child reported, then an interruption.
FinishSubstitution(p) ==
    /\ At(p, "substwait")
    /\ LET P == procs[p]
           kid == P.c.kids[1]
           end == procs[kid].end
           Reaped == Reap(World, p, {kid})
           Q == [Reaped.procs[p] EXCEPT !.fds = Without(@, {PrivateFd}), !.c = P.c.resume[1].c]
           kept == { i \in DOMAIN P.c.text : P.c.text[i] # "\n" }
           out == SubSeq(P.c.text, 1, IF kept = {} THEN 0 ELSE Max(kept))
           error == IF P.c.mode = "broken off" THEN <<CancelledRes>>
                    ELSE IF end[1].refused THEN <<Res("Refused", 0)>>
                    ELSE IF P.c.res.k = "Cancelled" \/ Cancelled(p) THEN <<CancelledRes>> ELSE <<>>
       IN  /\ end # <<>>
           /\ Becomes(IF error # <<>>
                THEN ExpansionFails(Reaped, p, [Q EXCEPT !.sh = P.c.resume[1].sh], Q.c, error[1])
                ELSE Put(Reaped, p, [Q EXCEPT !.c.outs = Append(@, [text |-> out, status |-> end[1].status])]))

\* wait_child_pgid sees the flag while it waits.
InterruptSubstitution(p) ==
    /\ At(p, "substwait") /\ procs[procs[p].c.kids[1]].end = <<>>
    /\ Becomes([TerminateGroup(World, procs[procs[p].c.kids[1]].pgid) EXCEPT
                  !.procs[p].c.res = CancelledRes])

-----------------------------------------------------------------------------
(* eval_command and eval_command_inner                                     *)

Leaf(cmd) == cmd.c \in {"Simple", "Pipeline", "Subshell", "Background"}
Testing(P) == [P EXCEPT !.sh.tested = TRUE]
CmdFrame(t, P, cmd) ==
    [Frame(t) EXCEPT !.cmd = cmd, !.tested = P.sh.tested, !.depth = P.sh.pipeDepth]

\* eval_pipeline with several commands.
StartPipeline(w, p, P, cmds) ==
    LET n == Len(cmds)
        pids == NewPids(w, n)
        free == CHOOSE base \in 0 .. 50 : \A i \in 1 .. 2 * n : base + i \notin DOMAIN w.descs
        ids == CHOOSE base \in 0 .. 50 : \A i \in 1 .. n : base + i \notin DOMAIN w.pipes
        ends == [d \in free + 1 .. free + 2 * (n - 1) |->
                   Desc(IF (d - free) % 2 = 1 THEN "read" ELSE "write", ids + (d - free + 1) \div 2)]
        opened == [w EXCEPT !.descs = ends @@ @,
                            !.pipes = [i \in ids + 1 .. ids + n - 1 |-> <<>>] @@ @]
        Member(i) ==
            LET C == ChildOf(P, p, pids[1])
                in == IF i = 1 THEN C.fds ELSE With(C.fds, 0, free + 2 * (i - 1) - 1)
            IN  [C EXCEPT !.fds = IF i = n THEN in ELSE With(in, 1, free + 2 * i),
                          !.evExit = TRUE, !.k = <<Bottom("member")>>,
                          !.c = [Control("eval") EXCEPT !.cmd = cmds[i]]]
    IN  Spawned(Put(opened, p, Go(P, [Control("job") EXCEPT !.kids = pids])), p, pids,
                [i \in 1 .. n |-> Member(i)])

\* A loop's next test of its condition.
TestLoop(P, frame) == Eval(Testing(Push(P, [frame EXCEPT !.cond = TRUE, !.tested = P.sh.tested])),
                           frame.cmd.kids[1])

\* For the value after, or the end.
NextValue(p, P, frame) ==
    LET value == Head(frame.rest)
    IN  IF frame.rest = <<>> THEN Ret([P EXCEPT !.sh.loops = @ - 1], Res("Ok", frame.last))
        ELSE IF Cancelled(p) THEN Ret([P EXCEPT !.leaks.loops = @ + 1], CancelledRes)
        ELSE IF ReadOnly(P.sh, frame.cmd.name)
        THEN Ret([P EXCEPT !.leaks.loops = @ + 1], Res("Ok", 1))
        ELSE Eval(Push([P EXCEPT !.sh = SetText(@, frame.cmd.name, value)],
                       [frame EXCEPT !.rest = Tail(@)]), frame.cmd.kids[1])

Entered(w, p, P, cmd) ==
    LET first == cmd.kids[1]
        simple == [Control("args") EXCEPT !.cmd = cmd, !.n = P.sh.substs]
        redirect == [Control("redir") EXCEPT !.cmd = cmd]
        bang == cmd.c = "Pipeline" /\ cmd.flag
        nested == [P EXCEPT !.sh.tested = @ \/ cmd.flag,
                            !.sh.pipeDepth = IF Len(cmd.kids) > 1 \/ ~bang THEN @ + 1 ELSE @]
        framed == Push(nested, CmdFrame("Pipeline", P, cmd))
        pid == NewPids(w, 1)[1]
    IN  CASE cmd.c = "Simple" -> Put(w, p, Go(P, simple))
          [] cmd.c = "Pipeline" ->
               IF Len(cmd.kids) = 1 THEN Put(w, p, Eval(framed, first))
               ELSE IF CanFork(w, Len(cmd.kids)) THEN StartPipeline(w, p, framed, cmd.kids)
               ELSE Put(w, p, Ret(framed, RuntimeRes))
          [] cmd.c \in {"And", "Or", "If", "Not"} ->
               Put(w, p, Eval(Testing(Push(P, CmdFrame(cmd.c, P, cmd))), first))
          [] cmd.c = "Sequence" -> Put(w, p, Eval(Push(P, CmdFrame("Sequence", P, cmd)), first))
          [] cmd.c \in {"While", "Until"} ->
               Put(w, p, TestLoop([P EXCEPT !.sh.loops = @ + 1], CmdFrame(cmd.c, P, cmd)))
          [] cmd.c = "BraceGroup" -> Put(w, p, Go(P, [redirect EXCEPT !.mode = "brace"]))
          [] cmd.c = "For" ->
               IF cmd.flag THEN Put(w, p, Go(P, [simple EXCEPT !.t = "for"]))
               ELSE Put(w, p, NextValue(p, [P EXCEPT !.sh.loops = @ + 1],
                                 [CmdFrame("For", P, cmd) EXCEPT !.rest = P.sh.positional]))
          [] cmd.c = "Case" -> Put(w, p, Go(P, [simple EXCEPT !.t = "case"]))
          [] cmd.c = "FuncDef" ->
               Put(w, p, Ret([P EXCEPT !.sh.funcs = With(@, cmd.name, first)], Res("Ok", 0)))
          [] cmd.c \in {"Subshell", "Background"} /\ ~CanFork(w, 1) ->
               Put(w, p, Ret(P, RuntimeRes))
          [] cmd.c = "Subshell" /\ CanFork(w, 1) ->
               ForkChild(w, p, Go(P, [Control("wait") EXCEPT !.kids = <<pid>>, !.mode = "one"]),
                         "subshell", [redirect EXCEPT !.mode = "child"])
          [] cmd.c = "Background" /\ CanFork(w, 1) ->
               ForkChild(w, p, Ret([P EXCEPT !.sh.lastBg = pid], Res("Ok", 0)),
                         "background", [redirect EXCEPT !.mode = "child"])

EvalCommand(p) ==
    /\ At(p, "eval")
    /\ LET P == procs[p]
           cmd == P.c.cmd
           framed == Push([P EXCEPT !.evExit = @ /\ cmd.c = "Simple"], CmdFrame("command", P, cmd))
       IN  Becomes(IF Cancelled(p) THEN Put(World, p, Ret(P, CancelledRes))
                   ELSE IF "n" \in P.sh.opts THEN Put(World, p, Ret(P, Res("Ok", 0)))
                   ELSE Entered(World, p, framed, cmd))

\* The words of a for, and the arm of a case, are known.
ForWords(p, P, fields) ==
    NextValue(p, [P EXCEPT !.sh.loops = @ + 1], [CmdFrame("For", P, P.c.cmd) EXCEPT !.rest = fields])
CaseWord(P, arm) ==
    IF arm = 0 THEN Ret(P, Res("Ok", 0))
    ELSE IF P.c.cmd.arms[arm].empty THEN Ret(P, Res("Ok", 0))
    ELSE Eval(P, P.c.cmd.kids[Cardinality({ j \in 1 .. arm : ~P.c.cmd.arms[j].empty })])

-----------------------------------------------------------------------------
(* setup_redirections                                                      *)

\* The redirections are in place: the command, the body of the group or what
\* a new subshell evaluates comes next.
Redirected(P) ==
    LET c == P.c
        exec == c.args # <<>> /\ Dispatched(c.args) # <<>> /\ Dispatched(c.args)[1] = Chars("exec")
        simple == [Frame("simple") EXCEPT !.saved = c.saved, !.mode = IF exec THEN "exec" ELSE ""]
    IN  CASE c.mode = "simple" ->
               Go(Push(P, simple), [Control("run") EXCEPT !.cmd = c.cmd, !.args = c.args, !.n = c.n])
          [] c.mode = "brace" -> Eval(Push(P, [Frame("brace") EXCEPT !.saved = c.saved]), c.cmd.kids[1])
          [] c.mode = "child" -> Eval([P EXCEPT !.base.fds = P.fds], c.cmd.kids[1])

\* The target's descriptor is saved before the word is expanded.
Saving(P) ==
    LET target == P.c.cmd.redirs[P.c.i].fd
        low == SavedFdMin(P.c.cmd.redirs)
        moved == MoveHeld(P, target, low)
        kept == Backup(moved, target, low)
    IN  [kept EXCEPT !.c.saved = Append(@, [target |-> target,
                       slot |-> IF target \in DOMAIN moved.fds THEN Len(kept.held) ELSE 0])]

\* The word of a redirection is expanded: it is applied.
Redirecting(p, P, text) ==
    LET r == Installed(World, p, P, P.c.cmd.redirs[P.c.i], text)
    IN  IF r.failed THEN ExpansionFails(r.w, p, P, P.c, RuntimeRes)
        ELSE Put(r.w, p, [r.w.procs[p] EXCEPT !.c.i = @ + 1, !.c.outs = <<>>])

Redirect(p) ==
    /\ At(p, "redir")
    /\ LET P == procs[p]
           all == P.c.i > Len(P.c.cmd.redirs)
       IN  /\ all \/ Len(P.c.saved) < P.c.i
           /\ Becomes(Put(World, p, IF all THEN Redirected(P) ELSE Saving(P)))

-----------------------------------------------------------------------------
(* eval_simple                                                             *)

\* parent_process_refusal: a command of the original process elsewhere.
MisplacedCommand(p, P, args) ==
    LET target == Dispatched(args)
    IN  /\ target # <<>> /\ target[1] \in ParentOnly
        /\ p # Root \/ P.sh.pipeDepth > 0 \/ P.sh.substDepth > 0

\* preflight_external: a child cannot call into the embedding process.
RefusedCallback(p, P, args) ==
    LET target == Dispatched(args)
    IN  /\ p # Root /\ target # <<>> /\ target[1] \in Hosted
        /\ ~(target = args /\ target[1] \in DOMAIN P.sh.funcs)

\* The words of a simple command are known: its redirections come next.
SimpleWords(p, P, args) ==
    IF MisplacedCommand(p, P, args) THEN Ret(P, Res("Ok", 2))
    ELSE IF RefusedCallback(p, P, args) THEN Ret(P, Res("Refused", 0))
    ELSE Go(P, [Control("redir") EXCEPT !.cmd = P.c.cmd, !.args = args, !.n = P.c.n, !.mode = "simple"])

\* run_inline: the commands of a text, one after the other.
Inline(P, text) ==
    LET program == session.parsed[text]
    IN  IF program.err THEN Ret(P, Res("Ok", 2))
        ELSE IF program.v = <<>> THEN Ret(P, Res("Ok", 0))
        ELSE Eval(Push(P, [Frame("inline") EXCEPT !.rest = Tail(program.v)]), Head(program.v))

\* builtin_dot: a return ends the script.
Dot(P, args) ==
    LET path == ResolvePath(P.sh, args[2])
    IN  IF Len(args) = 1 THEN Ret(P, Res("Exit", 2))
        ELSE IF path \notin DOMAIN files THEN Ret(P, Res("Exit", 127))
        ELSE Inline(Push(P, Frame("dot")), files[path])

\* builtin_kill, one operand after the other.
RECURSIVE KillEach(_, _, _, _)
KillEach(w, operands, signal, status) ==
    LET pid == ParsedInt(Head(operands))
        known == IsInt(Head(operands)) /\ pid \in DOMAIN w.procs
    IN  IF operands = <<>> THEN [w |-> w, status |-> status]
        ELSE IF known THEN KillEach(Signalled(w, pid, signal), Tail(operands), signal, status)
        ELSE KillEach(w, Tail(operands), signal, 1)
Kill(w, p, args) ==
    LET request == KillRequest(args)
        r == KillEach(w, request.pids, request.signal, request.status)
    IN  IF r.w.procs[p].end # <<>> THEN r.w
        ELSE Put(r.w, p, Ret(r.w.procs[p], Res("Ok", r.status)))

\* The variable a program may look at in its environment.
ShownText(sh, assigns) ==
    LET env == EnvForCommand(sh, assigns)
    IN  IF <<"v">> \in DOMAIN env THEN env[<<"v">>] ELSE <<>>

\* builtin_exec: the program replaces the shell.
Exec(P, args) ==
    IF Len(args) = 1 THEN Ret(P, Res("Ok", 0))
    ELSE IF args[2] \notin Programs THEN Ret(P, Res("Ok", 126))
    ELSE AsProgram(P, ProgramKind[args[2]], ShownText(P.sh, <<>>))

\* What follows command: the builtin or the program, never a function.
Bypassing(p, P, c) ==
    LET action == CommandAction(c.args)
    IN  CASE action.act = "Empty" -> Ret(P, Res("Ok", 0))
          [] action.act = "Execute" ->
               IF MisplacedCommand(p, P, action.args) THEN Ret(P, Res("Ok", 2))
               ELSE Go(P, [c EXCEPT !.args = action.args, !.cmd.assigns = <<>>, !.mode = "command"])

\* builtin_wait
Wait(P, args) ==
    Go(P, IF Len(args) = 1 THEN [Control("wait") EXCEPT !.kids = P.kids, !.mode = "all"]
          ELSE [Control("wait") EXCEPT !.mode = "some", !.kids = [i \in 1 .. Len(args) - 1 |->
                  IF IsInt(args[i + 1]) THEN ParsedInt(args[i + 1]) ELSE 0]])

Finished(w, p, P, did) == WriteOut(Put(w, p, Ret([P EXCEPT !.sh = did.sh], did.res)), p, did.out)
DescribedOr(w, p, P, name, action, args) ==
    Finished(w, p, P, IF name = "command" THEN Describe(P.sh, action.args, action.plain)
                      ELSE PureBuiltin(name, P.sh, args))
RunBuiltin(w, p, P, c) ==
    LET name == BuiltinString[c.args[1]]
        action == CommandAction(c.args)
        rest == Joined(Tail(c.args), <<" ">>)
    IN  IF name = "kill" THEN Kill(w, p, c.args)
        ELSE IF name \in {"eval", ".", "source", "exec", "wait", "read"} \/ (name = "command" /\ action.act # "Describe")
        THEN Put(w, p, CASE name = "eval" -> IF Len(c.args) = 1 THEN Ret(P, Res("Ok", 0)) ELSE Inline(P, rest)
                         [] name \in {".", "source"} -> Dot(P, c.args)
                         [] name = "exec" -> Exec(P, c.args)
                         [] name = "wait" -> Wait(P, c.args)
                         [] name = "read" -> Go(P, [Control("read") EXCEPT !.args = c.args])
                         [] name = "command" -> Bypassing(p, P, c))
        ELSE DescribedOr(w, p, P, name, action, c.args)

RunCommand(p) ==
    /\ At(p, "run")
    /\ LET P == procs[p]
           c == P.c
           name == c.args[1]
           Assign(mode) == [c EXCEPT !.t = "assign", !.mode = mode]
           called == [P EXCEPT !.sh = [PushScope(@) EXCEPT !.positional = Tail(c.args)],
                               !.evExit = FALSE]
       IN  Becomes(
             IF c.args = <<>> THEN Put(World, p, Go(P, Assign("vars")))
             ELSE IF IsBuiltin(name) THEN RunBuiltin(World, p, P, c)
             ELSE IF name \in DOMAIN P.sh.funcs /\ c.mode # "command"
             THEN Put(World, p, Go(Push(called, [Frame("function") EXCEPT !.rest = P.sh.positional]),
                                   Assign("local")))
             ELSE IF name \in Hosted THEN Put(World, p, Go(P, Assign("hosted")))
             ELSE IF Cancelled(p) THEN Put(World, p, Ret(P, CancelledRes))
             ELSE Put(World, p, Go(P, Assign("env"))))

\* eval_external_prepared: the program replaces a pipeline member, or runs
\* in a child that is waited for.
Launch(w, p, P, c) ==
    LET text == ShownText(P.sh, c.env)
        kind == ProgramKind[c.args[1]]
        pid == NewPids(w, 1)[1]
    IN  IF c.args[1] \notin Programs THEN Put(w, p, Ret(P, Res("Ok", 127)))
        ELSE IF P.evExit THEN Put(w, p, AsProgram(P, kind, text))
        ELSE IF ~CanFork(w, 1) THEN Put(w, p, Ret(P, RuntimeRes))
        ELSE Spawned(Put(w, p, Go(P, [Control("job") EXCEPT !.kids = <<pid>>])), p, <<pid>>,
                     <<AsProgram(ChildOf(P, p, pid), kind, text)>>)

\* The assignments in front of a command, or alone: the value of one is known.
AssignOne(P, text) ==
    LET name == P.c.cmd.assigns[P.c.i].name
        next == [P EXCEPT !.c.i = @ + 1, !.c.outs = <<>>]
    IN  CASE P.c.mode = "vars" ->
               IF ReadOnly(P.sh, name) THEN Ret(P, RuntimeRes)
               ELSE [next EXCEPT !.sh = SetText(@, name, text)]
          [] P.c.mode = "local" -> [next EXCEPT !.sh = SetText(MakeLocal(@, name), name, text)]
          [] P.c.mode \in {"env", "hosted"} ->
               [next EXCEPT !.c.env = Append(@, [name |-> name, value |-> text])]

\* They are all made: the command runs.
AssignVariables(p) ==
    /\ At(p, "assign")
    /\ LET P == procs[p]
           c == P.c
       IN  /\ c.i > Len(c.cmd.assigns)
           /\ Becomes(CASE c.mode = "vars" ->
                         Put(World, p, Ret(P, Res("Ok", IF P.sh.substs = c.n THEN 0 ELSE P.sh.status)))
                    [] c.mode = "local" -> Put(World, p, Eval(P, P.sh.funcs[c.args[1]]))
                    [] c.mode = "hosted" -> Put(World, p, Ret(P, Res("Ok", 0)))
                    [] c.mode = "env" -> Launch(World, p, P, c))

\* What a process expands, and how.
Request(c) ==
    CASE c.t \in {"args", "for"} -> [how |-> As("words"), of |-> c.cmd.words]
      [] c.t = "case" -> [how |-> [as |-> "case", arms |-> c.cmd.arms], of |-> c.cmd.words[1]]
      [] c.t = "redir" -> [how |-> As(IF c.cmd.redirs[c.i].literal THEN "literal" ELSE "text"),
                           of |-> c.cmd.redirs[c.i].word]
      [] c.t = "assign" -> [how |-> As("text"), of |-> c.cmd.assigns[c.i].value]

\* A process expands the words it is at, and goes on with what they are.
ExpandWords(p) ==
    /\ p \in DOMAIN procs
    /\ LET c == procs[p].c
           request == Request(c)
           Done(P, v) ==
               CASE c.t = "redir" -> Redirecting(p, P, v)
                 [] c.t = "args" -> Put(World, p, SimpleWords(p, P, v))
                 [] c.t = "for" -> Put(World, p, ForWords(p, P, v))
                 [] c.t = "case" -> Put(World, p, CaseWord(P, v))
                 [] c.t = "assign" -> Put(World, p, AssignOne(P, v))
       IN  /\ \/ c.t \in {"args", "for", "case"}
              \/ c.t = "redir" /\ c.i <= Len(c.cmd.redirs) /\ Len(c.saved) >= c.i
              \/ c.t = "assign" /\ c.i <= Len(c.cmd.assigns)
           /\ Becomes(ExpandedTo(p, Expand(request.how, request.of, Start(p)), Done))

\* builtin_read waits for a line or the end of its input.
ReadInput(p) ==
    /\ At(p, "read")
    /\ LET P == procs[p]
           r == ReadLine(Unread(World, p, 0), 1, ReadRaw(P.c.args))
           did == BuiltinRead(P.sh, P.c.args, r)
           w == Consume(World, p, 0, r.used)
       IN  Becomes(Put(w, p, Ret([P EXCEPT !.sh = did.sh], did.res)))

-----------------------------------------------------------------------------
(* Waiting                                                                 *)

\* wait_child_pgid: one child after the other, for a subshell or builtin_wait.
\* A refusal the child reported, then an interruption, fail the wait.
WaitChild(p) ==
    /\ At(p, "wait")
    /\ LET P == procs[p]
           c == P.c
           kid == Head(c.kids)
           owned == kid \in ToSet(P.kids)
           end == procs[kid].end[1]
           reaped == Reap(World, p, {kid})
           Q == reaped.procs[p]
           After(R, n) == IF c.mode = "one" THEN Ret(R, Res("Ok", n))
                          ELSE [R EXCEPT !.c.kids = Tail(@), !.c.n = n]
       IN  /\ c.kids # <<>> /\ owned => procs[kid].end # <<>>
           /\ Becomes(
                IF c.kids = <<>> THEN Put(World, p, Ret(P, Res("Ok", IF c.mode = "all" THEN 0 ELSE c.n)))
                ELSE IF ~owned THEN Put(World, p, After(P, 127))
                ELSE Put(reaped, p,
                         IF end.refused THEN Ret(Q, Res("Refused", 0))
                         ELSE IF c.res.k = "Cancelled" \/ Cancelled(p) THEN Ret(Q, CancelledRes)
                         ELSE After(Q, end.status)))

\* The flag is seen while the child runs: its group is killed.
InterruptWait(p) ==
    /\ At(p, "wait")
    /\ LET c == procs[p].c
           kid == Head(c.kids)
       IN  /\ c.kids # <<>>
           /\ kid \in ToSet(procs[p].kids) /\ procs[kid].end = <<>>
           /\ Becomes([TerminateGroup(World, procs[kid].pgid) EXCEPT !.procs[p].c.res = CancelledRes])

\* observe_foreground_job: the members of a pipeline, or one program.  An
\* interruption or a refusal ends those that still run.
JobStatus(kids) ==
    LET status == [i \in DOMAIN kids |-> procs[kids[i]].end[1].status]
        failing == { i \in DOMAIN kids : status[i] # 0 }
    IN  IF failing = {} THEN 0 ELSE status[Max(failing)]
ObserveJob(p) ==
    /\ At(p, "job")
    /\ LET P == procs[p]
           kids == P.c.kids
           ended == { i \in DOMAIN kids : procs[kids[i]].end # <<>> }
           refused == \E i \in ended : procs[kids[i]].end[1].refused
           killed == KillOwned(World, p, ToSet(kids))
           reaped == Reap(World, p, ToSet(kids))
       IN  Becomes(
             IF Cancelled(p) \/ refused
             THEN Put(killed, p, Ret(killed.procs[p],
                        IF Cancelled(p) THEN CancelledRes ELSE Res("Refused", 0)))
             ELSE Put(reaped, p, Ret(reaped.procs[p], Res("Ok",
                        IF "pipefail" \in P.sh.opts THEN JobStatus(kids)
                        ELSE procs[Last(kids)].end[1].status))))

\* External: what the programs of a session do.
RunProgram(p) ==
    /\ At(p, "program")
    /\ LET P == procs[p]
           text == Unread(World, p, 0)
       IN  \/ /\ P.c.mode = "cat" /\ text # <<>>
              /\ Becomes(WriteOut(Consume(World, p, 0, Len(text)), p, text))
           \/ /\ P.c.mode = "cat" /\ text = <<>>
              /\ Becomes(Exit(World, p, 0))
           \/ /\ P.c.mode = "show"
              /\ Becomes(Exit(WriteOut(World, p, Append(P.c.text, "\n")), p, 0))
           \/ /\ P.c.mode = "fail"
              /\ Becomes(Exit(World, p, 3))

-----------------------------------------------------------------------------
(* Results: what the frame on top makes of one.  Each operator gets the    *)
(* process without the frame.                                              *)

Ok(n) == Res("Ok", n)
Inverted(n) == IF n = 0 THEN 1 ELSE 0
SetStatus(P, n) == [P EXCEPT !.sh.status = n]
Untested(P, f) == [P EXCEPT !.sh.tested = f.tested]

\* eval_command: the status is kept, and with errexit a failure of a command
\* nobody tests ends the shell.
FatalUntested(P, cmd, n) == "e" \in P.sh.opts /\ Leaf(cmd) /\ n # 0 /\ ~(cmd.c = "Pipeline" /\ cmd.flag)
Fatal(P, cmd, n) ==
    /\ "e" \in P.sh.opts /\ Leaf(cmd) /\ ~P.sh.tested /\ n # 0
    /\ ~(cmd.c = "Pipeline" /\ cmd.flag)
AfterCommand(P, f, res) ==
    IF res.k # "Ok" THEN Ret(P, res)
    ELSE Ret(SetStatus(P, res.n), IF Fatal(P, f.cmd, res.n) THEN Res("Exit", res.n) ELSE res)

AfterPipeline(P, f, res) ==
    LET back == [Untested(P, f) EXCEPT !.sh.pipeDepth = f.depth]
    IN  Ret(back, IF res.k = "Ok" /\ f.cmd.flag THEN Ok(Inverted(res.n)) ELSE res)

\* The condition of && || and if is done.  An error leaves without undoing
\* that the condition was tested.
TestedError(P, f, res) == Ret([P EXCEPT !.leaks.tested = @ \/ ~f.tested], res)
AfterCondition(P, f, res) ==
    LET back == SetStatus(Untested(P, f), res.n)
        wanted == IF f.t = "Or" THEN res.n # 0 ELSE res.n = 0
    IN  IF res.k # "Ok" THEN TestedError(P, f, res)
        ELSE IF wanted THEN Eval(back, f.cmd.kids[2])
        ELSE IF f.t # "If" THEN Ret(back, res)
        ELSE IF Len(f.cmd.kids) = 3 THEN Eval(back, f.cmd.kids[3])
        ELSE Ret(back, Ok(0))

AfterNot(P, f, res) == Ret(Untested(P, f), IF res.k = "Ok" THEN Ok(Inverted(res.n)) ELSE res)

\* The body of a loop is done: Again is what the next iteration does.
LeftLoop(P) == [P EXCEPT !.sh.loops = @ - 1]
AfterBody(P, f, res, Again(_)) ==
    IF res.k = "Ok" THEN Again([f EXCEPT !.last = res.n])
    ELSE IF res.k \notin {"Break", "Continue"} THEN Ret(LeftLoop(P), res)
    ELSE IF res.n > 1 THEN Ret(LeftLoop(P), [res EXCEPT !.n = @ - 1])
    ELSE IF res.k = "Break" THEN Ret(LeftLoop(P), Ok(f.last))
    ELSE Again(f)

\* while and until.  An error in the condition leaves the depth as it is.
AfterWhile(p, P, f, res) ==
    LET back == SetStatus(Untested(P, f), res.n)
        goes == (res.n = 0) = (f.t = "While")
        Again(g) == IF Cancelled(p) THEN Ret([P EXCEPT !.leaks.loops = @ + 1], CancelledRes)
                    ELSE TestLoop(P, g)
    IN  IF ~f.cond THEN AfterBody(P, f, res, Again)
        ELSE IF res.k # "Ok" THEN TestedError([P EXCEPT !.leaks.loops = @ + 1], f, res)
        ELSE IF goes THEN Eval(Push(back, [f EXCEPT !.cond = FALSE]), f.cmd.kids[2])
        ELSE Ret(LeftLoop(back), Ok(f.last))
AfterFor(p, P, f, res) == AfterBody(P, f, res, LAMBDA g : NextValue(p, P, g))

\* eval_function and builtin_dot catch return.
Caught(res) == IF res.k = "Return" THEN Ok(res.n) ELSE res
AfterFunction(P, f, res) ==
    Ret([P EXCEPT !.sh = [PopScope(@) EXCEPT !.positional = f.rest]], Caught(res))

AfterInline(P, f, res) ==
    IF res.k # "Ok" THEN Ret(P, res)
    ELSE IF f.rest = <<>> THEN Ret(SetStatus(P, res.n), res)
    ELSE Eval(Push(SetStatus(P, res.n), [f EXCEPT !.rest = Tail(@)]), Head(f.rest))

AfterSimpleOnSuccess(P, f, res) ==
    Ret(IF f.mode = "exec" THEN KeptRedirections(P, f.saved)
        ELSE IF res.k = "Ok" THEN Restored(P, f.saved) ELSE P, res)
AfterSimple(P, f, res) ==
    Ret(IF f.mode = "exec" THEN KeptRedirections(P, f.saved) ELSE Restored(P, f.saved), res)

-----------------------------------------------------------------------------
(* The ends of programs and children, and the traps                        *)

\* run_exit_trap comes next, then the end with status n.
Ending(P, n) == Go(SetStatus(P, n), [Control("ending") EXCEPT !.n = n])

\* run_program_outcome: the next command, after the traps of the signals that
\* are pending now.  A signal that comes while they run waits for the next time.
NextCommand(P, f) ==
    IF f.rest = <<>> THEN Ending(P, P.sh.status)
    ELSE Eval(Push(P, [f EXCEPT !.rest = Tail(@)]), Head(f.rest))
Proceed(P, f) ==
    IF P.caught = {} THEN NextCommand(P, f)
    ELSE Go(Push([P EXCEPT !.caught = {}], f),
            [Control("traps") EXCEPT !.kids = SetToSortSeq(P.caught, LAMBDA a, b : a < b)])

Complete(P) == Go(P, Control("complete"))
AfterProgram(w, p, P, f, res) ==
    LET killed == KillOwned(w, p, ToSet(P.kids))
    IN  IF res.k = "Cancelled" THEN Put(killed, p, Complete(SetStatus([P EXCEPT !.kids = <<>>], 130)))
        ELSE Put(w, p, IF res.k = "Ok" THEN Proceed(SetStatus(P, res.n), f)
                       ELSE IF res.k = "Exit" THEN Ending(P, res.n) ELSE Ending(P, 2))

\* The end of a forked evaluator.
AfterChild(w, p, P, f, res) ==
    LET n == IF res.k \in {"Ok", "Exit"} THEN res.n
             ELSE IF res.k = "Refused" \/ f.mode = "subst" THEN 2 ELSE 1
        reported == [P EXCEPT !.report = @ \/ res.k = "Refused"]
    IN  IF f.mode \in {"subshell", "subst"}
        THEN Put(w, p, Go(reported, [Control("ending") EXCEPT !.n = n]))
        ELSE Exit(Put(w, p, reported), p, n)

\* eval_trap_program: errors are ignored, but a refusal is reported and ends
\* the trap.
AfterTrap(P, f, res) ==
    LET over == f.rest = <<>> \/ res.k = "Refused"
        reported == [P EXCEPT !.report = @ \/ res.k = "Refused"]
    IN  IF ~over THEN Eval(Push(P, [f EXCEPT !.rest = Tail(@)]), Head(f.rest))
        ELSE IF f.mode = "exit"
        THEN Go(SetStatus(reported, f.depth), [Control("ending") EXCEPT !.n = f.last])
        ELSE Go(reported, [Control("traps") EXCEPT !.kids = f.kids])

TrapProgram(text) == LET program == session.parsed[text] IN IF program.err THEN <<>> ELSE program.v
Trapped(P, frame, commands) == Eval(Push(P, [frame EXCEPT !.rest = Tail(commands)]), Head(commands))

\* The signals left over, in order; one whose trap is gone or empty is skipped.
RunPendingTraps(p) ==
    /\ At(p, "traps")
    /\ LET P == procs[p]
           signals == P.c.kids
           name == SignalName(Head(signals))
           action == P.sh.traps[name]
           set == name \in DOMAIN P.sh.traps
           frame == [Frame("trap") EXCEPT !.mode = "pending", !.kids = Tail(signals)]
       IN  Becomes(Put(World, p,
             IF signals = <<>> THEN NextCommand(Pop(P), Top(P))
             ELSE IF set /\ action # <<>> /\ TrapProgram(action) # <<>>
             THEN Trapped(P, frame, TrapProgram(action))
             ELSE [P EXCEPT !.c.kids = Tail(@)]))

\* run_exit_trap, which removes the trap first; then the end.
RunExitTrap(p) ==
    /\ At(p, "ending")
    /\ LET P == procs[p]
           set == EXIT \in DOMAIN P.sh.traps
           commands == TrapProgram(P.sh.traps[EXIT])
           frame == [Frame("trap") EXCEPT !.mode = "exit", !.depth = P.sh.status, !.last = P.c.n]
           Q == [P EXCEPT !.sh = NoExitTrap(@)]
       IN  Becomes(IF set THEN Put(World, p, IF commands = <<>> THEN Q ELSE Trapped(Q, frame, commands))
                   ELSE IF p = Root THEN Put(World, p, Complete(P))
                   ELSE Exit(World, p, P.c.n))

Return(p) ==
    /\ At(p, "ret")
    /\ LET f == Top(procs[p])
           res == procs[p].c.res
           P == Pop(procs[p])
           Local(Q) == Put(World, p, Q)
       IN  Becomes(
             CASE f.t = "command" -> Local(AfterCommand(P, f, res))
               [] f.t = "Pipeline" -> Local(AfterPipeline(P, f, res))
               [] f.t \in {"And", "Or", "If"} -> Local(AfterCondition(P, f, res))
               [] f.t = "Not" -> Local(AfterNot(P, f, res))
               [] f.t = "Sequence" ->
                    Local(IF res.k = "Ok" THEN Eval(SetStatus(P, res.n), f.cmd.kids[2]) ELSE Ret(P, res))
               [] f.t \in {"While", "Until"} -> Local(AfterWhile(p, P, f, res))
               [] f.t = "For" -> Local(AfterFor(p, P, f, res))
               [] f.t = "brace" -> Local(Ret(Restored(P, f.saved), res))
               [] f.t = "simple" -> Local(AfterSimple(P, f, res))
               [] f.t = "function" -> Local(AfterFunction(P, f, res))
               [] f.t = "dot" -> Local(Ret(P, Caught(res)))
               [] f.t = "inline" -> Local(AfterInline(P, f, res))
               [] f.t = "trap" -> Local(AfterTrap(P, f, res))
               [] f.t = "child" -> AfterChild(World, p, P, f, res)
               [] f.t = "program" -> AfterProgram(World, p, P, f, res))

\* wait_child_pgid sees the flag once.
NeverNoticed(p) == FALSE
Noticed(p) == Cancelled(p) /\ procs[p].c.res.k # "Cancelled"

\* What keeps a process from going on: nothing to read yet, a child that has
\* not ended, or nothing left to do.  The original process looks at the flag
\* in every wait but builtin_read's.
Blocked(p) ==
    LET P == procs[p]
        c == P.c
        Ended(kid) == procs[kid].end # <<>>
        Starved(fd) == Unread(World, p, fd) = <<>> /\ MayGrow(World, p, fd)
    IN  CASE c.t = "subst" -> ~Cancelled(p) /\ Starved(PrivateFd)
          [] c.t = "substwait" -> ~Noticed(p) /\ ~Ended(c.kids[1])
          [] c.t = "wait" ->
               /\ ~Noticed(p) /\ c.kids # <<>>
               /\ Head(c.kids) \in ToSet(P.kids) /\ ~Ended(Head(c.kids))
          [] c.t = "job" ->
               /\ ~Cancelled(p)
               /\ \E kid \in ToSet(c.kids) : ~Ended(kid)
               /\ \A kid \in ToSet(c.kids) : Ended(kid) => ~procs[kid].end[1].refused
          [] c.t = "read" ->
               /\ ReadLine(Unread(World, p, 0), 1, ReadRaw(c.args)).eof
               /\ MayGrow(World, p, 0)
          [] c.t = "program" -> c.mode = "sleep" \/ (c.mode = "cat" /\ Starved(0))
          [] OTHER -> c.t \in {"idle", "complete", "dropped", "done"}

\* The step of a process: an evaluator's, or a program's.
EvaluatorStep(p) ==
    \/ EvalCommand(p) \/ Return(p)
    \/ ExpandWords(p) \/ Redirect(p) \/ AssignVariables(p)
    \/ RunCommand(p) \/ ReadInput(p)
    \/ ReadSubstitution(p) \/ FinishSubstitution(p) \/ InterruptSubstitution(p)
    \/ WaitChild(p) \/ InterruptWait(p) \/ ObserveJob(p)
    \/ RunPendingTraps(p) \/ RunExitTrap(p)
Step(p) == ~Blocked(p) /\ (EvaluatorStep(p) \/ RunProgram(p))

=============================================================================
