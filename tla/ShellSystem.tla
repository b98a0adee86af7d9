----------------------------- MODULE ShellSystem -----------------------------
(***************************************************************************)
(* The processes of an epsh shell and what they share: open files, pipes   *)
(* and process groups (epsh/src/eval.rs, redirect.rs and jobs.rs, and what *)
(* they use of the operating system).  Everything here is an operator over *)
(*   w = [procs, descs, pipes, files];                                     *)
(* the steps are in ShellEval.                                             *)
(*                                                                         *)
(* A process has                                                           *)
(*   sh      its shell: the fields of ShellVars and ShellBuiltin and       *)
(*           tested, pipeDepth, substDepth                                 *)
(*   c, k    what it does next, and the frames that wait for the result    *)
(*   fds     descriptor -> open file; held: redirection_fds, the backup    *)
(*           descriptors by slot, 0 for a free slot                        *)
(*   kids    child_pids; parent; pgid                                      *)
(*   evExit  a pipeline member's external command replaces it              *)
(*   caught  signals delivered to a handler and not yet acted on           *)
(*   report  a refusal was reported to the parent                          *)
(*   end     <<>> while it runs, then its status until it is reaped        *)
(*   base, leaks: what it began with and what errors left behind, kept for *)
(*           the properties                                                *)
(* An open file is a file, a here-document or an end of a pipe.            *)
(***************************************************************************)
EXTENDS ShellBuiltin

CONSTANTS
    BackupBase,   \* descriptors up to here are never backups; 9 in the program
    MaxPid        \* process ids are 1 .. MaxPid

Root == 1
PrivateFd == 100  \* the number of the pipe that a command substitution reads

With(f, key, value) == [x \in DOMAIN f \cup {key} |-> IF x = key THEN value ELSE f[x]]
Without(f, keys) == [x \in DOMAIN f \ keys |-> f[x]]
FreshId(table) == CHOOSE i \in 1 .. Cardinality(DOMAIN table) + 1 : i \notin DOMAIN table

NoCommand == [c |-> "None", kids |-> <<>>, redirs |-> <<>>, words |-> <<>>, assigns |-> <<>>,
              name |-> <<>>, flag |-> FALSE, arms |-> <<>>]
Control(t) ==
    [t |-> t, cmd |-> NoCommand, outs |-> <<>>, args |-> <<>>, i |-> 1, saved |-> <<>>,
     kids |-> <<>>, text |-> <<>>, res |-> Res("Ok", 0), mode |-> "", n |-> 0, env |-> <<>>, resume |-> <<>>]
Frame(t) ==
    [t |-> t, cmd |-> NoCommand, tested |-> FALSE, depth |-> 0, last |-> 0, cond |-> FALSE,
     rest |-> <<>>, saved |-> <<>>, kids |-> <<>>, mode |-> ""]

BlankShell ==
    [vars |-> <<>>, scopes |-> <<>>, positional |-> <<>>, status |-> 0, lastBg |-> 0,
     opts |-> {}, arg0 |-> <<>>, pid |-> Root, substs |-> 0, cwd |-> <<>>, funcs |-> <<>>,
     traps |-> <<>>, loops |-> 0, umask |-> Chars("0022"), tested |-> FALSE,
     pipeDepth |-> 0, substDepth |-> 0]

NoLeaks == [tested |-> FALSE, loops |-> 0, scopes |-> 0]
BaseOf(sh, fds) == [fds |-> fds, tested |-> sh.tested, loops |-> sh.loops, scopes |-> Len(sh.scopes)]

Running(w) == { p \in DOMAIN w.procs : w.procs[p].end = <<>> }
Push(P, frame) == [P EXCEPT !.k = Append(@, frame)]
Pop(P) == [P EXCEPT !.k = Front(@)]
Top(P) == Last(P.k)
Go(P, control) == [P EXCEPT !.c = control]
Ret(P, res) == Go(P, [Control("ret") EXCEPT !.res = res])
Eval(P, cmd) == Go(P, [Control("eval") EXCEPT !.cmd = cmd])
Put(w, p, P) == [w EXCEPT !.procs[p] = P]

-----------------------------------------------------------------------------
(* Open files                                                              *)

Desc(kind, name) == [kind |-> kind, name |-> name, path |-> <<>>, text |-> <<>>, pos |-> 0]
InUse(w) == UNION { { w.procs[p].fds[fd] : fd \in DOMAIN w.procs[p].fds } : p \in DOMAIN w.procs }
Ends(w, kind, pipe) == { d \in InUse(w) : w.descs[d].kind = kind /\ w.descs[d].name = pipe }

\* What no process has open is gone.
Collected(w) ==
    LET open == InUse(w)
    IN  [w EXCEPT !.descs = [d \in DOMAIN @ \cap open |-> @[d]],
                  !.pipes = [i \in { w.descs[d].name : d \in
                               { e \in open : w.descs[e].kind \in {"read", "write"} } } |-> @[i]]]

\* sys::write, whose failures are ignored: at the end of a pipe someone
\* reads, or in a file at the position, which appending moves to the end.
WriteOut(w, p, text) ==
    LET d == w.procs[p].fds[1]
        D == w.descs[d]
        content == w.files[D.path]
        at == IF D.kind = "append" THEN Len(content) ELSE Min({D.pos, Len(content)})
    IN  IF text = <<>> \/ 1 \notin DOMAIN w.procs[p].fds THEN w
        ELSE IF D.kind = "write"
        THEN IF Ends(w, "read", D.name) = {} THEN w ELSE [w EXCEPT !.pipes[D.name] = @ \o text]
        ELSE IF D.kind \in {"out", "append", "both"}
        THEN [w EXCEPT !.files[D.path] = SubSeq(@, 1, at) \o text \o FromArg(@, at + Len(text) + 1),
                       !.descs[d].pos = at + Len(text)]
        ELSE w

\* What can be read from a descriptor now, and whether more may come.
Unread(w, p, fd) ==
    LET D == w.descs[w.procs[p].fds[fd]]
    IN  IF fd \notin DOMAIN w.procs[p].fds THEN <<>>
        ELSE CASE D.kind = "read" -> w.pipes[D.name]
               [] D.kind = "doc" -> FromArg(D.text, D.pos + 1)
               [] D.kind \in {"in", "both"} -> FromArg(w.files[D.path], D.pos + 1)
               [] OTHER -> <<>>
MayGrow(w, p, fd) ==
    /\ fd \in DOMAIN w.procs[p].fds
    /\ LET D == w.descs[w.procs[p].fds[fd]]
       IN  D.kind = "read" /\ Ends(w, "write", D.name) # {}
Consume(w, p, fd, n) ==
    LET d == w.procs[p].fds[fd]
    IN  IF n = 0 THEN w
        ELSE IF w.descs[d].kind = "read" THEN [w EXCEPT !.pipes[w.descs[d].name] = FromArg(@, n + 1)]
        ELSE [w EXCEPT !.descs[d].pos = @ + n]

-----------------------------------------------------------------------------
(* Processes                                                               *)

\* The processes in S end with a status.  A child of an ended process that
\* has ended, or ends later, is nobody's.
EndAll(w, S, status) ==
    LET Ended(P, n) == [P EXCEPT !.end = <<[status |-> n, refused |-> P.report]>>, !.c = Control("done"),
                                 !.k = <<>>, !.fds = <<>>, !.held = <<>>, !.kids = <<>>,
                                 !.sh = BlankShell, !.caught = {}, !.base = BaseOf(BlankShell, <<>>)]
        gone == { p \in DOMAIN w.procs : /\ p \in S \/ w.procs[p].end # <<>>
                                         /\ w.procs[p].parent \in S \cup {0}
                                         /\ p # Root }
    IN  [w EXCEPT !.procs = [p \in DOMAIN @ \ gone |->
            LET P == [@[p] EXCEPT !.parent = IF @ \in S THEN 0 ELSE @]
            IN  IF p \in S THEN Ended(P, status) ELSE P]]
Exit(w, p, status) == EndAll(w, {p}, status)

Group(w, pgid) == { p \in Running(w) : w.procs[p].pgid = pgid }
TerminateGroup(w, pgid) == EndAll(w, Group(w, pgid), 128 + 9)

\* waitpid of ended children, and forget_child.
Reap(w, p, pids) ==
    [w EXCEPT !.procs = [q \in DOMAIN @ \ pids |->
        IF q = p THEN [@[q] EXCEPT !.kids = SelectSeq(@, LAMBDA kid : kid \notin pids)] ELSE @[q]]]

\* kill_owned_children: the groups of the children, and in a child the
\* children themselves, are killed and the children reaped.
KillOwned(w, p, pids) ==
    LET live == pids \cap DOMAIN w.procs
        killed == IF p = Root THEN UNION { Group(w, w.procs[q].pgid) : q \in live }
                  ELSE live \cap Running(w)
        after == EndAll(w, killed, 128 + 9)
    IN  Reap(after, p, pids)

\* A handler takes the signal, an empty trap ignores it, and SIGKILL and the
\* rest end the process.
Signalled(w, p, n) ==
    LET P == w.procs[p]
        trap == IF SignalName(n) \in DOMAIN P.sh.traps /\ n # 9 THEN <<P.sh.traps[SignalName(n)]>>
                ELSE <<>>
    IN  IF n = 0 \/ p \notin Running(w) \/ trap = <<<<>>>> THEN w
        ELSE IF trap # <<>> THEN [w EXCEPT !.procs[p].caught = @ \cup {n}]
        ELSE EndAll(w, {p}, 128 + n)

\* fork_evaluator and enter_forked_child.  evExit is inherited: a program in a
\* substitution of a pipeline member replaces the evaluator of the substitution.
ChildOf(P, p, group) ==
    [P EXCEPT !.k = <<>>, !.kids = <<>>, !.parent = p, !.pgid = IF p = Root THEN group ELSE @,
              !.caught = {}, !.fds = Without(@, {PrivateFd}),
              !.leaks = NoLeaks]
Started(P) == [P EXCEPT !.base = BaseOf(P.sh, P.fds)]

FreePids(w) == 2 .. MaxPid \ DOMAIN w.procs
NewPids(w, n) == [i \in 1 .. n |-> CHOOSE q \in FreePids(w) :
                    Cardinality({ r \in FreePids(w) : r <= q }) = i]
CanFork(w, n) == Cardinality(FreePids(w)) >= n

\* The children become processes of p, which tracks them.
Spawned(w, p, pids, children) ==
    LET at == [q \in ToSet(pids) |-> CHOOSE i \in DOMAIN pids : pids[i] = q]
        grown == [q \in DOMAIN w.procs \cup ToSet(pids) |->
                    IF q \in ToSet(pids) THEN Started(children[at[q]]) ELSE w.procs[q]]
    IN  [w EXCEPT !.procs = [grown EXCEPT ![p].kids = @ \o pids]]

NoExitTrap(sh) == [sh EXCEPT !.traps = Without(@, {EXIT})]
Bottom(mode) == [Frame("child") EXCEPT !.mode = mode]

\* One child that evaluates control c under a child frame.
ForkChild(w, p, P, mode, control) ==
    LET pid == NewPids(w, 1)[1]
        child == Push(Go([ChildOf(P, p, pid) EXCEPT !.sh = NoExitTrap(@)], control), Bottom(mode))
    IN  Spawned(Put(w, p, P), p, <<pid>>, <<child>>)

\* execve: the program gets the open descriptors but the backups, and of the
\* traps only the ignored signals.
AsProgram(P, kind, text) ==
    LET fds == Without(P.fds, ToSet(P.held) \cup {PrivateFd})
        ignored == { s \in DOMAIN P.sh.traps : P.sh.traps[s] = <<>> }
        sh == [BlankShell EXCEPT !.traps = [s \in ignored |-> <<>>]]
    IN  [P EXCEPT !.c = [Control("program") EXCEPT !.mode = kind, !.text = text], !.k = <<>>,
                  !.sh = sh, !.fds = fds, !.held = <<>>, !.base = BaseOf(sh, fds), !.leaks = NoLeaks]

-----------------------------------------------------------------------------
(* Redirections                                                            *)

Above(fds, low) == CHOOSE fd \in low .. low + Cardinality(DOMAIN fds) :
                      /\ fd \notin DOMAIN fds
                      /\ \A lower \in low .. fd - 1 : lower \in DOMAIN fds
TrimHeld(P) ==
    LET used == { i \in DOMAIN P.held : P.held[i] # 0 }
    IN  [P EXCEPT !.held = SubSeq(@, 1, IF used = {} THEN 0 ELSE Max(used))]
SavedFdMin(redirs) == Max({BackupBase} \cup { redirs[i].fd : i \in DOMAIN redirs }) + 1

\* move_held_fd_for_target: a backup on the target's number moves away.
MoveHeld(P, target, low) ==
    LET at == { i \in DOMAIN P.held : P.held[i] = target }
        to == Above(P.fds, low)
    IN  IF at = {} THEN P
        ELSE [P EXCEPT !.held[CHOOSE i \in at : TRUE] = to,
                       !.fds = Without(With(@, to, @[target]), {target})]

\* The target's descriptor is kept in a new slot, unless it was closed.
Backup(P, target, low) ==
    LET copy == Above(P.fds, low)
    IN  IF target \notin DOMAIN P.fds THEN P
        ELSE [P EXCEPT !.held = Append(@, copy), !.fds = With(@, copy, @[target])]

ResolvePath(sh, text) == (IF StartsWith(text, "/") THEN <<>> ELSE sh.cwd) \o SplitComponents(text)
Writable(path) == path # <<>> /\ ~IsDir(path) /\ IsDir(Front(path))
OpenKinds == [Input |-> "in", Output |-> "out", Clobber |-> "out", Append |-> "append",
              ReadWrite |-> "both"]

\* One redirection whose word is expanded: the world after it and whether it
\* failed.  P has the backup already.
Installed(w, p, P, redir, text) ==
    LET path == ResolvePath(P.sh, text)
        kind == OpenKinds[redir.kind]
        d == FreshId(w.descs)
        Opened(desc, v) ==
            [w |-> [Put(v, p, [P EXCEPT !.fds = With(@, redir.fd, d)]) EXCEPT
                      !.descs = With(@, d, desc)], failed |-> FALSE]
        Failed == [w |-> Put(w, p, P), failed |-> TRUE]
        created == [w EXCEPT !.files = With(@, path,
                       IF kind = "out" \/ path \notin DOMAIN @ THEN <<>> ELSE @[path])]
        source == ParsedInt(text)
    IN  CASE redir.kind \in {"HereDoc", "HereDocStrip"} ->
               Opened([Desc("doc", 0) EXCEPT !.text = text], w)
          [] redir.kind = "Input" ->
               IF path \notin DOMAIN w.files THEN Failed
               ELSE Opened([Desc("in", 0) EXCEPT !.path = path], w)
          [] redir.kind \in {"Output", "Clobber", "Append", "ReadWrite"} ->
               IF ~Writable(path) THEN Failed
               ELSE Opened([Desc(kind, 0) EXCEPT !.path = path], created)
          [] redir.kind \in {"DupInput", "DupOutput"} ->
               IF text = <<"-">>
               THEN IF redir.fd \notin DOMAIN P.fds THEN Failed
                    ELSE [w |-> Put(w, p, [P EXCEPT !.fds = Without(@, {redir.fd})]), failed |-> FALSE]
               ELSE IF ~IsInt(text) THEN Failed
               ELSE IF source \in ToSet(P.held) \/ source \notin DOMAIN P.fds \ {PrivateFd} THEN Failed
               ELSE [w |-> Put(w, p, [P EXCEPT !.fds = With(@, redir.fd, @[source])]), failed |-> FALSE]

\* restore_redirections, the last saved first.
RECURSIVE Restored(_, _)
Restored(P, saved) ==
    LET s == Last(saved)
        copy == P.held[s.slot]
    IN  IF saved = <<>> THEN TrimHeld(P)
        ELSE Restored(IF s.slot = 0 THEN [P EXCEPT !.fds = Without(@, {s.target})]
                      ELSE [P EXCEPT !.fds = Without(With(@, s.target, @[copy]), {copy}),
                                     !.held[s.slot] = 0],
                      Front(saved))

\* The descriptors a process gets back when everything it calls returns.
RECURSIVE Undone(_)
Undone(P) == IF P.k = <<>> THEN P.fds ELSE Undone(Pop(Restored(P, Top(P).saved)))

\* finish_saved_redirections: after exec the backups are closed instead, and
\* the redirections are the process's own from then on.
KeptRedirections(P, saved) ==
    LET slots == { saved[i].slot : i \in DOMAIN saved } \ {0}
        Q == TrimHeld([P EXCEPT !.fds = Without(@, { P.held[s] : s \in slots }),
                                !.held = [i \in DOMAIN @ |-> IF i \in slots THEN 0 ELSE @[i]]])
    IN  [Q EXCEPT !.base.fds = Undone(Q)]

=============================================================================
