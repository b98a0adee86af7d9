-------------------------------- MODULE Epsh --------------------------------
(***************************************************************************)
(* An embedding program and its epsh shell (epsh/src/eval.rs): it runs one *)
(* program text after the other in the same shell, may raise the           *)
(* cancellation flag while one runs, and drops the shell at the end.       *)
(* Standard input is the file "in" and standard output the file "out".     *)
(***************************************************************************)
EXTENDS ShellEval

CONSTANTS
    Sessions,       \* the sessions: [texts, parsed, interruptible]
    FileTexts       \* path -> content, the files there are at the start

VARIABLE
    done  \* the statuses of the session's texts so far

epshVars == <<procs, descs, pipes, files, cancel, session, done>>

StdIn == <<Chars("in")>>
StdOut == <<Chars("out")>>

\* ShellBuilder::build
NewShell ==
    LET sh == BlankShell
        fds == [fd \in {0, 1} |-> fd + 1]
    IN  [sh |-> sh, c |-> Control("idle"), k |-> <<>>, fds |-> fds, held |-> <<>>, kids |-> <<>>,
         parent |-> 0, pgid |-> Root, evExit |-> FALSE, caught |-> {}, report |-> FALSE,
         end |-> <<>>, base |-> BaseOf(sh, fds), leaks |-> NoLeaks]

Init ==
    /\ session \in Sessions
    /\ procs = [p \in {Root} |-> NewShell]
    /\ descs = [d \in {1, 2} |-> IF d = 1 THEN [Desc("in", 0) EXCEPT !.path = StdIn]
                                 ELSE [Desc("append", 0) EXCEPT !.path = StdOut]]
    /\ pipes = <<>>
    /\ files = FileTexts
    /\ cancel = FALSE
    /\ done = <<>>

Shell == procs[Root]
AtRoot(t) == At(Root, t)

\* run_script: a text that does not parse has status 2.
RunScript ==
    /\ AtRoot("idle") /\ Len(done) < Len(session.texts)
    /\ LET program == session.parsed[session.texts[Len(done) + 1]]
           frame == [Frame("program") EXCEPT !.rest = program.v]
       IN  /\ Becomes(Put(World, Root,
                 IF program.err THEN Complete(SetStatus(Shell, 2))
                 ELSE IF program.v = <<>> THEN Ending(Shell, Shell.sh.status)
                 ELSE Eval(Push(Shell, [frame EXCEPT !.rest = Tail(@)]), Head(program.v))))
    /\ UNCHANGED done

\* The outcome reaches the embedding program, which lowers the flag.
TakeOutcome ==
    /\ AtRoot("complete")
    /\ done' = Append(done, Shell.sh.status)
    /\ cancel' = FALSE
    /\ procs' = [procs EXCEPT ![Root].c = Control("idle")]
    /\ UNCHANGED <<descs, pipes, files, session>>

RaiseCancel ==
    /\ session.interruptible /\ ~cancel
    /\ Shell.c.t \notin {"idle", "complete", "dropped"}
    /\ cancel' = TRUE
    /\ UNCHANGED <<procs, descs, pipes, files, session, done>>

\* Drop: the children the shell still has are killed.
DropShell ==
    /\ AtRoot("idle") /\ Len(done) = Len(session.texts)
    /\ LET killed == KillOwned(World, Root, ToSet(Shell.kids))
       IN  Becomes(Put(killed, Root, Go([Shell EXCEPT !.kids = <<>>, !.fds = <<>>], Control("dropped"))))
    /\ UNCHANGED done

ProcessStep(p) == Step(p) /\ UNCHANGED done
Next ==
    \/ RunScript \/ TakeOutcome \/ RaiseCancel \/ DropShell
    \/ \E p \in DOMAIN procs : ProcessStep(p)

\* The system does not stop while the embedding program has a call to make or
\* some process is not blocked.  Which process runs is not assumed.
Ready ==
    \/ AtRoot("idle") \/ AtRoot("complete")
    \/ \E p \in DOMAIN procs : ~Blocked(p)
Fairness == []<>~Ready \/ []<><<TRUE>>_epshVars
Spec == Init /\ [][Next]_epshVars /\ Fairness

-----------------------------------------------------------------------------
(* Properties                                                              *)

\* The redirections that are set up and not yet in a frame.
Pending(c) == IF c.t \in {"subst", "substwait"} THEN c.resume[1].c.saved ELSE c.saved
Count(P, Is(_)) == Cardinality({ i \in DOMAIN P.k : Is(P.k[i]) })
IsLoop(f) == f.t \in {"While", "Until", "For"}
IsTest(f) ==
    \/ f.t \in {"And", "Or", "If", "Not"}
    \/ f.t \in {"While", "Until"} /\ f.cond
    \/ f.t = "Pipeline" /\ f.cmd.flag

\* Whatever ends a command - success, break, return, exit, an error in an
\* expansion or a redirection, a refusal or a cancellation - every evaluator
\* is, once it has undone what its active commands hold, back where it began:
\* the same descriptors, loop depth and variable scopes, and errexit is
\* suspended exactly while a condition is tested.  The places where eval.rs
\* returns early with ? and leaves the depth, the scope or the suspension
\* behind are counted in leaks.
ContextRestored ==
    \A p \in Running(World) :
        LET P == procs[p]
            sh == P.sh
        IN  P.c.t # "dropped" =>
              /\ Without(Undone(Restored(P, Pending(P.c))), {PrivateFd}) = P.base.fds
              /\ sh.loops = P.base.loops + P.leaks.loops + Count(P, IsLoop)
              /\ Len(sh.scopes) = P.base.scopes + P.leaks.scopes + Count(P, LAMBDA f : f.t = "function")
              /\ sh.tested = (P.base.tested \/ P.leaks.tested \/ Count(P, IsTest) > 0)

\* Every program that can end does, with all its processes and readers in
\* any order, and a cancelled program ends whatever it was doing.
ProgramEnds ==
    /\ ~session.interruptible => <>AtRoot("dropped")
    /\ cancel ~> ~cancel

=============================================================================
