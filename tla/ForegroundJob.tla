---------------------------- MODULE ForegroundJob ----------------------------
(***************************************************************************)
(* The foreground process group of crates/epsh/src/jobs.rs: the wait loop, *)
(* stop and resume, terminal hand-off, and termination, against a kernel   *)
(* in which the members exit, stop and are killed at any moment.           *)
(*                                                                         *)
(* waitid looks without reaping, so an exited member keeps its pid, and    *)
(* the group its number, until the loop reaps it. SIGSTOP takes effect     *)
(* some time after it is sent; SIGCONT takes effect when sent and discards *)
(* pending stops and unconsumed stop reports. Descendants of the members   *)
(* and SIGCONT from outside the shell are not modelled.                    *)
(***************************************************************************)
EXTENDS Naturals, FiniteSets

CONSTANTS
    N,          \* direct children, the last one being the final stage
    Options,    \* the jobs considered: pipefail as it was when the job
                \* started, inverted for a negated pipeline, converged when
                \* the members own the terminal and there is no hand-off
    Faults,     \* kinds of failure that may happen
    MaxFaults,  \* bound on failures
    MaxResumes  \* bound on fg

FaultKinds == {"wait", "refusal", "handoff", "reclaim", "cont", "steal", "kill", "relay"}

ASSUME ParametersAssumption ==
    /\ N \in Nat \ {0} /\ MaxFaults \in Nat /\ MaxResumes \in Nat
    /\ Options \subseteq [pipefail : BOOLEAN, inverted : BOOLEAN, converged : BOOLEAN]
    /\ Faults \subseteq FaultKinds

VARIABLES
    opt,      \* the job's options
    kern,     \* what the kernel knows of each member
    code,     \* the exit status of a member that has exited
    pend,     \* members with a SIGSTOP on its way
    report,   \* members whose stop nobody has consumed
    rec,      \* Member.state
    st,       \* the status inside Exited and Reaped
    lost,     \* ownership_lost
    w,        \* the waiting thread
    tty,      \* who owns the terminal
    relay,    \* the output relays: open, at end of file, broken, or joined
    cancel,   \* the cancel flag or the deadline
    budget,   \* failures and resumes so far
    ghost     \* stolen: reaped by someone else; unsafe: a group signal with
              \* no unreaped member; reclaim: taking the terminal back failed;
              \* handoff: giving it to the job failed inside the wait; left: members
              \* terminate could not look at or reap; alive: it could not kill

vars == <<opt, kern, code, pend, report, rec, st, lost, w, tty, relay, cancel, budget, ghost>>
kernel == <<kern, code, pend, report>>
job    == <<rec, st, lost>>

Members  == 1 .. N
Codes    == 0 .. 2     \* success and two failures to tell apart
Live(m)  == rec[m] \in {"running", "stopped"}
Owned(m) == rec[m] \in {"running", "stopped", "exited"}
IsComplete == \A m \in Members : ~ Owned(m)
Interrupted == w.result = "cancelled"

Failing(kind) ==
    /\ kind \in Faults /\ budget.faults < MaxFaults
    /\ budget' = [budget EXCEPT !.faults = @ + 1]

Go(pc) == w' = [w EXCEPT !.pc = pc]
Fail   == w' = [w EXCEPT !.pc = "failed", !.result = "error"]
-----------------------------------------------------------------------------
(* The kernel.                                                             *)

Exit(m, c) ==
    /\ kern[m] = "run"
    /\ kern' = [kern EXCEPT ![m] = "zombie"] /\ code' = [code EXCEPT ![m] = c]
    /\ pend' = pend \ {m}
    /\ UNCHANGED <<report, job, w, tty, relay, cancel, budget, ghost>>

\* The terminal's suspend key, a signal from elsewhere, or a stop of its own.
Stop(m) ==
    /\ kern[m] = "run"
    /\ kern' = [kern EXCEPT ![m] = "stopped"] /\ report' = report \cup {m}
    /\ pend' = pend \ {m}
    /\ UNCHANGED <<code, job, w, tty, relay, cancel, budget, ghost>>

DeliverStop(m) == m \in pend /\ Stop(m)

\* kill -9 from elsewhere reaches stopped members too.
Killed(m) ==
    /\ kern[m] = "stopped"
    /\ kern' = [kern EXCEPT ![m] = "zombie"] /\ code' = [code EXCEPT ![m] = 1]
    /\ report' = report \ {m}
    /\ UNCHANGED <<pend, job, w, tty, relay, cancel, budget, ghost>>

\* Someone else in this process waits for any child.
Steal(m) ==
    /\ kern[m] = "zombie" /\ Failing("steal")
    /\ kern' = [kern EXCEPT ![m] = "gone"]
    /\ ghost' = [ghost EXCEPT !.stolen = @ \cup {m}]
    /\ UNCHANGED <<code, pend, report, job, w, tty, relay, cancel>>

RelayEof ==
    /\ relay = "open" /\ \A m \in Members : kern[m] \in {"zombie", "gone"}
    /\ relay' = "eof"
    /\ UNCHANGED <<kernel, job, w, tty, cancel, budget, ghost>>

\* Writing to the sink failed: the relay ends with an error.
RelayBreaks ==
    /\ relay = "open" /\ Failing("relay")
    /\ relay' = "broken"
    /\ UNCHANGED <<kernel, job, w, tty, cancel, ghost>>

Cancel ==
    /\ ~ cancel /\ cancel' = TRUE
    /\ UNCHANGED <<kernel, job, w, tty, relay, budget, ghost>>

Unreaped == \E m \in Members : kern[m] # "gone"
NoteSignal == ghost' = [ghost EXCEPT !.unsafe = @ \/ ~ Unreaped]

StopGroup ==
    /\ pend' = pend \cup {m \in Members : kern[m] = "run"}
    /\ NoteSignal
ContinueGroup ==
    /\ kern' = [m \in Members |-> IF kern[m] = "stopped" THEN "run" ELSE kern[m]]
    /\ pend' = {} /\ report' = {}
    /\ NoteSignal
-----------------------------------------------------------------------------
(* observe_foreground_job.                                                 *)

Handoff ==
    /\ w.pc = "handoff"
    /\ \/ opt.converged /\ Go("pass") /\ UNCHANGED <<tty, budget, ghost>>
       \/ ~ opt.converged /\ tty' = "job" /\ Go("pass") /\ UNCHANGED <<budget, ghost>>
       \* The error leaves before the terminal is taken back.
       \/ ~ opt.converged /\ Failing("handoff") /\ UNCHANGED tty
          /\ w' = [w EXCEPT !.pc = "returned", !.result = "error"]
          /\ ghost' = [ghost EXCEPT !.handoff = TRUE]
    /\ UNCHANGED <<kernel, job, relay, cancel>>

Pass ==
    /\ w.pc = "pass"
    /\ w' = IF cancel THEN [w EXCEPT !.pc = "failed", !.result = "cancelled"]
            ELSE [w EXCEPT !.pc = "look", !.i = 1, !.live = FALSE, !.allStopped = TRUE]
    /\ UNCHANGED <<kernel, job, tty, relay, cancel, budget, ghost>>

\* The end of a member's turn: is it still live, and is it stopped?
Looked(r) ==
    [w EXCEPT !.pc = "look", !.i = @ + 1,
              !.live = @ \/ r \in {"running", "stopped"},
              !.allStopped = @ /\ r # "running"]

\* read_child_refusal fails the wait when an evaluator child was refused.
Exited(m, state) ==
    /\ rec' = [rec EXCEPT ![m] = state] /\ st' = [st EXCEPT ![m] = code[m]]
    /\ \/ w' = Looked(state) /\ UNCHANGED budget
       \/ Failing("refusal") /\ Fail

Look(m) ==
    /\ w.pc = "look" /\ w.i = m
    /\ \/ ~ Live(m) /\ w' = [w EXCEPT !.i = @ + 1] /\ UNCHANGED <<job, budget>>
       \/ Live(m) /\ kern[m] = "stopped" /\ m \in report
          /\ Go("consume") /\ UNCHANGED <<job, budget>>
       \/ Live(m) /\ kern[m] = "zombie" /\ Exited(m, "exited") /\ UNCHANGED lost
       \/ Live(m) /\ (kern[m] = "run" \/ (kern[m] = "stopped" /\ m \notin report))
          /\ w' = Looked(rec[m]) /\ UNCHANGED <<job, budget>>
       \/ Live(m) /\ kern[m] = "gone"
          /\ rec' = [rec EXCEPT ![m] = "relinquished"] /\ lost' = TRUE
          /\ w' = Looked("relinquished") /\ UNCHANGED <<st, budget>>
       \/ Live(m) /\ Failing("wait") /\ Fail /\ UNCHANGED job
    /\ UNCHANGED <<kernel, tty, relay, cancel, ghost>>

\* Mutant: the other members are not stopped.
ConsumeAlone(m) ==
    /\ w.pc = "consume" /\ w.i = m
    /\ \/ kern[m] = "stopped" /\ m \in report
          /\ report' = report \ {m} /\ rec' = [rec EXCEPT ![m] = "stopped"]
          /\ w' = [Looked("stopped") EXCEPT !.stopping = TRUE]
          /\ UNCHANGED <<kern, st, budget, pend, ghost>>
       \/ kern[m] = "zombie"
          /\ kern' = [kern EXCEPT ![m] = "gone"] /\ Exited(m, "reaped")
          /\ UNCHANGED <<report, pend, ghost>>
       \/ kern[m] = "gone" /\ Fail /\ UNCHANGED <<kern, report, pend, ghost, rec, st, budget>>
    /\ UNCHANGED <<code, lost, tty, relay, cancel>>

\* waitpid consumes the stop, or reaps a member killed since waitid. The first
\* stop stops the whole group; when that fails the wait does.
Consume(m) ==
    /\ w.pc = "consume" /\ w.i = m
    /\ \/ kern[m] = "stopped" /\ m \in report
          /\ report' = report \ {m} /\ rec' = [rec EXCEPT ![m] = "stopped"]
          /\ (IF w.stopping THEN UNCHANGED <<pend, ghost>> ELSE StopGroup)
          /\ w' = [Looked("stopped") EXCEPT !.stopping = TRUE]
          /\ UNCHANGED <<kern, st, budget>>
       \/ kern[m] = "stopped" /\ m \in report /\ ~ w.stopping /\ Failing("kill") /\ Fail
          /\ report' = report \ {m} /\ rec' = [rec EXCEPT ![m] = "stopped"]
          /\ NoteSignal /\ UNCHANGED <<kern, st, pend>>
       \/ kern[m] = "zombie"
          /\ kern' = [kern EXCEPT ![m] = "gone"] /\ Exited(m, "reaped")
          /\ UNCHANGED <<report, pend, ghost>>
       \/ kern[m] = "gone" /\ Fail /\ UNCHANGED <<kern, report, pend, ghost, rec, st, budget>>
    /\ UNCHANGED <<code, lost, tty, relay, cancel>>

\* Mutant: the loop ends at the first stop.
DecideEarly ==
    /\ w.pc = "look" /\ w.i = N + 1
    /\ w' = CASE ~ w.live -> [w EXCEPT !.pc = "drain"]
              [] w.live /\ w.stopping -> [w EXCEPT !.pc = "reclaim", !.result = "stopped"]
              [] OTHER -> [w EXCEPT !.pc = "pass"]
    /\ UNCHANGED <<kernel, job, tty, relay, cancel, budget, ghost>>

Decide ==
    /\ w.pc = "look" /\ w.i = N + 1
    /\ w' = CASE ~ w.live -> [w EXCEPT !.pc = "drain"]
              [] w.live /\ w.stopping /\ w.allStopped -> [w EXCEPT !.pc = "reclaim", !.result = "stopped"]
              [] OTHER -> [w EXCEPT !.pc = "pass"]
    /\ UNCHANGED <<kernel, job, tty, relay, cancel, budget, ghost>>

\* No member is live: wait for the relays, watching for cancellation.
Drain ==
    /\ w.pc = "drain"
    /\ \/ relay = "open" /\ cancel /\ w' = [w EXCEPT !.pc = "failed", !.result = "cancelled"]
       \/ relay # "open" /\ w' = [w EXCEPT !.pc = "reap", !.i = 1]
    /\ UNCHANGED <<kernel, job, tty, relay, cancel, budget, ghost>>

Reap(m) ==
    /\ w.pc = "reap" /\ w.i = m
    /\ \/ ~ Owned(m) /\ w' = [w EXCEPT !.i = @ + 1] /\ UNCHANGED <<kern, job, budget>>
       \/ Owned(m) /\ kern[m] = "zombie"
          /\ kern' = [kern EXCEPT ![m] = "gone"]
          /\ rec' = [rec EXCEPT ![m] = "reaped"] /\ st' = [st EXCEPT ![m] = code[m]]
          /\ w' = [w EXCEPT !.i = @ + 1] /\ UNCHANGED <<lost, budget>>
       \/ Owned(m) /\ kern[m] = "gone"
          /\ rec' = [rec EXCEPT ![m] = "relinquished"] /\ lost' = TRUE
          /\ w' = [w EXCEPT !.i = @ + 1] /\ UNCHANGED <<kern, st, budget>>
       \/ Owned(m) /\ Failing("wait") /\ Fail /\ UNCHANGED <<kern, job>>
    /\ UNCHANGED <<code, pend, report, tty, relay, cancel, ghost>>

Has(m) == rec[m] \in {"exited", "reaped"}

\* ForegroundJob::result: the last stage, or the last failing one.
Result ==
    LET last == IF Has(N) THEN st[N] ELSE 1
        bad == {m \in Members : Has(m) /\ st[m] # 0}
        picked == IF opt.pipefail /\ bad # {} THEN st[CHOOSE m \in bad : \A x \in bad : x <= m] ELSE last
    IN  IF opt.inverted THEN (IF picked = 0 THEN 1 ELSE 0) ELSE picked

\* finish_relays reports a relay that broke.
Join ==
    /\ w.pc = "reap" /\ w.i = N + 1
    /\ relay' = "joined"
    /\ w' = IF lost \/ relay = "broken" THEN [w EXCEPT !.pc = "failed", !.result = "error"]
            ELSE [w EXCEPT !.pc = "reclaim", !.result = "status", !.status = Result]
    /\ UNCHANGED <<kernel, job, tty, cancel, budget, ghost>>
-----------------------------------------------------------------------------
(* wait_foreground_job after the loop.                                     *)

\* Cancellation terminates the group; any other error leaves it stopped, unless
\* that signal fails too.
Failed ==
    /\ w.pc = "failed"
    /\ \/ Interrupted /\ w' = [w EXCEPT !.pc = "check", !.i = 1, !.next = "reclaim"]
          /\ UNCHANGED <<pend, ghost, budget>>
       \/ ~ Interrupted /\ Go("reclaim")
          /\ (IF IsComplete THEN UNCHANGED <<pend, ghost>> ELSE StopGroup)
          /\ UNCHANGED budget
       \/ ~ Interrupted /\ Go("reclaim")
          /\ ~ IsComplete /\ Failing("kill") /\ NoteSignal /\ UNCHANGED pend
    /\ UNCHANGED <<kern, code, report, job, tty, relay, cancel>>

\* An error taking the terminal back replaces a result, never an error.
Reclaim ==
    /\ w.pc = "reclaim"
    /\ \/ opt.converged /\ Go("returned") /\ UNCHANGED <<tty, budget, ghost>>
       \/ ~ opt.converged /\ tty' = "shell" /\ Go("returned") /\ UNCHANGED <<budget, ghost>>
       \/ ~ opt.converged /\ Failing("reclaim") /\ UNCHANGED tty
          /\ ghost' = [ghost EXCEPT !.reclaim = TRUE]
          /\ w' = [w EXCEPT !.pc = "returned",
                            !.result = IF @ \in {"status", "stopped"} THEN "error" ELSE @]
    /\ UNCHANGED <<kernel, job, relay, cancel>>

\* wait_foreground hands a stopped job out and drops it on an error;
\* resume_job of src/job.rs keeps it after an error unless it is complete.
Return ==
    /\ w.pc = "returned"
    /\ \/ w.result = "stopped" /\ Go("prompt")
       \/ w.result = "status" /\ Go("over")
       \/ w.result \in {"error", "cancelled"} /\ (~ w.resumed \/ IsComplete)
          /\ w' = [w EXCEPT !.pc = "check", !.i = 1, !.next = "over"]
       \/ w.result \in {"error", "cancelled"} /\ w.resumed /\ ~ IsComplete /\ Go("prompt")
    /\ UNCHANGED <<kernel, job, tty, relay, cancel, budget, ghost>>
-----------------------------------------------------------------------------
(* resume_foreground.                                                      *)

Resume ==
    /\ w.pc = "prompt" /\ budget.resumes < MaxResumes
    /\ budget' = [budget EXCEPT !.resumes = @ + 1]
    /\ w' = [w EXCEPT !.pc = "ask", !.i = 1, !.resumed = TRUE, !.stopping = FALSE, !.result = "none"]
    /\ UNCHANGED <<kernel, job, tty, relay, cancel, ghost>>

\* Is every member still ours?
Ask(m) ==
    /\ w.pc = "ask" /\ w.i = m
    /\ \/ (~ Owned(m) \/ kern[m] # "gone") /\ w' = [w EXCEPT !.i = @ + 1] /\ UNCHANGED <<job, budget>>
       \/ Owned(m) /\ kern[m] = "gone"
          /\ rec' = [rec EXCEPT ![m] = "relinquished"] /\ lost' = TRUE
          /\ w' = [w EXCEPT !.i = @ + 1] /\ UNCHANGED <<st, budget>>
       \/ Owned(m) /\ Failing("wait") /\ w' = [w EXCEPT !.pc = "returned", !.result = "error"]
          /\ UNCHANGED job
    /\ UNCHANGED <<kernel, tty, relay, cancel, ghost>>

\* Nothing is left to resume: join the relays and report ECHILD.
NothingLeft ==
    /\ w.pc = "ask" /\ w.i = N + 1 /\ IsComplete /\ relay # "open"
    /\ relay' = "joined" /\ w' = [w EXCEPT !.pc = "returned", !.result = "error"]
    /\ UNCHANGED <<kernel, job, tty, cancel, budget, ghost>>

Continue ==
    /\ w.pc = "ask" /\ w.i = N + 1 /\ ~ IsComplete
    /\ \/ tty' = (IF opt.converged THEN tty ELSE "job") /\ ContinueGroup
          /\ rec' = [m \in Members |-> IF rec[m] = "stopped" THEN "running" ELSE rec[m]]
          /\ Go("handoff") /\ UNCHANGED budget
       \* The terminal cannot be given, or SIGCONT fails and it is taken back.
       \/ (Failing("cont") \/ (~ opt.converged /\ Failing("handoff")))
          /\ w' = [w EXCEPT !.pc = "returned", !.result = "error"]
          /\ NoteSignal /\ UNCHANGED <<kern, pend, report, rec, tty>>
       \* Taking it back fails as well.
       \/ ~ opt.converged /\ {"cont", "reclaim"} \subseteq Faults /\ budget.faults + 2 <= MaxFaults
          /\ budget' = [budget EXCEPT !.faults = @ + 2]
          /\ tty' = "job" /\ ghost' = [ghost EXCEPT !.reclaim = TRUE]
          /\ w' = [w EXCEPT !.pc = "returned", !.result = "error"]
          /\ UNCHANGED <<kern, pend, report, rec>>
    /\ UNCHANGED <<code, st, lost, relay, cancel>>
-----------------------------------------------------------------------------
(* terminate: abandoning a job, dropping its handle, or cancelling.        *)

Abandon ==
    /\ w.pc = "prompt"
    /\ w' = [w EXCEPT !.pc = "check", !.i = 1, !.next = "over"]
    /\ UNCHANGED <<kernel, job, tty, relay, cancel, budget, ghost>>

\* Which members are still ours? One that waitid fails for is passed over.
Check(m) ==
    LET before == IF m = 1 THEN {} ELSE w.owned IN
    /\ w.pc = "check" /\ w.i = m
    /\ \/ w' = [w EXCEPT !.i = @ + 1,
                         !.owned = before \cup {x \in {m} : Owned(x) /\ kern[x] # "gone"}]
          /\ UNCHANGED <<budget, ghost>>
       \/ Owned(m) /\ Failing("wait") /\ w' = [w EXCEPT !.i = @ + 1, !.owned = before]
          /\ ghost' = [ghost EXCEPT !.left = @ \cup {m}]
    /\ UNCHANGED <<kernel, job, tty, relay, cancel>>

\* Mutant: the group is killed whoever is left.
KillUnchecked ==
    /\ w.pc = "check" /\ w.i = N + 1
    /\ kern' = [m \in Members |-> IF kern[m] \in {"run", "stopped"} THEN "zombie" ELSE kern[m]]
    /\ code' = [m \in Members |-> IF kern[m] \in {"run", "stopped"} THEN 1 ELSE code[m]]
    /\ pend' = {} /\ report' = {} /\ NoteSignal
    /\ w' = [w EXCEPT !.pc = "wait", !.i = 1]
    /\ UNCHANGED <<job, tty, relay, cancel, budget>>

\* The group is killed if a member is ours; terminate goes on if that fails.
Kill ==
    /\ w.pc = "check" /\ w.i = N + 1
    /\ \/ w.owned = {} /\ UNCHANGED <<kernel, ghost, budget>>
       \/ /\ w.owned # {} /\ UNCHANGED budget
          /\ kern' = [m \in Members |-> IF kern[m] \in {"run", "stopped"} THEN "zombie" ELSE kern[m]]
          /\ code' = [m \in Members |-> IF kern[m] \in {"run", "stopped"} THEN 1 ELSE code[m]]
          /\ pend' = {} /\ report' = {} /\ NoteSignal
       \/ /\ w.owned # {} /\ Failing("kill") /\ UNCHANGED kernel
          /\ ghost' = [ghost EXCEPT !.alive = TRUE, !.unsafe = @ \/ ~ Unreaped]
    /\ w' = [w EXCEPT !.pc = "wait", !.i = 1]
    /\ UNCHANGED <<job, tty, relay, cancel>>

\* Mutant: killed children are left for init.
WaitSkipped(m) ==
    /\ w.pc = "wait" /\ w.i = m
    /\ w' = [w EXCEPT !.i = @ + 1]
    /\ UNCHANGED <<kernel, job, tty, relay, cancel, budget, ghost>>

\* waitpid blocks while the member lives; when it fails the member stays.
Wait(m) ==
    /\ w.pc = "wait" /\ w.i = m
    /\ \/ /\ kern[m] \in {"zombie", "gone"} \/ m \notin w.owned
          /\ kern' = [kern EXCEPT ![m] = IF m \in w.owned THEN "gone" ELSE @]
          /\ UNCHANGED <<budget, ghost>>
       \/ /\ m \in w.owned /\ Failing("wait") /\ UNCHANGED kern
          /\ ghost' = [ghost EXCEPT !.left = @ \cup {m}]
    /\ w' = [w EXCEPT !.i = @ + 1]
    /\ UNCHANGED <<code, pend, report, job, tty, relay, cancel>>

\* The relays' descriptors are closed, so the join returns; no member is kept.
Cleared ==
    /\ w.pc = "wait" /\ w.i = N + 1
    /\ relay' = "joined" /\ Go(w.next)
    /\ rec' = [m \in Members |-> "relinquished"]
    /\ UNCHANGED <<kernel, st, lost, tty, cancel, budget, ghost>>
-----------------------------------------------------------------------------
Init ==
    /\ opt \in Options
    /\ kern = [m \in Members |-> "run"] /\ code = [m \in Members |-> 0]
    /\ pend = {} /\ report = {}
    /\ rec = [m \in Members |-> "running"] /\ st = [m \in Members |-> 0] /\ lost = FALSE
    /\ w = [pc |-> "handoff", i |-> 1, live |-> FALSE, allStopped |-> TRUE, stopping |-> FALSE,
            result |-> "none", status |-> 0, resumed |-> FALSE, owned |-> {}, next |-> "over"]
    /\ tty = (IF opt.converged THEN "shell" ELSE "job")
    /\ relay = "open" /\ cancel = FALSE
    /\ budget = [faults |-> 0, resumes |-> 0]
    /\ ghost = [stolen |-> {}, unsafe |-> FALSE, reclaim |-> FALSE, handoff |-> FALSE,
                left |-> {}, alive |-> FALSE]

World ==
    \/ \E m \in Members : Stop(m) \/ Killed(m) \/ Steal(m) \/ \E c \in Codes : Exit(m, c)
    \/ Cancel \/ RelayBreaks
Waiter ==
    \/ Handoff \/ Pass \/ Decide \/ Drain \/ Join \/ Failed \/ Reclaim \/ Return
    \/ NothingLeft \/ Continue \/ Kill \/ Cleared
    \/ \E m \in Members : Look(m) \/ Consume(m) \/ Reap(m) \/ Ask(m) \/ Check(m) \/ Wait(m)

Next == (World \/ Waiter \/ RelayEof \/ Resume \/ Abandon) /\ UNCHANGED opt

\* The kernel delivers signals and end of file; the waiting thread runs.
Spec == Init /\ [][Next]_vars
FairSpec ==
    /\ Spec
    /\ WF_vars(Waiter /\ UNCHANGED opt) /\ WF_vars(RelayEof /\ UNCHANGED opt)
    /\ \A m \in Members : WF_vars(DeliverStop(m) /\ UNCHANGED opt)
-----------------------------------------------------------------------------
(* Properties.                                                             *)

\* "observe each tracked direct child as stopped or exited before returning
\* the prompt": when a wait reports a stop, no member is running or still has
\* the stop ahead of it. "Reclaim the terminal on completion, stop, cancellation
\* and errors": the prompt owns it whenever it is back, except when tcsetpgrp
\* itself failed while taking it, or when the hand-off inside the wait failed,
\* which returns without taking it back.
StableStop ==
    /\ w.pc = "prompt" /\ w.result = "stopped" => \A m \in Members : kern[m] # "run"
    /\ w.pc \in {"prompt", "over"} => tty = "shell" \/ ghost.reclaim \/ ghost.handoff

\* A status is reported only for a group that is entirely reaped, and it is
\* the one the true exit statuses call for, over stops, resumes and kills.
\* "leave no owned stopped children or zombies": however the job ends, every
\* member that nobody else reaped has been reaped, except those a failing call
\* of terminate left, and its relays are joined.
TrueResult ==
    LET bad == {m \in Members : code[m] # 0}
        failing == IF bad = {} THEN 0 ELSE code[CHOOSE m \in bad : \A x \in bad : x <= m]
        picked == IF opt.pipefail THEN failing ELSE code[N]
    IN  IF ~ opt.inverted THEN picked ELSE IF picked = 0 THEN 1 ELSE 0
ResultExact ==
    /\ w.pc = "over" => relay = "joined" /\ \A m \in Members \ ghost.left : kern[m] = "gone"
    /\ w.pc = "over" /\ w.result = "status" =>
         ghost.stolen = {} /\ w.status = TrueResult

\* "Never signal a PGID after its owned members have all been relinquished or
\* reaped": while only the shell reaps, every group signal finds an unreaped
\* member, so the group number cannot have been given to others.
GroupSignalsSafe == ghost.stolen = {} => ~ ghost.unsafe

\* Once one member's stop was seen, the prompt returns, and a cancelled wait
\* ends, unless the group could not be killed: waitpid then waits for members
\* that may run for ever.
WaitReturns ==
    /\ w.stopping ~> w.pc \in {"prompt", "over"} \/ ghost.alive
    /\ cancel /\ w.pc \in {"pass", "look", "consume", "drain"} ~> w.pc \in {"prompt", "over"} \/ ghost.alive

=============================================================================
