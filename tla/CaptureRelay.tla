----------------------------- MODULE CaptureRelay -----------------------------
(***************************************************************************)
(* Typed input of a converged command: the relay thread of src/capture.rs, *)
(* the shell loop of src/shell.rs and src/job.rs that pauses, resumes and  *)
(* finishes it, and the prompt's reader of src/input.rs, which shares the  *)
(* real terminal with the relay of a suspended job.                        *)
(*                                                                         *)
(* A byte is its number in typing order; the bytes in Suspend are the      *)
(* slave's suspend key. The relay takes one step per load of `paused`,     *)
(* poll, read and write. `birth` remembers in which suspension, if any, a  *)
(* byte was typed at the prompt (0: not at a suspended job's prompt).      *)
(***************************************************************************)
EXTENDS Naturals, Sequences, FiniteSets

CONSTANTS
    MaxTyped,   \* bound on typed bytes
    Suspend,    \* the bytes that are the suspend key
    Chunk,      \* bytes one read returns at most (RELAY_CHUNK)
    Room,       \* capacity of the slave's input queue
    MaxStops,   \* bound on stops
    FgMayFail   \* whether resume_foreground may return an error

ASSUME RelayAssumption ==
    /\ MaxTyped \in Nat /\ Chunk \in Nat \ {0} /\ Room \in Nat \ {0} /\ MaxStops \in Nat
    /\ Suspend \subseteq 1 .. MaxTyped /\ FgMayFail \in BOOLEAN

VARIABLES
    typed,   \* bytes typed so far
    tty,     \* the real terminal's input queue
    vmin,    \* FALSE while the prompt's raw mode makes an empty read return 0
    slave,   \* the slave's input queue
    child,   \* run, stopped or exited
    got,     \* what the child has read
    paused,  \* Session.paused
    stop,    \* the stop pipe is readable
    r,       \* the relay thread
    sh,      \* where the shell is
    stops,   \* suspensions so far
    prompt,  \* the prompt's reader: pending bytes, bytes read, stdin_dead
    signals, \* suspend keys turned into signals
    birth

vars == <<typed, tty, vmin, slave, child, got, paused, stop, r, sh, stops, prompt, signals, birth>>
world == <<typed, vmin, child, got, paused, stop, sh, stops, prompt, birth>>

Take(s, n) == SubSeq(s, 1, n)
Drop(s, n) == SubSeq(s, n + 1, Len(s))
Smaller(a, b) == IF a < b THEN a ELSE b

Go(pc) == r' = [r EXCEPT !.pc = pc]
-----------------------------------------------------------------------------
(* relay.                                                                  *)

\* Mutant: a pending tail does not hold back the next read.
TopEager ==
    /\ r.pc = "top"
    /\ r' = [r EXCEPT !.pc = "poll",
                      !.flush = ~ paused /\ r.tail # <<>> /\ ~ r.blocked,
                      !.watch = ~ paused /\ r.alive]
    /\ UNCHANGED <<world, tty, slave, signals>>

\* One load of `paused` decides what this round watches.
Top ==
    /\ r.pc = "top"
    /\ r' = [r EXCEPT !.pc = "poll",
                      !.flush = ~ paused /\ r.tail # <<>> /\ ~ r.blocked,
                      !.watch = ~ paused /\ r.tail = <<>> /\ r.alive]
    /\ UNCHANGED <<world, tty, slave, signals>>

\* Mutant: the stop pipe is looked at only when there is nothing to forward.
PollBusy ==
    /\ r.pc = "poll"
    /\ r' = [r EXCEPT !.pc = CASE r.flush -> "flush"
                               [] ~ r.flush /\ r.watch /\ tty # <<>> -> "forward"
                               [] ~ r.flush /\ ~ (r.watch /\ tty # <<>>) /\ stop -> "exit"
                               [] OTHER -> "top"]
    /\ UNCHANGED <<world, tty, slave, signals>>

\* poll, and the branch its events lead to; a timeout goes round again.
Poll ==
    /\ r.pc = "poll"
    /\ r' = [r EXCEPT !.pc = CASE stop -> "exit"
                               [] ~ stop /\ r.flush /\ Len(slave) < Room -> "flush"
                               [] ~ stop /\ r.watch /\ tty # <<>> -> "forward"
                               [] OTHER -> "top"]
    /\ UNCHANGED <<world, tty, slave, signals>>

\* suspend_key, asked once per chunk: a child owns the slave.
Owned == child # "exited"

\* drain_tail.
Flush ==
    /\ r.pc = "flush"
    /\ r' = IF paused THEN [r EXCEPT !.pc = "top"]
            ELSE [r EXCEPT !.pc = "segment", !.rest = r.tail, !.tail = <<>>, !.back = "top", !.key = Owned]
    /\ UNCHANGED <<world, tty, slave, signals>>

\* forward: the loads and the poll before a read.
Forward ==
    /\ r.pc = "forward"
    /\ Go(IF paused \/ r.blocked \/ stop \/ Len(slave) = Room \/ tty = <<>> THEN "top" ELSE "ready")
    /\ UNCHANGED <<world, tty, slave, signals>>

Ready ==
    /\ r.pc = "ready"
    /\ Go(IF paused THEN "top" ELSE "read")
    /\ UNCHANGED <<world, tty, slave, signals>>

\* The read blocks on an empty queue unless the prompt's modes are in force;
\* then it returns 0, which the relay takes for a hangup.
Read ==
    /\ r.pc = "read"
    /\ tty # <<>> \/ ~ vmin
    /\ LET n == Smaller(Chunk, Len(tty))
       IN  /\ tty' = Drop(tty, n)
           /\ r' = IF n = 0 THEN [r EXCEPT !.pc = "top", !.alive = FALSE]
                   ELSE [r EXCEPT !.pc = "segment", !.rest = Take(tty, n), !.back = "forward", !.key = Owned]
    /\ UNCHANGED <<world, slave, signals>>

\* The first suspend key of the rest.
EarliestSignal ==
    LET at == {i \in DOMAIN r.rest : r.rest[i] \in Suspend}
    IN  IF at = {} \/ ~ r.key THEN 0 ELSE CHOOSE i \in at : \A j \in at : i <= j

\* forward_chunk: the next run of plain bytes, unless the job is paused now.
Segment ==
    /\ r.pc = "segment"
    /\ r' = CASE r.rest = <<>> -> [r EXCEPT !.pc = r.back]
              [] r.rest # <<>> /\ paused -> [r EXCEPT !.pc = "top", !.tail = @ \o r.rest, !.rest = <<>>, !.left = 0]
              [] OTHER -> [r EXCEPT !.pc = "write",
                                    !.left = IF EarliestSignal = 0 THEN Len(r.rest) ELSE EarliestSignal - 1]
    /\ UNCHANGED <<world, tty, slave, signals>>

\* write_master: its load of `paused`, then one write; what is not accepted
\* becomes the tail.
Write ==
    /\ r.pc = "write"
    /\ r' = CASE r.left = 0 /\ r.rest = <<>> -> [r EXCEPT !.pc = r.back]
              [] r.left = 0 /\ r.rest # <<>> -> [r EXCEPT !.pc = "signal"]
              [] r.left # 0 /\ paused -> [r EXCEPT !.pc = "top", !.tail = @ \o r.rest, !.rest = <<>>, !.left = 0]
              [] OTHER -> [r EXCEPT !.pc = "put"]
    /\ UNCHANGED <<world, tty, slave, signals>>

Put ==
    /\ r.pc = "put"
    /\ LET n == Smaller(r.left, Room - Len(slave))
           rest == Drop(r.rest, n)
       IN  /\ slave' = slave \o Take(r.rest, n)
           /\ r' = IF n = 0 THEN [r EXCEPT !.pc = "top", !.tail = @ \o r.rest, !.rest = <<>>, !.left = 0]
                   ELSE [r EXCEPT !.pc = "write", !.rest = rest, !.left = @ - n]
    /\ UNCHANGED <<world, tty, signals>>

\* A hard write error stops the retries and keeps the bytes.
PutFails ==
    /\ r.pc = "put" /\ child = "exited"
    /\ r' = [r EXCEPT !.pc = "top", !.tail = @ \o r.rest, !.rest = <<>>, !.left = 0, !.blocked = TRUE]
    /\ UNCHANGED <<world, tty, slave, signals>>

\* The suspend key is consumed and becomes SIGSTOP for the child.
Signal ==
    /\ r.pc = "signal"
    /\ signals' = signals \cup {r.rest[1]}
    /\ r' = [r EXCEPT !.pc = "segment", !.rest = Tail(r.rest)]
    /\ child' = (IF child = "run" THEN "stopped" ELSE child)
    /\ UNCHANGED <<typed, vmin, got, paused, stop, sh, stops, prompt, birth, tty, slave>>

ExitRelay ==
    /\ r.pc = "exit"
    /\ vmin' = TRUE /\ Go("done")
    /\ UNCHANGED <<typed, child, got, paused, stop, sh, stops, prompt, birth, tty, slave, signals>>

Relay ==
    \/ Top \/ Poll \/ Flush \/ Forward \/ Ready \/ Read \/ Segment \/ Write \/ Put \/ PutFails
    \/ Signal \/ ExitRelay
-----------------------------------------------------------------------------
(* The user, and the child.                                                *)

Type ==
    /\ typed < MaxTyped
    /\ typed' = typed + 1 /\ tty' = Append(tty, typed + 1)
    /\ birth' = Append(birth, IF sh \in {"prompt", "reading"} THEN stops ELSE 0)
    /\ UNCHANGED <<vmin, slave, child, got, paused, stop, r, sh, stops, prompt, signals>>

ChildReads ==
    /\ child = "run" /\ slave # <<>>
    /\ got' = Append(got, Head(slave)) /\ slave' = Tail(slave)
    /\ UNCHANGED <<typed, tty, vmin, child, paused, stop, r, sh, stops, prompt, signals, birth>>

\* A stop of its own; while it is stopped it can only be killed.
ChildStops ==
    /\ child = "run" /\ child' = "stopped"
    /\ UNCHANGED <<typed, tty, vmin, slave, got, paused, stop, r, sh, stops, prompt, signals, birth>>

ChildExits ==
    /\ child # "exited" /\ child' = "exited"
    /\ UNCHANGED <<typed, tty, vmin, slave, got, paused, stop, r, sh, stops, prompt, signals, birth>>
-----------------------------------------------------------------------------
(* The shell.                                                              *)

Same == UNCHANGED <<typed, slave, got, r, signals, birth>>

\* run and resume_job: the wait reports a stop, and the job is paused.
\* After MaxStops suspensions a stopped child is only killed.
SetPaused ==
    /\ sh = "run" /\ child = "stopped" /\ stops < MaxStops
    /\ paused' = TRUE /\ stops' = stops + 1 /\ sh' = "suspended"
    /\ UNCHANGED <<tty, vmin, child, stop, prompt>> /\ Same

\* restore_startup_termios, then the prompt's RawMode.
EnterPrompt ==
    /\ sh = "suspended"
    /\ vmin' = FALSE /\ sh' = "prompt"
    /\ UNCHANGED <<tty, child, paused, stop, stops, prompt>> /\ Same

\* read_event polls, then reads; an empty read means the terminal is gone.
PromptPolls ==
    /\ sh \in {"prompt", "after"} /\ (tty # <<>> \/ prompt.pending # <<>>) /\ ~ prompt.dead
    /\ sh' = (IF sh = "prompt" THEN "reading" ELSE "taking")
    /\ UNCHANGED <<tty, vmin, child, paused, stop, stops, prompt>> /\ Same

PromptReads ==
    /\ sh \in {"reading", "taking"}
    /\ sh' = (IF sh = "reading" THEN "prompt" ELSE "after")
    /\ \/ prompt.pending # <<>> /\ UNCHANGED tty
          /\ prompt' = [prompt EXCEPT !.pending = Tail(@), !.read = Append(@, Head(prompt.pending))]
       \/ prompt.pending = <<>>
          /\ LET n == Smaller(Chunk, Len(tty))
             IN  tty' = Drop(tty, n) /\
                 prompt' = [prompt EXCEPT !.read = @ \o Take(tty, n), !.dead = n = 0]
    /\ UNCHANGED <<vmin, child, paused, stop, stops>> /\ Same

\* resume_job: the job's modes, then the unpause, then SIGCONT.
FgModes ==
    /\ sh = "prompt" /\ ~ prompt.dead
    /\ vmin' = TRUE /\ sh' = "fg"
    /\ UNCHANGED <<tty, child, paused, stop, stops, prompt>> /\ Same

FgUnpause ==
    /\ sh = "fg"
    /\ paused' = FALSE /\ sh' = "continue"
    /\ UNCHANGED <<tty, vmin, child, stop, stops, prompt>> /\ Same

FgContinue ==
    /\ sh = "continue"
    /\ child' = (IF child = "stopped" THEN "run" ELSE child) /\ sh' = "run"
    /\ UNCHANGED <<tty, vmin, paused, stop, stops, prompt>> /\ Same

\* An error keeps the job in its slot.
FgFails ==
    /\ sh = "continue" /\ FgMayFail /\ child = "stopped"
    /\ sh' = "prompt" /\ vmin' = FALSE
    /\ UNCHANGED <<tty, child, paused, stop, stops, prompt>> /\ Same

\* finish_into: stop the relay and join it.
Finish ==
    /\ sh = "run" /\ child = "exited"
    /\ stop' = TRUE /\ sh' = "joining"
    /\ UNCHANGED <<tty, vmin, child, paused, stops, prompt>> /\ Same

\* give_terminal_tail, and the next prompt.
Joined ==
    /\ sh = "joining" /\ r.pc = "done"
    /\ sh' = "after" /\ vmin' = FALSE
    /\ prompt' = [prompt EXCEPT !.pending = @ \o r.tail]
    /\ r' = [r EXCEPT !.tail = <<>>]
    /\ UNCHANGED <<typed, tty, slave, child, got, paused, stop, stops, signals, birth>>

Shell == SetPaused \/ EnterPrompt \/ PromptPolls \/ PromptReads \/ FgUnpause \/ FgContinue \/ Finish \/ Joined
-----------------------------------------------------------------------------
Init ==
    /\ typed = 0 /\ tty = <<>> /\ vmin = TRUE /\ slave = <<>> /\ child = "run" /\ got = <<>>
    /\ paused = FALSE /\ stop = FALSE /\ sh = "run" /\ stops = 0 /\ signals = {} /\ birth = <<>>
    /\ r = [pc |-> "top", tail |-> <<>>, rest |-> <<>>, left |-> 0, blocked |-> FALSE, alive |-> TRUE,
            flush |-> FALSE, watch |-> FALSE, back |-> "top", key |-> TRUE]
    /\ prompt = [pending |-> <<>>, read |-> <<>>, dead |-> FALSE]

Next ==
    \/ Relay \/ Type \/ ChildReads \/ ChildStops \/ ChildExits
    \/ Shell \/ FgModes \/ FgFails

Spec == Init /\ [][Next]_vars
\* Threads run, and a running child reads its input.
FairSpec == Spec /\ WF_vars(Relay) /\ WF_vars(ChildReads) /\ WF_vars(Shell)
-----------------------------------------------------------------------------
(* Properties.                                                             *)

\* Where a typed byte may be.
Places == tty \o r.rest \o r.tail \o slave \o got \o prompt.pending \o prompt.read
Increasing(s) == \A i, j \in DOMAIN s : i < j => s[i] < s[j]

\* "A full slave queue, pause, or stop does not drop" what the relay has read:
\* every typed byte is in exactly one place, or was a suspend key and is a signal. The
\* child sees what it is given in the order it was typed, over short writes,
\* retries of the tail, pauses and resumes; the tail of a finished session
\* reaches the next prompt before the bytes the terminal still holds; and while
\* a job is paused, no byte typed at the prompt of that suspension has been
\* written to its terminal.
KeysInOrder ==
    /\ \A b \in 1 .. typed :
        Cardinality({i \in DOMAIN Places : Places[i] = b}) = IF b \in signals THEN 0 ELSE 1
    /\ signals \subseteq Suspend
    /\ Increasing(got \o slave \o r.rest \o r.tail)
    /\ sh \in {"after", "taking"} => Increasing(prompt.pending \o tty)
    /\ paused => \A b \in 1 .. typed :
        birth[b] = stops => \A i \in DOMAIN (got \o slave) : (got \o slave)[i] # b

\* While the command runs, what the relay has read and what is typed moves on,
\* and finishing the session of a command that was never suspended ends. (After
\* a suspension the relay may sit in a read that only a further key ends.)
FinishEnds ==
    /\ (r.tail # <<>> \/ tty # <<>>) /\ sh = "run" /\ stops = 0
        ~> (r.tail = <<>> /\ tty = <<>>) \/ sh # "run" \/ child # "run"
    /\ sh = "joining" /\ stops = 0 ~> sh = "after"
=============================================================================
