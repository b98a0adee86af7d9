---------------------------- MODULE ForegroundOp ----------------------------
(* The interactive loop and an in-process foreground operation (cp, mv):    *)
(* src/shell.rs run / read_line, src/signal.rs, src/foreground.rs and the   *)
(* exit status of src/fs_command.rs run.                                    *)
(*                                                                          *)
(* The main thread polls signals, receives events over a bounded channel    *)
(* and renders them; the operation's threads send events, blocking when the *)
(* channel is full, and publish progress through a shared cell with a       *)
(* wake-up that may be dropped. Signal handlers run on any thread.          *)
EXTENDS Naturals, Sequences, FiniteSets, SequencesExt

CONSTANTS
    Emitters,      \* threads of the operation that emit events
    Ready,         \* QueuedEvent::ProgressReady
    Capacity,      \* EVENT_CAPACITY
    MaxWork,       \* bound on the progress one operation makes
    Reporters,     \* the threads that also emit outcomes and diagnostics
    MaxEvents,     \* per reporting thread, bound on the events it sends
    Sent,          \* the signals that are sent
    MaxSignals,    \* bound on the signals sent to the shell
    MaxOutFail,    \* bound on the writes to stderr that fail
    MaxOps         \* bound on the operations run

ASSUME OpAssumption ==
    /\ Capacity \in Nat \ {0} /\ MaxWork \in Nat /\ Reporters \subseteq Emitters /\ MaxEvents \in Nat
    /\ MaxSignals \in Nat /\ MaxOutFail \in Nat /\ MaxOps \in Nat
    /\ Sent \subseteq {"INT", "TERM", "HUP"}
    /\ Ready \notin Emitters \X Nat

VARIABLES
    w,        \* per emitting thread: what it is doing
    eng,      \* the operation: its progress, whether its thread has returned
    ch,       \* EventQueue: channel, latest_progress, progress_pending
    cancel,   \* Cancellation: 0, 1 (output), 2 (user)
    sig,      \* PENDING_FOREGROUND, the self-pipe, PENDING_TERMINATION
    c,        \* the main thread
    budget    \* what is left of the bounds

vars == <<w, eng, ch, cancel, sig, c, budget>>

Signals == {"INT", "TERM", "HUP"}
Terminating == {"TERM", "HUP"}
Events == Reporters \X (1 .. MaxEvents)

WPcs == {"off", "run", "merge", "wake", "send", "done"}
Thread == [pc : WPcs, snap : 0 .. MaxWork, made : Nat]
Off == [pc |-> "off", snap |-> 0, made |-> 0]

Engine == [prog : 0 .. MaxWork, thread : {"off", "run", "dropped", "finished"},
           result : {"none", "complete", "failed", "cancelled"}]
NoEngine == [prog |-> 0, thread |-> "off", result |-> "none"]

\* latest = 0 stands for no progress; progress starts at 1.
Channel == [queue : Seq(Events \cup {Ready}), latest : 0 .. MaxWork, pending : BOOLEAN]
NoChannel == [queue |-> <<>>, latest |-> 0, pending |-> FALSE]

CPcs == {"top", "prompt", "line", "poll", "recv", "take", "give", "replay", "drain",
         "join", "exited"}
\* Output errors are numbered in the order they happen; 0 is none.
Main == [pc : CPcs, todo : 0 .. MaxOps, takes : 0 .. 2, back : CPcs, got : 0 .. MaxWork,
         seen : Seq(Events), shown : 0 .. MaxWork, err : 0 .. MaxOutFail,
         stored : 0 .. MaxOutFail, fails : 0 .. MaxOutFail, hit : BOOLEAN,
         status : {"none", "success", "failure", "cancelled", "terminated"}]
AtTop == [pc |-> "top", todo |-> 0, takes |-> 0, back |-> "poll", got |-> 0, seen |-> <<>>,
          shown |-> 0, err |-> 0, stored |-> 0, fails |-> 0, hit |-> FALSE, status |-> "none"]

Spend(b) == budget[b] > 0 /\ budget' = [budget EXCEPT ![b] = @ - 1]
At(pc) == c.pc = pc
Bigger(a, b) == IF a < b THEN b ELSE a
First(a, b) == IF a # 0 THEN a ELSE b
-----------------------------------------------------------------------------
(* Signals.                                                                *)

\* SIGINT is caught while a ForegroundSignals guard lives: at the prompt and
\* in an operation; otherwise it is ignored.
Guarded == c.pc \notin {"top", "line", "exited"}

\* deliver, first half: note_termination and the pending bit.
Deliver(s) ==
    /\ Spend("signals") /\ ~At("exited")
    /\ s = "INT" => Guarded
    /\ sig' = [sig EXCEPT !.pend = @ \cup {s}, !.flying = Append(@, s),
                          !.term = IF s \in Terminating /\ @ = "none" THEN s ELSE @]
    /\ UNCHANGED <<w, eng, ch, cancel, c>>

\* deliver, second half: the byte in the self-pipe. On another thread than the
\* reader's, anything may happen in between.
WriteByte ==
    /\ sig.flying # <<>>
    /\ sig' = [sig EXCEPT !.flying = Tail(@), !.pipe = Append(@, Head(sig.flying))]
    /\ UNCHANGED <<w, eng, ch, cancel, c, budget>>

\* read_signal: the pending bits before the pipe.
Order == <<"INT", "TERM", "HUP">>
Bits == SelectSeq(Order, LAMBDA s : s \in sig.pend)
NextSignal == IF Bits # <<>> THEN Head(Bits) ELSE Head(sig.pipe)
ReadSignal == [sig EXCEPT !.pend = @ \ {NextSignal},
                          !.pipe = IF Bits # <<>> THEN @ ELSE Tail(@)]

\* Foreground::poll: until read_signal has nothing. What it read cancels, a
\* termination is noted unless one already is.
Pending == Bits \o sig.pipe
Interrupted == Pending # <<>>
Noted == SelectSeq(Pending, LAMBDA s : s \in Terminating)
Drained == [sig EXCEPT !.pend = {}, !.pipe = <<>>,
                       !.term = IF @ = "none" /\ Noted # <<>> THEN Head(Noted) ELSE @]

\* Cancellation::cancel stores 2, cancel_for_output replaces only 0.
CancelForOutput(k) == IF k = 0 THEN 1 ELSE k
Polled == IF Interrupted THEN 2 ELSE cancel
-----------------------------------------------------------------------------
(* The interactive loop.                                                   *)

\* The head of the loop: take_pending_termination ends the shell.
Top ==
    /\ At("top")
    /\ IF sig.term # "none"
       THEN c' = [AtTop EXCEPT !.pc = "exited", !.status = "terminated"]
       ELSE c' = [AtTop EXCEPT !.pc = "prompt"]
    /\ sig' = [sig EXCEPT !.term = "none"]
    /\ UNCHANGED <<w, eng, ch, cancel, budget>>

\* read_line: a readable self-pipe; SIGINT cancels the line, SIGTERM and
\* SIGHUP end the shell.
PromptSignal ==
    /\ At("prompt") /\ sig.pipe # <<>>
    /\ sig' = ReadSignal
    /\ c' = IF NextSignal = "INT" THEN AtTop ELSE [AtTop EXCEPT !.pc = "exited", !.status = "terminated"]
    /\ UNCHANGED <<w, eng, ch, cancel, budget>>

\* A submitted line of n operations, or the end of the session.
PromptLine(n) ==
    /\ At("prompt")
    /\ c' = [c EXCEPT !.pc = "line", !.todo = n]
    /\ UNCHANGED <<w, eng, ch, cancel, sig, budget>>

PromptExit ==
    /\ At("prompt")
    /\ c' = [c EXCEPT !.pc = "exited", !.status = "success"]
    /\ UNCHANGED <<w, eng, ch, cancel, sig, budget>>

\* fs_command::run starts the next operation of the line (Foreground::start and
\* the spawn in Foreground::run), or the line is finished.
StartOp ==
    /\ At("line") /\ c.todo > 0 /\ Spend("ops")
    /\ c' = [AtTop EXCEPT !.pc = "poll", !.todo = c.todo - 1]
    /\ cancel' = 0
    /\ w' = [e \in Emitters |-> [Off EXCEPT !.pc = "run"]]
    /\ eng' = [NoEngine EXCEPT !.thread = "run"]
    /\ ch' = NoChannel
    /\ UNCHANGED sig

LineDone ==
    /\ At("line") /\ c.todo = 0
    /\ c' = AtTop /\ cancel' = 0
    /\ w' = [e \in Emitters |-> Off] /\ eng' = NoEngine /\ ch' = NoChannel
    /\ UNCHANGED <<sig, budget>>
-----------------------------------------------------------------------------
(* The operation's threads (Invocation::update / emit, EventQueue::emit).  *)

WAt(e, pc) == w[e].pc = pc
Set(e, t) == w' = [w EXCEPT ![e] = t]

\* update: the shared progress advances; the snapshot is emitted after the
\* lock is released.
Update(e) ==
    /\ WAt(e, "run") /\ eng.prog < MaxWork
    /\ eng' = [eng EXCEPT !.prog = @ + 1]
    /\ Set(e, [w[e] EXCEPT !.pc = "merge", !.snap = eng.prog + 1])
    /\ UNCHANGED <<ch, cancel, sig, c, budget>>

\* emit of an operand's outcome or a diagnostic.
Emit(e) ==
    /\ WAt(e, "run") /\ e \in Reporters /\ w[e].made < MaxEvents
    /\ Set(e, [w[e] EXCEPT !.pc = "send", !.made = @ + 1])
    /\ UNCHANGED <<eng, ch, cancel, sig, c, budget>>

\* The thread's work is done, or a checkpoint saw the cancellation.
Finish(e) ==
    /\ WAt(e, "run")
    /\ Set(e, [w[e] EXCEPT !.pc = "done"])
    /\ UNCHANGED <<eng, ch, cancel, sig, c, budget>>

\* Event::Progress under the latest_progress lock: merge_progress.
Merge(e) ==
    /\ WAt(e, "merge")
    /\ ch' = [ch EXCEPT !.latest = Bigger(@, w[e].snap)]
    /\ Set(e, [w[e] EXCEPT !.pc = "wake", !.snap = 0])
    /\ UNCHANGED <<eng, cancel, sig, c, budget>>

\* progress_pending.swap(true): only the first asks for a wake-up, and
\* try_send(ProgressReady) drops it when the channel is full.
Wake(e) ==
    /\ WAt(e, "wake")
    /\ ch' = [ch EXCEPT !.pending = TRUE,
                        !.queue = IF ~ch.pending /\ Len(@) < Capacity THEN Append(@, Ready) ELSE @]
    /\ Set(e, [w[e] EXCEPT !.pc = "run"])
    /\ UNCHANGED <<eng, cancel, sig, c, budget>>

\* Mutant: an event is sent like a wake-up.
SendTrying(e) ==
    /\ WAt(e, "send")
    /\ ch' = [ch EXCEPT !.queue = IF Len(@) < Capacity THEN Append(@, <<e, w[e].made>>) ELSE @]
    /\ Set(e, [w[e] EXCEPT !.pc = "run"])
    /\ UNCHANGED <<eng, cancel, sig, c, budget>>

\* send blocks while the channel is full.
Send(e) ==
    /\ WAt(e, "send") /\ Len(ch.queue) < Capacity
    /\ ch' = [ch EXCEPT !.queue = Append(@, <<e, w[e].made>>)]
    /\ Set(e, [w[e] EXCEPT !.pc = "run"])
    /\ UNCHANGED <<eng, cancel, sig, c, budget>>

\* execute: the cancellation decides the completion; the thread returns and
\* drops the sender, and only later is_finished tells.
Return ==
    /\ eng.thread = "run" /\ \A e \in Emitters : WAt(e, "done")
    /\ eng' = [eng EXCEPT !.thread = "dropped",
                          !.result = CASE cancel = 2 -> "cancelled"
                                       [] cancel = 1 -> "failed"
                                       [] OTHER -> "complete"]
    /\ UNCHANGED <<w, ch, cancel, sig, c, budget>>

Exit ==
    /\ eng.thread = "dropped"
    /\ eng' = [eng EXCEPT !.thread = "finished"]
    /\ UNCHANGED <<w, ch, cancel, sig, c, budget>>
-----------------------------------------------------------------------------
(* Foreground::run on the main thread.                                     *)

\* poll, then is_finished.
Poll ==
    /\ At("poll")
    /\ sig' = Drained /\ cancel' = Polled
    /\ c' = [c EXCEPT !.hit = @ \/ Interrupted,
                      !.pc = IF eng.thread = "finished" THEN "drain" ELSE "recv"]
    /\ UNCHANGED <<w, eng, ch, budget>>

\* check_watchdog: the report of an inactive operation cannot be written.
WatchdogFails ==
    /\ At("recv") /\ Spend("out")
    /\ cancel' = CancelForOutput(cancel)
    /\ c' = [c EXCEPT !.fails = @ + 1, !.stored = First(@, c.fails + 1)]
    /\ UNCHANGED <<w, eng, ch, sig>>

\* deliver_event's handler: it renders, or a write fails and the operation is
\* cancelled; the first error is kept.
Rendered(next) ==
    \/ c' = next /\ UNCHANGED <<cancel, budget>>
    \/ /\ Spend("out")
       /\ cancel' = CancelForOutput(cancel)
       /\ c' = [next EXCEPT !.fails = @ + 1, !.stored = 0,
                            !.err = First(@, First(c.stored, c.fails + 1))]

\* handle_queued_event: an event is delivered, then the latest progress; a
\* wake-up delivers the latest progress twice.
Handle(x, back) ==
    LET next == [c EXCEPT !.pc = "take", !.back = back]
    IN  IF x = Ready THEN c' = [next EXCEPT !.takes = 2] /\ UNCHANGED <<cancel, budget>>
        ELSE Rendered([next EXCEPT !.takes = 1, !.seen = Append(@, x)])

\* Mutant: after an output error the controller only waits for the worker.
RecvUntilError ==
    /\ At("recv") /\ c.err = 0 /\ ch.queue # <<>>
    /\ ch' = [ch EXCEPT !.queue = Tail(@)]
    /\ Handle(Head(ch.queue), "poll")
    /\ UNCHANGED <<w, eng, sig>>

\* recv_timeout with something queued.
Recv ==
    /\ At("recv") /\ ch.queue # <<>>
    /\ ch' = [ch EXCEPT !.queue = Tail(@)]
    /\ Handle(Head(ch.queue), "poll")
    /\ UNCHANGED <<w, eng, sig>>

\* recv_timeout runs out: poll, the latest progress, a replay.
Timeout ==
    /\ At("recv") /\ ch.queue = <<>> /\ eng.thread = "run"
    /\ sig' = Drained /\ cancel' = Polled
    /\ c' = [c EXCEPT !.hit = @ \/ Interrupted, !.pc = "take", !.takes = 1, !.back = "replay"]
    /\ UNCHANGED <<w, eng, ch, budget>>

\* The sender is gone: a replay, and the loop waits for is_finished.
Disconnected ==
    /\ At("recv") /\ ch.queue = <<>> /\ eng.thread # "run"
    /\ c' = [c EXCEPT !.pc = "replay"]
    /\ UNCHANGED <<w, eng, ch, cancel, sig, budget>>

\* deliver_latest_progress: the cell is taken under its lock.
Take ==
    /\ At("take")
    /\ c' = [c EXCEPT !.pc = "give", !.takes = @ - 1, !.got = ch.latest]
    /\ ch' = [ch EXCEPT !.latest = 0]
    /\ UNCHANGED <<w, eng, cancel, sig, budget>>

\* The flag is cleared; deliver_event merges what it delivers into the progress
\* that is replayed.
Give ==
    LET next == IF c.takes > 0 THEN [c EXCEPT !.pc = "take", !.got = 0]
                ELSE [c EXCEPT !.pc = c.back, !.back = "poll", !.got = 0]
    IN  /\ At("give")
        /\ ch' = [ch EXCEPT !.pending = FALSE]
        /\ IF c.got = 0 THEN c' = next /\ UNCHANGED <<cancel, budget>>
           ELSE Rendered([next EXCEPT !.shown = Bigger(@, c.got)])
        /\ UNCHANGED <<w, eng, sig>>

\* replay_progress: unless an output error is known, and when one is due.
Replay ==
    LET next == [c EXCEPT !.pc = "poll"]
    IN  /\ At("replay")
        /\ \/ c' = next /\ UNCHANGED <<cancel, budget>>
           \/ c.err = 0 /\ c.shown > 0 /\ Rendered(next)
        /\ UNCHANGED <<w, eng, ch, sig>>

\* is_finished: poll and try_recv until the channel is empty.
Drain ==
    /\ At("drain") /\ ~Interrupted
    /\ IF ch.queue # <<>>
       THEN Handle(Head(ch.queue), "drain") /\ ch' = [ch EXCEPT !.queue = Tail(@)]
       ELSE /\ c' = [c EXCEPT !.pc = "take", !.takes = 1, !.back = "join"]
            /\ UNCHANGED <<ch, cancel, budget>>
    /\ UNCHANGED <<w, eng, sig>>

DrainPoll ==
    /\ At("drain") /\ Interrupted
    /\ sig' = Drained /\ cancel' = Polled /\ c' = [c EXCEPT !.hit = TRUE]
    /\ UNCHANGED <<w, eng, ch, budget>>

\* join, clear_progress (which may fail too), run's result and fs_command::run:
\* the user's cancellation, then any output error, then the operation's own
\* completion. A cancelled command ends the line.
Result ==
    \E fails \in {c.fails, c.fails + 1} :
      LET failed == fails > c.fails
          err == First(c.err, First(c.stored, IF failed THEN fails ELSE 0))
          status == CASE cancel = 2 -> "cancelled"
                      [] cancel # 2 /\ (err # 0 \/ eng.result # "complete") -> "failure"
                      [] OTHER -> "success"
      IN  /\ At("join")
          /\ failed => budget.out > 0
          /\ budget' = [budget EXCEPT !.out = IF failed THEN @ - 1 ELSE @]
          /\ cancel' = IF failed THEN CancelForOutput(cancel) ELSE cancel
          /\ c' = [c EXCEPT !.pc = "line", !.err = err, !.status = status, !.fails = fails,
                            !.todo = IF status = "cancelled" THEN 0 ELSE @]
          /\ UNCHANGED <<w, eng, ch, sig>>
-----------------------------------------------------------------------------
Init ==
    /\ w = [e \in Emitters |-> Off]
    /\ eng = NoEngine /\ ch = NoChannel /\ cancel = 0
    /\ sig = [pend |-> {}, flying |-> <<>>, pipe |-> <<>>, term |-> "none"]
    /\ c = AtTop
    /\ budget = [signals |-> MaxSignals, out |-> MaxOutFail, ops |-> MaxOps]

Running == Poll \/ WatchdogFails \/ Recv \/ Timeout \/ Disconnected \/ Take \/ Give
           \/ Replay \/ Drain \/ DrainPoll \/ Result
Loop == Top \/ PromptSignal \/ StartOp \/ LineDone
Emitting(e) == Merge(e) \/ Wake(e) \/ Send(e)
Cancelled(e) == cancel # 0 /\ Finish(e)

Next ==
    \/ Running \/ Loop \/ PromptExit \/ Return \/ Exit \/ WriteByte
    \/ \E n \in 0 .. budget.ops : PromptLine(n)
    \/ \E e \in Emitters : Emitting(e) \/ Update(e) \/ Emit(e) \/ Finish(e)
    \/ \E s \in Sent : Deliver(s)

Spec == Init /\ [][Next]_vars

\* The main thread and the operation's threads are scheduled, a handler that
\* started writes its byte, and a cancelled thread reaches a checkpoint. The
\* user need not type and an operation that is not cancelled need not end.
FairSpec ==
    /\ Spec /\ WF_vars(Running) /\ WF_vars(Loop) /\ WF_vars(Return) /\ WF_vars(Exit)
    /\ WF_vars(WriteByte)
    /\ \A e \in Emitters : WF_vars(Emitting(e)) /\ WF_vars(Cancelled(e))
-----------------------------------------------------------------------------
(* Properties.                                                             *)

\* Every outcome and diagnostic is rendered once, in the order its thread sent
\* them, and all of them before run returns: a full channel, a dropped wake-up
\* or an output error loses none. When run returns, the progress last shown is all
\* the progress made, although wake-ups are dropped and snapshots arrive out of
\* order. A signal the operation saw decides its status, whatever else failed
\* first or afterwards, and ends the line; an output error is never reported as
\* success; and the error reported is the first one, however the watchdog's, the
\* renderer's and the final clearing's errors are kept and passed on.
EventsDelivered ==
    /\ eng.thread # "off" => \A i \in DOMAIN c.seen :
         LET e == c.seen[i][1]
             k == c.seen[i][2]
         IN  /\ k \in 1 .. w[e].made
             /\ \A j \in 1 .. k - 1 : \E h \in 1 .. i - 1 : c.seen[h] = <<e, j>>
             /\ \A h \in DOMAIN c.seen : c.seen[h] = c.seen[i] => h = i
    /\ At("join") => \A e \in Emitters : \A k \in 1 .. w[e].made :
                        \E i \in DOMAIN c.seen : c.seen[i] = <<e, k>>
    /\ At("join") => c.shown = eng.prog
    /\ At("line") /\ eng.thread = "finished" /\ c.status # "none" =>
        /\ c.hit => c.status = "cancelled" /\ c.todo = 0
        /\ c.status = "success" => c.fails = 0 /\ eng.result = "complete"
        /\ c.status = "cancelled" => c.hit
        /\ c.fails > 0 => c.err = 1

\* A cancelled operation returns: no sender stays blocked on a full channel and
\* no controller waits for a worker that waits for it. SIGTERM or SIGHUP,
\* delivered at any point of the prompt, of an operation or between two, ends the
\* shell. And within one operation the progress shown never goes back.
CancelReturns ==
    /\ (cancel # 0 /\ At("poll")) ~> At("line")
    /\ (sig.term # "none") ~> At("exited")
    /\ [][c.pc \notin {"line", "top", "prompt"} => c'.shown >= c.shown]_vars

=============================================================================
