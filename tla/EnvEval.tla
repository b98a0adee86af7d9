------------------------------ MODULE EnvEval ------------------------------
(***************************************************************************)
(* The evaluation of a trusted .envrc for denv (src/denv.rs, eval_env,     *)
(* eval_env_bash, eval_env_epsh and denv/failure.rs).                      *)
(*                                                                         *)
(* A bash child writes a snapshot of its environment before and after the  *)
(* script and then the record Z on the failure channel.  The six retired   *)
(* helpers write a record of their own there.  The evaluator polls the     *)
(* three pipes and the child until all are done or the deadline passes.    *)
(* Anything the script starts in the background keeps the pipes open until *)
(* it closes them.  A script for epsh runs in the shell's own process.     *)
(***************************************************************************)
EXTENDS Integers, Sequences

CONSTANT Shells          \* the ish processes

VARIABLE ev              \* the evaluation each shell has under way

NoEval == [phase |-> "none"]

(***************************************************************************)
(* A started evaluation: pipes open, nothing written, nothing seen.        *)
(***************************************************************************)
StartBash ==
    [phase |-> "channel", leader |-> "run", ok |-> FALSE, kid |-> "none",
     wrote |-> {}, chan |-> <<>>, called |-> FALSE, late |-> FALSE,
     exited |-> FALSE, open |-> {"before", "after", "failure"},
     observed |-> FALSE, out |-> "pending", stopped |-> FALSE]

StartEpsh == [StartBash EXCEPT !.phase = "epsh", !.leader = "gone", !.open = {}]

Held(e) == e.leader = "run" \/ e.kid = "holds"      \* some writer is alive

-----------------------------------------------------------------------------
(* What the script does, in any order bash may run it; not code of ish.    *)

Script(s) ==
    /\ ev[s].phase \in {"channel", "wait"}
    /\ ev[s].leader = "run"
    /\ \/ \E next \in {<<{}, "before">>, <<{"before"}, "after">>} :
             /\ ev[s].wrote = next[1]
             /\ ev' = [ev EXCEPT ![s].wrote = @ \cup {next[2]}]
       \/ /\ ev[s].wrote = {"before", "after"}        \* printf Z
          /\ ev' = [ev EXCEPT ![s].wrote = @ \cup {"Z"},
                              ![s].chan = Append(@, "Z")]
       \/ /\ ev[s].wrote # {}                         \* command &
          /\ ev[s].kid = "none"
          /\ ev' = [ev EXCEPT ![s].kid = "holds"]
       \/ \E ok \in BOOLEAN :                         \* the end, or exit
             ev' = [ev EXCEPT ![s].ok = ok, ![s].leader = "zombie"]

CallHelper(s) ==
    /\ ev[s].phase \in {"channel", "wait"}
    /\ Held(ev[s])
    /\ ev[s].wrote # {}
    /\ ~ev[s].called
    /\ ev' = [ev EXCEPT ![s].chan = Append(@, "A"), ![s].called = TRUE]

Background(s) ==
    /\ ev[s].phase \in {"channel", "wait"}
    /\ \/ ev[s].kid = "holds" /\ ev' = [ev EXCEPT ![s].kid = "quiet"]
       \/ ev[s].kid = "quiet" /\ ev' = [ev EXCEPT ![s].kid = "none"]

TimeUp(s) ==
    /\ ev[s].phase \in {"channel", "wait"}
    /\ ~ev[s].late
    /\ ev' = [ev EXCEPT ![s].late = TRUE]

-----------------------------------------------------------------------------
(* The evaluator. *)

(***************************************************************************)
(* The group is killed while its leader is not reaped, so that its number  *)
(* still names it; then the leader is reaped.                              *)
(***************************************************************************)
StopBashGroup(e) ==
    [e EXCEPT !.leader = "gone", !.kid = "none", !.phase = "done",
              !.out = "error", !.stopped = TRUE]

(***************************************************************************)
(* The records that are there are read one by one: the first Z is the      *)
(* completion, any other record refuses the candidate, and the end of the  *)
(* channel without a completion does too.                                  *)
(***************************************************************************)
RejectsAfterZ(e) == e.chan # <<>> /\ ~e.observed /\ Head(e.chan) # "Z"

Rejects(e) ==
    LET extra == IF e.observed THEN Len(e.chan) ELSE Len(e.chan) - 1
    IN  \/ extra >= 1
        \/ e.chan # <<>> /\ ~e.observed /\ Head(e.chan) # "Z"

Completed(e) == e.observed \/ e.chan # <<>>

ReadState(e) ==
    CASE Rejects(e)                 -> StopBashGroup(e)
      [] ~Held(e) /\ ~Completed(e)  -> StopBashGroup(e)
      [] OTHER -> [e EXCEPT !.observed = Completed(e), !.chan = <<>>,
                            !.open = IF Held(e) THEN @ ELSE @ \ {"failure"},
                            !.phase = "wait"]

NeverExpired(e) == FALSE

Expired(e) == e.late

Channel(s) ==
    /\ ev[s].phase = "channel"
    /\ ev' = [ev EXCEPT ![s] =
                 LET read == ReadState(ev[s])
                 IN  IF read.out = "pending" /\ Expired(read)
                     THEN StopBashGroup(read) ELSE read]

(***************************************************************************)
(* The end of a snapshot pipe is seen only when no writer is left, in this *)
(* turn or in a later one.                                                 *)
(***************************************************************************)
DrainEnvPipe(e, still) ==
    [e EXCEPT !.open = IF Held(e) THEN @ ELSE @ \ ({"before", "after"} \ still)]

WaitAndDrain(s) ==
    /\ ev[s].phase = "wait"
    /\ \E still \in SUBSET {"before", "after"} :
          LET seen == [DrainEnvPipe(ev[s], still) EXCEPT
                         !.exited = @ \/ ev[s].leader = "zombie"]
          IN  ev' = [ev EXCEPT ![s] =
                 IF seen.exited /\ seen.open = {}
                 THEN [seen EXCEPT !.leader = "gone", !.phase = "done",
                                   !.out = IF seen.ok THEN "ok" ELSE "error"]
                 ELSE [seen EXCEPT !.phase = "channel"]]

(***************************************************************************)
(* epsh runs the script itself; a helper's record, or a process that still *)
(* holds a reporter when Z has been written, refuses the candidate.        *)
(***************************************************************************)
EvalEnvEpsh(s) ==
    /\ ev[s].phase = "epsh"
    /\ \E ok, called, held \in BOOLEAN :
          ev' = [ev EXCEPT ![s].phase = "done", ![s].called = called,
                           ![s].kid = IF held THEN "holds" ELSE "none",
                           ![s].ok = ok,
                           ![s].wrote = IF ok THEN {"before", "after"} ELSE {},
                           ![s].out = IF ok /\ ~called /\ ~held
                                      THEN "ok" ELSE "error"]

EvalStep(s) == Channel(s) \/ WaitAndDrain(s) \/ EvalEnvEpsh(s)

EvalEnvironment(s) == Script(s) \/ CallHelper(s) \/ Background(s) \/ TimeUp(s)

-----------------------------------------------------------------------------
(* Properties of an evaluation, checked with the shells that ask for it.   *)

(***************************************************************************)
(* A candidate environment is used only when the script ran to its end and *)
(* called no retired helper, and its snapshots are whole; once there is an *)
(* outcome the child is reaped, and a stopped evaluation leaves nothing of *)
(* its process group running (eval_env_bash, stop_bash_group).             *)
(***************************************************************************)
CandidateWhole ==
    \A s \in Shells : ev[s].phase = "done" =>
        /\ ev[s].leader = "gone"
        /\ ev[s].stopped => ev[s].kid = "none"
        /\ ev[s].out = "ok" =>
              /\ ev[s].ok
              /\ ~ev[s].called
              /\ {"before", "after"} \subseteq ev[s].wrote
              /\ ev[s].kid # "holds"
=============================================================================
