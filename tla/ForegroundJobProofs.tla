------------------------- MODULE ForegroundJobProofs -------------------------
(***************************************************************************)
(* GroupSignalsSafe, ResultExact and StableStop for any number of members, *)
(* any jobs, any set of failures and any bounds.                           *)
(***************************************************************************)
EXTENDS ForegroundJob, WellFoundedInduction, TLAPS

Pcs == {"handoff", "pass", "look", "consume", "drain", "reap", "failed", "reclaim", "returned",
        "prompt", "ask", "check", "wait", "over"}
Results == {"none", "status", "stopped", "error", "cancelled"}

WType ==
    [pc : Pcs, i : Nat, live : BOOLEAN, allStopped : BOOLEAN, stopping : BOOLEAN, result : Results,
     status : Codes, resumed : BOOLEAN, owned : SUBSET Members, next : {"reclaim", "over"}]

Ghosts == [stolen : SUBSET Members, unsafe : BOOLEAN, reclaim : BOOLEAN, handoff : BOOLEAN,
           left : SUBSET Members, alive : BOOLEAN]
Budgets == [faults : Nat, resumes : Nat]

TypeOK ==
    /\ opt \in [pipefail : BOOLEAN, inverted : BOOLEAN, converged : BOOLEAN]
    /\ kern \in [Members -> {"run", "stopped", "zombie", "gone"}]
    /\ code \in [Members -> Codes]
    /\ pend \subseteq Members /\ report \subseteq Members
    /\ rec \in [Members -> {"running", "stopped", "exited", "reaped", "relinquished"}]
    /\ st \in [Members -> Codes]
    /\ lost \in BOOLEAN /\ cancel \in BOOLEAN
    /\ w \in WType
    /\ tty \in {"shell", "job"}
    /\ relay \in {"open", "eof", "broken", "joined"}
    /\ budget \in Budgets
    /\ ghost \in Ghosts

\* What the shell recorded of a member agrees with what became of it.
MemberInv ==
    \A m \in Members :
        /\ kern[m] = "run" => rec[m] = "running" \/ m \in ghost.left
        /\ rec[m] = "exited" => kern[m] \in {"zombie", "gone"}
        /\ rec[m] = "reaped" => kern[m] = "gone"
        /\ rec[m] = "relinquished" => kern[m] = "gone" \/ m \in ghost.left
        /\ rec[m] \in {"exited", "reaped"} => st[m] = code[m]
        /\ m \in ghost.stolen => kern[m] = "gone" /\ rec[m] # "reaped"

\* A member that is gone is known to be, unless it was stolen or the group is
\* being terminated.
OwnershipInv ==
    /\ ghost.stolen = {} /\ w.pc # "wait" =>
         \A m \in Members : Owned(m) => kern[m] # "gone"
    /\ w.pc = "check" /\ w.i # 1 /\ ghost.stolen = {} =>
         \A m \in w.owned : kern[m] # "gone"
    /\ ghost.stolen = {} => ~ ghost.unsafe

\* What the loops have established about the members they went past.
LoopInv ==
    /\ w.pc \in {"look", "consume"} /\ w.allStopped =>
         \A m \in Members : m < w.i => rec[m] # "running"
    /\ w.pc = "reap" => \A m \in Members : m < w.i => ~ Owned(m)
    /\ w.pc = "check" => \A m \in Members : m < w.i /\ m \notin w.owned => kern[m] = "gone" \/ m \in ghost.left
    /\ w.pc = "wait" => \A m \in Members : m < w.i \/ m \notin w.owned => kern[m] = "gone" \/ m \in ghost.left
    /\ w.pc \in {"look", "consume", "reap", "check", "wait"} => w.i >= 1

\* Relinquishing a member is reported, except when the group was terminated;
\* and only terminate leaves members, after which no wait looks at the job again.
LostInv ==
    /\ (\E m \in Members : rec[m] = "relinquished") =>
        \/ lost \/ w.pc = "over"
        \/ w.pc \in {"reclaim", "returned", "check", "wait"} /\ w.result = "cancelled" /\ IsComplete
    /\ ghost.left # {} =>
        \/ w.pc \in {"check", "wait", "over"}
        \/ w.pc \in {"reclaim", "returned"} /\ w.result = "cancelled" /\ IsComplete

ResultInv ==
    /\ w.pc = "over" => relay = "joined" /\ \A m \in Members \ ghost.left : kern[m] = "gone"
    /\ w.result = "status" =>
         /\ w.pc \in {"reclaim", "returned", "over"}
         /\ relay = "joined" /\ ghost.stolen = {} /\ w.status = TrueResult
         /\ \A m \in Members : kern[m] = "gone"
    /\ w.result = "stopped" =>
         /\ w.pc \in {"reclaim", "returned", "prompt", "check", "wait", "over"}
         /\ \A m \in Members : kern[m] # "run"
    /\ w.pc \in {"handoff", "pass", "look", "consume", "drain", "reap", "ask"} => w.result = "none"
    /\ w.pc = "failed" => w.result \in {"error", "cancelled"}
    /\ w.pc \in {"check", "wait"} /\ w.next = "reclaim" => w.result = "cancelled"

TerminalInv ==
    /\ opt.converged => tty = "shell"
    /\ \/ w.pc \in {"returned", "prompt", "ask", "over"}
       \/ w.pc \in {"check", "wait"} /\ w.next = "over"
       => tty = "shell" \/ ghost.reclaim \/ ghost.handoff

IInv == TypeOK /\ MemberInv /\ OwnershipInv /\ LoopInv /\ LostInv /\ ResultInv /\ TerminalInv

\* The waiting thread's state after a step, the fields the invariant looks at.
StepTo(pc, i, all, result, status, owned, next) ==
    /\ w' \in WType /\ w'.pc = pc /\ w'.i = i /\ (w'.allStopped => all)
    /\ w'.result = result /\ w'.status = status /\ w'.owned = owned /\ w'.next = next

LEMMA FailingType == ASSUME budget \in Budgets, NEW k, Failing(k) PROVE budget' \in Budgets
  BY DEF Budgets, Failing

LEMMA NoteSignalType ==
    ASSUME ghost \in Ghosts, NoteSignal
    PROVE  /\ ghost' \in Ghosts /\ ghost'.stolen = ghost.stolen
           /\ ghost'.reclaim = ghost.reclaim /\ ghost'.handoff = ghost.handoff
           /\ ghost'.left = ghost.left
           /\ Unreaped /\ ~ ghost.unsafe => ~ ghost'.unsafe
  BY DEF Ghosts, NoteSignal

LEMMA GhostTypes ==
    ASSUME ghost \in Ghosts
    PROVE  /\ [ghost EXCEPT !.reclaim = TRUE] \in Ghosts
           /\ [ghost EXCEPT !.handoff = TRUE] \in Ghosts
           /\ \A m \in Members : [ghost EXCEPT !.stolen = @ \cup {m}] \in Ghosts
           /\ \A m \in Members : [ghost EXCEPT !.left = @ \cup {m}] \in Ghosts
  BY DEF Ghosts

LEMMA LookedTo ==
    ASSUME w \in WType, NEW r, NEW s \in BOOLEAN,
           w' = Looked(r) \/ w' = [Looked(r) EXCEPT !.stopping = s]
    PROVE  StepTo("look", w.i + 1, w.allStopped /\ r # "running", w.result, w.status, w.owned, w.next)
  <1>1. ASSUME NEW a \in BOOLEAN, NEW b \in BOOLEAN, NEW n \in Nat
        PROVE  [w EXCEPT !.pc = "look", !.i = n, !.live = b, !.allStopped = a] \in WType
    BY DEF WType, Pcs
  <1>2. Looked(r) \in WType
    <2>1. w.i \in Nat /\ w.i + 1 \in Nat
      BY DEF WType
    <2>2. Looked(r) = [w EXCEPT !.pc = "look", !.i = w.i + 1, !.live = w.live \/ r \in {"running", "stopped"},
                                !.allStopped = w.allStopped /\ r # "running"]
      BY DEF Looked, WType
    <2>3. \E a \in BOOLEAN, b \in BOOLEAN, n \in Nat :
            Looked(r) = [w EXCEPT !.pc = "look", !.i = n, !.live = b, !.allStopped = a]
      <3>. w.i + 1 \in Nat
        BY <2>1
      <3>. WITNESS (w.allStopped /\ r # "running") \in BOOLEAN,
                   (w.live \/ r \in {"running", "stopped"}) \in BOOLEAN, w.i + 1 \in Nat
      <3>. QED  BY <2>2
    <2>4. PICK a \in BOOLEAN, b \in BOOLEAN, n \in Nat :
            Looked(r) = [w EXCEPT !.pc = "look", !.i = n, !.live = b, !.allStopped = a]
      BY <2>3
    <2>5. [w EXCEPT !.pc = "look", !.i = n, !.live = b, !.allStopped = a] \in WType
      BY <1>1
    <2>. QED  BY <2>4, <2>5
  <1>3. \A v \in WType : [v EXCEPT !.stopping = s] \in WType
    BY DEF WType
  <1>4. w' \in WType
    BY <1>2, <1>3
  <1>5. \A v \in WType : LET u == [v EXCEPT !.stopping = s]
                         IN  /\ u.pc = v.pc /\ u.i = v.i /\ u.allStopped = v.allStopped
                             /\ u.result = v.result /\ u.status = v.status
                             /\ u.owned = v.owned /\ u.next = v.next
    BY DEF WType
  <1>6. w'.allStopped = Looked(r).allStopped /\ w'.pc = Looked(r).pc /\ w'.i = Looked(r).i
        /\ w'.result = Looked(r).result /\ w'.status = Looked(r).status
        /\ w'.owned = Looked(r).owned /\ w'.next = Looked(r).next
    BY <1>2, <1>5
  <1>7. Looked(r).allStopped => w.allStopped /\ r # "running"
    BY DEF Looked, WType
  <1>. QED  BY <1>4, <1>6, <1>7 DEF StepTo, WType, Looked

\* The result a job calls for depends on the exit statuses only.
LEMMA TrueResultSame == ASSUME UNCHANGED <<opt, code>> PROVE TrueResult' = TrueResult
  BY DEF TrueResult

-----------------------------------------------------------------------------
(* Each step keeps the invariant. First the kernel's steps. *)

LEMMA ExitStep ==
    ASSUME IInv, NEW m \in Members, NEW c \in Codes, Exit(m, c), UNCHANGED opt
    PROVE  IInv'
  <1>. USE ParametersAssumption DEF IInv, Exit, kernel, job
  <1>1. TypeOK'
    BY DEF TypeOK
  <1>2. MemberInv' /\ OwnershipInv'
    BY <1>1 DEF TypeOK, MemberInv, OwnershipInv, Owned
  <1>3. LoopInv' /\ LostInv'
    BY <1>1 DEF TypeOK, MemberInv, LoopInv, Owned, Members, LostInv, IsComplete
  <1>4. ResultInv' /\ TerminalInv'
    BY TrueResultSame, <1>1 DEF TypeOK, MemberInv, ResultInv, TerminalInv
  <1>. QED  BY <1>1, <1>2, <1>3, <1>4 DEF IInv

LEMMA StopStep ==
    ASSUME IInv, NEW m \in Members, Stop(m), UNCHANGED opt
    PROVE  IInv'
  <1>. USE ParametersAssumption DEF IInv, Stop, kernel, job
  <1>1. TypeOK'
    BY DEF TypeOK
  <1>2. MemberInv' /\ OwnershipInv'
    BY <1>1 DEF TypeOK, MemberInv, OwnershipInv, Owned
  <1>3. LoopInv' /\ LostInv'
    BY <1>1 DEF TypeOK, MemberInv, LoopInv, Owned, Members, LostInv, IsComplete
  <1>4. ResultInv' /\ TerminalInv'
    BY TrueResultSame, <1>1 DEF TypeOK, MemberInv, ResultInv, TerminalInv
  <1>. QED  BY <1>1, <1>2, <1>3, <1>4 DEF IInv

LEMMA KilledStep ==
    ASSUME IInv, NEW m \in Members, Killed(m), UNCHANGED opt
    PROVE  IInv'
  <1>. USE ParametersAssumption DEF IInv, Killed, kernel, job
  <1>1. TypeOK'
    BY DEF TypeOK, Codes
  <1>2. MemberInv' /\ OwnershipInv'
    BY <1>1 DEF TypeOK, MemberInv, OwnershipInv, Owned
  <1>3. LoopInv' /\ LostInv'
    BY <1>1 DEF TypeOK, LoopInv, Owned, LostInv, IsComplete
  <1>4. ResultInv' /\ TerminalInv'
    BY TrueResultSame, <1>1 DEF TypeOK, MemberInv, ResultInv, TerminalInv
  <1>. QED  BY <1>1, <1>2, <1>3, <1>4 DEF IInv

LEMMA StealStep ==
    ASSUME IInv, NEW m \in Members, Steal(m), UNCHANGED opt
    PROVE  IInv'
  <1>. USE ParametersAssumption DEF IInv, Steal, kernel, job, Failing, Ghosts, Budgets
  <1>1. TypeOK'
    BY DEF TypeOK
  <1>2. MemberInv' /\ OwnershipInv'
    BY <1>1 DEF TypeOK, MemberInv, OwnershipInv, Owned
  <1>3. LoopInv' /\ LostInv'
    BY <1>1 DEF TypeOK, MemberInv, LoopInv, Owned, Members, LostInv, IsComplete
  <1>4. ResultInv' /\ TerminalInv'
    BY TrueResultSame, <1>1 DEF TypeOK, MemberInv, ResultInv, TerminalInv
  <1>. QED  BY <1>1, <1>2, <1>3, <1>4 DEF IInv

LEMMA RelayEofStep ==
    ASSUME IInv, RelayEof, UNCHANGED opt
    PROVE  IInv'
  <1>. USE ParametersAssumption DEF IInv, RelayEof, kernel, job
  <1>1. TypeOK'
    BY DEF TypeOK
  <1>2. MemberInv' /\ OwnershipInv'
    BY <1>1 DEF TypeOK, MemberInv, OwnershipInv, Owned
  <1>3. LoopInv' /\ LostInv'
    BY <1>1 DEF TypeOK, LoopInv, Owned, LostInv, IsComplete
  <1>4. ResultInv' /\ TerminalInv'
    BY TrueResultSame, <1>1 DEF TypeOK, MemberInv, ResultInv, TerminalInv
  <1>. QED  BY <1>1, <1>2, <1>3, <1>4 DEF IInv

LEMMA RelayBreaksStep ==
    ASSUME IInv, RelayBreaks, UNCHANGED opt
    PROVE  IInv'
  <1>. USE ParametersAssumption DEF IInv, RelayBreaks, kernel, job, Failing, Budgets
  <1>1. TypeOK'
    BY DEF TypeOK
  <1>2. MemberInv' /\ OwnershipInv'
    BY <1>1 DEF TypeOK, MemberInv, OwnershipInv, Owned
  <1>3. LoopInv' /\ LostInv'
    BY <1>1 DEF TypeOK, LoopInv, Owned, LostInv, IsComplete
  <1>4. ResultInv' /\ TerminalInv'
    BY TrueResultSame, <1>1 DEF TypeOK, MemberInv, ResultInv, TerminalInv
  <1>. QED  BY <1>1, <1>2, <1>3, <1>4 DEF IInv

LEMMA CancelStep ==
    ASSUME IInv, Cancel, UNCHANGED opt
    PROVE  IInv'
  <1>. USE ParametersAssumption DEF IInv, Cancel, kernel, job
  <1>1. TypeOK'
    BY DEF TypeOK
  <1>2. MemberInv' /\ OwnershipInv'
    BY <1>1 DEF TypeOK, MemberInv, OwnershipInv, Owned
  <1>3. LoopInv' /\ LostInv'
    BY <1>1 DEF TypeOK, LoopInv, Owned, LostInv, IsComplete
  <1>4. ResultInv' /\ TerminalInv'
    BY TrueResultSame, <1>1 DEF TypeOK, MemberInv, ResultInv, TerminalInv
  <1>. QED  BY <1>1, <1>2, <1>3, <1>4 DEF IInv

-----------------------------------------------------------------------------
(* The waiting thread's steps. *)

LEMMA HandoffStep ==
    ASSUME IInv, Handoff, UNCHANGED opt
    PROVE  IInv'
  <1>. USE ParametersAssumption DEF IInv
  <1>1. w.pc = "handoff" /\ UNCHANGED <<opt, kern, code, pend, report, rec, st, lost, relay, cancel>>
    BY DEF Handoff, kernel, job
  <1>2. CASE opt.converged /\ Go("pass") /\ UNCHANGED <<tty, budget, ghost>>
    <2>1. StepTo("pass", w.i, w.allStopped, w.result, w.status, w.owned, w.next)
      BY <1>1, <1>2 DEF TypeOK, WType, StepTo, Pcs, Results, Go
    <2>2. TypeOK'
      BY <1>1, <2>1, <1>2 DEF TypeOK, StepTo
    <2>3. MemberInv' /\ OwnershipInv'
      BY <1>1, <2>1, <1>2, <2>2 DEF MemberInv, TypeOK, OwnershipInv, Owned, StepTo
    <2>4. LoopInv' /\ LostInv'
      BY <1>1, <2>1, <1>2, <2>2 DEF TypeOK, MemberInv, LoopInv, Owned, Members, LostInv,
         IsComplete, StepTo
    <2>5. ResultInv' /\ TerminalInv'
      BY TrueResultSame, <1>1, <2>1, <1>2, <2>2 DEF TypeOK, MemberInv, ResultInv,
         TerminalInv, StepTo
    <2>. QED  BY <2>2, <2>3, <2>4, <2>5 DEF IInv
  <1>3. CASE ~ opt.converged /\ tty' = "job" /\ Go("pass") /\ UNCHANGED <<budget, ghost>>
    <2>1. StepTo("pass", w.i, w.allStopped, w.result, w.status, w.owned, w.next)
      BY <1>1, <1>3 DEF TypeOK, WType, StepTo, Pcs, Results, Go
    <2>2. TypeOK'
      BY <1>1, <2>1, <1>3 DEF TypeOK, StepTo
    <2>3. MemberInv' /\ OwnershipInv'
      BY <1>1, <2>1, <1>3, <2>2 DEF MemberInv, TypeOK, OwnershipInv, Owned, StepTo
    <2>4. LoopInv' /\ LostInv'
      BY <1>1, <2>1, <1>3, <2>2 DEF TypeOK, MemberInv, LoopInv, Owned, Members, LostInv,
         IsComplete, StepTo
    <2>5. ResultInv' /\ TerminalInv'
      BY TrueResultSame, <1>1, <2>1, <1>3, <2>2 DEF TypeOK, MemberInv, ResultInv,
         TerminalInv, StepTo
    <2>. QED  BY <2>2, <2>3, <2>4, <2>5 DEF IInv
  <1>4. CASE ~ opt.converged /\ Failing("handoff") /\ UNCHANGED tty
          /\ w' = [w EXCEPT !.pc = "returned", !.result = "error"]
          /\ ghost' = [ghost EXCEPT !.handoff = TRUE]
    <2>1. StepTo("returned", w.i, w.allStopped, "error", w.status, w.owned, w.next)
      BY <1>1, <1>4 DEF TypeOK, WType, StepTo, Pcs, Results, Failing
    <2>2. TypeOK'
      BY FailingType, GhostTypes, <1>1, <2>1, <1>4 DEF TypeOK, StepTo
    <2>3. MemberInv' /\ OwnershipInv'
      BY <1>1, <2>1, <1>4, <2>2 DEF MemberInv, TypeOK, OwnershipInv, Owned, StepTo, Failing
    <2>4. LoopInv' /\ LostInv'
      BY <1>1, <2>1, <1>4, <2>2 DEF TypeOK, MemberInv, LoopInv, Owned, Members, LostInv,
         IsComplete, StepTo, Failing
    <2>5. ResultInv' /\ TerminalInv'
      BY TrueResultSame, <1>1, <2>1, <1>4, <2>2 DEF TypeOK, MemberInv, ResultInv,
         TerminalInv, StepTo, Failing
    <2>. QED  BY <2>2, <2>3, <2>4, <2>5 DEF IInv
  <1>. QED  BY <1>2, <1>3, <1>4 DEF Handoff

LEMMA PassStep ==
    ASSUME IInv, Pass, UNCHANGED opt
    PROVE  IInv'
  <1>. USE ParametersAssumption DEF IInv
  <1>1. w.pc = "pass" /\ UNCHANGED <<opt, kern, code, pend, report, rec, st, lost, tty, relay, cancel, budget, ghost>>
    BY DEF Pass, kernel, job
  <1>2. CASE cancel
    <2>1. StepTo("failed", w.i, w.allStopped, "cancelled", w.status, w.owned, w.next)
      BY <1>1, <1>2 DEF TypeOK, WType, StepTo, Pcs, Results, Pass
    <2>2. TypeOK'
      BY <1>1, <2>1, <1>2 DEF TypeOK, StepTo
    <2>3. MemberInv' /\ OwnershipInv'
      BY <1>1, <2>1, <1>2, <2>2 DEF MemberInv, TypeOK, OwnershipInv, Owned, StepTo
    <2>4. LoopInv' /\ LostInv'
      BY <1>1, <2>1, <1>2, <2>2 DEF TypeOK, MemberInv, LoopInv, Owned, Members, LostInv,
         IsComplete, StepTo
    <2>5. ResultInv' /\ TerminalInv'
      BY TrueResultSame, <1>1, <2>1, <1>2, <2>2 DEF TypeOK, MemberInv, ResultInv,
         TerminalInv, StepTo
    <2>. QED  BY <2>2, <2>3, <2>4, <2>5 DEF IInv
  <1>3. CASE ~ cancel
    <2>1. StepTo("look", 1, TRUE, w.result, w.status, w.owned, w.next)
      BY <1>1, <1>3 DEF TypeOK, WType, StepTo, Pcs, Results, Pass
    <2>2. TypeOK'
      BY <1>1, <2>1, <1>3 DEF TypeOK, StepTo
    <2>3. MemberInv' /\ OwnershipInv'
      BY <1>1, <2>1, <1>3, <2>2 DEF MemberInv, TypeOK, OwnershipInv, Owned, StepTo
    <2>4. LoopInv' /\ LostInv'
      BY <1>1, <2>1, <1>3, <2>2 DEF TypeOK, MemberInv, LoopInv, Owned, Members, LostInv,
         IsComplete, StepTo
    <2>5. ResultInv' /\ TerminalInv'
      BY TrueResultSame, <1>1, <2>1, <1>3, <2>2 DEF TypeOK, MemberInv, ResultInv,
         TerminalInv, StepTo
    <2>. QED  BY <2>2, <2>3, <2>4, <2>5 DEF IInv
  <1>. QED  BY <1>2, <1>3 DEF Pass

LEMMA LookStep ==
    ASSUME IInv, NEW m \in Members, Look(m), UNCHANGED opt
    PROVE  IInv'
  <1>. USE ParametersAssumption DEF IInv
  <1>1. w.pc = "look" /\ w.i = m /\ UNCHANGED <<opt, kern, code, pend, report, tty, relay, cancel, ghost>>
    BY DEF Look, kernel, job
  <1>2. CASE ~ Live(m) /\ w' = [w EXCEPT !.i = @ + 1] /\ UNCHANGED <<job, budget>>
    <2>1. StepTo(w.pc, w.i + 1, w.allStopped, w.result, w.status, w.owned, w.next)
      BY <1>1, <1>2 DEF TypeOK, WType, StepTo, Pcs, Results, Live
    <2>2. TypeOK'
      BY <1>1, <2>1, <1>2 DEF TypeOK, StepTo, job
    <2>3. MemberInv' /\ OwnershipInv'
      BY <1>1, <2>1, <1>2, <2>2 DEF TypeOK, MemberInv, OwnershipInv, Owned, StepTo, job, Live
    <2>4. LoopInv' /\ LostInv'
      BY <1>1, <2>1, <1>2, <2>2 DEF TypeOK, MemberInv, LoopInv, Owned, Members, LostInv,
         IsComplete, StepTo, job, Live
    <2>5. ResultInv' /\ TerminalInv'
      BY TrueResultSame, <1>1, <2>1, <1>2, <2>2 DEF TypeOK, MemberInv, ResultInv,
         TerminalInv, StepTo, job, Live
    <2>. QED  BY <2>2, <2>3, <2>4, <2>5 DEF IInv
  <1>3. CASE Live(m) /\ Go("consume") /\ UNCHANGED <<job, budget>>
    <2>1. StepTo("consume", w.i, w.allStopped, w.result, w.status, w.owned, w.next)
      BY <1>1, <1>3 DEF TypeOK, WType, StepTo, Pcs, Results, Go
    <2>2. TypeOK'
      BY <1>1, <2>1, <1>3 DEF TypeOK, StepTo, job
    <2>3. MemberInv' /\ OwnershipInv'
      BY <1>1, <2>1, <1>3, <2>2 DEF TypeOK, MemberInv, OwnershipInv, Owned, StepTo, job
    <2>4. LoopInv' /\ LostInv'
      BY <1>1, <2>1, <1>3, <2>2 DEF TypeOK, MemberInv, LoopInv, Owned, Members, LostInv,
         IsComplete, StepTo, job
    <2>5. ResultInv' /\ TerminalInv'
      BY TrueResultSame, <1>1, <2>1, <1>3, <2>2 DEF TypeOK, MemberInv, ResultInv,
         TerminalInv, StepTo, job
    <2>. QED  BY <2>2, <2>3, <2>4, <2>5 DEF IInv
  <1>4. CASE Live(m) /\ kern[m] = "zombie" /\ Exited(m, "exited") /\ w' = Looked("exited") /\ UNCHANGED <<lost, budget>>
    <2>1. StepTo("look", w.i + 1, w.allStopped /\ "exited" # "running", w.result, w.status, w.owned, w.next)
      BY LookedTo, <1>4 DEF TypeOK
    <2>2. TypeOK'
      BY <1>1, <2>1, <1>4 DEF TypeOK, StepTo, Exited
    <2>3. MemberInv' /\ OwnershipInv'
      BY <1>1, <2>1, <1>4, <2>2 DEF TypeOK, MemberInv, OwnershipInv, Owned, StepTo, Exited, Live
    <2>4. LoopInv' /\ LostInv'
      BY <1>1, <2>1, <1>4, <2>2 DEF TypeOK, MemberInv, LoopInv, Owned, Members, LostInv,
         IsComplete, StepTo, Exited, Live
    <2>5. ResultInv' /\ TerminalInv'
      BY TrueResultSame, <1>1, <2>1, <1>4, <2>2 DEF TypeOK, MemberInv, ResultInv,
         TerminalInv, StepTo, Exited, Live
    <2>. QED  BY <2>2, <2>3, <2>4, <2>5 DEF IInv
  <1>5. CASE Live(m) /\ kern[m] = "zombie" /\ Exited(m, "exited") /\ Failing("refusal") /\ Fail /\ UNCHANGED lost
    <2>1. StepTo("failed", w.i, w.allStopped, "error", w.status, w.owned, w.next)
      BY <1>1, <1>5 DEF TypeOK, WType, StepTo, Pcs, Results, Fail, Exited, Failing, Live
    <2>2. TypeOK'
      BY FailingType, <1>1, <2>1, <1>5 DEF TypeOK, StepTo, Exited
    <2>3. MemberInv' /\ OwnershipInv'
      BY <1>1, <2>1, <1>5, <2>2 DEF TypeOK, MemberInv, OwnershipInv, Owned, StepTo, Exited,
         Failing, Live
    <2>4. LoopInv' /\ LostInv'
      BY <1>1, <2>1, <1>5, <2>2 DEF TypeOK, MemberInv, LoopInv, Owned, Members, LostInv,
         IsComplete, StepTo, Exited, Failing, Live
    <2>5. ResultInv' /\ TerminalInv'
      BY TrueResultSame, <1>1, <2>1, <1>5, <2>2 DEF TypeOK, MemberInv, ResultInv,
         TerminalInv, StepTo, Exited, Failing, Live
    <2>. QED  BY <2>2, <2>3, <2>4, <2>5 DEF IInv
  <1>6. CASE Live(m) /\ w' = Looked(rec[m]) /\ UNCHANGED <<job, budget>>
    <2>1. StepTo("look", w.i + 1, w.allStopped /\ rec[m] # "running", w.result, w.status, w.owned, w.next)
      BY LookedTo, <1>6 DEF TypeOK
    <2>2. TypeOK'
      BY <1>1, <2>1, <1>6 DEF TypeOK, StepTo, job
    <2>3. MemberInv' /\ OwnershipInv'
      BY <1>1, <2>1, <1>6, <2>2 DEF TypeOK, MemberInv, OwnershipInv, Owned, StepTo, job
    <2>4. LoopInv' /\ LostInv'
      BY <1>1, <2>1, <1>6, <2>2 DEF TypeOK, MemberInv, LoopInv, Owned, Members, LostInv,
         IsComplete, StepTo, job
    <2>5. ResultInv' /\ TerminalInv'
      BY TrueResultSame, <1>1, <2>1, <1>6, <2>2 DEF TypeOK, MemberInv, ResultInv,
         TerminalInv, StepTo, job
    <2>. QED  BY <2>2, <2>3, <2>4, <2>5 DEF IInv
  <1>7. CASE Live(m) /\ kern[m] = "gone" /\ rec' = [rec EXCEPT ![m] = "relinquished"] /\ lost' = TRUE
          /\ w' = Looked("relinquished") /\ UNCHANGED <<st, budget>>
    <2>1. StepTo("look", w.i + 1, w.allStopped /\ "relinquished" # "running", w.result, w.status, w.owned, w.next)
      BY LookedTo, <1>7 DEF TypeOK
    <2>2. TypeOK'
      BY <1>1, <2>1, <1>7 DEF TypeOK, StepTo
    <2>3. MemberInv' /\ OwnershipInv'
      BY <1>1, <2>1, <1>7, <2>2 DEF TypeOK, MemberInv, OwnershipInv, Owned, StepTo, Live
    <2>4. LoopInv' /\ LostInv'
      BY <1>1, <2>1, <1>7, <2>2 DEF TypeOK, MemberInv, LoopInv, Owned, Members, LostInv,
         IsComplete, StepTo, Live
    <2>5. ResultInv' /\ TerminalInv'
      BY TrueResultSame, <1>1, <2>1, <1>7, <2>2 DEF TypeOK, MemberInv, ResultInv,
         TerminalInv, StepTo, Live
    <2>. QED  BY <2>2, <2>3, <2>4, <2>5 DEF IInv
  <1>8. CASE Live(m) /\ Failing("wait") /\ Fail /\ UNCHANGED job
    <2>1. StepTo("failed", w.i, w.allStopped, "error", w.status, w.owned, w.next)
      BY <1>1, <1>8 DEF TypeOK, WType, StepTo, Pcs, Results, Fail, Failing
    <2>2. TypeOK'
      BY FailingType, <1>1, <2>1, <1>8 DEF TypeOK, StepTo, job
    <2>3. MemberInv' /\ OwnershipInv'
      BY <1>1, <2>1, <1>8, <2>2 DEF TypeOK, MemberInv, OwnershipInv, Owned, StepTo, job, Failing
    <2>4. LoopInv' /\ LostInv'
      BY <1>1, <2>1, <1>8, <2>2 DEF TypeOK, MemberInv, LoopInv, Owned, Members, LostInv,
         IsComplete, StepTo, job, Failing
    <2>5. ResultInv' /\ TerminalInv'
      BY TrueResultSame, <1>1, <2>1, <1>8, <2>2 DEF TypeOK, MemberInv, ResultInv,
         TerminalInv, StepTo, job, Failing
    <2>. QED  BY <2>2, <2>3, <2>4, <2>5 DEF IInv
  <1>. QED  BY <1>2, <1>3, <1>4, <1>5, <1>6, <1>7, <1>8 DEF Look, Exited

LEMMA ConsumeStep ==
    ASSUME IInv, NEW m \in Members, Consume(m), UNCHANGED opt
    PROVE  IInv'
  <1>. USE ParametersAssumption DEF IInv
  <1>1. w.pc = "consume" /\ w.i = m /\ UNCHANGED <<opt, code, lost, tty, relay, cancel>>
    BY DEF Consume, kernel, job
  <1>2. CASE /\ kern[m] = "stopped" /\ report' = report \ {m} /\ rec' = [rec EXCEPT ![m] = "stopped"]
             /\ UNCHANGED <<pend, ghost>> \/ StopGroup
             /\ w' = [Looked("stopped") EXCEPT !.stopping = TRUE] /\ UNCHANGED <<kern, st, budget>>
    <2>1. StepTo("look", w.i + 1, w.allStopped /\ "stopped" # "running", w.result, w.status, w.owned, w.next)
      BY LookedTo, <1>2 DEF TypeOK
    <2>2. TypeOK'
      BY NoteSignalType, <1>1, <2>1, <1>2 DEF TypeOK, StepTo, StopGroup
    <2>3. MemberInv' /\ OwnershipInv'
      BY NoteSignalType, <1>1, <2>1, <1>2, <2>2 DEF TypeOK, MemberInv, OwnershipInv, Owned,
         StepTo, StopGroup, Unreaped
    <2>4. LoopInv' /\ LostInv'
      BY NoteSignalType, <1>1, <2>1, <1>2, <2>2 DEF TypeOK, MemberInv, LoopInv, Owned,
         Members, LostInv, IsComplete, StepTo, StopGroup
    <2>5. ResultInv' /\ TerminalInv'
      BY TrueResultSame, NoteSignalType, <1>1, <2>1, <1>2, <2>2 DEF TypeOK, MemberInv,
         ResultInv, TerminalInv, StepTo, StopGroup
    <2>. QED  BY <2>2, <2>3, <2>4, <2>5 DEF IInv
  <1>3. CASE /\ kern[m] = "zombie" /\ kern' = [kern EXCEPT ![m] = "gone"] /\ Exited(m, "reaped")
             /\ w' = Looked("reaped") /\ UNCHANGED <<report, pend, ghost, budget>>
    <2>1. StepTo("look", w.i + 1, w.allStopped /\ "reaped" # "running", w.result, w.status, w.owned, w.next)
      BY LookedTo, <1>3 DEF TypeOK
    <2>2. TypeOK'
      BY <1>1, <2>1, <1>3 DEF TypeOK, StepTo, Exited
    <2>3. MemberInv' /\ OwnershipInv'
      BY <1>1, <2>1, <1>3, <2>2 DEF TypeOK, MemberInv, OwnershipInv, Owned, StepTo, Exited
    <2>4. LoopInv' /\ LostInv'
      BY <1>1, <2>1, <1>3, <2>2 DEF TypeOK, MemberInv, LoopInv, Owned, Members, LostInv,
         IsComplete, StepTo, Exited
    <2>5. ResultInv' /\ TerminalInv'
      BY TrueResultSame, <1>1, <2>1, <1>3, <2>2 DEF TypeOK, MemberInv, ResultInv,
         TerminalInv, StepTo, Exited
    <2>. QED  BY <2>2, <2>3, <2>4, <2>5 DEF IInv
  <1>4. CASE /\ kern[m] = "zombie" /\ kern' = [kern EXCEPT ![m] = "gone"] /\ Exited(m, "reaped")
             /\ Failing("refusal") /\ Fail /\ UNCHANGED <<report, pend, ghost>>
    <2>1. StepTo("failed", w.i, w.allStopped, "error", w.status, w.owned, w.next)
      BY <1>1, <1>4 DEF TypeOK, WType, StepTo, Pcs, Results, Fail, Failing, Exited
    <2>2. TypeOK'
      BY FailingType, <1>1, <2>1, <1>4 DEF TypeOK, StepTo, Exited
    <2>3. MemberInv' /\ OwnershipInv'
      BY <1>1, <2>1, <1>4, <2>2 DEF TypeOK, MemberInv, OwnershipInv, Owned, StepTo, Failing,
         Exited
    <2>4. LoopInv' /\ LostInv'
      BY <1>1, <2>1, <1>4, <2>2 DEF TypeOK, MemberInv, LoopInv, Owned, Members, LostInv,
         IsComplete, StepTo, Failing, Exited
    <2>5. ResultInv' /\ TerminalInv'
      BY TrueResultSame, <1>1, <2>1, <1>4, <2>2 DEF TypeOK, MemberInv, ResultInv,
         TerminalInv, StepTo, Failing, Exited
    <2>. QED  BY <2>2, <2>3, <2>4, <2>5 DEF IInv
  <1>5. CASE kern[m] = "gone" /\ Fail /\ UNCHANGED <<kern, report, pend, ghost, rec, st, budget>>
    <2>1. StepTo("failed", w.i, w.allStopped, "error", w.status, w.owned, w.next)
      BY <1>1, <1>5 DEF TypeOK, WType, StepTo, Pcs, Results, Fail
    <2>2. TypeOK'
      BY <1>1, <2>1, <1>5 DEF TypeOK, StepTo
    <2>3. MemberInv' /\ OwnershipInv'
      BY <1>1, <2>1, <1>5, <2>2 DEF TypeOK, MemberInv, OwnershipInv, Owned, StepTo
    <2>4. LoopInv' /\ LostInv'
      BY <1>1, <2>1, <1>5, <2>2 DEF TypeOK, MemberInv, LoopInv, Owned, Members, LostInv,
         IsComplete, StepTo
    <2>5. ResultInv' /\ TerminalInv'
      BY TrueResultSame, <1>1, <2>1, <1>5, <2>2 DEF TypeOK, MemberInv, ResultInv,
         TerminalInv, StepTo
    <2>. QED  BY <2>2, <2>3, <2>4, <2>5 DEF IInv
  <1>6. CASE /\ kern[m] = "stopped" /\ report' = report \ {m} /\ rec' = [rec EXCEPT ![m] = "stopped"]
             /\ Failing("kill") /\ Fail /\ NoteSignal /\ UNCHANGED <<kern, st, pend>>
    <2>1. StepTo("failed", w.i, w.allStopped, "error", w.status, w.owned, w.next)
      BY <1>1, <1>6 DEF TypeOK, WType, StepTo, Pcs, Results, Fail
    <2>2. TypeOK'
      BY FailingType, NoteSignalType, <1>1, <2>1, <1>6 DEF TypeOK, StepTo
    <2>3. MemberInv' /\ OwnershipInv'
      BY NoteSignalType, <1>1, <2>1, <1>6, <2>2 DEF TypeOK, MemberInv, OwnershipInv, Owned,
         StepTo, Unreaped
    <2>4. LoopInv' /\ LostInv'
      BY NoteSignalType, <1>1, <2>1, <1>6, <2>2 DEF TypeOK, MemberInv, LoopInv, Owned,
         Members, LostInv, IsComplete, StepTo
    <2>5. ResultInv' /\ TerminalInv'
      BY TrueResultSame, NoteSignalType, <1>1, <2>1, <1>6, <2>2 DEF TypeOK, MemberInv,
         ResultInv, TerminalInv, StepTo
    <2>. QED  BY <2>2, <2>3, <2>4, <2>5 DEF IInv
  <1>. QED  BY <1>2, <1>3, <1>4, <1>5, <1>6 DEF Consume, Exited

LEMMA DecideStep ==
    ASSUME IInv, Decide, UNCHANGED opt
    PROVE  IInv'
  <1>. USE ParametersAssumption DEF IInv
  <1>1. w.pc = "look" /\ w.i = N + 1 /\ UNCHANGED <<opt, kern, code, pend, report, rec, st, lost, tty, relay, cancel, budget, ghost>>
    BY DEF Decide, kernel, job
  <1>2. CASE ~ w.live
    <2>1. StepTo("drain", w.i, w.allStopped, w.result, w.status, w.owned, w.next)
      BY <1>1, <1>2 DEF TypeOK, WType, StepTo, Pcs, Results, Decide
    <2>2. TypeOK'
      BY <1>1, <2>1, <1>2 DEF TypeOK, StepTo
    <2>3. MemberInv' /\ OwnershipInv'
      BY <1>1, <2>1, <1>2, <2>2 DEF MemberInv, TypeOK, OwnershipInv, Owned, StepTo
    <2>4. LoopInv' /\ LostInv'
      BY <1>1, <2>1, <1>2, <2>2 DEF TypeOK, MemberInv, LoopInv, Owned, Members, LostInv,
         IsComplete, StepTo
    <2>5. ResultInv' /\ TerminalInv'
      BY TrueResultSame, <1>1, <2>1, <1>2, <2>2 DEF TypeOK, MemberInv, LoopInv, ResultInv,
         Owned, Members, TerminalInv, StepTo
    <2>. QED  BY <2>2, <2>3, <2>4, <2>5 DEF IInv
  <1>3. CASE w.live /\ w.stopping /\ w.allStopped
    <2>1. StepTo("reclaim", w.i, w.allStopped, "stopped", w.status, w.owned, w.next)
      BY <1>1, <1>3 DEF TypeOK, WType, StepTo, Pcs, Results, Decide
    <2>2. TypeOK'
      BY <1>1, <2>1, <1>3 DEF TypeOK, StepTo
    <2>3. MemberInv' /\ OwnershipInv'
      BY <1>1, <2>1, <1>3, <2>2 DEF MemberInv, TypeOK, OwnershipInv, Owned, StepTo
    <2>4. LoopInv' /\ LostInv'
      BY <1>1, <2>1, <1>3, <2>2 DEF TypeOK, MemberInv, LoopInv, Owned, Members, LostInv,
         IsComplete, StepTo
    <2>5. ResultInv' /\ TerminalInv'
      BY TrueResultSame, <1>1, <2>1, <1>3, <2>2 DEF TypeOK, MemberInv, LoopInv, LostInv,
         ResultInv, Owned, Members, TerminalInv, StepTo
    <2>. QED  BY <2>2, <2>3, <2>4, <2>5 DEF IInv
  <1>4. CASE w.live /\ ~ (w.stopping /\ w.allStopped)
    <2>1. StepTo("pass", w.i, w.allStopped, w.result, w.status, w.owned, w.next)
      BY <1>1, <1>4 DEF TypeOK, WType, StepTo, Pcs, Results, Decide
    <2>2. TypeOK'
      BY <1>1, <2>1, <1>4 DEF TypeOK, StepTo
    <2>3. MemberInv' /\ OwnershipInv'
      BY <1>1, <2>1, <1>4, <2>2 DEF MemberInv, TypeOK, OwnershipInv, Owned, StepTo
    <2>4. LoopInv' /\ LostInv'
      BY <1>1, <2>1, <1>4, <2>2 DEF TypeOK, MemberInv, LoopInv, Owned, Members, LostInv,
         IsComplete, StepTo
    <2>5. ResultInv' /\ TerminalInv'
      BY TrueResultSame, <1>1, <2>1, <1>4, <2>2 DEF TypeOK, MemberInv, LoopInv, ResultInv,
         Owned, Members, TerminalInv, StepTo
    <2>. QED  BY <2>2, <2>3, <2>4, <2>5 DEF IInv
  <1>. QED  BY <1>2, <1>3, <1>4 DEF Decide

LEMMA DrainStep ==
    ASSUME IInv, Drain, UNCHANGED opt
    PROVE  IInv'
  <1>. USE ParametersAssumption DEF IInv
  <1>1. w.pc = "drain" /\ UNCHANGED <<opt, kern, code, pend, report, rec, st, lost, tty, relay, cancel, budget, ghost>>
    BY DEF Drain, kernel, job
  <1>2. CASE w' = [w EXCEPT !.pc = "failed", !.result = "cancelled"]
    <2>1. StepTo("failed", w.i, w.allStopped, "cancelled", w.status, w.owned, w.next)
      BY <1>1, <1>2 DEF TypeOK, WType, StepTo, Pcs, Results
    <2>2. TypeOK'
      BY <1>1, <2>1, <1>2 DEF TypeOK, StepTo
    <2>3. MemberInv' /\ OwnershipInv'
      BY <1>1, <2>1, <1>2, <2>2 DEF MemberInv, TypeOK, OwnershipInv, Owned, StepTo
    <2>4. LoopInv' /\ LostInv'
      BY <1>1, <2>1, <1>2, <2>2 DEF TypeOK, MemberInv, LoopInv, Owned, Members, LostInv,
         IsComplete, StepTo
    <2>5. ResultInv' /\ TerminalInv'
      BY TrueResultSame, <1>1, <2>1, <1>2, <2>2 DEF TypeOK, MemberInv, ResultInv,
         TerminalInv, StepTo
    <2>. QED  BY <2>2, <2>3, <2>4, <2>5 DEF IInv
  <1>3. CASE w' = [w EXCEPT !.pc = "reap", !.i = 1]
    <2>1. StepTo("reap", 1, w.allStopped, w.result, w.status, w.owned, w.next)
      BY <1>1, <1>3 DEF TypeOK, WType, StepTo, Pcs, Results
    <2>2. TypeOK'
      BY <1>1, <2>1, <1>3 DEF TypeOK, StepTo
    <2>3. MemberInv' /\ OwnershipInv'
      BY <1>1, <2>1, <1>3, <2>2 DEF MemberInv, TypeOK, OwnershipInv, Owned, StepTo
    <2>4. LoopInv' /\ LostInv'
      BY <1>1, <2>1, <1>3, <2>2 DEF TypeOK, MemberInv, LoopInv, Owned, Members, LostInv,
         IsComplete, StepTo
    <2>5. ResultInv' /\ TerminalInv'
      BY TrueResultSame, <1>1, <2>1, <1>3, <2>2 DEF TypeOK, MemberInv, ResultInv,
         TerminalInv, StepTo
    <2>. QED  BY <2>2, <2>3, <2>4, <2>5 DEF IInv
  <1>. QED  BY <1>2, <1>3 DEF Drain

LEMMA ReapStep ==
    ASSUME IInv, NEW m \in Members, Reap(m), UNCHANGED opt
    PROVE  IInv'
  <1>. USE ParametersAssumption DEF IInv
  <1>1. w.pc = "reap" /\ w.i = m /\ UNCHANGED <<opt, code, pend, report, tty, relay, cancel, ghost>>
    BY DEF Reap, kernel, job
  <1>2. CASE ~ Owned(m) /\ w' = [w EXCEPT !.i = @ + 1] /\ UNCHANGED <<kern, job, budget>>
    <2>1. StepTo(w.pc, w.i + 1, w.allStopped, w.result, w.status, w.owned, w.next)
      BY <1>1, <1>2 DEF TypeOK, WType, StepTo, Pcs, Results
    <2>2. TypeOK'
      BY <1>1, <2>1, <1>2 DEF TypeOK, StepTo, job
    <2>3. MemberInv' /\ OwnershipInv'
      BY <1>1, <2>1, <1>2, <2>2 DEF TypeOK, MemberInv, OwnershipInv, Owned, StepTo, job
    <2>4. LoopInv' /\ LostInv'
      BY <1>1, <2>1, <1>2, <2>2 DEF TypeOK, MemberInv, LoopInv, Owned, Members, LostInv,
         IsComplete, StepTo, job
    <2>5. ResultInv' /\ TerminalInv'
      BY TrueResultSame, <1>1, <2>1, <1>2, <2>2 DEF TypeOK, MemberInv, ResultInv,
         TerminalInv, StepTo, job
    <2>. QED  BY <2>2, <2>3, <2>4, <2>5 DEF IInv
  <1>3. CASE /\ kern[m] = "zombie" /\ kern' = [kern EXCEPT ![m] = "gone"]
             /\ rec' = [rec EXCEPT ![m] = "reaped"] /\ st' = [st EXCEPT ![m] = code[m]]
             /\ w' = [w EXCEPT !.i = @ + 1] /\ UNCHANGED <<lost, budget>>
    <2>1. StepTo(w.pc, w.i + 1, w.allStopped, w.result, w.status, w.owned, w.next)
      BY <1>1, <1>3 DEF TypeOK, WType, StepTo, Pcs, Results
    <2>2. TypeOK'
      BY <1>1, <2>1, <1>3 DEF TypeOK, StepTo
    <2>3. MemberInv' /\ OwnershipInv'
      BY <1>1, <2>1, <1>3, <2>2 DEF TypeOK, MemberInv, OwnershipInv, Owned, StepTo
    <2>4. LoopInv' /\ LostInv'
      BY <1>1, <2>1, <1>3, <2>2 DEF TypeOK, MemberInv, LoopInv, Owned, Members, LostInv,
         IsComplete, StepTo
    <2>5. ResultInv' /\ TerminalInv'
      BY TrueResultSame, <1>1, <2>1, <1>3, <2>2 DEF TypeOK, MemberInv, ResultInv,
         TerminalInv, StepTo
    <2>. QED  BY <2>2, <2>3, <2>4, <2>5 DEF IInv
  <1>4. CASE /\ kern[m] = "gone" /\ rec' = [rec EXCEPT ![m] = "relinquished"] /\ lost' = TRUE
             /\ Owned(m) /\ w' = [w EXCEPT !.i = @ + 1] /\ UNCHANGED <<kern, st, budget>>
    <2>1. StepTo(w.pc, w.i + 1, w.allStopped, w.result, w.status, w.owned, w.next)
      BY <1>1, <1>4 DEF TypeOK, WType, StepTo, Pcs, Results, Owned
    <2>2. TypeOK'
      BY <1>1, <2>1, <1>4 DEF TypeOK, StepTo
    <2>3. MemberInv' /\ OwnershipInv'
      BY <1>1, <2>1, <1>4, <2>2 DEF TypeOK, MemberInv, OwnershipInv, Owned, StepTo
    <2>4. LoopInv' /\ LostInv'
      BY <1>1, <2>1, <1>4, <2>2 DEF TypeOK, MemberInv, LoopInv, Owned, Members, LostInv,
         IsComplete, StepTo
    <2>5. ResultInv' /\ TerminalInv'
      BY TrueResultSame, <1>1, <2>1, <1>4, <2>2 DEF TypeOK, MemberInv, ResultInv,
         TerminalInv, StepTo, Owned
    <2>. QED  BY <2>2, <2>3, <2>4, <2>5 DEF IInv
  <1>5. CASE Owned(m) /\ Failing("wait") /\ Fail /\ UNCHANGED <<kern, job>>
    <2>1. StepTo("failed", w.i, w.allStopped, "error", w.status, w.owned, w.next)
      BY <1>1, <1>5 DEF TypeOK, WType, StepTo, Pcs, Results, Fail, Failing
    <2>2. TypeOK'
      BY FailingType, <1>1, <2>1, <1>5 DEF TypeOK, StepTo, job
    <2>3. MemberInv' /\ OwnershipInv'
      BY <1>1, <2>1, <1>5, <2>2 DEF TypeOK, MemberInv, OwnershipInv, Owned, StepTo, job, Failing
    <2>4. LoopInv' /\ LostInv'
      BY <1>1, <2>1, <1>5, <2>2 DEF TypeOK, MemberInv, LoopInv, Owned, Members, LostInv,
         IsComplete, StepTo, job, Failing
    <2>5. ResultInv' /\ TerminalInv'
      BY TrueResultSame, <1>1, <2>1, <1>5, <2>2 DEF TypeOK, MemberInv, ResultInv,
         TerminalInv, StepTo, job, Failing
    <2>. QED  BY <2>2, <2>3, <2>4, <2>5 DEF IInv
  <1>. QED  BY <1>2, <1>3, <1>4, <1>5 DEF Reap

LEMMA FailedStep ==
    ASSUME IInv, Failed, UNCHANGED opt
    PROVE  IInv'
  <1>. USE ParametersAssumption DEF IInv
  <1>1. w.pc = "failed" /\ UNCHANGED <<opt, kern, code, report, rec, st, lost, tty, relay, cancel>>
        /\ budget' \in Budgets
    BY FailingType DEF Failed, kernel, job, TypeOK
  <1>2. CASE /\ w.result = "cancelled" /\ w' = [w EXCEPT !.pc = "check", !.i = 1, !.next = "reclaim"]
             /\ UNCHANGED <<pend, ghost>>
    <2>1. StepTo("check", 1, w.allStopped, w.result, w.status, w.owned, "reclaim")
      BY <1>1, <1>2 DEF TypeOK, WType, StepTo, Pcs, Results
    <2>2. TypeOK'
      BY <1>1, <2>1, <1>2 DEF TypeOK, StepTo
    <2>3. MemberInv' /\ OwnershipInv'
      BY <1>1, <2>1, <1>2, <2>2 DEF MemberInv, TypeOK, OwnershipInv, Owned, StepTo
    <2>4. LoopInv' /\ LostInv'
      BY <1>1, <2>1, <1>2, <2>2 DEF TypeOK, MemberInv, LoopInv, Owned, Members, LostInv,
         IsComplete, StepTo
    <2>5. ResultInv' /\ TerminalInv'
      BY TrueResultSame, <1>1, <2>1, <1>2, <2>2 DEF TypeOK, MemberInv, ResultInv,
         TerminalInv, StepTo
    <2>. QED  BY <2>2, <2>3, <2>4, <2>5 DEF IInv
  <1>3. CASE Go("reclaim") /\ IsComplete /\ UNCHANGED <<pend, ghost>>
    <2>1. StepTo("reclaim", w.i, w.allStopped, w.result, w.status, w.owned, w.next)
      BY <1>1, <1>3 DEF TypeOK, WType, StepTo, Pcs, Results, Go
    <2>2. TypeOK'
      BY <1>1, <2>1, <1>3 DEF TypeOK, StepTo
    <2>3. MemberInv' /\ OwnershipInv'
      BY <1>1, <2>1, <1>3, <2>2 DEF MemberInv, TypeOK, OwnershipInv, Owned, StepTo
    <2>4. LoopInv' /\ LostInv'
      BY <1>1, <2>1, <1>3, <2>2 DEF TypeOK, MemberInv, LoopInv, Owned, Members, LostInv,
         IsComplete, StepTo
    <2>5. ResultInv' /\ TerminalInv'
      BY TrueResultSame, <1>1, <2>1, <1>3, <2>2 DEF TypeOK, MemberInv, ResultInv,
         TerminalInv, StepTo
    <2>. QED  BY <2>2, <2>3, <2>4, <2>5 DEF IInv
  <1>4. CASE Go("reclaim") /\ ~ IsComplete /\ StopGroup
    <2>1. StepTo("reclaim", w.i, w.allStopped, w.result, w.status, w.owned, w.next)
      BY <1>1, <1>4 DEF TypeOK, WType, StepTo, Pcs, Results, Go, StopGroup, NoteSignal,
         Unreaped, IsComplete
    <2>2. TypeOK'
      BY NoteSignalType, <1>1, <2>1, <1>4 DEF TypeOK, StepTo, StopGroup
    <2>3. MemberInv' /\ OwnershipInv'
      BY NoteSignalType, <1>1, <2>1, <1>4, <2>2 DEF MemberInv, TypeOK, OwnershipInv, Owned,
         StepTo, StopGroup, Unreaped, IsComplete
    <2>4. LoopInv' /\ LostInv'
      BY NoteSignalType, <1>1, <2>1, <1>4, <2>2 DEF TypeOK, MemberInv, LoopInv, Owned,
         Members, LostInv, IsComplete, StepTo, StopGroup
    <2>5. ResultInv' /\ TerminalInv'
      BY TrueResultSame, NoteSignalType, <1>1, <2>1, <1>4, <2>2 DEF TypeOK, MemberInv,
         ResultInv, TerminalInv, StepTo, StopGroup, IsComplete
    <2>. QED  BY <2>2, <2>3, <2>4, <2>5 DEF IInv
  <1>5. CASE Go("reclaim") /\ ~ IsComplete /\ NoteSignal /\ UNCHANGED pend
    <2>1. StepTo("reclaim", w.i, w.allStopped, w.result, w.status, w.owned, w.next)
      BY <1>1, <1>5 DEF TypeOK, WType, StepTo, Pcs, Results, Go, NoteSignal,
         Unreaped, IsComplete
    <2>2. TypeOK'
      BY NoteSignalType, <1>1, <2>1, <1>5 DEF TypeOK, StepTo
    <2>3. MemberInv' /\ OwnershipInv'
      BY NoteSignalType, <1>1, <2>1, <1>5, <2>2 DEF MemberInv, TypeOK, OwnershipInv, Owned,
         StepTo, Unreaped, IsComplete
    <2>4. LoopInv' /\ LostInv'
      BY NoteSignalType, <1>1, <2>1, <1>5, <2>2 DEF TypeOK, MemberInv, LoopInv, Owned,
         Members, LostInv, IsComplete, StepTo
    <2>5. ResultInv' /\ TerminalInv'
      BY TrueResultSame, NoteSignalType, <1>1, <2>1, <1>5, <2>2 DEF TypeOK, MemberInv,
         ResultInv, TerminalInv, StepTo, IsComplete
    <2>. QED  BY <2>2, <2>3, <2>4, <2>5 DEF IInv
  <1>. QED  BY <1>2, <1>3, <1>4, <1>5 DEF Failed, Interrupted

LEMMA ReclaimStep ==
    ASSUME IInv, Reclaim, UNCHANGED opt
    PROVE  IInv'
  <1>. USE ParametersAssumption DEF IInv
  <1>1. w.pc = "reclaim" /\ UNCHANGED <<opt, kern, code, pend, report, rec, st, lost, relay, cancel>>
    BY DEF Reclaim, kernel, job
  <1>2. CASE opt.converged /\ Go("returned") /\ UNCHANGED <<tty, budget, ghost>>
    <2>1. StepTo("returned", w.i, w.allStopped, w.result, w.status, w.owned, w.next)
      BY <1>1, <1>2 DEF TypeOK, WType, StepTo, Pcs, Results, Go
    <2>2. TypeOK'
      BY <1>1, <2>1, <1>2 DEF TypeOK, StepTo
    <2>3. MemberInv' /\ OwnershipInv'
      BY <1>1, <2>1, <1>2, <2>2 DEF MemberInv, TypeOK, OwnershipInv, Owned, StepTo
    <2>4. LoopInv' /\ LostInv'
      BY <1>1, <2>1, <1>2, <2>2 DEF TypeOK, MemberInv, LoopInv, Owned, Members, LostInv,
         IsComplete, StepTo
    <2>5. ResultInv' /\ TerminalInv'
      BY TrueResultSame, <1>1, <2>1, <1>2, <2>2 DEF TypeOK, MemberInv, ResultInv,
         TerminalInv, StepTo
    <2>. QED  BY <2>2, <2>3, <2>4, <2>5 DEF IInv
  <1>3. CASE ~ opt.converged /\ tty' = "shell" /\ Go("returned") /\ UNCHANGED <<budget, ghost>>
    <2>1. StepTo("returned", w.i, w.allStopped, w.result, w.status, w.owned, w.next)
      BY <1>1, <1>3 DEF TypeOK, WType, StepTo, Pcs, Results, Go
    <2>2. TypeOK'
      BY <1>1, <2>1, <1>3 DEF TypeOK, StepTo
    <2>3. MemberInv' /\ OwnershipInv'
      BY <1>1, <2>1, <1>3, <2>2 DEF MemberInv, TypeOK, OwnershipInv, Owned, StepTo
    <2>4. LoopInv' /\ LostInv'
      BY <1>1, <2>1, <1>3, <2>2 DEF TypeOK, MemberInv, LoopInv, Owned, Members, LostInv,
         IsComplete, StepTo
    <2>5. ResultInv' /\ TerminalInv'
      BY TrueResultSame, <1>1, <2>1, <1>3, <2>2 DEF TypeOK, MemberInv, ResultInv,
         TerminalInv, StepTo
    <2>. QED  BY <2>2, <2>3, <2>4, <2>5 DEF IInv
  <1>4. CASE /\ ~ opt.converged /\ Failing("reclaim") /\ UNCHANGED tty
             /\ ghost' = [ghost EXCEPT !.reclaim = TRUE]
             /\ w' = [w EXCEPT !.pc = "returned",
                               !.result = IF @ \in {"status", "stopped"} THEN "error" ELSE @]
    <2>1. StepTo("returned", w.i, w.allStopped, IF w.result \in {"status", "stopped"} THEN "error" ELSE w.result, w.status, w.owned, w.next)
      BY <1>1, <1>4 DEF TypeOK, WType, StepTo, Pcs, Results, Failing
    <2>2. TypeOK'
      BY FailingType, GhostTypes, <1>1, <2>1, <1>4 DEF TypeOK, StepTo
    <2>3. MemberInv' /\ OwnershipInv'
      BY <1>1, <2>1, <1>4, <2>2 DEF MemberInv, TypeOK, OwnershipInv, Owned, StepTo, Failing
    <2>4. LoopInv' /\ LostInv'
      BY <1>1, <2>1, <1>4, <2>2 DEF TypeOK, MemberInv, LoopInv, Owned, Members, LostInv,
         IsComplete, StepTo, Failing
    <2>5. ResultInv' /\ TerminalInv'
      BY TrueResultSame, <1>1, <2>1, <1>4, <2>2 DEF TypeOK, MemberInv, ResultInv,
         TerminalInv, StepTo, Failing
    <2>. QED  BY <2>2, <2>3, <2>4, <2>5 DEF IInv
  <1>. QED  BY <1>2, <1>3, <1>4 DEF Reclaim

LEMMA ReturnStep ==
    ASSUME IInv, Return, UNCHANGED opt
    PROVE  IInv'
  <1>. USE ParametersAssumption DEF IInv
  <1>1. w.pc = "returned" /\ UNCHANGED <<opt, kern, code, pend, report, rec, st, lost, tty, relay, cancel, budget, ghost>>
    BY DEF Return, kernel, job
  <1>2. CASE w.result = "stopped" /\ Go("prompt")
    <2>1. StepTo("prompt", w.i, w.allStopped, w.result, w.status, w.owned, w.next)
      BY <1>1, <1>2 DEF TypeOK, WType, StepTo, Pcs, Results, Go
    <2>2. TypeOK'
      BY <1>1, <2>1, <1>2 DEF TypeOK, StepTo
    <2>3. MemberInv' /\ OwnershipInv'
      BY <1>1, <2>1, <1>2, <2>2 DEF MemberInv, TypeOK, OwnershipInv, Owned, StepTo
    <2>4. LoopInv' /\ LostInv'
      BY <1>1, <2>1, <1>2, <2>2 DEF TypeOK, MemberInv, LoopInv, Owned, Members, LostInv,
         IsComplete, StepTo
    <2>5. ResultInv' /\ TerminalInv'
      BY TrueResultSame, <1>1, <2>1, <1>2, <2>2 DEF TypeOK, MemberInv, ResultInv,
         TerminalInv, StepTo
    <2>. QED  BY <2>2, <2>3, <2>4, <2>5 DEF IInv
  <1>3. CASE w.result = "status" /\ Go("over")
    <2>1. StepTo("over", w.i, w.allStopped, w.result, w.status, w.owned, w.next)
      BY <1>1, <1>3 DEF TypeOK, WType, StepTo, Pcs, Results, Go
    <2>2. TypeOK'
      BY <1>1, <2>1, <1>3 DEF TypeOK, StepTo
    <2>3. MemberInv' /\ OwnershipInv'
      BY <1>1, <2>1, <1>3, <2>2 DEF MemberInv, TypeOK, OwnershipInv, Owned, StepTo
    <2>4. LoopInv' /\ LostInv'
      BY <1>1, <2>1, <1>3, <2>2 DEF TypeOK, MemberInv, LoopInv, Owned, Members, LostInv,
         IsComplete, StepTo
    <2>5. ResultInv' /\ TerminalInv'
      BY TrueResultSame, <1>1, <2>1, <1>3, <2>2 DEF TypeOK, MemberInv, ResultInv,
         TerminalInv, StepTo
    <2>. QED  BY <2>2, <2>3, <2>4, <2>5 DEF IInv
  <1>4. CASE /\ w.result \in {"error", "cancelled"}
             /\ w' = [w EXCEPT !.pc = "check", !.i = 1, !.next = "over"]
    <2>1. StepTo("check", 1, w.allStopped, w.result, w.status, w.owned, "over")
      BY <1>1, <1>4 DEF TypeOK, WType, StepTo, Pcs, Results
    <2>2. TypeOK'
      BY <1>1, <2>1, <1>4 DEF TypeOK, StepTo
    <2>3. MemberInv' /\ OwnershipInv'
      BY <1>1, <2>1, <1>4, <2>2 DEF MemberInv, TypeOK, OwnershipInv, Owned, StepTo
    <2>4. LoopInv' /\ LostInv'
      BY <1>1, <2>1, <1>4, <2>2 DEF TypeOK, MemberInv, LoopInv, Owned, Members, LostInv,
         IsComplete, StepTo
    <2>5. ResultInv' /\ TerminalInv'
      BY TrueResultSame, <1>1, <2>1, <1>4, <2>2 DEF TypeOK, MemberInv, ResultInv,
         TerminalInv, StepTo
    <2>. QED  BY <2>2, <2>3, <2>4, <2>5 DEF IInv
  <1>5. CASE w.result \in {"error", "cancelled"} /\ ~ IsComplete /\ Go("prompt")
    <2>1. StepTo("prompt", w.i, w.allStopped, w.result, w.status, w.owned, w.next)
      BY <1>1, <1>5 DEF TypeOK, WType, StepTo, Pcs, Results, Go
    <2>2. TypeOK'
      BY <1>1, <2>1, <1>5 DEF TypeOK, StepTo
    <2>3. MemberInv' /\ OwnershipInv'
      BY <1>1, <2>1, <1>5, <2>2 DEF MemberInv, TypeOK, OwnershipInv, Owned, StepTo
    <2>4. LoopInv' /\ LostInv'
      BY <1>1, <2>1, <1>5, <2>2 DEF TypeOK, MemberInv, LoopInv, Owned, Members, LostInv,
         IsComplete, StepTo
    <2>5. ResultInv' /\ TerminalInv'
      BY TrueResultSame, <1>1, <2>1, <1>5, <2>2 DEF TypeOK, MemberInv, ResultInv,
         TerminalInv, StepTo
    <2>. QED  BY <2>2, <2>3, <2>4, <2>5 DEF IInv
  <1>. QED  BY <1>2, <1>3, <1>4, <1>5 DEF Return

LEMMA ResumeStep ==
    ASSUME IInv, Resume, UNCHANGED opt
    PROVE  IInv'
  <1>. USE ParametersAssumption DEF IInv
  <1>1. w.pc = "prompt" /\ UNCHANGED <<opt, kern, code, pend, report, rec, st, lost, tty, relay, cancel, ghost>>
    BY DEF Resume, kernel, job
  <1>2. StepTo("ask", 1, w.allStopped, "none", w.status, w.owned, w.next)
    BY <1>1 DEF TypeOK, WType, StepTo, Pcs, Results, Resume
  <1>3. TypeOK'
    BY <1>1, <1>2 DEF TypeOK, StepTo, Resume, Budgets
  <1>4. MemberInv' /\ OwnershipInv'
    BY <1>1, <1>2, <1>3 DEF MemberInv, TypeOK, OwnershipInv, Owned, StepTo
  <1>5. LoopInv' /\ LostInv'
    BY <1>1, <1>2, <1>3 DEF TypeOK, MemberInv, LoopInv, Owned, Members, LostInv, IsComplete,
       StepTo
  <1>6. ResultInv' /\ TerminalInv'
    BY TrueResultSame, <1>1, <1>2, <1>3 DEF TypeOK, MemberInv, ResultInv, TerminalInv, StepTo
  <1>. QED  BY <1>3, <1>4, <1>5, <1>6 DEF IInv

LEMMA AskStep ==
    ASSUME IInv, NEW m \in Members, Ask(m), UNCHANGED opt
    PROVE  IInv'
  <1>. USE ParametersAssumption DEF IInv
  <1>1. w.pc = "ask" /\ w.i = m /\ UNCHANGED <<opt, kern, code, pend, report, tty, relay, cancel, ghost>>
    BY DEF Ask, kernel, job
  <1>2. CASE w' = [w EXCEPT !.i = @ + 1] /\ UNCHANGED <<job, budget>>
    <2>1. StepTo(w.pc, w.i + 1, w.allStopped, w.result, w.status, w.owned, w.next)
      BY <1>1, <1>2 DEF TypeOK, WType, StepTo, Pcs, Results
    <2>2. TypeOK'
      BY <1>1, <2>1, <1>2 DEF TypeOK, StepTo, job
    <2>3. MemberInv' /\ OwnershipInv'
      BY <1>1, <2>1, <1>2, <2>2 DEF TypeOK, MemberInv, OwnershipInv, Owned, StepTo, job
    <2>4. LoopInv' /\ LostInv'
      BY <1>1, <2>1, <1>2, <2>2 DEF TypeOK, MemberInv, LoopInv, Owned, Members, LostInv,
         IsComplete, StepTo, job
    <2>5. ResultInv' /\ TerminalInv'
      BY TrueResultSame, <1>1, <2>1, <1>2, <2>2 DEF TypeOK, MemberInv, ResultInv,
         TerminalInv, StepTo, job
    <2>. QED  BY <2>2, <2>3, <2>4, <2>5 DEF IInv
  <1>3. CASE /\ Owned(m) /\ kern[m] = "gone" /\ rec' = [rec EXCEPT ![m] = "relinquished"] /\ lost' = TRUE
             /\ w' = [w EXCEPT !.i = @ + 1] /\ UNCHANGED <<st, budget>>
    <2>1. StepTo(w.pc, w.i + 1, w.allStopped, w.result, w.status, w.owned, w.next)
      BY <1>1, <1>3 DEF TypeOK, WType, StepTo, Pcs, Results, Owned
    <2>2. TypeOK'
      BY <1>1, <2>1, <1>3 DEF TypeOK, StepTo
    <2>3. MemberInv' /\ OwnershipInv'
      BY <1>1, <2>1, <1>3, <2>2 DEF TypeOK, MemberInv, OwnershipInv, Owned, StepTo
    <2>4. LoopInv' /\ LostInv'
      BY <1>1, <2>1, <1>3, <2>2 DEF TypeOK, MemberInv, LoopInv, Owned, Members, LostInv,
         IsComplete, StepTo
    <2>5. ResultInv' /\ TerminalInv'
      BY TrueResultSame, <1>1, <2>1, <1>3, <2>2 DEF TypeOK, MemberInv, ResultInv,
         TerminalInv, StepTo, Owned
    <2>. QED  BY <2>2, <2>3, <2>4, <2>5 DEF IInv
  <1>4. CASE /\ Failing("wait") /\ w' = [w EXCEPT !.pc = "returned", !.result = "error"]
             /\ UNCHANGED job
    <2>1. StepTo("returned", w.i, w.allStopped, "error", w.status, w.owned, w.next)
      BY <1>1, <1>4 DEF TypeOK, WType, StepTo, Pcs, Results, Failing
    <2>2. TypeOK'
      BY FailingType, <1>1, <2>1, <1>4 DEF TypeOK, StepTo, job
    <2>3. MemberInv' /\ OwnershipInv'
      BY <1>1, <2>1, <1>4, <2>2 DEF TypeOK, MemberInv, OwnershipInv, Owned, StepTo, job, Failing
    <2>4. LoopInv' /\ LostInv'
      BY <1>1, <2>1, <1>4, <2>2 DEF TypeOK, MemberInv, LoopInv, Owned, Members, LostInv,
         IsComplete, StepTo, job, Failing
    <2>5. ResultInv' /\ TerminalInv'
      BY TrueResultSame, <1>1, <2>1, <1>4, <2>2 DEF TypeOK, MemberInv, ResultInv,
         TerminalInv, StepTo, job, Failing
    <2>. QED  BY <2>2, <2>3, <2>4, <2>5 DEF IInv
  <1>. QED  BY <1>2, <1>3, <1>4 DEF Ask

LEMMA NothingLeftStep ==
    ASSUME IInv, NothingLeft, UNCHANGED opt
    PROVE  IInv'
  <1>. USE ParametersAssumption DEF IInv
  <1>1. w.pc = "ask" /\ UNCHANGED <<opt, kern, code, pend, report, rec, st, lost, tty, cancel, budget, ghost>>
    BY DEF NothingLeft, kernel, job
  <1>2. StepTo("returned", w.i, w.allStopped, "error", w.status, w.owned, w.next)
    BY <1>1 DEF TypeOK, WType, StepTo, Pcs, Results, NothingLeft
  <1>3. TypeOK'
    BY <1>1, <1>2 DEF TypeOK, StepTo, NothingLeft, Budgets
  <1>4. MemberInv' /\ OwnershipInv'
    BY <1>1, <1>2, <1>3 DEF MemberInv, TypeOK, OwnershipInv, Owned, StepTo
  <1>5. LoopInv' /\ LostInv'
    BY <1>1, <1>2, <1>3 DEF TypeOK, MemberInv, LoopInv, Owned, Members, LostInv, IsComplete,
       StepTo
  <1>6. ResultInv' /\ TerminalInv'
    BY TrueResultSame, <1>1, <1>2, <1>3 DEF TypeOK, MemberInv, ResultInv, TerminalInv, StepTo
  <1>. QED  BY <1>3, <1>4, <1>5, <1>6 DEF IInv

LEMMA ContinueStep ==
    ASSUME IInv, Continue, UNCHANGED opt
    PROVE  IInv'
  <1>. USE ParametersAssumption DEF IInv
  <1>1. w.pc = "ask" /\ ~ IsComplete /\ UNCHANGED <<opt, code, st, lost, relay, cancel>>
    BY DEF Continue, kernel, job
  <1>2. CASE /\ tty' = (IF opt.converged THEN tty ELSE "job") /\ ContinueGroup
             /\ rec' = [m \in Members |-> IF rec[m] = "stopped" THEN "running" ELSE rec[m]]
             /\ Go("handoff") /\ UNCHANGED budget
    <2>1. StepTo("handoff", w.i, w.allStopped, w.result, w.status, w.owned, w.next)
      BY <1>1, <1>2 DEF TypeOK, WType, StepTo, Pcs, Results, Go, ContinueGroup, NoteSignal,
         Unreaped, IsComplete
    <2>2. TypeOK'
      BY NoteSignalType, <1>1, <2>1, <1>2 DEF TypeOK, StepTo, ContinueGroup
    <2>3. MemberInv' /\ OwnershipInv'
      BY NoteSignalType, <1>1, <2>1, <1>2, <2>2 DEF TypeOK, MemberInv, OwnershipInv, Owned,
         StepTo, ContinueGroup, Unreaped, IsComplete
    <2>4. LoopInv' /\ LostInv'
      BY NoteSignalType, <1>1, <2>1, <1>2, <2>2 DEF TypeOK, MemberInv, LoopInv, Owned,
         Members, LostInv, IsComplete, StepTo, ContinueGroup
    <2>5. ResultInv' /\ TerminalInv'
      BY TrueResultSame, NoteSignalType, <1>1, <2>1, <1>2, <2>2 DEF TypeOK, MemberInv,
         ResultInv, TerminalInv, StepTo, ContinueGroup, IsComplete
    <2>. QED  BY <2>2, <2>3, <2>4, <2>5 DEF IInv
  <1>3. CASE /\ Failing("cont") \/ Failing("handoff")
             /\ w' = [w EXCEPT !.pc = "returned", !.result = "error"]
             /\ NoteSignal /\ UNCHANGED <<kern, pend, report, rec, tty>>
    <2>1. StepTo("returned", w.i, w.allStopped, "error", w.status, w.owned, w.next)
      BY <1>1, <1>3 DEF TypeOK, WType, StepTo, Pcs, Results, Failing, NoteSignal, Unreaped,
         IsComplete
    <2>2. TypeOK'
      BY FailingType, NoteSignalType, <1>1, <2>1, <1>3 DEF TypeOK, StepTo
    <2>3. MemberInv' /\ OwnershipInv'
      BY NoteSignalType, <1>1, <2>1, <1>3, <2>2 DEF TypeOK, MemberInv, OwnershipInv, Owned,
         StepTo, Failing, Unreaped, IsComplete
    <2>4. LoopInv' /\ LostInv'
      BY NoteSignalType, <1>1, <2>1, <1>3, <2>2 DEF TypeOK, MemberInv, LoopInv, Owned,
         Members, LostInv, IsComplete, StepTo, Failing
    <2>5. ResultInv' /\ TerminalInv'
      BY TrueResultSame, NoteSignalType, <1>1, <2>1, <1>3, <2>2 DEF TypeOK, MemberInv,
         ResultInv, TerminalInv, StepTo, Failing, IsComplete
    <2>. QED  BY <2>2, <2>3, <2>4, <2>5 DEF IInv
  <1>4. CASE /\ ~ opt.converged /\ budget' = [budget EXCEPT !.faults = @ + 2]
             /\ tty' = "job" /\ ghost' = [ghost EXCEPT !.reclaim = TRUE]
             /\ w' = [w EXCEPT !.pc = "returned", !.result = "error"]
             /\ UNCHANGED <<kern, pend, report, rec>>
    <2>1. StepTo("returned", w.i, w.allStopped, "error", w.status, w.owned, w.next)
      BY <1>1, <1>4 DEF TypeOK, WType, StepTo, Pcs, Results
    <2>2. TypeOK'
      BY GhostTypes, <1>1, <2>1, <1>4 DEF TypeOK, StepTo, Budgets
    <2>3. MemberInv' /\ OwnershipInv'
      BY <1>1, <2>1, <1>4, <2>2 DEF TypeOK, MemberInv, OwnershipInv, Owned, StepTo
    <2>4. LoopInv' /\ LostInv'
      BY <1>1, <2>1, <1>4, <2>2 DEF TypeOK, MemberInv, LoopInv, Owned, Members, LostInv,
         IsComplete, StepTo
    <2>5. ResultInv' /\ TerminalInv'
      BY TrueResultSame, <1>1, <2>1, <1>4, <2>2 DEF TypeOK, MemberInv, ResultInv,
         TerminalInv, StepTo
    <2>. QED  BY <2>2, <2>3, <2>4, <2>5 DEF IInv
  <1>. QED  BY <1>2, <1>3, <1>4 DEF Continue

LEMMA AbandonStep ==
    ASSUME IInv, Abandon, UNCHANGED opt
    PROVE  IInv'
  <1>. USE ParametersAssumption DEF IInv
  <1>1. w.pc = "prompt" /\ UNCHANGED <<opt, kern, code, pend, report, rec, st, lost, tty, relay, cancel, budget, ghost>>
    BY DEF Abandon, kernel, job
  <1>2. StepTo("check", 1, w.allStopped, w.result, w.status, w.owned, "over")
    BY <1>1 DEF TypeOK, WType, StepTo, Pcs, Results, Abandon
  <1>3. TypeOK'
    BY <1>1, <1>2 DEF TypeOK, StepTo
  <1>4. MemberInv' /\ OwnershipInv'
    BY <1>1, <1>2, <1>3 DEF MemberInv, TypeOK, OwnershipInv, Owned, StepTo
  <1>5. LoopInv' /\ LostInv'
    BY <1>1, <1>2, <1>3 DEF TypeOK, MemberInv, LoopInv, Owned, Members, LostInv, IsComplete,
       StepTo
  <1>6. ResultInv' /\ TerminalInv'
    BY TrueResultSame, <1>1, <1>2, <1>3 DEF TypeOK, MemberInv, ResultInv, TerminalInv, StepTo
  <1>. QED  BY <1>3, <1>4, <1>5, <1>6 DEF IInv

LEMMA CheckStep ==
    ASSUME IInv, NEW m \in Members, Check(m), UNCHANGED opt
    PROVE  IInv'
  <1>. USE ParametersAssumption DEF IInv
  <1>. DEFINE before == IF m = 1 THEN {} ELSE w.owned
              found  == {x \in {m} : Owned(x) /\ kern[x] # "gone"}
              Step(o) == w' = [w EXCEPT !.i = @ + 1, !.owned = o]
  <1>1. w.pc = "check" /\ w.i = m
        /\ UNCHANGED <<opt, kern, code, pend, report, rec, st, lost, tty, relay, cancel>>
    BY DEF Check, kernel, job
  <1>2. \/ Step(before \cup found) /\ UNCHANGED <<budget, ghost>>
        \/ Step(before) /\ Failing("wait") /\ ghost' = [ghost EXCEPT !.left = @ \cup {m}]
    BY DEF Check
  <1>3. before \in SUBSET Members /\ (\A x \in before : m # 1 /\ x \in w.owned)
        /\ (\A x \in Members : x \notin before => (m # 1 => x \notin w.owned))
    BY DEF TypeOK, WType
  <1>4. found \subseteq {m} /\ (m \in found <=> Owned(m) /\ kern[m] # "gone")
    OBVIOUS
  <1>5. /\ budget' \in Budgets /\ ghost' \in Ghosts /\ ghost.left \subseteq ghost'.left
        /\ ghost'.stolen = ghost.stolen /\ ghost'.unsafe = ghost.unsafe
        /\ ghost'.reclaim = ghost.reclaim /\ ghost'.handoff = ghost.handoff
    <2>1. CASE UNCHANGED <<budget, ghost>>
      BY <2>1 DEF TypeOK
    <2>2. CASE Failing("wait") /\ ghost' = [ghost EXCEPT !.left = @ \cup {m}]
      BY <2>2, FailingType, GhostTypes DEF TypeOK, Ghosts
    <2>. QED  BY <1>2, <2>1, <2>2
  <1>. HIDE DEF found, before
  <1>6. PICK now \in SUBSET Members :
           /\ Step(now)
           /\ \A x \in now : (x = m /\ Owned(m) /\ kern[m] # "gone") \/ (m # 1 /\ x \in w.owned)
           /\ \A x \in Members : x \notin now => (m # 1 => x \notin w.owned)
           /\ m \notin now => ~ Owned(m) \/ kern[m] = "gone" \/ m \in ghost'.left
    <2>1. CASE Step(before \cup found)
      <3>. DEFINE o == before \cup found
      <3>1. o \in SUBSET Members
        BY <1>3, <1>4
      <3>2. \A x \in o : (x = m /\ Owned(m) /\ kern[m] # "gone") \/ (m # 1 /\ x \in w.owned)
        BY <1>3, <1>4
      <3>3. (\A x \in Members : x \notin o => (m # 1 => x \notin w.owned))
            /\ (m \notin o => ~ Owned(m) \/ kern[m] = "gone")
        BY <1>3, <1>4
      <3>. QED  BY <2>1, <3>1, <3>2, <3>3
    <2>2. CASE Step(before) /\ ghost' = [ghost EXCEPT !.left = @ \cup {m}]
      <3>1. m \in ghost'.left
        BY <2>2 DEF TypeOK, Ghosts
      <3>. QED  BY <1>3, <2>2, <3>1
    <2>. QED  BY <1>2, <2>1, <2>2
  <1>7. ASSUME NEW o \in SUBSET Members, NEW n \in Nat
        PROVE  [w EXCEPT !.i = n, !.owned = o] \in WType
    BY DEF TypeOK, WType
  <1>8. StepTo("check", w.i + 1, w.allStopped, w.result, w.status, now, w.next)
    <2>1. w' \in WType
      <3>1. w.i \in Nat /\ w.i + 1 \in Nat
        BY DEF TypeOK, WType
      <3>. QED  BY <1>6, <1>7, <3>1
    <2>. QED  BY <1>1, <1>6, <2>1 DEF TypeOK, WType, StepTo
  <1>10. TypeOK'
    BY <1>1, <1>5, <1>8 DEF TypeOK, StepTo
  <1>11. MemberInv'
    BY <1>1, <1>5 DEF MemberInv
  <1>12. OwnershipInv'
    BY <1>1, <1>5, <1>6, <1>8 DEF TypeOK, OwnershipInv, Owned, StepTo
  <1>13. LoopInv'
    <2>1. \A x \in Members : x < m + 1 /\ x \notin now => kern[x] = "gone" \/ x \in ghost'.left
      <3>1. TAKE x \in Members
      <3>2. CASE x = m
        BY <3>2, <1>5, <1>6 DEF TypeOK, MemberInv, Owned
      <3>3. CASE x # m
        BY <3>3, <1>1, <1>5, <1>6 DEF LoopInv, Members
      <3>. QED  BY <3>2, <3>3
    <2>. QED  BY <1>1, <1>8, <2>1 DEF LoopInv, StepTo, Members
  <1>14. LostInv'
    BY <1>1, <1>8 DEF LostInv, IsComplete, Owned, StepTo
  <1>15. ResultInv'
    BY <1>1, <1>8, TrueResultSame, <1>5 DEF ResultInv, StepTo
  <1>16. TerminalInv'
    BY <1>1, <1>5, <1>8 DEF TerminalInv, StepTo
  <1>. QED  BY <1>10, <1>11, <1>12, <1>13, <1>14, <1>15, <1>16

\* The group is killed only while the check found a member that is still ours.
LEMMA KillStep ==
    ASSUME IInv, Kill, UNCHANGED opt
    PROVE  IInv'
  <1>. USE ParametersAssumption DEF IInv
  <1>1. w.pc = "check" /\ w.i = N + 1
        /\ UNCHANGED <<opt, rec, st, lost, tty, relay, cancel>>
    BY DEF Kill, job
  <1>2. StepTo("wait", 1, w.allStopped, w.result, w.status, w.owned, w.next)
    BY DEF Kill, TypeOK, WType, StepTo, Pcs
  <1>3. CASE w.owned = {} /\ UNCHANGED <<kern, code, pend, report, ghost, budget>>
    <2>1. TypeOK'
      BY <1>1, <1>2, <1>3 DEF TypeOK, StepTo
    <2>2. MemberInv'
      BY <1>1, <1>3 DEF MemberInv
    <2>3. OwnershipInv'
      BY <1>1, <1>2, <1>3 DEF OwnershipInv, StepTo
    <2>4. LoopInv'
      BY <1>1, <1>2, <1>3 DEF LoopInv, StepTo, Members
    <2>5. LostInv'
      BY <1>1, <1>2, <1>3 DEF LostInv, IsComplete, Owned, StepTo
    <2>6. ResultInv'
      BY <1>1, <1>2, <1>3 DEF ResultInv, StepTo
    <2>7. TerminalInv'
      BY <1>1, <1>2, <1>3 DEF TerminalInv, StepTo
    <2>. QED  BY <2>1, <2>2, <2>3, <2>4, <2>5, <2>6, <2>7
  <1>0. w.owned # {} /\ ghost.stolen = {} => Unreaped
    BY <1>1 DEF TypeOK, WType, OwnershipInv, Unreaped, Members
  <1>4. CASE /\ w.owned # {} /\ NoteSignal /\ pend' = {} /\ report' = {} /\ UNCHANGED budget
             /\ kern' = [m \in Members |-> IF kern[m] \in {"run", "stopped"} THEN "zombie" ELSE kern[m]]
             /\ code' = [m \in Members |-> IF kern[m] \in {"run", "stopped"} THEN 1 ELSE code[m]]
    <2>1. ghost' \in Ghosts /\ ghost'.stolen = ghost.stolen /\ ghost'.left = ghost.left
          /\ ghost'.reclaim = ghost.reclaim /\ ghost'.handoff = ghost.handoff
          /\ (Unreaped /\ ~ ghost.unsafe => ~ ghost'.unsafe)
      BY <1>4, NoteSignalType DEF TypeOK
    <2>2. ghost.stolen = {} => Unreaped
      BY <1>0, <1>4
    <2>3. \A m \in Members : kern'[m] = "gone" <=> kern[m] = "gone"
      BY <1>4 DEF TypeOK
    <2>4. \A m \in Members : kern[m] = "gone" => code'[m] = code[m]
      BY <1>4 DEF TypeOK
    <2>5. TypeOK'
      BY <1>1, <1>2, <1>4, <2>1 DEF TypeOK, StepTo, Codes
    <2>6. MemberInv'
      BY <1>1, <1>4, <2>1 DEF TypeOK, MemberInv
    <2>7. OwnershipInv'
      BY <1>1, <1>2, <2>1, <2>2, <2>3 DEF TypeOK, OwnershipInv, StepTo
    <2>8. LoopInv'
      BY <1>1, <1>2, <2>1, <2>3 DEF LoopInv, StepTo, Members
    <2>9. LostInv'
      BY <1>1, <1>2, <2>1 DEF LostInv, IsComplete, Owned, StepTo
    <2>10. ResultInv'
      BY <1>1, <1>2, <1>4 DEF TypeOK, ResultInv, StepTo
    <2>11. TerminalInv'
      BY <1>1, <1>2, <2>1 DEF TerminalInv, StepTo
    <2>. QED  BY <2>5, <2>6, <2>7, <2>8, <2>9, <2>10, <2>11
  <1>5. CASE /\ w.owned # {} /\ Failing("kill") /\ UNCHANGED <<kern, code, pend, report>>
             /\ ghost' = [ghost EXCEPT !.alive = TRUE, !.unsafe = @ \/ ~ Unreaped]
    <2>1. ghost' \in Ghosts /\ ghost'.stolen = ghost.stolen /\ ghost'.left = ghost.left
          /\ ghost'.reclaim = ghost.reclaim /\ ghost'.handoff = ghost.handoff
          /\ (Unreaped /\ ~ ghost.unsafe => ~ ghost'.unsafe)
      BY <1>5 DEF TypeOK, Ghosts
    <2>2. TypeOK'
      BY <1>1, <1>2, <1>5, <2>1, FailingType DEF TypeOK, StepTo
    <2>3. MemberInv'
      BY <1>1, <1>5, <2>1 DEF MemberInv
    <2>4. OwnershipInv'
      BY <1>0, <1>1, <1>2, <1>5, <2>1 DEF OwnershipInv, StepTo
    <2>5. LoopInv'
      BY <1>1, <1>2, <1>5, <2>1 DEF LoopInv, StepTo, Members
    <2>6. LostInv'
      BY <1>1, <1>2, <2>1 DEF LostInv, IsComplete, Owned, StepTo
    <2>7. ResultInv'
      BY <1>1, <1>2, <1>5, <2>1 DEF ResultInv, StepTo
    <2>8. TerminalInv'
      BY <1>1, <1>2, <2>1 DEF TerminalInv, StepTo
    <2>. QED  BY <2>2, <2>3, <2>4, <2>5, <2>6, <2>7, <2>8
  <1>. QED  BY <1>3, <1>4, <1>5 DEF Kill, kernel

\* A member past which the loop went is gone, or waitpid failed for it.
LEMMA WaitStep ==
    ASSUME IInv, NEW m \in Members, Wait(m), UNCHANGED opt
    PROVE  IInv'
  <1>. USE ParametersAssumption DEF IInv
  <1>1. w.pc = "wait" /\ w.i = m
        /\ UNCHANGED <<opt, code, pend, report, rec, st, lost, tty, relay, cancel>>
    BY DEF Wait, job
  <1>2. StepTo("wait", w.i + 1, w.allStopped, w.result, w.status, w.owned, w.next)
    BY <1>1 DEF Wait, TypeOK, WType, StepTo
  <1>3. \/ kern' = [kern EXCEPT ![m] = IF m \in w.owned THEN "gone" ELSE @] /\ UNCHANGED <<budget, ghost>>
        \/ UNCHANGED kern /\ Failing("wait") /\ ghost' = [ghost EXCEPT !.left = @ \cup {m}]
    BY DEF Wait
  <1>4. /\ budget' \in Budgets /\ ghost' \in Ghosts /\ ghost.left \subseteq ghost'.left
        /\ ghost'.stolen = ghost.stolen /\ ghost'.unsafe = ghost.unsafe
        /\ ghost'.reclaim = ghost.reclaim /\ ghost'.handoff = ghost.handoff
    <2>1. CASE UNCHANGED <<budget, ghost>>
      BY <2>1 DEF TypeOK
    <2>2. CASE Failing("wait") /\ ghost' = [ghost EXCEPT !.left = @ \cup {m}]
      BY <2>2, FailingType, GhostTypes DEF TypeOK, Ghosts
    <2>. QED  BY <1>3, <2>1, <2>2
  <1>5. kern'[m] = "gone" \/ m \in ghost'.left
    <2>1. CASE kern' = [kern EXCEPT ![m] = IF m \in w.owned THEN "gone" ELSE @] /\ UNCHANGED ghost
      BY <1>1, <2>1 DEF TypeOK, LoopInv
    <2>2. CASE ghost' = [ghost EXCEPT !.left = @ \cup {m}]
      BY <2>2 DEF TypeOK, Ghosts
    <2>. QED  BY <1>3, <2>1, <2>2
  <1>6. /\ kern'[m] = kern[m] \/ kern'[m] = "gone"
        /\ \A x \in Members : x # m => kern'[x] = kern[x]
    BY <1>3 DEF TypeOK
  <1>7. TypeOK'
    BY <1>1, <1>2, <1>3, <1>4 DEF TypeOK, StepTo
  <1>8. MemberInv'
    BY <1>1, <1>4, <1>6 DEF MemberInv
  <1>9. OwnershipInv'
    BY <1>1, <1>2, <1>4 DEF OwnershipInv, StepTo
  <1>10. LoopInv'
    BY <1>1, <1>2, <1>4, <1>5, <1>6 DEF LoopInv, StepTo, Members
  <1>11. LostInv'
    BY <1>1, <1>2 DEF LostInv, IsComplete, Owned, StepTo
  <1>12. ResultInv'
    BY <1>1, <1>2, <1>4, <1>6 DEF ResultInv, StepTo
  <1>13. TerminalInv'
    BY <1>1, <1>2, <1>4 DEF TerminalInv, StepTo
  <1>. QED  BY <1>7, <1>8, <1>9, <1>10, <1>11, <1>12, <1>13

\* Every member has been waited for, was already gone, or is left.
LEMMA ClearedStep ==
    ASSUME IInv, Cleared, UNCHANGED opt
    PROVE  IInv'
  <1>. USE ParametersAssumption DEF IInv
  <1>1. w.pc = "wait" /\ w.i = N + 1 /\ relay' = "joined" /\ rec' = [m \in Members |-> "relinquished"]
        /\ UNCHANGED <<opt, kern, code, pend, report, st, lost, tty, cancel, budget, ghost>>
    BY DEF Cleared, kernel
  <1>2. w.next \in Pcs /\ w.next \in {"reclaim", "over"}
    BY DEF TypeOK, WType, Pcs
  <1>3. StepTo(w.next, w.i, w.allStopped, w.result, w.status, w.owned, w.next)
    BY <1>2 DEF Cleared, Go, TypeOK, WType, StepTo
  <1>4. \A m \in Members : kern[m] = "gone" \/ m \in ghost.left
    BY <1>1 DEF LoopInv, Members
  <1>5. w.next = "reclaim" => w.result = "cancelled"
    BY <1>1 DEF ResultInv
  <1>6. TypeOK'
    BY <1>1, <1>3 DEF TypeOK, StepTo
  <1>7. MemberInv'
    BY <1>1, <1>4 DEF MemberInv
  <1>8. OwnershipInv'
    BY <1>1, <1>2, <1>3 DEF OwnershipInv, Owned, StepTo
  <1>9. LoopInv'
    BY <1>2, <1>3 DEF LoopInv, StepTo
  <1>10. LostInv'
    BY <1>1, <1>2, <1>3, <1>5 DEF LostInv, IsComplete, Owned, StepTo
  <1>11. ResultInv'
    BY <1>1, <1>2, <1>3, <1>4, TrueResultSame DEF ResultInv, StepTo
  <1>12. TerminalInv'
    BY <1>1, <1>2, <1>3 DEF TerminalInv, StepTo
  <1>. QED  BY <1>6, <1>7, <1>8, <1>9, <1>10, <1>11, <1>12

LEMMA LeastNatural ==
    ASSUME NEW T, T \subseteq Nat, T # {}
    PROVE  \E x \in T : \A y \in T : x <= y
  <1>1. PICK x \in T : \A y \in T : ~ (<<y, x>> \in OpToRel(<, Nat))
    BY NatLessThanWellFounded, WFMin
  <1>2. \A y \in T : ~ (y < x)
    BY <1>1 DEF OpToRel
  <1>. QED  BY <1>2

LEMMA GreatestMember ==
    ASSUME NEW S, S \subseteq 1 .. N, S # {}
    PROVE  \E x \in S : \A y \in S : y <= x
  <1>. USE ParametersAssumption
  <1>. DEFINE T == {N - x : x \in S}
  <1>1. \A x \in S : N - x \in Nat
    OBVIOUS
  <1>2. T \subseteq Nat
    BY <1>1
  <1>3. T # {}
    OBVIOUS
  <1>4. PICK t \in T : \A y \in T : t <= y
    BY <1>2, <1>3, LeastNatural
  <1>5. PICK x \in S : t = N - x
    OBVIOUS
  <1>6. \A y \in S : N - x <= N - y
    BY <1>4, <1>5
  <1>. QED  BY <1>6

\* The loop reaped every member itself: its records are the true statuses.
LEMMA ResultIsTrue ==
    ASSUME TypeOK, \A m \in Members : rec[m] = "reaped" /\ st[m] = code[m]
    PROVE  Result = TrueResult
  <1>1. st = code /\ \A m \in Members : Has(m)
    BY DEF TypeOK, Has
  <1>2. N \in Members
    BY ParametersAssumption DEF Members
  <1>. DEFINE seen == {m \in Members : Has(m) /\ st[m] # 0}
              bad  == {m \in Members : code[m] # 0}
              a    == CHOOSE m \in seen : \A x \in seen : x <= m
              b    == CHOOSE m \in bad : \A x \in bad : x <= m
  <1>3. seen = bad
    BY <1>1
  <1>4. bad = {} => code[N] = 0
    BY <1>2
  <1>5. bad # {} => a = b
    <2>1. HAVE bad # {}
    <2>2. \E m \in bad : \A x \in bad : x <= m
      BY <2>1, GreatestMember DEF Members
    <2>3. b \in bad /\ \A x \in bad : x <= b
      BY <2>2
    <2>4. \E m \in seen : \A x \in seen : x <= m
      BY <2>2, <1>3
    <2>5. a \in seen /\ \A x \in seen : x <= a
      BY <2>4
    <2>. HIDE DEF a, b
    <2>6. a \in bad /\ a <= b /\ b <= a
      BY <2>3, <2>5, <1>3
    <2>7. a \in Nat /\ b \in Nat
      BY <2>3, <2>6 DEF Members
    <2>. QED  BY <2>6, <2>7
  <1>6. Result = LET picked == IF opt.pipefail /\ seen # {} THEN st[a] ELSE st[N]
                 IN  IF opt.inverted THEN (IF picked = 0 THEN 1 ELSE 0) ELSE picked
    BY <1>1, <1>2 DEF Result
  <1>7. TrueResult = LET picked == IF ~ opt.pipefail THEN code[N] ELSE IF bad = {} THEN 0 ELSE code[b]
                     IN  IF opt.inverted THEN (IF picked = 0 THEN 1 ELSE 0) ELSE picked
    BY DEF TrueResult
  <1>. HIDE DEF seen, bad, a, b
  <1>. QED  BY <1>1, <1>3, <1>4, <1>5, <1>6, <1>7

LEMMA JoinStep ==
    ASSUME IInv, Join, UNCHANGED opt
    PROVE  IInv'
  <1>. USE ParametersAssumption DEF IInv
  <1>1. w.pc = "reap" /\ w.i = N + 1 /\ relay' = "joined"
        /\ UNCHANGED <<opt, kern, code, pend, report, rec, st, lost, tty, cancel, budget, ghost>>
    BY DEF Join, kernel, job
  <1>2. IsComplete
    BY <1>1 DEF LoopInv, IsComplete, Members
  <1>3. CASE lost \/ relay = "broken"
    <2>1. StepTo("failed", w.i, w.allStopped, "error", w.status, w.owned, w.next)
      BY <1>3 DEF Join, TypeOK, WType, StepTo, Pcs, Results
    <2>2. TypeOK'
      BY <1>1, <2>1 DEF TypeOK, StepTo
    <2>3. MemberInv'
      BY <1>1 DEF MemberInv
    <2>4. OwnershipInv'
      BY <1>1, <2>1 DEF OwnershipInv, Owned, StepTo
    <2>5. LoopInv' /\ LostInv'
      BY <1>1, <1>3, <2>1 DEF LoopInv, LostInv, IsComplete, StepTo
    <2>6. ResultInv' /\ TerminalInv'
      BY <1>1, <2>1 DEF ResultInv, TerminalInv, StepTo
    <2>. QED  BY <2>2, <2>3, <2>4, <2>5, <2>6
  <1>4. CASE ~ (lost \/ relay = "broken")
    <2>1. \A m \in Members : rec[m] = "reaped" /\ st[m] = code[m] /\ kern[m] = "gone" /\ m \notin ghost.stolen
      <3>1. \A m \in Members : rec[m] # "relinquished"
        BY <1>1, <1>4 DEF LostInv
      <3>2. \A m \in Members : rec[m] = "reaped"
        BY <1>2, <3>1 DEF IsComplete, Owned, TypeOK
      <3>. QED  BY <3>2 DEF MemberInv
    <2>2. ghost.stolen = {}
      BY <2>1 DEF TypeOK, Ghosts
    <2>3. Result = TrueResult
      BY <2>1, ResultIsTrue
    <2>4. Result \in Codes
      <3>1. \A m \in Members : st[m] \in Codes
        BY DEF TypeOK
      <3>2. N \in Members /\ 0 \in Codes /\ 1 \in Codes
        BY DEF Members, Codes
      <3>. DEFINE bad == {m \in Members : Has(m) /\ st[m] # 0}
      <3>3. bad # {} => \E m \in bad : \A x \in bad : x <= m
        BY GreatestMember DEF Members
      <3>4. bad # {} => (CHOOSE m \in bad : \A x \in bad : x <= m) \in Members
        BY <3>3
      <3>. QED  BY <3>1, <3>2, <3>4 DEF Result
    <2>5. StepTo("reclaim", w.i, w.allStopped, "status", Result, w.owned, w.next)
      BY <1>4, <2>4 DEF Join, TypeOK, WType, StepTo, Pcs, Results
    <2>6. TypeOK'
      BY <1>1, <2>5 DEF TypeOK, StepTo
    <2>7. MemberInv'
      BY <1>1 DEF MemberInv
    <2>8. OwnershipInv'
      BY <1>1, <2>5 DEF OwnershipInv, Owned, StepTo
    <2>9. LoopInv' /\ LostInv'
      BY <1>1, <2>1, <2>5 DEF LoopInv, LostInv, StepTo
    <2>10. ResultInv'
      BY <1>1, <2>1, <2>2, <2>3, <2>5, TrueResultSame DEF ResultInv, StepTo
    <2>11. TerminalInv'
      BY <1>1, <2>5 DEF TerminalInv, StepTo
    <2>. QED  BY <2>6, <2>7, <2>8, <2>9, <2>10, <2>11
  <1>. QED  BY <1>3, <1>4
-----------------------------------------------------------------------------
LEMMA InitInv == ASSUME Init PROVE IInv
  <1>. USE ParametersAssumption
  <1>1. TypeOK
    <2>1. w \in WType
      BY DEF Init, WType, Pcs, Results, Codes
    <2>2. ghost \in Ghosts /\ budget \in Budgets
      BY DEF Init, Ghosts, Budgets
    <2>3. opt \in [pipefail : BOOLEAN, inverted : BOOLEAN, converged : BOOLEAN]
      BY DEF Init
    <2>4. kern \in [Members -> {"run", "stopped", "zombie", "gone"}] /\ code \in [Members -> Codes]
          /\ rec \in [Members -> {"running", "stopped", "exited", "reaped", "relinquished"}]
          /\ st \in [Members -> Codes]
      BY DEF Init, Codes
    <2>5. lost \in BOOLEAN /\ cancel \in BOOLEAN
      BY DEF Init
    <2>6. tty \in {"shell", "job"} /\ relay \in {"open", "eof", "broken", "joined"}
      BY DEF Init
    <2>. QED  BY <2>1, <2>2, <2>3, <2>4, <2>5, <2>6 DEF Init, TypeOK
  <1>2. MemberInv /\ OwnershipInv
    BY <1>1 DEF Init, TypeOK, MemberInv, OwnershipInv, Owned
  <1>3. LoopInv /\ LostInv
    BY DEF Init, LoopInv, LostInv
  <1>4. ResultInv /\ TerminalInv
    BY DEF Init, ResultInv, TerminalInv
  <1>. QED  BY <1>1, <1>2, <1>3, <1>4 DEF IInv

LEMMA StutterInv == ASSUME IInv, UNCHANGED vars PROVE IInv'
  <1>1. TypeOK' /\ MemberInv' /\ OwnershipInv' /\ LoopInv'
    BY DEF IInv, vars, TypeOK, MemberInv, OwnershipInv, LoopInv, Owned
  <1>2. LostInv' /\ TerminalInv'
    BY DEF IInv, vars, LostInv, TerminalInv, IsComplete, Owned
  <1>3. ResultInv'
    BY TrueResultSame DEF IInv, vars, ResultInv
  <1>. QED  BY <1>1, <1>2, <1>3 DEF IInv

LEMMA NextInv == ASSUME IInv, Next PROVE IInv'
  <1>. USE DEF Next
  <1>1. CASE World
    BY <1>1, ExitStep, StopStep, KilledStep, StealStep, CancelStep, RelayBreaksStep DEF World
  <1>2. CASE Waiter
    <2>1. CASE \E m \in Members : Look(m) \/ Consume(m) \/ Reap(m) \/ Ask(m) \/ Check(m) \/ Wait(m)
      BY <2>1, LookStep, ConsumeStep, ReapStep, AskStep, CheckStep, WaitStep
    <2>2. CASE Handoff \/ Pass \/ Decide \/ Drain \/ Join \/ Failed
      BY <2>2, HandoffStep, PassStep, DecideStep, DrainStep, JoinStep, FailedStep
    <2>3. CASE Reclaim \/ Return \/ NothingLeft \/ Continue \/ Kill \/ Cleared
      BY <2>3, ReclaimStep, ReturnStep, NothingLeftStep, ContinueStep, KillStep, ClearedStep
    <2>. QED  BY <1>2, <2>1, <2>2, <2>3 DEF Waiter
  <1>3. CASE RelayEof \/ Resume \/ Abandon
    BY <1>3, RelayEofStep, ResumeStep, AbandonStep
  <1>. QED  BY <1>1, <1>2, <1>3

\* The invariant holds in every reachable state.
THEOREM Inductive == Spec => []IInv
  <1>1. Init => IInv
    BY InitInv
  <1>2. IInv /\ [Next]_vars => IInv'
    BY NextInv, StutterInv
  <1>. QED  BY <1>1, <1>2, PTL DEF Spec

\* Every group signal finds an unreaped member as long as only the shell reaps
\* (StopGroup, ContinueGroup and the kill in terminate).
THEOREM SignalsSafe == Spec => []GroupSignalsSafe
  <1>1. IInv => GroupSignalsSafe
    BY DEF IInv, OwnershipInv, GroupSignalsSafe
  <1>. QED  BY <1>1, Inductive, PTL

\* A job that is over is entirely reaped but for members a failing call of
\* terminate left, its relays joined, and a reported
\* status is the one its members' true statuses call for.
THEOREM ResultsExact == Spec => []ResultExact
  <1>1. IInv => ResultExact
    BY DEF IInv, ResultInv, ResultExact
  <1>. QED  BY <1>1, Inductive, PTL

\* A reported stop is a stop of every member, and the prompt owns the terminal
\* unless tcsetpgrp itself failed.
THEOREM StopsStable == Spec => []StableStop
  <1>1. IInv => StableStop
    BY DEF IInv, ResultInv, TerminalInv, StableStop
  <1>. QED  BY <1>1, Inductive, PTL
=============================================================================
