--------------------------- MODULE QuarantineBatch ---------------------------
(***************************************************************************)
(* Session::remove_batch of crates/fdu-posix/src/quarantine.rs: several    *)
(* retirements that share a parent, with grouped journal writes and syncs. *)
(* It runs inside a session of Quarantine; while a batch is in progress    *)
(* the owning process stays at program counter "ready".                    *)
(***************************************************************************)
EXTENDS Quarantine, Sequences, TLC

VARIABLES
    batch,      \* per process: the call in progress
    botched     \* captured strangers whose restoration failed

bvars == <<fs, disk, moved, lock, ps, budget, batch, botched>>

Phases == {"none", "prep", "prepsync", "publish", "authorize", "capture", "capsync",
           "verify", "unlink", "rmsync", "clear", "clrsync"}
Outcomes == {"none", "removed", "absent", "changed", "error", "removed_error"}

NoBatch == [phase |-> "none", reqs |-> <<>>, todo |-> {}, prepared |-> {},
            published |-> {}, captured |-> {}, unlinked |-> {},
            out |-> [e \in E |-> "none"]]

In(p, ph) == At(p, "ready") /\ batch[p].phase = ph
\* The loops of remove_batch visit entries in the order of their identifiers.
First(p, e) == e \in batch[p].todo /\ \A g \in batch[p].todo : e[2] <= g[2]
Phase(p, ph, S) == [batch EXCEPT ![p].phase = ph, ![p].todo = S]
Return(p) == [batch EXCEPT ![p].phase = "none", ![p].todo = {}]
Rest == <<moved, lock, botched>>
-----------------------------------------------------------------------------
(* Journal phase.                                                          *)

\* Requests carry the identity the scan saw; ancestry is checked once.
RemoveBatch(p, names) ==
    /\ In(p, "none") /\ RequireOwner(p) /\ ~moved
    /\ \A k \in DOMAIN names : fs.at[names[k]] # None
    /\ ps[p].next + Len(names) <= MaxId + 1
    /\ batch' = [batch EXCEPT ![p] =
                   [NoBatch EXCEPT !.phase = "prep",
                      !.reqs = [k \in DOMAIN names |->
                                  [name |-> names[k], expect |-> fs.at[names[k]]]]]]
    /\ UNCHANGED <<fs, disk, ps, budget>> /\ UNCHANGED Rest

\* One request: skip what is absent or changed, journal the rest.
Prepare(p) ==
    LET r == Head(batch[p].reqs)
        e == <<ps[p].s, ps[p].next>>
    IN  /\ In(p, "prep") /\ batch[p].reqs # <<>>
        /\ \/ /\ fs.at[r.name] # r.expect
              /\ batch' = [batch EXCEPT ![p].reqs = Tail(@)]
              /\ UNCHANGED <<fs, disk, ps>>
           \/ /\ fs.at[r.name] = r.expect
              /\ Put([fs EXCEPT !.rec[e] = [st |-> "pend", data |-> "cached"],
                                !.intent[e] = [NoIntent EXCEPT !.name = r.name, !.expect = r.expect]])
              /\ ps' = [ps EXCEPT ![p].next = @ + 1, ![p].e = e]
              /\ batch' = [batch EXCEPT ![p].reqs = Tail(@), ![p].phase = "prepsync"]
        /\ UNCHANGED budget /\ UNCHANGED Rest

PrepareSync(p) ==
    /\ In(p, "prepsync")
    /\ fs' = [fs EXCEPT !.rec[ps[p].e].data = "durable"]
    /\ disk' = {fs'}
    /\ batch' = [batch EXCEPT ![p].prepared = @ \cup {ps[p].e}, ![p].phase = "prep"]
    /\ UNCHANGED <<ps, budget>> /\ UNCHANGED Rest

Prepared(p) ==
    /\ In(p, "prep") /\ batch[p].reqs = <<>>
    /\ batch' = IF batch[p].prepared = {} THEN Return(p)
                ELSE Phase(p, "publish", batch[p].prepared)
    /\ UNCHANGED <<fs, disk, ps, budget>> /\ UNCHANGED Rest

Publish(p, e) ==
    /\ In(p, "publish") /\ First(p, e)
    /\ Put([fs EXCEPT !.rec[e].st = "pub"])
    /\ batch' = [batch EXCEPT ![p].todo = @ \ {e}, ![p].published = @ \cup {e}]
    /\ UNCHANGED <<ps, budget>> /\ UNCHANGED Rest

NonePublished(p) ==
    /\ In(p, "publish") /\ batch[p].todo = {} /\ batch[p].published = {}
    /\ batch' = Return(p)
    /\ UNCHANGED <<fs, disk, ps, budget>> /\ UNCHANGED Rest

\* The grouped synchronizations, with the phase that follows.
SyncPhase(p) ==
    /\ \/ /\ In(p, "publish") /\ batch[p].todo = {} /\ batch[p].published # {}
          /\ batch' = Phase(p, "authorize", {})
       \/ In(p, "capsync") /\ batch' = Phase(p, "verify", batch[p].captured)
       \/ In(p, "rmsync")  /\ batch' = Phase(p, "clear", batch[p].unlinked)
       \/ /\ In(p, "clrsync")
          /\ batch' = [Return(p) EXCEPT ![p].out =
                 [e \in E |-> IF e \in batch[p].unlinked /\ @[e] = "none" THEN "removed" ELSE @[e]]]
    /\ Commit
    /\ UNCHANGED <<ps, budget>> /\ UNCHANGED Rest
-----------------------------------------------------------------------------
(* Capture, verification, removal.                                         *)

\* IntentPublished and BeforeCapture, and the ancestry once more.
Authorize(p) ==
    /\ In(p, "authorize") /\ ~moved
    /\ batch' = Phase(p, "capture", batch[p].published)
    /\ UNCHANGED <<fs, disk, ps, budget>> /\ UNCHANGED Rest

BatchCapture(p, e) ==
    LET n == fs.intent[e].name
    IN  /\ In(p, "capture") /\ First(p, e)
        /\ \/ /\ fs.at[n] # None
              /\ Put(Move(fs, n, e))
              /\ batch' = [batch EXCEPT ![p].todo = @ \ {e}, ![p].captured = @ \cup {e}]
           \/ /\ fs.at[n] = None
              /\ batch' = [batch EXCEPT ![p].todo = @ \ {e}, ![p].out[e] = "absent"]
              /\ UNCHANGED <<fs, disk>>
        /\ UNCHANGED <<ps, budget>> /\ UNCHANGED Rest

\* Mutant: every prepared record is discarded, captured or not.
DiscardAll(p) ==
    LET loose == batch[p].prepared
    IN  /\ In(p, "capture") /\ batch[p].todo = {}
        /\ Put([fs EXCEPT !.rec = [e \in E |-> IF e \in loose THEN NoFile ELSE @[e]]])
        /\ batch' = IF batch[p].captured = {} THEN Return(p) ELSE Phase(p, "capsync", {})
        /\ UNCHANGED <<ps, budget>> /\ UNCHANGED Rest

\* Records of entries that were not captured go away.
Discard(p) ==
    LET loose == batch[p].prepared \ batch[p].captured
    IN  /\ In(p, "capture") /\ batch[p].todo = {}
        /\ Put([fs EXCEPT !.rec = [e \in E |-> IF e \in loose THEN NoFile ELSE @[e]],
                          !.intent = [e \in E |-> IF e \in loose THEN NoIntent ELSE @[e]]])
        /\ batch' = IF batch[p].captured = {} THEN Return(p) ELSE Phase(p, "capsync", {})
        /\ UNCHANGED <<ps, budget>> /\ UNCHANGED Rest

\* restore() of one entry as one step: back to its name, record cleared.
RestoreOK(e) == fs.at[e] # None /\ fs.at[fs.intent[e].name] = None
Restored(e) == [Move(fs, e, fs.intent[e].name) EXCEPT !.rec[e] = NoFile, !.intent[e] = NoIntent]

\* An entry that is not the expected object is put back. When the name is
\* taken the entry stays in the captured set that the unlink loop walks.
BatchVerify(p, e) ==
    /\ In(p, "verify") /\ First(p, e)
    /\ \/ /\ fs.at[e] = fs.intent[e].expect
          /\ batch' = [batch EXCEPT ![p].todo = @ \ {e}]
          /\ UNCHANGED <<fs, disk, ps, botched>>
       \/ /\ fs.at[e] # fs.intent[e].expect /\ RestoreOK(e)
          /\ fs' = Restored(e) /\ disk' = {fs'}
          /\ batch' = [batch EXCEPT ![p].todo = @ \ {e}, ![p].captured = @ \ {e},
                                    ![p].out[e] = "changed"]
          /\ UNCHANGED <<ps, botched>>
       \/ /\ fs.at[e] # fs.intent[e].expect /\ ~RestoreOK(e)
          /\ batch' = [batch EXCEPT ![p].todo = @ \ {e}, ![p].out[e] = "error"]
          /\ ps' = [ps EXCEPT ![p].recoveryRequired = TRUE]
          /\ botched' = botched \cup ({fs.at[e]} \ {None})
          /\ UNCHANGED <<fs, disk>>
    /\ UNCHANGED <<moved, lock, budget>>

\* BeforeUnlink.
AuthorizeUnlink(p) ==
    /\ In(p, "verify") /\ batch[p].todo = {}
    /\ batch' = Phase(p, "unlink", batch[p].captured)
    /\ UNCHANGED <<fs, disk, ps, budget>> /\ UNCHANGED Rest

BatchUnlink(p, e) ==
    /\ In(p, "unlink") /\ First(p, e)
    /\ Put([fs EXCEPT !.at[e] = None, !.retired = @ \cup {fs.intent[e].expect}])
    /\ batch' = [batch EXCEPT ![p].todo = @ \ {e}, ![p].unlinked = @ \cup {e}]
    /\ UNCHANGED <<ps, budget>> /\ UNCHANGED Rest

Unlinked(p) ==
    /\ In(p, "unlink") /\ batch[p].todo = {}
    /\ batch' = IF batch[p].unlinked = {} THEN Return(p) ELSE Phase(p, "rmsync", {})
    /\ UNCHANGED <<fs, disk, ps, budget>> /\ UNCHANGED Rest

BatchClear(p, e) ==
    /\ In(p, "clear") /\ First(p, e)
    /\ Put([fs EXCEPT !.rec[e] = NoFile, !.intent[e] = NoIntent])
    /\ batch' = [batch EXCEPT ![p].todo = @ \ {e}]
    /\ UNCHANGED <<ps, budget>> /\ UNCHANGED Rest

\* Mutant: the batch reports success before the session directory is synced.
ClearedUnsynced(p) ==
    /\ In(p, "clear") /\ batch[p].todo = {}
    /\ batch' = [Return(p) EXCEPT ![p].out =
          [e \in E |-> IF e \in batch[p].unlinked /\ @[e] = "none" THEN "removed" ELSE @[e]]]
    /\ UNCHANGED <<fs, disk, ps, budget>> /\ UNCHANGED Rest

Cleared(p) ==
    /\ In(p, "clear") /\ batch[p].todo = {}
    /\ batch' = Phase(p, "clrsync", {})
    /\ UNCHANGED <<fs, disk, ps, budget>> /\ UNCHANGED Rest
-----------------------------------------------------------------------------
(* Failing calls.                                                          *)

Mark(p, S, o) == [e \in E |-> IF e \in S THEN o ELSE batch[p].out[e]]

\* A pending record that could not be synced is removed again.
PrepareFail(p) ==
    /\ In(p, "prepsync") /\ Spend("fail")
    /\ Put([fs EXCEPT !.rec[ps[p].e] = NoFile, !.intent[ps[p].e] = NoIntent])
    /\ batch' = [batch EXCEPT ![p].phase = "prep"]
    /\ UNCHANGED <<ps, moved, lock, botched>>

\* A record that cannot be renamed into place is dropped with its request.
PublishFail(p, e) ==
    /\ In(p, "publish") /\ First(p, e) /\ Spend("fail")
    /\ Put([fs EXCEPT !.rec[e] = NoFile, !.intent[e] = NoIntent])
    /\ batch' = [batch EXCEPT ![p].todo = @ \ {e}, ![p].out[e] = "error"]
    /\ UNCHANGED <<ps, moved, lock, botched>>

\* An entry that cannot be renamed into the session stays where it is.
CaptureFail(p, e) ==
    /\ In(p, "capture") /\ First(p, e) /\ Spend("fail")
    /\ batch' = [batch EXCEPT ![p].todo = @ \ {e}, ![p].out[e] = "error"]
    /\ UNCHANGED <<fs, disk, ps, moved, lock, botched>>

\* abandon_batch_entries: publication sync failed, an authorization was
\* refused or the ancestry moved before anything was captured.
Abandon(p) ==
    LET gone == batch[p].prepared
    IN  /\ \/ /\ \/ In(p, "publish") /\ batch[p].todo = {} /\ batch[p].published # {}
                 \/ In(p, "authorize")
              /\ Spend("fail")
           \/ In(p, "authorize") /\ moved /\ UNCHANGED budget
        /\ fs' = [fs EXCEPT !.rec = [e \in E |-> IF e \in gone THEN NoFile ELSE @[e]],
                            !.intent = [e \in E |-> IF e \in gone THEN NoIntent ELSE @[e]]]
        /\ disk' = {fs'}
        /\ batch' = [Return(p) EXCEPT ![p].out = Mark(p, batch[p].published, "error")]
        /\ UNCHANGED <<ps, moved, lock, botched>>

\* restore_captured_batch, when the capture sync fails or BeforeUnlink refuses.
RestoreAll(p) ==
    LET back == {e \in batch[p].captured : RestoreOK(e)}
    IN  /\ In(p, "capsync") \/ (In(p, "verify") /\ batch[p].todo = {})
        /\ Spend("fail")
        /\ fs' = [fs EXCEPT
                    !.at = [x \in Slot |->
                              IF x \in back THEN None
                              ELSE IF \E e \in back : fs.intent[e].name = x
                                   THEN fs.at[CHOOSE e \in back : fs.intent[e].name = x]
                                   ELSE @[x]],
                    !.rec = [e \in E |-> IF e \in back THEN NoFile ELSE @[e]],
                    !.intent = [e \in E |-> IF e \in back THEN NoIntent ELSE @[e]]]
        /\ disk' = {fs'}
        /\ batch' = [Return(p) EXCEPT ![p].out = Mark(p, batch[p].captured, "error")]
        /\ ps' = [ps EXCEPT ![p].recoveryRequired = @ \/ back # batch[p].captured]
        /\ UNCHANGED <<moved, lock, botched>>

\* One unlink fails: that entry is restored or flagged, the loop goes on.
UnlinkFail(p, e) ==
    /\ In(p, "unlink") /\ First(p, e) /\ Spend("fail")
    /\ IF RestoreOK(e)
       THEN fs' = Restored(e) /\ disk' = {fs'} /\ UNCHANGED ps
       ELSE UNCHANGED <<fs, disk>> /\ ps' = [ps EXCEPT ![p].recoveryRequired = TRUE]
    /\ batch' = [batch EXCEPT ![p].todo = @ \ {e}, ![p].captured = @ \ {e}, ![p].out[e] = "error"]
    /\ UNCHANGED <<moved, lock, botched>>

\* The removal cannot be made durable, or its record cannot be cleared.
RemovedFail(p) ==
    /\ In(p, "rmsync") \/ In(p, "clrsync")
    /\ Spend("fail")
    /\ batch' = [Return(p) EXCEPT ![p].out = Mark(p, batch[p].unlinked, "removed_error")]
    /\ ps' = [ps EXCEPT ![p].recoveryRequired = @ \/ In(p, "rmsync")]
    /\ UNCHANGED <<fs, disk, moved, lock, botched>>

ClearFail(p, e) ==
    /\ In(p, "clear") /\ First(p, e) /\ Spend("fail")
    /\ batch' = [batch EXCEPT ![p].todo = @ \ {e}, ![p].out[e] = "removed_error"]
    /\ UNCHANGED <<fs, disk, ps, moved, lock, botched>>
-----------------------------------------------------------------------------
BatchStep(p) ==
    \/ \E k \in 1 .. Cardinality(Names) : \E names \in [1 .. k -> Names] :
         (\A i, j \in 1 .. k : i # j => names[i] # names[j]) /\ RemoveBatch(p, names)
    \/ Prepare(p) \/ PrepareSync(p) \/ Prepared(p) \/ NonePublished(p) \/ SyncPhase(p) \/ Authorize(p)
    \/ Discard(p) \/ AuthorizeUnlink(p) \/ Unlinked(p) \/ Cleared(p)
    \/ \E e \in E : \/ Publish(p, e) \/ BatchCapture(p, e) \/ BatchVerify(p, e)
                    \/ BatchUnlink(p, e) \/ BatchClear(p, e) \/ UnlinkFail(p, e) \/ ClearFail(p, e)
                    \/ PublishFail(p, e) \/ CaptureFail(p, e)
    \/ PrepareFail(p) \/ Abandon(p) \/ RestoreAll(p) \/ RemovedFail(p)

BatchInit == Init /\ batch = [p \in Procs |-> NoBatch] /\ botched = {}

BatchNext ==
    \/ \E p \in Procs : \/ BatchStep(p)
                        \/ batch[p].phase = "none" /\ Session(p) /\ UNCHANGED <<batch, botched>>
                        \/ Kill(p) /\ batch' = [batch EXCEPT ![p] = NoBatch] /\ UNCHANGED botched
    \/ Env /\ UNCHANGED <<batch, botched>>
    \/ PowerLoss /\ batch' = [p \in Procs |-> NoBatch] /\ UNCHANGED botched

BatchSpec == BatchInit /\ [][BatchNext]_bvars
-----------------------------------------------------------------------------
(* Safety.                                                                 *)

\* No object is lost, except a captured stranger whose restoration failed (the
\* removal loop unlinks it): all others stay reachable or were asked for by name
\* and identity, in every state a crash can expose, and what is captured has a
\* durable record in a durable session.
NothingElseLost ==
    /\ CapturesRecorded
    /\ \A f \in disk : Objs \subseteq Located(f) \cup f.unborn \cup f.dropped \cup f.retired \cup botched

\* An entry whose outcome is plain "removed" is durably gone, and an outcome
\* that says the entry was kept is not one whose object was unlinked.
BatchOutcomes ==
    \A p \in Procs : batch[p].phase = "none" =>
        \A e \in E :
            /\ batch[p].out[e] = "removed" => \A f \in disk : f.at[e] = None /\ f.rec[e].st = "none"
            /\ batch[p].out[e] \in {"absent", "changed"} => e \notin batch[p].unlinked
-----------------------------------------------------------------------------
(* Model checking.                                                         *)

Symmetric == Permutations(Objs) \cup Permutations(Names) \cup Permutations(Procs)
=============================================================================
