------------------------------ MODULE Postorder ------------------------------
(***************************************************************************)
(* What the indexed scan promises about directories, whatever its threads  *)
(* do: a directory is announced as finished at most once, after every      *)
(* directory below it that was announced to be scanned, and as complete    *)
(* only if all of those were complete.                                     *)
(***************************************************************************)
CONSTANTS Directories, Origin, Up(_)   \* Up(d): the directory that holds d

VARIABLES known,    \* the directories taken up so far
          verdict   \* open, complete or incomplete

Init ==
    /\ known = {Origin}
    /\ verdict = [d \in Directories |-> "open"]

Below(d) == {e \in known \ {d} : Up(e) = d}

TakeUp(d) ==
    /\ d \notin known /\ Up(d) \in known /\ verdict[Up(d)] = "open"
    /\ known' = known \cup {d}
    /\ UNCHANGED verdict

Finish(d) ==
    /\ d \in known /\ verdict[d] = "open"
    /\ \A e \in Below(d) : verdict[e] # "open"
    /\ \E v \in {"complete", "incomplete"} :
          /\ (\E e \in Below(d) : verdict[e] = "incomplete") => v = "incomplete"
          /\ verdict' = [verdict EXCEPT ![d] = v]
    /\ UNCHANGED known

Next == \E d \in Directories : TakeUp(d) \/ Finish(d)

Spec == Init /\ [][Next]_<<known, verdict>>
=============================================================================
