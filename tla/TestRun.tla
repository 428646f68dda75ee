------------------------------ MODULE TestRun ------------------------------
(***************************************************************************)
(* What the runs of a smoke test in a workspace promise to whoever asks    *)
(* for one - a person, `ys`, a workflow, a schedule - and reads its row:   *)
(* one at a time; nothing is carried out before it was let; a verdict is   *)
(* given when nothing of the run is alive any more, and stands until the   *)
(* row is pruned (crates/core/src/store/smoke.rs, seen from outside).      *)
(*                                                                         *)
(* Smoke implements it.  Schedule is built on it.                          *)
(***************************************************************************)
CONSTANT Runs

VARIABLES
    status,   \* the row of a run; "gone": it was pruned
    alive     \* whether a process of the run is there

Active == {"awaiting_approval", "queued", "running"}
Verdicts == {"passed", "failed", "cancelled", "errored"}
Final == Verdicts \cup {"refused"}
Statuses == {"none", "gone"} \cup Active \cup Final

Becomes(r, s) == status' = [status EXCEPT ![r] = s]

\* One is asked for, when none is going.
Ask(r, s) ==
    /\ status[r] = "none" /\ \A q \in Runs : status[q] \notin Active
    /\ Becomes(r, s) /\ UNCHANGED alive

Answer(r) ==
    /\ status[r] = "awaiting_approval"
    /\ \E s \in {"queued", "refused"} : Becomes(r, s)
    /\ UNCHANGED alive

\* One that has not begun is called off.
CallOff(r) ==
    /\ status[r] \in {"awaiting_approval", "queued"}
    /\ Becomes(r, "cancelled") /\ UNCHANGED alive

Begin(r) == status[r] = "queued" /\ Becomes(r, "running") /\ UNCHANGED alive
Work(r) == status[r] = "running" /\ alive' = [alive EXCEPT ![r] = TRUE] /\ UNCHANGED status
Rest(r) == alive' = [alive EXCEPT ![r] = FALSE] /\ UNCHANGED status

End(r) ==
    /\ status[r] = "running" /\ ~ alive[r]
    /\ \E s \in Verdicts : Becomes(r, s)
    /\ UNCHANGED alive

\* The app, started again, finds runs that were going when it stopped.  What they left alive is
\* dealt with afterwards.
Interrupt(rs) ==
    /\ \A r \in rs : status[r] = "running"
    /\ status' = [r \in Runs |-> IF r \in rs THEN "errored" ELSE status[r]]
    /\ UNCHANGED alive

Go(r) == status[r] \in Final /\ Becomes(r, "gone") /\ UNCHANGED alive

Init == status = [r \in Runs |-> "none"] /\ alive = [r \in Runs |-> FALSE]

Next ==
    \/ \E r \in Runs :
          \/ \E s \in {"awaiting_approval", "queued"} : Ask(r, s)
          \/ Answer(r) \/ CallOff(r) \/ Begin(r) \/ Work(r) \/ Rest(r) \/ End(r) \/ Go(r)
    \/ \E rs \in SUBSET Runs : Interrupt(rs)

Spec == Init /\ [][Next]_<<status, alive>>
=============================================================================
