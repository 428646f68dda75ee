----------------------------- MODULE MCSchedule -----------------------------
(***************************************************************************)
(* Small instances of Schedule for TLC: one schedule of each kind.         *)
(***************************************************************************)
EXTENDS Schedule

Given(kind, missed, notify) == [kind |-> kind, missed |-> missed, notify |-> notify]

OfEachKind ==
    {Given("once", "skip", "always"), Given("every", "run_once", "failure"),
     Given("daily", "skip", "failure"), Given("unreadable", "run_once", "failure")}
=============================================================================
