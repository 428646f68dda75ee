----------------------------- MODULE MCWorkflow -----------------------------
(***************************************************************************)
(* Small instances of Workflow for TLC.  Review and PrThenNotify are parts *)
(* of the built-in "Request code review", SmokeThenTell is the built-in of *)
(* that name (crates/core/src/workflow/builtin), and in TwoMessages two    *)
(* steps have a message for one agent.                                     *)
(***************************************************************************)
EXTENDS Workflow

Do(action, needs) ==
    [needs |-> needs, action |-> action, session |-> 0, until |-> "settled", timeout |-> FALSE]

With(action, needs, session) ==
    [needs |-> needs, action |-> action, session |-> session, until |-> "settled",
     timeout |-> TRUE]

Review == <<Do("start_session", {}), With("wait_session", {1}, 1)>>

PrThenNotify ==
    <<Do("notify", {2, 3}), With("wait_pr_activity", {}, 0), Do("notify", {}), Do("notify", {})>>

SmokeThenTell == <<With("run_test", {}, 0), With("send_to_session", {1}, 0)>>

TwoMessages == <<Do("send_to_session", {}), Do("send_to_session", {})>>

All == {Review, PrThenNotify, SmokeThenTell, TwoMessages}
=============================================================================
