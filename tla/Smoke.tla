------------------------------- MODULE Smoke -------------------------------
(***************************************************************************)
(* The runs of one smoke test in one workspace                             *)
(* (crates/core/src/smoke/runs.rs, runner.rs and exec.rs, and the rows of  *)
(* crates/core/src/store/smoke.rs).                                        *)
(*                                                                         *)
(* A run is rows: one for the run, one for each step.  `ys`, the app and a *)
(* schedule queue it; a person lets it run, answers its `manual` steps or  *)
(* calls it off; the driver, which the thread of the workflow driver       *)
(* ticks, starts a thread for each queued run, and that thread carries it  *)
(* out.  The app may stop at any moment; the processes of its runs do not  *)
(* stop with it.                                                           *)
(*                                                                         *)
(* A step of the model is one statement on the database, or what is done   *)
(* with the processes between two of them.                                 *)
(***************************************************************************)
EXTENDS Naturals, FiniteSets, Sequences

CONSTANTS
    Runs,
    Versions,       \* the texts the test file has over time
    Tests,          \* the test each of them is: its steps, in the order of the phases
    StoreMayFail    \* whether the database may refuse a statement, which it does once at most

Phases == {"setup", "steps", "teardown"}
Kinds == {"work", "start", "browser", "manual"}
StepDefs == [phase : Phases, kind : Kinds]
NoVersion == "no version"

Before(p, q) == <<p, q>> \in {<<"setup", "steps">>, <<"setup", "teardown">>, <<"steps", "teardown">>}

ASSUME SmokeAssumption ==
    /\ Tests \in [Versions -> Seq(StepDefs)]
    /\ NoVersion \notin Versions
    /\ StoreMayFail \in BOOLEAN
    /\ \A v \in Versions : \A i, j \in DOMAIN Tests[v] :
          Before(Tests[v][i].phase, Tests[v][j].phase) => i < j

VARIABLES
    file,         \* the version in the worktree
    place,        \* whether the workspace and its folder are there
    \* the database: a run's status, the version it was queued with, its steps, a cancel asked for
    \* while it ran; the versions approved, and the project's "ask every time"
    status, version, steps, cancel, approvals, every,
    shown,        \* the version the app showed when it queued this run, which it is about to approve
    \* the app, its driver, and the orphans the driver is about to kill
    app, recovered, orphans,
    \* a run's thread: where it is, the step it is on, how the phases went so far, how the step
    \* did, the servers it started and has not stopped, and whether its time limit has passed
    pc, at, end, out, servers, overdue,
    \* the processes, as <<run, step>>, and the ones whose pid is in the step's row
    procs, pids,
    \* histories: the versions a person agreed to, the runs a person has to agree to and has not,
    \* whether the app stopped while it killed orphans, and whether the database refused a
    \* statement ("ending": the one that says how a run ended)
    agreed, owed, cut, refused

rows == <<status, version, steps, cancel>>
settings == <<approvals, every>>
driver == <<app, recovered, orphans>>
thread == <<pc, at, end, out, servers, overdue>>
world == <<file, place, procs>>
histories == <<agreed, owed, cut, refused>>
vars == <<rows, settings, shown, driver, thread, world, pids, histories>>

Def(r) == Tests[version[r]]
Places(r) == DOMAIN steps[r]
Phase(r, i) == Def(r)[i].phase
Kind(r, i) == Def(r)[i].kind
Body(r) == {i \in Places(r) : Phase(r, i) # "teardown"}
Open == {"pending", "running", "waiting"}
StepStatuses == Open \cup {"passed", "failed", "skipped", "cancelled"}
Stops == {"cancelled", "timed out", "server"}

Active == {"awaiting_approval", "queued", "running"}
Final == {"passed", "failed", "cancelled", "errored", "refused"}

Becomes(r, s) == status' = [status EXCEPT ![r] = s]

Init ==
    /\ status = [r \in Runs |-> "none"]
    /\ file \in Versions /\ place = TRUE
    /\ version = [r \in Runs |-> NoVersion]
    /\ steps = [r \in Runs |-> <<>>]
    /\ cancel = [r \in Runs |-> FALSE]
    /\ approvals = {} /\ every \in BOOLEAN
    /\ shown = [r \in Runs |-> NoVersion]
    /\ app = TRUE /\ recovered = FALSE /\ orphans = {}
    /\ pc = [r \in Runs |-> "none"]
    /\ at = [r \in Runs |-> 1]
    /\ end = [r \in Runs |-> "passed"]
    /\ out = [r \in Runs |-> "passed"]
    /\ servers = [r \in Runs |-> {}]
    /\ overdue = {}
    /\ procs = {} /\ pids = {}
    /\ agreed = {} /\ owed = {} /\ cut = FALSE /\ refused = "no"

---------------------------------------------------------------------------
\* Bound: the file, the approvals and the setting change, and the place is lost, as long as a run
\* may look at them; one that began does not.
Undecided == \E r \in Runs : status[r] \in {"none", "awaiting_approval", "queued"}

\* Asking for a run, and answering.

\* queue: whether the version may run without being asked about
Approved(v) == v \in approvals /\ ~ every

\* queue_test_run: none is going in this workspace
Queued(r, s) ==
    /\ place
    /\ status[r] = "none" /\ \A q \in Runs : status[q] \notin Active
    /\ Becomes(r, s)
    /\ version' = [version EXCEPT ![r] = file]
    /\ steps' = [steps EXCEPT ![r] = [i \in DOMAIN Tests[file] |-> "pending"]]

\* A run that is queued while the project asks every time
Owes(r) == owed' = IF every THEN owed \cup {r} ELSE owed

\* queue, for `ys` or, with the version the person is shown, for the app (queue_seen)
Queue(r) ==
    /\ Queued(r, IF Approved(file) THEN "queued" ELSE "awaiting_approval")
    /\ Owes(r)
    /\ UNCHANGED <<cancel, settings, shown, driver, thread, world, pids, agreed, cut, refused>>

QueueSeen(r, v) ==
    /\ app
    /\ Queued(r, IF Approved(file) THEN "queued" ELSE "awaiting_approval")
    /\ shown' = [shown EXCEPT ![r] = v]
    /\ agreed' = agreed \cup {v}
    /\ IF v = file THEN UNCHANGED owed ELSE Owes(r)
    /\ UNCHANGED <<cancel, settings, driver, thread, world, pids, cut, refused>>

\* queue, for a workflow or a schedule: only what needs nobody
QueueUnattended(r) ==
    /\ Approved(file)
    /\ \A i \in DOMAIN Tests[file] : Tests[file][i].kind # "manual"
    /\ Queued(r, "queued")
    /\ Owes(r)
    /\ UNCHANGED <<cancel, settings, shown, driver, thread, world, pids, agreed, cut, refused>>

\* Store::approve_test_run
ApproveRun(r) ==
    /\ status[r] = "awaiting_approval"
    /\ Becomes(r, "queued")
    /\ approvals' = approvals \cup {version[r]}

\* (mutant) what is queued is taken to be what was shown
SeenAnyway(r) ==
    /\ shown[r] # NoVersion
    /\ IF status[r] = "awaiting_approval" THEN ApproveRun(r) ELSE UNCHANGED <<status, approvals>>
    /\ shown' = [shown EXCEPT ![r] = NoVersion]
    /\ UNCHANGED <<version, steps, cancel, every, driver, thread, world, pids, histories>>

\* queue_seen: the run that waits is approved if it is of the version that was shown
Seen(r) ==
    /\ shown[r] # NoVersion
    /\ IF status[r] = "awaiting_approval" /\ version[r] = shown[r]
       THEN ApproveRun(r) ELSE UNCHANGED <<status, approvals>>
    /\ shown' = [shown EXCEPT ![r] = NoVersion]
    /\ UNCHANGED <<version, steps, cancel, every, driver, thread, world, pids, histories>>

\* The person reads what a run that waits would do, and lets it
Approve(r) ==
    /\ app
    /\ ApproveRun(r)
    /\ agreed' = agreed \cup {version[r]}
    /\ owed' = owed \ {r}
    /\ UNCHANGED <<version, steps, cancel, every, shown, driver, thread, world, pids, cut, refused>>

\* approve_seen: a schedule is saved for a version that was shown
ApproveSeen(v) ==
    /\ app /\ place /\ v = file /\ Undecided
    /\ approvals' = approvals \cup {v}
    /\ agreed' = agreed \cup {v}
    /\ UNCHANGED <<rows, every, shown, driver, thread, world, pids, owed, cut,
                   refused>>

\* Store::refuse_test_run
Refuse(r) ==
    /\ app
    /\ status[r] = "awaiting_approval"
    /\ Becomes(r, "refused")
    /\ steps' = [steps EXCEPT ![r] = [i \in Places(r) |-> "skipped"]]
    /\ UNCHANGED <<version, cancel, settings, shown, driver, thread, world, pids, histories>>

\* Store::cancel_test_run, from the app or `ys`
CancelRun(r) ==
    /\ \/ /\ status[r] \in {"awaiting_approval", "queued"}
          /\ Becomes(r, "cancelled")
          /\ steps' = [steps EXCEPT ![r] = [i \in Places(r) |-> "cancelled"]]
          /\ UNCHANGED cancel
       \/ /\ status[r] = "running" /\ ~ cancel[r]
          /\ cancel' = [cancel EXCEPT ![r] = TRUE]
          /\ UNCHANGED <<status, steps>>
    /\ UNCHANGED <<version, settings, shown, driver, thread, world, pids, histories>>

\* Store::answer_test_step
AnswerStep(r, i) ==
    /\ app
    /\ status[r] = "running" /\ steps[r][i] = "waiting"
    /\ \E s \in {"passed", "failed"} : steps' = [steps EXCEPT ![r][i] = s]
    /\ UNCHANGED <<status, version, cancel, settings, shown, driver, thread, world, pids, histories>>

---------------------------------------------------------------------------
\* The driver.

\* The steps of a run that is given up, or was interrupted
GivenUp(r) ==
    [i \in Places(r) |-> CASE steps[r][i] \in {"running", "waiting"} -> "failed"
                           [] steps[r][i] = "pending"                -> "skipped"
                           [] OTHER                                  -> steps[r][i]]

\* (mutant) what they left alive is forgotten
RecoverRows ==
    LET rs == {r \in Runs : status[r] = "running"} IN
    /\ app /\ ~ recovered
    /\ recovered' = TRUE
    /\ status' = [r \in Runs |-> IF r \in rs THEN "errored" ELSE status[r]]
    /\ steps' = [r \in Runs |-> IF r \in rs THEN GivenUp(r) ELSE steps[r]]
    /\ UNCHANGED <<version, cancel, settings, shown, app, orphans, thread, world, pids, histories>>

\* end_interrupted_test_runs, once after the app started; refused, it is not tried again
Recover ==
    LET rs == {r \in Runs : status[r] = "running"} IN
    /\ app /\ ~ recovered
    /\ recovered' = TRUE
    /\ \/ /\ status' = [r \in Runs |-> IF r \in rs THEN "errored" ELSE status[r]]
          /\ steps' = [r \in Runs |-> IF r \in rs THEN GivenUp(r) ELSE steps[r]]
          /\ orphans' = {p \in pids : p[1] \in rs}
          /\ UNCHANGED refused
       \/ /\ StoreMayFail /\ refused = "no" /\ refused' = "ending"
          /\ UNCHANGED <<status, steps, orphans>>
    /\ UNCHANGED <<version, cancel, settings, shown, app, thread, world, pids, agreed, owed, cut>>

\* kill_orphan: by pid, if it is still the process that was started
KillOrphan(p) ==
    /\ app /\ p \in orphans
    /\ orphans' = orphans \ {p}
    /\ procs' = procs \ {p}
    /\ UNCHANGED <<rows, settings, shown, app, recovered, thread, file, place, pids,
                   histories>>

\* The driver is between ticks, or in one that is done with recovering
Ticking == app /\ recovered /\ orphans = {}

\* Driver::tick: a thread for a run that is queued and has none
SpawnThread(r) ==
    /\ Ticking
    /\ status[r] = "queued" /\ pc[r] = "none"
    /\ pc' = [pc EXCEPT ![r] = "begin"]
    /\ UNCHANGED <<rows, settings, shown, driver, at, end, out, servers, overdue, world, pids,
                   histories>>

\* Driver::tick: a thread that is done
Reap(r) ==
    /\ Ticking
    /\ pc[r] = "over"
    /\ pc' = [pc EXCEPT ![r] = "none"]
    /\ at' = [at EXCEPT ![r] = 1]
    /\ end' = [end EXCEPT ![r] = "passed"]
    /\ out' = [out EXCEPT ![r] = "passed"]
    /\ UNCHANGED <<rows, settings, shown, driver, servers, overdue, world, pids, histories>>

\* prune: the rows of a run that ended go
Prune(r) ==
    /\ Ticking
    /\ status[r] \in Final
    /\ Becomes(r, "gone")
    /\ version' = [version EXCEPT ![r] = NoVersion]
    /\ steps' = [steps EXCEPT ![r] = <<>>]
    /\ cancel' = [cancel EXCEPT ![r] = FALSE]
    /\ pids' = {p \in pids : p[1] # r}
    /\ UNCHANGED <<settings, shown, driver, thread, world, histories>>

---------------------------------------------------------------------------
\* The thread of a run.

\* What no thread touches
OffThread == UNCHANGED <<version, cancel, settings, shown, driver, file, place, agreed, owed, cut>>

Goto(r, where) == pc' = [pc EXCEPT ![r] = where]

\* move_test_step: only from a status it must have, and only while the run is running
Moves(r, i, from) == status[r] = "running" /\ steps[r][i] \in from
To(r, i, s) == steps' = [steps EXCEPT ![r][i] = s]

\* start_test_run; but the run was called off since the tick, or the workspace is gone, and it is
\* started only to be ended as errored
Begin(r) ==
    /\ pc[r] = "begin"
    /\ \/ /\ status[r] = "queued"
          /\ Becomes(r, "running")
          /\ Goto(r, IF place THEN "top" ELSE "skip")
          /\ end' = [end EXCEPT ![r] = IF place THEN "passed" ELSE "errored"]
       \/ /\ status[r] # "queued"
          /\ Goto(r, "over")
          /\ UNCHANGED <<status, end>>
    /\ UNCHANGED <<steps, at, out, servers, overdue, procs, pids, refused>>
    /\ OffThread

\* The servers that ended by themselves
Exited(r) == {i \in servers[r] : <<r, i>> \notin procs}

\* (mutant) the teardown heeds what stops the rest
FoundAlways(r, asks) ==
    CASE asks /\ cancel[r]                      -> "cancelled"
      [] ~ (asks /\ cancel[r]) /\ r \in overdue -> "timed out"
      [] OTHER                                  -> IF Exited(r) # {} THEN "server" ELSE "nothing"

\* Watching::stop: what a look for a reason to stop comes to, if the database is asked for a
\* cancel or if it is not.  The teardown is stopped by nothing.
Found(r, asks) ==
    CASE Phase(r, at[r]) = "teardown" -> "nothing"
      [] Phase(r, at[r]) # "teardown" /\ asks /\ cancel[r] -> "cancelled"
      [] Phase(r, at[r]) # "teardown" /\ ~ (asks /\ cancel[r]) /\ r \in overdue -> "timed out"
      [] OTHER -> IF Exited(r) # {} THEN "server" ELSE "nothing"

\* The database is asked every 250 ms, and first of all when a phase begins.
AtFirst(r) == at[r] = 1 \/ Phase(r, at[r] - 1) # Phase(r, at[r])
MayFind(r) == {Found(r, asks) : asks \in IF AtFirst(r) THEN {TRUE} ELSE BOOLEAN}
MayStop(r) == {Found(r, asks) : asks \in BOOLEAN} \ {"nothing"}

AtStep(r) == pc[r] = "top" /\ at[r] \in Places(r)

\* phase: a reason to stop is found before a step begins, which is skipped with the rest
StopBefore(r) ==
    /\ AtStep(r)
    /\ \E stop \in MayFind(r) \ {"nothing"} :
          /\ end' = [end EXCEPT ![r] = stop]
          /\ Goto(r, IF stop = "server" THEN "note" ELSE "skip")
    /\ UNCHANGED <<status, steps, at, out, servers, overdue, procs, pids, refused>>
    /\ OffThread

\* note_server_stop: the step of a server that ended failed after all
NoteServer(r) ==
    /\ pc[r] = "note"
    /\ \E i \in Exited(r) :
          IF Moves(r, i, {"passed"}) THEN To(r, i, "failed") ELSE UNCHANGED steps
    /\ Goto(r, "skip")
    /\ UNCHANGED <<status, at, end, out, servers, overdue, procs, pids, refused>>
    /\ OffThread

\* The rest of setup and steps, after a failure or a stop; or of everything, when the run cannot
\* be carried out (skip_rest).  Nobody else moves a step that is pending, so its statements are
\* one step of the model.
SkipRest(r) ==
    /\ pc[r] = "skip"
    /\ steps' = [steps EXCEPT ![r] = [i \in Places(r) |->
                    IF steps[r][i] = "pending" /\ (i \in Body(r) \/ end[r] = "errored")
                    THEN IF end[r] = "cancelled" THEN "cancelled" ELSE "skipped"
                    ELSE steps[r][i]]]
    /\ at' = [at EXCEPT ![r] = Cardinality(Body(r)) + 1]
    /\ Goto(r, IF end[r] = "errored" THEN "finish" ELSE "top")
    /\ UNCHANGED <<status, end, out, servers, overdue, procs, pids, refused>>
    /\ OffThread

\* A step begins: one that asks a person waits, the others run.
StartStep(r) ==
    /\ AtStep(r)
    /\ "nothing" \in MayFind(r)
    /\ IF Moves(r, at[r], {"pending"})
       THEN /\ To(r, at[r], IF Kind(r, at[r]) = "manual" THEN "waiting" ELSE "running")
            /\ Goto(r, IF Kind(r, at[r]) = "manual" THEN "ask" ELSE "spawn")
       ELSE Goto(r, "drop") /\ UNCHANGED steps
    /\ UNCHANGED <<status, at, end, out, servers, overdue, procs, pids, refused>>
    /\ OffThread

\* exec::carry_out: the process of a step, which may not start
SpawnProcess(r) ==
    /\ pc[r] = "spawn"
    /\ \/ /\ procs' = procs \cup {<<r, at[r]>>}
          /\ servers' = [servers EXCEPT ![r] = IF Kind(r, at[r]) = "start" THEN @ \cup {at[r]} ELSE @]
          /\ out' = [out EXCEPT ![r] = "passed"]
          /\ Goto(r, CASE Kind(r, at[r]) = "start"   -> "mark"
                       [] Kind(r, at[r]) = "browser" -> "record"
                       [] OTHER                      -> "poll")
       \/ /\ out' = [out EXCEPT ![r] = "failed"]
          /\ Goto(r, "mark")
          /\ UNCHANGED <<procs, servers>>
    /\ UNCHANGED <<status, steps, at, end, overdue, pids, refused>>
    /\ OffThread

\* browser_launched: a browser's pid is in its row while its step runs
RecordPid(r) ==
    /\ pc[r] = "record"
    /\ pids' = pids \cup {<<r, at[r]>>}
    /\ Goto(r, "poll")
    /\ UNCHANGED <<status, steps, at, end, out, servers, overdue, procs, refused>>
    /\ OffThread

\* wait_for_process: it ends, takes too long, or is stopped; whichever, it is gone then
PollProcess(r) ==
    /\ pc[r] = "poll"
    /\ \E o \in {"passed", "failed"} \cup MayStop(r) : out' = [out EXCEPT ![r] = o]
    /\ procs' = procs \ {<<r, at[r]>>}
    /\ Goto(r, "mark")
    /\ UNCHANGED <<status, steps, at, end, servers, overdue, pids, refused>>
    /\ OffThread

\* A thread that ends a step forgets how it did.
Forget(r) == out' = [out EXCEPT ![r] = "passed"]

\* (mutant) a step that did not pass does not keep the next one from beginning
OnwardAnyway(r, o) ==
    /\ end' = [end EXCEPT ![r] = IF o # "passed" /\ at[r] \in Body(r) THEN o ELSE @]
    /\ at' = [at EXCEPT ![r] = @ + 1]
    /\ Goto(r, "top")

\* phase: on to the next step, or past the rest of the phases if this one, in setup or steps, did
\* not pass
Onward(r, o) ==
    LET over == o # "passed" /\ Phase(r, at[r]) # "teardown" IN
    /\ end' = [end EXCEPT ![r] = IF over THEN o ELSE @]
    /\ at' = [at EXCEPT ![r] = @ + 1]
    /\ Goto(r, IF over THEN IF o = "server" THEN "note" ELSE "skip" ELSE "top")

\* How a step ends goes into its row, with the pid of a server.
MarkStep(r) ==
    /\ pc[r] = "mark"
    /\ IF Moves(r, at[r], {"running"})
       THEN /\ To(r, at[r], IF out[r] \in {"passed", "cancelled"} THEN out[r] ELSE "failed")
            /\ pids' = IF at[r] \in servers[r] THEN pids \cup {<<r, at[r]>>} ELSE pids
            /\ Onward(r, out[r])
       ELSE Goto(r, "drop") /\ UNCHANGED <<steps, pids, at, end>>
    /\ Forget(r)
    /\ UNCHANGED <<status, servers, overdue, procs, refused>>
    /\ OffThread

\* wait_for_answer: the answer is in the row; or it is not yet, and a reason to stop is found
HearAnswer(r) ==
    /\ pc[r] = "ask"
    /\ \/ /\ steps[r][at[r]] \in {"passed", "failed"}
          /\ Onward(r, steps[r][at[r]])
          /\ UNCHANGED out
       \/ /\ steps[r][at[r]] = "waiting"
          /\ \E stop \in MayStop(r) : out' = [out EXCEPT ![r] = stop]
          /\ Goto(r, "unask")
          /\ UNCHANGED <<at, end>>
    /\ UNCHANGED <<status, steps, servers, overdue, procs, pids, refused>>
    /\ OffThread

\* ... and the step no longer waits; or it was answered since, and the run is given up
StopWaiting(r) ==
    /\ pc[r] = "unask"
    /\ IF Moves(r, at[r], {"waiting"})
       THEN /\ To(r, at[r], IF out[r] = "cancelled" THEN "cancelled" ELSE "failed")
            /\ Onward(r, out[r])
       ELSE Goto(r, "drop") /\ UNCHANGED <<steps, at, end>>
    /\ Forget(r)
    /\ UNCHANGED <<status, servers, overdue, procs, pids, refused>>
    /\ OffThread

\* Leftovers::clear
StopServers(r) ==
    /\ procs' = procs \ {<<r, i>> : i \in servers[r]}
    /\ servers' = [servers EXCEPT ![r] = {}]

\* (mutant) the run ends first
ClearLater(r) ==
    /\ pc[r] = "top" /\ at[r] \notin Places(r)
    /\ Goto(r, "finish")
    /\ UNCHANGED <<status, steps, at, end, out, servers, overdue, procs, pids, refused>>
    /\ OffThread

\* run: the phases are over; what was started is stopped before the run ends
Clear(r) ==
    /\ pc[r] = "top" /\ at[r] \notin Places(r)
    /\ StopServers(r)
    /\ Goto(r, "finish")
    /\ UNCHANGED <<status, steps, at, end, out, overdue, pids, refused>>
    /\ OffThread

\* How a run that ended is written
Verdict(e) == IF e \in {"timed out", "server"} THEN "failed" ELSE e

\* finish_test_run
Finish(r) ==
    /\ pc[r] = "finish"
    /\ IF status[r] = "running" THEN Becomes(r, Verdict(end[r])) ELSE UNCHANGED status
    /\ Goto(r, "over")
    /\ overdue' = overdue \ {r}
    /\ UNCHANGED <<steps, at, end, out, servers, procs, pids, refused>>
    /\ OffThread

\* (mutant) what was started is stopped, and the row is left
DropOnly(r) ==
    /\ pc[r] = "drop"
    /\ StopServers(r)
    /\ Goto(r, "over")
    /\ UNCHANGED <<status, steps, at, end, out, overdue, pids, refused>>
    /\ OffThread

\* Leftovers::drop, when the thread gives the run up.  What the database refuses here goes unheard.
Drop(r) ==
    /\ pc[r] = "drop"
    /\ StopServers(r)
    /\ end' = [end EXCEPT ![r] = "errored"]
    /\ \/ /\ steps' = [steps EXCEPT ![r] = GivenUp(r)]
          /\ UNCHANGED refused
       \/ /\ StoreMayFail /\ refused = "no" /\ refused' = "ending"
          /\ UNCHANGED steps
    /\ Goto(r, "finish")
    /\ UNCHANGED <<status, at, out, overdue, pids>>
    /\ OffThread

\* The database refuses the thread a statement.  A run that has not begun waits for the next
\* tick; one that has is dropped; one refused how it ends stays as it is until the app starts
\* again.
Refused(r) ==
    /\ StoreMayFail /\ refused = "no"
    /\ \/ /\ pc[r] = "begin"
          /\ refused' = "step" /\ Goto(r, "over")
       \/ /\ AtStep(r) \/ pc[r] \in {"note", "mark", "ask", "unask"}
             \/ (pc[r] \in {"skip", "finish"} /\ end[r] # "errored")
          /\ refused' = "step" /\ Goto(r, "drop")
       \/ /\ pc[r] \in {"skip", "finish"} /\ end[r] = "errored"
          /\ refused' = "ending" /\ Goto(r, "over")
    /\ UNCHANGED <<status, steps, at, end, out, servers, overdue, procs, pids>>
    /\ OffThread

---------------------------------------------------------------------------
\* The world.

\* An agent, or anybody, edits the file in the worktree.
Edit ==
    /\ Undecided
    /\ \E v \in Versions \ {file} : file' = v
    /\ UNCHANGED <<rows, settings, shown, driver, thread, place, procs, pids, histories>>

\* test_settings_save
AskEveryTime ==
    /\ app /\ Undecided
    /\ every' = ~ every
    /\ UNCHANGED <<rows, approvals, shown, driver, thread, world, pids, histories>>

\* The workspace is archived or deleted, or its folder goes.
LosePlace ==
    /\ place /\ Undecided
    /\ place' = FALSE
    /\ UNCHANGED <<rows, settings, shown, driver, thread, file, procs, pids, histories>>

\* A server ends by itself, or an orphan does.
Dies(p) ==
    /\ p \in procs
    /\ pc[p[1]] = "poll" => at[p[1]] # p[2]
    /\ procs' = procs \ {p}
    /\ UNCHANGED <<rows, settings, shown, driver, thread, file, place, pids, histories>>

\* The run's time limit passes.  Nobody looks any more once its setup and steps are over.
RunOut(r) ==
    /\ pc[r] \notin {"none", "begin", "over"}
    /\ at[r] \in Body(r) /\ r \notin overdue
    /\ overdue' = overdue \cup {r}
    /\ UNCHANGED <<rows, settings, shown, driver, pc, at, end, out, servers, world, pids, histories>>

\* The app stops, at any moment; its threads do with it, what they started does not.
Stop ==
    /\ app
    /\ app' = FALSE
    /\ cut' = (cut \/ orphans # {})
    /\ orphans' = {}
    /\ pc' = [r \in Runs |-> "none"]
    /\ at' = [r \in Runs |-> 1]
    /\ end' = [r \in Runs |-> "passed"]
    /\ out' = [r \in Runs |-> "passed"]
    /\ servers' = [r \in Runs |-> {}]
    /\ overdue' = {}
    /\ shown' = [r \in Runs |-> NoVersion]
    /\ recovered' = FALSE
    /\ UNCHANGED <<rows, settings, world, pids, agreed, owed, refused>>

StartAgain ==
    /\ ~ app
    /\ app' = TRUE
    /\ UNCHANGED <<rows, settings, shown, recovered, orphans, thread, world, pids, histories>>

---------------------------------------------------------------------------
People ==
    \/ \E r \in Runs : Queue(r) \/ QueueUnattended(r) \/ Seen(r) \/ Approve(r) \/ Refuse(r) \/ CancelRun(r)
    \/ \E r \in Runs, v \in Versions : QueueSeen(r, v)
    \/ \E v \in Versions : ApproveSeen(v)
    \/ \E r \in Runs : \E i \in Places(r) : AnswerStep(r, i)

Driver ==
    \/ Recover \/ \E p \in orphans : KillOrphan(p)
    \/ \E r \in Runs : SpawnThread(r) \/ Reap(r)

ThreadStep(r) ==
    \/ Begin(r) \/ StopBefore(r) \/ NoteServer(r) \/ SkipRest(r) \/ StartStep(r)
    \/ SpawnProcess(r) \/ RecordPid(r) \/ PollProcess(r) \/ MarkStep(r)
    \/ HearAnswer(r) \/ StopWaiting(r) \/ Clear(r) \/ Finish(r) \/ Drop(r)

World ==
    \/ Edit \/ AskEveryTime \/ LosePlace \/ Stop \/ StartAgain
    \/ \E p \in procs : Dies(p)
    \/ \E r \in Runs : RunOut(r)

Next ==
    \/ People \/ Driver \/ World
    \/ \E r \in Runs : ThreadStep(r) \/ Refused(r) \/ Prune(r)

Spec == Init /\ [][Next]_vars

\* The driver's thread and the threads of the runs go on while the app does, and time passes.
\* Nobody has to ask for a run, or to answer; a process may run until it is stopped for taking
\* too long.
Fairness ==
    /\ WF_vars(Driver)
    /\ \A r \in Runs : WF_vars(ThreadStep(r)) /\ WF_vars(RunOut(r))

FairSpec == Spec /\ Fairness

(***************************************************************************)
(* Properties.                                                             *)
(***************************************************************************)

TypeOK ==
    /\ status \in [Runs -> {"none", "gone"} \cup Active \cup Final]
    /\ version \in [Runs -> Versions \cup {NoVersion}]
    /\ steps \in [Runs -> Seq(StepStatuses)]
    /\ \A r \in Runs : status[r] \notin {"none", "gone"} =>
          version[r] \in Versions /\ DOMAIN steps[r] = DOMAIN Def(r)
    /\ cancel \in [Runs -> BOOLEAN]
    /\ approvals \subseteq Versions /\ every \in BOOLEAN
    /\ shown \in [Runs -> Versions \cup {NoVersion}]
    /\ app \in BOOLEAN /\ recovered \in BOOLEAN
    /\ orphans \subseteq Runs \X (Nat \ {0})
    /\ pc \in [Runs -> {"none", "begin", "top", "note", "skip", "spawn", "record", "poll", "mark",
                        "ask", "unask", "finish", "drop", "over"}]
    /\ at \in [Runs -> Nat \ {0}]
    /\ end \in [Runs -> Stops \cup {"passed", "failed", "errored"}]
    /\ out \in [Runs -> Stops \cup {"passed", "failed"}]
    /\ servers \in [Runs -> SUBSET (Nat \ {0})]
    /\ file \in Versions /\ place \in BOOLEAN
    /\ overdue \subseteq Runs
    /\ procs \subseteq Runs \X (Nat \ {0}) /\ pids \subseteq Runs \X (Nat \ {0})
    /\ agreed \subseteq Versions /\ owed \subseteq Runs /\ cut \in BOOLEAN
    /\ refused \in {"no", "step", "ending"}

\* Nothing is carried out that no person agreed to: the text a run was queued with is one they
\* were shown, whatever became of the file since, and while the project asks every time, they
\* were asked about this run.
OnlyAgreed ==
    \A r \in Runs : status[r] \in {"queued", "running", "passed", "failed", "errored"} =>
        /\ version[r] \in agreed
        /\ r \notin owed

\* How a run ended says what its steps did: a run passed when all of setup and steps did, and
\* failed when one did not; a run that was given a verdict was torn down first, one that was
\* cancelled in the middle included; and nothing is left open.
VerdictTrue ==
    \A r \in Runs :
        /\ status[r] = "passed" => \A i \in Body(r) : steps[r][i] = "passed"
        /\ status[r] = "failed" => \E i \in Body(r) : steps[r][i] # "passed"
        /\ status[r] \in {"passed", "failed"} \/ (status[r] = "cancelled" /\ cancel[r]) =>
              \A i \in Places(r) \ Body(r) : steps[r][i] \in {"passed", "failed"}
        /\ status[r] \in Final /\ refused # "ending" => \A i \in Places(r) : steps[r][i] \notin Open

\* Steps begin in order, setup and steps after nothing but steps that passed, teardown when
\* everything before is over; and none begins a second time, over any number of restarts.
InOrder ==
    [][\A r \in Runs : \A i \in Places(r) \cap DOMAIN steps'[r] :
          /\ steps[r][i] = "pending" /\ steps'[r][i] \in {"running", "waiting"} =>
                \A j \in 1 .. i - 1 :
                    /\ steps[r][j] \notin Open
                    /\ i \in Body(r) => steps[r][j] = "passed"
          /\ steps[r][i] \notin Open => steps'[r][i] \notin Open]_vars

\* The servers and browsers of a run that was interrupted are gone once the app has started
\* again and dealt with it, unless it stopped in the middle of that.
OrphansKilled == Ticking /\ ~ cut => \A p \in procs \cap pids : status[p[1]] \notin Final

\* A run that began ends, as long as the app goes on; not one that asks a person in its teardown,
\* which nothing stops, nor one whose ending the database refused, which waits for a restart.
RunEnds ==
    \A r \in Runs :
        (status[r] = "running") ~>
            \/ status[r] # "running"
            \/ ~ app
            \/ refused = "ending"
            \/ \E i \in Places(r) \ Body(r) : steps[r][i] = "waiting"

\* What whoever reads the row is promised: a verdict comes when nothing of the run is alive.
Run == INSTANCE TestRun WITH alive <- [r \in Runs |-> \E p \in procs : p[1] = r]
RunKept == Run!Spec
=============================================================================
