------------------------------ MODULE Workflow ------------------------------
(***************************************************************************)
(* A run of a workflow                                                     *)
(* (crates/core/src/workflow/engine.rs and driver.rs, and the workflow     *)
(* rows of crates/core/src/store.rs).                                      *)
(*                                                                         *)
(* A run is rows in the database: one for the run, one for each step.  The *)
(* engine is a function from the rows and the world to what should change  *)
(* and what should be done.  The driver, one thread of the app, applies    *)
(* its plans with conditional updates and carries out its effects, while   *)
(* the run may be cancelled, agents work, end and are controlled from      *)
(* elsewhere, timeouts pass, and the app stops and starts again.           *)
(*                                                                         *)
(* A step of the driver is one statement on the database or one call to    *)
(* the host, so everything else may happen between any two of them.        *)
(***************************************************************************)
EXTENDS Naturals, FiniteSets, Sequences

CONSTANTS
    Workflows,      \* the workflows that may be run: sequences of steps, in file order
    MaxBursts,      \* bound: how often an agent works without having been typed to
    MaxHolds,       \* bound: how often somebody elsewhere takes control of a session
    StoreMayFail,   \* whether the database may refuse a statement, which it does once at most
    MayVanish       \* whether the workspace may be deleted, or the file no longer check out

Actions == {"start_session", "wait_session", "send_to_session", "wait_pr_activity", "run_test",
            "notify"}

\* Step: session is the place of the start_session step it names, 0 for `origin`.
StepDefs == [needs : SUBSET (Nat \ {0}), action : Actions, session : Nat,
             until : {"settled", "exited"}, timeout : BOOLEAN]

\* What the parser sees to: needs are steps and go round in no circle, and a session that is named
\* is that of a step that comes before.
CheckedOut(w) ==
    /\ \A i \in DOMAIN w : w[i].needs \subseteq DOMAIN w
    /\ \A i \in DOMAIN w : w[i].session # 0 =>
          /\ w[i].session \in DOMAIN w /\ w[w[i].session].action = "start_session"
          /\ \A before \in SUBSET DOMAIN w :
                (\A j \in before \cup {i} : w[j].needs \subseteq before) => w[i].session \in before
    /\ \E rank \in [DOMAIN w -> DOMAIN w] :
          \A i \in DOMAIN w : \A n \in w[i].needs : rank[n] < rank[i]

ASSUME WorkflowAssumption ==
    /\ Workflows \subseteq Seq(StepDefs)
    /\ \A w \in Workflows : CheckedOut(w)
    /\ MaxBursts \in Nat /\ MaxHolds \in Nat
    /\ {StoreMayFail, MayVanish} \subseteq BOOLEAN

VARIABLES
    definition,   \* the workflow as it was when the run was asked for
    \* the database: the run, its steps, whether it found the workspace's own agent when it
    \* started, the finished turns reported since a step began to wait, the smoke test runs
    run, status, origin, turned, test, place,
    \* the app, and what its driver keeps between ticks: whether interrupted steps were dealt
    \* with, the steps whose agent settled since they began to wait, and the forge's answer
    app, recovered, settled, forge,
    driver,       \* the driver's thread
    \* the world: the sessions, whether something was posted on the pull request, and the steps
    \* that began longer ago than their timeout
    sess, posted, overdue,
    \* histories: effects carried out, how many of them after the run ended, the sessions typed
    \* to that have not gone quiet since, whether the database refused something
    acted, late, unread, refused

rows == <<run, status, origin>>
database == <<rows, turned, test, place>>
memory == <<recovered, settled, forge>>
world == <<sess, posted, overdue>>
histories == <<acted, late, unread, refused>>
vars == <<definition, database, app, memory, driver, world, histories>>

Steps == DOMAIN definition
Action(i) == definition[i].action
Origin == 0

\* The sessions the steps start and name.
Ptys ==
    {i \in Steps : Action(i) = "start_session"}
    \cup {definition[i].session :
            i \in {j \in Steps : Action(j) \in {"wait_session", "send_to_session"}}}

Active == run \in {"queued", "running"}
Final(s) == s \in {"succeeded", "failed", "skipped", "cancelled"}
StepStatus == {"pending", "running", "waiting", "succeeded", "failed", "skipped", "cancelled"}
Moves == [step : Nat, from : StepStatus, to : StepStatus]

Resting == [pc |-> "rest", queued |-> FALSE, moves |-> <<>>, effects |-> <<>>,
            finish |-> "none", again |-> FALSE, typed |-> {}, outcome |-> "none"]
NoAnswer == [out |-> FALSE, posts |-> "unknown"]

Init ==
    /\ definition \in Workflows
    /\ run = "none"
    /\ status = [i \in Steps |-> "pending"]
    /\ origin = FALSE
    /\ turned = {}
    /\ test = [i \in Steps |-> "none"]
    /\ place = TRUE
    /\ app = TRUE
    /\ recovered = FALSE /\ settled = {} /\ forge = NoAnswer
    /\ driver = Resting
    /\ \E own \in {"none", "alive"} :
         sess = [p \in Ptys |-> [state |-> IF p = Origin THEN own ELSE "none",
                                 busy |-> FALSE, held |-> FALSE, bursts |-> 0, holds |-> 0]]
    /\ posted = FALSE
    /\ overdue = {}
    /\ acted = [i \in Steps |-> 0] /\ late = 0 /\ unread = {} /\ refused = FALSE

---------------------------------------------------------------------------
\* The engine: what the rows and the world come to.

Alive(p) == sess[p].state = "alive"
Busy(p) == sess[p].busy

\* Whether a step has a session to name: the origin, if one was found, or what an earlier step
\* left when it succeeded.
HasSession(st, i) ==
    IF definition[i].session = Origin THEN origin ELSE st[definition[i].session] = "succeeded"

\* begin: a pending step whose needs have all succeeded.
Begun(st, i) ==
    LET p == definition[i].session IN
    CASE Action(i) \in {"start_session", "notify", "run_test"} -> "running"
      [] Action(i) = "wait_pr_activity" -> "waiting"
      [] Action(i) = "wait_session" -> IF HasSession(st, i) THEN "waiting" ELSE "failed"
      [] Action(i) = "send_to_session" ->
            IF ~HasSession(st, i) \/ ~Alive(p) THEN "skipped"
            ELSE IF Busy(p) THEN "waiting"
            ELSE "running"

\* wait: whether what a waiting step waits for has happened, or it has waited too long.
Waited(st, i) ==
    LET p == definition[i].session
        orTooLate == IF i \in overdue THEN "failed" ELSE "waiting"
    IN
    CASE Action(i) = "wait_session" ->
            IF ~Alive(p) \/ (definition[i].until = "settled" /\ i \in settled \cup turned)
            THEN "succeeded" ELSE orTooLate
      [] Action(i) = "wait_pr_activity" -> IF forge.posts = "some" THEN "succeeded" ELSE orTooLate
      [] Action(i) = "run_test" ->
            CASE test[i] = "active" -> orTooLate
              [] test[i] = "verdict" -> "succeeded"
              [] OTHER -> "failed"
      [] Action(i) = "send_to_session" ->
            CASE ~Alive(p) -> "skipped"
              [] Alive(p) /\ ~Busy(p) -> "running"
              [] OTHER -> orTooLate
      [] OTHER -> "waiting"

\* (mutant) one need that succeeded is enough
ReadyAny(st, i) ==
    definition[i].needs # {} => \E n \in definition[i].needs : st[n] = "succeeded"

Ready(st, i) == \A n \in definition[i].needs : st[n] = "succeeded"

Blocked(st, i) == \E n \in definition[i].needs : Final(st[n]) /\ st[n] # "succeeded"

\* What becomes of step i when the steps stand at st.
Becomes(st, i) ==
    CASE st[i] = "pending" /\ Blocked(st, i) -> "skipped"
      [] st[i] = "pending" /\ Ready(st, i) -> Begun(st, i)
      [] st[i] = "waiting" -> Waited(st, i)
      [] OTHER -> st[i]

Plans == [status : [Steps -> StepStatus], moves : Seq(Moves), effects : Seq(Moves)]

\* A step that moves to `running` is an effect, claimed just before it is carried out: the driver
\* passes over its move when it applies the others.
Visit[i \in Steps] == [plan \in Plans |->
    LET to == Becomes(plan.status, i)
        move == [step |-> i, from |-> plan.status[i], to |-> to]
        seen == [plan EXCEPT !.status[i] = to]
    IN
    IF to = plan.status[i] THEN plan
    ELSE IF to = "running" THEN [seen EXCEPT !.effects = Append(@, move)]
    ELSE [seen EXCEPT !.moves = Append(@, move)]]

\* The plan after k visits: to the steps in file order, and again.
Visited[k \in Nat] ==
    IF k = 0 THEN [status |-> status, moves |-> <<>>, effects |-> <<>>]
    ELSE Visit[((k - 1) % Len(definition)) + 1][Visited[k - 1]]

\* A plan visits the steps until a pass changes nothing: a step can start in the same plan as the
\* one it needs finishes.  A plan moves a step at most twice.
Advance == Visited[Len(definition) * (2 * Len(definition) + 1)]

\* (mutant) a run whose steps all ended succeeded
FinishGladly(st) ==
    IF \E i \in Steps : ~Final(st[i]) THEN "none" ELSE "succeeded"

\* How the run ended, once every step has.
Finish(st) ==
    IF \E i \in Steps : ~Final(st[i]) THEN "none"
    ELSE IF \E i \in Steps : st[i] = "failed" THEN "failed"
    ELSE "succeeded"

---------------------------------------------------------------------------
\* The store: statements that change nothing unless what they expect still holds.

\* move_workflow_step
Moved(i, from, to) ==
    IF run = "running" /\ status[i] = from THEN status' = [status EXCEPT ![i] = to]
    ELSE UNCHANGED status

\* finish_workflow_run
Finished(how) == run' = IF Active THEN how ELSE run

\* queue_workflow_run
Queue ==
    /\ run = "none" /\ place
    /\ run' = "queued"
    /\ UNCHANGED <<definition, status, origin, turned, test, place, app, memory, driver, world,
                   histories>>

\* cancel_workflow_run, from the app or from `ys`: the run, and every step that has not ended.
Cancel ==
    /\ Active
    /\ run' = "cancelled"
    /\ status' = [i \in Steps |-> IF Final(status[i]) THEN status[i] ELSE "cancelled"]
    /\ UNCHANGED <<definition, origin, turned, test, place, app, memory, driver, world, histories>>

\* The workspace is deleted, or an app that reads other files comes to the run.
Vanish ==
    /\ MayVanish /\ place
    /\ place' = FALSE
    /\ UNCHANGED <<definition, rows, turned, test, app, memory, driver, world, histories>>

---------------------------------------------------------------------------
\* The driver

At(pc) == app /\ driver.pc = pc
Goto(pc) == driver' = [driver EXCEPT !.pc = pc]
Rest == driver' = Resting
UnchangedByDriver == UNCHANGED <<definition, turned, place, app, posted, overdue>>

\* An agent typed to shows it before the driver looks the next time.
EchoIsIn == \A p \in unread : Alive(p) => Busy(p)

\* tick: the active runs are read, and what the forge said of a run that ended is dropped.
Tick ==
    /\ At("rest") /\ EchoIsIn
    /\ IF Active THEN driver' = [Resting EXCEPT !.pc = "begin", !.queued = (run = "queued")]
                 ELSE Rest
    /\ forge' = IF Active THEN forge ELSE NoAnswer
    /\ UnchangedByDriver
    /\ UNCHANGED <<rows, test, recovered, settled, sess, histories>>

\* move_on: the file no longer checks out, or the workspace is gone.
GiveUp ==
    /\ At("begin") /\ ~place
    /\ Finished("failed")
    /\ Rest
    /\ UnchangedByDriver
    /\ UNCHANGED <<status, origin, test, memory, sess, histories>>

\* A queued run starts, and keeps which agent is the workspace's own; unless it was cancelled.
Start ==
    /\ At("begin") /\ place /\ driver.queued
    /\ IF run = "queued"
       THEN /\ run' = "running"
            /\ origin' = (Origin \in Ptys /\ Alive(Origin))
            /\ Goto("recover")
       ELSE Rest /\ UNCHANGED <<run, origin>>
    /\ UnchangedByDriver
    /\ UNCHANGED <<status, test, memory, sess, histories>>

\* A run that has started, in this tick or before.
Starting == At("recover") \/ (At("begin") /\ place /\ ~driver.queued)

\* The steps among the first k that are running.
RunningAmong[k \in Nat] ==
    IF k = 0 THEN <<>>
    ELSE IF status[k] = "running" THEN Append(RunningAmong[k - 1], k)
    ELSE RunningAmong[k - 1]

\* Moves for the steps the driver was in the middle of when it stopped.
Interrupted(to) ==
    LET found == RunningAmong[Len(definition)] IN
    [k \in DOMAIN found |-> [step |-> found[k], from |-> "running", to |-> to]]

\* (mutant) steps found running are left as they are
RecoverNever ==
    /\ Starting
    /\ recovered' = TRUE
    /\ Goto("plan")
    /\ UnchangedByDriver
    /\ UNCHANGED <<rows, test, settled, forge, sess, histories>>

\* (mutant) steps found running are done again
RecoverAgain ==
    /\ Starting
    /\ driver' = [driver EXCEPT !.pc = "apply", !.again = TRUE,
                    !.moves = IF recovered THEN <<>> ELSE Interrupted("pending")]
    /\ recovered' = TRUE
    /\ UnchangedByDriver
    /\ UNCHANGED <<rows, test, settled, forge, sess, histories>>

\* The first time since the app started, steps it finds running fail: whether they were carried
\* out cannot be known.
Recover ==
    /\ Starting
    /\ driver' = [driver EXCEPT !.pc = "apply", !.again = TRUE,
                    !.moves = IF recovered THEN <<>> ELSE Interrupted("failed")]
    /\ recovered' = TRUE
    /\ UnchangedByDriver
    /\ UNCHANGED <<rows, test, settled, forge, sess, histories>>

\* The forge is asked about a step that waits for it, if nothing is known yet or what is known
\* is old, and no question is out.
Asked(plan) ==
    IF /\ \E i \in Steps :
             /\ Action(i) = "wait_pr_activity"
             /\ (status[i] = "waiting" \/ \E k \in DOMAIN plan.moves : plan.moves[k].step = i)
       /\ ~forge.out
    THEN {[forge EXCEPT !.out = TRUE]} \cup (IF forge.posts = "unknown" THEN {} ELSE {forge})
    ELSE {forge}

\* One pass: what should change, and what should be done.  A step to be carried out is not
\* claimed with the rest.  (The code makes at most three passes per step and one more; a pass is
\* only repeated after a step has ended, so that never stops it.)
Plan ==
    /\ At("plan")
    /\ \E plan \in {Advance} :
          /\ driver' = [driver EXCEPT !.pc = "apply", !.again = FALSE,
                          !.moves = plan.moves, !.effects = plan.effects,
                          !.finish = Finish(plan.status)]
          /\ forge' \in Asked(plan)
    /\ UnchangedByDriver
    /\ UNCHANGED <<rows, test, recovered, settled, sess, histories>>

\* The next change of the plan.
Apply ==
    /\ At("apply") /\ driver.moves # <<>>
    /\ LET m == Head(driver.moves) IN Moved(m.step, m.from, m.to)
    /\ driver' = [driver EXCEPT !.moves = Tail(@)]
    /\ UnchangedByDriver
    /\ UNCHANGED <<run, origin, test, memory, sess, histories>>

\* The rest of the plan, once its changes are applied.
AtEffects == At("apply") /\ driver.moves = <<>>

\* (mutant) a step whose claim was refused is carried out all the same
ClaimAnyway ==
    /\ AtEffects /\ driver.effects # <<>>
    /\ LET m == Head(driver.effects) IN Moved(m.step, m.from, "running")
    /\ Goto("act")
    /\ UnchangedByDriver
    /\ UNCHANGED <<run, origin, test, memory, sess, histories>>

\* A step is claimed just before it is carried out.  A claim that is refused is that of a run
\* that was cancelled: nothing more of it happens.
Claim ==
    /\ AtEffects /\ driver.effects # <<>>
    /\ LET m == Head(driver.effects) IN
       /\ Moved(m.step, m.from, "running")
       /\ IF run = "running" /\ status[m.step] = m.from THEN Goto("act")
          ELSE IF run # "running" THEN Rest
          ELSE driver' = [driver EXCEPT !.effects = Tail(@)]
    /\ UnchangedByDriver
    /\ UNCHANGED <<run, origin, test, memory, sess, histories>>

\* The end of a pass: the run ends, or goes on as far as what was carried out lets it.
EndPass ==
    /\ AtEffects /\ driver.effects = <<>>
    /\ IF driver.finish # "none" THEN Finished(driver.finish) /\ Rest
       ELSE UNCHANGED run /\ IF driver.again THEN Goto("plan") ELSE Rest
    /\ UnchangedByDriver
    /\ UNCHANGED <<status, origin, test, memory, sess, histories>>

\* The database refuses a statement: the run is left where it is until the next tick.
Refused ==
    /\ StoreMayFail /\ ~refused
    /\ \E pc \in {"begin", "recover", "plan", "apply", "report"} : At(pc)
    /\ Rest
    /\ recovered' \in (IF driver.pc = "recover" THEN {TRUE}
                       ELSE IF Starting THEN {recovered, TRUE} ELSE {recovered})
    /\ refused' = TRUE
    /\ UnchangedByDriver
    /\ UNCHANGED <<rows, test, settled, forge, sess, acted, late, unread>>

---------------------------------------------------------------------------
\* carry_out

Acting(i) == At("act") /\ i = Head(driver.effects).step
Came(outcome) == driver' = [driver EXCEPT !.pc = "report", !.outcome = outcome]
DidAct(i) ==
    /\ acted' = [acted EXCEPT ![i] = @ + 1]
    /\ late' = IF run = "running" THEN late ELSE late + 1
DidNothing == UNCHANGED <<acted, late>>

\* An agent is started as the composer would, or cannot be.  It is not busy before its first
\* output.
StartSession(i) ==
    /\ Acting(i) /\ Action(i) = "start_session"
    /\ \/ /\ sess' = [sess EXCEPT ![i].state = "alive"]
          /\ Came("succeeded") /\ DidAct(i)
       \/ Came("failed") /\ DidNothing /\ UNCHANGED sess
    /\ UnchangedByDriver
    /\ UNCHANGED <<rows, test, memory, unread, refused>>

Notify(i) ==
    /\ Acting(i) /\ Action(i) = "notify"
    /\ \/ Came("succeeded") /\ DidAct(i)
       \/ Came("failed") /\ DidNothing
    /\ UnchangedByDriver
    /\ UNCHANGED <<rows, test, memory, sess, unread, refused>>

\* The step waits for the run it queued, or fails: the test is unknown, busy, or would wait for
\* somebody when nobody is there.
RunTest(i) ==
    /\ Acting(i) /\ Action(i) = "run_test"
    /\ \/ Came("waiting") /\ DidAct(i) /\ test' = [test EXCEPT ![i] = "active"]
       \/ Came("failed") /\ DidNothing /\ UNCHANGED test
    /\ UnchangedByDriver
    /\ UNCHANGED <<rows, memory, sess, unread, refused>>

\* (mutant) the sessions typed to are not remembered
LookForgetting(i) ==
    LET p == definition[i].session IN
    /\ Acting(i) /\ Action(i) = "send_to_session"
    /\ CASE ~Alive(p) -> Came("skipped")
         [] Alive(p) /\ (Busy(p) \/ p \in driver.typed) -> Came("waiting")
         [] OTHER -> Goto("type")
    /\ UnchangedByDriver
    /\ UNCHANGED <<rows, test, memory, sess, histories>>

\* A message: the session is looked at again, because the plan is carried out step by step.
Look(i) ==
    LET p == definition[i].session IN
    /\ Acting(i) /\ Action(i) = "send_to_session"
    /\ CASE ~Alive(p) -> Came("skipped")
         [] Alive(p) /\ (Busy(p) \/ p \in driver.typed) -> Came("waiting")
         [] OTHER -> driver' = [driver EXCEPT !.pc = "type", !.typed = @ \cup {p}]
    /\ UnchangedByDriver
    /\ UNCHANGED <<rows, test, memory, sess, histories>>

\* type_into: the text is pasted, unless somebody elsewhere is in control.
Type ==
    LET i == Head(driver.effects).step
        p == definition[i].session
    IN
    /\ At("type")
    /\ CASE ~Alive(p) -> Came("failed") /\ DidNothing /\ UNCHANGED unread
         [] Alive(p) /\ sess[p].held -> Came("waiting") /\ DidNothing /\ UNCHANGED unread
         [] OTHER -> Goto("submit") /\ DidAct(i) /\ unread' = unread \cup {p}
    /\ UnchangedByDriver
    /\ UNCHANGED <<rows, test, memory, sess, refused>>

\* SUBMIT_DELAY later it is sent off.  Control taken since leaves it unsent, and it is not typed
\* a second time.
Submit ==
    LET p == definition[Head(driver.effects).step].session IN
    /\ At("submit")
    /\ Came(IF Alive(p) /\ ~sess[p].held THEN "succeeded" ELSE "failed")
    /\ UnchangedByDriver
    /\ UNCHANGED <<rows, test, memory, sess, histories>>

\* How it went is reported.  Only an effect that happened can let another step start.
Report ==
    /\ At("report")
    /\ Moved(Head(driver.effects).step, "running", driver.outcome)
    /\ driver' = [driver EXCEPT !.pc = "apply", !.effects = Tail(@), !.outcome = "none",
                                !.again = @ \/ driver.outcome # "waiting"]
    /\ UnchangedByDriver
    /\ UNCHANGED <<run, origin, test, memory, sess, histories>>

CarryOut(i) == StartSession(i) \/ Notify(i) \/ RunTest(i) \/ Look(i)

Driving ==
    \/ Tick \/ GiveUp \/ Start \/ Recover \/ Plan \/ Apply \/ Claim \/ EndPass
    \/ \E i \in Steps : CarryOut(i)
    \/ Type \/ Submit \/ Report

---------------------------------------------------------------------------
\* The world

UnchangedByWorld ==
    UNCHANGED <<definition, rows, place, app, recovered, driver, acted, late, refused>>

\* The steps that wait for this session: what settles it now settled it after they began.
WaitingFor(p) ==
    {i \in Steps : Action(i) = "wait_session" /\ status[i] = "waiting"
                   /\ definition[i].session = p}

\* An agent works: of itself, or because it was typed to.
Work(p) ==
    /\ Alive(p) /\ ~Busy(p)
    /\ \/ sess[p].bursts < MaxBursts /\ sess' = [sess EXCEPT ![p].busy = TRUE, ![p].bursts = @ + 1]
       \/ p \in unread /\ sess' = [sess EXCEPT ![p].busy = TRUE]
    /\ UnchangedByWorld
    /\ UNCHANGED <<turned, test, settled, forge, posted, overdue, unread>>

\* It goes quiet.  After SETTLE_BUSY_MS of output the driver, if the app runs, notes it.
Quiet(p) ==
    /\ Alive(p) /\ Busy(p)
    /\ sess' = [sess EXCEPT ![p].busy = FALSE]
    /\ unread' = unread \ {p}
    /\ \/ UNCHANGED settled
       \/ app /\ settled' = settled \cup WaitingFor(p)
    /\ UnchangedByWorld
    /\ UNCHANGED <<turned, test, forge, posted, overdue>>

\* Its harness reports a finished turn.
Turn(p) ==
    /\ Alive(p)
    /\ turned' = turned \cup WaitingFor(p)
    /\ UnchangedByWorld
    /\ UNCHANGED <<test, settled, forge, sess, posted, overdue, unread>>

Exit(p) ==
    /\ Alive(p)
    /\ sess' = [sess EXCEPT ![p].state = "ended", ![p].busy = FALSE, ![p].held = FALSE]
    /\ unread' = unread \ {p}
    /\ UnchangedByWorld
    /\ UNCHANGED <<turned, test, settled, forge, posted, overdue>>

\* Somebody elsewhere takes a lease on the session, and lets go of it.
Hold(p) ==
    /\ Alive(p) /\ ~sess[p].held /\ sess[p].holds < MaxHolds
    /\ sess' = [sess EXCEPT ![p].held = TRUE, ![p].holds = @ + 1]
    /\ UnchangedByWorld
    /\ UNCHANGED <<turned, test, settled, forge, posted, overdue, unread>>

LetGo(p) ==
    /\ sess[p].held
    /\ sess' = [sess EXCEPT ![p].held = FALSE]
    /\ UnchangedByWorld
    /\ UNCHANGED <<turned, test, settled, forge, posted, overdue, unread>>

\* The smoke runner ends a test run, with a verdict or without, or its row goes.
TestEnds(i) ==
    /\ test[i] = "active"
    /\ \E how \in {"verdict", "none reached", "gone"} : test' = [test EXCEPT ![i] = how]
    /\ UnchangedByWorld
    /\ UNCHANGED <<turned, settled, forge, world, unread>>

\* Somebody posts on the pull request.
Post ==
    /\ ~posted /\ \E i \in Steps : Action(i) = "wait_pr_activity"
    /\ posted' = TRUE
    /\ UnchangedByWorld
    /\ UNCHANGED <<turned, test, settled, forge, sess, overdue, unread>>

\* The thread that asks the forge has its answer, or none.
Answer ==
    /\ forge.out
    /\ \/ forge' = [out |-> FALSE, posts |-> IF posted THEN "some" ELSE "none"]
       \/ forge' = [forge EXCEPT !.out = FALSE]
    /\ UnchangedByWorld
    /\ UNCHANGED <<turned, test, settled, world, unread>>

\* A step's timeout passes, counted from when it first began.
TimeOut(i) ==
    /\ definition[i].timeout /\ status[i] \in {"waiting", "running"} /\ i \notin overdue
    /\ overdue' = overdue \cup {i}
    /\ UnchangedByWorld
    /\ UNCHANGED <<turned, test, settled, forge, sess, posted, unread>>

\* The app stops, wherever its driver is, and what the driver kept in memory is gone.
Stop ==
    /\ app
    /\ app' = FALSE
    /\ Rest
    /\ recovered' = FALSE /\ settled' = {} /\ forge' = NoAnswer
    /\ UNCHANGED <<definition, database, world, histories>>

StartAgain ==
    /\ ~app
    /\ app' = TRUE
    /\ UNCHANGED <<definition, database, memory, driver, world, histories>>

Next ==
    \/ Queue \/ Cancel \/ Vanish
    \/ Driving \/ Refused
    \/ \E p \in Ptys : Work(p) \/ Quiet(p) \/ Turn(p) \/ Exit(p) \/ Hold(p) \/ LetGo(p)
    \/ \E i \in Steps : TestEnds(i) \/ TimeOut(i)
    \/ Post \/ Answer \/ Stop \/ StartAgain

Spec == Init /\ [][Next]_vars

\* The driver's thread runs while the app does, timeouts pass, and an agent that was typed to
\* shows it.  Whoever controls a session lets go of it: a message past its timeout would be put back
\* for ever while nobody may type it.  Nothing else is sure to happen.
FairSpec ==
    /\ Spec
    /\ WF_vars(Driving)
    /\ WF_vars(\E i \in Steps : TimeOut(i))
    /\ WF_vars(\E p \in unread : Work(p))
    /\ WF_vars(\E p \in Ptys : LetGo(p))

---------------------------------------------------------------------------
\* Properties

\* Every variable holds what the code can put there.
TypeOK ==
    /\ definition \in Workflows
    /\ run \in {"none", "queued", "running", "succeeded", "failed", "cancelled"}
    /\ status \in [Steps -> StepStatus]
    /\ {origin, place, app, recovered, posted, refused} \subseteq BOOLEAN
    /\ {turned, settled, overdue} \subseteq SUBSET Steps
    /\ test \in [Steps -> {"none", "active", "verdict", "none reached", "gone"}]
    /\ forge \in [out : BOOLEAN, posts : {"unknown", "none", "some"}]
    /\ driver \in [pc : {"rest", "begin", "recover", "plan", "apply", "act", "type",
                         "submit", "report"},
                   queued : BOOLEAN, moves : Seq(Moves), effects : Seq(Moves),
                   finish : {"none", "succeeded", "failed"}, again : BOOLEAN,
                   typed : SUBSET Ptys,
                   outcome : {"none", "succeeded", "failed", "skipped", "waiting"}]
    /\ sess \in [Ptys -> [state : {"none", "alive", "ended"}, busy : BOOLEAN, held : BOOLEAN,
                          bursts : 0 .. MaxBursts, holds : 0 .. MaxHolds]]
    /\ acted \in [Steps -> Nat] /\ late \in Nat
    /\ unread \subseteq Ptys

\* A step begins only once everything it needs has succeeded, whatever was cancelled, refused or
\* interrupted while a plan that let both go was being applied (engine::advance, move_on).
NeedsMet ==
    \A i \in Steps :
        status[i] \in {"running", "waiting", "succeeded", "failed"} =>
            \A n \in definition[i].needs : status[n] = "succeeded"

\* No agent is started twice, and nothing is typed, notified or queued twice, for one step: not
\* when its session was busy at the last moment, nor when the app stopped while carrying it out
\* (engine::recover, not_yet).
DoneOnce == \A i \in Steps : acted[i] <= 1

\* What a run's row says of it is what its steps say (engine::advance, finish_workflow_run).
RunTrue ==
    /\ run = "succeeded" => \A i \in Steps : status[i] \in {"succeeded", "skipped"}
    /\ run = "failed" /\ place => \E i \in Steps : status[i] = "failed"
    /\ run = "cancelled" => \A i \in Steps : Final(status[i])

\* A cancel that lands while an effect is under way stops every effect after it (move_on).
CancelStops == late <= 1

\* An agent is not given a second message before it has gone quiet after the first: not in one
\* tick, when it does not look busy yet, nor later (carry_out, typed_to).
OneMessageAtATime == [][\A p \in Ptys : p \in unread /\ acted' # acted =>
                            definition[Head(driver.effects).step].session # p
                            \/ Action(Head(driver.effects).step) # "send_to_session"]_vars

Waits == {"wait_session", "wait_pr_activity", "run_test", "send_to_session"}

\* A step was carried out, and the database refused to hear how it went: nothing moves it before
\* the app starts again.
Unheard == refused /\ recovered /\ driver.pc = "rest" /\ \E i \in Steps : status[i] = "running"

\* A run whose waits all have a timeout ends, whatever agents, tests and the forge do: unless the
\* app stops, or how a step went was not heard (move_on, wait).
RunEnds ==
    (Active /\ \A i \in Steps : Action(i) \in Waits => definition[i].timeout)
        ~> (~Active \/ ~app \/ Unheard)
=============================================================================
