------------------------------- MODULE Exits -------------------------------
(***************************************************************************)
(* How the end of a process reaches the records                            *)
(* (crates/pty-ipc/src/server.rs and spool.rs, crates/core/src/activity.rs *)
(* and launch.rs, the startup of the app in src-tauri/src/lib.rs).         *)
(*                                                                         *)
(* The daemon owns the processes and keeps no database; the clients, the   *)
(* app and `ys`, own the database and come and go.  An exit is therefore   *)
(* told twice: as an event to whoever is connected, and as a file in the   *)
(* spool for whoever is not.  A launch writes its run before the process   *)
(* exists and its conversation's record afterwards, so an exit can also    *)
(* come before the row it belongs to.  What a restarted app finds running  *)
(* in the database but not in the daemon is ended as interrupted.          *)
(*                                                                         *)
(* Each step is one statement or transaction on the database, one file     *)
(* operation, or one message, so that the processes interleave as they do. *)
(***************************************************************************)
EXTENDS Naturals, FiniteSets, Sequences

CONSTANTS
    Ptys,               \* launches, each of which makes one PTY session and one run
    Records,            \* conversations that can be resumed
    Drainers,           \* clients that drain the spool: "app", "ys"
    SpoolCap,           \* MAX_ENTRIES
    StoreMayFail,       \* whether a write to the database can fail
    FallbackMayHappen,  \* whether the app may start beside a daemon it cannot use
    LaunchDuringStart,  \* whether `ys` may launch while the app settles what it found
    LaunchersMayDie,    \* whether a client may be killed in the middle of a launch
    DaemonMayDie, MayResume, MayClose

None == "none"

ASSUME ExitsAssumption ==
    /\ SpoolCap \in Nat
    /\ Drainers \subseteq {"app", "ys"} /\ "app" \in Drainers
    /\ None \notin Ptys \cup Records
    /\ {StoreMayFail, FallbackMayHappen, LaunchDuringStart, LaunchersMayDie,
        DaemonMayDie, MayResume, MayClose} \subseteq BOOLEAN

VARIABLES
    \* a launch: how far its client is, who that is, and the conversation it is for
    launch, by, rec,
    \* the daemon: the processes, the host's map, how far an exit's announcement is, the spool,
    \* how many exits it was too full for and, for the properties, which
    proc, hosted, sink, spool, dropped, lost,
    \* the database
    run, linked, row,
    \* the app: how far its startup is, the connection, events not handled, sessions listed
    phase, host, conn, queue, alive,
    \* what each client that drains the spool is doing
    task

launchVars == <<launch, by, rec>>
daemonVars == <<proc, hosted, sink, spool, dropped, lost>>
dbVars == <<run, linked, row>>
appVars == <<phase, host, conn, queue, alive>>
vars == <<launchVars, daemonVars, dbVars, appVars, task>>

LaunchSteps == {"idle", "begun", "spawning", "spawned", "linked", "settled",
                "recorded", "done", "dead"}
Phases == {"off", "importing", "imported", "listed", "tidied", "on"}
TaskSteps == {"idle", "list", "pick", "select", "update", "run", "adopt", "remove"}
Row == [state : {"absent", "running", "ended"}, pty : Ptys \cup {None}, code : BOOLEAN]
Idle == [step |-> "idle", at |-> None, live |-> FALSE, named |-> FALSE,
         found |-> None, todo |-> {}]

\* Every variable holds what the code can put there.
TypeOK ==
    /\ launch \in [Ptys -> LaunchSteps]
    /\ by \in [Ptys -> {None, "app", "ys"}]
    /\ rec \in [Ptys -> Records \cup {None}]
    /\ proc \in [Ptys -> {"none", "live", "exited", "gone"}]
    /\ hosted \subseteq Ptys
    /\ sink \in [Ptys -> {"none", "spool", "broadcast", "done"}]
    /\ spool \subseteq [pty : Ptys, named : BOOLEAN]
    /\ dropped \in Nat
    /\ lost \subseteq Ptys
    /\ run \in [Ptys -> {"absent", "open", "exited", "interrupted", "spawn_failed"}]
    /\ linked \in [Ptys -> BOOLEAN]
    /\ row \in [Records -> Row]
    /\ phase \in Phases
    /\ host \in {"daemon", "inprocess"}
    /\ conn \in BOOLEAN
    /\ queue \in Seq(Ptys)
    /\ alive \subseteq Ptys
    /\ task \in [Drainers -> [step : TaskSteps, at : Ptys \cup {None}, live : BOOLEAN,
                              named : BOOLEAN, found : Records \cup {None},
                              todo : SUBSET Ptys]]

Init ==
    /\ launch = [p \in Ptys |-> "idle"]
    /\ by = [p \in Ptys |-> None]
    /\ rec = [p \in Ptys |-> None]
    /\ proc = [p \in Ptys |-> "none"]
    /\ hosted = {}
    /\ sink = [p \in Ptys |-> "none"]
    /\ spool = {}
    /\ dropped = 0
    /\ lost = {}
    /\ run = [p \in Ptys |-> "absent"]
    /\ linked = [p \in Ptys |-> FALSE]
    /\ row = [r \in Records |-> [state |-> "absent", pty |-> None, code |-> FALSE]]
    /\ phase = "off"
    /\ host = "daemon"
    /\ conn = FALSE
    /\ queue = <<>>
    /\ alive = {}
    /\ task = [d \in Drainers |-> Idle]

---------------------------------------------------------------------------
\* The database

\* Whether a write succeeds: a store that is busy or broken refuses it.
Writes == IF StoreMayFail THEN BOOLEAN ELSE {TRUE}

Ended(code) == [state |-> "ended", pty |-> None, code |-> code]

\* (mutant) any record that runs
RunningInAny(p) == {r \in Records : row[r].state = "running"}

\* The record whose process runs in this PTY, if any.
RunningIn(p) == {r \in Records : row[r].state = "running" /\ row[r].pty = p}

\* (mutant) an exit found later replaces how the run was ended before
RecordExitAlways(p) == [run EXCEPT ![p] = IF @ # "absent" /\ linked[p] THEN "exited" ELSE @]

\* The run of a PTY after its exit is recorded: ended once, whichever way the news came.
RecordExit(p) == [run EXCEPT ![p] = IF @ = "open" /\ linked[p] THEN "exited" ELSE @]
---------------------------------------------------------------------------
\* A launch, in the app or in `ys`

InLaunch(p) == launch[p] \notin {"idle", "done", "dead"}

\* `ys` is held back while the app settles, unless the model allows the overlap.
MayLaunch(p) ==
    by[p] = "ys" /\ ~LaunchDuringStart => phase \notin {"listed", "tidied"}

Advance(p, step) == launch' = [launch EXCEPT ![p] = step]

\* A conversation that has no record yet, or, for a resume, which only the app offers, one
\* whose process has ended.
Startable(r, who) ==
    \/ row[r].state = "absent" /\ \A p \in Ptys : rec[p] # r
    \/ MayResume /\ who = "app" /\ row[r].state = "ended"

\* The run row is written first.  A write that fails leaves the launch unrecorded.
Begin(p) ==
    \E who \in {"app", "ys"}, r \in Records \cup {None}, ok \in Writes :
        /\ launch[p] = "idle"
        /\ who = "app" => phase = "on" /\ conn
        /\ r # None => Startable(r, who)
        /\ Advance(p, "begun")
        /\ by' = [by EXCEPT ![p] = who]
        /\ rec' = [rec EXCEPT ![p] = r]
        /\ run' = [run EXCEPT ![p] = IF ok THEN "open" ELSE "absent"]
        /\ UNCHANGED <<linked, row, daemonVars, appVars, task>>

\* The daemon starts the process and the threads that will report its end.
Spawn(p) ==
    /\ launch[p] = "begun" /\ MayLaunch(p)
    /\ by[p] = "app" => conn
    /\ Advance(p, "spawning")
    /\ proc' = [proc EXCEPT ![p] = "live"]
    /\ UNCHANGED <<by, rec, hosted, sink, spool, dropped, lost, dbVars, appVars, task>>

\* The program could not be started, or the daemon went away before it answered: the run
\* ends without a PTY.
SpawnFails(p) ==
    /\ \/ launch[p] = "begun"
       \/ launch[p] = "spawning" /\ proc[p] = "gone"
    /\ Advance(p, "done")
    /\ run' = [run EXCEPT ![p] = IF @ = "open" THEN "spawn_failed" ELSE @]
    /\ UNCHANGED <<by, rec, linked, row, daemonVars, appVars, task>>

\* Only then does the host put the session in its map, where it can be listed and asked about.
Insert(p) ==
    /\ launch[p] = "spawning" /\ MayLaunch(p)
    /\ proc[p] # "gone"
    /\ Advance(p, "spawned")
    /\ hosted' = hosted \cup {p}
    /\ UNCHANGED <<by, rec, proc, sink, spool, dropped, lost, dbVars, appVars, task>>

\* The run learns its PTY.
Spawned(p) ==
    /\ launch[p] = "spawned" /\ MayLaunch(p)
    /\ Advance(p, "linked")
    /\ \E ok \in Writes : linked' = [linked EXCEPT ![p] = @ \/ (ok /\ run[p] # "absent")]
    /\ UNCHANGED <<by, rec, run, row, daemonVars, appVars, task>>

\* Whether the host, asked about a session, says it exited.
SaysExited(p) == p \in hosted /\ proc[p] = "exited"

\* (mutant) the launch does not ask whether its process is gone already
SettleRunNever(p) ==
    /\ launch[p] = "linked" /\ MayLaunch(p)
    /\ Advance(p, IF rec[p] = None THEN "done" ELSE "settled")
    /\ UNCHANGED <<by, rec, dbVars, daemonVars, appVars, task>>

\* The process may be gone already: ask.
SettleRun(p) ==
    /\ launch[p] = "linked" /\ MayLaunch(p)
    /\ Advance(p, IF rec[p] = None THEN "done" ELSE "settled")
    /\ \E ok \in Writes :
        run' = IF SaysExited(p) /\ ok THEN RecordExit(p) ELSE run
    /\ UNCHANGED <<by, rec, linked, row, daemonVars, appVars, task>>
\* The conversation's record says it runs here: a new row, or a resumed one.  Within the app
\* the store's lock keeps this from coming between the two statements of another thread.
AddRecord(p) ==
    \E ok \in Writes :
        /\ by[p] = "app" => task["app"].step # "update"
        /\ launch[p] = "settled" /\ MayLaunch(p)
        /\ Advance(p, IF ok THEN "recorded" ELSE "done")
        /\ row' = IF ok
                  THEN [row EXCEPT ![rec[p]] = [state |-> "running", pty |-> p, code |-> FALSE]]
                  ELSE row
        /\ UNCHANGED <<by, rec, run, linked, daemonVars, appVars, task>>

\* The exit may have found no record to settle: settle it now.
SettleRecord(p) ==
    /\ launch[p] = "recorded" /\ MayLaunch(p)
    /\ Advance(p, "done")
    /\ \E ok \in Writes :
        IF SaysExited(p) /\ ok
        THEN /\ row' = [r \in Records |-> IF r \in RunningIn(p) THEN Ended(TRUE) ELSE row[r]]
             /\ run' = RecordExit(p)
        ELSE UNCHANGED <<row, run>>
    /\ UNCHANGED <<by, rec, linked, daemonVars, appVars, task>>
\* The client is killed in the middle of a launch.
LauncherDies(p) ==
    /\ LaunchersMayDie
    /\ InLaunch(p)
    /\ Advance(p, "dead")
    /\ hosted' = IF launch[p] = "spawning" /\ proc[p] # "gone"
                 THEN hosted \cup {p} ELSE hosted
    /\ UNCHANGED <<by, rec, proc, sink, spool, dropped, lost, dbVars, appVars, task>>

---------------------------------------------------------------------------
\* The daemon

\* The process ends, and the session's state says so.
Exit(p) ==
    /\ proc[p] = "live"
    /\ proc' = [proc EXCEPT ![p] = "exited"]
    /\ sink' = [sink EXCEPT ![p] = "spool"]
    /\ UNCHANGED <<hosted, spool, dropped, lost, launchVars, dbVars, appVars, task>>

\* (mutant) an exit somebody is connected to hear is not kept
SpoolExitUnheard(p) ==
    /\ sink[p] = "spool"
    /\ sink' = [sink EXCEPT ![p] = "broadcast"]
    /\ spool' = IF conn THEN spool ELSE spool \cup {[pty |-> p, named |-> p \in hosted]}
    /\ UNCHANGED <<proc, hosted, dropped, lost, launchVars, dbVars, appVars, task>>

\* The exit is kept before it is announced.  The entry is labelled with what the host's map
\* says of the session; a spool that is full counts the exit instead.
SpoolExit(p) ==
    /\ sink[p] = "spool"
    /\ sink' = [sink EXCEPT ![p] = "broadcast"]
    /\ IF Cardinality(spool) >= SpoolCap
       THEN dropped' = dropped + 1 /\ lost' = lost \cup {p} /\ UNCHANGED spool
       ELSE /\ spool' = spool \cup {[pty |-> p, named |-> p \in hosted /\ run[p] # "absent"]}
            /\ UNCHANGED <<dropped, lost>>
    /\ UNCHANGED <<proc, hosted, launchVars, dbVars, appVars, task>>
\* Then it is announced to every connection.
Broadcast(p) ==
    /\ sink[p] = "broadcast"
    /\ sink' = [sink EXCEPT ![p] = "done"]
    /\ queue' = IF conn THEN Append(queue, p) ELSE queue
    /\ UNCHANGED <<proc, hosted, spool, dropped, lost, launchVars, dbVars, phase, host, conn, alive,
                   task>>

\* A terminal is closed from the app: the session is killed if it runs, and forgotten.
Close(p) ==
    /\ MayClose /\ phase = "on" /\ conn
    /\ launch[p] = "done" /\ p \in hosted
    /\ hosted' = hosted \ {p}
    /\ UNCHANGED <<proc, sink, spool, dropped, lost, launchVars, dbVars, appVars, task>>

\* With no client and no process for a while the daemon stops, and forgets its sessions.
DaemonIdles ==
    /\ hosted # {} /\ ~conn
    /\ \A p \in Ptys : proc[p] # "live" /\ sink[p] \in {"none", "done"} /\ ~InLaunch(p)
    /\ hosted' = {}
    /\ UNCHANGED <<proc, sink, spool, dropped, lost, launchVars, dbVars, appVars, task>>

\* The daemon is killed: its processes go with it, and exits it has not kept are never known.
DaemonDies ==
    /\ DaemonMayDie
    /\ conn \/ hosted # {} \/ \E p \in Ptys : proc[p] = "live"
    /\ proc' = [p \in Ptys |->
                  IF proc[p] = "live" \/ sink[p] = "spool" THEN "gone" ELSE proc[p]]
    /\ sink' = [p \in Ptys |-> IF sink[p] = "none" THEN "none" ELSE "done"]
    /\ hosted' = {}
    /\ conn' = FALSE
    /\ UNCHANGED <<spool, dropped, lost, launchVars, dbVars, phase, host, queue, alive, task>>

---------------------------------------------------------------------------
\* Recording an exit, live or from the spool.  A task is either: it ends the record, then the
\* run, of the process `at`.

Set(d, t) == task' = [task EXCEPT ![d] = t]
Step(d, step) == task' = [task EXCEPT ![d].step = step]

\* The files waiting in the spool.
ListSpool(d) ==
    /\ task[d].step = "list"
    /\ Set(d, [Idle EXCEPT !.step = "pick", !.todo = {e.pty : e \in spool}])
    /\ UNCHANGED <<launchVars, daemonVars, dbVars, appVars>>

\* The next file.  One that another client took meanwhile cannot be read and is skipped.
ReadEntry(d) ==
    \E p \in task[d].todo :
        /\ task[d].step = "pick"
        /\ IF \E e \in spool : e.pty = p
           THEN \E e \in {x \in spool : x.pty = p} :
                   Set(d, [task[d] EXCEPT !.step = "select", !.at = p, !.named = e.named,
                                          !.todo = @ \ {p}])
           ELSE Set(d, [task[d] EXCEPT !.todo = @ \ {p}])
        /\ UNCHANGED <<launchVars, daemonVars, dbVars, appVars>>

\* The whole spool is drained; the count of what it had to drop is taken.
FinishImport(d) ==
    /\ task[d].step = "pick" /\ task[d].todo = {}
    /\ Set(d, Idle)
    /\ dropped' = 0
    /\ phase' = IF d = "app" /\ phase = "importing" THEN "imported" ELSE phase
    /\ UNCHANGED <<launchVars, proc, hosted, sink, spool, lost, dbVars, host, conn, queue, alive>>

\* end_session_by_pty_at, first statement: which record runs in this PTY.
SelectRecord(d) ==
    /\ task[d].step = "select"
    /\ IF RunningIn(task[d].at) = {}
       THEN Set(d, [task[d] EXCEPT !.step = "run", !.found = None])
       ELSE \E r \in RunningIn(task[d].at) :
               Set(d, [task[d] EXCEPT !.step = "update", !.found = r])
    /\ UNCHANGED <<launchVars, daemonVars, dbVars, appVars>>

\* Second statement: that record ended, with the exit's code.
EndRecord(d) ==
    /\ task[d].step = "update"
    /\ Step(d, "run")
    /\ \E ok \in Writes : row' = IF ok THEN [row EXCEPT ![task[d].found] = Ended(TRUE)] ELSE row
    /\ UNCHANGED <<launchVars, daemonVars, run, linked, appVars>>

\* The run of this PTY ends.  An exit no linked run is found for may have come before the
\* launcher linked it, which only a spooled entry can tell.
EndRun(d) ==
    LET p == task[d].at IN
    \E ok \in Writes :
        /\ task[d].step = "run"
        /\ run' = IF ok THEN RecordExit(p) ELSE run
        /\ Step(d, IF task[d].live THEN "list"
                   ELSE IF ok /\ linked[p] THEN "remove" ELSE "adopt")
        /\ UNCHANGED <<launchVars, daemonVars, linked, row, appVars>>

\* If the entry names a run still waiting for its PTY, the link is made here.
AdoptEarlyExit(d) ==
    LET p == task[d].at IN
    \E ok \in Writes :
        /\ task[d].step = "adopt"
        /\ Step(d, "remove")
        /\ IF task[d].named /\ run[p] = "open" /\ ~linked[p] /\ ok
           THEN /\ linked' = [linked EXCEPT ![p] = TRUE]
                /\ run' = [run EXCEPT ![p] = "exited"]
           ELSE UNCHANGED <<linked, run>>
        /\ UNCHANGED <<launchVars, daemonVars, row, appVars>>

\* The file goes.
RemoveEntry(d) ==
    /\ task[d].step = "remove"
    /\ spool' = {e \in spool : e.pty # task[d].at}
    /\ Set(d, [task[d] EXCEPT !.step = "pick", !.at = None, !.named = FALSE, !.found = None])
    /\ UNCHANGED <<launchVars, proc, hosted, sink, dropped, lost, dbVars, appVars>>

Import(d) ==
    \/ ListSpool(d) \/ ReadEntry(d) \/ FinishImport(d)
    \/ SelectRecord(d) \/ EndRecord(d) \/ EndRun(d) \/ AdoptEarlyExit(d) \/ RemoveEntry(d)

\* `ys` drains the spool before it asks the daemon anything.
YsDrain ==
    /\ "ys" \in Drainers
    /\ task["ys"].step = "idle"
    /\ Set("ys", [Idle EXCEPT !.step = "list"])
    /\ UNCHANGED <<launchVars, daemonVars, dbVars, appVars>>

---------------------------------------------------------------------------
\* The app

\* It connects first, so that agents left from an earlier run are found; or falls back to
\* terminals of its own beside a daemon it cannot use.  The spool is then drained.
Start ==
    /\ phase = "off"
    /\ phase' = "importing"
    /\ host' \in IF FallbackMayHappen THEN {"daemon", "inprocess"} ELSE {"daemon"}
    /\ conn' = (host' = "daemon")
    /\ queue' = <<>>
    /\ Set("app", [Idle EXCEPT !.step = "list"])
    /\ UNCHANGED <<alive, launchVars, daemonVars, dbVars>>

\* The sessions the host has, exited ones included.  Asked of a lost daemon it is empty.
ListAlive ==
    /\ phase = "imported"
    /\ phase' = "listed"
    /\ alive' = IF conn THEN hosted ELSE {}
    /\ UNCHANGED <<host, conn, queue, launchVars, daemonVars, dbVars, task>>
\* Records that only claim to be running are ended.
EndInterruptedSessions ==
    /\ phase = "listed"
    /\ phase' = "tidied"
    /\ row' = [r \in Records |->
                IF row[r].state = "running" /\ row[r].pty \notin alive THEN Ended(FALSE)
                ELSE row[r]]
    /\ UNCHANGED <<run, linked, host, conn, queue, alive, launchVars, daemonVars, task>>

\* (mutant) the records are tidied and the runs are not
EndInterruptedRunsNever ==
    /\ phase = "tidied"
    /\ phase' = "on"
    /\ alive' = {}
    /\ UNCHANGED <<dbVars, host, conn, queue, launchVars, daemonVars, task>>

\* So are the runs, the ones that never got a PTY only when they are old: their launcher is
\* gone.  The app's state is then in place, and events are handled from here on.
EndInterruptedRuns ==
    \E old \in SUBSET {p \in Ptys : launch[p] = "dead"}, ok \in Writes :
        /\ phase = "tidied"
        /\ phase' = "on"
        /\ run' = [p \in Ptys |->
                    IF ok /\ run[p] = "open" /\ (IF linked[p] THEN p \notin alive ELSE p \in old)
                    THEN "interrupted" ELSE run[p]]
        /\ alive' = {}
        /\ UNCHANGED <<linked, row, host, conn, queue, launchVars, daemonVars, task>>
\* The reader hands on the next event.  Before the app's state is in place it goes nowhere.
Hear ==
    /\ queue # <<>>
    /\ phase = "on" => task["app"].step = "idle"
    /\ queue' = Tail(queue)
    /\ IF phase = "on"
       THEN Set("app", [Idle EXCEPT !.step = "select", !.at = Head(queue), !.live = TRUE])
       ELSE UNCHANGED task
    /\ UNCHANGED <<phase, host, conn, alive, launchVars, daemonVars, dbVars>>

\* The window is closed, or the app is killed.  What it was doing stops where it is.
Quit ==
    /\ phase # "off"
    /\ LaunchersMayDie \/ \A p \in Ptys : ~(InLaunch(p) /\ by[p] = "app")
    /\ launch' = [p \in Ptys |-> IF InLaunch(p) /\ by[p] = "app" THEN "dead" ELSE launch[p]]
    /\ hosted' = hosted \cup {p \in Ptys : by[p] = "app" /\ launch[p] = "spawning"
                                            /\ proc[p] # "gone"}
    /\ phase' = "off" /\ conn' = FALSE /\ queue' = <<>> /\ alive' = {}
    /\ Set("app", Idle)
    /\ UNCHANGED <<host, by, rec, proc, sink, spool, dropped, lost, dbVars>>

---------------------------------------------------------------------------

Launching(p) ==
    \/ Begin(p) \/ Spawn(p) \/ SpawnFails(p) \/ Insert(p) \/ Spawned(p)
    \/ SettleRun(p) \/ AddRecord(p) \/ SettleRecord(p)

Next ==
    \/ \E p \in Ptys : Launching(p) \/ LauncherDies(p)
    \/ \E p \in Ptys : Exit(p) \/ SpoolExit(p) \/ Broadcast(p) \/ Close(p)
    \/ DaemonIdles \/ DaemonDies
    \/ \E d \in Drainers : Import(d)
    \/ YsDrain
    \/ Start \/ ListAlive \/ EndInterruptedSessions \/ EndInterruptedRuns \/ Hear \/ Quit

Spec == Init /\ [][Next]_vars

\* Threads that have something to do do it.  Nothing makes a process end, a client launch or
\* drain, or the app start or quit.
Fairness ==
    /\ \A p \in Ptys : /\ WF_vars(Spawn(p) \/ Insert(p) \/ Spawned(p) \/ SettleRun(p)
                                  \/ AddRecord(p) \/ SettleRecord(p))
                       /\ WF_vars(SpoolExit(p) \/ Broadcast(p))
    /\ \A d \in Drainers : WF_vars(Import(d))
    /\ WF_vars(Hear)
    /\ WF_vars(ListAlive \/ EndInterruptedSessions \/ EndInterruptedRuns)

FairSpec == Spec /\ Fairness

---------------------------------------------------------------------------
\* What the records promise

InSpool(p) == \E e \in spool : e.pty = p

\* An exit the daemon has kept is never lost: the run has it, or the spool still does, or the
\* launcher has yet to ask about a process that ended before it was linked; and a record that still
\* claims to run is corrected from the spool, or by the launch that just wrote it
\* (activity.rs import_spool and record_exit, launch.rs settle_record, server.rs serve_with).
RunKnows(p) ==
    \/ run[p] = "exited"
    \/ run[p] = "open" /\ (InSpool(p) \/ launch[p] \in {"spawning", "spawned", "linked"})

RecordKnows(p) ==
    (\E r \in Records : row[r].state = "running" /\ row[r].pty = p) =>
        InSpool(p) \/ launch[p] = "recorded"

ExitKept ==
    \A p \in Ptys : proc[p] = "exited" /\ sink[p] # "spool" /\ p \notin lost =>
        (run[p] # "absent" => RunKnows(p)) /\ RecordKnows(p)

\* A run is called interrupted, or a record ended, only when no process is running for it: what
\* is still there stays running (store.rs end_interrupted_sessions, end_interrupted_runs and
\* end_session_by_pty_at).
EndedIsTrue ==
    \A p \in Ptys : proc[p] = "live" =>
        /\ run[p] # "interrupted"
        /\ rec[p] # None /\ launch[p] \in {"recorded", "done"} => row[rec[p]].state = "running"

\* However often and in whatever order an exit is delivered, a run ends once
\* (store.rs end_run_by_pty, end_run and end_interrupted_runs).
RunsEndOnce ==
    [][\A p \in Ptys : run[p] \in {"exited", "interrupted", "spawn_failed"} =>
                       run'[p] = run[p]]_vars

\* An exit the running app hears is recorded, unless the app, the launcher or the daemon stops
\* first (lib.rs, the event sink given to daemon::connect).
HeardExitRecorded ==
    \A p \in Ptys :
        (phase = "on" /\ \E i \in DOMAIN queue : queue[i] = p)
            ~> (run[p] # "open" \/ launch[p] = "dead" \/ ~conn \/ phase = "off")

\* A run whose process went with its daemon is ended the next time the app starts, unless the
\* app stops first (lib.rs startup).
GoneSettled ==
    \A p \in Ptys :
        (phase = "importing" /\ proc[p] = "gone" /\ linked[p])
            ~> (run[p] # "open" \/ phase = "off")
=============================================================================
