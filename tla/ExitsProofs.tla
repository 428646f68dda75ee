---------------------------- MODULE ExitsProofs ----------------------------
(***************************************************************************)
(* Proofs about Exits, for any number of launches, conversations and       *)
(* files in the spool.                                                     *)
(***************************************************************************)
EXTENDS Exits, TLAPS

USE DEF launchVars, daemonVars, dbVars, appVars, None

\* No write is refused, nobody is killed, no terminal is closed, the app has the daemon, and `ys`
\* does not launch while the app settles what it found.  Each of the six is needed: the README tells how
\* the records go wrong without it.
Undisturbed ==
    /\ StoreMayFail = FALSE /\ FallbackMayHappen = FALSE /\ LaunchDuringStart = FALSE
    /\ LaunchersMayDie = FALSE /\ DaemonMayDie = FALSE /\ MayClose = FALSE

Early == {"idle", "begun", "spawning"}
Asking == {"spawning", "spawned", "linked"}
Telling == {"select", "update", "run", "adopt", "remove"}

\* How far the process, its reporting thread, the host and the run are at each place of a launch.
LaunchFits(p) ==
    /\ launch[p] # "dead" /\ proc[p] # "gone"
    /\ run[p] = "absent" <=> launch[p] = "idle"
    /\ proc[p] = "none" <=> launch[p] \in {"idle", "begun"} \/ run[p] = "spawn_failed"
    /\ proc[p] = "exited" <=> sink[p] # "none"
    /\ proc[p] = "live" => run[p] = "open"
    /\ run[p] = "spawn_failed" => launch[p] = "done"
    /\ launch[p] \in Early => p \notin hosted /\ ~ linked[p]
    /\ launch[p] \in {"begun", "spawning"} => run[p] = "open"
    /\ launch[p] \in {"spawned", "linked", "settled", "recorded"} => p \in hosted
    /\ launch[p] \in {"linked", "settled", "recorded"} => linked[p]
    /\ launch[p] = "done" => linked[p] \/ run[p] = "spawn_failed"
    /\ proc[p] = "live" \/ sink[p] \in {"spool", "broadcast"} => launch[p] = "spawning" \/ p \in hosted
    /\ p \in lost \/ InSpool(p) => proc[p] = "exited" /\ sink[p] # "spool"

\* Only a launch with a conversation writes a record.
SettledFits == \A p \in Ptys : launch[p] \in {"settled", "recorded"} => rec[p] \in Records

\* The app is connected while it runs, and only then launches; what it listed is what there is.
PhaseFits ==
    /\ conn <=> phase # "off"
    /\ \A p \in Ptys : InLaunch(p) /\ by[p] = "app" => phase = "on"
    /\ \A p \in Ptys : InLaunch(p) => by[p] \in {"app", "ys"}
    /\ phase \in {"listed", "tidied"} => alive = hosted
    /\ \A i \in DOMAIN queue : proc[queue[i]] = "exited" /\ sink[queue[i]] # "spool"

\* A record that runs names the launch that wrote it.
RecordsFit ==
    \A r \in Records : row[r].state = "running" =>
        /\ row[r].pty \in Ptys /\ rec[row[r].pty] = r
        /\ launch[row[r].pty] \in {"recorded", "done"}

\* What has been told of the exit of a process: its record is settled, or about to be; so is its run.
RecordTold(p) == RunningIn(p) = {} \/ launch[p] = "recorded"
RunTold(p) == p \in lost \/ run[p] = "exited" \/ launch[p] \in Asking

\* An entry that names its session was labelled when the host had it.
EntriesFit == \A e \in spool : e.named = TRUE => launch[e.pty] \notin Early

\* Whoever carries the news of an exit has done what its steps so far were to do.
TaskFits(d) ==
    /\ task[d].step \in Telling =>
          /\ task[d].at \in Ptys /\ proc[task[d].at] = "exited" /\ sink[task[d].at] # "spool"
          /\ task[d].named = TRUE => launch[task[d].at] \notin Early
    /\ task[d].step = "update" =>
          task[d].found \in Records /\ task[d].found = rec[task[d].at] /\ row[task[d].found].state # "absent"
    /\ task[d].step \in {"run", "adopt", "remove"} => RecordTold(task[d].at)
    /\ task[d].step \in {"adopt", "remove"} => RunTold(task[d].at)

TasksFit == \A d \in Drainers : TaskFits(d)

\* An exit that was kept is not forgotten.
KeptFits(p) ==
    /\ p \notin lost /\ proc[p] \in {"live", "exited"} => run[p] \in {"open", "exited"}
    /\ p \notin lost /\ proc[p] = "exited" /\ sink[p] # "spool" =>
          (RunTold(p) \/ InSpool(p)) /\ (RecordTold(p) \/ InSpool(p))

\* What the app may still find in the spool of a process the host has forgotten.
Unread(p) ==
    /\ phase = "importing"
    /\ \/ task["app"].step = "list"
       \/ task["app"].step \notin {"idle", "list"} /\ p \in task["app"].todo
       \/ task["app"].step \in {"select", "update", "run"} /\ task["app"].at = p

\* So that no run is called interrupted whose exit is known.
UnreadFits ==
    \A p \in Ptys : run[p] = "open" /\ linked[p] /\ p \notin hosted /\ p \notin lost =>
        phase = "off" \/ Unread(p)

LaunchesFit == \A p \in Ptys : LaunchFits(p)
AllKept == \A p \in Ptys : KeptFits(p)

KeptInv ==
    /\ LaunchesFit /\ AllKept
    /\ SettledFits /\ PhaseFits /\ RecordsFit /\ EntriesFit /\ TasksFit /\ UnreadFits

\* A conversation is launched by one client at a time.
OneAtOnce ==
    \A p, q \in Ptys : rec[p] = rec[q] /\ rec[p] # None /\ InLaunch(p) /\ InLaunch(q) => p = q

\* Whose record the launch of a process has not written yet.
Unwritten(p) == launch[p] \in {"begun", "spawning", "spawned", "linked", "settled"} /\ rec[p] # None

\* The record of a conversation is of the process that runs for it.
OwnInv ==
    /\ \A p \in Ptys : proc[p] = "live" /\ rec[p] # None /\ launch[p] \in {"recorded", "done"} =>
          row[rec[p]].state = "running" /\ row[rec[p]].pty = p
    /\ \A p \in Ptys : Unwritten(p) =>
          /\ row[rec[p]].state # "running"
          /\ by[p] = "ys" \/ ~ MayResume => row[rec[p]].state = "absent"
    /\ \A d \in Drainers : task[d].step = "update" /\ row[task[d].found].state = "running" =>
          row[task[d].found].pty = task[d].at

\* What a client that drains the spool is doing.
TaskRecords ==
    [step : TaskSteps, at : Ptys \cup {None}, live : BOOLEAN, named : BOOLEAN,
     found : Records \cup {None}, todo : SUBSET Ptys]

\* To set one task leaves the others.
LEMMA SetTask ==
    ASSUME TypeOK, NEW d \in Drainers, NEW t \in TaskRecords, task' = [task EXCEPT ![d] = t]
    PROVE  /\ task' \in [Drainers -> TaskRecords]
           /\ task'[d] = t /\ \A e \in Drainers : e # d => task'[e] = task[e]
<1>1. task \in [Drainers -> TaskRecords]
  BY DEF TypeOK, TaskRecords
<1> HIDE DEF TaskRecords
<1>. QED  BY <1>1

\* What each step makes of the task of who takes it.
TaskIs(d, step, at, found, todo) ==
    /\ task' \in [Drainers -> TaskRecords]
    /\ \A e \in Drainers : e # d => task'[e] = task[e]
    /\ task'[d].step = step /\ task'[d].at = at /\ task'[d].found = found /\ task'[d].todo = todo

\* Each step of a drain or of the app's startup, as what it makes of the task.
LEMMA TaskSets ==
    ASSUME TypeOK, NEW d \in Drainers
    PROVE  LET t == task[d] IN
           /\ ListSpool(d) => TaskIs(d, "pick", None, None, {e.pty : e \in spool})
           /\ ReadEntry(d) => \E p \in t.todo :
                 \/ InSpool(p) /\ TaskIs(d, "select", p, t.found, t.todo \ {p})
                 \/ ~ InSpool(p) /\ TaskIs(d, t.step, t.at, t.found, t.todo \ {p})
           /\ FinishImport(d) => TaskIs(d, "idle", None, None, {})
           /\ SelectRecord(d) =>
                 \/ RunningIn(t.at) = {} /\ TaskIs(d, "run", t.at, None, t.todo)
                 \/ \E r \in RunningIn(t.at) : TaskIs(d, "update", t.at, r, t.todo)
           /\ EndRecord(d) => TaskIs(d, "run", t.at, t.found, t.todo)
           /\ EndRun(d) => \/ t.live /\ TaskIs(d, "list", t.at, t.found, t.todo)
                           \/ linked[t.at] /\ TaskIs(d, "remove", t.at, t.found, t.todo)
                           \/ ~ linked[t.at] /\ TaskIs(d, "adopt", t.at, t.found, t.todo)
                           \/ StoreMayFail /\ TaskIs(d, "adopt", t.at, t.found, t.todo)
           /\ AdoptEarlyExit(d) => TaskIs(d, "remove", t.at, t.found, t.todo)
           /\ RemoveEntry(d) => TaskIs(d, "pick", None, None, t.todo)
           /\ YsDrain => "ys" \in Drainers /\ TaskIs("ys", "list", None, None, {})
           /\ Start => TaskIs("app", "list", None, None, {})
           /\ Hear => \/ phase = "on" /\ TaskIs("app", "select", Head(queue), None, {})
                      \/ phase # "on" /\ task' = task
           /\ Quit => TaskIs("app", "idle", None, None, {})
<1> DEFINE t == task[d]
<1>0. /\ t \in TaskRecords /\ "app" \in Drainers
      /\ {"idle", "list", "pick", "select", "update", "run", "adopt", "remove"} = TaskSteps
      /\ {e.pty : e \in spool} \in SUBSET Ptys
      /\ \A p : RunningIn(p) \subseteq Records
      /\ t.todo \in SUBSET Ptys /\ t.at \in Ptys \cup {None} /\ t.found \in Records \cup {None}
  BY ExitsAssumption DEF TypeOK, TaskRecords, TaskSteps, RunningIn
<1> HIDE DEF TaskRecords
<1>1. ASSUME ListSpool(d) PROVE TaskIs(d, "pick", None, None, {e.pty : e \in spool})
  <2> DEFINE u == [Idle EXCEPT !.step = "pick", !.todo = {e.pty : e \in spool}]
  <2>1. u \in TaskRecords /\ u.step = "pick" /\ u.at = None /\ u.found = None /\ u.todo = {e.pty : e \in spool}
    BY <1>0 DEF TaskRecords, TaskSteps, Idle
  <2>2. task' = [task EXCEPT ![d] = u]
    BY <1>1 DEF ListSpool, Set
  <2>. QED  BY <2>1, <2>2, SetTask DEF TaskIs
<1>2. ASSUME ReadEntry(d)
      PROVE  \E p \in t.todo :
                 \/ InSpool(p) /\ TaskIs(d, "select", p, t.found, t.todo \ {p})
                 \/ ~ InSpool(p) /\ TaskIs(d, t.step, t.at, t.found, t.todo \ {p})
  <2>1. PICK p \in t.todo :
          IF \E e \in spool : e.pty = p
          THEN \E e \in {x \in spool : x.pty = p} :
                   task' = [task EXCEPT ![d] = [t EXCEPT !.step = "select", !.at = p, !.named = e.named,
                                          !.todo = @ \ {p}]]
          ELSE task' = [task EXCEPT ![d] = [t EXCEPT !.todo = @ \ {p}]]
    BY <1>2 DEF ReadEntry, Set
  <2>2. p \in Ptys /\ t.todo \ {p} \in SUBSET Ptys
    BY <1>0, <2>1
  <2>3. CASE ~ InSpool(p)
    <3> DEFINE u == [t EXCEPT !.todo = t.todo \ {p}]
    <3>1. task' = [task EXCEPT ![d] = u]
      BY <2>1, <2>3 DEF InSpool
    <3>2. u \in TaskRecords /\ u.step = t.step /\ u.at = t.at /\ u.found = t.found /\ u.todo = t.todo \ {p}
      BY <1>0, <2>2 DEF TaskRecords, TaskSteps, Idle
    <3>3. TaskIs(d, t.step, t.at, t.found, t.todo \ {p})
      BY <3>1, <3>2, SetTask DEF TaskIs
    <3>. QED  BY <2>1, <2>3, <3>3
  <2>4. CASE InSpool(p)
    <3>1. PICK e \in spool : task' = [task EXCEPT ![d] = [t EXCEPT !.step = "select", !.at = p, !.named = e.named,
                                          !.todo = t.todo \ {p}]]
      BY <2>1, <2>4 DEF InSpool
    <3>2. e.named \in BOOLEAN
      BY <3>1 DEF TypeOK
    <3> DEFINE u == [t EXCEPT !.step = "select", !.at = p, !.named = e.named, !.todo = t.todo \ {p}]
    <3>3. u \in TaskRecords /\ u.step = "select" /\ u.at = p /\ u.found = t.found /\ u.todo = t.todo \ {p}
      BY <1>0, <2>2, <3>2 DEF TaskRecords, TaskSteps, Idle
    <3>4. TaskIs(d, "select", p, t.found, t.todo \ {p})
      BY <3>1, <3>3, SetTask DEF TaskIs
    <3>. QED  BY <2>1, <2>4, <3>4
  <2>. QED  BY <2>3, <2>4
<1>3. ASSUME FinishImport(d) PROVE TaskIs(d, "idle", None, None, {})
  <2>1. Idle \in TaskRecords /\ Idle.step = "idle" /\ Idle.at = None /\ Idle.found = None /\ Idle.todo = {}
    BY <1>0 DEF TaskRecords, TaskSteps, Idle
  <2>2. task' = [task EXCEPT ![d] = Idle]
    BY <1>3 DEF FinishImport, Set
  <2>. QED  BY <2>1, <2>2, SetTask DEF TaskIs
<1>4. ASSUME SelectRecord(d)
      PROVE  \/ RunningIn(t.at) = {} /\ TaskIs(d, "run", t.at, None, t.todo)
             \/ \E r \in RunningIn(t.at) : TaskIs(d, "update", t.at, r, t.todo)
  <2>1. ASSUME NEW s \in TaskSteps, NEW f \in Records \cup {None},
               task' = [task EXCEPT ![d] = [t EXCEPT !.step = s, !.found = f]]
        PROVE  TaskIs(d, s, t.at, f, t.todo)
    <3> DEFINE u == [t EXCEPT !.step = s, !.found = f]
    <3>1. u \in TaskRecords /\ u.step = s /\ u.at = t.at /\ u.found = f /\ u.todo = t.todo
      BY <1>0 DEF TaskRecords, TaskSteps, Idle
    <3>. QED  BY <2>1, <3>1, SetTask DEF TaskIs
  <2>2. CASE RunningIn(t.at) = {}
    BY <1>0, <1>4, <2>1, <2>2 DEF SelectRecord, Set
  <2>3. CASE RunningIn(t.at) # {}
    <3>1. PICK r \in RunningIn(t.at) : task' = [task EXCEPT ![d] = [t EXCEPT !.step = "update", !.found = r]]
      BY <1>4, <2>3 DEF SelectRecord, Set
    <3>. QED  BY <1>0, <2>1, <3>1
  <2>. QED  BY <2>2, <2>3
<1>5. ASSUME NEW s \in TaskSteps, task' = [task EXCEPT ![d].step = s]
      PROVE  TaskIs(d, s, t.at, t.found, t.todo)
  <2> DEFINE u == [t EXCEPT !.step = s]
  <2>1. u \in TaskRecords /\ u.step = s /\ u.at = t.at /\ u.found = t.found /\ u.todo = t.todo
    BY <1>0 DEF TaskRecords, TaskSteps, Idle
  <2>2. task' = [task EXCEPT ![d] = u]
    BY <1>5
  <2>. QED  BY <2>1, <2>2, SetTask DEF TaskIs
<1>6. EndRecord(d) => TaskIs(d, "run", t.at, t.found, t.todo)
  BY <1>0, <1>5 DEF EndRecord, Step
<1>7. ASSUME EndRun(d)
      PROVE  \/ t.live /\ TaskIs(d, "list", t.at, t.found, t.todo)
             \/ linked[t.at] /\ TaskIs(d, "remove", t.at, t.found, t.todo)
             \/ ~ linked[t.at] /\ TaskIs(d, "adopt", t.at, t.found, t.todo)
             \/ StoreMayFail /\ TaskIs(d, "adopt", t.at, t.found, t.todo)
  <2>1. PICK ok \in Writes :
          task' = [task EXCEPT ![d].step = IF t.live THEN "list"
                                           ELSE IF ok /\ linked[t.at] THEN "remove" ELSE "adopt"]
    BY <1>7 DEF EndRun, Step
  <2>2. ok \/ StoreMayFail
    BY <2>1 DEF Writes
  <2>3. CASE t.live
    BY <1>0, <1>5, <2>1, <2>3
  <2>4. CASE ~ t.live /\ ok /\ linked[t.at]
    BY <1>0, <1>5, <2>1, <2>4
  <2>5. CASE ~ t.live /\ ~ (ok /\ linked[t.at])
    <3>1. TaskIs(d, "adopt", t.at, t.found, t.todo)
      BY <1>0, <1>5, <2>1, <2>5
    <3>. QED  BY <2>2, <2>5, <3>1
  <2>. QED  BY <2>3, <2>4, <2>5
<1>8. AdoptEarlyExit(d) => TaskIs(d, "remove", t.at, t.found, t.todo)
  BY <1>0, <1>5 DEF AdoptEarlyExit, Step
<1>9. ASSUME RemoveEntry(d) PROVE TaskIs(d, "pick", None, None, t.todo)
  <2> DEFINE u == [t EXCEPT !.step = "pick", !.at = None, !.named = FALSE, !.found = None]
  <2>1. u \in TaskRecords /\ u.step = "pick" /\ u.at = None /\ u.found = None /\ u.todo = t.todo
    BY <1>0 DEF TaskRecords, TaskSteps, Idle
  <2>2. task' = [task EXCEPT ![d] = u]
    BY <1>9 DEF RemoveEntry, Set
  <2>. QED  BY <2>1, <2>2, SetTask DEF TaskIs
<1>10. ASSUME NEW e \in Drainers, task' = [task EXCEPT ![e] = [Idle EXCEPT !.step = "list"]]
       PROVE  TaskIs(e, "list", None, None, {})
  <2> DEFINE u == [Idle EXCEPT !.step = "list"]
  <2>1. u \in TaskRecords /\ u.step = "list" /\ u.at = None /\ u.found = None /\ u.todo = {}
    BY <1>0 DEF TaskRecords, TaskSteps, Idle
  <2>. QED  BY <1>10, <2>1, SetTask DEF TaskIs
<1>11. YsDrain => "ys" \in Drainers /\ TaskIs("ys", "list", None, None, {})
  BY <1>10 DEF YsDrain, Set
<1>12. Start => TaskIs("app", "list", None, None, {})
  BY <1>0, <1>10 DEF Start, Set
<1>13. ASSUME Hear
       PROVE  \/ phase = "on" /\ TaskIs("app", "select", Head(queue), None, {})
              \/ phase # "on" /\ task' = task
  <2>1. Head(queue) \in Ptys
    BY <1>13 DEF Hear, TypeOK
  <2>2. CASE phase = "on"
    <3> DEFINE u == [Idle EXCEPT !.step = "select", !.at = Head(queue), !.live = TRUE]
    <3>1. u \in TaskRecords /\ u.step = "select" /\ u.at = Head(queue) /\ u.found = None /\ u.todo = {}
      BY <1>0, <2>1 DEF TaskRecords, TaskSteps, Idle
    <3>2. task' = [task EXCEPT !["app"] = u]
      BY <1>13, <2>2 DEF Hear, Set
    <3>3. TaskIs("app", "select", Head(queue), None, {})
      BY <1>0, <3>1, <3>2, SetTask DEF TaskIs
    <3>. QED  BY <2>2, <3>3
  <2>3. CASE phase # "on"
    BY <1>13, <2>3 DEF Hear
  <2>. QED  BY <2>2, <2>3
<1>14. ASSUME Quit PROVE TaskIs("app", "idle", None, None, {})
  <2>1. Idle \in TaskRecords /\ Idle.step = "idle" /\ Idle.at = None /\ Idle.found = None /\ Idle.todo = {}
    BY <1>0 DEF TaskRecords, TaskSteps, Idle
  <2>2. task' = [task EXCEPT !["app"] = Idle]
    BY <1>14 DEF Quit, Set
  <2>. QED  BY <1>0, <2>1, <2>2, SetTask DEF TaskIs
<1>. QED  BY <1>1, <1>2, <1>3, <1>4, <1>6, <1>7, <1>8, <1>9, <1>11, <1>12, <1>13, <1>14

\* Every step keeps the types.
LEMMA TypesStep ==
    ASSUME TypeOK, Next
    PROVE  TypeOK'
<1>0. "app" \in Drainers
  BY ExitsAssumption
<1>1. ASSUME NEW p \in Ptys, Begin(p) PROVE TypeOK'
  BY <1>1 DEF Begin, TypeOK, Phases, LaunchSteps, Advance, Writes
<1>2. ASSUME NEW p \in Ptys, Spawn(p) PROVE TypeOK'
  BY <1>2 DEF Spawn, TypeOK, Phases, LaunchSteps, Advance, Writes
<1>3. ASSUME NEW p \in Ptys, SpawnFails(p) PROVE TypeOK'
  BY <1>3 DEF SpawnFails, TypeOK, Phases, LaunchSteps, Advance, Writes
<1>4. ASSUME NEW p \in Ptys, Insert(p) PROVE TypeOK'
  BY <1>4 DEF Insert, TypeOK, Phases, LaunchSteps, Advance, Writes
<1>5. ASSUME NEW p \in Ptys, Spawned(p) PROVE TypeOK'
  BY <1>5 DEF Spawned, TypeOK, Phases, LaunchSteps, Advance, Writes
<1>6. ASSUME NEW p \in Ptys, SettleRun(p) PROVE TypeOK'
  BY <1>6 DEF SettleRun, TypeOK, Phases, LaunchSteps, Advance, Writes, RecordExit
<1>7. ASSUME NEW p \in Ptys, AddRecord(p) PROVE TypeOK'
  <2>1. row' \in [Records -> Row]
    <3>1. [state |-> "running", pty |-> p, code |-> FALSE] \in Row
      BY DEF Row
    <3>. QED  BY <1>7, <3>1 DEF AddRecord, TypeOK
  <2>. QED  BY <1>7, <2>1 DEF AddRecord, TypeOK, Advance, LaunchSteps, Writes
<1>8. ASSUME NEW p \in Ptys, SettleRecord(p) PROVE TypeOK'
  <2>0. Ended(TRUE) \in Row
    BY DEF Ended, Row
  <2>a. \/ row' = row /\ run' = run
        \/ row' = [r \in Records |-> IF r \in RunningIn(p) THEN Ended(TRUE) ELSE row[r]] /\ run' = RecordExit(p)
    BY <1>8 DEF SettleRecord
  <2>1. row' \in [Records -> Row]
    <3> DEFINE settled == [r \in Records |-> IF r \in RunningIn(p) THEN Ended(TRUE) ELSE row[r]]
    <3>1. settled \in [Records -> Row]
      BY <2>0 DEF TypeOK
    <3>. QED  BY <2>a, <3>1 DEF TypeOK
  <2>b. RecordExit(p) \in [Ptys -> {"absent", "open", "exited", "interrupted", "spawn_failed"}]
    BY DEF TypeOK, RecordExit
  <2>2. run' \in [Ptys -> {"absent", "open", "exited", "interrupted", "spawn_failed"}]
    BY <2>a, <2>b DEF TypeOK
  <2>. QED  BY <1>8, <2>1, <2>2 DEF SettleRecord, TypeOK, Advance, LaunchSteps
<1>9. ASSUME NEW p \in Ptys, LauncherDies(p) PROVE TypeOK'
  BY <1>9 DEF LauncherDies, TypeOK, Phases, LaunchSteps, Advance, Writes
<1>10. ASSUME NEW p \in Ptys, Exit(p) PROVE TypeOK'
  BY <1>10 DEF Exit, TypeOK, Phases, LaunchSteps
<1>11. ASSUME NEW p \in Ptys, SpoolExit(p) PROVE TypeOK'
  <2>1. spool' \subseteq [pty : Ptys, named : BOOLEAN]
    <3> DEFINE e == [pty |-> p, named |-> p \in hosted /\ run[p] # "absent"]
    <3>1. e \in [pty : Ptys, named : BOOLEAN]
      OBVIOUS
    <3>2. spool' = spool \/ spool' = spool \cup {e}
      BY <1>11 DEF SpoolExit
    <3> HIDE DEF e
    <3>3. spool \subseteq [pty : Ptys, named : BOOLEAN]
      BY DEF TypeOK
    <3>. QED  BY <3>1, <3>2, <3>3
  <2>2. dropped' \in Nat /\ lost' \subseteq Ptys
    BY <1>11 DEF SpoolExit, TypeOK
  <2>3. sink' \in [Ptys -> {"none", "spool", "broadcast", "done"}]
    BY <1>11 DEF SpoolExit, TypeOK
  <2>. QED  BY <1>11, <2>1, <2>2, <2>3 DEF SpoolExit, TypeOK
<1>12. ASSUME NEW p \in Ptys, Broadcast(p) PROVE TypeOK'
  BY <1>12 DEF Broadcast, TypeOK, Phases, LaunchSteps
<1>13. ASSUME NEW p \in Ptys, Close(p) PROVE TypeOK'
  BY <1>13 DEF Close, TypeOK, Phases, LaunchSteps
<1>14. CASE DaemonIdles
  BY <1>14 DEF DaemonIdles, TypeOK, Phases, LaunchSteps
<1>15. CASE DaemonDies
  BY <1>15 DEF DaemonDies, TypeOK, Phases, LaunchSteps
<1>16. ASSUME NEW d \in Drainers, ListSpool(d) PROVE TypeOK'
  <2>1. task' \in [Drainers -> TaskRecords]
    BY <1>16, <1>0, TaskSets DEF TaskIs
  <2>. QED  BY <1>16, <2>1, ExitsAssumption DEF ListSpool, TypeOK, TaskRecords, Phases, LaunchSteps
<1>17. ASSUME NEW d \in Drainers, ReadEntry(d) PROVE TypeOK'
  <2>1. task' \in [Drainers -> TaskRecords]
    BY <1>17, TaskSets DEF TaskIs
  <2>. QED  BY <1>17, <2>1 DEF ReadEntry, TypeOK, TaskRecords
<1>18. ASSUME NEW d \in Drainers, FinishImport(d) PROVE TypeOK'
  <2>1. task' \in [Drainers -> TaskRecords]
    BY <1>18, <1>0, TaskSets DEF TaskIs
  <2>. QED  BY <1>18, <2>1, ExitsAssumption DEF FinishImport, TypeOK, TaskRecords, Phases, LaunchSteps
<1>19. ASSUME NEW d \in Drainers, SelectRecord(d) PROVE TypeOK'
  <2>1. task' \in [Drainers -> TaskRecords]
    BY <1>19, <1>0, TaskSets DEF TaskIs
  <2>. QED  BY <1>19, <2>1, ExitsAssumption DEF SelectRecord, TypeOK, TaskRecords, Phases, LaunchSteps
<1>20. ASSUME NEW d \in Drainers, EndRecord(d) PROVE TypeOK'
  <2>0. Ended(TRUE) \in Row
    BY DEF Ended, Row
  <2>1. row' \in [Records -> Row]
    BY <1>20, <2>0 DEF EndRecord, TypeOK
  <2>2. task' \in [Drainers -> TaskRecords]
    BY <1>20, TaskSets DEF TaskIs
  <2>. QED  BY <1>20, <2>1, <2>2 DEF EndRecord, TypeOK, TaskRecords
<1>21. ASSUME NEW d \in Drainers, EndRun(d) PROVE TypeOK'
  <2>a. run' = run \/ run' = RecordExit(task[d].at)
    BY <1>21 DEF EndRun
  <2>b. RecordExit(task[d].at) \in [Ptys -> {"absent", "open", "exited", "interrupted", "spawn_failed"}]
    BY DEF TypeOK, RecordExit
  <2>1. run' \in [Ptys -> {"absent", "open", "exited", "interrupted", "spawn_failed"}]
    BY <2>a, <2>b DEF TypeOK
  <2>2. task' \in [Drainers -> TaskRecords]
    BY <1>21, TaskSets DEF TaskIs
  <2>. QED  BY <1>21, <2>1, <2>2 DEF EndRun, TypeOK, TaskRecords
<1>22. ASSUME NEW d \in Drainers, AdoptEarlyExit(d) PROVE TypeOK'
  <2>1. /\ run' \in [Ptys -> {"absent", "open", "exited", "interrupted", "spawn_failed"}]
        /\ linked' \in [Ptys -> BOOLEAN]
    BY <1>22 DEF AdoptEarlyExit, TypeOK
  <2>2. task' \in [Drainers -> TaskRecords]
    BY <1>22, TaskSets DEF TaskIs
  <2>. QED  BY <1>22, <2>1, <2>2 DEF AdoptEarlyExit, TypeOK, TaskRecords
<1>23. ASSUME NEW d \in Drainers, RemoveEntry(d) PROVE TypeOK'
  <2>1. task' \in [Drainers -> TaskRecords]
    BY <1>23, <1>0, TaskSets DEF TaskIs
  <2>. QED  BY <1>23, <2>1, ExitsAssumption DEF RemoveEntry, TypeOK, TaskRecords, Phases, LaunchSteps
<1>24. CASE YsDrain
  <2>1. task' \in [Drainers -> TaskRecords]
    BY <1>24, <1>0, TaskSets DEF TaskIs
  <2>. QED  BY <1>24, <2>1, ExitsAssumption DEF YsDrain, TypeOK, TaskRecords, Phases, LaunchSteps
<1>25. CASE Start
  <2>1. task' \in [Drainers -> TaskRecords]
    BY <1>25, <1>0, TaskSets DEF TaskIs
  <2>. QED  BY <1>25, <2>1, ExitsAssumption DEF Start, TypeOK, TaskRecords, Phases, LaunchSteps
<1>26. CASE ListAlive
  BY <1>26 DEF ListAlive, TypeOK, Phases, LaunchSteps
<1>27. CASE EndInterruptedSessions
  BY <1>27 DEF EndInterruptedSessions, TypeOK, Phases, LaunchSteps, Ended, Row
<1>28. CASE EndInterruptedRuns
  BY <1>28 DEF EndInterruptedRuns, TypeOK, Phases, LaunchSteps, Advance, Writes
<1>29. CASE Hear
  <2>0. task \in [Drainers -> TaskRecords]
    BY DEF TypeOK, TaskRecords
  <2>1. task' \in [Drainers -> TaskRecords]
    BY <1>29, <1>0, <2>0, TaskSets DEF TaskIs
  <2>2. queue' \in Seq(Ptys)
    BY <1>29 DEF Hear, TypeOK
  <2>. QED  BY <1>29, <2>1, <2>2 DEF Hear, TypeOK, TaskRecords
<1>30. CASE Quit
  <2>1. task' \in [Drainers -> TaskRecords]
    BY <1>30, <1>0, TaskSets DEF TaskIs
  <2>2. launch' \in [Ptys -> LaunchSteps] /\ hosted' \subseteq Ptys
    BY <1>30 DEF Quit, TypeOK, LaunchSteps
  <2>3. phase' = "off" /\ conn' = FALSE /\ queue' = <<>> /\ alive' = {}
        /\ UNCHANGED <<host, by, rec, proc, sink, spool, dropped, lost, dbVars>>
    BY <1>30 DEF Quit
  <2>4. phase' \in Phases /\ conn' \in BOOLEAN /\ queue' \in Seq(Ptys) /\ alive' \subseteq Ptys
    <3>1. <<>> \in Seq(Ptys) /\ {} \subseteq Ptys
      OBVIOUS
    <3>2. phase' \in Phases /\ conn' \in BOOLEAN
      BY <2>3 DEF Phases
    <3>3. queue' = <<>> /\ alive' = {}
      BY <2>3
    <3>. QED  BY <3>1, <3>2, <3>3
  <2>5. /\ host' = host /\ by' = by /\ rec' = rec /\ proc' = proc /\ sink' = sink /\ spool' = spool
        /\ dropped' = dropped /\ lost' = lost /\ run' = run /\ linked' = linked /\ row' = row
    BY <2>3
  <2>. QED  BY <2>1, <2>2, <2>4, <2>5 DEF TypeOK, TaskRecords
<1>. QED
  BY <1>1, <1>2, <1>3, <1>4, <1>5, <1>6, <1>7, <1>8, <1>9, <1>10, <1>11, <1>12, <1>13, <1>14, <1>15,
     <1>16, <1>17, <1>18, <1>19, <1>20, <1>21, <1>22, <1>23, <1>24, <1>25, <1>26, <1>27, <1>28, <1>29,
     <1>30 DEF Next, Launching, Import

\* Every variable begins with its type.
LEMMA TypesInit == Init => TypeOK
<1> SUFFICES ASSUME Init PROVE TypeOK
  OBVIOUS
<1>1. Idle \in TaskRecords /\ Idle.step = "idle"
  BY DEF Idle, TaskRecords, TaskSteps
<1>2. task \in [Drainers -> TaskRecords]
  BY <1>1 DEF Init
<1>3. [state |-> "absent", pty |-> None, code |-> FALSE] \in Row
  BY DEF Row
<1>4. <<>> \in Seq(Ptys)
  OBVIOUS
<1>. QED  BY <1>2, <1>3, <1>4 DEF Init, TypeOK, TaskRecords, LaunchSteps, Phases

\* Who names the session whose exit is told: the entry that was read.
LEMMA NamedSets ==
    ASSUME TypeOK, NEW d \in Drainers
    PROVE  /\ SelectRecord(d) \/ EndRecord(d) \/ EndRun(d) \/ AdoptEarlyExit(d) => task'[d].named = task[d].named
           /\ ReadEntry(d) => \/ task'[d].step = "pick"
                              \/ \E e \in spool : e.pty = task'[d].at /\ task'[d].named = e.named
           /\ Hear /\ phase = "on" => task'["app"].named = FALSE
<1> DEFINE t == task[d]
<1>0. task \in [Drainers -> TaskRecords] /\ "app" \in Drainers
  BY ExitsAssumption DEF TypeOK, TaskRecords
<1>1. SelectRecord(d) => task'[d].named = t.named
  BY <1>0 DEF SelectRecord, Set, TaskRecords
<1>2. EndRecord(d) \/ EndRun(d) \/ AdoptEarlyExit(d) => task'[d].named = t.named
  <2>1. ASSUME NEW s, task' = [task EXCEPT ![d].step = s] PROVE task'[d].named = t.named
    BY <1>0, <2>1 DEF TaskRecords
  <2>2. EndRecord(d) \/ AdoptEarlyExit(d) => \E s : task' = [task EXCEPT ![d].step = s]
    BY DEF EndRecord, AdoptEarlyExit, Step
  <2>3. EndRun(d) => \E s : task' = [task EXCEPT ![d].step = s]
    BY DEF EndRun, Step
  <2>. QED  BY <2>1, <2>2, <2>3
<1>3. ASSUME ReadEntry(d)
      PROVE  \/ task'[d].step = "pick"
             \/ \E e \in spool : e.pty = task'[d].at /\ task'[d].named = e.named
  <2>1. t \in TaskRecords
    BY <1>0
  <2>2. PICK p \in t.todo :
          /\ t.step = "pick"
          /\ \/ task' = [task EXCEPT ![d] = [t EXCEPT !.todo = t.todo \ {p}]]
             \/ \E e \in spool : e.pty = p /\ task' = [task EXCEPT ![d] =
                    [t EXCEPT !.step = "select", !.at = p, !.named = e.named, !.todo = t.todo \ {p}]]
    BY <1>3 DEF ReadEntry, Set
  <2>3. CASE task' = [task EXCEPT ![d] = [t EXCEPT !.todo = t.todo \ {p}]]
    BY <1>0, <2>1, <2>2, <2>3 DEF TaskRecords
  <2>4. ASSUME NEW e \in spool, e.pty = p, task' = [task EXCEPT ![d] =
                    [t EXCEPT !.step = "select", !.at = p, !.named = e.named, !.todo = t.todo \ {p}]]
        PROVE  e.pty = task'[d].at /\ task'[d].named = e.named
    BY <1>0, <2>1, <2>4 DEF TaskRecords
  <2>. QED  BY <2>2, <2>3, <2>4
<1>4. Hear /\ phase = "on" => task'["app"].named = FALSE
  <2>1. Hear /\ phase = "on" => task' = [task EXCEPT !["app"] = [Idle EXCEPT !.step = "select", !.at = Head(queue), !.live = TRUE]]
    BY DEF Hear, Set
  <2>. QED  BY <1>0, <2>1 DEF Idle
<1>. QED  BY <1>1, <1>2, <1>3, <1>4

\* The records after the exit of a process, and that of one that runs.
RowsEnded(p) == [r \in Records |-> IF r \in RunningIn(p) THEN Ended(TRUE) ELSE row[r]]
RunsIn(p) == [state |-> "running", pty |-> p, code |-> FALSE]

\* Every write goes through.
LEMMA AllWrites == ASSUME Undisturbed PROVE Writes = {TRUE}
BY DEF Undisturbed, Writes

\* A recorded exit ends the run of this PTY, if it is open and linked, and no other.
LEMMA RecordExitIs ==
    ASSUME TypeOK, NEW p \in Ptys
    PROVE  /\ RecordExit(p) \in [Ptys -> {"absent", "open", "exited", "interrupted", "spawn_failed"}]
           /\ \A q \in Ptys : RecordExit(p)[q] = IF q = p /\ run[p] = "open" /\ linked[p] THEN "exited" ELSE run[q]
BY DEF TypeOK, RecordExit

\* What the steps of a launch write when every write goes through.
LEMMA LaunchWrites ==
    ASSUME TypeOK, Undisturbed, KeptInv, NEW p \in Ptys
    PROVE  /\ Begin(p) => run' = [run EXCEPT ![p] = "open"]
           /\ Spawned(p) => linked' = [linked EXCEPT ![p] = TRUE]
           /\ SettleRun(p) => run' = run \/ (proc[p] = "exited" /\ run' = RecordExit(p))
           /\ SettleRun(p) /\ proc[p] = "exited" => run' = RecordExit(p)
           /\ SettleRecord(p) => \/ proc[p] = "exited" /\ run' = RecordExit(p) /\ row' = RowsEnded(p)
                                 \/ proc[p] # "exited" /\ run' = run /\ row' = row
           /\ AddRecord(p) => /\ rec[p] \in Records /\ launch' = [launch EXCEPT ![p] = "recorded"]
                              /\ row' = [row EXCEPT ![rec[p]] = RunsIn(p)]
<1>0. Writes = {TRUE} /\ LaunchFits(p)
  BY AllWrites DEF KeptInv, LaunchesFit
<1>1. Begin(p) => run' = [run EXCEPT ![p] = "open"]
  BY <1>0 DEF Begin
<1>2. Spawned(p) => linked' = [linked EXCEPT ![p] = TRUE]
  BY <1>0 DEF Spawned, LaunchFits
<1>3. SettleRun(p) => run' = run \/ (proc[p] = "exited" /\ run' = RecordExit(p))
  BY <1>0 DEF SettleRun, SaysExited, LaunchFits
<1>4. SettleRun(p) /\ proc[p] = "exited" => run' = RecordExit(p)
  BY <1>0 DEF SettleRun, SaysExited, LaunchFits
<1>5. SettleRecord(p) => \/ proc[p] = "exited" /\ run' = RecordExit(p) /\ row' = RowsEnded(p)
                         \/ proc[p] # "exited" /\ run' = run /\ row' = row
  BY <1>0 DEF SettleRecord, SaysExited, LaunchFits, RowsEnded
<1>6. AddRecord(p) => /\ rec[p] \in Records /\ launch' = [launch EXCEPT ![p] = "recorded"]
                      /\ row' = [row EXCEPT ![rec[p]] = RunsIn(p)]
  BY <1>0 DEF AddRecord, Advance, KeptInv, SettledFits, RunsIn
<1>. QED  BY <1>1, <1>2, <1>3, <1>4, <1>5, <1>6

\* What whoever carries the news of an exit writes.
LEMMA TaskWrites ==
    ASSUME TypeOK, Undisturbed, NEW d \in Drainers
    PROVE  /\ EndRecord(d) => row' = [row EXCEPT ![task[d].found] = Ended(TRUE)]
           /\ EndRun(d) => run' = RecordExit(task[d].at)
           /\ AdoptEarlyExit(d) =>
                 \/  /\ task[d].named = TRUE /\ run[task[d].at] = "open" /\ ~ linked[task[d].at]
                    /\ run' = [run EXCEPT ![task[d].at] = "exited"] /\ linked' = [linked EXCEPT ![task[d].at] = TRUE]
                 \/ run' = run /\ linked' = linked
<1>1. task[d].named \in BOOLEAN
  BY DEF TypeOK
<1>. QED  BY <1>1, AllWrites DEF EndRecord, EndRun, AdoptEarlyExit

\* What the app writes of the runs it found.
LEMMA AppWrites ==
    ASSUME Undisturbed, KeptInv, EndInterruptedRuns
    PROVE  run' = [q \in Ptys |-> IF run[q] = "open" /\ linked[q] /\ q \notin alive THEN "interrupted" ELSE run[q]]
<1>0. Writes = {TRUE} /\ \A q \in Ptys : launch[q] # "dead"
  BY AllWrites DEF KeptInv, LaunchesFit, LaunchFits
<1>1. PICK old \in SUBSET {q \in Ptys : launch[q] = "dead"} :
          run' = [q \in Ptys |->
                    IF TRUE /\ run[q] = "open" /\ (IF linked[q] THEN q \notin alive ELSE q \in old)
                    THEN "interrupted" ELSE run[q]]
  BY <1>0 DEF EndInterruptedRuns
<1>2. old = {}
  BY <1>0, <1>1
<1>. QED  BY <1>1, <1>2

\* How far everything is at each place of a launch goes on.
LEMMA LaunchStep ==
    ASSUME TypeOK, Undisturbed, KeptInv, Next
    PROVE  LaunchesFit'
<1>0. /\ TypeOK /\ Undisturbed /\ KeptInv /\ LaunchesFit /\ AllKept /\ PhaseFits /\ SettledFits
      /\ RecordsFit /\ EntriesFit /\ TasksFit /\ UnreadFits
      /\ LaunchersMayDie = FALSE /\ DaemonMayDie = FALSE /\ MayClose = FALSE
      /\ FallbackMayHappen = FALSE /\ LaunchDuringStart = FALSE
      /\ "app" \in Drainers /\ None \notin Ptys /\ None \notin Records
  BY ExitsAssumption DEF KeptInv, Undisturbed
<1>1. ASSUME NEW p \in Ptys, Begin(p) PROVE LaunchesFit'
  <2>1. run' = [run EXCEPT ![p] = "open"] /\ launch[p] = "idle" /\ launch' = [launch EXCEPT ![p] = "begun"]
        /\ UNCHANGED <<proc, hosted, sink, spool, lost, linked>>
    BY <1>1, <1>0, LaunchWrites DEF Begin, Advance
  <2>. QED  BY <1>0, <2>1 DEF TypeOK, LaunchesFit, LaunchFits, InSpool, Early
<1>2. ASSUME NEW p \in Ptys, Spawn(p) PROVE LaunchesFit'
  BY <1>2, <1>0 DEF Spawn, TypeOK, LaunchesFit, LaunchFits, InSpool, Early, Advance, InLaunch
<1>3. ASSUME NEW p \in Ptys, SpawnFails(p) PROVE LaunchesFit'
  BY <1>3, <1>0 DEF SpawnFails, TypeOK, LaunchesFit, LaunchFits, InSpool, Early, Advance, InLaunch
<1>4. ASSUME NEW p \in Ptys, Insert(p) PROVE LaunchesFit'
  BY <1>4, <1>0 DEF Insert, TypeOK, LaunchesFit, LaunchFits, InSpool, Early, Advance, InLaunch
<1>5. ASSUME NEW p \in Ptys, Spawned(p) PROVE LaunchesFit'
  <2>1. linked' = [linked EXCEPT ![p] = TRUE] /\ launch[p] = "spawned" /\ launch' = [launch EXCEPT ![p] = "linked"]
        /\ UNCHANGED <<proc, hosted, sink, spool, lost, run>>
    BY <1>5, <1>0, LaunchWrites DEF Spawned, Advance
  <2>. QED  BY <1>0, <2>1 DEF TypeOK, LaunchesFit, LaunchFits, InSpool, Early
<1>6. ASSUME NEW p \in Ptys, SettleRun(p) PROVE LaunchesFit'
  <2>1. run' = run \/ (proc[p] = "exited" /\ run' = RecordExit(p))
    BY <1>6, <1>0, LaunchWrites
  <2>. QED  BY <1>6, <1>0, <2>1, RecordExitIs DEF SettleRun, Advance, TypeOK, LaunchesFit, LaunchFits, InSpool, Early
<1>7. ASSUME NEW p \in Ptys, AddRecord(p) PROVE LaunchesFit'
  BY <1>7, <1>0 DEF AddRecord, TypeOK, LaunchesFit, LaunchFits, InSpool, Early, Advance, InLaunch
<1>8. ASSUME NEW p \in Ptys, SettleRecord(p) PROVE LaunchesFit'
  <2>1. run' = run \/ (proc[p] = "exited" /\ run' = RecordExit(p))
    BY <1>8, <1>0, LaunchWrites
  <2>. QED  BY <1>8, <1>0, <2>1, RecordExitIs DEF SettleRecord, Advance, TypeOK, LaunchesFit, LaunchFits, InSpool, Early
<1>9. ASSUME NEW p \in Ptys, LauncherDies(p) PROVE LaunchesFit'
  BY <1>9, <1>0 DEF LauncherDies, TypeOK, LaunchesFit, LaunchFits, InSpool, Early, Advance, InLaunch
<1>10. ASSUME NEW p \in Ptys, Exit(p) PROVE LaunchesFit'
  BY <1>10, <1>0 DEF Exit, TypeOK, LaunchesFit, LaunchFits, InSpool, Early
<1>11. ASSUME NEW p \in Ptys, SpoolExit(p) PROVE LaunchesFit'
  BY <1>11, <1>0 DEF SpoolExit, TypeOK, LaunchesFit, LaunchFits, InSpool, Early
<1>12. ASSUME NEW p \in Ptys, Broadcast(p) PROVE LaunchesFit'
  BY <1>12, <1>0 DEF Broadcast, TypeOK, LaunchesFit, LaunchFits, InSpool, Early
<1>13. ASSUME NEW p \in Ptys, Close(p) PROVE LaunchesFit'
  BY <1>13, <1>0 DEF Close, TypeOK, LaunchesFit, LaunchFits, InSpool, Early
<1>14. CASE DaemonIdles
  BY <1>14, <1>0 DEF DaemonIdles, TypeOK, LaunchesFit, LaunchFits, InSpool, Early, InLaunch
<1>15. CASE DaemonDies
  BY <1>15, <1>0 DEF DaemonDies, TypeOK, LaunchesFit, LaunchFits, InSpool, Early
<1>16. ASSUME NEW d \in Drainers, ListSpool(d) PROVE LaunchesFit'
  BY <1>16, <1>0 DEF ListSpool, TypeOK, LaunchesFit, LaunchFits, InSpool, Early
<1>17. ASSUME NEW d \in Drainers, ReadEntry(d) PROVE LaunchesFit'
  <2>1. UNCHANGED <<launchVars, daemonVars, dbVars, appVars>>
    BY <1>17 DEF ReadEntry
  <2>. QED  BY <1>0, <2>1 DEF TypeOK, LaunchesFit, LaunchFits, InSpool, Early
<1>18. ASSUME NEW d \in Drainers, FinishImport(d) PROVE LaunchesFit'
  BY <1>18, <1>0 DEF FinishImport, TypeOK, LaunchesFit, LaunchFits, InSpool, Early
<1>19. ASSUME NEW d \in Drainers, SelectRecord(d) PROVE LaunchesFit'
  BY <1>19, <1>0 DEF SelectRecord, TypeOK, LaunchesFit, LaunchFits, InSpool, Early
<1>20. ASSUME NEW d \in Drainers, EndRecord(d) PROVE LaunchesFit'
  BY <1>20, <1>0 DEF EndRecord, TypeOK, LaunchesFit, LaunchFits, InSpool, Early
<1>21. ASSUME NEW d \in Drainers, EndRun(d) PROVE LaunchesFit'
  <2>1. task[d].at \in Ptys /\ proc[task[d].at] = "exited"
    BY <1>21, <1>0 DEF EndRun, TasksFit, TaskFits, Telling
  <2>2. run' = RecordExit(task[d].at)
    BY <1>21, <1>0, TaskWrites
  <2>. QED  BY <1>21, <1>0, <2>1, <2>2, RecordExitIs DEF EndRun, TypeOK, LaunchesFit, LaunchFits, InSpool, Early
<1>22. ASSUME NEW d \in Drainers, AdoptEarlyExit(d) PROVE LaunchesFit'
  <2>1. task[d].at \in Ptys /\ proc[task[d].at] = "exited" /\ (task[d].named = TRUE => launch[task[d].at] \notin Early)
    BY <1>22, <1>0 DEF AdoptEarlyExit, TasksFit, TaskFits, Telling
  <2>2. \/  /\ task[d].named = TRUE /\ run[task[d].at] = "open" /\ ~ linked[task[d].at]
           /\ run' = [run EXCEPT ![task[d].at] = "exited"] /\ linked' = [linked EXCEPT ![task[d].at] = TRUE]
        \/ run' = run /\ linked' = linked
    BY <1>22, <1>0, TaskWrites
  <2>3. UNCHANGED <<launch, proc, hosted, sink, spool, lost>>
    BY <1>22 DEF AdoptEarlyExit
  <2>. QED  BY <1>0, <2>1, <2>2, <2>3 DEF TypeOK, LaunchesFit, LaunchFits, InSpool, Early
<1>23. ASSUME NEW d \in Drainers, RemoveEntry(d) PROVE LaunchesFit'
  BY <1>23, <1>0 DEF RemoveEntry, TypeOK, LaunchesFit, LaunchFits, InSpool, Early
<1>24. CASE YsDrain
  BY <1>24, <1>0 DEF YsDrain, TypeOK, LaunchesFit, LaunchFits, InSpool, Early
<1>25. CASE Start
  BY <1>25, <1>0 DEF Start, TypeOK, LaunchesFit, LaunchFits, InSpool, Early
<1>26. CASE ListAlive
  BY <1>26, <1>0 DEF ListAlive, TypeOK, LaunchesFit, LaunchFits, InSpool, Early
<1>27. CASE EndInterruptedSessions
  BY <1>27, <1>0 DEF EndInterruptedSessions, TypeOK, LaunchesFit, LaunchFits, InSpool, Early
<1>28. CASE EndInterruptedRuns
  <2>1. run' = [q \in Ptys |-> IF run[q] = "open" /\ linked[q] /\ q \notin alive THEN "interrupted" ELSE run[q]]
    BY <1>28, <1>0, AppWrites
  <2>2. alive = hosted
    BY <1>28, <1>0 DEF PhaseFits, EndInterruptedRuns
  <2>3. UNCHANGED <<launchVars, daemonVars, linked, row>>
    BY <1>28 DEF EndInterruptedRuns
  <2>. QED  BY <1>0, <2>1, <2>2, <2>3 DEF TypeOK, LaunchesFit, LaunchFits, InSpool, Early
<1>29. CASE Hear
  BY <1>29, <1>0 DEF Hear, TypeOK, LaunchesFit, LaunchFits, InSpool, Early
<1>30. CASE Quit
  BY <1>30, <1>0 DEF Quit, TypeOK, LaunchesFit, LaunchFits, InSpool, Early, InLaunch
<1>. QED
  BY <1>1, <1>2, <1>3, <1>4, <1>5, <1>6, <1>7, <1>8, <1>9, <1>10, <1>11, <1>12, <1>13, <1>14, <1>15,
     <1>16, <1>17, <1>18, <1>19, <1>20, <1>21, <1>22, <1>23, <1>24, <1>25, <1>26, <1>27, <1>28, <1>29,
     <1>30 DEF Next, Launching, Import

\* Who writes a record knows of which conversation.
LEMMA SettledStep ==
    ASSUME TypeOK, Undisturbed, KeptInv, Next
    PROVE  SettledFits'
<1>0. /\ TypeOK /\ Undisturbed /\ KeptInv /\ LaunchesFit /\ AllKept /\ PhaseFits /\ SettledFits
      /\ RecordsFit /\ EntriesFit /\ TasksFit /\ UnreadFits
      /\ LaunchersMayDie = FALSE /\ DaemonMayDie = FALSE /\ MayClose = FALSE
      /\ FallbackMayHappen = FALSE /\ LaunchDuringStart = FALSE
      /\ "app" \in Drainers /\ None \notin Ptys /\ None \notin Records
  BY ExitsAssumption DEF KeptInv, Undisturbed
<1>1. ASSUME NEW p \in Ptys, Begin(p) PROVE SettledFits'
  BY <1>1, <1>0 DEF Begin, TypeOK, SettledFits, Advance, InLaunch
<1>2. ASSUME NEW p \in Ptys, Spawn(p) PROVE SettledFits'
  BY <1>2, <1>0 DEF Spawn, TypeOK, SettledFits, Advance, InLaunch
<1>3. ASSUME NEW p \in Ptys, SpawnFails(p) PROVE SettledFits'
  BY <1>3, <1>0 DEF SpawnFails, TypeOK, SettledFits, Advance, InLaunch
<1>4. ASSUME NEW p \in Ptys, Insert(p) PROVE SettledFits'
  BY <1>4, <1>0 DEF Insert, TypeOK, SettledFits, Advance, InLaunch
<1>5. ASSUME NEW p \in Ptys, Spawned(p) PROVE SettledFits'
  BY <1>5, <1>0 DEF Spawned, TypeOK, SettledFits, Advance, InLaunch
<1>6. ASSUME NEW p \in Ptys, SettleRun(p) PROVE SettledFits'
  BY <1>6, <1>0 DEF SettleRun, TypeOK, SettledFits, Advance, InLaunch
<1>7. ASSUME NEW p \in Ptys, AddRecord(p) PROVE SettledFits'
  BY <1>7, <1>0 DEF AddRecord, TypeOK, SettledFits, Advance, InLaunch
<1>8. ASSUME NEW p \in Ptys, SettleRecord(p) PROVE SettledFits'
  BY <1>8, <1>0 DEF SettleRecord, TypeOK, SettledFits, Advance, InLaunch
<1>9. ASSUME NEW p \in Ptys, LauncherDies(p) PROVE SettledFits'
  BY <1>9, <1>0 DEF LauncherDies, TypeOK, SettledFits, Advance, InLaunch
<1>10. ASSUME NEW p \in Ptys, Exit(p) PROVE SettledFits'
  BY <1>10, <1>0 DEF Exit, TypeOK, SettledFits
<1>11. ASSUME NEW p \in Ptys, SpoolExit(p) PROVE SettledFits'
  BY <1>11, <1>0 DEF SpoolExit, TypeOK, SettledFits
<1>12. ASSUME NEW p \in Ptys, Broadcast(p) PROVE SettledFits'
  BY <1>12, <1>0 DEF Broadcast, TypeOK, SettledFits
<1>13. ASSUME NEW p \in Ptys, Close(p) PROVE SettledFits'
  BY <1>13, <1>0 DEF Close, TypeOK, SettledFits
<1>14. CASE DaemonIdles
  BY <1>14, <1>0 DEF DaemonIdles, TypeOK, SettledFits, InLaunch
<1>15. CASE DaemonDies
  BY <1>15, <1>0 DEF DaemonDies, TypeOK, SettledFits
<1>16. ASSUME NEW d \in Drainers, ListSpool(d) PROVE SettledFits'
  BY <1>16, <1>0 DEF ListSpool, TypeOK, SettledFits
<1>17. ASSUME NEW d \in Drainers, ReadEntry(d) PROVE SettledFits'
  BY <1>17, <1>0 DEF ReadEntry, TypeOK, SettledFits
<1>18. ASSUME NEW d \in Drainers, FinishImport(d) PROVE SettledFits'
  BY <1>18, <1>0 DEF FinishImport, TypeOK, SettledFits
<1>19. ASSUME NEW d \in Drainers, SelectRecord(d) PROVE SettledFits'
  BY <1>19, <1>0 DEF SelectRecord, TypeOK, SettledFits
<1>20. ASSUME NEW d \in Drainers, EndRecord(d) PROVE SettledFits'
  BY <1>20, <1>0 DEF EndRecord, TypeOK, SettledFits
<1>21. ASSUME NEW d \in Drainers, EndRun(d) PROVE SettledFits'
  BY <1>21, <1>0 DEF EndRun, TypeOK, SettledFits
<1>22. ASSUME NEW d \in Drainers, AdoptEarlyExit(d) PROVE SettledFits'
  BY <1>22, <1>0 DEF AdoptEarlyExit, TypeOK, SettledFits
<1>23. ASSUME NEW d \in Drainers, RemoveEntry(d) PROVE SettledFits'
  BY <1>23, <1>0 DEF RemoveEntry, TypeOK, SettledFits
<1>24. CASE YsDrain
  BY <1>24, <1>0 DEF YsDrain, TypeOK, SettledFits
<1>25. CASE Start
  BY <1>25, <1>0 DEF Start, TypeOK, SettledFits
<1>26. CASE ListAlive
  BY <1>26, <1>0 DEF ListAlive, TypeOK, SettledFits
<1>27. CASE EndInterruptedSessions
  BY <1>27, <1>0 DEF EndInterruptedSessions, TypeOK, SettledFits
<1>28. CASE EndInterruptedRuns
  BY <1>28, <1>0 DEF EndInterruptedRuns, TypeOK, SettledFits
<1>29. CASE Hear
  BY <1>29, <1>0 DEF Hear, TypeOK, SettledFits
<1>30. CASE Quit
  BY <1>30, <1>0 DEF Quit, TypeOK, SettledFits, InLaunch
<1>. QED
  BY <1>1, <1>2, <1>3, <1>4, <1>5, <1>6, <1>7, <1>8, <1>9, <1>10, <1>11, <1>12, <1>13, <1>14, <1>15,
     <1>16, <1>17, <1>18, <1>19, <1>20, <1>21, <1>22, <1>23, <1>24, <1>25, <1>26, <1>27, <1>28, <1>29,
     <1>30 DEF Next, Launching, Import

\* The app is connected while it runs, and nothing is listed anew meanwhile.
LEMMA PhaseStep ==
    ASSUME TypeOK, Undisturbed, KeptInv, Next
    PROVE  PhaseFits'
<1>0. /\ TypeOK /\ Undisturbed /\ KeptInv /\ LaunchesFit /\ AllKept /\ PhaseFits /\ SettledFits
      /\ RecordsFit /\ EntriesFit /\ TasksFit /\ UnreadFits
      /\ LaunchersMayDie = FALSE /\ DaemonMayDie = FALSE /\ MayClose = FALSE
      /\ FallbackMayHappen = FALSE /\ LaunchDuringStart = FALSE
      /\ "app" \in Drainers /\ None \notin Ptys /\ None \notin Records
  BY ExitsAssumption DEF KeptInv, Undisturbed
<1>1. ASSUME NEW p \in Ptys, Begin(p) PROVE PhaseFits'
  BY <1>1, <1>0 DEF Begin, TypeOK, PhaseFits, InLaunch, Advance, LaunchesFit, LaunchFits, MayLaunch, Early
<1>2. ASSUME NEW p \in Ptys, Spawn(p) PROVE PhaseFits'
  BY <1>2, <1>0 DEF Spawn, TypeOK, PhaseFits, InLaunch, Advance, LaunchesFit, LaunchFits, MayLaunch, Early
<1>3. ASSUME NEW p \in Ptys, SpawnFails(p) PROVE PhaseFits'
  BY <1>3, <1>0 DEF SpawnFails, TypeOK, PhaseFits, InLaunch, Advance, LaunchesFit, LaunchFits, MayLaunch,
     Early
<1>4. ASSUME NEW p \in Ptys, Insert(p) PROVE PhaseFits'
  BY <1>4, <1>0 DEF Insert, TypeOK, PhaseFits, InLaunch, Advance, LaunchesFit, LaunchFits, MayLaunch, Early
<1>5. ASSUME NEW p \in Ptys, Spawned(p) PROVE PhaseFits'
  BY <1>5, <1>0 DEF Spawned, TypeOK, PhaseFits, InLaunch, Advance, LaunchesFit, LaunchFits, MayLaunch, Early
<1>6. ASSUME NEW p \in Ptys, SettleRun(p) PROVE PhaseFits'
  BY <1>6, <1>0 DEF SettleRun, TypeOK, PhaseFits, InLaunch, Advance, LaunchesFit, LaunchFits, MayLaunch, Early
<1>7. ASSUME NEW p \in Ptys, AddRecord(p) PROVE PhaseFits'
  BY <1>7, <1>0 DEF AddRecord, TypeOK, PhaseFits, InLaunch, Advance, LaunchesFit, LaunchFits, MayLaunch, Early
<1>8. ASSUME NEW p \in Ptys, SettleRecord(p) PROVE PhaseFits'
  BY <1>8, <1>0 DEF SettleRecord, TypeOK, PhaseFits, InLaunch, Advance, LaunchesFit, LaunchFits,
     MayLaunch, Early
<1>9. ASSUME NEW p \in Ptys, LauncherDies(p) PROVE PhaseFits'
  BY <1>9, <1>0 DEF LauncherDies, TypeOK, PhaseFits, InLaunch, Advance, LaunchesFit, LaunchFits,
     MayLaunch, Early
<1>10. ASSUME NEW p \in Ptys, Exit(p) PROVE PhaseFits'
  BY <1>10, <1>0 DEF Exit, TypeOK, PhaseFits, InLaunch, LaunchesFit, LaunchFits, MayLaunch, Early
<1>11. ASSUME NEW p \in Ptys, SpoolExit(p) PROVE PhaseFits'
  BY <1>11, <1>0 DEF SpoolExit, TypeOK, PhaseFits, InLaunch, LaunchesFit, LaunchFits, MayLaunch, Early
<1>12. ASSUME NEW p \in Ptys, Broadcast(p) PROVE PhaseFits'
  BY <1>12, <1>0 DEF Broadcast, TypeOK, PhaseFits, InLaunch, LaunchesFit, LaunchFits, MayLaunch, Early
<1>13. ASSUME NEW p \in Ptys, Close(p) PROVE PhaseFits'
  BY <1>13, <1>0 DEF Close, TypeOK, PhaseFits, InLaunch, LaunchesFit, LaunchFits, MayLaunch, Early
<1>14. CASE DaemonIdles
  BY <1>14, <1>0 DEF DaemonIdles, TypeOK, PhaseFits, InLaunch, LaunchesFit, LaunchFits, MayLaunch, Early
<1>15. CASE DaemonDies
  BY <1>15, <1>0 DEF DaemonDies, TypeOK, PhaseFits, InLaunch
<1>16. ASSUME NEW d \in Drainers, ListSpool(d) PROVE PhaseFits'
  BY <1>16, <1>0 DEF ListSpool, TypeOK, PhaseFits, InLaunch
<1>17. ASSUME NEW d \in Drainers, ReadEntry(d) PROVE PhaseFits'
  <2>1. UNCHANGED <<launchVars, daemonVars, dbVars, appVars>>
    BY <1>17 DEF ReadEntry
  <2>. QED  BY <1>0, <2>1 DEF PhaseFits, InLaunch
<1>18. ASSUME NEW d \in Drainers, FinishImport(d) PROVE PhaseFits'
  BY <1>18, <1>0 DEF FinishImport, TypeOK, PhaseFits, InLaunch
<1>19. ASSUME NEW d \in Drainers, SelectRecord(d) PROVE PhaseFits'
  BY <1>19, <1>0 DEF SelectRecord, TypeOK, PhaseFits, InLaunch
<1>20. ASSUME NEW d \in Drainers, EndRecord(d) PROVE PhaseFits'
  BY <1>20, <1>0 DEF EndRecord, TypeOK, PhaseFits, InLaunch
<1>21. ASSUME NEW d \in Drainers, EndRun(d) PROVE PhaseFits'
  BY <1>21, <1>0 DEF EndRun, TypeOK, PhaseFits, InLaunch
<1>22. ASSUME NEW d \in Drainers, AdoptEarlyExit(d) PROVE PhaseFits'
  BY <1>22, <1>0 DEF AdoptEarlyExit, TypeOK, PhaseFits, InLaunch
<1>23. ASSUME NEW d \in Drainers, RemoveEntry(d) PROVE PhaseFits'
  BY <1>23, <1>0 DEF RemoveEntry, TypeOK, PhaseFits, InLaunch
<1>24. CASE YsDrain
  BY <1>24, <1>0 DEF YsDrain, TypeOK, PhaseFits, InLaunch
<1>25. CASE Start
  <2>1. /\ phase = "off" /\ phase' = "importing" /\ queue' = <<>>
        /\ UNCHANGED <<launch, by, proc, sink, alive, hosted>>
    BY <1>25 DEF Start
  <2>2. conn' = TRUE
    <3>1. host' = "daemon" /\ conn' = (host' = "daemon")
      BY <1>25, <1>0 DEF Start
    <3>. QED  BY <3>1
  <2>. QED  BY <1>0, <2>1, <2>2 DEF PhaseFits, InLaunch
<1>26. CASE ListAlive
  BY <1>26, <1>0 DEF ListAlive, TypeOK, PhaseFits, InLaunch
<1>27. CASE EndInterruptedSessions
  BY <1>27, <1>0 DEF EndInterruptedSessions, TypeOK, PhaseFits, InLaunch
<1>28. CASE EndInterruptedRuns
  BY <1>28, <1>0 DEF EndInterruptedRuns, TypeOK, PhaseFits, InLaunch
<1>29. CASE Hear
  BY <1>29, <1>0 DEF Hear, TypeOK, PhaseFits, InLaunch
<1>30. CASE Quit
  BY <1>30, <1>0 DEF Quit, TypeOK, PhaseFits, InLaunch, LaunchesFit, LaunchFits, MayLaunch, Early
<1>. QED
  BY <1>1, <1>2, <1>3, <1>4, <1>5, <1>6, <1>7, <1>8, <1>9, <1>10, <1>11, <1>12, <1>13, <1>14, <1>15,
     <1>16, <1>17, <1>18, <1>19, <1>20, <1>21, <1>22, <1>23, <1>24, <1>25, <1>26, <1>27, <1>28, <1>29,
     <1>30 DEF Next, Launching, Import

\* Only the launch that runs for a conversation writes its record.
LEMMA RecordsStep ==
    ASSUME TypeOK, Undisturbed, KeptInv, Next
    PROVE  RecordsFit'
<1>0. /\ TypeOK /\ Undisturbed /\ KeptInv /\ LaunchesFit /\ AllKept /\ PhaseFits /\ SettledFits
      /\ RecordsFit /\ EntriesFit /\ TasksFit /\ UnreadFits
      /\ LaunchersMayDie = FALSE /\ DaemonMayDie = FALSE /\ MayClose = FALSE
      /\ FallbackMayHappen = FALSE /\ LaunchDuringStart = FALSE
      /\ "app" \in Drainers /\ None \notin Ptys /\ None \notin Records
  BY ExitsAssumption DEF KeptInv, Undisturbed
<1>1. ASSUME NEW p \in Ptys, Begin(p) PROVE RecordsFit'
  BY <1>1, <1>0 DEF Begin, TypeOK, RecordsFit, Advance, InLaunch
<1>2. ASSUME NEW p \in Ptys, Spawn(p) PROVE RecordsFit'
  BY <1>2, <1>0 DEF Spawn, TypeOK, RecordsFit, Advance, InLaunch
<1>3. ASSUME NEW p \in Ptys, SpawnFails(p) PROVE RecordsFit'
  BY <1>3, <1>0 DEF SpawnFails, TypeOK, RecordsFit, Advance, InLaunch
<1>4. ASSUME NEW p \in Ptys, Insert(p) PROVE RecordsFit'
  BY <1>4, <1>0 DEF Insert, TypeOK, RecordsFit, Advance, InLaunch
<1>5. ASSUME NEW p \in Ptys, Spawned(p) PROVE RecordsFit'
  BY <1>5, <1>0 DEF Spawned, TypeOK, RecordsFit, Advance, InLaunch
<1>6. ASSUME NEW p \in Ptys, SettleRun(p) PROVE RecordsFit'
  BY <1>6, <1>0 DEF SettleRun, TypeOK, RecordsFit, Advance, InLaunch
<1>7. ASSUME NEW p \in Ptys, AddRecord(p) PROVE RecordsFit'
  <2>1. /\ rec[p] \in Records /\ row' = [row EXCEPT ![rec[p]] = RunsIn(p)]
        /\ launch' = [launch EXCEPT ![p] = "recorded"] /\ rec' = rec
    BY <1>7, <1>0, LaunchWrites DEF AddRecord
  <2>2. RunsIn(p).state = "running" /\ RunsIn(p).pty = p
    BY DEF RunsIn
  <2>. QED  BY <1>0, <2>1, <2>2 DEF TypeOK, RecordsFit
<1>8. ASSUME NEW p \in Ptys, SettleRecord(p) PROVE RecordsFit'
  <2>1. \A r \in Records : row'[r].state = "running" => row'[r] = row[r]
    BY <1>8, <1>0, LaunchWrites DEF RowsEnded, Ended
  <2>2. launch' = [launch EXCEPT ![p] = "done"] /\ rec' = rec
    BY <1>8 DEF SettleRecord, Advance
  <2>. QED  BY <1>0, <2>1, <2>2 DEF TypeOK, RecordsFit
<1>9. ASSUME NEW p \in Ptys, LauncherDies(p) PROVE RecordsFit'
  BY <1>9, <1>0 DEF LauncherDies, TypeOK, RecordsFit, Advance, InLaunch
<1>10. ASSUME NEW p \in Ptys, Exit(p) PROVE RecordsFit'
  BY <1>10, <1>0 DEF Exit, TypeOK, RecordsFit
<1>11. ASSUME NEW p \in Ptys, SpoolExit(p) PROVE RecordsFit'
  BY <1>11, <1>0 DEF SpoolExit, TypeOK, RecordsFit
<1>12. ASSUME NEW p \in Ptys, Broadcast(p) PROVE RecordsFit'
  BY <1>12, <1>0 DEF Broadcast, TypeOK, RecordsFit
<1>13. ASSUME NEW p \in Ptys, Close(p) PROVE RecordsFit'
  BY <1>13, <1>0 DEF Close, TypeOK, RecordsFit
<1>14. CASE DaemonIdles
  BY <1>14, <1>0 DEF DaemonIdles, TypeOK, RecordsFit, InLaunch
<1>15. CASE DaemonDies
  BY <1>15, <1>0 DEF DaemonDies, TypeOK, RecordsFit
<1>16. ASSUME NEW d \in Drainers, ListSpool(d) PROVE RecordsFit'
  BY <1>16, <1>0 DEF ListSpool, TypeOK, RecordsFit
<1>17. ASSUME NEW d \in Drainers, ReadEntry(d) PROVE RecordsFit'
  BY <1>17, <1>0 DEF ReadEntry, TypeOK, RecordsFit
<1>18. ASSUME NEW d \in Drainers, FinishImport(d) PROVE RecordsFit'
  BY <1>18, <1>0 DEF FinishImport, TypeOK, RecordsFit
<1>19. ASSUME NEW d \in Drainers, SelectRecord(d) PROVE RecordsFit'
  BY <1>19, <1>0 DEF SelectRecord, TypeOK, RecordsFit
<1>20. ASSUME NEW d \in Drainers, EndRecord(d) PROVE RecordsFit'
  <2>1. \A r \in Records : row'[r].state = "running" => row'[r] = row[r]
    <3>1. row' = [row EXCEPT ![task[d].found] = Ended(TRUE)] /\ Ended(TRUE).state = "ended"
      BY <1>20, <1>0, TaskWrites DEF Ended
    <3>. QED  BY <3>1 DEF TypeOK
  <2>. QED  BY <1>20, <1>0, <2>1 DEF EndRecord, RecordsFit
<1>21. ASSUME NEW d \in Drainers, EndRun(d) PROVE RecordsFit'
  BY <1>21, <1>0 DEF EndRun, TypeOK, RecordsFit
<1>22. ASSUME NEW d \in Drainers, AdoptEarlyExit(d) PROVE RecordsFit'
  BY <1>22, <1>0 DEF AdoptEarlyExit, TypeOK, RecordsFit
<1>23. ASSUME NEW d \in Drainers, RemoveEntry(d) PROVE RecordsFit'
  BY <1>23, <1>0 DEF RemoveEntry, TypeOK, RecordsFit
<1>24. CASE YsDrain
  BY <1>24, <1>0 DEF YsDrain, TypeOK, RecordsFit
<1>25. CASE Start
  BY <1>25, <1>0 DEF Start, TypeOK, RecordsFit
<1>26. CASE ListAlive
  BY <1>26, <1>0 DEF ListAlive, TypeOK, RecordsFit
<1>27. CASE EndInterruptedSessions
  BY <1>27, <1>0 DEF EndInterruptedSessions, TypeOK, RecordsFit, Ended
<1>28. CASE EndInterruptedRuns
  BY <1>28, <1>0 DEF EndInterruptedRuns, TypeOK, RecordsFit
<1>29. CASE Hear
  BY <1>29, <1>0 DEF Hear, TypeOK, RecordsFit
<1>30. CASE Quit
  BY <1>30, <1>0 DEF Quit, TypeOK, RecordsFit, InLaunch
<1>. QED
  BY <1>1, <1>2, <1>3, <1>4, <1>5, <1>6, <1>7, <1>8, <1>9, <1>10, <1>11, <1>12, <1>13, <1>14, <1>15,
     <1>16, <1>17, <1>18, <1>19, <1>20, <1>21, <1>22, <1>23, <1>24, <1>25, <1>26, <1>27, <1>28, <1>29,
     <1>30 DEF Next, Launching, Import

\* An entry names its session only if the host had it.
LEMMA EntriesStep ==
    ASSUME TypeOK, Undisturbed, KeptInv, Next
    PROVE  EntriesFit'
<1>0. /\ TypeOK /\ Undisturbed /\ KeptInv /\ LaunchesFit /\ AllKept /\ PhaseFits /\ SettledFits
      /\ RecordsFit /\ EntriesFit /\ TasksFit /\ UnreadFits
      /\ LaunchersMayDie = FALSE /\ DaemonMayDie = FALSE /\ MayClose = FALSE
      /\ FallbackMayHappen = FALSE /\ LaunchDuringStart = FALSE
      /\ "app" \in Drainers /\ None \notin Ptys /\ None \notin Records
  BY ExitsAssumption DEF KeptInv, Undisturbed
<1>1. ASSUME NEW p \in Ptys, Begin(p) PROVE EntriesFit'
  BY <1>1, <1>0 DEF Begin, TypeOK, EntriesFit, Early, Advance, LaunchesFit, LaunchFits
<1>2. ASSUME NEW p \in Ptys, Spawn(p) PROVE EntriesFit'
  BY <1>2, <1>0 DEF Spawn, TypeOK, EntriesFit, Early, Advance, LaunchesFit, LaunchFits
<1>3. ASSUME NEW p \in Ptys, SpawnFails(p) PROVE EntriesFit'
  BY <1>3, <1>0 DEF SpawnFails, TypeOK, EntriesFit, Early, Advance, LaunchesFit, LaunchFits
<1>4. ASSUME NEW p \in Ptys, Insert(p) PROVE EntriesFit'
  BY <1>4, <1>0 DEF Insert, TypeOK, EntriesFit, Early, Advance, LaunchesFit, LaunchFits
<1>5. ASSUME NEW p \in Ptys, Spawned(p) PROVE EntriesFit'
  BY <1>5, <1>0 DEF Spawned, TypeOK, EntriesFit, Early, Advance, InLaunch
<1>6. ASSUME NEW p \in Ptys, SettleRun(p) PROVE EntriesFit'
  BY <1>6, <1>0 DEF SettleRun, TypeOK, EntriesFit, Early, Advance, InLaunch
<1>7. ASSUME NEW p \in Ptys, AddRecord(p) PROVE EntriesFit'
  BY <1>7, <1>0 DEF AddRecord, TypeOK, EntriesFit, Early, Advance
<1>8. ASSUME NEW p \in Ptys, SettleRecord(p) PROVE EntriesFit'
  BY <1>8, <1>0 DEF SettleRecord, TypeOK, EntriesFit, Early, Advance, InLaunch
<1>9. ASSUME NEW p \in Ptys, LauncherDies(p) PROVE EntriesFit'
  BY <1>9, <1>0 DEF LauncherDies, TypeOK, EntriesFit, Early, Advance, InLaunch
<1>10. ASSUME NEW p \in Ptys, Exit(p) PROVE EntriesFit'
  BY <1>10, <1>0 DEF Exit, TypeOK, EntriesFit, Early
<1>11. ASSUME NEW p \in Ptys, SpoolExit(p) PROVE EntriesFit'
  <2>1. \A e \in spool' : e \in spool \/ (e.pty = p /\ (e.named = TRUE => p \in hosted))
    <3> DEFINE x == [pty |-> p, named |-> p \in hosted /\ run[p] # "absent"]
    <3>1. spool' = spool \/ spool' = spool \cup {x}
      BY <1>11 DEF SpoolExit
    <3>2. x.pty = p /\ (x.named = TRUE => p \in hosted)
      OBVIOUS
    <3> HIDE DEF x
    <3>. QED  BY <3>1, <3>2
  <2>2. p \in hosted => launch[p] \notin Early
    BY <1>0 DEF LaunchesFit, LaunchFits
  <2>3. launch' = launch
    BY <1>11 DEF SpoolExit
  <2>. QED  BY <1>0, <2>1, <2>2, <2>3 DEF EntriesFit
<1>12. ASSUME NEW p \in Ptys, Broadcast(p) PROVE EntriesFit'
  BY <1>12, <1>0 DEF Broadcast, TypeOK, EntriesFit, Early
<1>13. ASSUME NEW p \in Ptys, Close(p) PROVE EntriesFit'
  BY <1>13, <1>0 DEF Close, TypeOK, EntriesFit, Early
<1>14. CASE DaemonIdles
  BY <1>14, <1>0 DEF DaemonIdles, TypeOK, EntriesFit, Early, InLaunch
<1>15. CASE DaemonDies
  BY <1>15, <1>0 DEF DaemonDies, TypeOK, EntriesFit, Early
<1>16. ASSUME NEW d \in Drainers, ListSpool(d) PROVE EntriesFit'
  BY <1>16, <1>0 DEF ListSpool, TypeOK, EntriesFit, Early
<1>17. ASSUME NEW d \in Drainers, ReadEntry(d) PROVE EntriesFit'
  BY <1>17, <1>0 DEF ReadEntry, TypeOK, EntriesFit, Early
<1>18. ASSUME NEW d \in Drainers, FinishImport(d) PROVE EntriesFit'
  BY <1>18, <1>0 DEF FinishImport, TypeOK, EntriesFit, Early
<1>19. ASSUME NEW d \in Drainers, SelectRecord(d) PROVE EntriesFit'
  BY <1>19, <1>0 DEF SelectRecord, TypeOK, EntriesFit, Early
<1>20. ASSUME NEW d \in Drainers, EndRecord(d) PROVE EntriesFit'
  BY <1>20, <1>0 DEF EndRecord, TypeOK, EntriesFit, Early
<1>21. ASSUME NEW d \in Drainers, EndRun(d) PROVE EntriesFit'
  BY <1>21, <1>0 DEF EndRun, TypeOK, EntriesFit, Early
<1>22. ASSUME NEW d \in Drainers, AdoptEarlyExit(d) PROVE EntriesFit'
  BY <1>22, <1>0 DEF AdoptEarlyExit, TypeOK, EntriesFit, Early
<1>23. ASSUME NEW d \in Drainers, RemoveEntry(d) PROVE EntriesFit'
  BY <1>23, <1>0 DEF RemoveEntry, TypeOK, EntriesFit, Early
<1>24. CASE YsDrain
  BY <1>24, <1>0 DEF YsDrain, TypeOK, EntriesFit, Early
<1>25. CASE Start
  BY <1>25, <1>0 DEF Start, TypeOK, EntriesFit, Early
<1>26. CASE ListAlive
  BY <1>26, <1>0 DEF ListAlive, TypeOK, EntriesFit, Early
<1>27. CASE EndInterruptedSessions
  BY <1>27, <1>0 DEF EndInterruptedSessions, TypeOK, EntriesFit, Early
<1>28. CASE EndInterruptedRuns
  BY <1>28, <1>0 DEF EndInterruptedRuns, TypeOK, EntriesFit, Early
<1>29. CASE Hear
  BY <1>29, <1>0 DEF Hear, TypeOK, EntriesFit, Early
<1>30. CASE Quit
  BY <1>30, <1>0 DEF Quit, TypeOK, EntriesFit, Early, InLaunch
<1>. QED
  BY <1>1, <1>2, <1>3, <1>4, <1>5, <1>6, <1>7, <1>8, <1>9, <1>10, <1>11, <1>12, <1>13, <1>14, <1>15,
     <1>16, <1>17, <1>18, <1>19, <1>20, <1>21, <1>22, <1>23, <1>24, <1>25, <1>26, <1>27, <1>28, <1>29,
     <1>30 DEF Next, Launching, Import


\* What is so of a process that is gone and reported stays so, and a record stays written.
Stays(p) ==
    proc[p] = "exited" /\ sink[p] # "spool" =>
        /\ proc'[p] = "exited" /\ sink'[p] # "spool" /\ rec'[p] = rec[p]
        /\ launch[p] \notin Early => launch'[p] \notin Early
        /\ RecordTold(p) => RecordTold(p)'
        /\ RunTold(p) => RunTold(p)'

WorldStays ==
    /\ \A p \in Ptys : Stays(p)
    /\ \A r \in Records : row[r].state # "absent" => row'[r].state # "absent"

\* It stays where neither launches nor rows nor runs change.
LEMMA QuietStays ==
    ASSUME TypeOK, UNCHANGED <<launch, rec, proc, run, row>>, lost \subseteq lost',
           \A q \in Ptys : sink[q] # "spool" => sink'[q] # "spool"
    PROVE  WorldStays
BY DEF WorldStays, Stays, RecordTold, RunTold, RunningIn

\* It stays where a launch advances, whose process is not gone, or that is not asking.
LEMMA LaunchStays ==
    ASSUME TypeOK, NEW p \in Ptys, UNCHANGED <<proc, sink, row, rec, lost>>,
           launch[p] \notin Early => launch'[p] \notin Early,
           \A q \in Ptys : q # p => launch'[q] = launch[q],
           \A q \in Ptys : run[q] = "exited" => run'[q] = "exited",
           launch[p] \notin {"recorded"},
           proc[p] = "exited" /\ launch[p] \in Asking => launch'[p] \in Asking \/ run'[p] = "exited" \/ p \in lost
    PROVE  WorldStays
BY DEF WorldStays, Stays, RecordTold, RunTold, RunningIn

\* Every step leaves it so.
LEMMA WorldStep ==
    ASSUME TypeOK, Undisturbed, KeptInv, Next
    PROVE  WorldStays
<1>0. /\ TypeOK /\ Undisturbed /\ KeptInv /\ LaunchesFit /\ AllKept /\ PhaseFits /\ SettledFits
      /\ RecordsFit /\ EntriesFit /\ TasksFit /\ UnreadFits
      /\ LaunchersMayDie = FALSE /\ DaemonMayDie = FALSE /\ MayClose = FALSE
      /\ FallbackMayHappen = FALSE /\ LaunchDuringStart = FALSE
      /\ "app" \in Drainers /\ None \notin Ptys /\ None \notin Records
  BY ExitsAssumption DEF KeptInv, Undisturbed
<1>1. ASSUME NEW p \in Ptys, Begin(p) PROVE WorldStays
  <2>a. PICK r \in Records \cup {None} : rec' = [rec EXCEPT ![p] = r]
    BY <1>1 DEF Begin
  <2>1. /\ launch[p] = "idle" /\ launch' = [launch EXCEPT ![p] = "begun"]
        /\ run' = [run EXCEPT ![p] = "open"]
        /\ \A q \in Ptys : q # p => rec'[q] = rec[q]
        /\ UNCHANGED <<proc, sink, row, lost>>
    <3>1. \A q \in Ptys : q # p => rec'[q] = rec[q]
      BY <2>a DEF TypeOK
    <3>. QED  BY <1>1, <1>0, <3>1, LaunchWrites DEF Begin, Advance
  <2>2. proc[p] # "exited"
    BY <1>0, <2>1 DEF LaunchesFit, LaunchFits
  <2>. QED  BY <1>0, <2>1, <2>2 DEF WorldStays, Stays, RecordTold, RunTold, RunningIn, TypeOK
<1>2. ASSUME NEW p \in Ptys, Spawn(p) PROVE WorldStays
  <2>1. /\ launch[p] = "begun" /\ launch' = [launch EXCEPT ![p] = "spawning"]
        /\ proc' = [proc EXCEPT ![p] = "live"]
        /\ UNCHANGED <<rec, sink, run, row, lost>>
    BY <1>2 DEF Spawn, Advance
  <2>2. proc[p] # "exited"
    BY <1>0, <2>1 DEF LaunchesFit, LaunchFits
  <2>. QED  BY <1>0, <2>1, <2>2 DEF WorldStays, Stays, RecordTold, RunTold, RunningIn, TypeOK
<1>3. ASSUME NEW p \in Ptys, SpawnFails(p) PROVE WorldStays
  <2>1. /\ launch[p] \in Early /\ launch' = [launch EXCEPT ![p] = "done"]
        /\ proc[p] # "exited" /\ \A q \in Ptys : run[q] = "exited" => run'[q] = "exited"
        /\ UNCHANGED <<rec, sink, proc, row, lost>>
    BY <1>3, <1>0 DEF SpawnFails, Advance, LaunchesFit, LaunchFits, TypeOK, Early
  <2>. QED  BY <1>0, <2>1, LaunchStays DEF TypeOK, Early
<1>4. ASSUME NEW p \in Ptys, Insert(p) PROVE WorldStays
  <2>1. /\ UNCHANGED <<proc, sink, row, rec, lost>> /\ launch[p] = "spawning" /\ launch' = [launch EXCEPT ![p] = "spawned"]
        /\ run' = run
    BY <1>4 DEF Insert, Advance
  <2>. QED  BY <1>0, <2>1, LaunchStays DEF TypeOK, LaunchesFit, LaunchFits, Early, Asking
<1>5. ASSUME NEW p \in Ptys, Spawned(p) PROVE WorldStays
  <2>1. /\ UNCHANGED <<proc, sink, row, rec, lost>> /\ launch[p] = "spawned" /\ launch' = [launch EXCEPT ![p] = "linked"]
        /\ run' = run
    BY <1>5 DEF Spawned, Advance
  <2>. QED  BY <1>0, <2>1, LaunchStays DEF TypeOK, LaunchesFit, LaunchFits, Early, Asking
<1>6. ASSUME NEW p \in Ptys, SettleRun(p) PROVE WorldStays
  <2>1. /\ launch[p] = "linked" /\ launch' = [launch EXCEPT ![p] = IF rec[p] = None THEN "done" ELSE "settled"]
        /\ UNCHANGED <<rec, sink, proc, row, lost>>
    BY <1>6 DEF SettleRun, Advance
  <2>2. \A q \in Ptys : run[q] = "exited" => run'[q] = "exited"
    BY <1>6, <1>0, LaunchWrites, RecordExitIs
  <2>3. ASSUME proc[p] = "exited" PROVE run'[p] = "exited" \/ p \in lost
    <3>1. run' = RecordExit(p)
      BY <1>6, <1>0, <2>3, LaunchWrites
    <3>2. linked[p] = TRUE /\ (p \in lost \/ run[p] \in {"open", "exited"})
      BY <1>0, <2>1, <2>3 DEF LaunchesFit, LaunchFits, AllKept, KeptFits, TypeOK
    <3>. QED  BY <1>0, <3>1, <3>2, RecordExitIs
  <2>. QED  BY <1>0, <2>1, <2>2, <2>3, LaunchStays DEF TypeOK, Early
<1>7. ASSUME NEW p \in Ptys, AddRecord(p) PROVE WorldStays
  <2>1. /\ launch[p] = "settled" /\ launch' = [launch EXCEPT ![p] = "recorded"]
        /\ rec[p] \in Records /\ row' = [row EXCEPT ![rec[p]] = RunsIn(p)]
        /\ UNCHANGED <<rec, sink, proc, run, lost>>
    BY <1>7, <1>0, LaunchWrites DEF AddRecord
  <2>2. \A q \in Ptys : q # p => RunningIn(q)' \subseteq RunningIn(q)
    BY <1>0, <2>1 DEF TypeOK, RunningIn, RunsIn
  <2>3. \A r \in Records : row[r].state # "absent" => row'[r].state # "absent"
    BY <1>0, <2>1 DEF TypeOK, RunsIn
  <2>. QED  BY <1>0, <2>1, <2>2, <2>3 DEF WorldStays, Stays, RecordTold, RunTold, TypeOK, Early, Asking
<1>8. ASSUME NEW p \in Ptys, SettleRecord(p) PROVE WorldStays
  <2>1. /\ launch[p] = "recorded" /\ launch' = [launch EXCEPT ![p] = "done"]
        /\ UNCHANGED <<rec, sink, proc, lost>>
    BY <1>8 DEF SettleRecord, Advance
  <2>2. \A q \in Ptys : run[q] = "exited" => run'[q] = "exited"
    BY <1>8, <1>0, LaunchWrites, RecordExitIs
  <2>3. \A r \in Records : row'[r] = row[r] \/ (row'[r] = Ended(TRUE) /\ row[r].state = "running")
    <3>1. row' = row \/ row' = RowsEnded(p)
      BY <1>8, <1>0, LaunchWrites
    <3>2. CASE row' = RowsEnded(p)
      BY <3>2 DEF RowsEnded, RunningIn
    <3>. QED  BY <3>1, <3>2
  <2>4. \A q \in Ptys : RunningIn(q)' \subseteq RunningIn(q)
    BY <2>3 DEF RunningIn, Ended
  <2>5. \A r \in Records : row[r].state # "absent" => row'[r].state # "absent"
    BY <2>3 DEF Ended
  <2>6. ASSUME proc[p] = "exited" PROVE RunningIn(p)' = {}
    <3>1. row' = RowsEnded(p)
      BY <1>8, <1>0, <2>6, LaunchWrites
    <3>. QED  BY <3>1 DEF RowsEnded, RunningIn, Ended
  <2>. QED  BY <1>0, <2>1, <2>2, <2>4, <2>5, <2>6 DEF WorldStays, Stays, RecordTold, RunTold, TypeOK, Early, Asking
<1>9. ASSUME NEW p \in Ptys, LauncherDies(p) PROVE WorldStays
  BY <1>9, <1>0 DEF LauncherDies
<1>10. ASSUME NEW p \in Ptys, Exit(p) PROVE WorldStays
  <2>1. /\ proc[p] = "live" /\ proc' = [proc EXCEPT ![p] = "exited"] /\ sink' = [sink EXCEPT ![p] = "spool"]
        /\ UNCHANGED <<launch, rec, lost, run, row>>
    BY <1>10 DEF Exit
  <2>. QED  BY <1>0, <2>1 DEF WorldStays, Stays, RecordTold, RunTold, RunningIn, TypeOK
<1>11. ASSUME NEW p \in Ptys, SpoolExit(p) PROVE WorldStays
  <2>1. /\ UNCHANGED <<launch, rec, proc, run, row>> /\ lost \subseteq lost'
        /\ sink' = [sink EXCEPT ![p] = "broadcast"]
    BY <1>11 DEF SpoolExit
  <2>. QED  BY <1>0, <2>1, QuietStays DEF TypeOK
<1>12. ASSUME NEW p \in Ptys, Broadcast(p) PROVE WorldStays
  <2>1. /\ UNCHANGED <<launch, rec, proc, run, row>> /\ lost \subseteq lost'
        /\ sink' = [sink EXCEPT ![p] = "done"]
    BY <1>12 DEF Broadcast
  <2>. QED  BY <1>0, <2>1, QuietStays DEF TypeOK
<1>13. ASSUME NEW p \in Ptys, Close(p) PROVE WorldStays
  <2>1. /\ UNCHANGED <<launch, rec, proc, run, row>> /\ lost \subseteq lost'
        /\ \A q \in Ptys : sink[q] # "spool" => sink'[q] # "spool"
    BY <1>13 DEF Close, TypeOK
  <2>. QED  BY <1>0, <2>1, QuietStays
<1>14. CASE DaemonIdles
  <2>1. /\ UNCHANGED <<launch, rec, proc, run, row>> /\ lost \subseteq lost'
        /\ \A q \in Ptys : sink[q] # "spool" => sink'[q] # "spool"
    BY <1>14 DEF DaemonIdles, TypeOK
  <2>. QED  BY <1>0, <2>1, QuietStays
<1>15. CASE DaemonDies
  BY <1>15, <1>0 DEF DaemonDies
<1>16. ASSUME NEW d \in Drainers, ListSpool(d) PROVE WorldStays
  <2>1. /\ UNCHANGED <<launch, rec, proc, run, row>> /\ lost \subseteq lost'
        /\ \A q \in Ptys : sink[q] # "spool" => sink'[q] # "spool"
    BY <1>16 DEF ListSpool, TypeOK
  <2>. QED  BY <1>0, <2>1, QuietStays
<1>17. ASSUME NEW d \in Drainers, ReadEntry(d) PROVE WorldStays
  <2>1. /\ UNCHANGED <<launch, rec, proc, run, row>> /\ lost \subseteq lost'
        /\ \A q \in Ptys : sink[q] # "spool" => sink'[q] # "spool"
    BY <1>17 DEF ReadEntry, TypeOK
  <2>. QED  BY <1>0, <2>1, QuietStays
<1>18. ASSUME NEW d \in Drainers, FinishImport(d) PROVE WorldStays
  <2>1. /\ UNCHANGED <<launch, rec, proc, run, row>> /\ lost \subseteq lost'
        /\ \A q \in Ptys : sink[q] # "spool" => sink'[q] # "spool"
    BY <1>18 DEF FinishImport, TypeOK
  <2>. QED  BY <1>0, <2>1, QuietStays
<1>19. ASSUME NEW d \in Drainers, SelectRecord(d) PROVE WorldStays
  <2>1. /\ UNCHANGED <<launch, rec, proc, run, row>> /\ lost \subseteq lost'
        /\ \A q \in Ptys : sink[q] # "spool" => sink'[q] # "spool"
    BY <1>19 DEF SelectRecord, TypeOK
  <2>. QED  BY <1>0, <2>1, QuietStays
<1>20. ASSUME NEW d \in Drainers, EndRecord(d) PROVE WorldStays
  <2>1. UNCHANGED <<launch, rec, sink, proc, lost, run>>
    BY <1>20 DEF EndRecord
  <2>2. row' = [row EXCEPT ![task[d].found] = Ended(TRUE)]
    BY <1>20, <1>0, TaskWrites
  <2>3. \A r \in Records : row'[r] = row[r] \/ row'[r] = Ended(TRUE)
    BY <1>0, <2>2 DEF TypeOK
  <2>4. \A q \in Ptys : RunningIn(q)' \subseteq RunningIn(q)
    BY <2>3 DEF RunningIn, Ended
  <2>5. \A r \in Records : row[r].state # "absent" => row'[r].state # "absent"
    BY <2>3 DEF Ended
  <2>. QED  BY <2>1, <2>4, <2>5 DEF WorldStays, Stays, RecordTold, RunTold
<1>21. ASSUME NEW d \in Drainers, EndRun(d) PROVE WorldStays
  <2>1. UNCHANGED <<launch, rec, sink, proc, lost, row>>
    BY <1>21 DEF EndRun
  <2>2. \A q \in Ptys : run[q] = "exited" => run'[q] = "exited"
    <3>1. task[d].at \in Ptys
      BY <1>21, <1>0 DEF EndRun, TasksFit, TaskFits, Telling
    <3>. QED  BY <1>21, <1>0, <3>1, TaskWrites, RecordExitIs
  <2>. QED  BY <2>1, <2>2 DEF WorldStays, Stays, RecordTold, RunTold, RunningIn
<1>22. ASSUME NEW d \in Drainers, AdoptEarlyExit(d) PROVE WorldStays
  <2>1. UNCHANGED <<launch, rec, sink, proc, lost, row>>
    BY <1>22 DEF AdoptEarlyExit
  <2>2. \A q \in Ptys : run[q] = "exited" => run'[q] = "exited"
    BY <1>22, <1>0, TaskWrites DEF TypeOK
  <2>. QED  BY <2>1, <2>2 DEF WorldStays, Stays, RecordTold, RunTold, RunningIn
<1>23. ASSUME NEW d \in Drainers, RemoveEntry(d) PROVE WorldStays
  <2>1. /\ UNCHANGED <<launch, rec, proc, run, row>> /\ lost \subseteq lost'
        /\ \A q \in Ptys : sink[q] # "spool" => sink'[q] # "spool"
    BY <1>23 DEF RemoveEntry, TypeOK
  <2>. QED  BY <1>0, <2>1, QuietStays
<1>24. CASE YsDrain
  <2>1. /\ UNCHANGED <<launch, rec, proc, run, row>> /\ lost \subseteq lost'
        /\ \A q \in Ptys : sink[q] # "spool" => sink'[q] # "spool"
    BY <1>24 DEF YsDrain, TypeOK
  <2>. QED  BY <1>0, <2>1, QuietStays
<1>25. CASE Start
  <2>1. /\ UNCHANGED <<launch, rec, proc, run, row>> /\ lost \subseteq lost'
        /\ \A q \in Ptys : sink[q] # "spool" => sink'[q] # "spool"
    BY <1>25 DEF Start, TypeOK
  <2>. QED  BY <1>0, <2>1, QuietStays
<1>26. CASE ListAlive
  <2>1. /\ UNCHANGED <<launch, rec, proc, run, row>> /\ lost \subseteq lost'
        /\ \A q \in Ptys : sink[q] # "spool" => sink'[q] # "spool"
    BY <1>26 DEF ListAlive, TypeOK
  <2>. QED  BY <1>0, <2>1, QuietStays
<1>27. CASE EndInterruptedSessions
  <2>1. UNCHANGED <<launch, rec, sink, proc, lost, run>>
    BY <1>27 DEF EndInterruptedSessions
  <2>3. \A r \in Records : row'[r] = row[r] \/ row'[r] = Ended(FALSE)
    BY <1>27 DEF EndInterruptedSessions
  <2>4. \A q \in Ptys : RunningIn(q)' \subseteq RunningIn(q)
    BY <2>3 DEF RunningIn, Ended
  <2>5. \A r \in Records : row[r].state # "absent" => row'[r].state # "absent"
    BY <2>3 DEF Ended
  <2>. QED  BY <2>1, <2>4, <2>5 DEF WorldStays, Stays, RecordTold, RunTold
<1>28. CASE EndInterruptedRuns
  <2>1. UNCHANGED <<launch, rec, sink, proc, lost, row>>
    BY <1>28 DEF EndInterruptedRuns
  <2>2. \A q \in Ptys : run[q] = "exited" => run'[q] = "exited"
    BY <1>28, <1>0, AppWrites
  <2>. QED  BY <2>1, <2>2 DEF WorldStays, Stays, RecordTold, RunTold, RunningIn
<1>29. CASE Hear
  <2>1. /\ UNCHANGED <<launch, rec, proc, run, row>> /\ lost \subseteq lost'
        /\ \A q \in Ptys : sink[q] # "spool" => sink'[q] # "spool"
    BY <1>29 DEF Hear, TypeOK, Set
  <2>. QED  BY <1>0, <2>1, QuietStays
<1>30. CASE Quit
  <2>1. launch' = launch
    BY <1>30, <1>0 DEF Quit, TypeOK
  <2>2. UNCHANGED <<rec, proc, sink, lost, run, row>>
    BY <1>30 DEF Quit
  <2>. QED  BY <1>0, <2>1, <2>2, QuietStays
<1>. QED
  BY <1>1, <1>2, <1>3, <1>4, <1>5, <1>6, <1>7, <1>8, <1>9, <1>10, <1>11, <1>12, <1>13, <1>14, <1>15,
     <1>16, <1>17, <1>18, <1>19, <1>20, <1>21, <1>22, <1>23, <1>24, <1>25, <1>26, <1>27, <1>28, <1>29,
     <1>30 DEF Next, Launching, Import


\* Whoever takes no step carries on with the news it has.
LEMMA TaskStays ==
    ASSUME TypeOK, TasksFit, WorldStays, NEW e \in Drainers, task'[e] = task[e]
    PROVE  TaskFits(e)'
<1> DEFINE p == task[e].at
<1>1. TaskFits(e)
  BY DEF TasksFit
<1>2. CASE task[e].step \notin Telling
  BY <1>2 DEF TaskFits, Telling
<1>3. CASE task[e].step \in Telling
  <2>1. p \in Ptys /\ proc[p] = "exited" /\ sink[p] # "spool"
    BY <1>1, <1>3 DEF TaskFits
  <2>2. Stays(p) /\ \A r \in Records : row[r].state # "absent" => row'[r].state # "absent"
    BY <2>1 DEF WorldStays
  <2>3. /\ proc'[p] = "exited" /\ sink'[p] # "spool" /\ rec'[p] = rec[p]
        /\ launch[p] \notin Early => launch'[p] \notin Early
        /\ RecordTold(p) => RecordTold(p)'
        /\ RunTold(p) => RunTold(p)'
    BY <2>1, <2>2 DEF Stays
  <2>. QED  BY <1>1, <2>1, <2>2, <2>3 DEF TaskFits
<1>. QED  BY <1>2, <1>3

\* Who carries no news is right.
LEMMA NoNews ==
    ASSUME NEW e, task'[e].step \notin Telling
    PROVE  TaskFits(e)'
BY DEF TaskFits, Telling

\* The news goes on as it should.
LEMMA TasksStep ==
    ASSUME TypeOK, Undisturbed, KeptInv, Next
    PROVE  TasksFit'
<1>0. /\ TypeOK /\ Undisturbed /\ KeptInv /\ LaunchesFit /\ AllKept /\ PhaseFits /\ SettledFits
      /\ RecordsFit /\ EntriesFit /\ TasksFit /\ UnreadFits
      /\ LaunchersMayDie = FALSE /\ DaemonMayDie = FALSE /\ MayClose = FALSE
      /\ FallbackMayHappen = FALSE /\ LaunchDuringStart = FALSE
      /\ "app" \in Drainers /\ None \notin Ptys /\ None \notin Records
  BY ExitsAssumption DEF KeptInv, Undisturbed
<1>w. WorldStays
  BY <1>0, WorldStep
<1>1. ASSUME NEW p \in Ptys, Begin(p) PROVE TasksFit'
  <2>1. task' = task
    BY <1>1 DEF Begin
  <2>. QED  BY <1>1, <1>0, <1>w, <2>1, TaskStays DEF TasksFit
<1>2. ASSUME NEW p \in Ptys, Spawn(p) PROVE TasksFit'
  <2>1. task' = task
    BY <1>2 DEF Spawn
  <2>. QED  BY <1>2, <1>0, <1>w, <2>1, TaskStays DEF TasksFit
<1>3. ASSUME NEW p \in Ptys, SpawnFails(p) PROVE TasksFit'
  <2>1. task' = task
    BY <1>3 DEF SpawnFails
  <2>. QED  BY <1>3, <1>0, <1>w, <2>1, TaskStays DEF TasksFit
<1>4. ASSUME NEW p \in Ptys, Insert(p) PROVE TasksFit'
  <2>1. task' = task
    BY <1>4 DEF Insert
  <2>. QED  BY <1>4, <1>0, <1>w, <2>1, TaskStays DEF TasksFit
<1>5. ASSUME NEW p \in Ptys, Spawned(p) PROVE TasksFit'
  <2>1. task' = task
    BY <1>5 DEF Spawned
  <2>. QED  BY <1>5, <1>0, <1>w, <2>1, TaskStays DEF TasksFit
<1>6. ASSUME NEW p \in Ptys, SettleRun(p) PROVE TasksFit'
  <2>1. task' = task
    BY <1>6 DEF SettleRun
  <2>. QED  BY <1>6, <1>0, <1>w, <2>1, TaskStays DEF TasksFit
<1>7. ASSUME NEW p \in Ptys, AddRecord(p) PROVE TasksFit'
  <2>1. task' = task
    BY <1>7 DEF AddRecord
  <2>. QED  BY <1>7, <1>0, <1>w, <2>1, TaskStays DEF TasksFit
<1>8. ASSUME NEW p \in Ptys, SettleRecord(p) PROVE TasksFit'
  <2>1. task' = task
    BY <1>8 DEF SettleRecord
  <2>. QED  BY <1>8, <1>0, <1>w, <2>1, TaskStays DEF TasksFit
<1>9. ASSUME NEW p \in Ptys, LauncherDies(p) PROVE TasksFit'
  <2>1. task' = task
    BY <1>9 DEF LauncherDies
  <2>. QED  BY <1>9, <1>0, <1>w, <2>1, TaskStays DEF TasksFit
<1>10. ASSUME NEW p \in Ptys, Exit(p) PROVE TasksFit'
  <2>1. task' = task
    BY <1>10 DEF Exit
  <2>. QED  BY <1>10, <1>0, <1>w, <2>1, TaskStays DEF TasksFit
<1>11. ASSUME NEW p \in Ptys, SpoolExit(p) PROVE TasksFit'
  <2>1. task' = task
    BY <1>11 DEF SpoolExit
  <2>. QED  BY <1>11, <1>0, <1>w, <2>1, TaskStays DEF TasksFit
<1>12. ASSUME NEW p \in Ptys, Broadcast(p) PROVE TasksFit'
  <2>1. task' = task
    BY <1>12 DEF Broadcast
  <2>. QED  BY <1>12, <1>0, <1>w, <2>1, TaskStays DEF TasksFit
<1>13. ASSUME NEW p \in Ptys, Close(p) PROVE TasksFit'
  <2>1. task' = task
    BY <1>13 DEF Close
  <2>. QED  BY <1>13, <1>0, <1>w, <2>1, TaskStays DEF TasksFit
<1>14. CASE DaemonIdles
  <2>1. task' = task
    BY <1>14 DEF DaemonIdles
  <2>. QED  BY <1>14, <1>0, <1>w, <2>1, TaskStays DEF TasksFit
<1>15. CASE DaemonDies
  <2>1. task' = task
    BY <1>15 DEF DaemonDies
  <2>. QED  BY <1>15, <1>0, <1>w, <2>1, TaskStays DEF TasksFit
<1>16. ASSUME NEW d \in Drainers, ListSpool(d) PROVE TasksFit'
  <2>1. \A e \in Drainers : e # d => task'[e] = task[e]
    BY <1>16, <1>0, TaskSets DEF TaskIs
  <2>2. task'[d].step \notin Telling
    BY <1>16, <1>0, TaskSets DEF TaskIs, Telling
  <2>3. TaskFits(d)'
    BY <2>2, NoNews
  <2>. QED  BY <1>0, <1>w, <2>1, <2>3, TaskStays DEF TasksFit
<1>17. ASSUME NEW d \in Drainers, ReadEntry(d) PROVE TasksFit'
  <2>1. \A e \in Drainers : e # d => task'[e] = task[e]
    BY <1>17, <1>0, TaskSets DEF TaskIs
  <2>2. TaskFits(d)
    BY <1>0 DEF TasksFit
  <2>3. UNCHANGED <<launchVars, daemonVars, dbVars, appVars>> /\ task[d].step = "pick"
    BY <1>17 DEF ReadEntry
  <2>4. PICK p \in task[d].todo :
                 \/ InSpool(p) /\ TaskIs(d, "select", p, task[d].found, task[d].todo \ {p})
                 \/ ~ InSpool(p) /\ TaskIs(d, task[d].step, task[d].at, task[d].found, task[d].todo \ {p})
    BY <1>17, <1>0, TaskSets
  <2>5. CASE ~ InSpool(p)
    <3>1. task'[d].step = "pick"
      BY <2>3, <2>4, <2>5 DEF TaskIs
    <3>2. TaskFits(d)'
      BY <3>1, NoNews DEF Telling
    <3>. QED  BY <1>0, <1>w, <2>1, <3>2, TaskStays DEF TasksFit
  <2>6. CASE InSpool(p)
    <3>1. task'[d].step = "select" /\ task'[d].at = p
      BY <2>4, <2>6 DEF TaskIs
    <3>2. p \in Ptys /\ proc[p] = "exited" /\ sink[p] # "spool"
      BY <1>0, <2>4, <2>6 DEF LaunchesFit, LaunchFits, TypeOK
    <3>3. task'[d].named = TRUE => launch[p] \notin Early
      BY <1>17, <1>0, <3>1, NamedSets DEF EntriesFit
    <3>4. TaskFits(d)'
      BY <2>3, <3>1, <3>2, <3>3 DEF TaskFits
    <3>. QED  BY <1>0, <1>w, <2>1, <3>4, TaskStays DEF TasksFit
  <2>. QED  BY <2>5, <2>6
<1>18. ASSUME NEW d \in Drainers, FinishImport(d) PROVE TasksFit'
  <2>1. \A e \in Drainers : e # d => task'[e] = task[e]
    BY <1>18, <1>0, TaskSets DEF TaskIs
  <2>2. task'[d].step \notin Telling
    BY <1>18, <1>0, TaskSets DEF TaskIs, Telling
  <2>3. TaskFits(d)'
    BY <2>2, NoNews
  <2>. QED  BY <1>0, <1>w, <2>1, <2>3, TaskStays DEF TasksFit
<1>19. ASSUME NEW d \in Drainers, SelectRecord(d) PROVE TasksFit'
  <2>1. \A e \in Drainers : e # d => task'[e] = task[e]
    BY <1>19, <1>0, TaskSets DEF TaskIs
  <2>2. TaskFits(d)
    BY <1>0 DEF TasksFit
  <2>3. UNCHANGED <<launchVars, daemonVars, dbVars, appVars>> /\ task[d].step = "select" /\ task'[d].named = task[d].named
    BY <1>19, <1>0, NamedSets DEF SelectRecord
  <2>4. task[d].at \in Ptys /\ task'[d].at = task[d].at
    BY <1>19, <1>0, <2>2, <2>3, TaskSets DEF TaskIs, TaskFits, Telling
  <2>5. ASSUME RunningIn(task[d].at) = {}, TaskIs(d, "run", task[d].at, None, task[d].todo) PROVE TaskFits(d)'
    <3>1. task'[d].step = "run" /\ RecordTold(task[d].at)
      BY <2>5 DEF TaskIs, RecordTold
    <3>2. RecordTold(task[d].at)'
      BY <2>3, <2>4, <3>1 DEF RecordTold, RunningIn
    <3>. QED  BY <2>2, <2>3, <2>4, <3>1, <3>2 DEF TaskFits, Telling
  <2>6. ASSUME NEW r \in RunningIn(task[d].at), TaskIs(d, "update", task[d].at, r, task[d].todo) PROVE TaskFits(d)'
    <3>1. task'[d].step = "update" /\ task'[d].found = r
      BY <2>6 DEF TaskIs
    <3>2. r \in Records /\ rec[task[d].at] = r /\ row[r].state # "absent"
      BY <1>0, <2>6 DEF RunningIn, RecordsFit
    <3>. QED  BY <2>2, <2>3, <2>4, <3>1, <3>2 DEF TaskFits, Telling
  <2>9. TaskFits(d)'
    BY <1>19, <1>0, <2>5, <2>6, TaskSets
  <2>. QED  BY <1>0, <1>w, <2>1, <2>9, TaskStays DEF TasksFit
<1>20. ASSUME NEW d \in Drainers, EndRecord(d) PROVE TasksFit'
  <2>1. \A e \in Drainers : e # d => task'[e] = task[e]
    BY <1>20, <1>0, TaskSets DEF TaskIs
  <2>2. TaskFits(d)
    BY <1>0 DEF TasksFit
  <2>3. UNCHANGED <<launch, rec, proc, sink>> /\ task[d].step = "update" /\ task'[d].named = task[d].named
    BY <1>20, <1>0, NamedSets DEF EndRecord
  <2>4. task[d].at \in Ptys /\ task'[d].at = task[d].at /\ task'[d].step = "run"
    BY <1>20, <1>0, <2>2, <2>3, TaskSets DEF TaskIs, TaskFits, Telling
  <2>5. RunningIn(task[d].at)' = {}
    <3>1. row' = [row EXCEPT ![task[d].found] = Ended(TRUE)] /\ Ended(TRUE).state = "ended"
      BY <1>20, <1>0, TaskWrites DEF Ended
    <3>2. \A r \in RunningIn(task[d].at) : r = task[d].found
      BY <1>0, <2>2, <2>3 DEF RunningIn, RecordsFit, TaskFits
    <3>3. \A r \in Records : (row'[r] = row[r] /\ r # task[d].found) \/ row'[r].state = "ended"
      BY <1>0, <3>1 DEF TypeOK
    <3>. QED  BY <2>4, <3>2, <3>3 DEF RunningIn
  <2>6. RecordTold(task[d].at)'
    BY <2>5 DEF RecordTold
  <2>9. TaskFits(d)'
    BY <2>2, <2>3, <2>4, <2>6 DEF TaskFits, Telling
  <2>. QED  BY <1>0, <1>w, <2>1, <2>9, TaskStays DEF TasksFit
<1>21. ASSUME NEW d \in Drainers, EndRun(d) PROVE TasksFit'
  <2>1. \A e \in Drainers : e # d => task'[e] = task[e]
    BY <1>21, <1>0, TaskSets DEF TaskIs
  <2>2. TaskFits(d)
    BY <1>0 DEF TasksFit
  <2>3. UNCHANGED <<launch, rec, proc, sink, row, linked, lost>> /\ task[d].step = "run" /\ task'[d].named = task[d].named
    BY <1>21, <1>0, NamedSets DEF EndRun
  <2> DEFINE p == task[d].at
  <2>4. p \in Ptys /\ task'[d].at = p /\ task'[d].step \in {"list", "remove", "adopt"} /\ RecordTold(p)
        /\ (task'[d].step = "remove" => linked[p] \/ linked[p] = FALSE)
    BY <1>21, <1>0, <2>2, <2>3, TaskSets DEF TaskIs, TaskFits, Telling, TypeOK
  <2>5. RecordTold(p)'
    BY <2>3, <2>4 DEF RecordTold, RunningIn
  <2>6. RunTold(p)'
    <3>1. run' = RecordExit(p)
      BY <1>21, <1>0, TaskWrites
    <3>2. proc[p] = "exited" /\ sink[p] # "spool"
      BY <2>2, <2>3 DEF TaskFits, Telling
    <3>3. LaunchFits(p) /\ KeptFits(p) /\ launch[p] \in LaunchSteps
      BY <1>0, <2>4 DEF LaunchesFit, AllKept, TypeOK
    <3>4. p \in lost \/ run[p] \in {"open", "exited"}
      BY <3>2, <3>3 DEF KeptFits
    <3>5. CASE linked[p] = TRUE
      BY <1>0, <2>3, <2>4, <3>1, <3>4, <3>5, RecordExitIs DEF RunTold
    <3>6. CASE linked[p] # TRUE
      <4>1. launch[p] \in Asking \/ run[p] = "spawn_failed"
        BY <3>2, <3>3, <3>6 DEF LaunchFits, Asking, LaunchSteps
      <4>. QED  BY <2>3, <2>4, <3>4, <4>1 DEF RunTold
    <3>. QED  BY <3>5, <3>6
  <2>9. TaskFits(d)'
    BY <2>2, <2>3, <2>4, <2>5, <2>6 DEF TaskFits, Telling
  <2>. QED  BY <1>0, <1>w, <2>1, <2>9, TaskStays DEF TasksFit
<1>22. ASSUME NEW d \in Drainers, AdoptEarlyExit(d) PROVE TasksFit'
  <2>1. \A e \in Drainers : e # d => task'[e] = task[e]
    BY <1>22, <1>0, TaskSets DEF TaskIs
  <2>2. TaskFits(d)
    BY <1>0 DEF TasksFit
  <2>3. UNCHANGED <<launch, rec, proc, sink, row, lost>> /\ task[d].step = "adopt" /\ task'[d].named = task[d].named
    BY <1>22, <1>0, NamedSets DEF AdoptEarlyExit
  <2>4. task'[d].at = task[d].at /\ task'[d].step = "remove"
    BY <1>22, <1>0, TaskSets DEF TaskIs
  <2>5. task[d].at \in Ptys /\ Stays(task[d].at) /\ RecordTold(task[d].at) /\ RunTold(task[d].at)
    BY <1>w, <2>2, <2>3 DEF TaskFits, Telling, WorldStays
  <2>6. RecordTold(task[d].at)' /\ RunTold(task[d].at)'
    BY <2>2, <2>3, <2>5 DEF Stays, TaskFits, Telling
  <2>9. TaskFits(d)'
    BY <2>2, <2>3, <2>4, <2>6 DEF TaskFits, Telling
  <2>. QED  BY <1>0, <1>w, <2>1, <2>9, TaskStays DEF TasksFit
<1>23. ASSUME NEW d \in Drainers, RemoveEntry(d) PROVE TasksFit'
  <2>1. \A e \in Drainers : e # d => task'[e] = task[e]
    BY <1>23, <1>0, TaskSets DEF TaskIs
  <2>2. task'[d].step \notin Telling
    BY <1>23, <1>0, TaskSets DEF TaskIs, Telling
  <2>3. TaskFits(d)'
    BY <2>2, NoNews
  <2>. QED  BY <1>0, <1>w, <2>1, <2>3, TaskStays DEF TasksFit
<1>24. CASE YsDrain
  <2>1. "ys" \in Drainers /\ (\A e \in Drainers : e # "ys" => task'[e] = task[e]) /\ task'["ys"].step \notin Telling
    BY <1>24, <1>0, TaskSets DEF TaskIs, Telling
  <2>2. TaskFits("ys")'
    BY <2>1, NoNews
  <2>. QED  BY <1>0, <1>w, <2>1, <2>2, TaskStays DEF TasksFit
<1>25. CASE Start
  <2>1. "app" \in Drainers /\ (\A e \in Drainers : e # "app" => task'[e] = task[e]) /\ task'["app"].step \notin Telling
    BY <1>25, <1>0, TaskSets DEF TaskIs, Telling
  <2>2. TaskFits("app")'
    BY <2>1, NoNews
  <2>. QED  BY <1>0, <1>w, <2>1, <2>2, TaskStays DEF TasksFit
<1>26. CASE ListAlive
  <2>1. task' = task
    BY <1>26 DEF ListAlive
  <2>. QED  BY <1>26, <1>0, <1>w, <2>1, TaskStays DEF TasksFit
<1>27. CASE EndInterruptedSessions
  <2>1. task' = task
    BY <1>27 DEF EndInterruptedSessions
  <2>. QED  BY <1>27, <1>0, <1>w, <2>1, TaskStays DEF TasksFit
<1>28. CASE EndInterruptedRuns
  <2>1. task' = task
    BY <1>28 DEF EndInterruptedRuns
  <2>. QED  BY <1>28, <1>0, <1>w, <2>1, TaskStays DEF TasksFit
<1>29. CASE Hear
  <2>0. Head(queue) \in Ptys /\ proc[Head(queue)] = "exited" /\ sink[Head(queue)] # "spool"
    BY <1>29, <1>0 DEF Hear, PhaseFits, TypeOK
  <2>1. CASE task' = task
    BY <1>0, <1>w, <2>1, TaskStays DEF TasksFit
  <2>2. CASE phase = "on" /\ TaskIs("app", "select", Head(queue), None, {})
    <3>1. (\A e \in Drainers : e # "app" => task'[e] = task[e]) /\ task'["app"].named = FALSE
      BY <1>29, <1>0, <2>2, NamedSets DEF TaskIs
    <3>2. task'["app"].step = "select" /\ task'["app"].at = Head(queue)
      BY <2>2 DEF TaskIs
    <3>3. proc' = proc /\ sink' = sink
      BY <1>29 DEF Hear
    <3>4. TaskFits("app")'
      BY <2>0, <3>1, <3>2, <3>3 DEF TaskFits
    <3>. QED  BY <1>0, <1>w, <3>1, <3>4, TaskStays DEF TasksFit
  <2>. QED  BY <1>29, <1>0, <2>1, <2>2, TaskSets
<1>30. CASE Quit
  <2>1. "app" \in Drainers /\ (\A e \in Drainers : e # "app" => task'[e] = task[e]) /\ task'["app"].step \notin Telling
    BY <1>30, <1>0, TaskSets DEF TaskIs, Telling
  <2>2. TaskFits("app")'
    BY <2>1, NoNews
  <2>. QED  BY <1>0, <1>w, <2>1, <2>2, TaskStays DEF TasksFit
<1>. QED
  BY <1>1, <1>2, <1>3, <1>4, <1>5, <1>6, <1>7, <1>8, <1>9, <1>10, <1>11, <1>12, <1>13, <1>14, <1>15,
     <1>16, <1>17, <1>18, <1>19, <1>20, <1>21, <1>22, <1>23, <1>24, <1>25, <1>26, <1>27, <1>28, <1>29,
     <1>30 DEF Next, Launching, Import


\* A step keeps what is known of a process if it brings no more news than it writes down.
LEMMA KeptBy ==
    ASSUME KeptInv, WorldStays, NEW p \in Ptys,
           p \notin lost' /\ proc'[p] \in {"live", "exited"} => run'[p] \in {"open", "exited"},
           proc'[p] = "exited" /\ sink'[p] # "spool" /\ p \notin lost' =>
              (proc[p] = "exited" /\ sink[p] # "spool" /\ p \notin lost) \/ InSpool(p)',
           InSpool(p) => InSpool(p)' \/ (RunTold(p)' /\ RecordTold(p)')
    PROVE  KeptFits(p)'
<1>1. KeptFits(p) /\ Stays(p)
  BY DEF KeptInv, AllKept, WorldStays
<1>. QED  BY <1>1 DEF KeptFits, Stays

\* What was kept stays known.
LEMMA KeptStep ==
    ASSUME TypeOK, Undisturbed, KeptInv, Next
    PROVE  AllKept'
<1>0. /\ TypeOK /\ Undisturbed /\ KeptInv /\ LaunchesFit /\ AllKept /\ PhaseFits /\ SettledFits
      /\ RecordsFit /\ EntriesFit /\ TasksFit /\ UnreadFits
      /\ LaunchersMayDie = FALSE /\ DaemonMayDie = FALSE /\ MayClose = FALSE
      /\ FallbackMayHappen = FALSE /\ LaunchDuringStart = FALSE
      /\ "app" \in Drainers /\ None \notin Ptys /\ None \notin Records
  BY ExitsAssumption DEF KeptInv, Undisturbed
<1>w. WorldStays
  BY <1>0, WorldStep
<1>1. ASSUME NEW p \in Ptys, Begin(p) PROVE AllKept'
  <2> SUFFICES ASSUME NEW q \in Ptys PROVE KeptFits(q)'
    BY DEF AllKept
  <2>1. q \notin lost' /\ proc'[q] \in {"live", "exited"} => run'[q] \in {"open", "exited"}
    <3>1. run' = [run EXCEPT ![p] = "open"] /\ proc' = proc /\ lost' = lost
      BY <1>1, <1>0, LaunchWrites DEF Begin
    <3>2. run'[q] = run[q] \/ run'[q] = "open"
      BY <3>1 DEF TypeOK
    <3>. QED  BY <1>0, <3>1, <3>2 DEF AllKept, KeptFits
  <2>2. proc'[q] = "exited" /\ sink'[q] # "spool" /\ q \notin lost' =>
              (proc[q] = "exited" /\ sink[q] # "spool" /\ q \notin lost) \/ InSpool(q)'
    BY <1>1, <1>0 DEF Begin, TypeOK
  <2>3. InSpool(q) => InSpool(q)' \/ (RunTold(q)' /\ RecordTold(q)')
    BY <1>1 DEF Begin, InSpool
  <2>. QED  BY <1>0, <1>w, <2>1, <2>2, <2>3, KeptBy
<1>2. ASSUME NEW p \in Ptys, Spawn(p) PROVE AllKept'
  <2> SUFFICES ASSUME NEW q \in Ptys PROVE KeptFits(q)'
    BY DEF AllKept
  <2>1. q \notin lost' /\ proc'[q] \in {"live", "exited"} => run'[q] \in {"open", "exited"}
    <3>1. launch[p] = "begun" /\ proc' = [proc EXCEPT ![p] = "live"] /\ run' = run /\ lost' = lost
      BY <1>2 DEF Spawn
    <3>2. run[p] = "open"
      BY <1>0, <3>1 DEF LaunchesFit, LaunchFits
    <3>. QED  BY <1>0, <3>1, <3>2 DEF AllKept, KeptFits, TypeOK
  <2>2. proc'[q] = "exited" /\ sink'[q] # "spool" /\ q \notin lost' =>
              (proc[q] = "exited" /\ sink[q] # "spool" /\ q \notin lost) \/ InSpool(q)'
    BY <1>2, <1>0 DEF Spawn, TypeOK
  <2>3. InSpool(q) => InSpool(q)' \/ (RunTold(q)' /\ RecordTold(q)')
    BY <1>2 DEF Spawn, InSpool
  <2>. QED  BY <1>0, <1>w, <2>1, <2>2, <2>3, KeptBy
<1>3. ASSUME NEW p \in Ptys, SpawnFails(p) PROVE AllKept'
  <2> SUFFICES ASSUME NEW q \in Ptys PROVE KeptFits(q)'
    BY DEF AllKept
  <2>1. q \notin lost' /\ proc'[q] \in {"live", "exited"} => run'[q] \in {"open", "exited"}
    <3>1. launch[p] = "begun" /\ proc' = proc /\ lost' = lost /\ \A x \in Ptys : x # p => run'[x] = run[x]
      BY <1>3, <1>0 DEF SpawnFails, LaunchesFit, LaunchFits, TypeOK
    <3>2. proc[p] = "none"
      BY <1>0, <3>1 DEF LaunchesFit, LaunchFits
    <3>. QED  BY <1>0, <3>1, <3>2 DEF AllKept, KeptFits
  <2>2. proc'[q] = "exited" /\ sink'[q] # "spool" /\ q \notin lost' =>
              (proc[q] = "exited" /\ sink[q] # "spool" /\ q \notin lost) \/ InSpool(q)'
    BY <1>3, <1>0 DEF SpawnFails, TypeOK
  <2>3. InSpool(q) => InSpool(q)' \/ (RunTold(q)' /\ RecordTold(q)')
    BY <1>3 DEF SpawnFails, InSpool
  <2>. QED  BY <1>0, <1>w, <2>1, <2>2, <2>3, KeptBy
<1>4. ASSUME NEW p \in Ptys, Insert(p) PROVE AllKept'
  <2> SUFFICES ASSUME NEW q \in Ptys PROVE KeptFits(q)'
    BY DEF AllKept
  <2>1. q \notin lost' /\ proc'[q] \in {"live", "exited"} => run'[q] \in {"open", "exited"}
    BY <1>4, <1>0 DEF Insert, AllKept, KeptFits
  <2>2. proc'[q] = "exited" /\ sink'[q] # "spool" /\ q \notin lost' =>
              (proc[q] = "exited" /\ sink[q] # "spool" /\ q \notin lost) \/ InSpool(q)'
    BY <1>4, <1>0 DEF Insert, TypeOK
  <2>3. InSpool(q) => InSpool(q)' \/ (RunTold(q)' /\ RecordTold(q)')
    BY <1>4 DEF Insert, InSpool
  <2>. QED  BY <1>0, <1>w, <2>1, <2>2, <2>3, KeptBy
<1>5. ASSUME NEW p \in Ptys, Spawned(p) PROVE AllKept'
  <2> SUFFICES ASSUME NEW q \in Ptys PROVE KeptFits(q)'
    BY DEF AllKept
  <2>1. q \notin lost' /\ proc'[q] \in {"live", "exited"} => run'[q] \in {"open", "exited"}
    BY <1>5, <1>0 DEF Spawned, AllKept, KeptFits
  <2>2. proc'[q] = "exited" /\ sink'[q] # "spool" /\ q \notin lost' =>
              (proc[q] = "exited" /\ sink[q] # "spool" /\ q \notin lost) \/ InSpool(q)'
    BY <1>5, <1>0 DEF Spawned, TypeOK
  <2>3. InSpool(q) => InSpool(q)' \/ (RunTold(q)' /\ RecordTold(q)')
    BY <1>5 DEF Spawned, InSpool
  <2>. QED  BY <1>0, <1>w, <2>1, <2>2, <2>3, KeptBy
<1>6. ASSUME NEW p \in Ptys, SettleRun(p) PROVE AllKept'
  <2> SUFFICES ASSUME NEW q \in Ptys PROVE KeptFits(q)'
    BY DEF AllKept
  <2>1. q \notin lost' /\ proc'[q] \in {"live", "exited"} => run'[q] \in {"open", "exited"}
    <3>1. (run' = run \/ run' = RecordExit(p)) /\ proc' = proc /\ lost' = lost
      BY <1>6, <1>0, LaunchWrites DEF SettleRun
    <3>2. run'[q] = run[q] \/ run'[q] = "exited"
      BY <1>0, <3>1, RecordExitIs
    <3>. QED  BY <1>0, <3>1, <3>2 DEF AllKept, KeptFits
  <2>2. proc'[q] = "exited" /\ sink'[q] # "spool" /\ q \notin lost' =>
              (proc[q] = "exited" /\ sink[q] # "spool" /\ q \notin lost) \/ InSpool(q)'
    BY <1>6, <1>0 DEF SettleRun, TypeOK
  <2>3. InSpool(q) => InSpool(q)' \/ (RunTold(q)' /\ RecordTold(q)')
    BY <1>6 DEF SettleRun, InSpool
  <2>. QED  BY <1>0, <1>w, <2>1, <2>2, <2>3, KeptBy
<1>7. ASSUME NEW p \in Ptys, AddRecord(p) PROVE AllKept'
  <2> SUFFICES ASSUME NEW q \in Ptys PROVE KeptFits(q)'
    BY DEF AllKept
  <2>1. q \notin lost' /\ proc'[q] \in {"live", "exited"} => run'[q] \in {"open", "exited"}
    BY <1>7, <1>0 DEF AddRecord, AllKept, KeptFits
  <2>2. proc'[q] = "exited" /\ sink'[q] # "spool" /\ q \notin lost' =>
              (proc[q] = "exited" /\ sink[q] # "spool" /\ q \notin lost) \/ InSpool(q)'
    BY <1>7, <1>0 DEF AddRecord, TypeOK
  <2>3. InSpool(q) => InSpool(q)' \/ (RunTold(q)' /\ RecordTold(q)')
    BY <1>7 DEF AddRecord, InSpool
  <2>. QED  BY <1>0, <1>w, <2>1, <2>2, <2>3, KeptBy
<1>8. ASSUME NEW p \in Ptys, SettleRecord(p) PROVE AllKept'
  <2> SUFFICES ASSUME NEW q \in Ptys PROVE KeptFits(q)'
    BY DEF AllKept
  <2>1. q \notin lost' /\ proc'[q] \in {"live", "exited"} => run'[q] \in {"open", "exited"}
    <3>1. (run' = run \/ run' = RecordExit(p)) /\ proc' = proc /\ lost' = lost
      BY <1>8, <1>0, LaunchWrites DEF SettleRecord
    <3>2. run'[q] = run[q] \/ run'[q] = "exited"
      BY <1>0, <3>1, RecordExitIs
    <3>. QED  BY <1>0, <3>1, <3>2 DEF AllKept, KeptFits
  <2>2. proc'[q] = "exited" /\ sink'[q] # "spool" /\ q \notin lost' =>
              (proc[q] = "exited" /\ sink[q] # "spool" /\ q \notin lost) \/ InSpool(q)'
    BY <1>8, <1>0 DEF SettleRecord, TypeOK
  <2>3. InSpool(q) => InSpool(q)' \/ (RunTold(q)' /\ RecordTold(q)')
    BY <1>8 DEF SettleRecord, InSpool
  <2>. QED  BY <1>0, <1>w, <2>1, <2>2, <2>3, KeptBy
<1>9. ASSUME NEW p \in Ptys, LauncherDies(p) PROVE AllKept'
  BY <1>9, <1>0 DEF LauncherDies
<1>10. ASSUME NEW p \in Ptys, Exit(p) PROVE AllKept'
  <2> SUFFICES ASSUME NEW q \in Ptys PROVE KeptFits(q)'
    BY DEF AllKept
  <2>1. q \notin lost' /\ proc'[q] \in {"live", "exited"} => run'[q] \in {"open", "exited"}
    <3>1. proc[p] = "live" /\ proc' = [proc EXCEPT ![p] = "exited"] /\ run' = run /\ lost' = lost
      BY <1>10 DEF Exit
    <3>. QED  BY <1>0, <3>1 DEF AllKept, KeptFits, TypeOK
  <2>2. proc'[q] = "exited" /\ sink'[q] # "spool" /\ q \notin lost' =>
              (proc[q] = "exited" /\ sink[q] # "spool" /\ q \notin lost) \/ InSpool(q)'
    BY <1>10, <1>0 DEF Exit, TypeOK
  <2>3. InSpool(q) => InSpool(q)' \/ (RunTold(q)' /\ RecordTold(q)')
    BY <1>10 DEF Exit, InSpool
  <2>. QED  BY <1>0, <1>w, <2>1, <2>2, <2>3, KeptBy
<1>11. ASSUME NEW p \in Ptys, SpoolExit(p) PROVE AllKept'
  <2> SUFFICES ASSUME NEW q \in Ptys PROVE KeptFits(q)'
    BY DEF AllKept
  <2>1. q \notin lost' /\ proc'[q] \in {"live", "exited"} => run'[q] \in {"open", "exited"}
    <3>1. proc' = proc /\ run' = run /\ lost \subseteq lost'
      BY <1>11 DEF SpoolExit
    <3>. QED  BY <1>0, <3>1 DEF AllKept, KeptFits
  <2>2. proc'[q] = "exited" /\ sink'[q] # "spool" /\ q \notin lost' =>
              (proc[q] = "exited" /\ sink[q] # "spool" /\ q \notin lost) \/ InSpool(q)'
    <3>1. q # p => sink'[q] = sink[q] /\ proc' = proc /\ lost \subseteq lost'
      BY <1>11, <1>0 DEF SpoolExit, TypeOK
    <3>2. CASE q # p
      BY <3>1, <3>2
    <3>3. CASE q = p /\ p \notin lost'
      <4> DEFINE x == [pty |-> p, named |-> p \in hosted /\ run[p] # "absent"]
      <4>1. p \in lost' \/ spool' = spool \cup {x}
        BY <1>11 DEF SpoolExit
      <4>2. x.pty = p
        OBVIOUS
      <4> HIDE DEF x
      <4>. QED  BY <3>3, <4>1, <4>2 DEF InSpool
    <3>. QED  BY <3>2, <3>3
  <2>3. InSpool(q) => InSpool(q)' \/ (RunTold(q)' /\ RecordTold(q)')
    BY <1>11 DEF SpoolExit, InSpool
  <2>. QED  BY <1>0, <1>w, <2>1, <2>2, <2>3, KeptBy
<1>12. ASSUME NEW p \in Ptys, Broadcast(p) PROVE AllKept'
  <2> SUFFICES ASSUME NEW q \in Ptys PROVE KeptFits(q)'
    BY DEF AllKept
  <2>1. q \notin lost' /\ proc'[q] \in {"live", "exited"} => run'[q] \in {"open", "exited"}
    BY <1>12, <1>0 DEF Broadcast, AllKept, KeptFits
  <2>2. proc'[q] = "exited" /\ sink'[q] # "spool" /\ q \notin lost' =>
              (proc[q] = "exited" /\ sink[q] # "spool" /\ q \notin lost) \/ InSpool(q)'
    BY <1>12, <1>0 DEF Broadcast, TypeOK
  <2>3. InSpool(q) => InSpool(q)' \/ (RunTold(q)' /\ RecordTold(q)')
    BY <1>12 DEF Broadcast, InSpool
  <2>. QED  BY <1>0, <1>w, <2>1, <2>2, <2>3, KeptBy
<1>13. ASSUME NEW p \in Ptys, Close(p) PROVE AllKept'
  <2> SUFFICES ASSUME NEW q \in Ptys PROVE KeptFits(q)'
    BY DEF AllKept
  <2>1. q \notin lost' /\ proc'[q] \in {"live", "exited"} => run'[q] \in {"open", "exited"}
    BY <1>13, <1>0 DEF Close, AllKept, KeptFits
  <2>2. proc'[q] = "exited" /\ sink'[q] # "spool" /\ q \notin lost' =>
              (proc[q] = "exited" /\ sink[q] # "spool" /\ q \notin lost) \/ InSpool(q)'
    BY <1>13, <1>0 DEF Close, TypeOK
  <2>3. InSpool(q) => InSpool(q)' \/ (RunTold(q)' /\ RecordTold(q)')
    BY <1>13 DEF Close, InSpool
  <2>. QED  BY <1>0, <1>w, <2>1, <2>2, <2>3, KeptBy
<1>14. CASE DaemonIdles
  <2> SUFFICES ASSUME NEW q \in Ptys PROVE KeptFits(q)'
    BY DEF AllKept
  <2>1. q \notin lost' /\ proc'[q] \in {"live", "exited"} => run'[q] \in {"open", "exited"}
    BY <1>14, <1>0 DEF DaemonIdles, AllKept, KeptFits
  <2>2. proc'[q] = "exited" /\ sink'[q] # "spool" /\ q \notin lost' =>
              (proc[q] = "exited" /\ sink[q] # "spool" /\ q \notin lost) \/ InSpool(q)'
    BY <1>14, <1>0 DEF DaemonIdles, TypeOK
  <2>3. InSpool(q) => InSpool(q)' \/ (RunTold(q)' /\ RecordTold(q)')
    BY <1>14 DEF DaemonIdles, InSpool
  <2>. QED  BY <1>0, <1>w, <2>1, <2>2, <2>3, KeptBy
<1>15. CASE DaemonDies
  BY <1>15, <1>0 DEF DaemonDies
<1>16. ASSUME NEW d \in Drainers, ListSpool(d) PROVE AllKept'
  <2> SUFFICES ASSUME NEW q \in Ptys PROVE KeptFits(q)'
    BY DEF AllKept
  <2>1. q \notin lost' /\ proc'[q] \in {"live", "exited"} => run'[q] \in {"open", "exited"}
    BY <1>16, <1>0 DEF ListSpool, AllKept, KeptFits
  <2>2. proc'[q] = "exited" /\ sink'[q] # "spool" /\ q \notin lost' =>
              (proc[q] = "exited" /\ sink[q] # "spool" /\ q \notin lost) \/ InSpool(q)'
    BY <1>16, <1>0 DEF ListSpool, TypeOK
  <2>3. InSpool(q) => InSpool(q)' \/ (RunTold(q)' /\ RecordTold(q)')
    BY <1>16 DEF ListSpool, InSpool
  <2>. QED  BY <1>0, <1>w, <2>1, <2>2, <2>3, KeptBy
<1>17. ASSUME NEW d \in Drainers, ReadEntry(d) PROVE AllKept'
  <2> SUFFICES ASSUME NEW q \in Ptys PROVE KeptFits(q)'
    BY DEF AllKept
  <2>1. q \notin lost' /\ proc'[q] \in {"live", "exited"} => run'[q] \in {"open", "exited"}
    BY <1>17, <1>0 DEF ReadEntry, AllKept, KeptFits
  <2>2. proc'[q] = "exited" /\ sink'[q] # "spool" /\ q \notin lost' =>
              (proc[q] = "exited" /\ sink[q] # "spool" /\ q \notin lost) \/ InSpool(q)'
    BY <1>17, <1>0 DEF ReadEntry, TypeOK
  <2>3. InSpool(q) => InSpool(q)' \/ (RunTold(q)' /\ RecordTold(q)')
    BY <1>17 DEF ReadEntry, InSpool
  <2>. QED  BY <1>0, <1>w, <2>1, <2>2, <2>3, KeptBy
<1>18. ASSUME NEW d \in Drainers, FinishImport(d) PROVE AllKept'
  <2> SUFFICES ASSUME NEW q \in Ptys PROVE KeptFits(q)'
    BY DEF AllKept
  <2>1. q \notin lost' /\ proc'[q] \in {"live", "exited"} => run'[q] \in {"open", "exited"}
    BY <1>18, <1>0 DEF FinishImport, AllKept, KeptFits
  <2>2. proc'[q] = "exited" /\ sink'[q] # "spool" /\ q \notin lost' =>
              (proc[q] = "exited" /\ sink[q] # "spool" /\ q \notin lost) \/ InSpool(q)'
    BY <1>18, <1>0 DEF FinishImport, TypeOK
  <2>3. InSpool(q) => InSpool(q)' \/ (RunTold(q)' /\ RecordTold(q)')
    BY <1>18 DEF FinishImport, InSpool
  <2>. QED  BY <1>0, <1>w, <2>1, <2>2, <2>3, KeptBy
<1>19. ASSUME NEW d \in Drainers, SelectRecord(d) PROVE AllKept'
  <2> SUFFICES ASSUME NEW q \in Ptys PROVE KeptFits(q)'
    BY DEF AllKept
  <2>1. q \notin lost' /\ proc'[q] \in {"live", "exited"} => run'[q] \in {"open", "exited"}
    BY <1>19, <1>0 DEF SelectRecord, AllKept, KeptFits
  <2>2. proc'[q] = "exited" /\ sink'[q] # "spool" /\ q \notin lost' =>
              (proc[q] = "exited" /\ sink[q] # "spool" /\ q \notin lost) \/ InSpool(q)'
    BY <1>19, <1>0 DEF SelectRecord, TypeOK
  <2>3. InSpool(q) => InSpool(q)' \/ (RunTold(q)' /\ RecordTold(q)')
    BY <1>19 DEF SelectRecord, InSpool
  <2>. QED  BY <1>0, <1>w, <2>1, <2>2, <2>3, KeptBy
<1>20. ASSUME NEW d \in Drainers, EndRecord(d) PROVE AllKept'
  <2> SUFFICES ASSUME NEW q \in Ptys PROVE KeptFits(q)'
    BY DEF AllKept
  <2>1. q \notin lost' /\ proc'[q] \in {"live", "exited"} => run'[q] \in {"open", "exited"}
    BY <1>20, <1>0 DEF EndRecord, AllKept, KeptFits
  <2>2. proc'[q] = "exited" /\ sink'[q] # "spool" /\ q \notin lost' =>
              (proc[q] = "exited" /\ sink[q] # "spool" /\ q \notin lost) \/ InSpool(q)'
    BY <1>20, <1>0 DEF EndRecord, TypeOK
  <2>3. InSpool(q) => InSpool(q)' \/ (RunTold(q)' /\ RecordTold(q)')
    BY <1>20 DEF EndRecord, InSpool
  <2>. QED  BY <1>0, <1>w, <2>1, <2>2, <2>3, KeptBy
<1>21. ASSUME NEW d \in Drainers, EndRun(d) PROVE AllKept'
  <2> SUFFICES ASSUME NEW q \in Ptys PROVE KeptFits(q)'
    BY DEF AllKept
  <2>1. q \notin lost' /\ proc'[q] \in {"live", "exited"} => run'[q] \in {"open", "exited"}
    <3>0. task[d].at \in Ptys
      BY <1>21, <1>0 DEF EndRun, TasksFit, TaskFits, Telling
    <3>1. run' = RecordExit(task[d].at) /\ proc' = proc /\ lost' = lost
      BY <1>21, <1>0, TaskWrites DEF EndRun
    <3>2. run'[q] = run[q] \/ run'[q] = "exited"
      BY <1>0, <3>0, <3>1, RecordExitIs
    <3>. QED  BY <1>0, <3>1, <3>2 DEF AllKept, KeptFits
  <2>2. proc'[q] = "exited" /\ sink'[q] # "spool" /\ q \notin lost' =>
              (proc[q] = "exited" /\ sink[q] # "spool" /\ q \notin lost) \/ InSpool(q)'
    BY <1>21, <1>0 DEF EndRun, TypeOK
  <2>3. InSpool(q) => InSpool(q)' \/ (RunTold(q)' /\ RecordTold(q)')
    BY <1>21 DEF EndRun, InSpool
  <2>. QED  BY <1>0, <1>w, <2>1, <2>2, <2>3, KeptBy
<1>22. ASSUME NEW d \in Drainers, AdoptEarlyExit(d) PROVE AllKept'
  <2> SUFFICES ASSUME NEW q \in Ptys PROVE KeptFits(q)'
    BY DEF AllKept
  <2>1. q \notin lost' /\ proc'[q] \in {"live", "exited"} => run'[q] \in {"open", "exited"}
    <3>1. proc' = proc /\ lost' = lost
      BY <1>22 DEF AdoptEarlyExit
    <3>a. run' = [run EXCEPT ![task[d].at] = "exited"] \/ run' = run
      BY <1>22, <1>0, TaskWrites
    <3>2. run'[q] = run[q] \/ run'[q] = "exited"
      BY <3>a DEF TypeOK
    <3>. QED  BY <1>0, <3>1, <3>2 DEF AllKept, KeptFits
  <2>2. proc'[q] = "exited" /\ sink'[q] # "spool" /\ q \notin lost' =>
              (proc[q] = "exited" /\ sink[q] # "spool" /\ q \notin lost) \/ InSpool(q)'
    BY <1>22, <1>0 DEF AdoptEarlyExit, TypeOK
  <2>3. InSpool(q) => InSpool(q)' \/ (RunTold(q)' /\ RecordTold(q)')
    BY <1>22 DEF AdoptEarlyExit, InSpool
  <2>. QED  BY <1>0, <1>w, <2>1, <2>2, <2>3, KeptBy
<1>23. ASSUME NEW d \in Drainers, RemoveEntry(d) PROVE AllKept'
  <2> SUFFICES ASSUME NEW q \in Ptys PROVE KeptFits(q)'
    BY DEF AllKept
  <2>1. q \notin lost' /\ proc'[q] \in {"live", "exited"} => run'[q] \in {"open", "exited"}
    BY <1>23, <1>0 DEF RemoveEntry, AllKept, KeptFits
  <2>2. proc'[q] = "exited" /\ sink'[q] # "spool" /\ q \notin lost' =>
              (proc[q] = "exited" /\ sink[q] # "spool" /\ q \notin lost) \/ InSpool(q)'
    BY <1>23, <1>0 DEF RemoveEntry, TypeOK
  <2>3. InSpool(q) => InSpool(q)' \/ (RunTold(q)' /\ RecordTold(q)')
    <3>1. task[d].step = "remove" /\ spool' = {e \in spool : e.pty # task[d].at} /\ UNCHANGED <<launch, rec, run, row, lost>>
      BY <1>23 DEF RemoveEntry
    <3>2. RunTold(task[d].at) /\ RecordTold(task[d].at)
      BY <1>0, <3>1 DEF TasksFit, TaskFits
    <3>3. CASE q = task[d].at
      BY <3>1, <3>2, <3>3 DEF RunTold, RecordTold, RunningIn
    <3>4. CASE q # task[d].at
      BY <3>1, <3>4 DEF InSpool
    <3>. QED  BY <3>3, <3>4
  <2>. QED  BY <1>0, <1>w, <2>1, <2>2, <2>3, KeptBy
<1>24. CASE YsDrain
  <2> SUFFICES ASSUME NEW q \in Ptys PROVE KeptFits(q)'
    BY DEF AllKept
  <2>1. q \notin lost' /\ proc'[q] \in {"live", "exited"} => run'[q] \in {"open", "exited"}
    BY <1>24, <1>0 DEF YsDrain, AllKept, KeptFits
  <2>2. proc'[q] = "exited" /\ sink'[q] # "spool" /\ q \notin lost' =>
              (proc[q] = "exited" /\ sink[q] # "spool" /\ q \notin lost) \/ InSpool(q)'
    BY <1>24, <1>0 DEF YsDrain, TypeOK
  <2>3. InSpool(q) => InSpool(q)' \/ (RunTold(q)' /\ RecordTold(q)')
    BY <1>24 DEF YsDrain, InSpool
  <2>. QED  BY <1>0, <1>w, <2>1, <2>2, <2>3, KeptBy
<1>25. CASE Start
  <2> SUFFICES ASSUME NEW q \in Ptys PROVE KeptFits(q)'
    BY DEF AllKept
  <2>1. q \notin lost' /\ proc'[q] \in {"live", "exited"} => run'[q] \in {"open", "exited"}
    BY <1>25, <1>0 DEF Start, AllKept, KeptFits
  <2>2. proc'[q] = "exited" /\ sink'[q] # "spool" /\ q \notin lost' =>
              (proc[q] = "exited" /\ sink[q] # "spool" /\ q \notin lost) \/ InSpool(q)'
    BY <1>25, <1>0 DEF Start, TypeOK
  <2>3. InSpool(q) => InSpool(q)' \/ (RunTold(q)' /\ RecordTold(q)')
    BY <1>25 DEF Start, InSpool
  <2>. QED  BY <1>0, <1>w, <2>1, <2>2, <2>3, KeptBy
<1>26. CASE ListAlive
  <2> SUFFICES ASSUME NEW q \in Ptys PROVE KeptFits(q)'
    BY DEF AllKept
  <2>1. q \notin lost' /\ proc'[q] \in {"live", "exited"} => run'[q] \in {"open", "exited"}
    BY <1>26, <1>0 DEF ListAlive, AllKept, KeptFits
  <2>2. proc'[q] = "exited" /\ sink'[q] # "spool" /\ q \notin lost' =>
              (proc[q] = "exited" /\ sink[q] # "spool" /\ q \notin lost) \/ InSpool(q)'
    BY <1>26, <1>0 DEF ListAlive, TypeOK
  <2>3. InSpool(q) => InSpool(q)' \/ (RunTold(q)' /\ RecordTold(q)')
    BY <1>26 DEF ListAlive, InSpool
  <2>. QED  BY <1>0, <1>w, <2>1, <2>2, <2>3, KeptBy
<1>27. CASE EndInterruptedSessions
  <2> SUFFICES ASSUME NEW q \in Ptys PROVE KeptFits(q)'
    BY DEF AllKept
  <2>1. q \notin lost' /\ proc'[q] \in {"live", "exited"} => run'[q] \in {"open", "exited"}
    BY <1>27, <1>0 DEF EndInterruptedSessions, AllKept, KeptFits
  <2>2. proc'[q] = "exited" /\ sink'[q] # "spool" /\ q \notin lost' =>
              (proc[q] = "exited" /\ sink[q] # "spool" /\ q \notin lost) \/ InSpool(q)'
    BY <1>27, <1>0 DEF EndInterruptedSessions, TypeOK
  <2>3. InSpool(q) => InSpool(q)' \/ (RunTold(q)' /\ RecordTold(q)')
    BY <1>27 DEF EndInterruptedSessions, InSpool
  <2>. QED  BY <1>0, <1>w, <2>1, <2>2, <2>3, KeptBy
<1>28. CASE EndInterruptedRuns
  <2> SUFFICES ASSUME NEW q \in Ptys PROVE KeptFits(q)'
    BY DEF AllKept
  <2>1. q \notin lost' /\ proc'[q] \in {"live", "exited"} => run'[q] \in {"open", "exited"}
    <3>1. proc' = proc /\ lost' = lost /\ phase = "tidied"
      BY <1>28 DEF EndInterruptedRuns
    <3>2. run'[q] = run[q] \/ (run[q] = "open" /\ linked[q] /\ q \notin hosted)
      BY <1>28, <1>0, <3>1, AppWrites DEF PhaseFits
    <3>3. q \notin lost => run'[q] = run[q]
      BY <1>0, <3>1, <3>2 DEF UnreadFits, Unread
    <3>. QED  BY <1>0, <3>1, <3>3 DEF AllKept, KeptFits
  <2>2. proc'[q] = "exited" /\ sink'[q] # "spool" /\ q \notin lost' =>
              (proc[q] = "exited" /\ sink[q] # "spool" /\ q \notin lost) \/ InSpool(q)'
    BY <1>28, <1>0 DEF EndInterruptedRuns, TypeOK
  <2>3. InSpool(q) => InSpool(q)' \/ (RunTold(q)' /\ RecordTold(q)')
    BY <1>28 DEF EndInterruptedRuns, InSpool
  <2>. QED  BY <1>0, <1>w, <2>1, <2>2, <2>3, KeptBy
<1>29. CASE Hear
  <2> SUFFICES ASSUME NEW q \in Ptys PROVE KeptFits(q)'
    BY DEF AllKept
  <2>1. q \notin lost' /\ proc'[q] \in {"live", "exited"} => run'[q] \in {"open", "exited"}
    BY <1>29, <1>0 DEF Hear, AllKept, KeptFits
  <2>2. proc'[q] = "exited" /\ sink'[q] # "spool" /\ q \notin lost' =>
              (proc[q] = "exited" /\ sink[q] # "spool" /\ q \notin lost) \/ InSpool(q)'
    BY <1>29, <1>0 DEF Hear, TypeOK
  <2>3. InSpool(q) => InSpool(q)' \/ (RunTold(q)' /\ RecordTold(q)')
    BY <1>29 DEF Hear, InSpool
  <2>. QED  BY <1>0, <1>w, <2>1, <2>2, <2>3, KeptBy
<1>30. CASE Quit
  <2> SUFFICES ASSUME NEW q \in Ptys PROVE KeptFits(q)'
    BY DEF AllKept
  <2>1. q \notin lost' /\ proc'[q] \in {"live", "exited"} => run'[q] \in {"open", "exited"}
    BY <1>30, <1>0 DEF Quit, AllKept, KeptFits
  <2>2. proc'[q] = "exited" /\ sink'[q] # "spool" /\ q \notin lost' =>
              (proc[q] = "exited" /\ sink[q] # "spool" /\ q \notin lost) \/ InSpool(q)'
    BY <1>30, <1>0 DEF Quit, TypeOK
  <2>3. InSpool(q) => InSpool(q)' \/ (RunTold(q)' /\ RecordTold(q)')
    BY <1>30 DEF Quit, InSpool
  <2>. QED  BY <1>0, <1>w, <2>1, <2>2, <2>3, KeptBy
<1>. QED
  BY <1>1, <1>2, <1>3, <1>4, <1>5, <1>6, <1>7, <1>8, <1>9, <1>10, <1>11, <1>12, <1>13, <1>14, <1>15,
     <1>16, <1>17, <1>18, <1>19, <1>20, <1>21, <1>22, <1>23, <1>24, <1>25, <1>26, <1>27, <1>28, <1>29,
     <1>30 DEF Next, Launching, Import


\* The exit of a process the host has forgotten is in the spool, while its run is open.
LEMMA Forgotten ==
    ASSUME TypeOK, KeptInv, NEW p \in Ptys, run[p] = "open", linked[p] = TRUE, p \notin hosted, p \notin lost
    PROVE  InSpool(p)
<1>1. LaunchFits(p) /\ KeptFits(p) /\ launch[p] \in LaunchSteps /\ proc[p] \in {"none", "live", "exited", "gone"}
  BY DEF KeptInv, LaunchesFit, AllKept, TypeOK
<1>2. launch[p] = "done"
  BY <1>1 DEF LaunchFits, LaunchSteps, Early
<1>3. proc[p] = "exited" /\ sink[p] # "spool"
  BY <1>1, <1>2 DEF LaunchFits
<1>. QED  BY <1>1, <1>2, <1>3 DEF KeptFits, RunTold, Asking

\* Whose exit the app may still have to read, if the host forgot it.
Open(p) == run[p] = "open" /\ linked[p] = TRUE /\ p \notin hosted /\ p \notin lost

\* It goes on where the app does nothing, and no run is more open than it was.
LEMMA UnreadStays ==
    ASSUME UnreadFits, TypeOK, TypeOK', phase' = phase, task'["app"] = task["app"], \A p \in Ptys : Open(p)' => Open(p)
    PROVE  UnreadFits'
BY DEF UnreadFits, Open, Unread, TypeOK

\* What the host forgot is still in the spool when the app reads that.
LEMMA UnreadStep ==
    ASSUME TypeOK, Undisturbed, KeptInv, Next
    PROVE  UnreadFits'
<1>0. /\ TypeOK /\ Undisturbed /\ KeptInv /\ LaunchesFit /\ AllKept /\ PhaseFits /\ SettledFits
      /\ RecordsFit /\ EntriesFit /\ TasksFit /\ UnreadFits
      /\ LaunchersMayDie = FALSE /\ DaemonMayDie = FALSE /\ MayClose = FALSE
      /\ FallbackMayHappen = FALSE /\ LaunchDuringStart = FALSE
      /\ "app" \in Drainers /\ None \notin Ptys /\ None \notin Records
  BY ExitsAssumption DEF KeptInv, Undisturbed
<1>w. TypeOK'
  BY <1>0, TypesStep
<1>1. ASSUME NEW p \in Ptys, Begin(p) PROVE UnreadFits'
  <2>1. phase' = phase /\ task'["app"] = task["app"]
    BY <1>1 DEF Begin
  <2>2. \A q \in Ptys : Open(q)' => Open(q)
    <3>1. run' = [run EXCEPT ![p] = "open"] /\ launch[p] = "idle" /\ UNCHANGED <<linked, hosted, lost>>
      BY <1>1, <1>0, LaunchWrites DEF Begin
    <3>2. linked[p] # TRUE
      BY <1>0, <3>1 DEF LaunchesFit, LaunchFits, Early
    <3>. QED  BY <1>0, <3>1, <3>2 DEF Open, TypeOK
  <2>. QED  BY <1>0, <1>w, <2>1, <2>2, UnreadStays
<1>2. ASSUME NEW p \in Ptys, Spawn(p) PROVE UnreadFits'
  <2>1. phase' = phase /\ task'["app"] = task["app"]
    BY <1>2 DEF Spawn
  <2>2. \A q \in Ptys : Open(q)' => Open(q)
    BY <1>2, <1>0 DEF Spawn, Open
  <2>. QED  BY <1>0, <1>w, <2>1, <2>2, UnreadStays
<1>3. ASSUME NEW p \in Ptys, SpawnFails(p) PROVE UnreadFits'
  <2>1. phase' = phase /\ task'["app"] = task["app"]
    BY <1>3 DEF SpawnFails
  <2>2. \A q \in Ptys : Open(q)' => Open(q)
    BY <1>3, <1>0 DEF SpawnFails, Open, TypeOK
  <2>. QED  BY <1>0, <1>w, <2>1, <2>2, UnreadStays
<1>4. ASSUME NEW p \in Ptys, Insert(p) PROVE UnreadFits'
  <2>1. phase' = phase /\ task'["app"] = task["app"]
    BY <1>4 DEF Insert
  <2>2. \A q \in Ptys : Open(q)' => Open(q)
    BY <1>4, <1>0 DEF Insert, Open
  <2>. QED  BY <1>0, <1>w, <2>1, <2>2, UnreadStays
<1>5. ASSUME NEW p \in Ptys, Spawned(p) PROVE UnreadFits'
  <2>1. phase' = phase /\ task'["app"] = task["app"]
    BY <1>5 DEF Spawned
  <2>2. \A q \in Ptys : Open(q)' => Open(q)
    <3>1. linked' = [linked EXCEPT ![p] = TRUE] /\ launch[p] = "spawned" /\ UNCHANGED <<run, hosted, lost>>
      BY <1>5, <1>0, LaunchWrites DEF Spawned
    <3>2. p \in hosted
      BY <1>0, <3>1 DEF LaunchesFit, LaunchFits
    <3>. QED  BY <1>0, <3>1, <3>2 DEF Open, TypeOK
  <2>. QED  BY <1>0, <1>w, <2>1, <2>2, UnreadStays
<1>6. ASSUME NEW p \in Ptys, SettleRun(p) PROVE UnreadFits'
  <2>1. phase' = phase /\ task'["app"] = task["app"]
    BY <1>6 DEF SettleRun
  <2>2. \A q \in Ptys : Open(q)' => Open(q)
    <3>1. (run' = run \/ run' = RecordExit(p)) /\ UNCHANGED <<linked, hosted, lost>>
      BY <1>6, <1>0, LaunchWrites DEF SettleRun
    <3>. QED  BY <1>0, <3>1, RecordExitIs DEF Open
  <2>. QED  BY <1>0, <1>w, <2>1, <2>2, UnreadStays
<1>7. ASSUME NEW p \in Ptys, AddRecord(p) PROVE UnreadFits'
  <2>1. phase' = phase /\ task'["app"] = task["app"]
    BY <1>7 DEF AddRecord
  <2>2. \A q \in Ptys : Open(q)' => Open(q)
    BY <1>7, <1>0 DEF AddRecord, Open
  <2>. QED  BY <1>0, <1>w, <2>1, <2>2, UnreadStays
<1>8. ASSUME NEW p \in Ptys, SettleRecord(p) PROVE UnreadFits'
  <2>1. phase' = phase /\ task'["app"] = task["app"]
    BY <1>8 DEF SettleRecord
  <2>2. \A q \in Ptys : Open(q)' => Open(q)
    <3>1. (run' = run \/ run' = RecordExit(p)) /\ UNCHANGED <<linked, hosted, lost>>
      BY <1>8, <1>0, LaunchWrites DEF SettleRecord
    <3>. QED  BY <1>0, <3>1, RecordExitIs DEF Open
  <2>. QED  BY <1>0, <1>w, <2>1, <2>2, UnreadStays
<1>9. ASSUME NEW p \in Ptys, LauncherDies(p) PROVE UnreadFits'
  BY <1>9, <1>0 DEF LauncherDies
<1>10. ASSUME NEW p \in Ptys, Exit(p) PROVE UnreadFits'
  <2>1. phase' = phase /\ task'["app"] = task["app"]
    BY <1>10 DEF Exit
  <2>2. \A q \in Ptys : Open(q)' => Open(q)
    BY <1>10, <1>0 DEF Exit, Open
  <2>. QED  BY <1>0, <1>w, <2>1, <2>2, UnreadStays
<1>11. ASSUME NEW p \in Ptys, SpoolExit(p) PROVE UnreadFits'
  <2>1. phase' = phase /\ task'["app"] = task["app"]
    BY <1>11 DEF SpoolExit
  <2>2. \A q \in Ptys : Open(q)' => Open(q)
    BY <1>11, <1>0 DEF SpoolExit, Open
  <2>. QED  BY <1>0, <1>w, <2>1, <2>2, UnreadStays
<1>12. ASSUME NEW p \in Ptys, Broadcast(p) PROVE UnreadFits'
  <2>1. phase' = phase /\ task'["app"] = task["app"]
    BY <1>12 DEF Broadcast
  <2>2. \A q \in Ptys : Open(q)' => Open(q)
    BY <1>12, <1>0 DEF Broadcast, Open
  <2>. QED  BY <1>0, <1>w, <2>1, <2>2, UnreadStays
<1>13. ASSUME NEW p \in Ptys, Close(p) PROVE UnreadFits'
  <2>1. phase' = phase /\ task'["app"] = task["app"]
    BY <1>13 DEF Close
  <2>2. \A q \in Ptys : Open(q)' => Open(q)
    BY <1>13, <1>0 DEF Close, Open
  <2>. QED  BY <1>0, <1>w, <2>1, <2>2, UnreadStays
<1>14. CASE DaemonIdles
  <2>1. phase = "off" /\ phase' = "off"
    BY <1>14, <1>0 DEF DaemonIdles, PhaseFits
  <2>. QED  BY <2>1 DEF UnreadFits
<1>15. CASE DaemonDies
  BY <1>15, <1>0 DEF DaemonDies
<1>16. ASSUME NEW d \in Drainers, ListSpool(d) PROVE UnreadFits'
  <2>1. CASE d # "app"
    <3>0. phase' = phase
      BY <1>16, <2>1 DEF ListSpool
    <3>a. \A e \in Drainers : e # d => task'[e] = task[e]
      BY <1>16, <1>0, TaskSets DEF TaskIs
    <3>1. phase' = phase /\ task'["app"] = task["app"]
      BY <1>0, <2>1, <3>0, <3>a
    <3>2. \A q \in Ptys : Open(q)' => Open(q)
      BY <1>16 DEF ListSpool, Open
    <3>. QED  BY <1>0, <1>w, <3>1, <3>2, UnreadStays
  <2>2. CASE d = "app"
    <3> SUFFICES ASSUME NEW q \in Ptys, Open(q)'
                 PROVE (phase = "off" /\ phase' = "off") \/ (phase' = "importing" /\ Unread(q)')
      BY <1>w DEF UnreadFits, Open, TypeOK
    <3>1. Open(q)
      BY <1>16 DEF ListSpool, Open
    <3>2. phase = "off" \/ Unread(q)
      BY <1>0, <3>1 DEF UnreadFits, Open
    <3>3. InSpool(q)
      BY <1>0, <3>1, Forgotten DEF Open
    <3>4. phase' = phase
      BY <1>16 DEF ListSpool
    <3>5. task[d].step = "list"
      BY <1>16 DEF ListSpool
    <3>6. task'["app"].step = "pick" /\ task'["app"].todo = {e.pty : e \in spool}
      BY <1>16, <1>0, <2>2, TaskSets DEF TaskIs
    <3>. QED  BY <3>2, <3>3, <3>4, <3>6 DEF Unread, InSpool
  <2>. QED  BY <2>1, <2>2
<1>17. ASSUME NEW d \in Drainers, ReadEntry(d) PROVE UnreadFits'
  <2>1. CASE d # "app"
    <3>0. phase' = phase
      BY <1>17, <2>1 DEF ReadEntry
    <3>a. \A e \in Drainers : e # d => task'[e] = task[e]
      BY <1>17, <1>0, TaskSets DEF TaskIs
    <3>1. phase' = phase /\ task'["app"] = task["app"]
      BY <1>0, <2>1, <3>0, <3>a
    <3>2. \A q \in Ptys : Open(q)' => Open(q)
      BY <1>17 DEF ReadEntry, Open
    <3>. QED  BY <1>0, <1>w, <3>1, <3>2, UnreadStays
  <2>2. CASE d = "app"
    <3> SUFFICES ASSUME NEW q \in Ptys, Open(q)'
                 PROVE (phase = "off" /\ phase' = "off") \/ (phase' = "importing" /\ Unread(q)')
      BY <1>w DEF UnreadFits, Open, TypeOK
    <3>1. Open(q)
      BY <1>17 DEF ReadEntry, Open
    <3>2. phase = "off" \/ Unread(q)
      BY <1>0, <3>1 DEF UnreadFits, Open
    <3>3. InSpool(q)
      BY <1>0, <3>1, Forgotten DEF Open
    <3>4. phase' = phase
      BY <1>17 DEF ReadEntry
    <3>5. task[d].step = "pick"
      BY <1>17 DEF ReadEntry
    <3>6. PICK p \in task[d].todo :
                 \/ InSpool(p) /\ TaskIs(d, "select", p, task[d].found, task[d].todo \ {p})
                 \/ ~ InSpool(p) /\ TaskIs(d, task[d].step, task[d].at, task[d].found, task[d].todo \ {p})
      BY <1>17, <1>0, TaskSets
    <3>7. phase = "off" \/ q \in task[d].todo
      BY <2>2, <3>2, <3>5 DEF Unread
    <3>8. CASE q = p
      BY <2>2, <3>2, <3>3, <3>4, <3>6, <3>8 DEF TaskIs, Unread
    <3>9. CASE q # p
      BY <2>2, <3>2, <3>4, <3>5, <3>6, <3>7, <3>9 DEF TaskIs, Unread
    <3>. QED  BY <3>8, <3>9
  <2>. QED  BY <2>1, <2>2
<1>18. ASSUME NEW d \in Drainers, FinishImport(d) PROVE UnreadFits'
  <2>1. CASE d # "app"
    <3>0. phase' = phase
      BY <1>18, <2>1 DEF FinishImport
    <3>a. \A e \in Drainers : e # d => task'[e] = task[e]
      BY <1>18, <1>0, TaskSets DEF TaskIs
    <3>1. phase' = phase /\ task'["app"] = task["app"]
      BY <1>0, <2>1, <3>0, <3>a
    <3>2. \A q \in Ptys : Open(q)' => Open(q)
      BY <1>18 DEF FinishImport, Open
    <3>. QED  BY <1>0, <1>w, <3>1, <3>2, UnreadStays
  <2>2. CASE d = "app"
    <3> SUFFICES ASSUME NEW q \in Ptys, Open(q)'
                 PROVE (phase = "off" /\ phase' = "off") \/ (phase' = "importing" /\ Unread(q)')
      BY <1>w DEF UnreadFits, Open, TypeOK
    <3>1. Open(q)
      BY <1>18 DEF FinishImport, Open
    <3>2. phase = "off" \/ Unread(q)
      BY <1>0, <3>1 DEF UnreadFits, Open
    <3>3. InSpool(q)
      BY <1>0, <3>1, Forgotten DEF Open
    <3>5. task["app"].step = "pick" /\ task["app"].todo = {}
      BY <1>18, <2>2 DEF FinishImport
    <3>6. phase = "off" /\ phase' = "off"
      BY <1>18, <3>2, <3>5 DEF FinishImport, Unread
    <3>. QED  BY <3>6
  <2>. QED  BY <2>1, <2>2
<1>19. ASSUME NEW d \in Drainers, SelectRecord(d) PROVE UnreadFits'
  <2>1. CASE d # "app"
    <3>0. phase' = phase
      BY <1>19, <2>1 DEF SelectRecord
    <3>a. \A e \in Drainers : e # d => task'[e] = task[e]
      BY <1>19, <1>0, TaskSets DEF TaskIs
    <3>1. phase' = phase /\ task'["app"] = task["app"]
      BY <1>0, <2>1, <3>0, <3>a
    <3>2. \A q \in Ptys : Open(q)' => Open(q)
      BY <1>19 DEF SelectRecord, Open
    <3>. QED  BY <1>0, <1>w, <3>1, <3>2, UnreadStays
  <2>2. CASE d = "app"
    <3> SUFFICES ASSUME NEW q \in Ptys, Open(q)'
                 PROVE (phase = "off" /\ phase' = "off") \/ (phase' = "importing" /\ Unread(q)')
      BY <1>w DEF UnreadFits, Open, TypeOK
    <3>1. Open(q)
      BY <1>19 DEF SelectRecord, Open
    <3>2. phase = "off" \/ Unread(q)
      BY <1>0, <3>1 DEF UnreadFits, Open
    <3>3. InSpool(q)
      BY <1>0, <3>1, Forgotten DEF Open
    <3>4. phase' = phase
      BY <1>19 DEF SelectRecord
    <3>5. task[d].step = "select"
      BY <1>19 DEF SelectRecord
    <3>6. task'[d].step \in {"run", "update"} /\ task'[d].at = task[d].at /\ task'[d].todo = task[d].todo
      BY <1>19, <1>0, TaskSets DEF TaskIs
    <3>. QED  BY <2>2, <3>2, <3>4, <3>5, <3>6 DEF Unread
  <2>. QED  BY <2>1, <2>2
<1>20. ASSUME NEW d \in Drainers, EndRecord(d) PROVE UnreadFits'
  <2>1. CASE d # "app"
    <3>0. phase' = phase
      BY <1>20, <2>1 DEF EndRecord
    <3>a. \A e \in Drainers : e # d => task'[e] = task[e]
      BY <1>20, <1>0, TaskSets DEF TaskIs
    <3>1. phase' = phase /\ task'["app"] = task["app"]
      BY <1>0, <2>1, <3>0, <3>a
    <3>2. \A q \in Ptys : Open(q)' => Open(q)
      BY <1>20 DEF EndRecord, Open
    <3>. QED  BY <1>0, <1>w, <3>1, <3>2, UnreadStays
  <2>2. CASE d = "app"
    <3> SUFFICES ASSUME NEW q \in Ptys, Open(q)'
                 PROVE (phase = "off" /\ phase' = "off") \/ (phase' = "importing" /\ Unread(q)')
      BY <1>w DEF UnreadFits, Open, TypeOK
    <3>1. Open(q)
      BY <1>20 DEF EndRecord, Open
    <3>2. phase = "off" \/ Unread(q)
      BY <1>0, <3>1 DEF UnreadFits, Open
    <3>3. InSpool(q)
      BY <1>0, <3>1, Forgotten DEF Open
    <3>4. phase' = phase
      BY <1>20 DEF EndRecord
    <3>5. task[d].step = "update"
      BY <1>20 DEF EndRecord
    <3>6. task'[d].step = "run" /\ task'[d].at = task[d].at /\ task'[d].todo = task[d].todo
      BY <1>20, <1>0, TaskSets DEF TaskIs
    <3>. QED  BY <2>2, <3>2, <3>4, <3>5, <3>6 DEF Unread
  <2>. QED  BY <2>1, <2>2
<1>21. ASSUME NEW d \in Drainers, EndRun(d) PROVE UnreadFits'
  <2>1. CASE d # "app"
    <3>0. phase' = phase
      BY <1>21, <2>1 DEF EndRun
    <3>a. \A e \in Drainers : e # d => task'[e] = task[e]
      BY <1>21, <1>0, TaskSets DEF TaskIs
    <3>1. phase' = phase /\ task'["app"] = task["app"]
      BY <1>0, <2>1, <3>0, <3>a
    <3>2. \A q \in Ptys : Open(q)' => Open(q)
      <4>1. task[d].at \in Ptys
        BY <1>21, <1>0 DEF EndRun, TasksFit, TaskFits, Telling
      <4>2. run' = RecordExit(task[d].at) /\ UNCHANGED <<linked, hosted, lost>>
        BY <1>21, <1>0, TaskWrites DEF EndRun
      <4>. QED  BY <1>0, <4>1, <4>2, RecordExitIs DEF Open
    <3>. QED  BY <1>0, <1>w, <3>1, <3>2, UnreadStays
  <2>2. CASE d = "app"
    <3> SUFFICES ASSUME NEW q \in Ptys, Open(q)'
                 PROVE (phase = "off" /\ phase' = "off") \/ (phase' = "importing" /\ Unread(q)')
      BY <1>w DEF UnreadFits, Open, TypeOK
    <3>1. Open(q)
      <4>1. task[d].at \in Ptys
        BY <1>21, <1>0 DEF EndRun, TasksFit, TaskFits, Telling
      <4>2. run' = RecordExit(task[d].at) /\ UNCHANGED <<linked, hosted, lost>>
        BY <1>21, <1>0, TaskWrites DEF EndRun
      <4>. QED  BY <1>0, <4>1, <4>2, RecordExitIs DEF Open
    <3>2. phase = "off" \/ Unread(q)
      BY <1>0, <3>1 DEF UnreadFits, Open
    <3>3. InSpool(q)
      BY <1>0, <3>1, Forgotten DEF Open
    <3>4. phase' = phase
      BY <1>21 DEF EndRun
    <3>5. task[d].step = "run"
      BY <1>21 DEF EndRun
    <3>6. task'[d].step \in {"list", "remove", "adopt"} /\ task'[d].todo = task[d].todo
      BY <1>21, <1>0, TaskSets DEF TaskIs
    <3>7. task[d].at # q
      <4>1. run' = RecordExit(task[d].at)
        BY <1>21, <1>0, TaskWrites
      <4>. QED  BY <1>0, <3>1, <4>1, RecordExitIs DEF Open
    <3>. QED  BY <2>2, <3>2, <3>4, <3>5, <3>6, <3>7 DEF Unread
  <2>. QED  BY <2>1, <2>2
<1>22. ASSUME NEW d \in Drainers, AdoptEarlyExit(d) PROVE UnreadFits'
  <2>1. CASE d # "app"
    <3>0. phase' = phase
      BY <1>22, <2>1 DEF AdoptEarlyExit
    <3>a. \A e \in Drainers : e # d => task'[e] = task[e]
      BY <1>22, <1>0, TaskSets DEF TaskIs
    <3>1. phase' = phase /\ task'["app"] = task["app"]
      BY <1>0, <2>1, <3>0, <3>a
    <3>2. \A q \in Ptys : Open(q)' => Open(q)
      <4>1. UNCHANGED <<hosted, lost>>
        BY <1>22 DEF AdoptEarlyExit
      <4>2. task[d].at \in Ptys
        BY <1>22, <1>0 DEF AdoptEarlyExit, TasksFit, TaskFits, Telling
      <4>3. (run' = [run EXCEPT ![task[d].at] = "exited"] /\ linked' = [linked EXCEPT ![task[d].at] = TRUE])
            \/ (run' = run /\ linked' = linked)
        BY <1>22, <1>0, TaskWrites
      <4>. QED  BY <1>0, <4>1, <4>2, <4>3 DEF Open, TypeOK
    <3>. QED  BY <1>0, <1>w, <3>1, <3>2, UnreadStays
  <2>2. CASE d = "app"
    <3> SUFFICES ASSUME NEW q \in Ptys, Open(q)'
                 PROVE (phase = "off" /\ phase' = "off") \/ (phase' = "importing" /\ Unread(q)')
      BY <1>w DEF UnreadFits, Open, TypeOK
    <3>1. Open(q)
      <4>1. UNCHANGED <<hosted, lost>>
        BY <1>22 DEF AdoptEarlyExit
      <4>2. task[d].at \in Ptys
        BY <1>22, <1>0 DEF AdoptEarlyExit, TasksFit, TaskFits, Telling
      <4>3. (run' = [run EXCEPT ![task[d].at] = "exited"] /\ linked' = [linked EXCEPT ![task[d].at] = TRUE])
            \/ (run' = run /\ linked' = linked)
        BY <1>22, <1>0, TaskWrites
      <4>. QED  BY <1>0, <4>1, <4>2, <4>3 DEF Open, TypeOK
    <3>2. phase = "off" \/ Unread(q)
      BY <1>0, <3>1 DEF UnreadFits, Open
    <3>3. InSpool(q)
      BY <1>0, <3>1, Forgotten DEF Open
    <3>4. phase' = phase
      BY <1>22 DEF AdoptEarlyExit
    <3>5. task[d].step = "adopt"
      BY <1>22 DEF AdoptEarlyExit
    <3>6. task'[d].step = "remove" /\ task'[d].todo = task[d].todo
      BY <1>22, <1>0, TaskSets DEF TaskIs
    <3>. QED  BY <2>2, <3>2, <3>4, <3>5, <3>6 DEF Unread
  <2>. QED  BY <2>1, <2>2
<1>23. ASSUME NEW d \in Drainers, RemoveEntry(d) PROVE UnreadFits'
  <2>1. CASE d # "app"
    <3>0. phase' = phase
      BY <1>23, <2>1 DEF RemoveEntry
    <3>a. \A e \in Drainers : e # d => task'[e] = task[e]
      BY <1>23, <1>0, TaskSets DEF TaskIs
    <3>1. phase' = phase /\ task'["app"] = task["app"]
      BY <1>0, <2>1, <3>0, <3>a
    <3>2. \A q \in Ptys : Open(q)' => Open(q)
      BY <1>23 DEF RemoveEntry, Open
    <3>. QED  BY <1>0, <1>w, <3>1, <3>2, UnreadStays
  <2>2. CASE d = "app"
    <3> SUFFICES ASSUME NEW q \in Ptys, Open(q)'
                 PROVE (phase = "off" /\ phase' = "off") \/ (phase' = "importing" /\ Unread(q)')
      BY <1>w DEF UnreadFits, Open, TypeOK
    <3>1. Open(q)
      BY <1>23 DEF RemoveEntry, Open
    <3>2. phase = "off" \/ Unread(q)
      BY <1>0, <3>1 DEF UnreadFits, Open
    <3>3. InSpool(q)
      BY <1>0, <3>1, Forgotten DEF Open
    <3>4. phase' = phase
      BY <1>23 DEF RemoveEntry
    <3>5. task[d].step = "remove"
      BY <1>23 DEF RemoveEntry
    <3>6. task'[d].step = "pick" /\ task'[d].todo = task[d].todo
      BY <1>23, <1>0, TaskSets DEF TaskIs
    <3>. QED  BY <2>2, <3>2, <3>4, <3>5, <3>6 DEF Unread
  <2>. QED  BY <2>1, <2>2
<1>24. CASE YsDrain
  <2>1. phase' = phase /\ task'["app"] = task["app"]
    BY <1>24, <1>0, TaskSets DEF TaskIs, YsDrain
  <2>2. \A q \in Ptys : Open(q)' => Open(q)
    BY <1>24, <1>0 DEF YsDrain, Open
  <2>. QED  BY <1>0, <1>w, <2>1, <2>2, UnreadStays
<1>25. CASE Start
  <2>1. phase' = "importing" /\ task'["app"].step = "list"
    BY <1>25, <1>0, TaskSets DEF TaskIs, Start
  <2>. QED  BY <2>1 DEF UnreadFits, Unread
<1>26. CASE ListAlive
  <2>1. phase = "imported" /\ UNCHANGED <<linked, hosted, lost>>
    BY <1>26 DEF ListAlive
  <2>2. \A q \in Ptys : run'[q] = "open" => run[q] = "open"
    BY <1>26, <1>0 DEF ListAlive
  <2>. QED  BY <1>0, <2>1, <2>2 DEF UnreadFits, Unread
<1>27. CASE EndInterruptedSessions
  <2>1. phase = "listed" /\ UNCHANGED <<linked, hosted, lost>>
    BY <1>27 DEF EndInterruptedSessions
  <2>2. \A q \in Ptys : run'[q] = "open" => run[q] = "open"
    BY <1>27, <1>0 DEF EndInterruptedSessions
  <2>. QED  BY <1>0, <2>1, <2>2 DEF UnreadFits, Unread
<1>28. CASE EndInterruptedRuns
  <2>1. phase = "tidied" /\ UNCHANGED <<linked, hosted, lost>>
    BY <1>28 DEF EndInterruptedRuns
  <2>2. \A q \in Ptys : run'[q] = "open" => run[q] = "open"
    BY <1>28, <1>0, AppWrites DEF EndInterruptedRuns
  <2>. QED  BY <1>0, <2>1, <2>2 DEF UnreadFits, Unread
<1>29. CASE Hear
  <2>1. /\ UNCHANGED <<run, linked, hosted, lost, phase>>
        /\ phase = "on" \/ task' = task
    BY <1>29 DEF Hear
  <2>. QED  BY <1>0, <2>1 DEF UnreadFits, Unread
<1>30. CASE Quit
  <2>1. phase' = "off"
    BY <1>30 DEF Quit
  <2>. QED  BY <2>1 DEF UnreadFits
<1>. QED
  BY <1>1, <1>2, <1>3, <1>4, <1>5, <1>6, <1>7, <1>8, <1>9, <1>10, <1>11, <1>12, <1>13, <1>14, <1>15,
     <1>16, <1>17, <1>18, <1>19, <1>20, <1>21, <1>22, <1>23, <1>24, <1>25, <1>26, <1>27, <1>28, <1>29,
     <1>30 DEF Next, Launching, Import


\* What keeps every exit known holds, while nothing is disturbed.
LEMMA KeptHolds == ASSUME Undisturbed PROVE Spec => [](TypeOK /\ KeptInv)
<1>1. Init => TypeOK /\ KeptInv
  <2> SUFFICES ASSUME Init PROVE TypeOK /\ KeptInv
    OBVIOUS
  <2>1. TypeOK
    BY TypesInit
  <2>2. LaunchesFit /\ AllKept
    BY DEF Init, LaunchesFit, LaunchFits, AllKept, KeptFits, InSpool, Early
  <2>3. SettledFits /\ PhaseFits /\ EntriesFit /\ UnreadFits
    BY DEF Init, SettledFits, PhaseFits, EntriesFit, UnreadFits, InLaunch
  <2>4. RecordsFit
    BY DEF Init, RecordsFit
  <2>5. TasksFit
    <3>1. \A d \in Drainers : task[d].step = "idle"
      BY DEF Init, Idle
    <3>. QED  BY <3>1 DEF TasksFit, TaskFits, Telling
  <2>. QED  BY <2>1, <2>2, <2>3, <2>4, <2>5 DEF KeptInv
<1>2. TypeOK /\ KeptInv /\ [Next]_vars => (TypeOK /\ KeptInv)'
  <2> SUFFICES ASSUME TypeOK, KeptInv, [Next]_vars PROVE (TypeOK /\ KeptInv)'
    OBVIOUS
  <2>1. CASE Next
    BY <2>1, TypesStep, LaunchStep, KeptStep, SettledStep, PhaseStep, RecordsStep, EntriesStep, TasksStep,
       UnreadStep DEF KeptInv
  <2>2. CASE UNCHANGED vars
    <3>1. TypeOK'
      BY <2>2 DEF TypeOK, vars
    <3>2. LaunchesFit' /\ AllKept' /\ SettledFits' /\ RecordsFit' /\ EntriesFit'
      BY <2>2 DEF KeptInv, LaunchesFit, LaunchFits, AllKept, KeptFits, SettledFits, RecordsFit,
         EntriesFit, InSpool,
                  RunTold, RecordTold, RunningIn, vars
    <3>3. PhaseFits' /\ UnreadFits'
      BY <2>2 DEF KeptInv, PhaseFits, UnreadFits, Unread, InLaunch, vars
    <3>4. TasksFit'
      BY <2>2 DEF KeptInv, TasksFit, TaskFits, RunTold, RecordTold, RunningIn, vars
    <3>. QED  BY <3>1, <3>2, <3>3, <3>4 DEF KeptInv
  <2>. QED  BY <2>1, <2>2
<1>. QED  BY <1>1, <1>2, PTL DEF Spec

\* While nothing is disturbed, an exit the daemon has kept is not lost, whoever drains the spool, however
\* often the app starts, conversations are resumed and the daemon forgets them
\* (activity.rs import_spool and record_exit, launch.rs settle_record, server.rs serve_with).
THEOREM ExitsKept == ASSUME Undisturbed PROVE Spec => []ExitKept
<1>1. TypeOK /\ KeptInv => ExitKept
  <2> SUFFICES ASSUME TypeOK, KeptInv, NEW p \in Ptys, proc[p] = "exited", sink[p] # "spool", p \notin lost
               PROVE  (run[p] # "absent" => RunKnows(p)) /\ RecordKnows(p)
    BY DEF ExitKept
  <2>1. KeptFits(p)
    BY DEF KeptInv, AllKept
  <2>. QED  BY <2>1 DEF KeptFits, RunTold, RecordTold, RunKnows, RecordKnows, Asking, RunningIn
<1>. QED  BY <1>1, KeptHolds, PTL

\* Who has not begun has no run.
Unbegun == \A p \in Ptys : launch[p] = "idle" => run[p] = "absent"

\* What each step does to the runs: those that are over stay as they are.
OverStays == \A p \in Ptys : run[p] \in {"exited", "interrupted", "spawn_failed"} => run'[p] = run[p]

\* A run that is over stays so, and nobody goes back to where it began.
LEMMA OverStep ==
    ASSUME TypeOK, Unbegun, Next
    PROVE  OverStays /\ Unbegun'
<1>0. TypeOK /\ Unbegun
  OBVIOUS
<1>1. ASSUME NEW p \in Ptys, Begin(p) PROVE OverStays /\ Unbegun'
  <2>1. PICK s \in {"open", "absent"} : run' = [run EXCEPT ![p] = s]
    BY <1>1 DEF Begin
  <2>2. launch[p] = "idle" /\ launch' = [launch EXCEPT ![p] = "begun"]
    BY <1>1 DEF Begin, Advance
  <2>. QED  BY <1>0, <2>1, <2>2 DEF OverStays, Unbegun, TypeOK
<1>2. ASSUME NEW p \in Ptys, Spawn(p) PROVE OverStays /\ Unbegun'
  <2>1. run' = run /\ \A q \in Ptys : launch'[q] = "idle" => launch[q] = "idle"
    BY <1>2 DEF Spawn, Advance, TypeOK, LaunchSteps
  <2>. QED  BY <1>0, <2>1 DEF OverStays, Unbegun
<1>3. ASSUME NEW p \in Ptys, SpawnFails(p) PROVE OverStays /\ Unbegun'
  <2>1. \A q \in Ptys : launch'[q] = "idle" => launch[q] = "idle"
    BY <1>3 DEF SpawnFails, Advance, TypeOK
  <2>2. \A q \in Ptys : run'[q] = run[q] \/ (run[q] = "open" /\ run'[q] # "absent")
    BY <1>3 DEF SpawnFails, TypeOK
  <2>. QED  BY <1>0, <2>1, <2>2 DEF OverStays, Unbegun
<1>4. ASSUME NEW p \in Ptys, Insert(p) PROVE OverStays /\ Unbegun'
  <2>1. run' = run /\ \A q \in Ptys : launch'[q] = "idle" => launch[q] = "idle"
    BY <1>4 DEF Insert, Advance, TypeOK, LaunchSteps
  <2>. QED  BY <1>0, <2>1 DEF OverStays, Unbegun
<1>5. ASSUME NEW p \in Ptys, Spawned(p) PROVE OverStays /\ Unbegun'
  <2>1. run' = run /\ \A q \in Ptys : launch'[q] = "idle" => launch[q] = "idle"
    BY <1>5 DEF Spawned, Advance, TypeOK, LaunchSteps
  <2>. QED  BY <1>0, <2>1 DEF OverStays, Unbegun
<1>6. ASSUME NEW p \in Ptys, SettleRun(p) PROVE OverStays /\ Unbegun'
  <2>1. \A q \in Ptys : launch'[q] = "idle" => launch[q] = "idle"
    BY <1>6 DEF SettleRun, Advance, TypeOK
  <2>2. \A q \in Ptys : run'[q] = run[q] \/ (run[q] = "open" /\ run'[q] # "absent")
    BY <1>6 DEF SettleRun, TypeOK, RecordExit
  <2>. QED  BY <1>0, <2>1, <2>2 DEF OverStays, Unbegun
<1>7. ASSUME NEW p \in Ptys, AddRecord(p) PROVE OverStays /\ Unbegun'
  <2>1. run' = run /\ \A q \in Ptys : launch'[q] = "idle" => launch[q] = "idle"
    BY <1>7 DEF AddRecord, Advance, TypeOK, LaunchSteps
  <2>. QED  BY <1>0, <2>1 DEF OverStays, Unbegun
<1>8. ASSUME NEW p \in Ptys, SettleRecord(p) PROVE OverStays /\ Unbegun'
  <2>1. \A q \in Ptys : launch'[q] = "idle" => launch[q] = "idle"
    BY <1>8 DEF SettleRecord, Advance, TypeOK
  <2>2. \A q \in Ptys : run'[q] = run[q] \/ (run[q] = "open" /\ run'[q] # "absent")
    BY <1>8 DEF SettleRecord, TypeOK, RecordExit
  <2>. QED  BY <1>0, <2>1, <2>2 DEF OverStays, Unbegun
<1>9. ASSUME NEW p \in Ptys, LauncherDies(p) PROVE OverStays /\ Unbegun'
  <2>1. run' = run /\ \A q \in Ptys : launch'[q] = "idle" => launch[q] = "idle"
    BY <1>9 DEF LauncherDies, Advance, TypeOK, LaunchSteps
  <2>. QED  BY <1>0, <2>1 DEF OverStays, Unbegun
<1>10. ASSUME NEW p \in Ptys, Exit(p) PROVE OverStays /\ Unbegun'
  <2>1. run' = run /\ \A q \in Ptys : launch'[q] = "idle" => launch[q] = "idle"
    BY <1>10 DEF Exit, Advance, TypeOK, LaunchSteps
  <2>. QED  BY <1>0, <2>1 DEF OverStays, Unbegun
<1>11. ASSUME NEW p \in Ptys, SpoolExit(p) PROVE OverStays /\ Unbegun'
  <2>1. run' = run /\ \A q \in Ptys : launch'[q] = "idle" => launch[q] = "idle"
    BY <1>11 DEF SpoolExit, Advance, TypeOK, LaunchSteps
  <2>. QED  BY <1>0, <2>1 DEF OverStays, Unbegun
<1>12. ASSUME NEW p \in Ptys, Broadcast(p) PROVE OverStays /\ Unbegun'
  <2>1. run' = run /\ \A q \in Ptys : launch'[q] = "idle" => launch[q] = "idle"
    BY <1>12 DEF Broadcast, Advance, TypeOK, LaunchSteps
  <2>. QED  BY <1>0, <2>1 DEF OverStays, Unbegun
<1>13. ASSUME NEW p \in Ptys, Close(p) PROVE OverStays /\ Unbegun'
  <2>1. run' = run /\ \A q \in Ptys : launch'[q] = "idle" => launch[q] = "idle"
    BY <1>13 DEF Close, Advance, TypeOK, LaunchSteps
  <2>. QED  BY <1>0, <2>1 DEF OverStays, Unbegun
<1>14. CASE DaemonIdles
  <2>1. run' = run /\ \A q \in Ptys : launch'[q] = "idle" => launch[q] = "idle"
    BY <1>14 DEF DaemonIdles, Advance, TypeOK, LaunchSteps
  <2>. QED  BY <1>0, <2>1 DEF OverStays, Unbegun
<1>15. CASE DaemonDies
  <2>1. run' = run /\ \A q \in Ptys : launch'[q] = "idle" => launch[q] = "idle"
    BY <1>15 DEF DaemonDies, Advance, TypeOK, LaunchSteps
  <2>. QED  BY <1>0, <2>1 DEF OverStays, Unbegun
<1>16. ASSUME NEW d \in Drainers, ListSpool(d) PROVE OverStays /\ Unbegun'
  <2>1. run' = run /\ \A q \in Ptys : launch'[q] = "idle" => launch[q] = "idle"
    BY <1>16 DEF ListSpool, Advance, TypeOK, LaunchSteps
  <2>. QED  BY <1>0, <2>1 DEF OverStays, Unbegun
<1>17. ASSUME NEW d \in Drainers, ReadEntry(d) PROVE OverStays /\ Unbegun'
  <2>1. run' = run /\ \A q \in Ptys : launch'[q] = "idle" => launch[q] = "idle"
    BY <1>17 DEF ReadEntry, Advance, TypeOK, LaunchSteps
  <2>. QED  BY <1>0, <2>1 DEF OverStays, Unbegun
<1>18. ASSUME NEW d \in Drainers, FinishImport(d) PROVE OverStays /\ Unbegun'
  <2>1. run' = run /\ \A q \in Ptys : launch'[q] = "idle" => launch[q] = "idle"
    BY <1>18 DEF FinishImport, Advance, TypeOK, LaunchSteps
  <2>. QED  BY <1>0, <2>1 DEF OverStays, Unbegun
<1>19. ASSUME NEW d \in Drainers, SelectRecord(d) PROVE OverStays /\ Unbegun'
  <2>1. run' = run /\ \A q \in Ptys : launch'[q] = "idle" => launch[q] = "idle"
    BY <1>19 DEF SelectRecord, Advance, TypeOK, LaunchSteps
  <2>. QED  BY <1>0, <2>1 DEF OverStays, Unbegun
<1>20. ASSUME NEW d \in Drainers, EndRecord(d) PROVE OverStays /\ Unbegun'
  <2>1. run' = run /\ \A q \in Ptys : launch'[q] = "idle" => launch[q] = "idle"
    BY <1>20 DEF EndRecord, Advance, TypeOK, LaunchSteps
  <2>. QED  BY <1>0, <2>1 DEF OverStays, Unbegun
<1>21. ASSUME NEW d \in Drainers, EndRun(d) PROVE OverStays /\ Unbegun'
  <2>1. \A q \in Ptys : launch'[q] = "idle" => launch[q] = "idle"
    BY <1>21 DEF EndRun, Advance, TypeOK
  <2>2. \A q \in Ptys : run'[q] = run[q] \/ (run[q] = "open" /\ run'[q] # "absent")
    BY <1>21 DEF EndRun, TypeOK, RecordExit
  <2>. QED  BY <1>0, <2>1, <2>2 DEF OverStays, Unbegun
<1>22. ASSUME NEW d \in Drainers, AdoptEarlyExit(d) PROVE OverStays /\ Unbegun'
  <2>1. \A q \in Ptys : launch'[q] = "idle" => launch[q] = "idle"
    BY <1>22 DEF AdoptEarlyExit, Advance, TypeOK
  <2>2. \A q \in Ptys : run'[q] = run[q] \/ (run[q] = "open" /\ run'[q] # "absent")
    BY <1>22 DEF AdoptEarlyExit, TypeOK
  <2>. QED  BY <1>0, <2>1, <2>2 DEF OverStays, Unbegun
<1>23. ASSUME NEW d \in Drainers, RemoveEntry(d) PROVE OverStays /\ Unbegun'
  <2>1. run' = run /\ \A q \in Ptys : launch'[q] = "idle" => launch[q] = "idle"
    BY <1>23 DEF RemoveEntry, Advance, TypeOK, LaunchSteps
  <2>. QED  BY <1>0, <2>1 DEF OverStays, Unbegun
<1>24. CASE YsDrain
  <2>1. run' = run /\ \A q \in Ptys : launch'[q] = "idle" => launch[q] = "idle"
    BY <1>24 DEF YsDrain, Advance, TypeOK, LaunchSteps
  <2>. QED  BY <1>0, <2>1 DEF OverStays, Unbegun
<1>25. CASE Start
  <2>1. run' = run /\ \A q \in Ptys : launch'[q] = "idle" => launch[q] = "idle"
    BY <1>25 DEF Start, Advance, TypeOK, LaunchSteps
  <2>. QED  BY <1>0, <2>1 DEF OverStays, Unbegun
<1>26. CASE ListAlive
  <2>1. run' = run /\ \A q \in Ptys : launch'[q] = "idle" => launch[q] = "idle"
    BY <1>26 DEF ListAlive, Advance, TypeOK, LaunchSteps
  <2>. QED  BY <1>0, <2>1 DEF OverStays, Unbegun
<1>27. CASE EndInterruptedSessions
  <2>1. run' = run /\ \A q \in Ptys : launch'[q] = "idle" => launch[q] = "idle"
    BY <1>27 DEF EndInterruptedSessions, Advance, TypeOK, LaunchSteps
  <2>. QED  BY <1>0, <2>1 DEF OverStays, Unbegun
<1>28. CASE EndInterruptedRuns
  <2>1. \A q \in Ptys : launch'[q] = "idle" => launch[q] = "idle"
    BY <1>28 DEF EndInterruptedRuns, Advance, TypeOK
  <2>2. \A q \in Ptys : run'[q] = run[q] \/ (run[q] = "open" /\ run'[q] # "absent")
    BY <1>28 DEF EndInterruptedRuns, TypeOK
  <2>. QED  BY <1>0, <2>1, <2>2 DEF OverStays, Unbegun
<1>29. CASE Hear
  <2>1. run' = run /\ \A q \in Ptys : launch'[q] = "idle" => launch[q] = "idle"
    BY <1>29 DEF Hear, Advance, TypeOK, LaunchSteps
  <2>. QED  BY <1>0, <2>1 DEF OverStays, Unbegun
<1>30. CASE Quit
  <2>1. run' = run /\ \A q \in Ptys : launch'[q] = "idle" => launch[q] = "idle"
    BY <1>30 DEF Quit, InLaunch, TypeOK, LaunchSteps
  <2>. QED  BY <1>0, <2>1 DEF OverStays, Unbegun
<1>. QED
  BY <1>1, <1>2, <1>3, <1>4, <1>5, <1>6, <1>7, <1>8, <1>9, <1>10, <1>11, <1>12, <1>13, <1>14, <1>15,
     <1>16, <1>17, <1>18, <1>19, <1>20, <1>21, <1>22, <1>23, <1>24, <1>25, <1>26, <1>27, <1>28, <1>29,
     <1>30 DEF Next, Launching, Import

\* However often and in whatever order an exit is delivered, a run ends once, whatever fails or dies
\* (store.rs end_run_by_pty, end_run and end_interrupted_runs).
THEOREM EndOnce == Spec => RunsEndOnce
<1>1. Init => TypeOK /\ Unbegun
  <2>1. Init => TypeOK
    BY TypesInit
  <2>. QED  BY <2>1 DEF Init, Unbegun
<1>2. TypeOK /\ Unbegun /\ [Next]_vars => (TypeOK /\ Unbegun)' /\ [OverStays]_vars
  <2>1. CASE UNCHANGED vars
    BY <2>1 DEF TypeOK, Unbegun, vars
  <2>. QED  BY <2>1, TypesStep, OverStep
<1>3. TypeOK /\ Unbegun /\ [Next]_vars =>
         [\A p \in Ptys : run[p] \in {"exited", "interrupted", "spawn_failed"} => run'[p] = run[p]]_vars
  BY <1>2 DEF OverStays
<1>. QED  BY <1>1, <1>2, <1>3, PTL DEF Spec, RunsEndOnce

\* Every variable always has its type, whatever fails or dies.
THEOREM TypesHold == Spec => []TypeOK
<1>1. TypeOK /\ [Next]_vars => TypeOK'
  <2>1. CASE UNCHANGED vars
    BY <2>1 DEF TypeOK, vars
  <2>. QED  BY <2>1, TypesStep
<1>. QED  BY <1>1, TypesInit, PTL DEF Spec


\* Whoever may resume a conversation also settles its records, or nobody resumes one.
AppSettles == MayResume = FALSE \/ Drainers = {"app"}


\* It goes on where no record changes, and no launch comes to its record or begins.
LEMMA OwnStays ==
    ASSUME TypeOK, OwnInv, UNCHANGED <<rec, by, row>>,
           \A q \in Ptys : proc'[q] = "live" /\ rec[q] # None /\ launch'[q] \in {"recorded", "done"} =>
              proc[q] = "live" /\ launch[q] \in {"recorded", "done"},
           \A q \in Ptys : Unwritten(q)' => Unwritten(q),
           \A e \in Drainers : task'[e].step = "update" =>
              \/ task[e].step = "update" /\ task'[e].found = task[e].found /\ task'[e].at = task[e].at
              \/ task'[e].found \in RunningIn(task'[e].at)
    PROVE  OwnInv'
BY DEF OwnInv, Unwritten, RunningIn

\* It goes on where records only end that are not of a process that runs.
LEMMA OwnEnds ==
    ASSUME TypeOK, KeptInv, OwnInv, UNCHANGED <<rec, by, proc>>,
           \A r \in Records : row'[r] = row[r] \/
               (row[r].state # "absent" /\ row'[r].state = "ended"
                   /\ (row[r].state = "running" => proc[row[r].pty] # "live")),
           \A q \in Ptys : launch'[q] = launch[q] \/ (launch[q] = "recorded" /\ launch'[q] = "done"),
           \A e \in Drainers : task'[e].step = "update" =>
              task[e].step = "update" /\ task'[e].found = task[e].found /\ task'[e].at = task[e].at
    PROVE  OwnInv'
<1>1. \A q \in Ptys : rec[q] \in Records \cup {None}
  BY DEF TypeOK
<1>2. \A e \in Drainers : task[e].step = "update" => task[e].found \in Records
  BY DEF KeptInv, TasksFit, TaskFits
<1>3. ASSUME NEW q \in Ptys, proc'[q] = "live", rec'[q] # None, launch'[q] \in {"recorded", "done"}
      PROVE  row'[rec'[q]].state = "running" /\ row'[rec'[q]].pty = q
  <2>1. row[rec[q]].state = "running" /\ row[rec[q]].pty = q /\ proc[q] = "live" /\ rec[q] \in Records
    BY <1>1, <1>3 DEF OwnInv
  <2>. QED  BY <1>3, <2>1
<1>4. ASSUME NEW q \in Ptys, Unwritten(q)'
      PROVE  /\ row'[rec'[q]].state # "running"
             /\ by'[q] = "ys" \/ ~ MayResume => row'[rec'[q]].state = "absent"
  <2>1. Unwritten(q) /\ rec[q] \in Records
    BY <1>1, <1>4 DEF Unwritten
  <2>2. /\ row[rec[q]].state # "running"
        /\ by[q] = "ys" \/ ~ MayResume => row[rec[q]].state = "absent"
    BY <2>1 DEF OwnInv
  <2>. QED  BY <2>1, <2>2
<1>5. ASSUME NEW e \in Drainers, task'[e].step = "update", row'[task'[e].found].state = "running"
      PROVE  row'[task'[e].found].pty = task'[e].at
  BY <1>2, <1>5 DEF OwnInv
<1>. QED  BY <1>3, <1>4, <1>5 DEF OwnInv

\* The record of a conversation stays that of the process that runs for it.
LEMMA OwnStep ==
    ASSUME TypeOK, Undisturbed, KeptInv, OwnInv, OneAtOnce, AppSettles, Next
    PROVE  OwnInv'
<1>0. /\ TypeOK /\ Undisturbed /\ KeptInv /\ LaunchesFit /\ AllKept /\ PhaseFits /\ SettledFits
      /\ RecordsFit /\ EntriesFit /\ TasksFit /\ UnreadFits /\ OneAtOnce /\ OwnInv /\ AppSettles
      /\ LaunchersMayDie = FALSE /\ DaemonMayDie = FALSE /\ MayClose = FALSE
      /\ FallbackMayHappen = FALSE /\ LaunchDuringStart = FALSE
      /\ "app" \in Drainers /\ None \notin Ptys /\ None \notin Records
  BY ExitsAssumption DEF KeptInv, Undisturbed
<1>a. \A q \in Ptys : proc[q] = "live" /\ rec[q] # None /\ launch[q] \in {"recorded", "done"} =>
          row[rec[q]].state = "running" /\ row[rec[q]].pty = q
  BY DEF OwnInv
<1>b. \A q \in Ptys : Unwritten(q) =>
          /\ row[rec[q]].state # "running"
          /\ by[q] = "ys" \/ ~ MayResume => row[rec[q]].state = "absent"
  BY DEF OwnInv
<1>c. \A e \in Drainers : task[e].step = "update" /\ row[task[e].found].state = "running" =>
          row[task[e].found].pty = task[e].at
  BY DEF OwnInv
<1>1. ASSUME NEW p \in Ptys, Begin(p) PROVE OwnInv'
  <2>1. PICK who \in {"app", "ys"}, r \in Records \cup {None} :
          /\ launch[p] = "idle" /\ launch' = [launch EXCEPT ![p] = "begun"]
          /\ r # None => Startable(r, who)
          /\ by' = [by EXCEPT ![p] = who] /\ rec' = [rec EXCEPT ![p] = r]
          /\ UNCHANGED <<proc, row, task>>
    BY <1>1 DEF Begin, Advance
  <2>2. r # None => row[r].state # "running" /\ (who = "ys" \/ ~ MayResume => row[r].state = "absent")
    BY <2>1 DEF Startable
  <2>3. \A q \in Ptys : q # p => launch'[q] = launch[q] /\ rec'[q] = rec[q] /\ by'[q] = by[q]
    BY <1>0, <2>1 DEF TypeOK
  <2>4. launch'[p] = "begun" /\ rec'[p] = r /\ by'[p] = who
    BY <1>0, <2>1 DEF TypeOK
  <2>. QED  BY <1>a, <1>b, <1>c, <2>1, <2>2, <2>3, <2>4 DEF OwnInv, Unwritten
<1>2. ASSUME NEW p \in Ptys, Spawn(p) PROVE OwnInv'
  <2>1. UNCHANGED <<rec, by, row>>
    BY <1>2 DEF Spawn
  <2>2. \A q \in Ptys : proc'[q] = "live" /\ rec[q] # None /\ launch'[q] \in {"recorded", "done"} =>
              proc[q] = "live" /\ launch[q] \in {"recorded", "done"}
    BY <1>2, <1>0 DEF Spawn, Advance, TypeOK, LaunchesFit, LaunchFits
  <2>3. \A q \in Ptys : Unwritten(q)' => Unwritten(q)
    BY <1>2, <1>0 DEF Spawn, Advance, TypeOK, Unwritten
  <2>4. \A e \in Drainers : task'[e].step = "update" =>
              \/ task[e].step = "update" /\ task'[e].found = task[e].found /\ task'[e].at = task[e].at
              \/ task'[e].found \in RunningIn(task'[e].at)
    BY <1>2 DEF Spawn
  <2>. QED  BY <1>0, <2>1, <2>2, <2>3, <2>4, OwnStays
<1>3. ASSUME NEW p \in Ptys, SpawnFails(p) PROVE OwnInv'
  <2>1. UNCHANGED <<rec, by, row>>
    BY <1>3 DEF SpawnFails
  <2>2. \A q \in Ptys : proc'[q] = "live" /\ rec[q] # None /\ launch'[q] \in {"recorded", "done"} =>
              proc[q] = "live" /\ launch[q] \in {"recorded", "done"}
    BY <1>3, <1>0 DEF SpawnFails, Advance, TypeOK, LaunchesFit, LaunchFits
  <2>3. \A q \in Ptys : Unwritten(q)' => Unwritten(q)
    BY <1>3, <1>0 DEF SpawnFails, Advance, TypeOK, Unwritten
  <2>4. \A e \in Drainers : task'[e].step = "update" =>
              \/ task[e].step = "update" /\ task'[e].found = task[e].found /\ task'[e].at = task[e].at
              \/ task'[e].found \in RunningIn(task'[e].at)
    BY <1>3 DEF SpawnFails
  <2>. QED  BY <1>0, <2>1, <2>2, <2>3, <2>4, OwnStays
<1>4. ASSUME NEW p \in Ptys, Insert(p) PROVE OwnInv'
  <2>1. UNCHANGED <<rec, by, row>>
    BY <1>4 DEF Insert
  <2>2. \A q \in Ptys : proc'[q] = "live" /\ rec[q] # None /\ launch'[q] \in {"recorded", "done"} =>
              proc[q] = "live" /\ launch[q] \in {"recorded", "done"}
    BY <1>4, <1>0 DEF Insert, Advance, TypeOK, LaunchesFit, LaunchFits
  <2>3. \A q \in Ptys : Unwritten(q)' => Unwritten(q)
    BY <1>4, <1>0 DEF Insert, Advance, TypeOK, Unwritten
  <2>4. \A e \in Drainers : task'[e].step = "update" =>
              \/ task[e].step = "update" /\ task'[e].found = task[e].found /\ task'[e].at = task[e].at
              \/ task'[e].found \in RunningIn(task'[e].at)
    BY <1>4 DEF Insert
  <2>. QED  BY <1>0, <2>1, <2>2, <2>3, <2>4, OwnStays
<1>5. ASSUME NEW p \in Ptys, Spawned(p) PROVE OwnInv'
  <2>1. UNCHANGED <<rec, by, row>>
    BY <1>5 DEF Spawned
  <2>2. \A q \in Ptys : proc'[q] = "live" /\ rec[q] # None /\ launch'[q] \in {"recorded", "done"} =>
              proc[q] = "live" /\ launch[q] \in {"recorded", "done"}
    BY <1>5, <1>0 DEF Spawned, Advance, TypeOK, LaunchesFit, LaunchFits
  <2>3. \A q \in Ptys : Unwritten(q)' => Unwritten(q)
    BY <1>5, <1>0 DEF Spawned, Advance, TypeOK, Unwritten
  <2>4. \A e \in Drainers : task'[e].step = "update" =>
              \/ task[e].step = "update" /\ task'[e].found = task[e].found /\ task'[e].at = task[e].at
              \/ task'[e].found \in RunningIn(task'[e].at)
    BY <1>5 DEF Spawned
  <2>. QED  BY <1>0, <2>1, <2>2, <2>3, <2>4, OwnStays
<1>6. ASSUME NEW p \in Ptys, SettleRun(p) PROVE OwnInv'
  <2>1. /\ UNCHANGED <<rec, by, row, proc, task>> /\ launch[p] = "linked"
        /\ launch' = [launch EXCEPT ![p] = IF rec[p] = None THEN "done" ELSE "settled"]
    BY <1>6 DEF SettleRun, Advance
  <2>2. /\ \A q \in Ptys : proc'[q] = "live" /\ rec[q] # None /\ launch'[q] \in {"recorded", "done"} =>
              proc[q] = "live" /\ launch[q] \in {"recorded", "done"}
        /\ \A q \in Ptys : Unwritten(q)' => Unwritten(q)
    BY <1>0, <2>1 DEF TypeOK, Unwritten
  <2>. QED  BY <1>0, <2>1, <2>2, OwnStays
<1>7. ASSUME NEW p \in Ptys, AddRecord(p) PROVE OwnInv'
  <2>1. /\ rec[p] \in Records /\ launch[p] = "settled" /\ launch' = [launch EXCEPT ![p] = "recorded"]
        /\ row' = [row EXCEPT ![rec[p]] = RunsIn(p)] /\ UNCHANGED <<rec, by, proc, task>>
        /\ by[p] = "app" => task["app"].step # "update"
    BY <1>7, <1>0, LaunchWrites DEF AddRecord
  <2>2. /\ row'[rec[p]].state = "running" /\ row'[rec[p]].pty = p
        /\ \A r \in Records : r # rec[p] => row'[r] = row[r]
    BY <1>0, <2>1 DEF RunsIn, TypeOK
  <2>3. Unwritten(p) /\ InLaunch(p) /\ by[p] \in {"app", "ys"}
    <3>1. Unwritten(p) /\ InLaunch(p)
      BY <1>0, <2>1 DEF Unwritten, InLaunch
    <3>. QED  BY <1>0, <3>1 DEF PhaseFits
  <2>4. \A q \in Ptys : rec[q] \in Records \cup {None}
    BY <1>0 DEF TypeOK
  <2>5. ASSUME NEW q \in Ptys, proc'[q] = "live", rec'[q] # None, launch'[q] \in {"recorded", "done"}
        PROVE  row'[rec'[q]].state = "running" /\ row'[rec'[q]].pty = q
    <3>1. CASE q = p
      BY <2>1, <2>2, <3>1
    <3>2. CASE q # p
      <4>1. launch[q] \in {"recorded", "done"} /\ proc[q] = "live" /\ rec[q] \in Records /\ rec[q] # None
        BY <1>0, <2>1, <2>4, <2>5, <3>2 DEF TypeOK
      <4>2. rec[q] # rec[p]
        BY <1>a, <1>b, <2>3, <4>1
      <4>. QED  BY <1>a, <2>1, <2>2, <2>5, <4>1, <4>2
    <3>. QED  BY <3>1, <3>2
  <2>6. ASSUME NEW q \in Ptys, Unwritten(q)'
        PROVE  /\ row'[rec'[q]].state # "running"
               /\ by'[q] = "ys" \/ ~ MayResume => row'[rec'[q]].state = "absent"
    <3>1. q # p /\ Unwritten(q) /\ rec[q] \in Records
      BY <1>0, <2>1, <2>4, <2>6 DEF Unwritten, TypeOK
    <3>2. rec[q] # rec[p]
      <4>1. InLaunch(q)
        BY <3>1 DEF Unwritten, InLaunch
      <4>. QED  BY <1>0, <2>1, <2>3, <3>1, <4>1 DEF OneAtOnce
    <3>. QED  BY <1>b, <2>1, <2>2, <3>1, <3>2
  <2>7. ASSUME NEW e \in Drainers, task'[e].step = "update", row'[task'[e].found].state = "running"
        PROVE  row'[task'[e].found].pty = task'[e].at
    <3>1. task[e].found \in Records /\ row[task[e].found].state # "absent"
      BY <1>0, <2>1, <2>7 DEF TasksFit, TaskFits
    <3>2. task[e].found # rec[p]
      <4>1. CASE by[p] = "ys" \/ ~ MayResume
        BY <1>b, <2>3, <3>1, <4>1
      <4>2. CASE by[p] = "app" /\ MayResume # FALSE
        BY <1>0, <2>1, <2>7, <4>2 DEF AppSettles
      <4>. QED  BY <2>3, <4>1, <4>2
    <3>. QED  BY <1>c, <2>1, <2>2, <2>7, <3>1, <3>2
  <2>. QED  BY <2>5, <2>6, <2>7 DEF OwnInv
<1>8. ASSUME NEW p \in Ptys, SettleRecord(p) PROVE OwnInv'
  <2>1. /\ UNCHANGED <<rec, by, proc, task>> /\ launch[p] = "recorded" /\ launch' = [launch EXCEPT ![p] = "done"]
    BY <1>8 DEF SettleRecord, Advance
  <2>2. \A r \in Records : row'[r] = row[r] \/
               (row[r].state # "absent" /\ row'[r].state = "ended"
                   /\ (row[r].state = "running" => proc[row[r].pty] # "live"))
    <3>1. row' = row \/ (proc[p] = "exited" /\ row' = RowsEnded(p))
      BY <1>8, <1>0, LaunchWrites
    <3>2. CASE proc[p] = "exited" /\ row' = RowsEnded(p)
      BY <3>2 DEF RowsEnded, RunningIn, Ended
    <3>. QED  BY <3>1, <3>2
  <2>3. \A q \in Ptys : launch'[q] = launch[q] \/ (launch[q] = "recorded" /\ launch'[q] = "done")
    BY <1>0, <2>1 DEF TypeOK
  <2>. QED  BY <1>0, <2>1, <2>2, <2>3, OwnEnds
<1>9. ASSUME NEW p \in Ptys, LauncherDies(p) PROVE OwnInv'
  BY <1>9, <1>0 DEF LauncherDies
<1>10. ASSUME NEW p \in Ptys, Exit(p) PROVE OwnInv'
  <2>1. UNCHANGED <<rec, by, row>>
    BY <1>10 DEF Exit
  <2>2. \A q \in Ptys : proc'[q] = "live" /\ rec[q] # None /\ launch'[q] \in {"recorded", "done"} =>
              proc[q] = "live" /\ launch[q] \in {"recorded", "done"}
    BY <1>10, <1>0 DEF Exit, Advance, TypeOK, LaunchesFit, LaunchFits
  <2>3. \A q \in Ptys : Unwritten(q)' => Unwritten(q)
    BY <1>10, <1>0 DEF Exit, Advance, TypeOK, Unwritten
  <2>4. \A e \in Drainers : task'[e].step = "update" =>
              \/ task[e].step = "update" /\ task'[e].found = task[e].found /\ task'[e].at = task[e].at
              \/ task'[e].found \in RunningIn(task'[e].at)
    BY <1>10 DEF Exit
  <2>. QED  BY <1>0, <2>1, <2>2, <2>3, <2>4, OwnStays
<1>11. ASSUME NEW p \in Ptys, SpoolExit(p) PROVE OwnInv'
  <2>1. UNCHANGED <<rec, by, row>>
    BY <1>11 DEF SpoolExit
  <2>2. \A q \in Ptys : proc'[q] = "live" /\ rec[q] # None /\ launch'[q] \in {"recorded", "done"} =>
              proc[q] = "live" /\ launch[q] \in {"recorded", "done"}
    BY <1>11, <1>0 DEF SpoolExit, Advance, TypeOK, LaunchesFit, LaunchFits
  <2>3. \A q \in Ptys : Unwritten(q)' => Unwritten(q)
    BY <1>11, <1>0 DEF SpoolExit, Advance, TypeOK, Unwritten
  <2>4. \A e \in Drainers : task'[e].step = "update" =>
              \/ task[e].step = "update" /\ task'[e].found = task[e].found /\ task'[e].at = task[e].at
              \/ task'[e].found \in RunningIn(task'[e].at)
    BY <1>11 DEF SpoolExit
  <2>. QED  BY <1>0, <2>1, <2>2, <2>3, <2>4, OwnStays
<1>12. ASSUME NEW p \in Ptys, Broadcast(p) PROVE OwnInv'
  <2>1. UNCHANGED <<rec, by, row>>
    BY <1>12 DEF Broadcast
  <2>2. \A q \in Ptys : proc'[q] = "live" /\ rec[q] # None /\ launch'[q] \in {"recorded", "done"} =>
              proc[q] = "live" /\ launch[q] \in {"recorded", "done"}
    BY <1>12, <1>0 DEF Broadcast, Advance, TypeOK, LaunchesFit, LaunchFits
  <2>3. \A q \in Ptys : Unwritten(q)' => Unwritten(q)
    BY <1>12, <1>0 DEF Broadcast, Advance, TypeOK, Unwritten
  <2>4. \A e \in Drainers : task'[e].step = "update" =>
              \/ task[e].step = "update" /\ task'[e].found = task[e].found /\ task'[e].at = task[e].at
              \/ task'[e].found \in RunningIn(task'[e].at)
    BY <1>12 DEF Broadcast
  <2>. QED  BY <1>0, <2>1, <2>2, <2>3, <2>4, OwnStays
<1>13. ASSUME NEW p \in Ptys, Close(p) PROVE OwnInv'
  <2>1. UNCHANGED <<rec, by, row>>
    BY <1>13 DEF Close
  <2>2. \A q \in Ptys : proc'[q] = "live" /\ rec[q] # None /\ launch'[q] \in {"recorded", "done"} =>
              proc[q] = "live" /\ launch[q] \in {"recorded", "done"}
    BY <1>13, <1>0 DEF Close, Advance, TypeOK, LaunchesFit, LaunchFits
  <2>3. \A q \in Ptys : Unwritten(q)' => Unwritten(q)
    BY <1>13, <1>0 DEF Close, Advance, TypeOK, Unwritten
  <2>4. \A e \in Drainers : task'[e].step = "update" =>
              \/ task[e].step = "update" /\ task'[e].found = task[e].found /\ task'[e].at = task[e].at
              \/ task'[e].found \in RunningIn(task'[e].at)
    BY <1>13 DEF Close
  <2>. QED  BY <1>0, <2>1, <2>2, <2>3, <2>4, OwnStays
<1>14. CASE DaemonIdles
  <2>1. UNCHANGED <<rec, by, row>>
    BY <1>14 DEF DaemonIdles
  <2>2. \A q \in Ptys : proc'[q] = "live" /\ rec[q] # None /\ launch'[q] \in {"recorded", "done"} =>
              proc[q] = "live" /\ launch[q] \in {"recorded", "done"}
    BY <1>14, <1>0 DEF DaemonIdles, Advance, TypeOK, LaunchesFit, LaunchFits
  <2>3. \A q \in Ptys : Unwritten(q)' => Unwritten(q)
    BY <1>14, <1>0 DEF DaemonIdles, Advance, TypeOK, Unwritten
  <2>4. \A e \in Drainers : task'[e].step = "update" =>
              \/ task[e].step = "update" /\ task'[e].found = task[e].found /\ task'[e].at = task[e].at
              \/ task'[e].found \in RunningIn(task'[e].at)
    BY <1>14 DEF DaemonIdles
  <2>. QED  BY <1>0, <2>1, <2>2, <2>3, <2>4, OwnStays
<1>15. CASE DaemonDies
  BY <1>15, <1>0 DEF DaemonDies
<1>16. ASSUME NEW d \in Drainers, ListSpool(d) PROVE OwnInv'
  <2>1. UNCHANGED <<rec, by, row>>
    BY <1>16 DEF ListSpool
  <2>2. \A q \in Ptys : proc'[q] = "live" /\ rec[q] # None /\ launch'[q] \in {"recorded", "done"} =>
              proc[q] = "live" /\ launch[q] \in {"recorded", "done"}
    BY <1>16, <1>0 DEF ListSpool, Advance, TypeOK, LaunchesFit, LaunchFits
  <2>3. \A q \in Ptys : Unwritten(q)' => Unwritten(q)
    BY <1>16, <1>0 DEF ListSpool, Advance, TypeOK, Unwritten
  <2>4. \A e \in Drainers : task'[e].step = "update" =>
              \/ task[e].step = "update" /\ task'[e].found = task[e].found /\ task'[e].at = task[e].at
              \/ task'[e].found \in RunningIn(task'[e].at)
    <3>1. \E x \in Drainers : task'[x].step # "update" /\ \A e \in Drainers : e # x => task'[e] = task[e]
      BY <1>16, <1>0, TaskSets DEF TaskIs
    <3>. QED  BY <3>1
  <2>. QED  BY <1>0, <2>1, <2>2, <2>3, <2>4, OwnStays
<1>17. ASSUME NEW d \in Drainers, ReadEntry(d) PROVE OwnInv'
  <2>1. UNCHANGED <<rec, by, row>>
    BY <1>17 DEF ReadEntry
  <2>2. \A q \in Ptys : proc'[q] = "live" /\ rec[q] # None /\ launch'[q] \in {"recorded", "done"} =>
              proc[q] = "live" /\ launch[q] \in {"recorded", "done"}
    BY <1>17, <1>0 DEF ReadEntry, Advance, TypeOK, LaunchesFit, LaunchFits
  <2>3. \A q \in Ptys : Unwritten(q)' => Unwritten(q)
    BY <1>17, <1>0 DEF ReadEntry, Advance, TypeOK, Unwritten
  <2>4. \A e \in Drainers : task'[e].step = "update" =>
              \/ task[e].step = "update" /\ task'[e].found = task[e].found /\ task'[e].at = task[e].at
              \/ task'[e].found \in RunningIn(task'[e].at)
    <3>1. task'[d].step # "update" /\ \A e \in Drainers : e # d => task'[e] = task[e]
      BY <1>17, <1>0, TaskSets DEF TaskIs, ReadEntry
    <3>. QED  BY <3>1
  <2>. QED  BY <1>0, <2>1, <2>2, <2>3, <2>4, OwnStays
<1>18. ASSUME NEW d \in Drainers, FinishImport(d) PROVE OwnInv'
  <2>1. UNCHANGED <<rec, by, row>>
    BY <1>18 DEF FinishImport
  <2>2. \A q \in Ptys : proc'[q] = "live" /\ rec[q] # None /\ launch'[q] \in {"recorded", "done"} =>
              proc[q] = "live" /\ launch[q] \in {"recorded", "done"}
    BY <1>18, <1>0 DEF FinishImport, Advance, TypeOK, LaunchesFit, LaunchFits
  <2>3. \A q \in Ptys : Unwritten(q)' => Unwritten(q)
    BY <1>18, <1>0 DEF FinishImport, Advance, TypeOK, Unwritten
  <2>4. \A e \in Drainers : task'[e].step = "update" =>
              \/ task[e].step = "update" /\ task'[e].found = task[e].found /\ task'[e].at = task[e].at
              \/ task'[e].found \in RunningIn(task'[e].at)
    <3>1. \E x \in Drainers : task'[x].step # "update" /\ \A e \in Drainers : e # x => task'[e] = task[e]
      BY <1>18, <1>0, TaskSets DEF TaskIs
    <3>. QED  BY <3>1
  <2>. QED  BY <1>0, <2>1, <2>2, <2>3, <2>4, OwnStays
<1>19. ASSUME NEW d \in Drainers, SelectRecord(d) PROVE OwnInv'
  <2>1. UNCHANGED <<rec, by, row>>
    BY <1>19 DEF SelectRecord
  <2>2. \A q \in Ptys : proc'[q] = "live" /\ rec[q] # None /\ launch'[q] \in {"recorded", "done"} =>
              proc[q] = "live" /\ launch[q] \in {"recorded", "done"}
    BY <1>19, <1>0 DEF SelectRecord, Advance, TypeOK, LaunchesFit, LaunchFits
  <2>3. \A q \in Ptys : Unwritten(q)' => Unwritten(q)
    BY <1>19, <1>0 DEF SelectRecord, Advance, TypeOK, Unwritten
  <2>4. \A e \in Drainers : task'[e].step = "update" =>
              \/ task[e].step = "update" /\ task'[e].found = task[e].found /\ task'[e].at = task[e].at
              \/ task'[e].found \in RunningIn(task'[e].at)
    <3>1. \A e \in Drainers : e # d => task'[e] = task[e]
      BY <1>19, <1>0, TaskSets DEF TaskIs
    <3>2. task'[d].step = "update" => task'[d].found \in RunningIn(task[d].at) /\ task'[d].at = task[d].at
      BY <1>19, <1>0, TaskSets DEF TaskIs
    <3>. QED  BY <3>1, <3>2
  <2>. QED  BY <1>0, <2>1, <2>2, <2>3, <2>4, OwnStays
<1>20. ASSUME NEW d \in Drainers, EndRecord(d) PROVE OwnInv'
  <2>1. UNCHANGED <<rec, by, proc, launch>> /\ task[d].step = "update"
    BY <1>20 DEF EndRecord
  <2>2. task'[d].step = "run" /\ \A e \in Drainers : e # d => task'[e] = task[e]
    BY <1>20, <1>0, TaskSets DEF TaskIs
  <2>3. \A r \in Records : row'[r] = row[r] \/
               (row[r].state # "absent" /\ row'[r].state = "ended"
                   /\ (row[r].state = "running" => proc[row[r].pty] # "live"))
    <3>1. row' = [row EXCEPT ![task[d].found] = Ended(TRUE)] /\ Ended(TRUE).state = "ended"
      BY <1>20, <1>0, TaskWrites DEF Ended
    <3>2. /\ task[d].found \in Records /\ row[task[d].found].state # "absent"
          /\ proc[task[d].at] = "exited"
      BY <1>0, <2>1 DEF TasksFit, TaskFits, Telling
    <3>3. row[task[d].found].state = "running" => proc[row[task[d].found].pty] # "live"
      BY <1>c, <2>1, <3>2
    <3>. QED  BY <1>0, <3>1, <3>2, <3>3 DEF TypeOK
  <2>. QED  BY <1>0, <2>1, <2>2, <2>3, OwnEnds
<1>21. ASSUME NEW d \in Drainers, EndRun(d) PROVE OwnInv'
  <2>1. UNCHANGED <<rec, by, row>>
    BY <1>21 DEF EndRun
  <2>2. \A q \in Ptys : proc'[q] = "live" /\ rec[q] # None /\ launch'[q] \in {"recorded", "done"} =>
              proc[q] = "live" /\ launch[q] \in {"recorded", "done"}
    BY <1>21, <1>0 DEF EndRun, Advance, TypeOK, LaunchesFit, LaunchFits
  <2>3. \A q \in Ptys : Unwritten(q)' => Unwritten(q)
    BY <1>21, <1>0 DEF EndRun, Advance, TypeOK, Unwritten
  <2>4. \A e \in Drainers : task'[e].step = "update" =>
              \/ task[e].step = "update" /\ task'[e].found = task[e].found /\ task'[e].at = task[e].at
              \/ task'[e].found \in RunningIn(task'[e].at)
    <3>1. task'[d].step # "update" /\ \A e \in Drainers : e # d => task'[e] = task[e]
      BY <1>21, <1>0, TaskSets DEF TaskIs
    <3>. QED  BY <3>1
  <2>. QED  BY <1>0, <2>1, <2>2, <2>3, <2>4, OwnStays
<1>22. ASSUME NEW d \in Drainers, AdoptEarlyExit(d) PROVE OwnInv'
  <2>1. UNCHANGED <<rec, by, row>>
    BY <1>22 DEF AdoptEarlyExit
  <2>2. \A q \in Ptys : proc'[q] = "live" /\ rec[q] # None /\ launch'[q] \in {"recorded", "done"} =>
              proc[q] = "live" /\ launch[q] \in {"recorded", "done"}
    BY <1>22, <1>0 DEF AdoptEarlyExit, Advance, TypeOK, LaunchesFit, LaunchFits
  <2>3. \A q \in Ptys : Unwritten(q)' => Unwritten(q)
    BY <1>22, <1>0 DEF AdoptEarlyExit, Advance, TypeOK, Unwritten
  <2>4. \A e \in Drainers : task'[e].step = "update" =>
              \/ task[e].step = "update" /\ task'[e].found = task[e].found /\ task'[e].at = task[e].at
              \/ task'[e].found \in RunningIn(task'[e].at)
    <3>1. task'[d].step # "update" /\ \A e \in Drainers : e # d => task'[e] = task[e]
      BY <1>22, <1>0, TaskSets DEF TaskIs
    <3>. QED  BY <3>1
  <2>. QED  BY <1>0, <2>1, <2>2, <2>3, <2>4, OwnStays
<1>23. ASSUME NEW d \in Drainers, RemoveEntry(d) PROVE OwnInv'
  <2>1. UNCHANGED <<rec, by, row>>
    BY <1>23 DEF RemoveEntry
  <2>2. \A q \in Ptys : proc'[q] = "live" /\ rec[q] # None /\ launch'[q] \in {"recorded", "done"} =>
              proc[q] = "live" /\ launch[q] \in {"recorded", "done"}
    BY <1>23, <1>0 DEF RemoveEntry, Advance, TypeOK, LaunchesFit, LaunchFits
  <2>3. \A q \in Ptys : Unwritten(q)' => Unwritten(q)
    BY <1>23, <1>0 DEF RemoveEntry, Advance, TypeOK, Unwritten
  <2>4. \A e \in Drainers : task'[e].step = "update" =>
              \/ task[e].step = "update" /\ task'[e].found = task[e].found /\ task'[e].at = task[e].at
              \/ task'[e].found \in RunningIn(task'[e].at)
    <3>1. \E x \in Drainers : task'[x].step # "update" /\ \A e \in Drainers : e # x => task'[e] = task[e]
      BY <1>23, <1>0, TaskSets DEF TaskIs
    <3>. QED  BY <3>1
  <2>. QED  BY <1>0, <2>1, <2>2, <2>3, <2>4, OwnStays
<1>24. CASE YsDrain
  <2>1. UNCHANGED <<rec, by, row>>
    BY <1>24 DEF YsDrain
  <2>2. \A q \in Ptys : proc'[q] = "live" /\ rec[q] # None /\ launch'[q] \in {"recorded", "done"} =>
              proc[q] = "live" /\ launch[q] \in {"recorded", "done"}
    BY <1>24, <1>0 DEF YsDrain, Advance, TypeOK, LaunchesFit, LaunchFits
  <2>3. \A q \in Ptys : Unwritten(q)' => Unwritten(q)
    BY <1>24, <1>0 DEF YsDrain, Advance, TypeOK, Unwritten
  <2>4. \A e \in Drainers : task'[e].step = "update" =>
              \/ task[e].step = "update" /\ task'[e].found = task[e].found /\ task'[e].at = task[e].at
              \/ task'[e].found \in RunningIn(task'[e].at)
    <3>1. \E x \in Drainers : task'[x].step # "update" /\ \A e \in Drainers : e # x => task'[e] = task[e]
      BY <1>24, <1>0, TaskSets DEF TaskIs
    <3>. QED  BY <3>1
  <2>. QED  BY <1>0, <2>1, <2>2, <2>3, <2>4, OwnStays
<1>25. CASE Start
  <2>1. UNCHANGED <<rec, by, row>>
    BY <1>25 DEF Start
  <2>2. \A q \in Ptys : proc'[q] = "live" /\ rec[q] # None /\ launch'[q] \in {"recorded", "done"} =>
              proc[q] = "live" /\ launch[q] \in {"recorded", "done"}
    BY <1>25, <1>0 DEF Start, Advance, TypeOK, LaunchesFit, LaunchFits
  <2>3. \A q \in Ptys : Unwritten(q)' => Unwritten(q)
    BY <1>25, <1>0 DEF Start, Advance, TypeOK, Unwritten
  <2>4. \A e \in Drainers : task'[e].step = "update" =>
              \/ task[e].step = "update" /\ task'[e].found = task[e].found /\ task'[e].at = task[e].at
              \/ task'[e].found \in RunningIn(task'[e].at)
    <3>1. \E x \in Drainers : task'[x].step # "update" /\ \A e \in Drainers : e # x => task'[e] = task[e]
      BY <1>25, <1>0, TaskSets DEF TaskIs
    <3>. QED  BY <3>1
  <2>. QED  BY <1>0, <2>1, <2>2, <2>3, <2>4, OwnStays
<1>26. CASE ListAlive
  <2>1. UNCHANGED <<rec, by, row>>
    BY <1>26 DEF ListAlive
  <2>2. \A q \in Ptys : proc'[q] = "live" /\ rec[q] # None /\ launch'[q] \in {"recorded", "done"} =>
              proc[q] = "live" /\ launch[q] \in {"recorded", "done"}
    BY <1>26, <1>0 DEF ListAlive, Advance, TypeOK, LaunchesFit, LaunchFits
  <2>3. \A q \in Ptys : Unwritten(q)' => Unwritten(q)
    BY <1>26, <1>0 DEF ListAlive, Advance, TypeOK, Unwritten
  <2>4. \A e \in Drainers : task'[e].step = "update" =>
              \/ task[e].step = "update" /\ task'[e].found = task[e].found /\ task'[e].at = task[e].at
              \/ task'[e].found \in RunningIn(task'[e].at)
    BY <1>26 DEF ListAlive
  <2>. QED  BY <1>0, <2>1, <2>2, <2>3, <2>4, OwnStays
<1>27. CASE EndInterruptedSessions
  <2>1. UNCHANGED <<rec, by, proc, launch, task>> /\ alive = hosted
    BY <1>27, <1>0 DEF EndInterruptedSessions, PhaseFits
  <2>2. \A r \in Records : row'[r] = row[r] \/
               (row[r].state = "running" /\ row[r].pty \notin alive /\ row'[r] = Ended(FALSE))
    BY <1>27 DEF EndInterruptedSessions
  <2>3. ASSUME NEW r \in Records, row[r].state = "running", row[r].pty \notin hosted PROVE proc[row[r].pty] # "live"
    <3>1. row[r].pty \in Ptys /\ launch[row[r].pty] \in {"recorded", "done"}
      BY <1>0, <2>3 DEF RecordsFit
    <3>. QED  BY <1>0, <2>3, <3>1 DEF LaunchesFit, LaunchFits
  <2>4. \A r \in Records : row'[r] = row[r] \/
               (row[r].state # "absent" /\ row'[r].state = "ended"
                   /\ (row[r].state = "running" => proc[row[r].pty] # "live"))
    BY <2>1, <2>2, <2>3 DEF Ended
  <2>. QED  BY <1>0, <2>1, <2>4, OwnEnds
<1>28. CASE EndInterruptedRuns
  <2>1. UNCHANGED <<rec, by, row>>
    BY <1>28 DEF EndInterruptedRuns
  <2>2. \A q \in Ptys : proc'[q] = "live" /\ rec[q] # None /\ launch'[q] \in {"recorded", "done"} =>
              proc[q] = "live" /\ launch[q] \in {"recorded", "done"}
    BY <1>28, <1>0 DEF EndInterruptedRuns, Advance, TypeOK, LaunchesFit, LaunchFits
  <2>3. \A q \in Ptys : Unwritten(q)' => Unwritten(q)
    BY <1>28, <1>0 DEF EndInterruptedRuns, Advance, TypeOK, Unwritten
  <2>4. \A e \in Drainers : task'[e].step = "update" =>
              \/ task[e].step = "update" /\ task'[e].found = task[e].found /\ task'[e].at = task[e].at
              \/ task'[e].found \in RunningIn(task'[e].at)
    BY <1>28 DEF EndInterruptedRuns
  <2>. QED  BY <1>0, <2>1, <2>2, <2>3, <2>4, OwnStays
<1>29. CASE Hear
  <2>1. UNCHANGED <<rec, by, row>>
    BY <1>29 DEF Hear
  <2>2. \A q \in Ptys : proc'[q] = "live" /\ rec[q] # None /\ launch'[q] \in {"recorded", "done"} =>
              proc[q] = "live" /\ launch[q] \in {"recorded", "done"}
    BY <1>29, <1>0 DEF Hear, Advance, TypeOK, LaunchesFit, LaunchFits
  <2>3. \A q \in Ptys : Unwritten(q)' => Unwritten(q)
    BY <1>29, <1>0 DEF Hear, Advance, TypeOK, Unwritten
  <2>4. \A e \in Drainers : task'[e].step = "update" =>
              \/ task[e].step = "update" /\ task'[e].found = task[e].found /\ task'[e].at = task[e].at
              \/ task'[e].found \in RunningIn(task'[e].at)
    <3>1. task' = task \/ (task'["app"].step # "update" /\ \A e \in Drainers : e # "app" => task'[e] = task[e])
      BY <1>29, <1>0, TaskSets DEF TaskIs
    <3>. QED  BY <3>1
  <2>. QED  BY <1>0, <2>1, <2>2, <2>3, <2>4, OwnStays
<1>30. CASE Quit
  <2>1. UNCHANGED <<rec, by, row>>
    BY <1>30 DEF Quit
  <2>2. \A q \in Ptys : proc'[q] = "live" /\ rec[q] # None /\ launch'[q] \in {"recorded", "done"} =>
              proc[q] = "live" /\ launch[q] \in {"recorded", "done"}
    BY <1>30, <1>0 DEF Quit, TypeOK, InLaunch
  <2>3. \A q \in Ptys : Unwritten(q)' => Unwritten(q)
    BY <1>30, <1>0 DEF Quit, Advance, TypeOK, Unwritten, InLaunch
  <2>4. \A e \in Drainers : task'[e].step = "update" =>
              \/ task[e].step = "update" /\ task'[e].found = task[e].found /\ task'[e].at = task[e].at
              \/ task'[e].found \in RunningIn(task'[e].at)
    BY <1>30, <1>0, TaskSets DEF TaskIs
  <2>. QED  BY <1>0, <2>1, <2>2, <2>3, <2>4, OwnStays
<1>. QED
  BY <1>1, <1>2, <1>3, <1>4, <1>5, <1>6, <1>7, <1>8, <1>9, <1>10, <1>11, <1>12, <1>13, <1>14, <1>15,
     <1>16, <1>17, <1>18, <1>19, <1>20, <1>21, <1>22, <1>23, <1>24, <1>25, <1>26, <1>27, <1>28, <1>29,
     <1>30 DEF Next, Launching, Import

\* While nothing is disturbed, what still runs is not called interrupted, and its record says that it
\* runs - provided that no two clients launch one conversation at once, which the code does not prevent,
\* and that `ys` does not end records of conversations the app resumes meanwhile
\* (store.rs end_interrupted_sessions, end_interrupted_runs and end_session_by_pty_at).
THEOREM EndingsTrue == ASSUME Undisturbed, AppSettles PROVE Spec /\ []OneAtOnce => []EndedIsTrue
<1>1. Init => OwnInv
  <2> SUFFICES ASSUME Init PROVE OwnInv
    OBVIOUS
  <2>1. \A d \in Drainers : task[d].step = "idle"
    BY DEF Init, Idle
  <2>2. \A p \in Ptys : launch[p] = "idle"
    BY DEF Init
  <2>. QED  BY <2>1, <2>2 DEF OwnInv, Unwritten
<1>2. TypeOK /\ KeptInv /\ OneAtOnce /\ OwnInv /\ [Next]_vars => OwnInv'
  <2>1. CASE UNCHANGED vars
    BY <2>1 DEF OwnInv, Unwritten, vars
  <2>. QED  BY <2>1, OwnStep
<1>3. TypeOK /\ KeptInv /\ OwnInv => EndedIsTrue
  BY DEF KeptInv, LaunchesFit, LaunchFits, OwnInv, EndedIsTrue
<1>. QED  BY <1>1, <1>2, <1>3, KeptHolds, PTL DEF Spec

\* Where nothing is resumed that needs no proviso.
THEOREM EndingsTrueUnresumed == ASSUME Undisturbed, MayResume = FALSE PROVE Spec => []EndedIsTrue
<1> DEFINE Single == \A p, q \in Ptys : rec[p] = rec[q] /\ rec[p] # None => p = q
<1>1. Init => Single
  BY DEF Init
<1>2. TypeOK /\ Single /\ [Next]_vars => Single'
  <2> SUFFICES ASSUME TypeOK, Single, [Next]_vars PROVE Single'
    OBVIOUS
  <2>1. CASE rec' = rec
    BY <2>1
  <2>2. CASE \E p \in Ptys : Begin(p)
    <3>1. PICK p \in Ptys : Begin(p)
      BY <2>2
    <3>2. PICK r \in Records \cup {None} : rec' = [rec EXCEPT ![p] = r] /\ (r # None => \A q \in Ptys : rec[q] # r)
      BY <3>1 DEF Begin, Startable
    <3>. QED  BY <3>2 DEF TypeOK
  <2>3. rec' = rec \/ \E p \in Ptys : Begin(p)
    BY DEF Next, Launching, Import, vars, Spawn, SpawnFails, Insert, Spawned, SettleRun, AddRecord,
       SettleRecord,
           LauncherDies, Exit, SpoolExit, Broadcast, Close, DaemonIdles, DaemonDies, ListSpool, ReadEntry,
           FinishImport, SelectRecord, EndRecord, EndRun, AdoptEarlyExit, RemoveEntry, YsDrain, Start, ListAlive,
           EndInterruptedSessions, EndInterruptedRuns, Hear, Quit
  <2>. QED  BY <2>1, <2>2, <2>3
<1>3. Single => OneAtOnce
  BY DEF OneAtOnce
<1>4. AppSettles
  BY DEF AppSettles
<1>5. Spec /\ []OneAtOnce => []EndedIsTrue
  BY <1>4, EndingsTrue
<1> HIDE DEF Single
<1>. QED  BY <1>1, <1>2, <1>3, <1>5, TypesHold, PTL DEF Spec
=============================================================================
