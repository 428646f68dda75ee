------------------------------ MODULE Schedule ------------------------------
(***************************************************************************)
(* A schedule (crates/core/src/schedule/fire.rs and mod.rs, and the rows   *)
(* of crates/core/src/store/schedules.rs): a row that says when to ask for *)
(* a run of a smoke test, and a history with a line for each time that     *)
(* came.                                                                   *)
(*                                                                         *)
(* A thread of the app looks every second: it takes a time that has come   *)
(* by moving the row to the next one, asks for a run, writes the line, and *)
(* copies onto the lines how the runs ended.  People, in the app or with   *)
(* `ys`, change the row meanwhile; the runs are what TestRun says of them. *)
(***************************************************************************)
EXTENDS Naturals, Sequences, FiniteSets

CONSTANTS
    Runs,
    Rows,           \* what the schedule may be made of at first
    Period,         \* how far apart the times of an `every` are
    LateAfter,      \* how late a time may be acted on without being missed
    Horizon,        \* bound: the clock stops there
    MaxEdits,       \* bound: how often the row is changed or switched
    StoreMayFail    \* whether the database may refuse a statement, which it does once at most

Times == 1 .. Horizon + Period
NoTime == 0
Kinds == {"once", "every", "daily", "unreadable"}
Notifies == {"failure", "always", "never"}
Targets == {"test", "workflow"}
Results == {"passed", "failed", "cancelled", "errored", "refused", "gone"}
Outcomes == {"started", "skipped", "missed", "refused"}
NoRun == "no run"

ASSUME ScheduleAssumption ==
    /\ Rows \subseteq [kind : Kinds, missed : {"run_once", "skip"}, notify : Notifies]
    /\ Period \in Nat \ {0} /\ LateAfter \in Nat /\ Horizon \in Nat /\ MaxEdits \in Nat
    /\ StoreMayFail \in BOOLEAN
    /\ NoRun \notin Runs

VARIABLES
    now,
    row,        \* the schedule; `edition` counts what people did to it
    there,      \* whether it is there; with it goes its history
    place,      \* whether its workspace is
    status,     \* the runs, as TestRun has them
    line,       \* the history's line of a run it started
    app,        \* whether the app is there
    \* the thread: where it is, the row and the time it looked at, what became of it, the run it
    \* asked for, and the notices it is about to show
    pc, seen, outcome, asked, notices,
    manual,     \* the run somebody asked for with Run now, which has no line yet
    \* histories: the latest time taken; how often the end of a run was told; whether notices
    \* may be lost, the database having refused a statement or the app having stopped; whether
    \* the schedule ever was made to start something else
    taken, told, lost, moved

shared == <<row, there, place>>
thread == <<pc, seen, outcome, asked>>
histories == <<taken, told, lost, moved>>
vars == <<now, shared, status, line, app, thread, notices, manual, histories>>

T == INSTANCE TestRun WITH alive <- [r \in Runs |-> FALSE]

NoRow == [on |-> FALSE, next |-> NoTime, kind |-> "once", missed |-> "skip", notify |-> "never",
          target |-> "test", edition |-> 0]
Nothing == [row |-> NoRow, now |-> 0, place |-> FALSE]
NoLine == [result |-> "no line", waiting |-> FALSE]
Open(r) == line[r].result = "open"

\* when::next_after, after the times up to t; a time of day may be any time, and another one
\* when the zone changes
Next_after(kind, t, anchor) ==
    CASE kind = "every" -> {IF anchor = NoTime THEN t + Period
                            ELSE anchor + ((t - anchor) \div Period + 1) * Period}
      [] kind = "daily" -> t + 1 .. t + Period
      [] OTHER          -> {NoTime}

Init ==
    /\ now = 0
    /\ \E given \in Rows :
          row = [on |-> TRUE, next |-> 1, kind |-> given.kind, missed |-> given.missed,
                 notify |-> given.notify, target |-> "test", edition |-> 0]
    /\ there = TRUE /\ place = TRUE
    /\ status = [r \in Runs |-> "none"]
    /\ line = [r \in Runs |-> NoLine]
    /\ app = TRUE
    /\ pc = "idle" /\ seen = Nothing /\ outcome = "none"
    /\ asked = NoRun /\ notices = {}
    /\ manual = NoRun
    /\ taken = 0 /\ told = [r \in Runs |-> 0]
    /\ lost = FALSE /\ moved = FALSE

---------------------------------------------------------------------------
\* People.

Edits == there /\ row.edition < MaxEdits

\* schedule::change: its next time is worked out again, it may get another workspace, and
\* whether it is on stays
Change ==
    /\ Edits
    /\ \E next \in Next_after(IF row.kind = "every" THEN "every" ELSE "daily", now, NoTime),
          target \in Targets :
             row' = [row EXCEPT !.next = next, !.target = target, !.edition = @ + 1,
                                !.kind = IF @ = "unreadable" THEN "daily" ELSE @]
    /\ place' = TRUE
    /\ moved' = (moved \/ row'.target # "test")
    /\ UNCHANGED <<now, there, status, line, app, thread, notices, manual, taken, told, lost>>

\* schedule::set_enabled: off keeps its place, on counts from now
SwitchOff ==
    /\ Edits /\ row.on
    /\ row' = [row EXCEPT !.on = FALSE, !.edition = @ + 1]
    /\ UNCHANGED <<now, there, place, status, line, app, thread, notices, manual, histories>>

SwitchOn ==
    /\ Edits /\ place
    /\ \E next \in IF row.kind = "once" THEN {row.next} ELSE Next_after(row.kind, now, NoTime) :
          /\ next # NoTime /\ next > now
          /\ row' = [row EXCEPT !.on = TRUE, !.next = next, !.edition = @ + 1]
    /\ UNCHANGED <<now, there, place, status, line, app, thread, notices, manual, histories>>

\* Store::remove_schedule
Remove ==
    /\ there /\ there' = FALSE /\ row' = NoRow
    /\ line' = [r \in Runs |-> NoLine]
    /\ UNCHANGED <<now, place, status, app, thread, notices, manual, histories>>

\* A run that is asked for is a new one.
Fresh == CHOOSE r \in Runs : status[r] = "none"
New == {r \in Runs : status[r] = "none" /\ r = Fresh}
AskFor(r) == \E s \in {"awaiting_approval", "queued"} : T!Ask(r, s)

\* run_now, in the app or `ys`: the run is asked for, and then has its line
RunNow ==
    /\ there /\ place /\ app /\ manual = NoRun /\ row.target = "test"
    /\ \E r \in New : AskFor(r) /\ manual' = r
    /\ UNCHANGED <<now, shared, line, app, thread, notices, histories>>

Opened(r) == [line EXCEPT ![r] = [result |-> "open", waiting |-> FALSE]]

RunNowLine ==
    /\ manual # NoRun
    /\ manual' = NoRun
    /\ line' = IF there THEN Opened(manual) ELSE line
    /\ UNCHANGED <<now, shared, status, app, thread, notices, histories>>

---------------------------------------------------------------------------
\* The thread.

\* A tick that is done with a time forgets it.
Done == pc' = "idle" /\ seen' = Nothing /\ asked' = NoRun /\ outcome' = "none"

\* tick: it is on and its time has come
Due == there /\ row.on /\ row.next # NoTime /\ row.next <= now

LookDue ==
    /\ app /\ pc = "idle" /\ notices = {} /\ Due
    /\ seen' = [row |-> row, now |-> now, place |-> place]
    /\ pc' = "claim"
    /\ UNCHANGED <<now, shared, status, line, app, outcome, asked, notices, manual, histories>>

\* (mutant) taken as it was read, whatever it has become
TakenAnyway == there

\* claim_schedule and stall_schedule: as it was read, or not at all
Taken == there /\ row.on /\ row.next = seen.row.next

Late == seen.now - seen.row.next > LateAfter

\* tick: the time is taken by moving on to the next one
Claim ==
    /\ pc = "claim" /\ Taken
    /\ \E next \in Next_after(seen.row.kind, seen.now, seen.row.next) :
          row' = [row EXCEPT !.next = next, !.on = next # NoTime \/ seen.row.kind = "unreadable"]
    /\ outcome' = CASE seen.row.kind = "unreadable"                                    -> "refused"
                    [] seen.row.kind # "unreadable" /\ Late /\ seen.row.missed = "skip" -> "missed"
                    [] OTHER                                                            -> "none"
    /\ pc' = (IF outcome' = "none" THEN "ask" ELSE "record")
    /\ taken' = seen.row.next
    /\ UNCHANGED <<now, there, place, status, line, app, seen, asked, notices, manual, told,
                   lost, moved>>

NotTaken ==
    /\ pc = "claim" /\ ~ Taken
    /\ Done
    /\ UNCHANGED <<now, shared, status, line, app, notices, manual, histories>>

\* ask_for_run
Ask ==
    /\ pc = "ask" /\ seen.place
    /\ \/ \E r \in New :
             /\ seen.row.target = "test" /\ place /\ AskFor(r)
             /\ asked' = r /\ outcome' = "started"
       \/ seen.row.target = "workflow" /\ outcome' = "started" /\ UNCHANGED <<status, asked>>
       \/ /\ \E r \in Runs : status[r] \in T!Active
          /\ outcome' = "skipped" /\ UNCHANGED <<status, asked>>
       \/ outcome' = "refused" /\ UNCHANGED <<status, asked>>
    /\ pc' = "record"
    /\ UNCHANGED <<now, shared, line, app, seen, notices, manual, histories>>

\* tick: with no workspace it is switched off
AskNowhere ==
    /\ pc = "ask" /\ ~ seen.place
    /\ row' = IF there THEN [row EXCEPT !.on = FALSE] ELSE row
    /\ outcome' = "refused"
    /\ pc' = "record"
    /\ UNCHANGED <<now, there, place, status, line, app, seen, asked, notices, manual, histories>>

\* (mutant) the history is kept short, whatever the lines still wait for
KeptShort(l) == {[r \in Runs |-> IF r \in gone THEN NoLine ELSE l[r]] : gone \in SUBSET Runs}

\* record_schedule_run: the oldest lines go, but none that waits for its run
Pruned(l) ==
    {[r \in Runs |-> IF r \in gone THEN NoLine ELSE l[r]] :
        gone \in SUBSET {r \in Runs : l[r].result \in Results}}

\* tick: the line is written, unless the schedule went
Record ==
    /\ pc = "record"
    /\ IF there
       THEN line' \in Pruned(IF asked # NoRun THEN Opened(asked) ELSE line)
       ELSE UNCHANGED line
    /\ Done
    /\ UNCHANGED <<now, shared, status, app, notices, manual, histories>>

\* (mutant) what is going is taken to be over
FoundAtOnce(r) == IF status[r] \in T!Active THEN "gone" ELSE status[r]

\* settle: the run of a line, looked for among what the schedule starts
Found(r) == IF row.target = "test" THEN status[r] ELSE "gone"

Tells(result) ==
    /\ result # "gone"
    /\ row.notify = "always" \/ (row.notify = "failure" /\ result \in {"failed", "errored"})

\* settle: how a run ended is copied onto its line
Settle(r) ==
    /\ app /\ pc = "idle" /\ Open(r)
    /\ Found(r) \in Results
    /\ line' = [line EXCEPT ![r].result = Found(r)]
    /\ notices' = IF Tells(Found(r)) THEN notices \cup {r} ELSE notices
    /\ UNCHANGED <<now, shared, status, app, thread, manual, histories>>

\* settle: that it waits for a person is told, once
SettleWaiting(r) ==
    /\ app /\ pc = "idle" /\ Open(r)
    /\ Found(r) = "awaiting_approval" /\ ~ line[r].waiting
    /\ line' = [line EXCEPT ![r].waiting = TRUE]
    /\ UNCHANGED <<now, shared, status, app, thread, notices, manual, histories>>

\* look: the notices are shown
Tell ==
    /\ app /\ pc = "idle" /\ notices # {}
    /\ told' = [r \in Runs |-> IF r \in notices THEN told[r] + 1 ELSE told[r]]
    /\ notices' = {}
    /\ UNCHANGED <<now, shared, status, line, app, thread, manual, taken, lost, moved>>

\* The database refuses a statement: the tick ends where it is, or the settling does, and what it
\* was about to tell is not told.
Refused ==
    /\ StoreMayFail /\ ~ lost /\ app
    /\ lost' = TRUE
    /\ Done /\ notices' = {}
    /\ UNCHANGED <<now, shared, status, line, app, manual, taken, told, moved>>

\* rezone: the time of day comes at another time, if it has not come yet
Rezone ==
    /\ app /\ pc = "idle" /\ there /\ row.on /\ row.kind = "daily"
    /\ row.next # NoTime /\ row.next > now
    /\ \E next \in Next_after("daily", now, NoTime) : row' = [row EXCEPT !.next = next]
    /\ UNCHANGED <<now, there, place, status, line, app, thread, notices, manual, histories>>

---------------------------------------------------------------------------
\* The world: the clock, the workspace, the app, and the runs.

Passes ==
    /\ now < Horizon /\ now' = now + 1
    /\ UNCHANGED <<shared, status, line, app, thread, notices, manual, histories>>

LosePlace ==
    /\ place /\ place' = FALSE
    /\ UNCHANGED <<now, row, there, status, line, app, thread, notices, manual, histories>>

Stop ==
    /\ app /\ app' = FALSE
    /\ Done
    /\ notices' = {} /\ lost' = (lost \/ notices # {})
    /\ manual' \in {manual, NoRun}
    /\ UNCHANGED <<now, shared, status, line, taken, told, moved>>

StartAgain ==
    /\ ~ app /\ app' = TRUE
    /\ UNCHANGED <<now, shared, status, line, thread, notices, manual, histories>>

TestRuns ==
    /\ \/ \E r \in Runs :
             \/ T!Answer(r) \/ T!CallOff(r) \/ T!Begin(r) \/ T!End(r) \/ T!Go(r)
       \/ \E rs \in SUBSET Runs \ {{}} : T!Interrupt(rs)
    /\ UNCHANGED <<now, shared, line, app, thread, notices, manual, histories>>

---------------------------------------------------------------------------
People == Change \/ SwitchOff \/ SwitchOn \/ Remove \/ RunNow \/ RunNowLine

Firing == LookDue \/ Claim \/ NotTaken \/ Ask \/ AskNowhere \/ Record

Settling == Tell \/ \E r \in Runs : Settle(r) \/ SettleWaiting(r)

World == Passes \/ LosePlace \/ Stop \/ StartAgain \/ TestRuns

Next == People \/ Firing \/ Settling \/ Refused \/ Rezone \/ World

Spec == Init /\ [][Next]_vars

\* The thread looks every second, for what is due and then for what ended.
Fairness == WF_vars(Firing) /\ WF_vars(Settling)

FairSpec == Spec /\ Fairness

(***************************************************************************)
(* Properties.                                                             *)
(***************************************************************************)

RowRecords ==
    [on : BOOLEAN, next : Times \cup {NoTime}, kind : Kinds, missed : {"run_once", "skip"},
     notify : Notifies, target : Targets, edition : 0 .. MaxEdits]
LineRecords == [result : Results \cup {"no line", "open"}, waiting : BOOLEAN]

TypeOK ==
    /\ now \in 0 .. Horizon
    /\ row \in RowRecords
    /\ there \in BOOLEAN /\ place \in BOOLEAN
    /\ status \in [Runs -> T!Statuses]
    /\ line \in [Runs -> LineRecords]
    /\ app \in BOOLEAN
    /\ pc \in {"idle", "claim", "ask", "record"}
    /\ outcome \in Outcomes \cup {"none"} /\ asked \in Runs \cup {NoRun}
    /\ notices \subseteq Runs
    /\ manual \in Runs \cup {NoRun}

\* Every time is acted on once, however often the app stops, the clock is behind or the row is
\* switched off and on; and only while the schedule still is what the thread read: an edit or a
\* switch in between is never overlooked.
OncePerTime ==
    [][pc = "claim" /\ pc' \in {"ask", "record"} => taken < seen.row.next /\ row = seen.row]_vars

\* The history tells what became of a run: its verdict, or that nothing was to be found of it any
\* more when somebody looked, its row pruned or the schedule made to start something else.  Who
\* wants to hear of a failure does, and once, unless the app stopped or the database failed
\* between writing it down and showing it.
HistoryTrue ==
    \A r \in Runs :
        /\ line[r].result \in Results =>
              \/ status[r] \in {line[r].result, "gone"}
              \/ line[r].result = "gone" /\ moved
        /\ told[r] <= 1
        /\ told[r] = 1 /\ line[r].result # "no line" =>
              line[r].result \in {"failed", "errored"} \/ row.notify = "always"
        /\ line[r].result \in {"failed", "errored"} /\ row.notify # "never" =>
              told[r] = 1 \/ r \in notices \/ lost

\* While the app goes on, a time that has come is acted on, and a line gets its run's verdict: it
\* is not dropped from a history that has grown too long while it waits.
NothingWaits ==
    /\ Due ~> (~ Due \/ ~ app)
    /\ \A r \in Runs :
          (Open(r) /\ status[r] \in Results) ~> (line[r].result \in Results \/ ~ app \/ ~ there)
=============================================================================
