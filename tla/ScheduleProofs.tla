--------------------------- MODULE ScheduleProofs ---------------------------
(***************************************************************************)
(* Proofs about Schedule, for any schedule, number of runs, edits and      *)
(* times: a time is acted on once and as it was read, and the history says *)
(* what became of a run.                                                   *)
(***************************************************************************)
EXTENDS Schedule, TLAPS

\* What the thread looked at is of the past; what it takes next lies after what it took last; and
\* while it is about to take a time, the row is what it read or cannot be taken any more.
ThreadInv ==
    /\ seen \in [row : RowRecords, now : 0 .. Horizon, place : BOOLEAN]
    /\ taken \in Nat /\ taken <= now
    /\ row.next # NoTime => taken < row.next
    /\ pc = "claim" =>
          /\ seen.row.next # NoTime /\ seen.row.next <= seen.now /\ seen.now <= now
          /\ taken < seen.row.next
          /\ row = seen.row \/ ~ Taken

\* A run that has no line yet: it was asked for, and nobody heard of it.
Unwritten(r) ==
    /\ status[r] # "none" /\ line[r] = NoLine
    /\ told[r] = 0 /\ r \notin notices

LinesInv ==
    /\ told \in [Runs -> Nat] /\ lost \in BOOLEAN /\ moved \in BOOLEAN
    /\ asked # NoRun => Unwritten(asked)
    /\ manual # NoRun => Unwritten(manual)
    /\ asked # NoRun => asked # manual
    /\ row.target # "test" => moved
    /\ \A r \in Runs :
          /\ status[r] = "none" => line[r] = NoLine /\ told[r] = 0 /\ r \notin notices
          /\ ~ there => line[r] = NoLine
          /\ Open(r) => told[r] = 0 /\ r \notin notices
          /\ r \in notices => told[r] = 0
          /\ r \in notices /\ line[r].result # "no line" =>
                line[r].result \in {"failed", "errored"} \/ row.notify = "always"

IInv == TypeOK /\ ThreadInv /\ LinesInv /\ HistoryTrue

---------------------------------------------------------------------------
\* The next time lies ahead, by at most a period (when.rs: next_after).

LEMMA Quotient ==
    ASSUME NEW x \in Nat, NEW p \in Nat, p > 0
    PROVE  /\ x \div p \in Nat
           /\ (x \div p) * p <= x /\ x < (x \div p) * p + p
  OBVIOUS

LEMMA Ahead ==
    ASSUME NEW kind \in Kinds, NEW t \in 0 .. Horizon, NEW anchor \in 0 .. t,
           NEW next \in Next_after(kind, t, anchor)
    PROVE  next \in Times \cup {NoTime} /\ (next # NoTime => next > t)
<1>0. Period \in Nat /\ Period > 0 /\ Horizon \in Nat
  BY ScheduleAssumption
<1>1. CASE kind = "every" /\ anchor # NoTime
  <2>. DEFINE q == (t - anchor) \div Period
  <2>1. q \in Nat /\ q * Period <= t - anchor /\ t - anchor < q * Period + Period
    BY <1>0, Quotient
  <2>2. (q + 1) * Period = q * Period + Period /\ q * Period \in Nat
    BY <1>0, <2>1
  <2>3. next = anchor + (q + 1) * Period
    BY <1>1 DEF Next_after
  <2>. HIDE DEF q
  <2>. QED BY <1>0, <2>1, <2>2, <2>3 DEF Times, NoTime
<1>2. CASE kind = "every" /\ anchor = NoTime
  BY <1>0, <1>2 DEF Next_after, Times, NoTime
<1>3. CASE kind # "every"
  BY <1>0, <1>3 DEF Next_after, Times, NoTime
<1>. QED BY <1>1, <1>2, <1>3

LEMMA RowFields ==
    ASSUME NEW r \in RowRecords
    PROVE  /\ r.on \in BOOLEAN /\ r.next \in Times \cup {NoTime} /\ r.kind \in Kinds
           /\ r.missed \in {"run_once", "skip"} /\ r.notify \in Notifies
           /\ r.target \in Targets /\ r.edition \in 0 .. MaxEdits
  BY DEF RowRecords

\* Whatever of the row a statement sets, it is a row, and the rest of it stays.
LEMMA RowRezoned ==
    ASSUME NEW r \in RowRecords, NEW next \in Times \cup {NoTime}
    PROVE  LET new == [r EXCEPT !.next = next] IN
              /\ new \in RowRecords
              /\ new.next = next
              /\ new.target = r.target /\ new.notify = r.notify
  BY DEF RowRecords

LEMMA RowOff ==
    ASSUME NEW r \in RowRecords
    PROVE  LET new == [r EXCEPT !.on = FALSE] IN
              /\ new \in RowRecords
              /\ new.next = r.next /\ new.on = FALSE
              /\ new.target = r.target /\ new.notify = r.notify
  BY DEF RowRecords

LEMMA RowSwitched ==
    ASSUME NEW r \in RowRecords, r.edition < MaxEdits
    PROVE  /\ LET new == [r EXCEPT !.on = FALSE, !.edition = @ + 1] IN
                 /\ new \in RowRecords
                 /\ new.next = r.next /\ new.on = FALSE
                 /\ new.target = r.target /\ new.notify = r.notify
           /\ \A next \in Times \cup {NoTime} :
                 LET new == [r EXCEPT !.on = TRUE, !.next = next, !.edition = @ + 1] IN
                    /\ new \in RowRecords
                    /\ new.next = next
                    /\ new.target = r.target /\ new.notify = r.notify
<1>1. r.edition + 1 \in 0 .. MaxEdits
  BY ScheduleAssumption DEF RowRecords
<1>. QED BY <1>1 DEF RowRecords

LEMMA NoRowIsRow == NoRow \in RowRecords /\ NoRow.target = "test" /\ NoRow.next = NoTime
  BY ScheduleAssumption DEF NoRow, RowRecords, NoTime, Kinds, Notifies, Targets

LEMMA LineKinds ==
    /\ NoLine \in LineRecords /\ NoLine.result = "no line"
    /\ \A l \in LineRecords :
          /\ l.result \in Results \cup {"no line", "open"}
          /\ \A result \in Results :
                /\ [l EXCEPT !.result = result] \in LineRecords
                /\ [l EXCEPT !.result = result].result = result
          /\ [l EXCEPT !.waiting = TRUE] \in LineRecords
          /\ [l EXCEPT !.waiting = TRUE].result = l.result
    /\ [result |-> "open", waiting |-> FALSE] \in LineRecords
  BY DEF NoLine, LineRecords

---------------------------------------------------------------------------
\* What runs do, seen from a schedule: one that was asked for stays so, and a verdict stands until
\* its row is pruned (TestRun).

Onward ==
    /\ status' \in [Runs -> T!Statuses]
    /\ \A r \in Runs : status[r] # "none" => status'[r] # "none"
    /\ \A r \in Runs : status[r] \in Results => status'[r] \in {status[r], "gone"}

LEMMA AskedOnward ==
    ASSUME TypeOK, NEW r \in Runs, AskFor(r)
    PROVE  Onward /\ status[r] = "none" /\ status'[r] # "none"
  BY DEF TypeOK, AskFor, Onward, T!Ask, T!Becomes, T!Statuses, T!Active, T!Final, T!Verdicts,
         Results

LEMMA RunsOnward ==
    ASSUME TypeOK, TestRuns
    PROVE  Onward
<1>1. CASE \E r \in Runs :
             T!Answer(r) \/ T!CallOff(r) \/ T!Begin(r) \/ T!End(r) \/ T!Go(r)
  <2>1. PICK r \in Runs :
          /\ \E s \in T!Statuses \ {"none"} : status' = [status EXCEPT ![r] = s]
          /\ status[r] \in T!Active \/ (status[r] \in T!Final /\ status'[r] = "gone")
    BY <1>1 DEF TypeOK, T!Answer, T!CallOff, T!Begin, T!End, T!Go, T!Becomes, T!Statuses,
                T!Active, T!Final, T!Verdicts
  <2>. QED BY <2>1 DEF TypeOK, Onward, T!Statuses, T!Active, T!Final, T!Verdicts, Results
<1>2. CASE \E rs \in SUBSET Runs : T!Interrupt(rs)
  BY <1>2 DEF TypeOK, Onward, T!Interrupt, T!Statuses, T!Active, T!Final, T!Verdicts, Results
<1>. QED BY <1>1, <1>2 DEF TestRuns

LEMMA StillOnward == ASSUME TypeOK, status' = status PROVE Onward
  BY DEF TypeOK, Onward

---------------------------------------------------------------------------
\* The row and the thread.

RowInv == TypeOK /\ ThreadInv

\* A row that was set to a time to come cannot be taken for a time that had come.
LEMMA SetAhead ==
    ASSUME RowInv, row' \in RowRecords, row'.next > now, UNCHANGED <<now, pc, seen, taken, there>>
    PROVE  ThreadInv'
<1>1. now \in Nat /\ now' = now /\ row'.next \in Nat
  BY RowFields, ScheduleAssumption DEF RowInv, TypeOK, Times, NoTime
<1>2. taken' < row'.next
  BY <1>1 DEF RowInv, ThreadInv
<1>3. ASSUME pc' = "claim" PROVE ~ Taken'
  <2>1. seen.row.next <= now /\ seen' = seen /\ seen.row.next \in Nat
    <3>1. seen.row \in RowRecords /\ seen.now \in Nat
      BY ScheduleAssumption DEF RowInv, ThreadInv
    <3>2. seen.row.next \in Nat
      BY <3>1, RowFields, ScheduleAssumption DEF Times, NoTime
    <3>. QED BY <1>1, <1>3, <3>1, <3>2 DEF RowInv, ThreadInv
  <2>. QED BY <1>1, <2>1 DEF Taken
<1>. QED BY <1>1, <1>2, <1>3 DEF RowInv, ThreadInv

LEMMA AheadNow ==
    ASSUME TypeOK, NEW kind \in {"every", "daily"}, NEW next \in Next_after(kind, now, NoTime)
    PROVE  next \in Times \cup {NoTime} /\ next > now
<1>1. now \in 0 .. Horizon /\ NoTime \in 0 .. now /\ kind \in Kinds /\ kind \in {"every", "daily"}
  BY ScheduleAssumption DEF TypeOK, NoTime, Kinds
<1>2. next \in Times \cup {NoTime} /\ (next # NoTime => next > now)
  BY <1>1, Ahead
<1>3. next # NoTime
  BY <1>1, ScheduleAssumption DEF Next_after, NoTime
<1>. QED BY <1>2, <1>3

LEMMA ChangeRow ==
    ASSUME TypeOK, Change
    PROVE  row' \in RowRecords /\ row'.next > now /\ row'.notify = row.notify
<1>1. PICK next \in Next_after(IF row.kind = "every" THEN "every" ELSE "daily", now, NoTime),
           target \in Targets :
        row' = [row EXCEPT !.next = next, !.target = target, !.edition = @ + 1,
                           !.kind = IF @ = "unreadable" THEN "daily" ELSE @]
  BY DEF Change
<1>2. next \in Times \cup {NoTime} /\ next > now
  BY <1>1, AheadNow
<1>3. row \in RowRecords /\ row.edition + 1 \in 0 .. MaxEdits
  BY RowFields, ScheduleAssumption DEF TypeOK, Change, Edits
<1>4. (IF row.kind = "unreadable" THEN "daily" ELSE row.kind) \in Kinds
  BY <1>3, RowFields DEF Kinds
<1>. QED BY <1>1, <1>2, <1>3, <1>4 DEF RowRecords

LEMMA ClaimRow ==
    ASSUME RowInv, Claim
    PROVE  /\ row' \in RowRecords /\ row'.target = row.target /\ row'.notify = row.notify
           /\ row'.next # NoTime => row'.next > seen.now
<1>1. PICK next \in Next_after(seen.row.kind, seen.now, seen.row.next) :
        row' = [row EXCEPT !.next = next, !.on = next # NoTime \/ seen.row.kind = "unreadable"]
  BY DEF Claim
<1>2. seen.row \in RowRecords /\ seen.now \in 0 .. Horizon /\ row \in RowRecords
  BY DEF RowInv, ThreadInv, TypeOK
<1>3. seen.row.next \in Times /\ seen.row.next <= seen.now
  BY <1>2, RowFields DEF RowInv, Claim, ThreadInv
<1>4. seen.row.next \in 0 .. seen.now /\ seen.row.kind \in Kinds
  BY <1>2, <1>3, RowFields, ScheduleAssumption DEF Times
<1>5. next \in Times \cup {NoTime} /\ (next # NoTime => next > seen.now)
  BY <1>1, <1>2, <1>4, Ahead
<1>. QED BY <1>1, <1>2, <1>5 DEF RowRecords

LEMMA PeopleRow == ASSUME RowInv, People PROVE RowInv'
<1>. USE DEF RowInv
<1>1. CASE Change
  <2>1. row' \in RowRecords /\ row'.next > now
    BY <1>1, ChangeRow
  <2>2. ThreadInv'
    BY <1>1, <2>1, SetAhead DEF Change, thread
  <2>3. TypeOK'
    BY <1>1, <2>1 DEF Change, thread, TypeOK
  <2>. QED BY <2>2, <2>3
<1>2. CASE SwitchOff
  <2>1. row.edition < MaxEdits /\ row \in RowRecords
    BY <1>2 DEF SwitchOff, Edits, TypeOK
  <2>2. row' \in RowRecords /\ row'.next = row.next /\ row'.on = FALSE
    BY <1>2, <2>1, RowSwitched DEF SwitchOff
  <2>. QED BY <1>2, <2>2 DEF SwitchOff, thread, histories, TypeOK, ThreadInv, Taken
<1>3. CASE SwitchOn
  <2>1. row.edition < MaxEdits /\ row \in RowRecords
    BY <1>3 DEF SwitchOn, Edits, TypeOK
  <2>2. PICK next \in IF row.kind = "once" THEN {row.next} ELSE Next_after(row.kind, now, NoTime) :
          next > now /\ row' = [row EXCEPT !.on = TRUE, !.next = next, !.edition = @ + 1]
    BY <1>3 DEF SwitchOn
  <2>3. next \in Times \cup {NoTime}
    <3>1. now \in 0 .. Horizon /\ NoTime \in 0 .. now /\ row.kind \in Kinds
      BY <2>1, RowFields, ScheduleAssumption DEF TypeOK, NoTime
    <3>. QED BY <2>1, <2>2, <3>1, Ahead, RowFields
  <2>4. row' \in RowRecords /\ row'.next = next
    BY <2>1, <2>2, <2>3, RowSwitched
  <2>5. ThreadInv'
    BY <1>3, <2>2, <2>4, SetAhead DEF SwitchOn, thread, histories
  <2>6. TypeOK'
    BY <1>3, <2>4 DEF SwitchOn, thread, TypeOK
  <2>. QED BY <2>5, <2>6
<1>4. CASE Remove
  <2>1. TypeOK'
    BY <1>4, NoRowIsRow, LineKinds DEF Remove, thread, TypeOK
  <2>2. ThreadInv'
    BY <1>4, NoRowIsRow DEF Remove, thread, histories, ThreadInv, Taken
  <2>. QED BY <2>1, <2>2
<1>5. CASE RunNow
  <2>1. PICK r \in Runs : AskFor(r) /\ manual' = r
    BY <1>5 DEF RunNow, New
  <2>2. status' \in [Runs -> T!Statuses]
    BY <2>1, AskedOnward DEF Onward
  <2>. QED BY <1>5, <2>1, <2>2 DEF RunNow, shared, thread, histories, TypeOK, ThreadInv, Taken
<1>6. CASE RunNowLine
  <2>1. line' \in [Runs -> LineRecords]
    BY <1>6, LineKinds DEF RunNowLine, Opened, TypeOK
  <2>. QED BY <1>6, <2>1 DEF RunNowLine, shared, thread, histories, TypeOK, ThreadInv, Taken
<1>. QED BY <1>1, <1>2, <1>3, <1>4, <1>5, <1>6 DEF People

LEMMA FiringRow == ASSUME RowInv, Firing PROVE RowInv'
<1>. USE DEF RowInv
<1>0. Nothing \in [row : RowRecords, now : 0 .. Horizon, place : BOOLEAN]
  BY NoRowIsRow, ScheduleAssumption DEF Nothing
<1>1. CASE LookDue
  <2>1. seen' \in [row : RowRecords, now : 0 .. Horizon, place : BOOLEAN]
        /\ seen'.row = row /\ seen'.now = now
    BY <1>1 DEF LookDue, TypeOK
  <2>2. TypeOK'
    BY <1>1 DEF LookDue, shared, TypeOK
  <2>3. ThreadInv'
    BY <1>1, <2>1 DEF LookDue, Due, shared, histories, TypeOK, ThreadInv
  <2>. QED BY <2>2, <2>3
<1>2. CASE Claim
  <2>1. seen.row \in RowRecords /\ seen.now \in Nat /\ now \in Nat
    BY ScheduleAssumption DEF ThreadInv, TypeOK
  <2>2. /\ seen.row.next \in Nat /\ seen.row.next <= seen.now /\ seen.now <= now
        /\ taken < seen.row.next
    BY <1>2, <2>1, RowFields, ScheduleAssumption DEF Claim, ThreadInv, Times, NoTime
  <2>3. row' \in RowRecords /\ (row'.next # NoTime => row'.next > seen.now)
    BY <1>2, ClaimRow
  <2>4. pc' \in {"ask", "record"} /\ outcome' \in Outcomes \cup {"none"}
    <3>1. outcome' \in {"refused", "missed", "none"}
      BY <1>2, Zenon DEF Claim
    <3>. QED BY <1>2, <3>1 DEF Claim, Outcomes
  <2>5. TypeOK'
    BY <1>2, <2>3, <2>4 DEF Claim, TypeOK
  <2>6. ThreadInv'
    <3>1. row'.next \in Nat
      BY <2>3, RowFields, ScheduleAssumption DEF Times, NoTime
    <3>2. taken' = seen.row.next /\ seen' = seen /\ now' = now
      BY <1>2 DEF Claim
    <3>3. seen.now < row'.next \/ row'.next = NoTime
      BY <2>3
    <3>4. taken' \in Nat /\ taken' <= now' /\ (row'.next # NoTime => taken' < row'.next)
      BY <2>1, <2>2, <3>1, <3>2, <3>3
    <3>. QED BY <2>4, <3>2, <3>4 DEF ThreadInv
  <2>. QED BY <2>5, <2>6
<1>3. CASE NotTaken
  BY <1>0, <1>3 DEF NotTaken, Done, shared, histories, TypeOK, ThreadInv, Outcomes
<1>4. CASE Ask
  <2>1. outcome' \in Outcomes /\ pc' = "record" /\ asked' \in Runs \cup {NoRun}
    BY <1>4 DEF Ask, Outcomes, New, TypeOK
  <2>2. status' \in [Runs -> T!Statuses]
    BY <1>4, AskedOnward DEF Ask, Onward, New, TypeOK
  <2>. QED BY <1>4, <2>1, <2>2 DEF Ask, shared, histories, TypeOK, ThreadInv
<1>5. CASE AskNowhere
  <2>1. row' \in RowRecords /\ row'.next = row.next
    BY <1>5, RowOff DEF AskNowhere, TypeOK
  <2>. QED BY <1>5, <2>1 DEF AskNowhere, histories, TypeOK, ThreadInv, Outcomes
<1>6. CASE Record
  <2>1. line' \in [Runs -> LineRecords]
    <3>1. ASSUME NEW l \in [Runs -> LineRecords], NEW pruned \in Pruned(l)
          PROVE  pruned \in [Runs -> LineRecords]
      <4>1. PICK gone \in SUBSET {r \in Runs : l[r].result \in Results} :
              pruned = [r \in Runs |-> IF r \in gone THEN NoLine ELSE l[r]]
        BY <3>1 DEF Pruned
      <4>. QED BY <3>1, <4>1, LineKinds
    <3>2. line \in [Runs -> LineRecords]
      BY DEF TypeOK
    <3>3. asked # NoRun => Opened(asked) \in [Runs -> LineRecords]
      BY <3>2, LineKinds DEF Opened
    <3>. QED BY <1>6, <3>1, <3>2, <3>3 DEF Record
  <2>. QED BY <1>0, <1>6, <2>1 DEF Record, Done, shared, histories, TypeOK, ThreadInv
<1>. QED BY <1>1, <1>2, <1>3, <1>4, <1>5, <1>6 DEF Firing

LEMMA OtherRow == ASSUME RowInv, Settling \/ Refused \/ Rezone \/ World PROVE RowInv'
<1>. USE DEF RowInv
<1>0. Nothing \in [row : RowRecords, now : 0 .. Horizon, place : BOOLEAN]
  BY NoRowIsRow, ScheduleAssumption DEF Nothing
<1>1. CASE Tell
  BY <1>1 DEF Tell, shared, thread, TypeOK, ThreadInv, Taken
<1>2. ASSUME NEW r \in Runs, Settle(r) PROVE RowInv'
  <2>1. line' \in [Runs -> LineRecords] /\ notices' \subseteq Runs
    BY <1>2, LineKinds DEF Settle, TypeOK
  <2>. QED BY <1>2, <2>1 DEF Settle, shared, thread, histories, TypeOK, ThreadInv, Taken
<1>3. ASSUME NEW r \in Runs, SettleWaiting(r) PROVE RowInv'
  <2>1. line' \in [Runs -> LineRecords]
    BY <1>3, LineKinds DEF SettleWaiting, TypeOK
  <2>. QED BY <1>3, <2>1 DEF SettleWaiting, shared, thread, histories, TypeOK, ThreadInv, Taken
<1>4. CASE Refused
  BY <1>0, <1>4 DEF Refused, Done, shared, TypeOK, ThreadInv
<1>5. CASE Rezone
  <2>1. PICK next \in Next_after("daily", now, NoTime) : row' = [row EXCEPT !.next = next]
    BY <1>5 DEF Rezone
  <2>2. next \in Times \cup {NoTime} /\ next > now
    BY <2>1, AheadNow
  <2>3. row' \in RowRecords /\ row'.next = next
    BY <2>1, <2>2, RowRezoned DEF TypeOK
  <2>4. ThreadInv'
    BY <1>5, <2>2, <2>3, SetAhead DEF Rezone, thread, histories
  <2>5. TypeOK'
    BY <1>5, <2>3 DEF Rezone, thread, TypeOK
  <2>. QED BY <2>4, <2>5
<1>6. CASE Passes
  <2>1. now \in Nat /\ now' \in 0 .. Horizon /\ now' = now + 1
    BY <1>6, ScheduleAssumption DEF Passes, TypeOK
  <2>2. TypeOK'
    BY <1>6, <2>1 DEF Passes, shared, thread, TypeOK
  <2>3. seen' = seen /\ seen.now \in Nat
    BY <1>6, ScheduleAssumption DEF Passes, thread, ThreadInv
  <2>4. ThreadInv'
    BY <1>6, <2>1, <2>3 DEF Passes, shared, thread, histories, ThreadInv, Taken
  <2>. QED BY <2>2, <2>4
<1>7. CASE LosePlace
  BY <1>7 DEF LosePlace, thread, histories, TypeOK, ThreadInv, Taken
<1>10. CASE StartAgain
  BY <1>10 DEF StartAgain, shared, thread, histories, TypeOK, ThreadInv, Taken
<1>8. CASE Stop
  BY <1>0, <1>8 DEF Stop, Done, shared, TypeOK, ThreadInv
<1>9. CASE TestRuns
  BY <1>9, RunsOnward DEF TestRuns, Onward, shared, thread, histories, TypeOK, ThreadInv, Taken
<1>. QED
  BY <1>1, <1>2, <1>3, <1>4, <1>5, <1>6, <1>7, <1>8, <1>9, <1>10 DEF Settling, World

---------------------------------------------------------------------------
\* The history.

\* Most steps write no line and tell nothing; they may forget whom they asked for, and what they
\* were about to tell.
Quiet ==
    /\ UNCHANGED <<line, told, there>>
    /\ Onward
    /\ asked' \in {asked, NoRun} /\ manual' \in {manual, NoRun}
    /\ row'.notify = row.notify
    /\ moved' \in BOOLEAN /\ (moved => moved') /\ (row'.target # "test" => moved')
    /\ lost' \in BOOLEAN /\ (lost => lost')
    /\ notices' = notices \/ (notices' = {} /\ lost')

History == LinesInv /\ HistoryTrue

LEMMA QuietKeeps == ASSUME IInv, Quiet PROVE History'
<1>. USE DEF IInv
<1>1. /\ \A r \in Runs : line'[r] = line[r] /\ told'[r] = told[r] /\ (r \in notices' => r \in notices)
      /\ \A r \in Runs : status'[r] = "none" => status[r] = "none"
      /\ \A r : Open(r)' = Open(r)
  BY DEF Quiet, Onward, Open
<1>2. LinesInv'
  <2>1. /\ told' \in [Runs -> Nat] /\ lost' \in BOOLEAN /\ moved' \in BOOLEAN
        /\ row'.target # "test" => moved'
    BY DEF Quiet, LinesInv
  <2>2. \A r \in Runs : Unwritten(r) => Unwritten(r)'
    BY <1>1 DEF Unwritten
  <2>3. asked' # NoRun => asked' = asked /\ asked \in Runs
    BY DEF Quiet, TypeOK
  <2>4. manual' # NoRun => manual' = manual /\ manual \in Runs
    BY DEF Quiet, TypeOK
  <2>5. /\ asked' # NoRun => Unwritten(asked)'
        /\ manual' # NoRun => Unwritten(manual)'
        /\ asked' # NoRun => asked' # manual'
    BY <2>2, <2>3, <2>4 DEF LinesInv, Unwritten
  <2>6. ASSUME NEW r \in Runs
        PROVE  /\ status'[r] = "none" => line'[r] = NoLine /\ told'[r] = 0 /\ r \notin notices'
               /\ ~ there' => line'[r] = NoLine
               /\ Open(r)' => told'[r] = 0 /\ r \notin notices'
               /\ r \in notices' => told'[r] = 0
               /\ r \in notices' /\ line'[r].result # "no line" =>
                     line'[r].result \in {"failed", "errored"} \/ row'.notify = "always"
    BY <1>1 DEF LinesInv, Quiet
  <2>. QED BY <2>1, <2>5, <2>6 DEF LinesInv
<1>3. HistoryTrue'
  <2>1. ASSUME NEW r \in Runs, line[r].result \in Results
        PROVE  status'[r] \in {line[r].result, "gone"} \/ (line[r].result = "gone" /\ moved')
    <3>1. CASE status[r] \in {line[r].result, "gone"}
      BY <2>1, <3>1 DEF Quiet, Onward, Results
    <3>2. CASE line[r].result = "gone" /\ moved
      BY <3>2 DEF Quiet
    <3>. QED BY <2>1, <3>1, <3>2 DEF HistoryTrue
  <2>2. ASSUME NEW r \in Runs
        PROVE  /\ told'[r] <= 1
               /\ told'[r] = 1 /\ line'[r].result # "no line" =>
                     line'[r].result \in {"failed", "errored"} \/ row'.notify = "always"
               /\ line'[r].result \in {"failed", "errored"} /\ row'.notify # "never" =>
                     told'[r] = 1 \/ r \in notices' \/ lost'
    BY <1>1 DEF HistoryTrue, Quiet
  <2>. QED BY <1>1, <2>1, <2>2 DEF HistoryTrue
<1>. QED BY <1>2, <1>3 DEF History

\* A run that is asked for has no history yet.
LEMMA AskingKeeps ==
    ASSUME IInv, NEW r \in Runs, AskFor(r),
           \/ asked' = r /\ manual' = manual
           \/ manual' = r /\ asked' = asked,
           UNCHANGED <<row, there, line, notices, told, lost, moved>>
    PROVE  History'
<1>. USE DEF IInv
<1>1. Onward /\ status[r] = "none" /\ status'[r] # "none"
  BY AskedOnward
<1>2. r # asked /\ r # manual /\ r # NoRun
  BY <1>1, ScheduleAssumption DEF LinesInv, Unwritten
<1>3. \A q \in Runs : Unwritten(q) => Unwritten(q)'
  BY <1>1 DEF Unwritten, Onward
<1>4. Unwritten(r)'
  BY <1>1 DEF LinesInv, Unwritten
<1>5. /\ asked' # NoRun => Unwritten(asked)'
      /\ manual' # NoRun => Unwritten(manual)'
      /\ asked' # NoRun => asked' # manual'
  BY <1>2, <1>3, <1>4 DEF LinesInv, TypeOK, Unwritten
<1>6. \A q \in Runs : (status'[q] = "none" => status[q] = "none") /\ (Open(q)' <=> Open(q))
  BY <1>1 DEF Onward, Open
<1>7. LinesInv'
  BY <1>5, <1>6 DEF LinesInv
<1>8. HistoryTrue'
  BY <1>1 DEF HistoryTrue, Onward, Results
<1>. QED BY <1>7, <1>8 DEF History

\* HistoryTrue, of one run.
HistoryOf(r) ==
    /\ line[r].result \in Results =>
          \/ status[r] \in {line[r].result, "gone"}
          \/ line[r].result = "gone" /\ moved
    /\ told[r] <= 1
    /\ told[r] = 1 /\ line[r].result # "no line" =>
          line[r].result \in {"failed", "errored"} \/ row.notify = "always"
    /\ line[r].result \in {"failed", "errored"} /\ row.notify # "never" =>
          told[r] = 1 \/ r \in notices \/ lost

LEMMA HistoryOfAll == HistoryTrue <=> \A r \in Runs : HistoryOf(r)
  BY DEF HistoryTrue, HistoryOf

\* Whatever is written into the history: a line stays, goes when it has its verdict, or is opened
\* for a run nobody has heard of.
LEMMA WritingKeeps ==
    ASSUME IInv, there, NEW new \in {asked, manual, NoRun},
           \A r \in Runs :
              \/ line'[r] = line[r]
              \/ line[r].result \in Results /\ line'[r] = NoLine
              \/ r = new /\ line'[r].result = "open",
           asked' \in {asked, NoRun}, manual' \in {manual, NoRun},
           new # NoRun => asked' # new /\ manual' # new,
           UNCHANGED <<row, there, status, notices, told, lost, moved>>
    PROVE  History'
<1>. USE DEF IInv
<1>1. ASSUME NEW r \in Runs, r = new
      PROVE  status[r] # "none" /\ told[r] = 0 /\ r \notin notices
  BY <1>1, ScheduleAssumption DEF LinesInv, Unwritten
<1>2. ASSUME NEW r \in Runs
      PROVE  \/ line'[r] = line[r]
             \/ line'[r] = NoLine /\ line[r] # NoLine
             \/ r = new /\ line'[r].result = "open"
  BY LineKinds DEF Results
<1>3. LinesInv'
  <2>1. \A r \in Runs : r # new /\ Unwritten(r) => Unwritten(r)'
    BY <1>2 DEF Unwritten
  <2>2. /\ asked' # NoRun => asked' = asked /\ asked \in Runs /\ asked # new
        /\ manual' # NoRun => manual' = manual /\ manual \in Runs /\ manual # new
    BY DEF TypeOK
  <2>3. /\ asked' # NoRun => Unwritten(asked)'
        /\ manual' # NoRun => Unwritten(manual)'
        /\ asked' # NoRun => asked' # manual'
    BY <2>1, <2>2 DEF LinesInv, Unwritten
  <2>4. ASSUME NEW r \in Runs
        PROVE  /\ status'[r] = "none" => line'[r] = NoLine /\ told'[r] = 0 /\ r \notin notices'
               /\ Open(r)' => told'[r] = 0 /\ r \notin notices'
               /\ r \in notices' => told'[r] = 0
               /\ r \in notices' /\ line'[r].result # "no line" =>
                     line'[r].result \in {"failed", "errored"} \/ row'.notify = "always"
    BY <1>1, <1>2, LineKinds DEF LinesInv, Open
  <2>. QED BY <2>3, <2>4 DEF LinesInv
<1>4. HistoryTrue'
  <2>1. ASSUME NEW r \in Runs
        PROVE  HistoryOf(r)'
    <3>1. CASE line'[r] = line[r]
      BY <3>1, HistoryOfAll DEF HistoryOf
    <3>2. CASE line'[r] = NoLine
      BY <3>2, LineKinds, HistoryOfAll DEF HistoryOf, Results
    <3>3. CASE r = new /\ line'[r].result = "open"
      BY <1>1, <3>3 DEF HistoryOf, Results
    <3>. QED BY <1>2, <3>1, <3>2, <3>3
  <2>. QED BY <2>1 DEF HistoryTrue, HistoryOf
<1>. QED BY <1>3, <1>4 DEF History

LEMMA RunNowLineKeeps == ASSUME IInv, RunNowLine PROVE History'
<1>1. CASE there
  <2>1. manual \in Runs /\ line \in [Runs -> LineRecords]
    BY DEF RunNowLine, IInv, TypeOK
  <2>2. \A r \in Runs : line'[r] = line[r] \/ (r = manual /\ line'[r].result = "open")
    BY <1>1, <2>1 DEF RunNowLine, Opened
  <2>3. asked # manual
    BY DEF RunNowLine, IInv, LinesInv
  <2>4. /\ asked' = asked /\ manual' = NoRun
        /\ UNCHANGED <<row, there, status, notices, told, lost, moved>>
    BY DEF RunNowLine, shared, thread, histories
  <2>. QED BY <1>1, <2>2, <2>3, <2>4, WritingKeeps
<1>2. CASE ~ there
  <2>1. Quiet
    BY <1>2, StillOnward DEF RunNowLine, shared, thread, histories, Quiet, IInv, LinesInv
  <2>. QED BY <2>1, QuietKeeps
<1>. QED BY <1>1, <1>2

LEMMA RecordKeeps == ASSUME IInv, Record PROVE History'
<1>1. CASE there
  <2>. DEFINE old == IF asked # NoRun THEN Opened(asked) ELSE line
  <2>1. line \in [Runs -> LineRecords] /\ asked \in Runs \cup {NoRun}
    BY DEF IInv, TypeOK
  <2>2. \A r \in Runs :
           \/ old[r] = line[r]
           \/ r = asked /\ old[r].result = "open"
    BY <2>1 DEF Opened
  <2>3. PICK gone \in SUBSET {r \in Runs : old[r].result \in Results} :
          line' = [r \in Runs |-> IF r \in gone THEN NoLine ELSE old[r]]
    BY <1>1 DEF Record, Pruned
  <2>. HIDE DEF old
  <2>4. \A r \in Runs :
           \/ line'[r] = line[r]
           \/ line[r].result \in Results /\ line'[r] = NoLine
           \/ r = asked /\ line'[r].result = "open"
    BY <2>2, <2>3 DEF Results
  <2>5. asked # NoRun => manual # asked
    BY DEF IInv, LinesInv
  <2>6. /\ asked' = NoRun /\ manual' = manual
        /\ UNCHANGED <<row, there, status, notices, told, lost, moved>>
    BY DEF Record, Done, shared, histories
  <2>. QED BY <1>1, <2>4, <2>5, <2>6, WritingKeeps
<1>2. CASE ~ there
  <2>1. Quiet
    BY <1>2, StillOnward DEF Record, Done, shared, thread, histories, Quiet, IInv, LinesInv
  <2>. QED BY <2>1, QuietKeeps
<1>. QED BY <1>1, <1>2

LEMMA RemoveKeeps == ASSUME IInv, Remove PROVE History'
<1>1. /\ \A r \in Runs : line'[r] = NoLine
      /\ UNCHANGED <<status, told, notices, asked, manual, lost, moved>> /\ row'.target = "test"
  BY NoRowIsRow DEF Remove, thread, histories
<1>2. \A r \in Runs : Unwritten(r) => Unwritten(r)'
  BY <1>1 DEF Unwritten
<1>3. LinesInv'
  BY <1>1, <1>2, LineKinds DEF IInv, LinesInv, TypeOK, Open, Unwritten
<1>4. HistoryTrue'
  <2>1. \A r \in Runs : told[r] <= 1
    BY HistoryOfAll DEF IInv, HistoryOf
  <2>2. \A r \in Runs : line'[r].result = "no line" /\ told'[r] = told[r]
    BY <1>1, LineKinds
  <2>. QED BY <2>1, <2>2 DEF HistoryTrue, Results
<1>. QED BY <1>3, <1>4 DEF History

LEMMA SettleKeeps == ASSUME IInv, NEW r \in Runs, Settle(r) PROVE History'
<1>. USE DEF IInv
<1>1. /\ line'[r].result = Found(r) /\ Found(r) \in Results
      /\ \A q \in Runs \ {r} : line'[q] = line[q]
  <2>1. line \in [Runs -> LineRecords] /\ line[r] \in LineRecords /\ Found(r) \in Results
    BY DEF Settle, TypeOK
  <2>2. line' = [line EXCEPT ![r].result = Found(r)]
    BY DEF Settle
  <2>3. [line[r] EXCEPT !.result = Found(r)].result = Found(r)
    BY <2>1, LineKinds
  <2>. QED BY <2>1, <2>2, <2>3
<1>2. UNCHANGED <<row, there, status, asked, manual, told, lost, moved>>
  BY DEF Settle, shared, thread, histories
<1>3. Open(r) /\ line[r].result = "open" /\ told[r] = 0 /\ r \notin notices
  BY DEF Settle, Open, LinesInv
<1>4. /\ status[r] # "none" /\ there /\ ~ Unwritten(r)
  BY <1>3, LineKinds DEF LinesInv, Unwritten
<1>5. notices' = IF Tells(Found(r)) THEN notices \cup {r} ELSE notices
  BY DEF Settle
<1>6. LinesInv'
  <2>1. \A q \in Runs : Unwritten(q) => Unwritten(q)'
    BY <1>1, <1>2, <1>4, <1>5 DEF Unwritten
  <2>2. /\ asked' # NoRun => Unwritten(asked)'
        /\ manual' # NoRun => Unwritten(manual)'
    BY <1>2, <2>1 DEF LinesInv, TypeOK
  <2>3. ASSUME NEW q \in Runs
        PROVE  /\ status'[q] = "none" => line'[q] = NoLine /\ told'[q] = 0 /\ q \notin notices'
               /\ ~ there' => line'[q] = NoLine
               /\ Open(q)' => told'[q] = 0 /\ q \notin notices'
               /\ q \in notices' => told'[q] = 0
               /\ q \in notices' /\ line'[q].result # "no line" =>
                     line'[q].result \in {"failed", "errored"} \/ row'.notify = "always"
    <3>1. CASE q = r
      BY <1>1, <1>2, <1>3, <1>4, <1>5, <3>1 DEF LinesInv, Tells, Open, Results
    <3>2. CASE q # r
      BY <1>1, <1>2, <1>5, <3>2 DEF LinesInv, Open
    <3>. QED BY <3>1, <3>2
  <2>. QED BY <1>2, <2>2, <2>3 DEF LinesInv
<1>7. HistoryTrue'
  <2>1. Found(r) = status[r] \/ (Found(r) = "gone" /\ moved)
    BY DEF Found, LinesInv
  <2>2. ASSUME NEW q \in Runs
        PROVE  HistoryOf(q)'
    <3>1. CASE q = r
      <4>1. row.notify \in {"failure", "always", "never"}
        BY RowFields DEF TypeOK, Notifies
      <4>2. line'[r].result \in {"failed", "errored"} /\ row.notify # "never" => r \in notices'
        BY <1>1, <1>5, <4>1 DEF Tells
      <4>3. told'[r] = 0
        BY <1>2, <1>3
      <4>4. status'[r] = line'[r].result \/ (line'[r].result = "gone" /\ moved')
        BY <1>1, <1>2, <2>1
      <4>. QED BY <1>2, <3>1, <4>2, <4>3, <4>4 DEF HistoryOf
    <3>2. CASE q # r
      BY <1>1, <1>2, <1>5, <3>2, HistoryOfAll DEF HistoryOf
    <3>. QED BY <3>1, <3>2
  <2>. QED BY <2>2 DEF HistoryTrue, HistoryOf
<1>. QED BY <1>6, <1>7 DEF History

LEMMA SettleWaitingKeeps == ASSUME IInv, NEW r \in Runs, SettleWaiting(r) PROVE History'
<1>. USE DEF IInv
<1>1. \A q \in Runs : line'[q].result = line[q].result /\ (line[q] = NoLine => line'[q] = NoLine)
  <2>1. line[r] # NoLine
    BY LineKinds DEF SettleWaiting, Open
  <2>. QED BY <2>1, LineKinds DEF SettleWaiting, TypeOK
<1>2. UNCHANGED <<row, there, status, asked, manual, told, lost, moved, notices>>
  BY DEF SettleWaiting, shared, thread, histories
<1>3. \A q \in Runs : Unwritten(q) => Unwritten(q)'
  BY <1>1, <1>2 DEF Unwritten
<1>4. LinesInv'
  BY <1>1, <1>2, <1>3 DEF LinesInv, TypeOK, Open
<1>5. HistoryTrue'
  BY <1>1, <1>2 DEF HistoryTrue
<1>. QED BY <1>4, <1>5 DEF History

\* What is shown has not been shown before (look).
LEMMA TellKeeps == ASSUME IInv, Tell PROVE History'
<1>. USE DEF IInv
<1>0. /\ told \in [Runs -> Nat]
      /\ \A r \in Runs : r \in notices => told[r] = 0
  BY DEF LinesInv
<1>1. /\ UNCHANGED <<row, there, status, line, asked, manual, lost, moved>> /\ notices' = {}
      /\ \A r \in Runs : told'[r] = IF r \in notices THEN told[r] + 1 ELSE told[r]
  BY DEF Tell, shared, thread
<1>2. told' \in [Runs -> Nat]
  <2>1. told' = [r \in Runs |-> IF r \in notices THEN told[r] + 1 ELSE told[r]]
    BY DEF Tell
  <2>. HIDE DEF IInv
  <2>. QED BY <1>0, <2>1
<1>3. \A r \in Runs : Unwritten(r) => Unwritten(r)'
  BY <1>1 DEF Unwritten
<1>4. LinesInv'
  BY <1>1, <1>2, <1>3 DEF LinesInv, TypeOK, Open
<1>5. HistoryTrue'
  <2>1. ASSUME NEW r \in Runs
        PROVE  HistoryOf(r)'
    <3>1. CASE r \in notices
      <4>1. told[r] = 0 /\ told'[r] = 1
        BY <1>0, <1>1, <3>1
      <4>2. \/ line[r].result = "no line" \/ line[r].result \in {"failed", "errored"}
            \/ row.notify = "always"
        BY <3>1 DEF LinesInv
      <4>3. HistoryOf(r)
        BY HistoryOfAll
      <4>. HIDE DEF IInv
      <4>4. /\ row' = row /\ status' = status /\ line' = line /\ moved' = moved
            /\ told'[r] <= 1 /\ told'[r] = 1
        BY <1>1, <4>1
      <4>5. (line[r].result \in Results =>
               \/ status[r] \in {line[r].result, "gone"}
               \/ line[r].result = "gone" /\ moved)'
        BY <4>3, <4>4 DEF HistoryOf
      <4>. QED BY <4>2, <4>4, <4>5 DEF HistoryOf
    <3>2. CASE r \notin notices
      BY <1>1, <3>2, HistoryOfAll DEF HistoryOf
    <3>. QED BY <3>1, <3>2
  <2>. QED BY <2>1 DEF HistoryTrue, HistoryOf
<1>. QED BY <1>4, <1>5 DEF History

LEMMA PeopleKeep == ASSUME IInv, People PROVE History'
<1>0. LinesInv /\ TypeOK /\ row \in RowRecords
  BY DEF IInv, TypeOK
<1>1. CASE Change
  <2>1. row'.notify = row.notify
    BY <1>0, <1>1, ChangeRow
  <2>2. moved' = (moved \/ row'.target # "test")
    BY <1>1 DEF Change
  <2>. QED BY <1>0, <1>1, <2>1, <2>2, StillOnward, QuietKeeps DEF Change, thread, LinesInv, Quiet
<1>2. CASE SwitchOff
  <2>1. row'.notify = row.notify /\ row'.target = row.target
    BY <1>0, <1>2, RowSwitched DEF SwitchOff, Edits
  <2>. QED BY <1>0, <1>2, <2>1, StillOnward, QuietKeeps
           DEF SwitchOff, thread, histories, LinesInv, Quiet
<1>3. CASE SwitchOn
  <2>1. row'.notify = row.notify /\ row'.target = row.target
    BY <1>0, <1>3 DEF SwitchOn, RowRecords
  <2>. QED BY <1>0, <1>3, <2>1, StillOnward, QuietKeeps
           DEF SwitchOn, thread, histories, LinesInv, Quiet
<1>5. CASE RunNow
  <2>1. PICK r \in Runs : AskFor(r) /\ manual' = r
    BY <1>5 DEF RunNow, New
  <2>. QED BY <1>5, <2>1, AskingKeeps DEF RunNow, shared, thread, histories
<1>. QED BY <1>1, <1>2, <1>3, <1>5, RemoveKeeps, RunNowLineKeeps DEF People

LEMMA FiringKeeps == ASSUME IInv, Firing PROVE History'
<1>0. LinesInv /\ TypeOK /\ row \in RowRecords /\ RowInv
  BY DEF IInv, TypeOK, RowInv
<1>1. CASE LookDue \/ NotTaken
  BY <1>0, <1>1, StillOnward, QuietKeeps
     DEF LookDue, NotTaken, Done, shared, thread, histories, LinesInv, Quiet
<1>2. CASE Claim
  BY <1>0, <1>2, ClaimRow, StillOnward, QuietKeeps DEF Claim, LinesInv, Quiet
<1>3. CASE Ask
  <2>1. CASE UNCHANGED <<status, asked>>
    BY <1>0, <1>3, <2>1, StillOnward, QuietKeeps DEF Ask, shared, histories, LinesInv, Quiet
  <2>2. CASE \E r \in New : AskFor(r) /\ asked' = r
    BY <1>3, <2>2, AskingKeeps DEF Ask, New, shared, histories
  <2>. QED BY <1>3, <2>1, <2>2 DEF Ask
<1>4. CASE AskNowhere
  <2>1. row'.notify = row.notify /\ row'.target = row.target
    BY <1>0, <1>4, RowOff DEF AskNowhere
  <2>. QED BY <1>0, <1>4, <2>1, StillOnward, QuietKeeps DEF AskNowhere, histories, LinesInv, Quiet
<1>. QED BY <1>1, <1>2, <1>3, <1>4, RecordKeeps DEF Firing

LEMMA OtherKeeps == ASSUME IInv, Settling \/ Refused \/ Rezone \/ World PROVE History'
<1>0. LinesInv /\ TypeOK /\ row \in RowRecords
  BY DEF IInv, TypeOK
<1>1. CASE Refused
  BY <1>0, <1>1, StillOnward, QuietKeeps DEF Refused, Done, shared, LinesInv, Quiet
<1>2. CASE Rezone
  <2>1. PICK next \in Next_after("daily", now, NoTime) : row' = [row EXCEPT !.next = next]
    BY <1>2 DEF Rezone
  <2>2. row'.notify = row.notify /\ row'.target = row.target
    BY <1>0, <2>1 DEF RowRecords
  <2>. QED BY <1>0, <1>2, <2>2, StillOnward, QuietKeeps
           DEF Rezone, thread, histories, LinesInv, Quiet
<1>3. CASE Passes \/ LosePlace \/ StartAgain
  BY <1>0, <1>3, StillOnward, QuietKeeps
     DEF Passes, LosePlace, StartAgain, shared, thread, histories, LinesInv, Quiet
<1>4. CASE Stop
  BY <1>0, <1>4, StillOnward, QuietKeeps DEF Stop, Done, shared, LinesInv, Quiet
<1>5. CASE TestRuns
  BY <1>0, <1>5, RunsOnward, QuietKeeps
     DEF TestRuns, shared, thread, histories, LinesInv, Quiet
<1>. QED BY <1>1, <1>2, <1>3, <1>4, <1>5, TellKeeps, SettleKeeps, SettleWaitingKeeps
         DEF Settling, World

---------------------------------------------------------------------------
LEMMA InitHolds == Init => IInv
<1>. SUFFICES ASSUME Init PROVE IInv
  OBVIOUS
<1>1. PICK given \in Rows :
        row = [on |-> TRUE, next |-> 1, kind |-> given.kind, missed |-> given.missed,
               notify |-> given.notify, target |-> "test", edition |-> 0]
  BY DEF Init
<1>2. /\ given.kind \in Kinds /\ given.missed \in {"run_once", "skip"}
      /\ given.notify \in Notifies
  BY ScheduleAssumption
<1>3. 1 \in Times /\ 0 \in 0 .. MaxEdits /\ 0 \in 0 .. Horizon
  BY ScheduleAssumption DEF Times
<1>4. row \in RowRecords /\ row.next = 1 /\ row.target = "test"
  BY <1>1, <1>2, <1>3 DEF RowRecords, Targets
<1>5. TypeOK
  BY <1>3, <1>4, LineKinds DEF Init, TypeOK, Outcomes, T!Statuses
<1>6. ThreadInv
  BY <1>3, <1>4, NoRowIsRow DEF Init, ThreadInv, Nothing, Taken
<1>7. LinesInv
  BY <1>4, LineKinds DEF Init, LinesInv, Open
<1>8. HistoryTrue
  <2>1. \A r \in Runs : line[r].result = "no line"
    BY LineKinds DEF Init
  <2>0. \A r \in Runs : told[r] = 0
    BY DEF Init
  <2>2. \A r \in Runs : HistoryOf(r)
    <3>1. ASSUME NEW r \in Runs PROVE HistoryOf(r)
      <4>1. told[r] <= 1 /\ told[r] # 1
        BY <2>0
      <4>2. line[r].result = "no line"
        BY <2>1
      <4>. QED BY <4>1, <4>2 DEF HistoryOf, Results
    <3>. QED BY <3>1
  <2>. QED BY <2>2, HistoryOfAll
<1>. QED BY <1>5, <1>6, <1>7, <1>8 DEF IInv

LEMMA StepHolds == IInv /\ [Next]_vars => IInv'
<1>. SUFFICES ASSUME IInv, [Next]_vars PROVE IInv'
  OBVIOUS
<1>1. CASE Next
  <2>1. RowInv
    BY DEF IInv, RowInv
  <2>2. RowInv'
    BY <1>1, <2>1, PeopleRow, FiringRow, OtherRow DEF Next
  <2>3. History'
    BY <1>1, PeopleKeep, FiringKeeps, OtherKeeps DEF Next
  <2>. QED BY <2>2, <2>3 DEF IInv, RowInv, History
<1>2. CASE UNCHANGED vars
  <2>1. RowInv'
    BY <1>2 DEF vars, shared, thread, histories, IInv, RowInv, TypeOK, ThreadInv, Taken
  <2>2. LinesInv /\ TypeOK
    BY DEF IInv
  <2>3. History'
    BY <1>2, <2>2, StillOnward, QuietKeeps DEF vars, shared, thread, histories, LinesInv, Quiet
  <2>. QED BY <2>1, <2>3 DEF IInv, RowInv, History
<1>. QED BY <1>1, <1>2

\* Every variable keeps its type (schedule/fire.rs, store/schedules.rs).
THEOREM TypesHold == Spec => []TypeOK
<1>1. IInv => TypeOK
  BY DEF IInv
<1>. QED BY InitHolds, StepHolds, <1>1, PTL DEF Spec

\* The history says what became of a run, and whoever wants to hear of a failure hears once
\* (schedule/fire.rs: settle, look).
THEOREM HistoryTrueHolds == Spec => []HistoryTrue
<1>1. IInv => HistoryTrue
  BY DEF IInv
<1>. QED BY InitHolds, StepHolds, <1>1, PTL DEF Spec

\* A time is acted on once, and as it was read (schedule/fire.rs: tick, Store::claim_schedule).
THEOREM OncePerTimeHolds == Spec => OncePerTime
<1>1. IInv /\ [Next]_vars =>
        [pc = "claim" /\ pc' \in {"ask", "record"} => taken < seen.row.next /\ row = seen.row]_vars
  <2>. SUFFICES ASSUME IInv, Next, pc = "claim", pc' \in {"ask", "record"}
                PROVE  taken < seen.row.next /\ row = seen.row
    OBVIOUS
  <2>1. Claim
    <3>1. pc' # "idle" /\ pc' # pc
      OBVIOUS
    <3>2. ~ (People \/ Settling \/ Refused \/ Rezone \/ World)
      BY <3>1 DEF People, Change, SwitchOff, SwitchOn, Remove, RunNow, RunNowLine, Settling,
                  Tell, Settle, SettleWaiting, Refused, Done, Rezone, World, Passes, LosePlace,
                  Stop, StartAgain, TestRuns, thread
    <3>. QED BY <3>1, <3>2 DEF Next, Firing, LookDue, NotTaken, Done, Ask, AskNowhere, Record
  <2>. QED BY <2>1 DEF Claim, IInv, ThreadInv
<1>. QED BY InitHolds, StepHolds, <1>1, PTL DEF Spec, OncePerTime
=============================================================================
