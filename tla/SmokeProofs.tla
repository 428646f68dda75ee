---------------------------- MODULE SmokeProofs ----------------------------
(***************************************************************************)
(* Proofs about Smoke, for any number of runs, versions of the file and    *)
(* tests: nothing runs that nobody agreed to, verdicts are true, steps     *)
(* begin in order, orphans are killed, and Smoke implements TestRun.       *)
(***************************************************************************)
EXTENDS Smoke, FiniteSetTheorems, WellFoundedInduction, TLAPS

\* Where a thread is that has begun a run: on a step, past the rest of setup and steps, about to
\* end the run, about to give it up
Carrying == {"spawn", "record", "poll", "mark"}
Asking == {"ask", "unask"}
OnSteps == {"top"} \cup Carrying \cup Asking
Leaving == {"note", "skip"}
Going == OnSteps \cup Leaving \cup {"finish", "drop"}

\* A run that has not begun.
Waits == {"awaiting_approval", "queued"}

---------------------------------------------------------------------------
\* What lets a run be carried out.
LetInv ==
    /\ OnlyAgreed
    /\ approvals \subseteq agreed
    /\ \A r \in Runs :
          /\ shown[r] # NoVersion => shown[r] \in agreed
          /\ shown[r] # NoVersion /\ version[r] = shown[r] => r \notin owed
          /\ status[r] = "none" => shown[r] = NoVersion /\ r \notin owed

\* Which rows a thread is working on.
ThreadInv ==
    /\ recovered => app
    /\ ~ recovered => orphans = {}
    /\ \A r \in Runs :
          /\ pc[r] # "none" => recovered
          /\ pc[r] \in Going => status[r] = "running"
          /\ pc[r] \in {"none", "begin"} => at[r] = 1
          /\ pc[r] \in Going \ {"skip", "finish"} => end[r] # "errored"
          /\ status[r] \in {"none"} \cup Waits => ~ cancel[r]

\* Which processes may be there.
ProcInv ==
    \A p \in procs :
        /\ status[p[1]] \notin {"none"} \cup Waits
        /\ pc[p[1]] \in Going =>
              /\ pc[p[1]] # "finish"
              /\ pc[p[1]] = "skip" => end[p[1]] # "errored"
              /\ \/ p[2] \in servers[p[1]]
                 \/ pc[p[1]] \in {"record", "poll"} /\ p[2] = at[p[1]]

\* What is left of a run that ended is about to be killed.
OrphanInv == ~ cut => \A p \in procs \cap pids : status[p[1]] \in Final => p \in orphans

\* How far the steps of a run are.
StepsFit(r) ==
    /\ status[r] = "none" => Places(r) = {}
    /\ status[r] \in Waits => \A i \in Places(r) : steps[r][i] = "pending"
    /\ pc[r] \in OnSteps \cup Leaving =>
          /\ \A i \in Places(r) : i < at[r] => steps[r][i] \notin Open
          /\ \A i \in Places(r) : i > at[r] => steps[r][i] = "pending"
    /\ pc[r] \in {"top"} \cup Leaving /\ at[r] \in Places(r) => steps[r][at[r]] = "pending"
    /\ pc[r] \in Carrying => at[r] \in Places(r) /\ steps[r][at[r]] = "running"
    /\ pc[r] \in Asking => at[r] \in Places(r) /\ steps[r][at[r]] \in {"waiting", "passed", "failed"}
    /\ pc[r] = "finish" /\ (end[r] # "errored" \/ refused # "ending") =>
          \A i \in Places(r) : steps[r][i] \notin Open

\* How its phases went so far.
PhasesFit(r) ==
    /\ pc[r] \in Leaving =>
          /\ \A i \in Places(r) : i < at[r] => i \in Body(r)
          /\ end[r] # "passed"
    /\ pc[r] \in OnSteps =>
          /\ end[r] # "passed" => at[r] \notin Body(r)
          /\ \A i \in Places(r) \ Body(r) : i < at[r] => steps[r][i] \in {"passed", "failed"}
          /\ end[r] = "passed" => \A i \in Body(r) : i < at[r] => steps[r][i] = "passed"
    /\ pc[r] \in OnSteps \cup Leaving /\ end[r] \notin {"passed", "errored"} =>
          \E i \in Body(r) : steps[r][i] # "passed"
    /\ pc[r] = "finish" /\ end[r] # "errored" =>
          /\ end[r] = "passed" => \A i \in Body(r) : steps[r][i] = "passed"
          /\ end[r] # "passed" => \E i \in Body(r) : steps[r][i] # "passed"
          /\ \A i \in Places(r) \ Body(r) : steps[r][i] \in {"passed", "failed"}
    /\ pc[r] = "mark" /\ at[r] \notin Body(r) => out[r] \in {"passed", "failed"}
    /\ pc[r] = "unask" => at[r] \in Body(r) /\ out[r] # "passed"

StepInv == \A r \in Runs : StepsFit(r) /\ PhasesFit(r)

\* Together they are inductive.
IInv ==
    /\ TypeOK /\ LetInv /\ ThreadInv /\ ProcInv /\ OrphanInv /\ StepInv /\ VerdictTrue
---------------------------------------------------------------------------
\* Steps as sequences.

\* A step of each of a test's places is a sequence of steps.
LEMMA SeqOfPlaces ==
    ASSUME NEW S, NEW T, NEW s \in Seq(S), NEW t \in [DOMAIN s -> T]
    PROVE  t \in Seq(T) /\ DOMAIN t = DOMAIN s
  OBVIOUS

\* Rewriting the steps of one run leaves the other runs.
LEMMA RewrittenSteps ==
    ASSUME NEW r \in Runs, steps \in [Runs -> Seq(StepStatuses)],
           NEW t \in [Places(r) -> StepStatuses],
           steps' = [steps EXCEPT ![r] = t]
    PROVE  /\ steps' \in [Runs -> Seq(StepStatuses)]
           /\ \A q \in Runs : DOMAIN steps'[q] = DOMAIN steps[q]
           /\ \A q \in Runs : steps'[q] = IF q = r THEN t ELSE steps[q]
  BY SeqOfPlaces DEF Places

\* Moving one step leaves the others too.
LEMMA MovedStep ==
    ASSUME NEW r \in Runs, steps \in [Runs -> Seq(StepStatuses)],
           NEW i, NEW s \in StepStatuses, To(r, i, s)
    PROVE  /\ steps' \in [Runs -> Seq(StepStatuses)]
           /\ \A q \in Runs : DOMAIN steps'[q] = DOMAIN steps[q]
           /\ \A q \in Runs : \A j \in DOMAIN steps[q] :
                 steps'[q][j] = IF q = r /\ j = i THEN s ELSE steps[q][j]
<1>. DEFINE t == [steps[r] EXCEPT ![i] = s]
<1>0. steps[r] \in [Places(r) -> StepStatuses]
  BY DEF Places
<1>1. t \in [Places(r) -> StepStatuses] /\ \A j \in Places(r) : t[j] = IF j = i THEN s ELSE steps[r][j]
  BY <1>0
<1>2. steps' = [steps EXCEPT ![r] = t]
  BY DEF To
<1>. HIDE DEF t
<1>. QED
  BY <1>1, <1>2, RewrittenSteps DEF Places

\* Giving a run up leaves a step of each place.
LEMMA GivenUpType ==
    ASSUME NEW r \in Runs, steps \in [Runs -> Seq(StepStatuses)]
    PROVE  /\ GivenUp(r) \in [Places(r) -> StepStatuses \ Open]
           /\ \A i \in Places(r) :
                 /\ steps[r][i] \notin Open => GivenUp(r)[i] = steps[r][i]
                 /\ GivenUp(r)[i] = "passed" => steps[r][i] = "passed"
<1>1. \A i \in Places(r) : steps[r][i] \in StepStatuses
  BY DEF Places
<1>2. \A i \in Places(r) : GivenUp(r)[i] =
         IF steps[r][i] \in {"running", "waiting"} THEN "failed"
         ELSE IF steps[r][i] = "pending" THEN "skipped" ELSE steps[r][i]
  BY Zenon DEF GivenUp
<1>3. GivenUp(r) = [i \in Places(r) |-> GivenUp(r)[i]]
  BY Zenon DEF GivenUp
<1>4. \A i \in Places(r) : GivenUp(r)[i] \in StepStatuses \ Open
  BY <1>1, <1>2 DEF StepStatuses, Open
<1>. QED
  BY <1>1, <1>2, <1>3, <1>4 DEF Open
---------------------------------------------------------------------------
\* Types.  No step but asking for a run and pruning one changes which steps it has.

Live == Active \cup Final

RowTypes ==
    /\ status \in [Runs -> {"none", "gone"} \cup Live]
    /\ version \in [Runs -> Versions \cup {NoVersion}]
    /\ steps \in [Runs -> Seq(StepStatuses)]
    /\ \A r \in Runs : status[r] \notin {"none", "gone"} =>
          version[r] \in Versions /\ DOMAIN steps[r] = DOMAIN Def(r)
    /\ cancel \in [Runs -> BOOLEAN]

ThreadTypes ==
    /\ pc \in [Runs -> Going \cup {"none", "begin", "over"}]
    /\ at \in [Runs -> Nat \ {0}]
    /\ end \in [Runs -> Stops \cup {"passed", "failed", "errored"}]
    /\ out \in [Runs -> Stops \cup {"passed", "failed"}]
    /\ servers \in [Runs -> SUBSET (Nat \ {0})]
    /\ overdue \subseteq Runs

OtherTypes ==
    /\ approvals \subseteq Versions /\ every \in BOOLEAN
    /\ shown \in [Runs -> Versions \cup {NoVersion}]
    /\ app \in BOOLEAN /\ recovered \in BOOLEAN
    /\ orphans \subseteq Runs \X (Nat \ {0})
    /\ file \in Versions /\ place \in BOOLEAN
    /\ procs \subseteq Runs \X (Nat \ {0}) /\ pids \subseteq Runs \X (Nat \ {0})
    /\ agreed \subseteq Versions /\ owed \subseteq Runs /\ cut \in BOOLEAN
    /\ refused \in {"no", "step", "ending"}

\* The type invariant is that of the rows, of the threads and of the rest.
LEMMA TypeParts == TypeOK <=> RowTypes /\ ThreadTypes /\ OtherTypes
  BY DEF TypeOK, RowTypes, ThreadTypes, OtherTypes, Going, OnSteps, Carrying, Asking, Leaving, Live

\* No run has begun at first.
LEMMA TypeInit == SmokeAssumption /\ Init => TypeOK
<1>. SUFFICES ASSUME SmokeAssumption, Init PROVE RowTypes /\ ThreadTypes /\ OtherTypes
  BY TypeParts
<1>1. RowTypes
  BY DEF Init, RowTypes, Active, Final
<1>2. ThreadTypes
  BY DEF Init, ThreadTypes, Stops
<1>3. OtherTypes
  BY DEF Init, OtherTypes
<1>. QED
  BY <1>1, <1>2, <1>3

\* Steps move, and none is lost or added.
Shaped ==
    /\ steps' \in [Runs -> Seq(StepStatuses)]
    /\ \A q \in Runs : DOMAIN steps'[q] = DOMAIN steps[q]

\* Whatever a thread does, its run keeps a step of each place.
LEMMA ThreadShape ==
    ASSUME TypeOK, NEW r \in Runs, ThreadStep(r) \/ Refused(r)
    PROVE  Shaped
<1>. USE DEF Shaped
<1>0. RowTypes /\ ThreadTypes
  BY TypeParts
<1>1. CASE UNCHANGED steps
  BY <1>0, <1>1 DEF RowTypes
<1>2. ASSUME NEW i, NEW s \in StepStatuses, To(r, i, s) PROVE Shaped
  BY <1>0, <1>2, MovedStep DEF RowTypes
<1>3. ASSUME NEW t \in [Places(r) -> StepStatuses], steps' = [steps EXCEPT ![r] = t] PROVE Shaped
  BY <1>0, <1>3, RewrittenSteps DEF RowTypes
<1>4. CASE NoteServer(r)
  BY <1>1, <1>2, <1>4 DEF NoteServer, StepStatuses
<1>5. CASE SkipRest(r)
  <2>. DEFINE left == IF end[r] = "cancelled" THEN "cancelled" ELSE "skipped"
              t == [i \in Places(r) |->
                      IF steps[r][i] = "pending" /\ (i \in Body(r) \/ end[r] = "errored") THEN left ELSE steps[r][i]]
  <2>1. \A i \in Places(r) : steps[r][i] \in StepStatuses
    BY <1>0 DEF RowTypes, Places
  <2>2. t \in [Places(r) -> StepStatuses]
    BY <2>1 DEF StepStatuses
  <2>3. steps' = [steps EXCEPT ![r] = t]
    BY <1>5 DEF SkipRest
  <2>. QED
    BY <1>3, <2>2, <2>3
<1>6. CASE StartStep(r)
  BY <1>1, <1>2, <1>6 DEF StartStep, StepStatuses, Open
<1>7. CASE MarkStep(r)
  BY <1>1, <1>2, <1>7 DEF MarkStep, StepStatuses
<1>8. CASE StopWaiting(r)
  BY <1>1, <1>2, <1>8 DEF StopWaiting, StepStatuses
<1>9. CASE Drop(r)
  BY <1>0, <1>1, <1>3, <1>9, GivenUpType DEF Drop, RowTypes
<1>. QED
  BY <1>1, <1>4, <1>5, <1>6, <1>7, <1>8, <1>9 DEF ThreadStep, Begin, StopBefore, SpawnProcess,
     RecordPid, PollProcess, HearAnswer, Clear, Finish, Refused

---------------------------------------------------------------------------
\* Setup and steps come before the teardown.

\* A set of natural numbers that is not empty has a smallest.
LEMMA Smallest ==
    ASSUME NEW S \in SUBSET Nat, S # {}
    PROVE  \E m \in S : \A n \in S : m <= n
<1>. DEFINE R == OpToRel(<, Nat)
<1>1. PICK m \in S : \A n \in S : ~ (<<n, m>> \in R)
  <2>1. IsWellFoundedOn(R, Nat)
    BY NatLessThanWellFounded
  <2>. HIDE DEF R
  <2>. QED
    BY <2>1, WFMin
<1>2. \A a, b \in Nat : <<a, b>> \in R <=> a < b
  BY DEF OpToRel
<1>. HIDE DEF R
<1>3. \A n \in S : ~ (n < m)
  BY <1>1, <1>2
<1>. QED
  BY <1>3

\* The steps of setup and steps are the first ones of a test.
LEMMA BodyFirst ==
    ASSUME SmokeAssumption, RowTypes, NEW r \in Runs, status[r] \in Live
    PROVE  \E n \in Nat : Body(r) = 1 .. n /\ n <= Len(steps[r])
<1>. DEFINE L == Len(steps[r])
            T == {i \in 1 .. L : Phase(r, i) = "teardown"} \cup {L + 1}
<1>1. /\ L \in Nat /\ Places(r) = 1 .. L
      /\ version[r] \in Versions /\ DOMAIN Tests[version[r]] = 1 .. L
  BY DEF RowTypes, Places, Def, Live, Active, Final
<1>2. PICK m \in T : \A n \in T : m <= n
  <2>. T \in SUBSET Nat /\ T # {}
    BY <1>1
  <2>. HIDE DEF T
  <2>. QED
    BY Smallest
<1>3. m \in 1 .. L + 1
  BY <1>1
<1>4. \A i \in 1 .. L : i < m => Phase(r, i) # "teardown"
  BY <1>1, <1>2, <1>3
<1>5. \A i \in 1 .. L : i >= m => Phase(r, i) = "teardown"
  <2>1. SUFFICES ASSUME NEW i \in 1 .. L, i >= m, Phase(r, i) # "teardown" PROVE FALSE
    OBVIOUS
  <2>2. m # L + 1 /\ m \in 1 .. L /\ Phase(r, m) = "teardown"
    BY <1>1, <1>3, <2>1
  <2>3. Tests[version[r]][i] \in StepDefs
    <3>1. Tests[version[r]] \in Seq(StepDefs)
      BY <1>1 DEF SmokeAssumption
    <3>. QED
      BY <1>1, <3>1
  <2>4. Phase(r, i) \in Phases
    BY <2>3 DEF StepDefs, Phase, Def
  <2>5. Before(Phase(r, i), Phase(r, m))
    BY <2>1, <2>2, <2>4 DEF Before, Phases
  <2>6. i < m
    BY <1>1, <2>2, <2>5 DEF SmokeAssumption, Phase, Def
  <2>. QED
    BY <1>1, <1>3, <2>1, <2>6
<1>6. Body(r) = 1 .. m - 1
  <2>1. \A i : i \in Body(r) <=> i \in 1 .. L /\ Phase(r, i) # "teardown"
    BY <1>1 DEF Body
  <2>2. \A i : i \in 1 .. m - 1 <=> i \in 1 .. L /\ i < m
    BY <1>1, <1>3
  <2>3. \A i : i \in Body(r) <=> i \in 1 .. m - 1
    BY <1>1, <1>3, <1>4, <1>5, <2>1, <2>2
  <2>. QED
    BY <2>3
<1>. QED
  BY <1>1, <1>3, <1>6

\* A step that is not one of teardown is at most how many setup and steps have.
LEMMA BodyCount ==
    ASSUME RowTypes, NEW r \in Runs
    PROVE  /\ Cardinality(Body(r)) \in Nat
           /\ \A n \in Nat : Body(r) = 1 .. n => Cardinality(Body(r)) = n
<1>1. Len(steps[r]) \in Nat /\ Places(r) = 1 .. Len(steps[r])
  BY DEF RowTypes, Places
<1>2. IsFiniteSet(1 .. Len(steps[r])) /\ Body(r) \in SUBSET (1 .. Len(steps[r]))
  BY <1>1, FS_Interval DEF Body
<1>3. IsFiniteSet(Body(r))
  BY <1>2, FS_Subset
<1>4. ASSUME NEW n \in Nat, Body(r) = 1 .. n PROVE Cardinality(Body(r)) = n
  <2>1. Cardinality(1 .. n) = IF 1 > n THEN 0 ELSE n - 1 + 1
    BY FS_Interval
  <2>. QED
    BY <1>4, <2>1
<1>. QED
  BY <1>3, <1>4, FS_CardinalityType

\* The rows fit, if no run comes or goes.
LEMMA RowTypesKept ==
    ASSUME RowTypes, Shaped, UNCHANGED version,
           status' \in [Runs -> {"none", "gone"} \cup Live], cancel' \in [Runs -> BOOLEAN],
           \A q \in Runs : status'[q] \in Live => status[q] \in Live
    PROVE  RowTypes'
<1>1. \A q \in Runs : status'[q] \notin {"none", "gone"} =>
         version'[q] \in Versions /\ DOMAIN steps'[q] = DOMAIN Tests[version'[q]]
  BY DEF RowTypes, Shaped, Def, Live, Active, Final
<1>. QED
  BY <1>1 DEF RowTypes, Shaped, Def

\* A run that is asked for fits, and its steps wait.
LEMMA QueuedTypes ==
    ASSUME SmokeAssumption, RowTypes, file \in Versions, UNCHANGED cancel,
           NEW r \in Runs, NEW s \in Active, Queued(r, s)
    PROVE  RowTypes'
<1>. DEFINE t == [i \in DOMAIN Tests[file] |-> "pending"]
<1>1. t \in Seq(StepStatuses) /\ DOMAIN t = DOMAIN Tests[file]
  <2>1. Tests[file] \in Seq(StepDefs)
    BY DEF SmokeAssumption
  <2>2. t \in [DOMAIN Tests[file] -> StepStatuses]
    BY DEF StepStatuses, Open
  <2>. QED
    BY <2>1, <2>2, SeqOfPlaces
<1>2. steps' = [steps EXCEPT ![r] = t]
  BY DEF Queued
<1>. HIDE DEF t
<1>3. /\ status' \in [Runs -> {"none", "gone"} \cup Live]
      /\ version' \in [Runs -> Versions \cup {NoVersion}]
      /\ steps' \in [Runs -> Seq(StepStatuses)]
      /\ cancel' \in [Runs -> BOOLEAN]
  BY <1>1, <1>2 DEF Queued, Becomes, RowTypes, Live
<1>4. ASSUME NEW q \in Runs, status'[q] \notin {"none", "gone"}
      PROVE  version'[q] \in Versions /\ DOMAIN steps'[q] = DOMAIN Tests[version'[q]]
  <2>1. CASE q = r
    BY <1>1, <1>2, <2>1 DEF Queued, RowTypes
  <2>2. CASE q # r
    BY <1>2, <1>4, <2>2 DEF Queued, Becomes, RowTypes, Def
  <2>. QED
    BY <2>1, <2>2
<1>. QED
  BY <1>3, <1>4 DEF RowTypes, Def

\* Every step keeps the rows what they are.
LEMMA RowTypesStep ==
    ASSUME SmokeAssumption, TypeOK, [Next]_vars
    PROVE  RowTypes'
<1>. USE DEF vars, rows, Becomes, Live
<1>0. RowTypes /\ file \in Versions
  BY TypeParts DEF OtherTypes
<1>1. CASE UNCHANGED rows
  BY <1>0, <1>1 DEF RowTypes, Def
<1>2. ASSUME NEW r \in Runs, Queue(r) \/ QueueUnattended(r) \/ \E v \in Versions : QueueSeen(r, v)
      PROVE  RowTypes'
  <2>1. UNCHANGED cancel /\ \E s \in Active : Queued(r, s)
    BY <1>2 DEF Queue, QueueUnattended, QueueSeen, Active
  <2>. QED
    BY <1>0, <2>1, QueuedTypes
<1>3. ASSUME NEW r \in Runs, Seen(r) \/ Approve(r)
      PROVE  RowTypes'
  <2>1. Shaped /\ UNCHANGED <<version, cancel>>
    BY <1>0, <1>3 DEF Seen, Approve, Shaped, RowTypes
  <2>2. /\ status' \in [Runs -> {"none", "gone"} \cup Live]
        /\ \A q \in Runs : status'[q] \in Live => status[q] \in Live
    BY <1>0, <1>3 DEF Seen, Approve, ApproveRun, RowTypes, Active, Final
  <2>. QED
    BY <1>0, <2>1, <2>2, RowTypesKept DEF RowTypes
<1>4. ASSUME NEW r \in Runs, Refuse(r) \/ CancelRun(r)
      PROVE  RowTypes'
  <2>1. ASSUME NEW s \in {"skipped", "cancelled"}, steps' = [steps EXCEPT ![r] = [i \in Places(r) |-> s]]
        PROVE  Shaped
    <3>1. [i \in Places(r) |-> s] \in [Places(r) -> StepStatuses]
      BY DEF StepStatuses
    <3>. QED
      BY <1>0, <2>1, <3>1, RewrittenSteps DEF Shaped, RowTypes
  <2>2. Shaped
    <3>1. CASE UNCHANGED steps
      BY <1>0, <3>1 DEF Shaped, RowTypes
    <3>. QED
      BY <1>4, <2>1, <3>1 DEF Refuse, CancelRun
  <2>3. /\ status' \in [Runs -> {"none", "gone"} \cup Live]
        /\ \A q \in Runs : status'[q] \in Live => status[q] \in Live
    BY <1>0, <1>4 DEF Refuse, CancelRun, RowTypes, Active, Final
  <2>4. UNCHANGED version /\ cancel' \in [Runs -> BOOLEAN]
    BY <1>0, <1>4 DEF Refuse, CancelRun, RowTypes
  <2>. QED
    BY <1>0, <2>2, <2>3, <2>4, RowTypesKept
<1>5. ASSUME NEW r \in Runs, NEW i \in Places(r), AnswerStep(r, i)
      PROVE  RowTypes'
  <2>1. Shaped
    BY <1>0, <1>5, MovedStep DEF AnswerStep, To, Shaped, RowTypes, StepStatuses
  <2>2. UNCHANGED <<status, version, cancel>>
    BY <1>5 DEF AnswerStep
  <2>. QED
    BY <1>0, <2>1, <2>2, RowTypesKept DEF RowTypes
<1>6. CASE Recover
  <2>1. Shaped
    <3>1. CASE UNCHANGED steps
      BY <1>0, <3>1 DEF Shaped, RowTypes
    <3>2. CASE steps' = [r \in Runs |-> IF r \in {q \in Runs : status[q] = "running"} THEN GivenUp(r) ELSE steps[r]]
      <4>1. \A r \in Runs : GivenUp(r) \in [Places(r) -> StepStatuses]
        BY <1>0, GivenUpType DEF RowTypes
      <4>2. \A r \in Runs : GivenUp(r) \in Seq(StepStatuses) /\ DOMAIN GivenUp(r) = DOMAIN steps[r]
        BY <1>0, <4>1, SeqOfPlaces DEF RowTypes, Places
      <4>. QED
        BY <1>0, <3>2, <4>2 DEF Shaped, RowTypes
    <3>. QED
      BY <1>6, <3>1, <3>2 DEF Recover
  <2>2. /\ status' \in [Runs -> {"none", "gone"} \cup Live]
        /\ \A q \in Runs : status'[q] \in Live => status[q] \in Live
    BY <1>0, <1>6 DEF Recover, RowTypes, Active, Final
  <2>3. UNCHANGED <<version, cancel>>
    BY <1>6 DEF Recover
  <2>. QED
    BY <1>0, <2>1, <2>2, <2>3, RowTypesKept DEF RowTypes
<1>7. ASSUME NEW r \in Runs, Prune(r)
      PROVE  RowTypes'
  BY <1>0, <1>7 DEF Prune, RowTypes, Def
<1>8. ASSUME NEW r \in Runs, ThreadStep(r) \/ Refused(r)
      PROVE  RowTypes'
  <2>1. UNCHANGED <<version, cancel>>
    BY <1>8 DEF ThreadStep, Begin, StopBefore, NoteServer, SkipRest, StartStep, SpawnProcess,
       RecordPid, PollProcess, MarkStep, HearAnswer, StopWaiting, Clear, Finish, Drop, Refused, OffThread
  <2>2. /\ status' \in [Runs -> {"none", "gone"} \cup Live]
        /\ \A q \in Runs : status'[q] \in Live => status[q] \in Live
    <3>1. CASE UNCHANGED status
      BY <1>0, <3>1 DEF RowTypes
    <3>2. CASE Begin(r)
      BY <1>0, <3>2 DEF Begin, RowTypes, Active, Final
    <3>3. CASE Finish(r) /\ ~ UNCHANGED status
      <4>1. Verdict(end[r]) \in Final /\ status[r] = "running" /\ Becomes(r, Verdict(end[r]))
        BY <3>3, TypeParts DEF Finish, Verdict, ThreadTypes, Stops, Final
      <4>. HIDE DEF Becomes
      <4>. QED
        BY <1>0, <4>1 DEF Becomes, RowTypes, Active
    <3>. QED
      BY <1>8, <3>1, <3>2, <3>3 DEF ThreadStep, StopBefore, NoteServer, SkipRest, StartStep,
         SpawnProcess, RecordPid, PollProcess, MarkStep, HearAnswer, StopWaiting, Clear, Drop, Refused
  <2>. QED
    BY <1>0, <1>8, <2>1, <2>2, ThreadShape, RowTypesKept DEF RowTypes
<1>. QED
  BY <1>1, <1>2, <1>3, <1>4, <1>5, <1>6, <1>7, <1>8
     DEF Next, People, Driver, World, ApproveSeen, KillOrphan, SpawnThread, Reap, Edit, AskEveryTime,
         LosePlace, Stop, StartAgain, Dies, RunOut

\* What a look for a reason to stop may come to.
LEMMA FoundTypes ==
    ASSUME NEW r \in Runs
    PROVE  /\ MayFind(r) \subseteq Stops \cup {"nothing"} /\ MayStop(r) \subseteq Stops
           /\ Phase(r, at[r]) = "teardown" => MayFind(r) = {"nothing"} /\ MayStop(r) = {}
<1>1. \A asks \in BOOLEAN : Found(r, asks) \in Stops \cup {"nothing"}
  BY Zenon DEF Found, Stops
<1>2. Phase(r, at[r]) = "teardown" => \A asks \in BOOLEAN : Found(r, asks) = "nothing"
  BY Zenon DEF Found
<1>3. \A asks \in IF AtFirst(r) THEN {TRUE} ELSE BOOLEAN : asks \in BOOLEAN
  OBVIOUS
<1>4. MayFind(r) \subseteq {Found(r, asks) : asks \in BOOLEAN} /\ MayFind(r) # {}
  BY <1>3 DEF MayFind
<1>. QED
  BY <1>1, <1>2, <1>4 DEF MayStop

\* A thread that goes on is at a place, or past the last.
LEMMA OnwardTypes ==
    ASSUME ThreadTypes, NEW r \in Runs, NEW o \in Stops \cup {"passed", "failed"}, Onward(r, o)
    PROVE  /\ pc' \in [Runs -> Going \cup {"none", "begin", "over"}]
           /\ at' \in [Runs -> Nat \ {0}]
           /\ end' \in [Runs -> Stops \cup {"passed", "failed", "errored"}]
<1>1. pc' \in [Runs -> Going \cup {"none", "begin", "over"}]
  BY DEF ThreadTypes, Onward, Goto, Going, OnSteps, Leaving
<1>2. at[r] + 1 \in Nat \ {0}
  BY DEF ThreadTypes
<1>3. at' = [at EXCEPT ![r] = at[r] + 1]
  BY DEF Onward
<1>4. at' \in [Runs -> Nat \ {0}]
  BY <1>2, <1>3 DEF ThreadTypes
<1>5. end' \in [Runs -> Stops \cup {"passed", "failed", "errored"}]
  BY DEF ThreadTypes, Onward
<1>. QED
  BY <1>1, <1>4, <1>5

\* Every step keeps the threads what they are.
LEMMA ThreadTypesStep ==
    ASSUME TypeOK, [Next]_vars
    PROVE  ThreadTypes'
<1>. USE DEF vars, thread, OffThread, Goto, Stops, Going, OnSteps, Carrying, Asking, Leaving
<1>0. ThreadTypes /\ RowTypes
  BY TypeParts
<1>a. 1 \in Nat \ {0} /\ \A n \in Nat : n + 1 \in Nat \ {0}
  OBVIOUS
<1>b. \A r \in Runs : at[r] \in Nat
  BY <1>0 DEF ThreadTypes
<1>1. CASE UNCHANGED thread
  BY <1>0, <1>1 DEF ThreadTypes
<1>2. ASSUME NEW r \in Runs, SpawnThread(r) \/ RunOut(r) \/ Begin(r) \/ NoteServer(r) \/ StartStep(r)
                             \/ RecordPid(r) \/ Finish(r)
      PROVE  ThreadTypes'
  BY <1>0, <1>2 DEF ThreadTypes, SpawnThread, RunOut, Begin, NoteServer, StartStep, RecordPid, Finish
<1>3. ASSUME NEW r \in Runs, Reap(r)
      PROVE  ThreadTypes'
  <2>1. pc' \in [Runs -> Going \cup {"none", "begin", "over"}]
    BY <1>0, <1>3 DEF ThreadTypes, Reap
  <2>2. at' \in [Runs -> Nat \ {0}]
    BY <1>0, <1>a, <1>b, <1>3 DEF ThreadTypes, Reap
  <2>3. end' \in [Runs -> Stops \cup {"passed", "failed", "errored"}]
    BY <1>0, <1>3 DEF ThreadTypes, Reap
  <2>4. out' \in [Runs -> Stops \cup {"passed", "failed"}]
    BY <1>0, <1>3 DEF ThreadTypes, Reap
  <2>5. servers' \in [Runs -> SUBSET (Nat \ {0})]
    BY <1>0, <1>3 DEF ThreadTypes, Reap
  <2>6. overdue' \subseteq Runs
    BY <1>0, <1>3 DEF ThreadTypes, Reap
  <2>. QED
    BY <2>1, <2>2, <2>3, <2>4, <2>5, <2>6 DEF ThreadTypes
<1>4. ASSUME NEW r \in Runs, StopBefore(r)
      PROVE  ThreadTypes'
  <2>1. pc' \in [Runs -> Going \cup {"none", "begin", "over"}]
    BY <1>0, <1>4, FoundTypes DEF ThreadTypes, StopBefore
  <2>2. at' \in [Runs -> Nat \ {0}]
    BY <1>0, <1>a, <1>b, <1>4, FoundTypes DEF ThreadTypes, StopBefore
  <2>3. end' \in [Runs -> Stops \cup {"passed", "failed", "errored"}]
    BY <1>0, <1>4, FoundTypes DEF ThreadTypes, StopBefore
  <2>4. out' \in [Runs -> Stops \cup {"passed", "failed"}]
    BY <1>0, <1>4, FoundTypes DEF ThreadTypes, StopBefore
  <2>5. servers' \in [Runs -> SUBSET (Nat \ {0})]
    BY <1>0, <1>4, FoundTypes DEF ThreadTypes, StopBefore
  <2>6. overdue' \subseteq Runs
    BY <1>0, <1>4 DEF ThreadTypes, StopBefore
  <2>. QED
    BY <2>1, <2>2, <2>3, <2>4, <2>5, <2>6 DEF ThreadTypes
<1>5. ASSUME NEW r \in Runs, SkipRest(r)
      PROVE  ThreadTypes'
  <2>1. pc' \in [Runs -> Going \cup {"none", "begin", "over"}]
    BY <1>0, <1>5 DEF ThreadTypes, SkipRest
  <2>2. at' \in [Runs -> Nat \ {0}]
    BY <1>0, <1>a, <1>5, BodyCount DEF ThreadTypes, SkipRest
  <2>3. end' \in [Runs -> Stops \cup {"passed", "failed", "errored"}]
    BY <1>0, <1>5 DEF ThreadTypes, SkipRest
  <2>4. out' \in [Runs -> Stops \cup {"passed", "failed"}]
    BY <1>0, <1>5 DEF ThreadTypes, SkipRest
  <2>5. servers' \in [Runs -> SUBSET (Nat \ {0})]
    BY <1>0, <1>5 DEF ThreadTypes, SkipRest
  <2>6. overdue' \subseteq Runs
    BY <1>0, <1>5 DEF ThreadTypes, SkipRest
  <2>. QED
    BY <2>1, <2>2, <2>3, <2>4, <2>5, <2>6 DEF ThreadTypes
<1>6. ASSUME NEW r \in Runs, SpawnProcess(r)
      PROVE  ThreadTypes'
  <2>1. pc' \in [Runs -> Going \cup {"none", "begin", "over"}]
    BY <1>0, <1>6 DEF ThreadTypes, SpawnProcess
  <2>2. at' \in [Runs -> Nat \ {0}]
    BY <1>0, <1>a, <1>b, <1>6 DEF ThreadTypes, SpawnProcess
  <2>3. end' \in [Runs -> Stops \cup {"passed", "failed", "errored"}]
    BY <1>0, <1>6 DEF ThreadTypes, SpawnProcess
  <2>4. out' \in [Runs -> Stops \cup {"passed", "failed"}]
    BY <1>0, <1>6 DEF ThreadTypes, SpawnProcess
  <2>5. servers' \in [Runs -> SUBSET (Nat \ {0})]
    <3>1. servers[r] \cup {at[r]} \in SUBSET (Nat \ {0})
      BY <1>0 DEF ThreadTypes
    <3>2. \E t \in {servers[r], servers[r] \cup {at[r]}} : servers' = [servers EXCEPT ![r] = t]
      BY <1>0, <1>6 DEF ThreadTypes, SpawnProcess
    <3>. QED
      BY <1>0, <3>1, <3>2 DEF ThreadTypes
  <2>6. overdue' \subseteq Runs
    BY <1>0, <1>6 DEF ThreadTypes, SpawnProcess
  <2>. QED
    BY <2>1, <2>2, <2>3, <2>4, <2>5, <2>6 DEF ThreadTypes
<1>7. ASSUME NEW r \in Runs, PollProcess(r)
      PROVE  ThreadTypes'
  BY <1>0, <1>7, FoundTypes DEF ThreadTypes, PollProcess
<1>8. ASSUME NEW r \in Runs, MarkStep(r) \/ StopWaiting(r)
      PROVE  ThreadTypes'
  <2>1. out[r] \in Stops \cup {"passed", "failed"}
    BY <1>0 DEF ThreadTypes
  <2>2. Onward(r, out[r]) \/ (Goto(r, "drop") /\ UNCHANGED <<at, end>>)
    BY <1>8 DEF MarkStep, StopWaiting
  <2>3. /\ pc' \in [Runs -> Going \cup {"none", "begin", "over"}]
        /\ at' \in [Runs -> Nat \ {0}]
        /\ end' \in [Runs -> Stops \cup {"passed", "failed", "errored"}]
    <3>1. CASE Goto(r, "drop") /\ UNCHANGED <<at, end>>
      BY <1>0, <3>1 DEF ThreadTypes
    <3>2. CASE Goto(r, "unask") /\ UNCHANGED <<at, end>>
      BY <1>0, <3>2 DEF ThreadTypes
    <3>. QED
      BY <1>0, <2>1, <2>2, <3>1, <3>2, OnwardTypes
  <2>4. out' \in [Runs -> Stops \cup {"passed", "failed"}]
    BY <1>0, <1>8 DEF ThreadTypes, MarkStep, StopWaiting, Forget, Onward
  <2>5. servers' \in [Runs -> SUBSET (Nat \ {0})]
    BY <1>0, <1>8 DEF ThreadTypes, MarkStep, StopWaiting, Forget, Onward
  <2>6. overdue' \subseteq Runs
    BY <1>0, <1>8 DEF ThreadTypes, MarkStep, StopWaiting, Forget, Onward
  <2>. QED
    BY <2>3, <2>4, <2>5, <2>6 DEF ThreadTypes
<1>9. ASSUME NEW r \in Runs, HearAnswer(r)
      PROVE  ThreadTypes'
  <2>1. \/ \E o \in {"passed", "failed"} : Onward(r, o)
        \/ Goto(r, "unask") /\ UNCHANGED <<at, end>>
    BY <1>9 DEF HearAnswer
  <2>2. \A o \in {"passed", "failed"} : o \in Stops \cup {"passed", "failed"}
    OBVIOUS
  <2>3. /\ pc' \in [Runs -> Going \cup {"none", "begin", "over"}]
        /\ at' \in [Runs -> Nat \ {0}]
        /\ end' \in [Runs -> Stops \cup {"passed", "failed", "errored"}]
    <3>1. CASE Goto(r, "drop") /\ UNCHANGED <<at, end>>
      BY <1>0, <3>1 DEF ThreadTypes
    <3>2. CASE Goto(r, "unask") /\ UNCHANGED <<at, end>>
      BY <1>0, <3>2 DEF ThreadTypes
    <3>. QED
      BY <1>0, <2>1, <2>2, <3>1, <3>2, OnwardTypes
  <2>4. out' \in [Runs -> Stops \cup {"passed", "failed"}]
    BY <1>0, <1>9, FoundTypes DEF ThreadTypes, HearAnswer, Onward
  <2>5. servers' \in [Runs -> SUBSET (Nat \ {0})]
    BY <1>0, <1>9, FoundTypes DEF ThreadTypes, HearAnswer, Onward
  <2>6. overdue' \subseteq Runs
    BY <1>0, <1>9 DEF ThreadTypes, HearAnswer, Onward
  <2>. QED
    BY <2>3, <2>4, <2>5, <2>6 DEF ThreadTypes
<1>10. ASSUME NEW r \in Runs, Clear(r) \/ Drop(r) \/ Refused(r)
      PROVE  ThreadTypes'
  BY <1>0, <1>10 DEF ThreadTypes, Clear, Drop, Refused, StopServers
<1>11. CASE Stop
  <2>1. pc' \in [Runs -> Going \cup {"none", "begin", "over"}]
    BY <1>0, <1>11 DEF ThreadTypes, Stop
  <2>2. at' \in [Runs -> Nat \ {0}]
    BY <1>0, <1>a, <1>b, <1>11 DEF ThreadTypes, Stop
  <2>3. end' \in [Runs -> Stops \cup {"passed", "failed", "errored"}]
    BY <1>0, <1>11 DEF ThreadTypes, Stop
  <2>4. out' \in [Runs -> Stops \cup {"passed", "failed"}]
    BY <1>0, <1>11 DEF ThreadTypes, Stop
  <2>5. servers' \in [Runs -> SUBSET (Nat \ {0})]
    BY <1>0, <1>11 DEF ThreadTypes, Stop
  <2>6. overdue' \subseteq Runs
    BY <1>0, <1>11 DEF ThreadTypes, Stop
  <2>. QED
    BY <2>1, <2>2, <2>3, <2>4, <2>5, <2>6 DEF ThreadTypes
<1>. QED
  BY <1>1, <1>2, <1>3, <1>4, <1>5, <1>6, <1>7, <1>8, <1>9, <1>10, <1>11
     DEF Next, People, Driver, World, ThreadStep, Queue, QueueSeen, QueueUnattended, Seen, Approve,
         ApproveSeen, Refuse, CancelRun, AnswerStep, Recover, KillOrphan, Prune, Edit, AskEveryTime,
         LosePlace, StartAgain, Dies

\* Every step keeps the rest what it is.
LEMMA OtherTypesStep ==
    ASSUME SmokeAssumption, TypeOK, [Next]_vars
    PROVE  OtherTypes'
<1>. USE DEF vars, settings, driver, world, histories, OffThread, Owes
<1>0. OtherTypes /\ RowTypes /\ ThreadTypes
  BY TypeParts
<1>1. CASE UNCHANGED <<settings, shown, driver, world, pids, histories>>
  BY <1>0, <1>1 DEF OtherTypes
<1>2. ASSUME NEW r \in Runs, Queue(r) \/ QueueUnattended(r)
      PROVE  OtherTypes'
  BY <1>0, <1>2 DEF OtherTypes, Queue, QueueUnattended
<1>3. ASSUME NEW r \in Runs, NEW v \in Versions, QueueSeen(r, v)
      PROVE  OtherTypes'
  BY <1>0, <1>3 DEF OtherTypes, QueueSeen
<1>4. ASSUME NEW r \in Runs, Seen(r)
      PROVE  OtherTypes'
  BY <1>0, <1>4 DEF OtherTypes, RowTypes, Seen, ApproveRun, Active, Final, Live
<1>5. ASSUME NEW r \in Runs, Approve(r)
      PROVE  OtherTypes'
  <2>1. version[r] \in Versions
    BY <1>0, <1>5 DEF RowTypes, Approve, ApproveRun
  <2>. QED
    BY <1>0, <1>5, <2>1 DEF OtherTypes, Approve, ApproveRun
<1>6. ASSUME NEW v \in Versions, ApproveSeen(v)
      PROVE  OtherTypes'
  BY <1>0, <1>6 DEF OtherTypes, ApproveSeen
<1>7. CASE Recover \/ Stop \/ StartAgain
  BY <1>0, <1>7 DEF OtherTypes, Recover, Stop, StartAgain
<1>8. ASSUME NEW p, KillOrphan(p) \/ Dies(p)
      PROVE  OtherTypes'
  BY <1>0, <1>8 DEF OtherTypes, KillOrphan, Dies
<1>9. ASSUME NEW r \in Runs, Prune(r)
      PROVE  OtherTypes'
  BY <1>0, <1>9 DEF OtherTypes, Prune
<1>10. CASE Edit \/ AskEveryTime \/ LosePlace
  BY <1>0, <1>10 DEF OtherTypes, Edit, AskEveryTime, LosePlace
<1>11. ASSUME NEW r \in Runs, ThreadStep(r) \/ Refused(r)
      PROVE  OtherTypes'
  <2>. DEFINE here == {<<r, i>> : i \in servers[r] \cup {at[r]}}
  <2>1. here \subseteq Runs \X (Nat \ {0})
    BY <1>0 DEF ThreadTypes
  <2>2. procs' \subseteq procs \cup here /\ pids' \subseteq pids \cup here
    BY <1>11 DEF ThreadStep, Begin, StopBefore, NoteServer, SkipRest, StartStep, SpawnProcess,
       RecordPid, PollProcess, MarkStep, HearAnswer, StopWaiting, Clear, Finish, Drop, Refused, StopServers
  <2>3. refused' \in {refused, "step", "ending"}
    BY <1>11 DEF ThreadStep, Begin, StopBefore, NoteServer, SkipRest, StartStep, SpawnProcess,
       RecordPid, PollProcess, MarkStep, HearAnswer, StopWaiting, Clear, Finish, Drop, Refused
  <2>4. UNCHANGED <<settings, shown, driver, file, place, agreed, owed, cut>>
    BY <1>11 DEF ThreadStep, Begin, StopBefore, NoteServer, SkipRest, StartStep, SpawnProcess,
       RecordPid, PollProcess, MarkStep, HearAnswer, StopWaiting, Clear, Finish, Drop, Refused
  <2>. HIDE DEF here
  <2>. QED
    BY <1>0, <2>1, <2>2, <2>3, <2>4 DEF OtherTypes
<1>. QED
  BY <1>1, <1>2, <1>3, <1>4, <1>5, <1>6, <1>7, <1>8, <1>9, <1>10, <1>11
     DEF Next, People, Driver, World, Refuse, CancelRun, AnswerStep, SpawnThread, Reap, RunOut

\* Every step keeps the type invariant.
LEMMA TypeStep == SmokeAssumption /\ TypeOK /\ [Next]_vars => TypeOK'
<1>. SUFFICES ASSUME SmokeAssumption, TypeOK, [Next]_vars PROVE TypeOK'
  OBVIOUS
<1>1. RowTypes' /\ ThreadTypes' /\ OtherTypes'
  BY RowTypesStep, ThreadTypesStep, OtherTypesStep
<1>. QED
  BY <1>1, TypeParts, PTL

\* Every variable keeps its type.
THEOREM TypeCorrect == Spec => []TypeOK
  BY SmokeAssumption, TypeInit, TypeStep, PTL DEF Spec

---------------------------------------------------------------------------
\* What is carried out was agreed to.

LetOut == {"queued", "running", "passed", "failed", "errored"}

\* No run is let, and nothing is shown to anybody.
LEMMA LetQuiet ==
    ASSUME LetInv, UNCHANGED <<version, approvals, agreed, owed>>,
           \A q \in Runs : /\ status'[q] \in LetOut => status[q] \in LetOut
                           /\ status'[q] = "none" => status[q] = "none"
                           /\ shown'[q] \in {shown[q], NoVersion}
    PROVE  LetInv'
  BY DEF LetInv, OnlyAgreed, LetOut

\* A run is asked for, and it runs if its version was agreed to and nobody has to be asked.
LEMMA LetQueued ==
    ASSUME TypeOK, LetInv, UNCHANGED approvals, agreed \subseteq agreed',
           NEW r \in Runs,
           Queued(r, IF Approved(file) THEN "queued" ELSE "awaiting_approval"),
           owed' = owed \/ (every /\ owed' = owed \cup {r}),
           \A q \in Runs \ {r} : shown'[q] = shown[q],
           shown'[r] # NoVersion => shown'[r] \in agreed' /\ (shown'[r] = file => owed' = owed)
    PROVE  LetInv'
<1>1. r \notin owed /\ status[r] = "none"
  BY DEF LetInv, Queued
<1>2. \A q \in Runs \ {r} : status'[q] = status[q] /\ version'[q] = version[q] /\ (q \in owed' <=> q \in owed)
  BY DEF TypeOK, Queued, Becomes
<1>3. /\ version'[r] = file
      /\ status'[r] = IF Approved(file) THEN "queued" ELSE "awaiting_approval"
  BY DEF TypeOK, Queued, Becomes
<1>4. Approved(file) => file \in agreed' /\ r \notin owed'
  BY <1>1 DEF Approved, LetInv
<1>5. approvals' \subseteq agreed'
  BY DEF LetInv
<1>6. OnlyAgreed'
  <2>1. SUFFICES ASSUME NEW q \in Runs, status'[q] \in LetOut
                 PROVE  version'[q] \in agreed' /\ q \notin owed'
    BY DEF OnlyAgreed, LetOut
  <2>2. CASE q = r
    BY <1>3, <1>4, <2>1, <2>2 DEF LetOut
  <2>3. CASE q # r
    BY <1>2, <2>1, <2>3 DEF LetInv, OnlyAgreed, LetOut
  <2>. QED
    BY <2>2, <2>3
<1>7. ASSUME NEW q \in Runs
      PROVE  /\ shown'[q] # NoVersion => shown'[q] \in agreed'
             /\ shown'[q] # NoVersion /\ version'[q] = shown'[q] => q \notin owed'
             /\ status'[q] = "none" => shown'[q] = NoVersion /\ q \notin owed'
  <2>1. CASE q = r
    BY <1>1, <1>3, <2>1 DEF LetInv
  <2>2. CASE q # r
    BY <1>2, <2>2 DEF LetInv
  <2>. QED
    BY <2>1, <2>2
<1>. QED
  BY <1>5, <1>6, <1>7 DEF LetInv

\* Every step keeps that what may run was agreed to.
LEMMA LetStep == SmokeAssumption /\ TypeOK /\ LetInv /\ [Next]_vars => LetInv'
<1>. SUFFICES ASSUME SmokeAssumption, TypeOK, LetInv, [Next]_vars PROVE LetInv'
  OBVIOUS
<1>. USE DEF vars, rows, settings, driver, thread, world, histories, Becomes, LetOut
<1>1. ASSUME NEW r \in Runs, Queue(r)
      PROVE  LetInv'
  <2>1. shown[r] = NoVersion
    BY <1>1 DEF LetInv, Queue, Queued
  <2>. QED
    BY <1>1, <2>1, LetQueued DEF Queue, Owes
<1>2. ASSUME NEW r \in Runs, QueueUnattended(r)
      PROVE  LetInv'
  <2>1. shown[r] = NoVersion
    BY <1>2 DEF LetInv, QueueUnattended, Queued
  <2>. QED
    BY <1>2, <2>1, LetQueued DEF QueueUnattended, Owes
<1>3. ASSUME NEW r \in Runs, NEW v \in Versions, QueueSeen(r, v)
      PROVE  LetInv'
  <2>1. shown'[r] = v /\ \A q \in Runs \ {r} : shown'[q] = shown[q]
    BY <1>3 DEF QueueSeen, TypeOK
  <2>. QED
    BY <1>3, <2>1, LetQueued DEF QueueSeen, Owes
<1>4. ASSUME NEW r \in Runs, Seen(r)
      PROVE  LetInv'
  <2>1. UNCHANGED <<version, agreed, owed>> /\ shown' = [shown EXCEPT ![r] = NoVersion]
    BY <1>4 DEF Seen
  <2>2. CASE UNCHANGED <<status, approvals>>
    BY <2>1, <2>2, LetQuiet DEF TypeOK
  <2>3. CASE ApproveRun(r) /\ version[r] = shown[r]
    <3>1. version[r] \in agreed /\ r \notin owed
      BY <1>4, <2>3 DEF Seen, LetInv
    <3>2. \A q \in Runs : /\ status'[q] = IF q = r THEN "queued" ELSE status[q]
                          /\ shown'[q] \in {shown[q], NoVersion}
      BY <2>1, <2>3 DEF ApproveRun, TypeOK
    <3>3. approvals' \subseteq agreed'
      BY <2>1, <2>3, <3>1 DEF ApproveRun, LetInv
    <3>. QED
      BY <2>1, <3>1, <3>2, <3>3 DEF LetInv, OnlyAgreed
  <2>. QED
    BY <1>4, <2>2, <2>3 DEF Seen
<1>5. ASSUME NEW r \in Runs, Approve(r)
      PROVE  LetInv'
  <2>1. UNCHANGED <<version, shown>> /\ agreed' = agreed \cup {version[r]} /\ owed' = owed \ {r}
    BY <1>5 DEF Approve
  <2>2. \A q \in Runs : status'[q] = IF q = r THEN "queued" ELSE status[q]
    BY <1>5 DEF Approve, ApproveRun, TypeOK
  <2>3. approvals' \subseteq agreed'
    BY <1>5, <2>1 DEF Approve, ApproveRun, LetInv
  <2>. QED
    BY <2>1, <2>2, <2>3 DEF LetInv, OnlyAgreed
<1>6. ASSUME NEW v \in Versions, ApproveSeen(v)
      PROVE  LetInv'
  BY <1>6 DEF ApproveSeen, LetInv, OnlyAgreed
<1>7. ASSUME NEW r \in Runs, Refuse(r) \/ CancelRun(r) \/ Begin(r)
      PROVE  LetInv'
  <2>1. /\ UNCHANGED <<version, approvals, agreed, owed, shown>>
        /\ \/ UNCHANGED status
           \/ \E s \in {"refused", "cancelled"} : Becomes(r, s)
           \/ Becomes(r, "running") /\ status[r] = "queued"
    BY <1>7 DEF Refuse, CancelRun, Begin, OffThread
  <2>. QED
    BY <2>1, LetQuiet DEF TypeOK
<1>8. CASE Recover
  <2>1. UNCHANGED <<version, approvals, agreed, owed, shown>>
    BY <1>8 DEF Recover
  <2>2. \A q \in Runs : status'[q] = status[q] \/ (status[q] = "running" /\ status'[q] = "errored")
    BY <1>8 DEF Recover, TypeOK
  <2>. QED
    BY <2>1, <2>2, LetQuiet
<1>9. ASSUME NEW r \in Runs, Prune(r)
      PROVE  LetInv'
  BY <1>9 DEF Prune, LetInv, OnlyAgreed, TypeOK, Final
<1>10. ASSUME NEW r \in Runs, Finish(r)
      PROVE  LetInv'
  <2>1. UNCHANGED <<version, approvals, agreed, owed, shown>>
    BY <1>10 DEF Finish, OffThread
  <2>2. \/ UNCHANGED status
        \/ Becomes(r, Verdict(end[r])) /\ status[r] = "running" /\ Verdict(end[r]) \in Final
    BY <1>10 DEF Finish, Verdict, TypeOK, Stops, Final
  <2>. QED
    BY <2>1, <2>2, LetQuiet DEF TypeOK, Final
<1>11. CASE Stop
  BY <1>11, LetQuiet DEF Stop
<1>12. CASE UNCHANGED <<status, version, approvals, agreed, owed, shown>>
  BY <1>12, LetQuiet
<1>13. ASSUME NEW r \in Runs, ThreadStep(r) \/ Refused(r)
      PROVE  LetInv'
  <2>1. UNCHANGED <<status, version, approvals, agreed, owed, shown>> \/ Begin(r) \/ Finish(r)
    BY <1>13 DEF ThreadStep, StopBefore, NoteServer, SkipRest, StartStep, SpawnProcess, RecordPid,
       PollProcess, MarkStep, HearAnswer, StopWaiting, Clear, Drop, Refused, OffThread
  <2>. QED
    BY <1>7, <1>10, <1>12, <2>1
<1>. QED
  BY <1>1, <1>2, <1>3, <1>4, <1>5, <1>6, <1>7, <1>8, <1>9, <1>11, <1>12, <1>13
     DEF Next, People, Driver, World, AnswerStep, KillOrphan, SpawnThread, Reap, Edit, AskEveryTime,
         LosePlace, StartAgain, Dies, RunOut

\* Nothing is carried out that no person agreed to.
THEOREM AgreedTo == Spec => []OnlyAgreed
<1>1. Init => LetInv
  BY DEF Init, LetInv, OnlyAgreed
<1>2. LetInv => OnlyAgreed
  BY DEF LetInv
<1>. QED
  BY <1>1, <1>2, SmokeAssumption, LetStep, TypeCorrect, PTL DEF Spec

---------------------------------------------------------------------------
\* Threads, their processes, and who kills them.

\* The thread of a run touches its own run only.
LEMMA OneThread ==
    ASSUME TypeOK, NEW r \in Runs, ThreadStep(r) \/ Refused(r)
    PROVE  /\ \A q \in Runs \ {r} :
                 /\ status'[q] = status[q] /\ steps'[q] = steps[q]
                 /\ pc'[q] = pc[q] /\ at'[q] = at[q] /\ end'[q] = end[q]
                 /\ out'[q] = out[q] /\ servers'[q] = servers[q]
           /\ \A p : p[1] # r => (p \in procs' <=> p \in procs) /\ (p \in pids' <=> p \in pids)
           /\ OffThread
<1>. USE DEF Becomes, Goto
<1>0. /\ \A q \in Runs \ {r} : status'[q] = status[q] /\ steps'[q] = steps[q]
      /\ \A q \in Runs \ {r} : pc'[q] = pc[q]
  BY DEF ThreadStep, Begin, StopBefore, NoteServer, SkipRest, StartStep, SpawnProcess, RecordPid,
     PollProcess, MarkStep, HearAnswer, StopWaiting, Clear, Finish, Drop, Refused, To, Onward, TypeOK
<1>1. \A q \in Runs \ {r} : at'[q] = at[q] /\ end'[q] = end[q]
  BY DEF ThreadStep, Begin, StopBefore, NoteServer, SkipRest, StartStep, SpawnProcess, RecordPid,
     PollProcess, MarkStep, HearAnswer, StopWaiting, Clear, Finish, Drop, Refused, Onward, TypeOK
<1>2. \A q \in Runs \ {r} : out'[q] = out[q] /\ servers'[q] = servers[q]
  BY DEF ThreadStep, Begin, StopBefore, NoteServer, SkipRest, StartStep, SpawnProcess, RecordPid,
     PollProcess, MarkStep, HearAnswer, StopWaiting, Clear, Finish, Drop, Refused, Forget, StopServers, TypeOK
<1>3. \A p : p[1] # r => (p \in procs' <=> p \in procs) /\ (p \in pids' <=> p \in pids)
  BY DEF ThreadStep, Begin, StopBefore, NoteServer, SkipRest, StartStep, SpawnProcess, RecordPid,
     PollProcess, MarkStep, HearAnswer, StopWaiting, Clear, Finish, Drop, Refused, StopServers
<1>4. OffThread
  BY DEF ThreadStep, Begin, StopBefore, NoteServer, SkipRest, StartStep, SpawnProcess, RecordPid,
     PollProcess, MarkStep, HearAnswer, StopWaiting, Clear, Finish, Drop, Refused
<1>. QED
  BY <1>0, <1>1, <1>2, <1>3, <1>4

\* Where a thread goes, and what its run is then.
LEMMA ThreadGoes ==
    ASSUME TypeOK, ThreadInv, NEW r \in Runs, ThreadStep(r) \/ Refused(r)
    PROVE  /\ pc[r] \in Going \cup {"begin"} /\ recovered
           /\ \/ pc'[r] \in Going /\ status'[r] = "running"
              \/ pc'[r] = "over"
           /\ pc'[r] \in Going \ {"skip", "finish"} => end'[r] # "errored"
           /\ status'[r] \notin {"none"} \cup Waits \/ status'[r] = status[r]
<1>. USE DEF Becomes, Goto, Going, OnSteps, Carrying, Asking, Leaving, Waits
<1>0. /\ pc[r] \in Going => status[r] = "running" /\ recovered
      /\ pc[r] = "begin" => recovered
      /\ end[r] = "errored" => pc[r] \notin Going \ {"skip", "finish"}
      /\ out[r] # "errored"
  BY DEF ThreadInv, TypeOK, Stops
<1>1. CASE Begin(r)
  BY <1>0, <1>1 DEF Begin, TypeOK
<1>2. CASE StopBefore(r)
  <2>1. pc'[r] \in {"note", "skip"} /\ UNCHANGED status /\ pc[r] = "top" /\ end'[r] \in MayFind(r) \ {"nothing"}
    BY <1>2 DEF StopBefore, AtStep, TypeOK
  <2>. QED
    BY <1>0, <2>1, FoundTypes DEF Stops
<1>3. CASE NoteServer(r) \/ StartStep(r) \/ SpawnProcess(r) \/ RecordPid(r) \/ PollProcess(r)
  BY <1>0, <1>3 DEF NoteServer, StartStep, AtStep, SpawnProcess, RecordPid, PollProcess, TypeOK
<1>4. CASE SkipRest(r)
  BY <1>0, <1>4 DEF SkipRest, TypeOK
<1>5. ASSUME NEW o \in Stops \cup {"passed", "failed"}, Onward(r, o), end[r] # "errored"
      PROVE  pc'[r] \in {"note", "skip", "top"} /\ end'[r] # "errored"
  BY <1>5 DEF Onward, TypeOK, Stops
<1>6. CASE MarkStep(r) \/ StopWaiting(r)
  <2>1. /\ UNCHANGED status /\ pc[r] \in {"mark", "unask"} /\ out[r] \in Stops \cup {"passed", "failed"}
        /\ Onward(r, out[r]) \/ (pc'[r] = "drop" /\ UNCHANGED end)
    BY <1>6 DEF MarkStep, StopWaiting, TypeOK
  <2>. QED
    BY <1>0, <1>5, <2>1
<1>7. CASE HearAnswer(r)
  <2>1. /\ UNCHANGED status /\ pc[r] = "ask"
        /\ (\E o \in {"passed", "failed"} : Onward(r, o)) \/ (pc'[r] = "unask" /\ UNCHANGED end)
    BY <1>7 DEF HearAnswer, TypeOK
  <2>. QED
    BY <1>0, <1>5, <2>1
<1>8. CASE Clear(r) \/ Drop(r)
  BY <1>0, <1>8 DEF Clear, Drop, TypeOK
<1>9. CASE Finish(r)
  <2>1. Verdict(end[r]) \in Final
    BY DEF Verdict, TypeOK, Stops, Final
  <2>. QED
    BY <1>0, <1>9, <2>1 DEF Finish, TypeOK, Final
<1>10. CASE Refused(r)
  BY <1>0, <1>10 DEF Refused, AtStep, TypeOK
<1>. QED
  BY <1>1, <1>2, <1>3, <1>4, <1>6, <1>7, <1>8, <1>9, <1>10 DEF ThreadStep

\* Every step keeps that a thread works on a row that says it runs.
LEMMA ThreadInvStep == TypeOK /\ ThreadInv /\ [Next]_vars => ThreadInv'
<1>. SUFFICES ASSUME TypeOK, ThreadInv, [Next]_vars PROVE ThreadInv'
  OBVIOUS
<1>. USE DEF vars, rows, settings, driver, thread, world, histories, Becomes
<1>1. ASSUME NEW r \in Runs, ThreadStep(r) \/ Refused(r)
      PROVE  ThreadInv'
  <2>1. ASSUME NEW q \in Runs
        PROVE  /\ pc'[q] # "none" => recovered'
               /\ pc'[q] \in Going => status'[q] = "running"
               /\ pc'[q] \in {"none", "begin"} => at'[q] = 1
               /\ pc'[q] \in Going \ {"skip", "finish"} => end'[q] # "errored"
               /\ status'[q] \in {"none"} \cup Waits => ~ cancel'[q]
    <3>1. CASE q = r
      <4>1. "over" \notin Going \cup {"none", "begin"} /\ "running" \notin {"none"} \cup Waits
            /\ Going \cap {"none", "begin"} = {}
        BY DEF Going, OnSteps, Carrying, Asking, Leaving, Waits
      <4>2. UNCHANGED <<recovered, cancel>>
        BY <1>1, OneThread DEF OffThread
      <4>. QED
        BY <1>1, <3>1, <4>1, <4>2, ThreadGoes DEF ThreadInv
    <3>2. CASE q # r
      BY <1>1, <3>2, OneThread DEF ThreadInv, OffThread
    <3>. QED
      BY <3>1, <3>2
  <2>. QED
    BY <1>1, <2>1, OneThread DEF ThreadInv, OffThread
<1>2. CASE UNCHANGED <<status, cancel, driver, pc, at, end>>
  BY <1>2 DEF ThreadInv
\* A run that is not running changes, and one that has begun does not come back.
<1>3. ASSUME UNCHANGED <<driver, thread>>,
             \A q \in Runs : /\ status[q] = "running" => status'[q] = "running"
                             /\ status'[q] \in {"none"} \cup Waits =>
                                   status[q] \in {"none"} \cup Waits /\ (cancel'[q] => cancel[q])
      PROVE  ThreadInv'
  BY <1>3 DEF ThreadInv
<1>4. ASSUME NEW r \in Runs, NEW s \in Active, Queued(r, s), UNCHANGED <<driver, thread, cancel>>
      PROVE  ThreadInv'
  BY <1>3, <1>4 DEF Queued, TypeOK, Active, Waits
<1>5. ASSUME NEW r \in Runs, Queue(r) \/ QueueUnattended(r) \/ \E v \in Versions : QueueSeen(r, v)
      PROVE  ThreadInv'
  <2>1. UNCHANGED <<driver, thread, cancel>> /\ \E s \in Active : Queued(r, s)
    BY <1>5 DEF Queue, QueueUnattended, QueueSeen, Active
  <2>. QED
    BY <1>4, <2>1
<1>6. ASSUME NEW r \in Runs, Seen(r) \/ Approve(r) \/ Refuse(r) \/ CancelRun(r) \/ Prune(r)
      PROVE  ThreadInv'
  BY <1>3, <1>6 DEF Seen, Approve, ApproveRun, Refuse, CancelRun, Prune, TypeOK, Final, Waits
<1>7. CASE Recover
  <2>1. \A q \in Runs : pc[q] = "none"
    BY <1>7 DEF Recover, ThreadInv
  <2>2. UNCHANGED <<app, thread, cancel>> /\ recovered' = TRUE /\ app
    BY <1>7 DEF Recover
  <2>3. \A q \in Runs : status'[q] = status[q] \/ status'[q] = "errored"
    BY <1>7 DEF Recover, TypeOK
  <2>. QED
    BY <2>1, <2>2, <2>3 DEF ThreadInv, Going, OnSteps, Carrying, Asking, Leaving, Waits
<1>8. ASSUME NEW r \in Runs, SpawnThread(r) \/ Reap(r)
      PROVE  ThreadInv'
  BY <1>8 DEF SpawnThread, Reap, Ticking, ThreadInv, TypeOK, Going, OnSteps, Carrying, Asking, Leaving
<1>9. ASSUME NEW p \in orphans, KillOrphan(p)
      PROVE  ThreadInv'
  BY <1>9 DEF KillOrphan, ThreadInv
<1>10. CASE Stop \/ StartAgain
  BY <1>10 DEF Stop, StartAgain, ThreadInv, Going, OnSteps, Carrying, Asking, Leaving
<1>. QED
  BY <1>1, <1>2, <1>5, <1>6, <1>7, <1>8, <1>9, <1>10
     DEF Next, People, Driver, World, AnswerStep, ApproveSeen, Edit, AskEveryTime, LosePlace, Dies, RunOut

\* A process of a run that is carried out is a server its thread knows, or the step it is on.
Known(r) ==
    \A p \in procs : p[1] = r =>
        /\ status[r] \notin {"none"} \cup Waits
        /\ pc[r] \in Going =>
              /\ pc[r] # "finish"
              /\ pc[r] = "skip" => end[r] # "errored"
              /\ p[2] \in servers[r] \/ (pc[r] \in {"record", "poll"} /\ p[2] = at[r])

\* What processes may be there is known of each run by itself.
LEMMA ProcParts == TypeOK => (ProcInv <=> \A r \in Runs : Known(r))
  BY DEF TypeOK, ProcInv, Known

\* A thread leaves no process that it does not know of.
LEMMA ThreadKnows ==
    ASSUME TypeOK, ThreadInv, NEW r \in Runs, Known(r), ThreadStep(r) \/ Refused(r)
    PROVE  Known(r)'
<1>. USE DEF Becomes, Goto, Going, OnSteps, Carrying, Asking, Leaving
<1>0. \A p \in procs : p = <<p[1], p[2]>>
  BY DEF TypeOK
\* It starts no process, and what it had it knows.
<1>1. ASSUME procs' \subseteq procs, UNCHANGED servers, status'[r] = status[r],
             pc[r] \notin {"record", "poll"}, pc[r] \in Going,
             pc'[r] \in Going \ {"finish"}, pc'[r] = "skip" => end'[r] # "errored"
      PROVE  Known(r)'
  BY <1>1 DEF Known
<1>2. CASE Begin(r)
  <2>1. CASE status[r] = "queued"
    BY <1>2, <2>1 DEF Begin, Known, Waits
  <2>2. CASE status[r] # "queued"
    BY <1>2, <2>2 DEF Begin, Known, TypeOK
  <2>. QED
    BY <2>1, <2>2
<1>3. CASE StopBefore(r)
  <2>1. /\ UNCHANGED <<procs, servers, status>> /\ pc[r] = "top" /\ pc'[r] \in {"note", "skip"}
        /\ end'[r] \in MayFind(r) \ {"nothing"}
    BY <1>3 DEF StopBefore, AtStep, TypeOK
  <2>. QED
    BY <1>1, <2>1, FoundTypes DEF Stops
<1>4. CASE NoteServer(r) \/ StartStep(r)
  <2>1. /\ UNCHANGED <<procs, servers, status, end>>
        /\ \/ pc[r] = "note" /\ pc'[r] = "skip"
           \/ pc[r] = "top" /\ pc'[r] \in {"ask", "spawn", "drop"}
    BY <1>4 DEF NoteServer, StartStep, AtStep, TypeOK
  <2>. QED
    BY <1>1, <2>1 DEF ThreadInv
<1>5. CASE SkipRest(r)
  <2>1. /\ UNCHANGED <<procs, servers, status, end>> /\ pc[r] = "skip"
        /\ pc'[r] = IF end[r] = "errored" THEN "finish" ELSE "top"
    BY <1>5 DEF SkipRest, TypeOK
  <2>2. CASE end[r] = "errored"
    BY <2>1, <2>2 DEF Known
  <2>. QED
    BY <1>1, <2>1, <2>2
<1>6. CASE SpawnProcess(r)
  <2>1. pc[r] = "spawn" /\ status[r] = "running" /\ UNCHANGED <<status, at>>
    BY <1>6 DEF SpawnProcess, ThreadInv
  <2>2. CASE UNCHANGED <<procs, servers>> /\ pc' = [pc EXCEPT ![r] = "mark"]
    BY <1>1, <2>1, <2>2 DEF TypeOK
  <2>3. CASE /\ procs' = procs \cup {<<r, at[r]>>}
             /\ servers' = [servers EXCEPT ![r] = IF Kind(r, at[r]) = "start" THEN @ \cup {at[r]} ELSE @]
             /\ Goto(r, CASE Kind(r, at[r]) = "start"   -> "mark"
                          [] Kind(r, at[r]) = "browser" -> "record"
                          [] OTHER                      -> "poll")
    <3>1. /\ Kind(r, at[r]) = "start" => pc'[r] = "mark" /\ servers'[r] = servers[r] \cup {at[r]}
          /\ Kind(r, at[r]) # "start" => pc'[r] \in {"record", "poll"} /\ servers'[r] = servers[r]
      BY <2>3 DEF TypeOK
    <3>2. \A p \in procs : p[1] = r => p[2] \in servers[r]
      BY <2>1 DEF Known
    <3>. QED
      BY <1>0, <2>1, <2>3, <3>1, <3>2 DEF Known, Waits
  <2>. QED
    BY <1>6, <2>2, <2>3 DEF SpawnProcess
<1>7. CASE RecordPid(r)
  BY <1>7 DEF RecordPid, Known, TypeOK
<1>8. CASE PollProcess(r)
  <2>1. /\ pc[r] = "poll" /\ pc'[r] = "mark" /\ procs' = procs \ {<<r, at[r]>>}
        /\ UNCHANGED <<status, servers>>
    BY <1>8 DEF PollProcess, TypeOK
  <2>2. \A p \in procs' : p \in procs /\ (p[1] = r => p[2] # at[r])
    BY <1>0, <2>1
  <2>. QED
    BY <2>1, <2>2 DEF Known
<1>9. CASE MarkStep(r) \/ StopWaiting(r) \/ HearAnswer(r)
  <2>1. /\ UNCHANGED <<procs, servers, status>> /\ pc[r] \in {"mark", "ask", "unask"}
        /\ pc'[r] \in {"top", "note", "skip", "unask", "drop"}
    BY <1>9 DEF MarkStep, StopWaiting, HearAnswer, Onward, TypeOK
  <2>2. pc'[r] = "skip" => end'[r] # "errored"
    <3>1. end[r] # "errored" /\ out[r] # "errored"
      BY <2>1 DEF ThreadInv, TypeOK, Stops
    <3>2. ASSUME NEW o, o # "errored", Onward(r, o) PROVE end'[r] # "errored"
      BY <3>1, <3>2 DEF Onward, TypeOK
    <3>3. ASSUME UNCHANGED end PROVE end'[r] # "errored"
      BY <3>1, <3>3
    <3>. QED
      BY <1>9, <3>1, <3>2, <3>3 DEF MarkStep, StopWaiting, HearAnswer
  <2>. QED
    BY <1>1, <2>1, <2>2
<1>10. CASE Clear(r) \/ Drop(r)
  <2>1. procs' = procs \ {<<r, i>> : i \in servers[r]} /\ pc[r] \in {"top", "drop"}
    BY <1>10 DEF Clear, Drop, StopServers
  <2>2. \A p \in procs : p[1] = r => p[2] \in servers[r]
    BY <2>1 DEF Known
  <2>3. \A p \in procs' : p[1] # r
    BY <1>0, <2>1, <2>2
  <2>. QED
    BY <2>3 DEF Known
<1>11. CASE Finish(r)
  <2>1. pc[r] = "finish" /\ UNCHANGED procs
    BY <1>11 DEF Finish
  <2>2. \A p \in procs' : p[1] # r
    BY <2>1 DEF Known
  <2>. QED
    BY <2>2 DEF Known
<1>12. CASE Refused(r)
  <2>1. UNCHANGED <<procs, servers, status, end>>
    BY <1>12 DEF Refused
  <2>2. CASE pc'[r] = "over"
    BY <2>1, <2>2 DEF Known
  <2>3. CASE pc'[r] = "drop"
    <3>1. pc[r] \in Going \ {"record", "poll"}
      BY <1>12, <2>3 DEF Refused, AtStep, TypeOK
    <3>. QED
      BY <1>1, <2>1, <2>3, <3>1
  <2>. QED
    BY <1>12, <2>2, <2>3 DEF Refused, TypeOK
<1>. QED
  BY <1>2, <1>3, <1>4, <1>5, <1>6, <1>7, <1>8, <1>9, <1>10, <1>11, <1>12 DEF ThreadStep

\* Every step keeps that each process is known to the thread of its run.
LEMMA ProcInvStep == SmokeAssumption /\ TypeOK /\ ThreadInv /\ ProcInv /\ [Next]_vars => ProcInv'
<1>. SUFFICES ASSUME SmokeAssumption, TypeOK, ThreadInv, ProcInv, [Next]_vars PROVE ProcInv'
  OBVIOUS
<1>t. procs' \subseteq Runs \X (Nat \ {0})
  BY TypeStep DEF TypeOK
<1>. SUFFICES ASSUME NEW r \in Runs PROVE Known(r)'
  BY <1>t DEF ProcInv, Known
<1>. USE DEF vars, rows, settings, driver, thread, world, histories, Becomes
<1>0. Known(r)
  BY ProcParts
<1>1. CASE ThreadStep(r) \/ Refused(r)
  BY <1>0, <1>1, ThreadKnows
<1>2. ASSUME NEW q \in Runs \ {r}, ThreadStep(q) \/ Refused(q)
      PROVE  Known(r)'
  <2>1. /\ status'[r] = status[r] /\ pc'[r] = pc[r] /\ at'[r] = at[r] /\ end'[r] = end[r]
        /\ servers'[r] = servers[r] /\ \A p : p[1] = r => (p \in procs' <=> p \in procs)
    BY <1>2, OneThread
  <2>. QED
    BY <1>0, <2>1 DEF Known
\* Nobody else starts a process, and only threads go on with a run.
<1>3. ASSUME procs' \subseteq procs,
             status'[r] \in {"none"} \cup Waits => status[r] \in {"none"} \cup Waits,
             pc'[r] \notin Going \/ UNCHANGED <<pc, at, end, servers>>
      PROVE  Known(r)'
  BY <1>0, <1>3 DEF Known
<1>4. ASSUME NEW q \in Runs, NEW s \in Active, Queued(q, s), UNCHANGED <<procs, thread>>
      PROVE  Known(r)'
  BY <1>3, <1>4 DEF Queued, TypeOK
<1>5. ASSUME NEW q \in Runs, Queue(q) \/ QueueUnattended(q) \/ \E v \in Versions : QueueSeen(q, v)
      PROVE  Known(r)'
  <2>1. UNCHANGED <<procs, thread>> /\ \E s \in Active : Queued(q, s)
    BY <1>5 DEF Queue, QueueUnattended, QueueSeen, Active
  <2>. QED
    BY <1>4, <2>1
<1>6. ASSUME NEW q \in Runs, Seen(q) \/ Approve(q) \/ Refuse(q) \/ CancelRun(q) \/ Prune(q)
      PROVE  Known(r)'
  <2>1. UNCHANGED <<procs, thread>>
    BY <1>6 DEF Seen, Approve, Refuse, CancelRun, Prune
  <2>2. status'[r] \in {"none"} \cup Waits => status[r] \in {"none"} \cup Waits
    BY <1>6 DEF Seen, Approve, ApproveRun, Refuse, CancelRun, Prune, TypeOK, Waits
  <2>. QED
    BY <1>3, <2>1, <2>2
<1>7. CASE Recover
  <2>1. UNCHANGED <<procs, thread>> /\ status'[r] \in {status[r], "errored"}
    BY <1>7 DEF Recover
  <2>. QED
    BY <1>3, <2>1 DEF Waits
<1>8. ASSUME NEW q \in Runs, SpawnThread(q) \/ Reap(q)
      PROVE  Known(r)'
  <2>1. /\ UNCHANGED <<procs, status, servers>>
        /\ pc'[r] \in {"begin", "none"} \/ (pc'[r] = pc[r] /\ at'[r] = at[r] /\ end'[r] = end[r])
    BY <1>8 DEF SpawnThread, Reap, TypeOK
  <2>. QED
    BY <1>0, <2>1 DEF Known, Going, OnSteps, Carrying, Asking, Leaving
<1>9. CASE Stop
  <2>1. UNCHANGED <<procs, status>> /\ pc'[r] = "none"
    BY <1>9 DEF Stop
  <2>. QED
    BY <1>3, <2>1 DEF Going, OnSteps, Carrying, Asking, Leaving
<1>10. CASE procs' \subseteq procs /\ UNCHANGED <<status, pc, at, end, servers>>
  BY <1>0, <1>10 DEF Known
<1>. QED
  BY <1>1, <1>2, <1>5, <1>6, <1>7, <1>8, <1>9, <1>10
     DEF Next, People, Driver, World, AnswerStep, ApproveSeen, KillOrphan, Edit, AskEveryTime, LosePlace,
         StartAgain, Dies, RunOut

\* No process of a run that has ended is left but what is about to be killed.
LEMMA OrphanStep ==
    TypeOK /\ ThreadInv /\ ProcInv /\ OrphanInv /\ [Next]_vars => OrphanInv'
<1>. SUFFICES ASSUME TypeOK, ThreadInv, ProcInv, OrphanInv, [Next]_vars, ~ cut',
                     NEW p \in procs' \cap pids', status'[p[1]] \in Final
              PROVE  p \in orphans'
  BY DEF OrphanInv
<1>. USE DEF vars, rows, settings, driver, thread, world, histories, Becomes
<1>1. ASSUME NEW r \in Runs, ThreadStep(r) \/ Refused(r)
      PROVE  p \in orphans'
  <2>1. UNCHANGED <<cut, orphans>>
    BY <1>1, OneThread DEF OffThread, driver
  <2>2. CASE p[1] = r
    <3>1. Known(r)' /\ Known(r)
      BY <1>1, ThreadKnows, ProcParts
    <3>2. pc'[r] = "over" /\ status'[r] \in Final
      BY <1>1, <2>2, ThreadGoes DEF Final
    <3>3. CASE Finish(r)
      <4>1. UNCHANGED procs /\ pc[r] = "finish"
        BY <3>3 DEF Finish
      <4>. QED
        BY <2>2, <3>1, <4>1 DEF Known, Going
    <3>4. CASE Begin(r) \/ Refused(r)
      <4>1. UNCHANGED <<procs, pids, status>>
        BY <3>2, <3>4 DEF Begin, Refused, TypeOK, Goto
      <4>. QED
        BY <2>1, <2>2, <3>2, <4>1 DEF OrphanInv
    <3>5. Finish(r) \/ Begin(r) \/ Refused(r)
      BY <1>1, <3>2 DEF ThreadStep, StopBefore, NoteServer, SkipRest, StartStep, SpawnProcess, RecordPid,
         PollProcess, MarkStep, HearAnswer, StopWaiting, Clear, Drop, Goto, Onward, TypeOK
    <3>. QED
      BY <3>3, <3>4, <3>5
  <2>3. CASE p[1] # r
    <3>1. p[1] \in Runs
      BY <1>1, <2>3, OneThread DEF TypeOK
    <3>. QED
      BY <1>1, <2>1, <2>3, <3>1, OneThread DEF OrphanInv
  <2>. QED
    BY <2>2, <2>3
\* No run ends that has processes, and none is forgotten.
<1>2. ASSUME p \in procs /\ p \in pids, UNCHANGED <<cut, orphans>>, status'[p[1]] \in Final => status[p[1]] \in Final
      PROVE  p \in orphans'
  BY <1>2 DEF OrphanInv
<1>3. p \in procs => p[1] \in Runs /\ status[p[1]] \notin {"none"} \cup Waits
  BY DEF TypeOK, ProcInv
<1>4. ASSUME NEW r \in Runs, Queue(r) \/ QueueUnattended(r) \/ Seen(r) \/ Approve(r) \/ Refuse(r) \/ CancelRun(r)
                             \/ \E v \in Versions : QueueSeen(r, v)
      PROVE  p \in orphans'
  <2>1. UNCHANGED <<procs, pids, cut, orphans>>
    BY <1>4 DEF Queue, QueueUnattended, QueueSeen, Seen, Approve, Refuse, CancelRun
  <2>2. \A q \in Runs : status[q] \notin {"none"} \cup Waits => status'[q] = status[q]
    BY <1>4 DEF Queue, QueueUnattended, QueueSeen, Queued, Seen, Approve, ApproveRun, Refuse, CancelRun, TypeOK, Waits
  <2>. QED
    BY <1>2, <1>3, <2>1, <2>2
<1>5. CASE Recover
  <2>1. UNCHANGED <<procs, pids, cut>> /\ orphans = {} /\ p[1] \in Runs
    BY <1>3, <1>5 DEF Recover, ThreadInv
  <2>2. status[p[1]] \notin Final
    BY <2>1 DEF OrphanInv
  <2>. QED
    BY <1>5, <2>1, <2>2 DEF Recover
<1>6. ASSUME NEW q \in orphans, KillOrphan(q)
      PROVE  p \in orphans'
  BY <1>6 DEF KillOrphan, OrphanInv
<1>7. ASSUME NEW r \in Runs, Prune(r)
      PROVE  p \in orphans'
  <2>1. UNCHANGED <<procs, cut, orphans>> /\ p \in pids /\ p[1] # r
    BY <1>7 DEF Prune
  <2>. QED
    BY <1>2, <1>3, <1>7, <2>1 DEF Prune, TypeOK
<1>8. CASE Stop
  BY <1>2, <1>8 DEF Stop, OrphanInv
<1>9. CASE procs' \subseteq procs /\ UNCHANGED <<status, pids, cut, orphans>>
  BY <1>2, <1>9
<1>. QED
  BY <1>1, <1>4, <1>5, <1>6, <1>7, <1>8, <1>9
     DEF Next, People, Driver, World, AnswerStep, ApproveSeen, SpawnThread, Reap, Edit, AskEveryTime,
         LosePlace, StartAgain, Dies, RunOut

\* Once the app has dealt with what it found, no process of a run that ended is left.
THEOREM OrphansGone == Spec => []OrphansKilled
<1>1. Init => ThreadInv /\ ProcInv /\ OrphanInv
  BY DEF Init, ThreadInv, ProcInv, OrphanInv, Going, OnSteps, Carrying, Asking, Leaving
<1>2. OrphanInv => OrphansKilled
  BY DEF OrphanInv, OrphansKilled, Ticking
<1>. QED
  BY <1>1, <1>2, SmokeAssumption, ThreadInvStep, ProcInvStep, OrphanStep, TypeCorrect, PTL DEF Spec

---------------------------------------------------------------------------
\* How the steps of a run go.

\* What is the same about two runs, or a run before and after a step.
SamePlan(r) ==
    /\ Places(r)' = Places(r) /\ Body(r)' = Body(r)
    /\ \A i \in Places(r) : Phase(r, i)' = Phase(r, i)

\* A run keeps its steps as long as it is the same run.
LEMMA PlanKept ==
    ASSUME NEW r \in Runs, UNCHANGED version, DOMAIN steps'[r] = DOMAIN steps[r]
    PROVE  SamePlan(r)
  BY DEF SamePlan, Places, Body, Phase, Def

\* Setup and steps are the places up to one, if there is a run.
LEMMA BodyDown ==
    ASSUME SmokeAssumption, TypeOK, NEW r \in Runs, status[r] = "running"
    PROVE  /\ Places(r) = 1 .. Len(steps[r]) /\ Len(steps[r]) \in Nat
           /\ Cardinality(Body(r)) \in Nat /\ Cardinality(Body(r)) <= Len(steps[r])
           /\ Body(r) = 1 .. Cardinality(Body(r))
<1>0. RowTypes
  BY TypeParts
<1>1. PICK n \in Nat : Body(r) = 1 .. n /\ n <= Len(steps[r])
  BY <1>0, BodyFirst DEF Live, Active
<1>2. Cardinality(Body(r)) = n
  BY <1>0, <1>1, BodyCount
<1>3. Places(r) = 1 .. Len(steps[r]) /\ Len(steps[r]) \in Nat
  BY <1>0 DEF RowTypes, Places
<1>. QED
  BY <1>1, <1>2, <1>3

\* A run of which nothing changes.
LEMMA FitKept ==
    ASSUME NEW r \in Runs, StepsFit(r), PhasesFit(r), UNCHANGED version,
           status'[r] = status[r], steps'[r] = steps[r], pc'[r] = pc[r], at'[r] = at[r],
           end'[r] = end[r], out'[r] = out[r], refused = "ending" => refused' = "ending"
    PROVE  StepsFit(r)' /\ PhasesFit(r)'
<1>1. SamePlan(r)
  BY PlanKept
<1>2. StepsFit(r)'
  BY <1>1 DEF SamePlan, StepsFit
<1>3. PhasesFit(r)'
  BY <1>1 DEF SamePlan, PhasesFit
<1>. QED
  BY <1>2, <1>3

\* A run that no thread is carrying out.
LEMMA FitIdle ==
    ASSUME NEW r \in Runs, pc'[r] \in {"none", "begin", "over", "drop"},
           status'[r] = "none" => Places(r)' = {},
           status'[r] \in Waits => \A i \in Places(r)' : steps'[r][i] = "pending"
    PROVE  StepsFit(r)' /\ PhasesFit(r)'
<1>1. pc'[r] \notin OnSteps \cup Leaving \cup Carrying \cup Asking \cup {"top", "finish", "mark", "unask"}
  BY DEF OnSteps, Leaving, Carrying, Asking
<1>2. StepsFit(r)'
  BY <1>1 DEF StepsFit
<1>3. PhasesFit(r)'
  BY <1>1 DEF PhasesFit
<1>. QED
  BY <1>2, <1>3

\* A step is over, as well as o says, and the thread goes on.
LEMMA FitOnward ==
    ASSUME SmokeAssumption, TypeOK, ThreadInv, NEW r \in Runs, StepsFit(r), PhasesFit(r),
           pc[r] \in Carrying \cup Asking, SamePlan(r), UNCHANGED status,
           NEW o \in Stops \cup {"passed", "failed"}, Onward(r, o),
           \A i \in Places(r) : i # at[r] => steps'[r][i] = steps[r][i],
           steps'[r][at[r]] \notin Open, steps'[r][at[r]] = "passed" <=> o = "passed",
           at[r] \notin Body(r) => steps'[r][at[r]] \in {"passed", "failed"}
    PROVE  StepsFit(r)' /\ PhasesFit(r)'
<1>. DEFINE n == Cardinality(Body(r))
            over == o # "passed" /\ at[r] \in Body(r)
<1>1. /\ status[r] = "running" /\ status'[r] = "running"
      /\ pc[r] \in OnSteps /\ at[r] \in Places(r) /\ end[r] # "errored" /\ o # "errored"
  <2>1. status[r] = "running"
    BY DEF ThreadInv, Going, OnSteps
  <2>. QED
    BY <2>1 DEF ThreadInv, StepsFit, Going, OnSteps, Carrying, Asking, Stops
<1>2. /\ n \in Nat /\ Body(r) = 1 .. n /\ at[r] \in Nat /\ at[r] >= 1
      /\ Places(r) \subseteq Nat /\ \A i \in Places(r) : i >= 1
  <2>1. /\ n \in Nat /\ Body(r) = 1 .. n
        /\ Places(r) = 1 .. Len(steps[r]) /\ Len(steps[r]) \in Nat
    BY <1>1, BodyDown
  <2>2. at[r] \in Nat \ {0}
    BY DEF TypeOK
  <2>. HIDE DEF n
  <2>. QED
    BY <2>1, <2>2
<1>3. Phase(r, at[r]) # "teardown" <=> at[r] \in Body(r)
  BY <1>1 DEF Body
<1>4. /\ at'[r] = at[r] + 1
      /\ end'[r] = IF over THEN o ELSE end[r]
      /\ pc'[r] = IF over THEN IF o = "server" THEN "note" ELSE "skip" ELSE "top"
  BY <1>3 DEF Onward, Goto, TypeOK
<1>. HIDE DEF n
<1>5. StepsFit(r)'
  <2>1. pc'[r] \in {"top", "note", "skip"}
    BY <1>4
  <2>2. \A i \in Places(r) : i < at'[r] => i < at[r] \/ i = at[r]
    BY <1>2, <1>4
  <2>3. \A i \in Places(r) : i < at'[r] => steps'[r][i] \notin Open
    BY <1>1, <2>2 DEF StepsFit
  <2>4. \A i \in Places(r) : i >= at'[r] => i > at[r] /\ i # at[r]
    BY <1>2, <1>4
  <2>5. \A i \in Places(r) : i >= at'[r] => steps'[r][i] = "pending"
    BY <1>1, <2>4 DEF StepsFit
  <2>6. \A i \in Places(r) : (i > at'[r] => i >= at'[r]) /\ (i = at'[r] => i >= at'[r])
    BY <1>2, <1>4
  <2>7. /\ status'[r] # "none" /\ status'[r] \notin Waits
        /\ pc'[r] \notin Carrying \cup Asking \cup {"finish"}
    BY <1>1, <2>1 DEF Waits, Carrying, Asking
  <2>. QED
    BY <2>3, <2>5, <2>6, <2>7 DEF StepsFit, SamePlan
<1>6. PhasesFit(r)'
  <2>1. pc'[r] \notin {"finish", "mark", "unask"}
    BY <1>4
  <2>2. \A i \in Places(r) : i < at'[r] => i < at[r] \/ i = at[r]
    BY <1>2, <1>4
  <2>3. CASE over
    <3>1. pc'[r] \in Leaving /\ pc'[r] \notin OnSteps /\ end'[r] # "passed"
      BY <1>4, <2>3 DEF Leaving, OnSteps, Carrying, Asking
    <3>2. \A i \in Places(r) : i < at'[r] => i \in Body(r)
      BY <1>2, <1>4, <2>3
    <3>3. at[r] \in Body(r) /\ steps'[r][at[r]] # "passed"
      BY <2>3
    <3>. QED
      BY <2>1, <3>1, <3>2, <3>3 DEF PhasesFit, SamePlan
  <2>4. CASE ~ over
    <3>1. pc'[r] = "top" /\ pc'[r] \in OnSteps /\ pc'[r] \notin Leaving /\ end'[r] = end[r]
      BY <1>4, <2>4 DEF Leaving, OnSteps
    <3>2. end[r] # "passed" => at[r] \notin Body(r) /\ at'[r] \notin Body(r)
      BY <1>1, <1>2, <1>4 DEF PhasesFit
    <3>3. \A i \in Places(r) \ Body(r) : i < at'[r] => steps'[r][i] \in {"passed", "failed"}
      BY <1>1, <2>2 DEF PhasesFit
    <3>4. end[r] = "passed" => \A i \in Body(r) : i < at'[r] => steps'[r][i] = "passed"
      <4>1. SUFFICES ASSUME end[r] = "passed", NEW i \in Body(r), i < at'[r]
                     PROVE  steps'[r][i] = "passed"
        OBVIOUS
      <4>2. i \in Places(r)
        BY DEF Body
      <4>3. CASE i = at[r]
        BY <2>4, <4>3
      <4>4. CASE i # at[r]
        BY <1>1, <2>2, <4>1, <4>2, <4>4 DEF PhasesFit
      <4>. QED
        BY <4>3, <4>4
    <3>5. end[r] \notin {"passed", "errored"} => \E i \in Body(r) : steps'[r][i] # "passed"
      <4>1. SUFFICES ASSUME end[r] \notin {"passed", "errored"}
                     PROVE  \E i \in Body(r) : steps'[r][i] # "passed"
        OBVIOUS
      <4>2. PICK i \in Body(r) : steps[r][i] # "passed"
        BY <1>1, <4>1 DEF PhasesFit
      <4>3. i # at[r] /\ i \in Places(r)
        BY <3>2, <4>1 DEF Body
      <4>. QED
        BY <4>2, <4>3
    <3>. QED
      BY <2>1, <3>1, <3>2, <3>3, <3>4, <3>5 DEF PhasesFit, SamePlan
  <2>. QED
    BY <2>3, <2>4
<1>. QED
  BY <1>5, <1>6

\* A thread on its run keeps what is known of the steps.
LEMMA ThreadFits ==
    ASSUME SmokeAssumption, TypeOK, ThreadInv, NEW r \in Runs, StepsFit(r), PhasesFit(r),
           ThreadStep(r) \/ Refused(r)
    PROVE  StepsFit(r)' /\ PhasesFit(r)'
<1>. DEFINE n == Cardinality(Body(r))
<1>. USE DEF Becomes, Goto
<1>1. /\ SamePlan(r) /\ Shaped /\ UNCHANGED version
      /\ pc[r] \in Going => status[r] = "running"
      /\ steps \in [Runs -> Seq(StepStatuses)] /\ pc \in [Runs -> Going \cup {"none", "begin", "over"}]
      /\ at[r] \in Nat \ {0} /\ at \in [Runs -> Nat \ {0}]
  <2>1. Shaped /\ UNCHANGED version
    BY ThreadShape, OneThread DEF OffThread
  <2>. QED
    BY <2>1, PlanKept, TypeParts DEF Shaped, ThreadInv, TypeOK, ThreadTypes
<1>2. status[r] = "running" =>
         /\ n \in Nat /\ Body(r) = 1 .. n /\ n <= Len(steps[r])
         /\ Places(r) = 1 .. Len(steps[r]) /\ Len(steps[r]) \in Nat
  BY BodyDown
<1>. HIDE DEF n
<1>m. ASSUME NEW i, NEW s \in StepStatuses, To(r, i, s)
      PROVE  \A j \in Places(r) : steps'[r][j] = IF j = i THEN s ELSE steps[r][j]
  <2>1. steps \in [Runs -> Seq(StepStatuses)]
    BY <1>1
  <2>2. \A q \in Runs : \A j \in DOMAIN steps[q] : steps'[q][j] = IF q = r /\ j = i THEN s ELSE steps[q][j]
    BY <1>m, <2>1, MovedStep
  <2>. QED
    BY <2>2 DEF Places
<1>s. {"passed", "failed", "cancelled", "running", "waiting"} \subseteq StepStatuses
  BY DEF StepStatuses, Open
<1>3. CASE Begin(r)
  <2>1. CASE status[r] = "queued"
    <3>1. /\ status'[r] = "running" /\ at'[r] = 1 /\ steps'[r] = steps[r]
          /\ \A i \in Places(r) : steps[r][i] = "pending"
          /\ \/ pc'[r] = "top" /\ end'[r] = "passed"
             \/ pc'[r] = "skip" /\ end'[r] = "errored"
      BY <1>3, <2>1 DEF Begin, TypeOK, ThreadInv, StepsFit, Waits
    <3>2. \A i \in Places(r) : ~ (i < 1)
      BY <1>1 DEF Places
    <3>3. StepsFit(r)'
      BY <1>1, <3>1, <3>2 DEF SamePlan, StepsFit, Waits, Carrying, Asking
    <3>4. \A i \in Body(r) : i \in Places(r)
      BY DEF Body
    <3>5. PhasesFit(r)'
      BY <1>1, <3>1, <3>2, <3>4 DEF SamePlan, PhasesFit, OnSteps, Leaving, Carrying, Asking
    <3>. QED
      BY <3>3, <3>5
  <2>2. CASE status[r] # "queued"
    <3>1. pc'[r] = "over" /\ UNCHANGED <<status, steps>>
      BY <1>1, <1>3, <2>2 DEF Begin
    <3>. QED
      BY <1>1, <3>1, FitIdle DEF StepsFit, SamePlan
  <2>. QED
    BY <2>1, <2>2
<1>4. CASE StopBefore(r)
  <2>1. /\ UNCHANGED <<status, steps, at>> /\ pc[r] = "top" /\ at[r] \in Places(r)
        /\ pc'[r] \in Leaving /\ pc'[r] \notin OnSteps
        /\ end'[r] \in MayFind(r) \ {"nothing"}
    BY <1>4 DEF StopBefore, AtStep, Leaving, OnSteps, Carrying, Asking, TypeOK
  <2>2. end'[r] \in Stops /\ at[r] \in Body(r)
    BY <2>1, FoundTypes DEF Body
  <2>3. status[r] = "running" /\ steps[r][at[r]] = "pending" /\ pc[r] \in OnSteps
    BY <1>1, <2>1 DEF StepsFit, Going, OnSteps
  <2>4. StepsFit(r)'
    BY <1>1, <2>1, <2>3 DEF StepsFit, SamePlan, Leaving, OnSteps, Carrying, Asking
  <2>5. \A i \in Places(r) : i < at[r] => i \in Body(r)
    BY <1>1, <1>2, <2>2, <2>3
  <2>6. PhasesFit(r)'
    BY <1>1, <2>1, <2>2, <2>3, <2>5 DEF PhasesFit, SamePlan, Leaving, Stops
  <2>. QED
    BY <2>4, <2>6
<1>5. CASE NoteServer(r)
  <2>1. /\ UNCHANGED <<status, at, end>> /\ pc[r] = "note" /\ pc'[r] = "skip" /\ status[r] = "running"
        /\ \/ UNCHANGED steps
           \/ \E i : steps[r][i] = "passed" /\ To(r, i, "failed")
    BY <1>1, <1>5 DEF NoteServer, Moves, Going, Leaving
  <2>2. \A j \in Places(r) : \/ steps'[r][j] = steps[r][j]
                             \/ steps[r][j] = "passed" /\ steps'[r][j] = "failed"
    BY <1>m, <1>s, <2>1
  <2>3. pc[r] \in Leaving /\ pc'[r] \in Leaving /\ pc'[r] \notin OnSteps
    BY <2>1 DEF Leaving, OnSteps, Carrying, Asking
  <2>4. StepsFit(r)'
    <3>1. \A i \in Places(r) : /\ steps[r][i] = "pending" => steps'[r][i] = "pending"
                               /\ steps[r][i] \notin Open => steps'[r][i] \notin Open
      BY <2>2 DEF Open
    <3>2. pc'[r] \notin Carrying \cup Asking \cup {"finish"} /\ pc[r] \in OnSteps \cup Leaving
          /\ pc[r] \in {"top"} \cup Leaving
      BY <2>1, <2>3 DEF OnSteps
    <3>. QED
      BY <1>1, <2>1, <2>3, <3>1, <3>2 DEF StepsFit, SamePlan, Waits
  <2>5. PhasesFit(r)'
    <3>1. \A i \in Body(r) : steps[r][i] # "passed" => steps'[r][i] # "passed"
      BY <2>2 DEF Body
    <3>. QED
      BY <1>1, <2>1, <2>2, <2>3, <3>1 DEF PhasesFit, SamePlan
  <2>. QED
    BY <2>4, <2>5
<1>6. CASE SkipRest(r)
  <2>. DEFINE left == IF end[r] = "cancelled" THEN "cancelled" ELSE "skipped"
  <2>1. /\ UNCHANGED <<status, end>> /\ pc[r] = "skip" /\ status[r] = "running" /\ at'[r] = n + 1
        /\ pc'[r] = IF end[r] = "errored" THEN "finish" ELSE "top"
    BY <1>1, <1>6 DEF SkipRest, Going, Leaving, n
  <2>2. \A i \in Places(r) : steps'[r][i] =
           IF steps[r][i] = "pending" /\ (i \in Body(r) \/ end[r] = "errored") THEN left ELSE steps[r][i]
    BY <1>1, <1>6 DEF SkipRest
  <2>. left \notin Open \cup {"passed"}
    BY DEF Open
  <2>. HIDE DEF left
  <2>3. /\ \A i \in Places(r) : i < at[r] => i \in Body(r) /\ steps[r][i] \notin Open
        /\ \A i \in Places(r) : ~ (i < at[r]) => steps[r][i] = "pending"
        /\ end[r] # "passed"
        /\ end[r] # "errored" => \E i \in Body(r) : steps[r][i] # "passed"
    <3>1. pc[r] \in Leaving /\ pc[r] \in OnSteps \cup Leaving /\ pc[r] \in {"top"} \cup Leaving
      BY <2>1 DEF Leaving
    <3>2. \A i \in Places(r) : i < at[r] \/ i > at[r] \/ i = at[r]
      BY <1>1, <1>2, <2>1
    <3>. QED
      BY <3>1, <3>2 DEF StepsFit, PhasesFit
  <2>4. \A i \in Body(r) : i \in Places(r) /\ steps'[r][i] \notin Open
                           /\ (steps[r][i] # "passed" => steps'[r][i] # "passed")
    BY <2>2, <2>3 DEF Body
  <2>5. CASE end[r] = "errored"
    <3>1. \A i \in Places(r) : steps'[r][i] \notin Open
      BY <2>2, <2>3, <2>5
    <3>2. pc'[r] = "finish" /\ pc'[r] \notin OnSteps \cup Leaving \cup Carrying \cup Asking
      BY <2>1, <2>5 DEF Leaving, OnSteps, Carrying, Asking
    <3>3. StepsFit(r)'
      BY <1>1, <2>1, <3>1, <3>2 DEF StepsFit, SamePlan, Waits
    <3>4. PhasesFit(r)'
      BY <1>1, <2>1, <2>5, <3>2 DEF PhasesFit, SamePlan
    <3>. QED
      BY <3>3, <3>4
  <2>6. CASE end[r] # "errored"
    <3>1. /\ pc'[r] = "top" /\ pc'[r] \in OnSteps
          /\ pc'[r] \notin Leaving \cup Carrying \cup Asking
      BY <2>1, <2>6 DEF Leaving, OnSteps, Carrying, Asking
    <3>2. at'[r] \notin Body(r) /\ \A i \in Places(r) : i < at'[r] => i \in Body(r)
      BY <1>2, <2>1
    <3>3. \A i \in Places(r) : i >= at'[r] => i \notin Body(r)
      BY <1>2, <2>1
    <3>4. \A i \in Places(r) : i \notin Body(r) => steps'[r][i] = "pending"
      BY <2>2, <2>3, <2>6
    <3>5. \A i \in Places(r) : (i > at'[r] => i >= at'[r]) /\ (i = at'[r] => i >= at'[r])
      BY <1>2, <2>1
    <3>6. StepsFit(r)'
      BY <1>1, <2>1, <2>4, <3>1, <3>2, <3>3, <3>4, <3>5 DEF StepsFit, SamePlan, Waits
    <3>7. PhasesFit(r)'
      BY <1>1, <2>1, <2>3, <2>4, <3>1, <3>2 DEF PhasesFit, SamePlan
    <3>. QED
      BY <3>6, <3>7
  <2>. QED
    BY <2>5, <2>6
<1>7. CASE StartStep(r)
  <2>1. /\ UNCHANGED <<status, at, end>> /\ pc[r] = "top" /\ at[r] \in Places(r)
        /\ pc[r] \in OnSteps /\ status[r] = "running" /\ steps[r][at[r]] = "pending"
    BY <1>1, <1>7 DEF StartStep, AtStep, StepsFit, Going, OnSteps
  <2>2. PICK s \in {"running", "waiting"} :
           To(r, at[r], s) /\ pc'[r] = IF s = "waiting" THEN "ask" ELSE "spawn"
    BY <1>1, <1>7, <2>1 DEF StartStep, Moves
  <2>3. \A j \in Places(r) : steps'[r][j] = IF j = at[r] THEN s ELSE steps[r][j]
    BY <1>m, <1>s, <2>2
  <2>4. /\ pc'[r] \in OnSteps /\ pc'[r] \notin {"top", "finish", "mark", "unask"} \cup Leaving
        /\ s = "waiting" => pc'[r] \in Asking /\ pc'[r] \notin Carrying
        /\ s = "running" => pc'[r] \in Carrying /\ pc'[r] \notin Asking
    BY <2>2 DEF OnSteps, Leaving, Carrying, Asking
  <2>5. \A j \in Places(r) : j < at[r] \/ j > at[r] => j # at[r]
    BY <1>1, <1>2, <2>1
  <2>6. StepsFit(r)'
    BY <1>1, <2>1, <2>2, <2>3, <2>4, <2>5 DEF StepsFit, SamePlan, Waits
  <2>7. \A i \in Body(r) : steps[r][i] # "passed" => steps'[r][i] # "passed"
    BY <2>2, <2>3 DEF Body
  <2>8. \A i \in Body(r) : i \in Places(r)
    BY DEF Body
  <2>9. PhasesFit(r)'
    BY <1>1, <2>1, <2>2, <2>3, <2>4, <2>5, <2>7, <2>8 DEF PhasesFit, SamePlan
  <2>. QED
    BY <2>6, <2>9
<1>8. CASE SpawnProcess(r) \/ RecordPid(r) \/ PollProcess(r)
  <2>1. /\ UNCHANGED <<status, steps, at, end>> /\ pc[r] \in Carrying /\ pc'[r] \in Carrying
        /\ pc'[r] \in OnSteps /\ pc'[r] \notin {"top", "finish", "unask"} \cup Leaving \cup Asking
        /\ pc[r] \in OnSteps
    BY <1>1, <1>8 DEF SpawnProcess, RecordPid, PollProcess, OnSteps, Leaving, Carrying, Asking
  <2>2. at[r] \in Places(r) /\ status[r] = "running"
    BY <1>1, <2>1 DEF StepsFit, Going
  <2>3. pc'[r] = "mark" /\ at[r] \notin Body(r) => out'[r] \in {"passed", "failed"}
    <3>1. at[r] \notin Body(r) => MayStop(r) = {}
      BY <2>2, FoundTypes DEF Body
    <3>2. out \in [Runs -> Stops \cup {"passed", "failed"}]
      BY DEF TypeOK
    <3>. QED
      BY <1>1, <1>8, <3>1, <3>2 DEF SpawnProcess, RecordPid, PollProcess
  <2>4. StepsFit(r)'
    BY <1>1, <2>1, <2>2 DEF StepsFit, SamePlan, Waits
  <2>5. PhasesFit(r)'
    BY <1>1, <2>1, <2>3 DEF PhasesFit, SamePlan
  <2>. QED
    BY <2>4, <2>5
\* A thread that gives its run up.
<1>9. ASSUME pc'[r] = "drop", UNCHANGED status, pc[r] \in Going
      PROVE  StepsFit(r)' /\ PhasesFit(r)'
  BY <1>1, <1>9, FitIdle DEF Waits
<1>10. CASE MarkStep(r)
  <2>1. /\ UNCHANGED status /\ pc[r] = "mark" /\ pc[r] \in Going /\ pc[r] \in Carrying
    BY <1>10 DEF MarkStep, Going, OnSteps, Carrying
  <2>2. CASE pc'[r] = "drop"
    BY <1>9, <2>1, <2>2
  <2>3. CASE Onward(r, out[r]) /\ To(r, at[r], IF out[r] \in {"passed", "cancelled"} THEN out[r] ELSE "failed")
    <3>1. /\ out[r] \in Stops \cup {"passed", "failed"} /\ at[r] \in Places(r)
          /\ at[r] \notin Body(r) => out[r] \in {"passed", "failed"}
      BY <2>1 DEF TypeOK, StepsFit, PhasesFit
    <3>. DEFINE s == IF out[r] \in {"passed", "cancelled"} THEN out[r] ELSE "failed"
    <3>2. s \in {"passed", "cancelled", "failed"} /\ (s = "passed" <=> out[r] = "passed")
          /\ (at[r] \notin Body(r) => s \in {"passed", "failed"})
      BY <3>1
    <3>3. To(r, at[r], s)
      BY <2>3
    <3>. HIDE DEF s
    <3>4. \A j \in Places(r) : steps'[r][j] = IF j = at[r] THEN s ELSE steps[r][j]
      BY <1>m, <1>s, <3>2, <3>3
    <3>5. steps'[r][at[r]] = s /\ s \notin Open
      BY <3>1, <3>2, <3>4 DEF Open
    <3>. QED
      BY <1>1, <2>1, <2>3, <3>1, <3>2, <3>4, <3>5, FitOnward
  <2>. QED
    BY <1>1, <1>10, <2>2, <2>3 DEF MarkStep
<1>11. CASE HearAnswer(r)
  <2>1. /\ UNCHANGED <<status, steps>> /\ pc[r] = "ask" /\ pc[r] \in OnSteps /\ pc[r] \in Asking
        /\ at[r] \in Places(r)
    BY <1>11 DEF HearAnswer, OnSteps, Asking, StepsFit
  <2>2. CASE steps[r][at[r]] \in {"passed", "failed"} /\ Onward(r, steps[r][at[r]])
    BY <1>1, <2>1, <2>2, FitOnward DEF Open
  <2>3. CASE UNCHANGED <<at, end>> /\ pc'[r] = "unask" /\ out'[r] \in MayStop(r)
    <3>1. at[r] \in Body(r) /\ out'[r] # "passed"
      BY <2>1, <2>3, FoundTypes DEF Body, Stops
    <3>2. /\ pc'[r] \in OnSteps /\ pc'[r] \in Asking
          /\ pc'[r] \notin {"top", "finish", "mark"} \cup Leaving \cup Carrying
      BY <2>3 DEF OnSteps, Leaving, Carrying, Asking
    <3>3. StepsFit(r)'
      BY <1>1, <2>1, <2>3, <3>2 DEF StepsFit, SamePlan, Going, Waits
    <3>4. PhasesFit(r)'
      BY <1>1, <2>1, <2>3, <3>1, <3>2 DEF PhasesFit, SamePlan
    <3>. QED
      BY <3>3, <3>4
  <2>. QED
    BY <1>1, <1>11, <2>2, <2>3 DEF HearAnswer, TypeOK
<1>12. CASE StopWaiting(r)
  <2>1. /\ UNCHANGED status /\ pc[r] = "unask" /\ pc[r] \in Going /\ pc[r] \in Asking
    BY <1>12 DEF StopWaiting, Going, OnSteps, Asking
  <2>2. CASE pc'[r] = "drop"
    BY <1>9, <2>1, <2>2
  <2>3. CASE Onward(r, out[r]) /\ To(r, at[r], IF out[r] = "cancelled" THEN "cancelled" ELSE "failed")
    <3>1. /\ out[r] \in Stops \cup {"passed", "failed"} /\ out[r] # "passed"
          /\ at[r] \in Places(r) /\ at[r] \in Body(r)
      BY <2>1 DEF TypeOK, StepsFit, PhasesFit
    <3>2. PICK s \in {"cancelled", "failed"} : To(r, at[r], s)
      BY <2>3
    <3>3. \A j \in Places(r) : steps'[r][j] = IF j = at[r] THEN s ELSE steps[r][j]
      BY <1>m, <1>s, <3>2
    <3>4. steps'[r][at[r]] = s /\ s \notin Open /\ s # "passed"
      BY <3>1, <3>3 DEF Open
    <3>. QED
      BY <1>1, <2>1, <2>3, <3>1, <3>3, <3>4, FitOnward
  <2>. QED
    BY <1>1, <1>12, <2>2, <2>3 DEF StopWaiting
<1>13. CASE Clear(r)
  <2>1. /\ UNCHANGED <<status, steps, at, end>> /\ pc[r] = "top" /\ pc[r] \in OnSteps
        /\ at[r] \notin Places(r) /\ pc'[r] = "finish" /\ status[r] = "running"
        /\ end[r] # "errored"
    BY <1>1, <1>13 DEF Clear, Going, OnSteps, ThreadInv
  <2>2. \A i \in Places(r) : i < at[r]
    BY <1>1, <1>2, <2>1
  <2>3. pc'[r] \notin OnSteps \cup Leaving \cup Carrying \cup Asking
    BY <2>1 DEF OnSteps, Leaving, Carrying, Asking
  <2>4. \A i \in Body(r) : i \in Places(r)
    BY DEF Body
  <2>5. StepsFit(r)'
    BY <1>1, <2>1, <2>2, <2>3 DEF StepsFit, SamePlan, Waits
  <2>6. PhasesFit(r)'
    BY <1>1, <2>1, <2>2, <2>3, <2>4 DEF PhasesFit, SamePlan
  <2>. QED
    BY <2>5, <2>6
<1>14. CASE Finish(r)
  <2>1. Verdict(end[r]) \in Final
    BY DEF TypeOK, Verdict, Stops, Final
  <2>2. pc'[r] = "over" /\ status'[r] \notin {"none"} \cup Waits
    BY <1>1, <1>14, <2>1 DEF Finish, Going, TypeOK, Final, Waits
  <2>. QED
    BY <2>2, FitIdle
<1>15. CASE Drop(r)
  <2>1. /\ UNCHANGED status /\ status[r] = "running" /\ pc'[r] = "finish" /\ end'[r] = "errored"
        /\ \/ steps' = [steps EXCEPT ![r] = GivenUp(r)]
           \/ refused' = "ending"
    BY <1>1, <1>15 DEF Drop, Going, TypeOK
  <2>2. refused' # "ending" => \A i \in Places(r) : steps'[r][i] \notin Open
    BY <1>1, <2>1, GivenUpType
  <2>3. pc'[r] \notin OnSteps \cup Leaving \cup Carrying \cup Asking
    BY <2>1 DEF OnSteps, Leaving, Carrying, Asking
  <2>4. StepsFit(r)'
    BY <1>1, <2>1, <2>2, <2>3 DEF StepsFit, SamePlan, Waits
  <2>5. PhasesFit(r)'
    BY <1>1, <2>1, <2>3 DEF PhasesFit, SamePlan
  <2>. QED
    BY <2>4, <2>5
<1>16. CASE Refused(r)
  <2>1. UNCHANGED <<status, steps>> /\ pc'[r] \in {"drop", "over"}
    BY <1>1, <1>16 DEF Refused
  <2>. QED
    BY <1>1, <2>1, FitIdle DEF StepsFit, SamePlan
<1>. QED
  BY <1>3, <1>4, <1>5, <1>6, <1>7, <1>8, <1>10, <1>11, <1>12, <1>13, <1>14, <1>15, <1>16 DEF ThreadStep

\* Once the database has refused how a run ended, that is remembered.
LEMMA RefusedStays ==
    [Next]_vars /\ refused = "ending" => refused' = "ending"
  BY DEF Next, People, Driver, World, ThreadStep, vars, histories, Queue, QueueSeen, QueueUnattended, Seen,
     Approve, ApproveSeen, Refuse, CancelRun, AnswerStep, Recover, KillOrphan, SpawnThread, Reap, Prune,
     Begin, StopBefore, NoteServer, SkipRest, StartStep, SpawnProcess, RecordPid, PollProcess, MarkStep,
     HearAnswer, StopWaiting, Clear, Finish, Drop, Refused, Edit, AskEveryTime, LosePlace, Dies, RunOut,
     Stop, StartAgain

\* Only a run that is running has a thread on its steps.
LEMMA Idle ==
    ASSUME TypeOK, ThreadInv, NEW r \in Runs, status[r] # "running"
    PROVE  pc[r] \in {"none", "begin", "over"}
  BY TypeParts DEF ThreadTypes, ThreadInv

\* A person answers a step that waits: the one the thread of the run is on, if it has one.
LEMMA AnswerFits ==
    ASSUME TypeOK, ThreadInv, NEW r \in Runs, StepsFit(r), PhasesFit(r),
           NEW i \in Places(r), AnswerStep(r, i)
    PROVE  StepsFit(r)' /\ PhasesFit(r)'
<1>1. PICK s \in {"passed", "failed"} : To(r, i, s)
  BY DEF AnswerStep, To
<1>2. /\ UNCHANGED <<status, version, pc, at, end, out, refused>> /\ steps[r][i] = "waiting"
      /\ status[r] = "running"
  BY DEF AnswerStep, thread, histories
<1>3. /\ \A j \in Places(r) : steps'[r][j] = IF j = i THEN s ELSE steps[r][j]
      /\ SamePlan(r)
  <2>1. steps \in [Runs -> Seq(StepStatuses)] /\ s \in StepStatuses
    BY DEF TypeOK, StepStatuses
  <2>2. /\ \A j \in DOMAIN steps[r] : steps'[r][j] = IF j = i THEN s ELSE steps[r][j]
        /\ DOMAIN steps'[r] = DOMAIN steps[r]
    BY <1>1, <2>1, MovedStep
  <2>. QED
    BY <1>2, <2>2, PlanKept DEF Places
<1>4. CASE pc[r] \notin OnSteps \cup Leaving \cup {"finish"}
  <2>1. pc'[r] \in {"none", "begin", "over", "drop"}
    BY <1>2, <1>4, TypeParts DEF ThreadTypes, Going
  <2>. QED
    BY <1>2, <2>1, FitIdle DEF Waits
<1>5. CASE pc[r] = "finish"
  <2>1. pc[r] \notin OnSteps \cup Leaving \cup Carrying \cup Asking
    BY <1>5 DEF OnSteps, Leaving, Carrying, Asking
  <2>2. end[r] = "errored" /\ refused = "ending"
    BY <1>2, <1>5 DEF StepsFit, Open
  <2>3. StepsFit(r)'
    BY <1>2, <1>3, <1>5, <2>1, <2>2 DEF StepsFit, SamePlan, Waits
  <2>4. PhasesFit(r)'
    BY <1>2, <1>3, <1>5, <2>1, <2>2 DEF PhasesFit, SamePlan
  <2>. QED
    BY <2>3, <2>4
<1>6. CASE pc[r] \in OnSteps \cup Leaving
  <2>1. at[r] \in Nat /\ i \in Nat /\ pc[r] # "finish"
    BY <1>6 DEF TypeOK, Places, OnSteps, Leaving, Carrying, Asking
  <2>2. ~ (i < at[r]) /\ ~ (i > at[r])
    BY <1>2, <1>6 DEF StepsFit, Open
  <2>3. i = at[r]
    BY <2>1, <2>2
  <2>4. pc[r] \in Asking
    BY <1>2, <1>6, <2>3 DEF StepsFit, OnSteps
  <2>5. pc[r] \in OnSteps /\ pc[r] \notin {"top", "finish", "mark"} \cup Carrying \cup Leaving
    BY <2>4 DEF OnSteps, Leaving, Carrying, Asking
  <2>6. \A j \in Places(r) : j < at[r] \/ j > at[r] => steps'[r][j] = steps[r][j]
    BY <1>3, <2>1, <2>3
  <2>7. StepsFit(r)'
    BY <1>2, <1>3, <2>3, <2>4, <2>5, <2>6 DEF StepsFit, SamePlan, Waits
  <2>8. PhasesFit(r)'
    <3>1. \A j \in Body(r) : j \in Places(r)
      BY DEF Body
    <3>2. \A j \in Places(r) : j < at[r] => steps'[r][j] = steps[r][j]
      BY <2>6
    <3>3. end[r] \notin {"passed", "errored"} => \E j \in Body(r) : steps'[r][j] # "passed"
      <4>1. SUFFICES ASSUME end[r] \notin {"passed", "errored"}
                     PROVE  \E j \in Body(r) : steps'[r][j] # "passed"
        OBVIOUS
      <4>2. PICK j \in Body(r) : steps[r][j] # "passed"
        BY <2>5, <4>1 DEF PhasesFit
      <4>3. j # i
        BY <2>3, <2>5, <4>1 DEF PhasesFit
      <4>. QED
        BY <1>3, <3>1, <4>2, <4>3
    <3>. QED
      BY <1>2, <1>3, <2>5, <3>1, <3>2, <3>3 DEF PhasesFit, SamePlan
  <2>. QED
    BY <2>7, <2>8
<1>. QED
  BY <1>4, <1>5, <1>6

\* Every step keeps how far the steps of each run are.
LEMMA StepInvStep ==
    SmokeAssumption /\ TypeOK /\ ThreadInv /\ StepInv /\ [Next]_vars => StepInv'
<1>. SUFFICES ASSUME SmokeAssumption, TypeOK, ThreadInv, StepInv, [Next]_vars, NEW r \in Runs
              PROVE  StepsFit(r)' /\ PhasesFit(r)'
  BY DEF StepInv
<1>. USE DEF vars, rows, settings, driver, thread, world, histories, Becomes
<1>0. /\ StepsFit(r) /\ PhasesFit(r) /\ (refused = "ending" => refused' = "ending")
      /\ status[r] # "running" => pc[r] \in {"none", "begin", "over"}
  BY RefusedStays, Idle DEF StepInv
<1>1. CASE ThreadStep(r) \/ Refused(r)
  BY <1>0, <1>1, ThreadFits
\* What is not about this run leaves it alone.
<1>2. ASSUME UNCHANGED version, status'[r] = status[r], steps'[r] = steps[r], pc'[r] = pc[r], at'[r] = at[r],
             end'[r] = end[r], out'[r] = out[r]
      PROVE  StepsFit(r)' /\ PhasesFit(r)'
  BY <1>0, <1>2, FitKept
<1>3. ASSUME NEW q \in Runs \ {r}, ThreadStep(q) \/ Refused(q)
      PROVE  StepsFit(r)' /\ PhasesFit(r)'
  BY <1>2, <1>3, OneThread DEF OffThread
<1>4. ASSUME NEW q \in Runs, NEW s \in Waits, Queued(q, s), UNCHANGED thread
      PROVE  StepsFit(r)' /\ PhasesFit(r)'
  <2>1. CASE q = r
    <3>1. /\ steps'[r] = [i \in DOMAIN Tests[file] |-> "pending"]
          /\ status'[r] = s /\ pc'[r] \in {"none", "begin", "over"}
      BY <1>0, <1>4, <2>1 DEF Queued, TypeOK
    <3>. QED
      BY <3>1, FitIdle DEF Places, Waits
  <2>2. CASE q # r
    <3>1. status'[r] = status[r] /\ steps'[r] = steps[r] /\ version'[r] = version[r]
      BY <1>4, <2>2 DEF Queued, TypeOK
    <3>2. SamePlan(r)
      BY <3>1 DEF SamePlan, Places, Body, Phase, Def
    <3>3. StepsFit(r)'
      BY <1>0, <1>4, <3>1, <3>2 DEF SamePlan, StepsFit
    <3>4. PhasesFit(r)'
      BY <1>0, <1>4, <3>1, <3>2 DEF SamePlan, PhasesFit
    <3>. QED
      BY <3>3, <3>4
  <2>. QED
    BY <2>1, <2>2
<1>5. ASSUME NEW q \in Runs, Queue(q) \/ QueueUnattended(q) \/ \E v \in Versions : QueueSeen(q, v)
      PROVE  StepsFit(r)' /\ PhasesFit(r)'
  <2>1. UNCHANGED thread /\ \E s \in Waits : Queued(q, s)
    BY <1>5 DEF Queue, QueueUnattended, QueueSeen, Waits
  <2>. QED
    BY <1>4, <2>1
<1>6. ASSUME NEW q \in Runs, Seen(q) \/ Approve(q)
      PROVE  StepsFit(r)' /\ PhasesFit(r)'
  <2>1. /\ UNCHANGED <<version, steps, pc, at, end, out>>
        /\ \/ status'[r] = status[r]
           \/ status[r] = "awaiting_approval" /\ status'[r] = "queued"
    BY <1>6 DEF Seen, Approve, ApproveRun, TypeOK
  <2>2. CASE status[r] = "awaiting_approval" /\ status'[r] = "queued"
    BY <1>0, <2>1, <2>2, FitIdle DEF StepsFit, Waits, Places
  <2>. QED
    BY <1>2, <2>1, <2>2
<1>7. ASSUME NEW q \in Runs, Refuse(q) \/ CancelRun(q)
      PROVE  StepsFit(r)' /\ PhasesFit(r)'
  <2>1. /\ UNCHANGED <<version, pc, at, end, out>>
        /\ \/ status'[r] = status[r] /\ steps'[r] = steps[r]
           \/ status[r] \in Waits /\ status'[r] \in {"refused", "cancelled"}
    BY <1>7 DEF Refuse, CancelRun, Waits, TypeOK
  <2>2. CASE status[r] \in Waits /\ status'[r] \in {"refused", "cancelled"}
    BY <1>0, <2>1, <2>2, FitIdle DEF Waits
  <2>. QED
    BY <1>2, <2>1, <2>2
<1>8. ASSUME NEW q \in Runs, NEW i \in Places(q), AnswerStep(q, i)
      PROVE  StepsFit(r)' /\ PhasesFit(r)'
  <2>1. CASE q = r
    BY <1>0, <1>8, <2>1, AnswerFits
  <2>2. CASE q # r
    BY <1>2, <1>8, <2>2 DEF AnswerStep, TypeOK
  <2>. QED
    BY <2>1, <2>2
<1>9. CASE Recover
  <2>1. pc'[r] = "none" /\ UNCHANGED version
    BY <1>9 DEF Recover, ThreadInv
  <2>2. \/ status'[r] = status[r] /\ steps'[r] = steps[r]
        \/ status'[r] = "errored"
    BY <1>9 DEF Recover
  <2>. QED
    BY <1>0, <2>1, <2>2, FitIdle DEF StepsFit, Waits, Places
<1>10. ASSUME NEW q \in Runs, Prune(q)
      PROVE  StepsFit(r)' /\ PhasesFit(r)'
  <2>1. CASE q = r
    <3>1. pc'[r] = pc[r] /\ status'[r] = "gone" /\ status[r] # "running"
      BY <1>10, <2>1 DEF Prune, TypeOK, Final
    <3>. QED
      BY <1>0, <3>1, FitIdle DEF Waits
  <2>2. CASE q # r
    <3>1. status'[r] = status[r] /\ steps'[r] = steps[r] /\ version'[r] = version[r] /\ UNCHANGED <<thread, refused>>
      BY <1>10, <2>2 DEF Prune, TypeOK
    <3>2. SamePlan(r)
      BY <3>1 DEF SamePlan, Places, Body, Phase, Def
    <3>3. StepsFit(r)'
      BY <1>0, <3>1, <3>2 DEF SamePlan, StepsFit
    <3>4. PhasesFit(r)'
      BY <1>0, <3>1, <3>2 DEF SamePlan, PhasesFit
    <3>. QED
      BY <3>3, <3>4
  <2>. QED
    BY <2>1, <2>2
<1>11. ASSUME NEW q \in Runs, SpawnThread(q) \/ Reap(q)
      PROVE  StepsFit(r)' /\ PhasesFit(r)'
  <2>1. CASE q = r
    <3>1. pc'[r] \in {"begin", "none"} /\ UNCHANGED rows
      BY <1>11, <2>1 DEF SpawnThread, Reap, TypeOK
    <3>. QED
      BY <1>0, <3>1, FitIdle DEF StepsFit, Places
  <2>2. CASE q # r
    BY <1>2, <1>11, <2>2 DEF SpawnThread, Reap, TypeOK
  <2>. QED
    BY <2>1, <2>2
<1>12. CASE Stop
  <2>1. pc'[r] = "none" /\ UNCHANGED rows
    BY <1>12 DEF Stop
  <2>. QED
    BY <1>0, <2>1, FitIdle DEF StepsFit, Places
<1>13. CASE UNCHANGED <<status, version, steps, pc, at, end, out>>
  BY <1>2, <1>13
<1>. QED
  BY <1>1, <1>3, <1>5, <1>6, <1>7, <1>8, <1>9, <1>10, <1>11, <1>12, <1>13
     DEF Next, People, Driver, World, ApproveSeen, KillOrphan, Edit, AskEveryTime, LosePlace,
         StartAgain, Dies, RunOut

---------------------------------------------------------------------------
\* Verdicts and order.

VerdictFits(r) ==
    /\ status[r] = "passed" => \A i \in Body(r) : steps[r][i] = "passed"
    /\ status[r] = "failed" => \E i \in Body(r) : steps[r][i] # "passed"
    /\ status[r] \in {"passed", "failed"} \/ (status[r] = "cancelled" /\ cancel[r]) =>
          \A i \in Places(r) \ Body(r) : steps[r][i] \in {"passed", "failed"}
    /\ status[r] \in Final /\ refused # "ending" => \A i \in Places(r) : steps[r][i] \notin Open

\* A verdict stands.
LEMMA VerdictKept ==
    ASSUME NEW r \in Runs, VerdictFits(r), status'[r] \in Final => status'[r] = status[r],
           status'[r] \in Final => /\ steps'[r] = steps[r] /\ cancel'[r] = cancel[r]
                                   /\ version'[r] = version[r],
           refused = "ending" => refused' = "ending"
    PROVE  VerdictFits(r)'
<1>1. CASE status'[r] \in Final
  <2>1. SamePlan(r)
    BY <1>1 DEF SamePlan, Places, Body, Phase, Def
  <2>. QED
    BY <1>1, <2>1 DEF VerdictFits, SamePlan
<1>2. CASE status'[r] \notin Final
  BY <1>2 DEF VerdictFits, Final
<1>. QED
  BY <1>1, <1>2

\* The thread of a run writes how it went.
LEMMA FinishTells ==
    ASSUME TypeOK, NEW r \in Runs, StepsFit(r), PhasesFit(r), VerdictFits(r), Finish(r)
    PROVE  VerdictFits(r)'
<1>1. /\ pc[r] = "finish" /\ UNCHANGED <<version, steps, cancel, refused>>
      /\ status'[r] = status[r] \/ status'[r] = Verdict(end[r])
  BY DEF Finish, Becomes, OffThread, TypeOK
<1>2. SamePlan(r)
  BY <1>1, PlanKept
<1>3. CASE status'[r] = status[r]
  BY <1>1, <1>3, VerdictKept
<1>4. CASE status'[r] = Verdict(end[r])
  <2>1. end[r] \in Stops \cup {"passed", "failed", "errored"}
    BY DEF TypeOK
  <2>2. /\ status'[r] = "passed" => end[r] = "passed"
        /\ status'[r] = "failed" => end[r] \notin {"passed", "errored"}
        /\ status'[r] \in {"passed", "failed", "cancelled"} => end[r] # "errored"
    BY <1>4, <2>1 DEF Verdict, Stops
  <2>. QED
    BY <1>1, <1>2, <2>2 DEF VerdictFits, SamePlan, StepsFit, PhasesFit
<1>. QED
  BY <1>1, <1>3, <1>4

\* Every step keeps that a verdict says what the steps did.
LEMMA VerdictStep ==
    TypeOK /\ ThreadInv /\ StepInv /\ VerdictTrue /\ [Next]_vars => VerdictTrue'
<1>. SUFFICES ASSUME TypeOK, ThreadInv, StepInv, VerdictTrue, [Next]_vars, NEW r \in Runs
              PROVE  VerdictFits(r)'
  BY DEF VerdictTrue, VerdictFits
<1>. USE DEF vars, rows, settings, driver, thread, world, histories, Becomes
<1>0. VerdictFits(r) /\ StepsFit(r) /\ PhasesFit(r) /\ (refused = "ending" => refused' = "ending")
  BY RefusedStays DEF StepInv, VerdictTrue, VerdictFits
<1>1. ASSUME status'[r] \in Final => status'[r] = status[r],
             status'[r] \in Final => /\ steps'[r] = steps[r] /\ cancel'[r] = cancel[r]
                                     /\ version'[r] = version[r]
      PROVE  VerdictFits(r)'
  BY <1>0, <1>1, VerdictKept
<1>2. ASSUME NEW q \in Runs, NEW s \in Waits, Queued(q, s), UNCHANGED cancel
      PROVE  VerdictFits(r)'
  BY <1>1, <1>2 DEF Queued, TypeOK, Waits, Final
<1>3. ASSUME NEW q \in Runs, Queue(q) \/ QueueUnattended(q) \/ \E v \in Versions : QueueSeen(q, v)
      PROVE  VerdictFits(r)'
  <2>1. UNCHANGED cancel /\ \E s \in Waits : Queued(q, s)
    BY <1>3 DEF Queue, QueueUnattended, QueueSeen, Waits
  <2>. QED
    BY <1>2, <2>1
<1>4. ASSUME NEW q \in Runs, Seen(q) \/ Approve(q) \/ Prune(q) \/ Begin(q)
      PROVE  VerdictFits(r)'
  BY <1>1, <1>4 DEF Seen, Approve, ApproveRun, Prune, Begin, OffThread, TypeOK, Final
<1>5. ASSUME NEW q \in Runs, Refuse(q) \/ CancelRun(q)
      PROVE  VerdictFits(r)'
  <2>1. CASE status[r] \in Waits /\ status'[r] \in {"refused", "cancelled"}
    <3>0. q = r /\ ~ cancel[r] /\ status[r] # "running"
      BY <1>5, <2>1 DEF Refuse, CancelRun, TypeOK, ThreadInv, Waits
    <3>1. /\ UNCHANGED <<version, cancel>>
          /\ \E s \in {"skipped", "cancelled"} : steps' = [steps EXCEPT ![r] = [i \in Places(r) |-> s]]
      BY <1>5, <3>0 DEF Refuse, CancelRun
    <3>a. \E s \in {"skipped", "cancelled"} : steps'[r] = [i \in Places(r) |-> s]
      BY <3>1 DEF TypeOK
    <3>2. DOMAIN steps'[r] = DOMAIN steps[r]
      BY <3>a DEF Places
    <3>3. SamePlan(r)
      BY <3>1, <3>2, PlanKept
    <3>. QED
      BY <2>1, <3>0, <3>1, <3>a, <3>3 DEF VerdictFits, SamePlan, Open
  <2>2. CASE ~ (status[r] \in Waits /\ status'[r] \in {"refused", "cancelled"})
    BY <1>1, <1>5, <2>2 DEF Refuse, CancelRun, TypeOK, Waits, Final
  <2>. QED
    BY <2>1, <2>2
<1>6. ASSUME NEW q \in Runs, NEW i \in Places(q), AnswerStep(q, i)
      PROVE  VerdictFits(r)'
  <2>1. /\ UNCHANGED <<status, cancel, version>> /\ (q # r => steps'[r] = steps[r])
        /\ q = r => status[r] = "running"
    BY <1>6 DEF AnswerStep, TypeOK
  <2>. QED
    BY <1>1, <2>1 DEF Final
<1>7. CASE Recover
  <2>1. CASE status[r] = "running" /\ status'[r] = "errored"
    <3>1. UNCHANGED version /\ steps'[r] = GivenUp(r)
      BY <1>7, <2>1 DEF Recover
    <3>2. \A i \in Places(r) : steps'[r][i] \notin Open
      BY <3>1, GivenUpType DEF TypeOK
    <3>3. DOMAIN steps'[r] = DOMAIN steps[r]
      BY <3>1 DEF GivenUp, Places
    <3>4. SamePlan(r)
      BY <3>1, <3>3, PlanKept
    <3>. QED
      BY <2>1, <3>2, <3>4 DEF VerdictFits, SamePlan
  <2>2. CASE ~ (status[r] = "running" /\ status'[r] = "errored")
    BY <1>1, <1>7, <2>2 DEF Recover, Final
  <2>. QED
    BY <2>1, <2>2
<1>8. ASSUME NEW q \in Runs, ThreadStep(q) \/ Refused(q)
      PROVE  VerdictFits(r)'
  <2>1. CASE q # r
    BY <1>1, <1>8, <2>1, OneThread DEF OffThread
  <2>2. CASE q = r /\ Finish(q)
    BY <1>0, <2>2, FinishTells
  <2>3. CASE q = r /\ Begin(q)
    BY <1>4, <2>3
  <2>4. CASE q = r /\ ~ Finish(q) /\ ~ Begin(q)
    <3>1. UNCHANGED <<status, cancel, version>>
      BY <1>8, <2>4 DEF ThreadStep, StopBefore, NoteServer, SkipRest, StartStep, SpawnProcess, RecordPid,
         PollProcess, MarkStep, HearAnswer, StopWaiting, Clear, Drop, Refused, OffThread
    <3>2. status[r] = "running" \/ UNCHANGED steps
      <4>1. pc[r] \in Going => status[r] = "running"
        BY DEF ThreadInv
      <4>2. pc[r] \in Going \/ UNCHANGED steps
        BY <1>8, <2>4 DEF ThreadStep, StopBefore, NoteServer, SkipRest, StartStep, AtStep, SpawnProcess,
           RecordPid, PollProcess, MarkStep, HearAnswer, StopWaiting, Clear, Drop, Refused,
           Going, OnSteps, Leaving, Carrying, Asking
      <4>. QED
        BY <4>1, <4>2
    <3>. QED
      BY <1>1, <3>1, <3>2 DEF Final
  <2>. QED
    BY <2>1, <2>2, <2>3, <2>4
<1>9. CASE UNCHANGED <<status, version, steps, cancel>>
  BY <1>1, <1>9
<1>. QED
  BY <1>3, <1>4, <1>5, <1>6, <1>7, <1>8, <1>9
     DEF Next, People, Driver, World, ApproveSeen, KillOrphan, SpawnThread, Reap, Edit, AskEveryTime,
         LosePlace, Stop, StartAgain, Dies, RunOut

\* At first there is no run, and nothing to say of its steps.
LEMMA FitInit ==
    Init => ThreadInv /\ StepInv /\ VerdictTrue
<1>. SUFFICES ASSUME Init PROVE ThreadInv /\ StepInv /\ VerdictTrue
  OBVIOUS
<1>1. ThreadInv /\ VerdictTrue
  BY DEF Init, ThreadInv, VerdictTrue, Going, OnSteps, Carrying, Asking, Leaving, Final
<1>2. ASSUME NEW r \in Runs PROVE StepsFit(r) /\ PhasesFit(r)
  <2>1. pc[r] = "none" /\ status[r] = "none" /\ Places(r) = {}
    BY DEF Init, Places
  <2>2. pc[r] \notin OnSteps \cup Leaving \cup Carrying \cup Asking
    BY <2>1 DEF OnSteps, Leaving, Carrying, Asking
  <2>3. StepsFit(r)
    BY <2>1, <2>2 DEF StepsFit
  <2>4. PhasesFit(r)
    BY <2>1, <2>2 DEF PhasesFit
  <2>. QED
    BY <2>3, <2>4
<1>. QED
  BY <1>1, <1>2 DEF StepInv

\* How a run ended says what its steps did.
THEOREM TrueVerdicts == Spec => []VerdictTrue
  BY FitInit, SmokeAssumption, ThreadInvStep, StepInvStep, VerdictStep, TypeCorrect, PTL DEF Spec

\* The action of InOrder.
Ordered ==
    \A r \in Runs : \A i \in Places(r) \cap DOMAIN steps'[r] :
       /\ steps[r][i] = "pending" /\ steps'[r][i] \in {"running", "waiting"} =>
             \A j \in 1 .. i - 1 :
                 /\ steps[r][j] \notin Open
                 /\ i \in Body(r) => steps[r][j] = "passed"
       /\ steps[r][i] \notin Open => steps'[r][i] \notin Open

\* A step that begins is the one the thread is on.
LEMMA StartOrdered ==
    ASSUME SmokeAssumption, TypeOK, ThreadInv, NEW r \in Runs, StepsFit(r), PhasesFit(r), StartStep(r)
    PROVE  \A i \in Places(r) :
              \/ steps'[r][i] = steps[r][i]
              \/ /\ steps[r][i] = "pending"
                 /\ \A j \in 1 .. i - 1 : steps[r][j] \notin Open /\ (i \in Body(r) => steps[r][j] = "passed")
<1>1. pc[r] = "top" /\ at[r] \in Places(r) /\ pc[r] \in OnSteps /\ status[r] = "running"
  BY DEF StartStep, AtStep, ThreadInv, Going, OnSteps
<1>2. steps[r][at[r]] = "pending" /\ \E s \in {"running", "waiting"} : To(r, at[r], s)
  BY <1>1 DEF StartStep, Moves, StepsFit
<1>3. \A i \in Places(r) : i # at[r] => steps'[r][i] = steps[r][i]
  <2>1. steps \in [Runs -> Seq(StepStatuses)] /\ {"running", "waiting"} \subseteq StepStatuses
    BY DEF TypeOK, StepStatuses, Open
  <2>. QED
    BY <1>2, <2>1, MovedStep DEF Places
<1>4. ASSUME NEW j \in 1 .. at[r] - 1
      PROVE  steps[r][j] \notin Open /\ (at[r] \in Body(r) => steps[r][j] = "passed")
  <2>1. /\ Places(r) = 1 .. Len(steps[r]) /\ Len(steps[r]) \in Nat
        /\ Cardinality(Body(r)) \in Nat /\ Body(r) = 1 .. Cardinality(Body(r))
    BY <1>1, BodyDown
  <2>2. j \in Places(r) /\ j < at[r] /\ (at[r] \in Body(r) => j \in Body(r))
    BY <1>1, <2>1
  <2>3. steps[r][j] \notin Open
    BY <1>1, <2>2 DEF StepsFit
  <2>4. at[r] \in Body(r) => end[r] = "passed"
    BY <1>1 DEF PhasesFit
  <2>. QED
    BY <1>1, <2>2, <2>3, <2>4 DEF PhasesFit
<1>. QED
  BY <1>2, <1>3, <1>4

\* A step of a test begins after the ones before it, and once.
LEMMA OrderedStep ==
    ASSUME SmokeAssumption, TypeOK, ThreadInv, StepInv, [Next]_vars
    PROVE  Ordered
<1>. USE DEF vars, rows, settings, driver, thread, world, histories, Becomes
<1>. SUFFICES ASSUME NEW r \in Runs
              PROVE  \A i \in Places(r) \cap DOMAIN steps'[r] :
                        \/ steps'[r][i] = steps[r][i] \/ steps'[r][i] \notin Open
                        \/ /\ steps[r][i] = "pending"
                           /\ \A j \in 1 .. i - 1 : /\ steps[r][j] \notin Open
                                                    /\ i \in Body(r) => steps[r][j] = "passed"
  BY DEF Ordered, Open
<1>0. StepsFit(r) /\ PhasesFit(r) /\ steps \in [Runs -> Seq(StepStatuses)]
  BY DEF StepInv, TypeOK
<1>s. {"passed", "failed", "cancelled"} \subseteq StepStatuses \ Open
  BY DEF StepStatuses, Open
<1>m. ASSUME NEW i, NEW s \in {"passed", "failed", "cancelled"}, To(r, i, s)
      PROVE  \A j \in Places(r) : steps'[r][j] = steps[r][j] \/ steps'[r][j] \notin Open
  <2>1. \A q \in Runs : \A j \in DOMAIN steps[q] : steps'[q][j] = IF q = r /\ j = i THEN s ELSE steps[q][j]
    <3>1. s \in StepStatuses
      BY <1>s
    <3>. QED
      BY <1>0, <1>m, <3>1, MovedStep
  <2>. QED
    BY <1>s, <2>1 DEF Places
<1>1. CASE steps'[r] = steps[r]
  BY <1>1
<1>2. CASE ThreadStep(r) \/ Refused(r)
  <2>1. CASE StartStep(r)
    BY <1>0, <2>1, StartOrdered
  <2>2. CASE NoteServer(r)
    BY <1>1, <1>m, <2>2 DEF NoteServer
  <2>3. CASE SkipRest(r)
    BY <1>0, <2>3 DEF SkipRest, Open
  <2>4. CASE MarkStep(r) \/ StopWaiting(r)
    <3>1. UNCHANGED steps \/ \E s \in {"passed", "failed", "cancelled"} : To(r, at[r], s)
      BY <2>4 DEF MarkStep, StopWaiting
    <3>. QED
      BY <1>1, <1>m, <3>1
  <2>5. CASE Drop(r)
    <3>1. UNCHANGED steps \/ steps'[r] = GivenUp(r)
      BY <1>0, <2>5 DEF Drop
    <3>. QED
      BY <1>0, <1>1, <3>1, GivenUpType
  <2>6. CASE UNCHANGED steps
    BY <1>1, <2>6
  <2>. QED
    BY <1>2, <2>1, <2>2, <2>3, <2>4, <2>5, <2>6 DEF ThreadStep, Begin, StopBefore, SpawnProcess, RecordPid,
       PollProcess, HearAnswer, Clear, Finish, Refused
<1>3. ASSUME NEW q \in Runs \ {r}, ThreadStep(q) \/ Refused(q)
      PROVE  steps'[r] = steps[r]
  BY <1>3, OneThread
<1>4. ASSUME NEW q \in Runs, NEW s, Queued(q, s)
      PROVE  steps'[r] = steps[r] \/ Places(r) = {}
  BY <1>0, <1>4 DEF Queued, StepsFit
<1>5. ASSUME NEW q \in Runs, Queue(q) \/ QueueUnattended(q) \/ \E v \in Versions : QueueSeen(q, v)
      PROVE  steps'[r] = steps[r] \/ Places(r) = {}
  <2>1. \E s : Queued(q, s)
    BY <1>5 DEF Queue, QueueUnattended, QueueSeen
  <2>. QED
    BY <1>4, <2>1
<1>6. ASSUME NEW q \in Runs, Refuse(q) \/ CancelRun(q)
      PROVE  steps'[r] = steps[r] \/ \A i \in Places(r) : steps'[r][i] \notin Open
  BY <1>0, <1>6 DEF Refuse, CancelRun, Open
<1>7. ASSUME NEW q \in Runs, NEW i \in Places(q), AnswerStep(q, i)
      PROVE  \A j \in Places(r) : steps'[r][j] = steps[r][j] \/ steps'[r][j] \notin Open
  <2>1. \E s \in {"passed", "failed"} : To(q, i, s)
    BY <1>7 DEF AnswerStep, To
  <2>2. q # r => steps'[r] = steps[r]
    BY <1>0, <2>1 DEF To
  <2>. QED
    BY <1>m, <2>1, <2>2
<1>8. CASE Recover
  <2>1. steps'[r] = steps[r] \/ steps'[r] = GivenUp(r)
    BY <1>8 DEF Recover
  <2>. QED
    BY <1>0, <1>1, <2>1, GivenUpType
<1>9. ASSUME NEW q \in Runs, Prune(q)
      PROVE  steps'[r] = steps[r] \/ DOMAIN steps'[r] = {}
  BY <1>0, <1>9 DEF Prune
<1>10. CASE UNCHANGED steps
  BY <1>1, <1>10
<1>. QED
  BY <1>1, <1>2, <1>3, <1>5, <1>6, <1>7, <1>8, <1>9, <1>10
     DEF Next, People, Driver, World, Seen, Approve, ApproveSeen, KillOrphan, SpawnThread, Reap, Edit,
         AskEveryTime, LosePlace, Stop, StartAgain, Dies, RunOut

\* Steps begin in order, and none begins a second time.
THEOREM BeginInOrder == Spec => InOrder
<1>1. TypeOK /\ ThreadInv /\ StepInv /\ [Next]_vars => [Ordered]_vars
  BY SmokeAssumption, OrderedStep
<1>. QED
  BY <1>1, FitInit, SmokeAssumption, ThreadInvStep, StepInvStep, TypeCorrect, PTL DEF Spec, InOrder, Ordered

---------------------------------------------------------------------------
\* Smoke implements TestRun.

Alive == [r \in Runs |-> \E p \in procs : p[1] = r]

\* Processes of one run end, or none does.
LEMMA FewerProcesses ==
    ASSUME NEW r \in Runs, procs' \subseteq procs, UNCHANGED status,
           \A p \in procs : p[1] # r => p \in procs'
    PROVE  Run!Rest(r) \/ UNCHANGED <<status, Alive>>
<1>1. \A q \in Runs \ {r} : (\E p \in procs' : p[1] = q) = (\E p \in procs : p[1] = q)
  OBVIOUS
<1>2. CASE \E p \in procs' : p[1] = r
  <2>1. (\E p \in procs' : p[1] = r) = (\E p \in procs : p[1] = r)
    BY <1>2
  <2>2. \A q \in Runs : (\E p \in procs' : p[1] = q) = (\E p \in procs : p[1] = q)
    BY <1>1, <2>1
  <2>. QED
    BY <2>2, Zenon DEF Alive
<1>3. CASE ~ \E p \in procs' : p[1] = r
  <2>1. \A q \in Runs : (\E p \in procs' : p[1] = q) = [Alive EXCEPT ![r] = FALSE][q]
    BY <1>1, <1>3 DEF Alive
  <2>2. [q \in Runs |-> \E p \in procs' : p[1] = q] = [Alive EXCEPT ![r] = FALSE]
    BY <2>1, Zenon DEF Alive
  <2>. QED
    BY <2>2 DEF Run!Rest, Alive
<1>. QED
  BY <1>2, <1>3

\* What a thread does is a step of the run that TestRun promises, or none of its business.
LEMMA ThreadImplements ==
    ASSUME TypeOK, ThreadInv, ProcInv, NEW r \in Runs, ThreadStep(r) \/ Refused(r)
    PROVE  [Run!Next]_<<status, Alive>>
<1>. USE DEF Becomes
<1>1. CASE UNCHANGED <<status, procs>>
  BY <1>1 DEF Alive
<1>2. CASE Begin(r)
  <2>1. UNCHANGED procs /\ (UNCHANGED status \/ (status[r] = "queued" /\ Becomes(r, "running")))
    BY <1>2 DEF Begin
  <2>2. CASE status[r] = "queued" /\ Becomes(r, "running")
    BY <2>1, <2>2 DEF Run!Begin, Run!Becomes, Run!Next
  <2>. QED
    BY <1>1, <2>1, <2>2
<1>3. CASE SpawnProcess(r)
  <2>1. UNCHANGED status /\ status[r] = "running" /\ (UNCHANGED procs \/ procs' = procs \cup {<<r, at[r]>>})
    BY <1>3 DEF SpawnProcess, ThreadInv, Going, OnSteps, Carrying
  <2>2. CASE procs' = procs \cup {<<r, at[r]>>}
    <3>1. \A q \in Runs : (\E p \in procs' : p[1] = q) = [Alive EXCEPT ![r] = TRUE][q]
      <4>1. \E p \in procs' : p[1] = r
        <5>1. <<r, at[r]>> \in procs' /\ <<r, at[r]>>[1] = r
          BY <2>2
        <5>. QED
          BY <5>1
      <4>2. \A q \in Runs \ {r} : (\E p \in procs' : p[1] = q) = (\E p \in procs : p[1] = q)
        BY <2>2
      <4>. QED
        BY <4>1, <4>2 DEF Alive
    <3>2. [q \in Runs |-> \E p \in procs' : p[1] = q] = [Alive EXCEPT ![r] = TRUE]
      BY <3>1, Zenon DEF Alive
    <3>3. Run!Work(r)
      BY <2>1, <3>2 DEF Run!Work, Alive
    <3>. QED
      BY <3>3 DEF Run!Next
  <2>. QED
    BY <1>1, <2>1, <2>2
<1>4. CASE PollProcess(r) \/ Clear(r) \/ Drop(r)
  <2>1. UNCHANGED status /\ procs' \subseteq procs
    BY <1>4 DEF PollProcess, Clear, Drop, StopServers
  <2>2. Run!Rest(r) \/ UNCHANGED <<status, Alive>>
    BY <2>1, OneThread, FewerProcesses
  <2>. QED
    BY <2>2 DEF Run!Next
<1>5. CASE Finish(r) /\ ~ UNCHANGED status
  <2>1. status[r] = "running" /\ Becomes(r, Verdict(end[r])) /\ UNCHANGED procs /\ pc[r] = "finish"
    BY <1>5 DEF Finish
  <2>2. Verdict(end[r]) \in Run!Verdicts
    BY DEF TypeOK, Verdict, Stops, Run!Verdicts
  <2>3. ~ \E p \in procs : p[1] = r
    BY <2>1 DEF ProcInv, Going
  <2>4. Run!End(r)
    BY <2>1, <2>2, <2>3 DEF Run!End, Run!Becomes
  <2>. QED
    BY <2>4 DEF Run!Next
<1>. QED
  BY <1>1, <1>2, <1>3, <1>4, <1>5 DEF ThreadStep, StopBefore, NoteServer, SkipRest, StartStep, RecordPid,
     MarkStep, HearAnswer, StopWaiting, Finish, Refused

\* Every step is one that TestRun allows of each run.
LEMMA RunStep ==
    TypeOK /\ ThreadInv /\ ProcInv /\ [Next]_vars => [Run!Next]_<<status, Alive>>
<1>. SUFFICES ASSUME TypeOK, ThreadInv, ProcInv, [Next]_vars PROVE [Run!Next]_<<status, Alive>>
  OBVIOUS
<1>. USE DEF vars, rows, settings, driver, thread, world, histories, Becomes
<1>1. CASE UNCHANGED <<status, procs>>
  BY <1>1 DEF Alive
<1>2. ASSUME NEW r \in Runs, NEW s \in {"awaiting_approval", "queued"}, Queued(r, s), UNCHANGED procs
      PROVE  [Run!Next]_<<status, Alive>>
  <2>1. Run!Ask(r, s)
    BY <1>2 DEF Queued, Run!Ask, Run!Becomes, Run!Active, Active
  <2>. QED
    BY <2>1 DEF Run!Next
<1>3. ASSUME NEW r \in Runs, Queue(r) \/ QueueUnattended(r) \/ \E v \in Versions : QueueSeen(r, v)
      PROVE  [Run!Next]_<<status, Alive>>
  <2>1. UNCHANGED procs /\ \E s \in {"awaiting_approval", "queued"} : Queued(r, s)
    BY <1>3 DEF Queue, QueueUnattended, QueueSeen
  <2>. QED
    BY <1>2, <2>1
<1>4. ASSUME NEW r \in Runs, Seen(r) \/ Approve(r) \/ Refuse(r)
      PROVE  [Run!Next]_<<status, Alive>>
  <2>1. /\ UNCHANGED procs
        /\ \/ UNCHANGED status
           \/ status[r] = "awaiting_approval" /\ \E s \in {"queued", "refused"} : Becomes(r, s)
    BY <1>4 DEF Seen, Approve, ApproveRun, Refuse
  <2>2. CASE status[r] = "awaiting_approval" /\ \E s \in {"queued", "refused"} : Becomes(r, s)
    <3>1. Run!Answer(r)
      BY <2>1, <2>2 DEF Run!Answer, Run!Becomes
    <3>. QED
      BY <3>1 DEF Run!Next
  <2>. QED
    BY <1>1, <2>1, <2>2
<1>5. ASSUME NEW r \in Runs, CancelRun(r)
      PROVE  [Run!Next]_<<status, Alive>>
  <2>1. /\ UNCHANGED procs
        /\ UNCHANGED status \/ (status[r] \in {"awaiting_approval", "queued"} /\ Becomes(r, "cancelled"))
    BY <1>5 DEF CancelRun
  <2>2. CASE status[r] \in {"awaiting_approval", "queued"} /\ Becomes(r, "cancelled")
    <3>1. Run!CallOff(r)
      BY <2>1, <2>2 DEF Run!CallOff, Run!Becomes
    <3>. QED
      BY <3>1 DEF Run!Next
  <2>. QED
    BY <1>1, <2>1, <2>2
<1>6. CASE Recover
  <2>. DEFINE rs == {r \in Runs : status[r] = "running"}
  <2>1. UNCHANGED procs
    BY <1>6 DEF Recover
  <2>2. CASE status' = [r \in Runs |-> IF r \in rs THEN "errored" ELSE status[r]]
    <3>1. Run!Interrupt(rs)
      BY <2>1, <2>2 DEF Run!Interrupt
    <3>2. rs \in SUBSET Runs
      OBVIOUS
    <3>. QED
      BY <3>1, <3>2 DEF Run!Next
  <2>. QED
    BY <1>1, <1>6, <2>1, <2>2 DEF Recover
<1>7. ASSUME NEW r \in Runs, Prune(r)
      PROVE  [Run!Next]_<<status, Alive>>
  <2>1. Run!Go(r)
    BY <1>7 DEF Prune, Run!Go, Run!Becomes, Run!Final, Run!Verdicts, Final
  <2>. QED
    BY <2>1 DEF Run!Next
<1>8. ASSUME NEW p \in procs \cup orphans, KillOrphan(p) \/ Dies(p)
      PROVE  [Run!Next]_<<status, Alive>>
  <2>1. UNCHANGED status /\ procs' = procs \ {p} /\ p[1] \in Runs
    BY <1>8 DEF KillOrphan, Dies, TypeOK
  <2>2. Run!Rest(p[1]) \/ UNCHANGED <<status, Alive>>
    BY <2>1, FewerProcesses
  <2>. QED
    BY <2>1, <2>2 DEF Run!Next
<1>9. ASSUME NEW r \in Runs, ThreadStep(r) \/ Refused(r)
      PROVE  [Run!Next]_<<status, Alive>>
  BY <1>9, ThreadImplements
<1>. QED
  BY <1>1, <1>3, <1>4, <1>5, <1>6, <1>7, <1>8, <1>9
     DEF Next, People, Driver, World, AnswerStep, ApproveSeen, SpawnThread, Reap, Edit, AskEveryTime,
         LosePlace, Stop, StartAgain, RunOut

\* Whoever reads a run's row can rely on TestRun: every step of Smoke is one of its steps or none
\* that it sees, and a verdict comes when nothing of the run is alive.
THEOREM Implements == Spec => RunKept
<1>1. Init => Run!Init
  BY DEF Init, Run!Init
<1>2. Init => ThreadInv /\ ProcInv
  BY DEF Init, ThreadInv, ProcInv, Going, OnSteps, Carrying, Asking, Leaving
<1>. QED
  BY <1>1, <1>2, SmokeAssumption, ThreadInvStep, ProcInvStep, RunStep, TypeCorrect, PTL
     DEF Spec, RunKept, Run!Spec, Alive

\* The invariant as a whole: what is known of every state.
THEOREM Invariant == Spec => []IInv
<1>1. Init => LetInv /\ ProcInv /\ OrphanInv
  BY DEF Init, LetInv, OnlyAgreed, ProcInv, OrphanInv
<1>. QED
  BY <1>1, FitInit, SmokeAssumption, TypeCorrect, LetStep, ThreadInvStep, ProcInvStep, OrphanStep,
     StepInvStep, VerdictStep, PTL DEF Spec, IInv
=============================================================================
