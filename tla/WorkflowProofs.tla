--------------------------- MODULE WorkflowProofs ---------------------------
(***************************************************************************)
(* Proofs about Workflow, for any workflows that check out: a step begins  *)
(* once what it needs has succeeded, nothing is done twice for one step, a *)
(* run ends as its steps say, a cancel stops what has not begun, and an    *)
(* agent gets one message at a time.                                       *)
(***************************************************************************)
EXTENDS Workflow, WellFoundedInduction, TLAPS

\* Where the driver is while it applies a plan, and while it carries out an effect of it.
Acts == {"act", "type"}
Doing == Acts \cup {"submit", "report"}
Applying == Doing \cup {"apply"}

Begins == {"none", "queued"}
Good == {"succeeded", "skipped"}

\* The step that is being carried out.
Doee == Head(driver.effects).step

---------------------------------------------------------------------------
\* Moves and effects.

\* A move that is applied: a step is let wait, gives up, succeeds, or was interrupted.
MoveFits(m) ==
    /\ m.step \in Steps
    /\ \/ m.from = "pending" /\ m.to \in {"waiting", "failed", "skipped"}
       \/ m.from = "waiting" /\ m.to \in {"succeeded", "failed", "skipped"}
       \/ m.from = "running" /\ m.to = "failed"

\* An effect: a step that is begun, or a message whose agent went quiet.
EffectFits(m) ==
    /\ m.step \in Steps /\ m.to = "running"
    /\ \/ m.from = "pending"
       \/ m.from = "waiting" /\ Action(m.step) = "send_to_session"

\* With the steps at st: a step moves on from where it is, and a second time only from waiting.
Ordered(st, moves) ==
    /\ \A k \in DOMAIN moves :
          (\A j \in DOMAIN moves : j < k => moves[j].step # moves[k].step)
              => st[moves[k].step] = moves[k].from
    /\ \A j, k \in DOMAIN moves :
          j < k /\ moves[j].step = moves[k].step
              => moves[j].to = "waiting" /\ moves[k].from = "waiting"

\* What step i needs has succeeded once the moves before place k are applied.
WillBeMet(st, i, moves, k) ==
    \A n \in definition[i].needs :
        \/ st[n] = "succeeded"
        \/ \E j \in DOMAIN moves : j < k /\ moves[j].step = n /\ moves[j].to = "succeeded"

\* Steps begin once what they need has succeeded.
Awaited(st, moves, effects) ==
    /\ \A k \in DOMAIN moves :
          moves[k].from = "pending" /\ moves[k].to # "skipped"
              => WillBeMet(st, moves[k].step, moves, k)
    /\ \A k \in DOMAIN effects :
          effects[k].from = "pending"
              => WillBeMet(st, effects[k].step, moves, Len(moves) + 1)

\* Step i will have ended in one of these ways once the moves are applied.
Comes(st, i, moves, ways) ==
    st[i] \in ways \/ \E k \in DOMAIN moves : moves[k].step = i /\ moves[k].to \in ways

\* How the run ends is what its steps come to.
Finishes(st, how, moves) ==
    /\ how = "succeeded" => \A i \in Steps : Comes(st, i, moves, Good)
    /\ how = "failed" => \E i \in Steps : Comes(st, i, moves, {"failed"})

\* What is left of a plan when the steps stand at st.
Left(st, moves, effects, finish) ==
    Ordered(st, moves) /\ Awaited(st, moves, effects) /\ Finishes(st, finish, moves)

---------------------------------------------------------------------------
\* The inductive invariant.

\* Where the driver is, and what its run is then.
DriverInv ==
    /\ ~app => driver = Resting
    /\ driver.pc \notin Applying => driver.moves = <<>> /\ driver.effects = <<>> /\ driver.finish = "none"
    /\ driver.pc \notin {"rest", "begin"} => run \notin Begins
    /\ driver.pc = "begin" => run # "none" /\ (~driver.queued => run # "queued")
    /\ driver.pc \in Doing =>
          /\ driver.moves = <<>> /\ driver.effects # <<>>
          /\ status[Doee] = "running" \/ (Final(status[Doee]) /\ run # "running")
    /\ driver.pc \in {"type", "submit"} => Action(Doee) = "send_to_session"
    /\ driver.pc = "report" => driver.outcome # "none"
    /\ \A k \in DOMAIN driver.moves : MoveFits(driver.moves[k])
    /\ \A k \in DOMAIN driver.effects : EffectFits(driver.effects[k])
    /\ driver.finish # "none" => driver.effects = <<>>
    /\ run \in Begins => \A i \in Steps : status[i] = "pending"

\* What the rest of a plan does, as long as nobody cancels.
PlanInv ==
    run = "running" =>
        /\ Left(status, driver.moves, driver.effects, driver.finish)
        /\ \A i \in Steps : status[i] # "cancelled"

\* Nothing was done yet for a step that is to be done.
Undone(i) ==
    \/ status[i] = "pending"
    \/ status[i] = "waiting" /\ Action(i) # "run_test"
    \/ driver.pc \in Acts /\ i = Doee
    \/ driver.pc = "report" /\ i = Doee /\ driver.outcome = "waiting" /\ Action(i) # "run_test"

OnceInv == \A i \in Steps : acted[i] <= 1 /\ (Undone(i) => acted[i] = 0)

\* After an effect of a run that has ended there is no other.
LateInv == late <= 1 /\ (late = 1 => run \notin {"none", "queued", "running"} /\ driver.pc \notin Acts)

\* An agent that was typed to is busy, or the driver remembers.
UnreadInv ==
    /\ \A p \in unread : Alive(p)
    /\ driver.pc # "rest" => \A p \in unread : Busy(p) \/ p \in driver.typed
    /\ driver.pc = "type" =>
          definition[Doee].session \in driver.typed /\ definition[Doee].session \notin unread

IInv == TypeOK /\ DriverInv /\ NeedsMet /\ PlanInv /\ RunTrue /\ OnceInv /\ LateInv /\ UnreadInv

---------------------------------------------------------------------------
\* What a recursive function on the natural numbers is.

\* A set of natural numbers that has 0, and the next of each it has, has them all.
LEMMA Induction ==
    ASSUME NEW T, 0 \in T, \A n \in Nat : n \in T => n + 1 \in T
    PROVE  \A n \in Nat : n \in T
<1>. DEFINE R == OpToRel(<, Nat)
            S == Nat \ T
<1>. SUFFICES ASSUME S # {} PROVE FALSE
  OBVIOUS
<1>1. PICK m \in S : \A n \in S : ~ (<<n, m>> \in R)
  <2>1. IsWellFoundedOn(R, Nat)
    BY NatLessThanWellFounded
  <2>2. S \in SUBSET Nat
    OBVIOUS
  <2>. HIDE DEF R, S
  <2>. QED
    BY <2>1, <2>2, WFMin
<1>2. \A a, b \in Nat : <<a, b>> \in R <=> a < b
  BY DEF OpToRel
<1>. HIDE DEF R
<1>3. m \in Nat /\ m # 0 /\ m - 1 \in Nat /\ m - 1 < m
  OBVIOUS
<1>4. <<m - 1, m>> \in R
  BY <1>2, <1>3
<1>5. m - 1 \notin S
  <2>. HIDE DEF S
  <2>. QED
    BY <1>1, <1>4
<1>. QED
  BY <1>3, <1>5

\* A function that starts with a and goes on as G says.
Recurs(f, a, G) == f = [k \in Nat |-> IF k = 0 THEN a ELSE G[k][f[k - 1]]]

\* There is one.
LEMMA Recursion == \A a, G : \E f : Recurs(f, a, G)
<1>. SUFFICES ASSUME NEW a, NEW G PROVE \E f : Recurs(f, a, G)
  OBVIOUS
<1>. DEFINE Goes(f, n) == f[0] = a /\ \A k \in 1 .. n : f[k] = G[k][f[k - 1]]
<1>1. \A n \in Nat : \E f : Goes(f, n)
  <2>. DEFINE T == {n \in Nat : \E f : Goes(f, n)}
  <2>1. 0 \in T
    <3>. DEFINE f == [k \in {0} |-> a]
    <3>1. Goes(f, 0)
      OBVIOUS
    <3>. QED
      BY <3>1
  <2>2. ASSUME NEW n \in Nat, n \in T PROVE n + 1 \in T
    <3>1. PICK f : Goes(f, n)
      BY <2>2
    <3>. DEFINE g == [k \in 0 .. n + 1 |-> IF k = n + 1 THEN G[n + 1][f[n]] ELSE f[k]]
    <3>2. g[0] = a
      BY <3>1
    <3>3. ASSUME NEW k \in 1 .. n + 1 PROVE g[k] = G[k][g[k - 1]]
      <4>1. g[k - 1] = f[k - 1]
        OBVIOUS
      <4>2. CASE k = n + 1
        BY <4>1, <4>2
      <4>3. CASE k # n + 1
        <5>1. k \in 1 .. n /\ g[k] = f[k]
          BY <4>3
        <5>. QED
          BY <3>1, <4>1, <5>1
      <4>. QED
        BY <4>2, <4>3
    <3>4. Goes(g, n + 1)
      BY <3>2, <3>3
    <3>. HIDE DEF g
    <3>. QED
      BY <3>4
  <2>. HIDE DEF T
  <2>3. \A n \in Nat : n \in T
    BY <2>1, <2>2, Induction
  <2>. QED
    BY <2>3 DEF T
<1>. DEFINE F == [n \in Nat |-> CHOOSE f : Goes(f, n)]
<1>2. \A n \in Nat : Goes(F[n], n)
  BY <1>1
<1>. HIDE DEF F
<1>3. ASSUME NEW n \in Nat, NEW m \in Nat PROVE \A k \in Nat : k <= n /\ k <= m => F[n][k] = F[m][k]
  <2>. DEFINE T == {k \in Nat : k <= n /\ k <= m => F[n][k] = F[m][k]}
  <2>1. 0 \in T
    BY <1>2
  <2>2. ASSUME NEW k \in Nat, k \in T PROVE k + 1 \in T
    <3>. SUFFICES ASSUME k + 1 <= n, k + 1 <= m PROVE F[n][k + 1] = F[m][k + 1]
      OBVIOUS
    <3>1. F[n][k] = F[m][k]
      BY <2>2
    <3>2. k + 1 \in 1 .. n /\ k + 1 \in 1 .. m /\ (k + 1) - 1 = k
      OBVIOUS
    <3>3. F[n][k + 1] = G[k + 1][F[n][k]] /\ F[m][k + 1] = G[k + 1][F[m][k]]
      BY <1>2, <3>2
    <3>. QED
      BY <3>1, <3>3
  <2>. HIDE DEF T
  <2>3. \A k \in Nat : k \in T
    BY <2>1, <2>2, Induction
  <2>. QED
    BY <2>3 DEF T
<1>. DEFINE f == [k \in Nat |-> F[k][k]]
<1>4. ASSUME NEW k \in Nat PROVE f[k] = IF k = 0 THEN a ELSE G[k][f[k - 1]]
  <2>1. CASE k = 0
    BY <1>2, <2>1
  <2>2. CASE k # 0
    <3>1. k \in 1 .. k /\ k - 1 \in Nat /\ k - 1 <= k /\ k - 1 <= k - 1
      BY <2>2
    <3>2. F[k][k] = G[k][F[k][k - 1]]
      BY <1>2, <3>1
    <3>3. F[k][k - 1] = F[k - 1][k - 1]
      BY <1>3, <3>1
    <3>4. f[k] = F[k][k] /\ f[k - 1] = F[k - 1][k - 1]
      BY <3>1
    <3>. HIDE DEF f
    <3>. QED
      BY <2>2, <3>2, <3>3, <3>4
  <2>. QED
    BY <2>1, <2>2
<1>5. f = [k \in Nat |-> f[k]]
  OBVIOUS
<1>. HIDE DEF f
<1>6. Recurs(f, a, G)
  BY <1>4, <1>5 DEF Recurs
<1>. QED
  BY <1>6

\* A plan before the first visit, and after another.
LEMMA VisitedIs ==
    ASSUME NEW k \in Nat
    PROVE  Visited[k] = IF k = 0 THEN [status |-> status, moves |-> <<>>, effects |-> <<>>]
                        ELSE Visit[((k - 1) % Len(definition)) + 1][Visited[k - 1]]
<1>. DEFINE a == [status |-> status, moves |-> <<>>, effects |-> <<>>]
            G == [j \in Nat |-> Visit[((j - 1) % Len(definition)) + 1]]
            Is(f) == f = [j \in Nat |-> IF j = 0 THEN a
                                        ELSE Visit[((j - 1) % Len(definition)) + 1][f[j - 1]]]
<1>1. PICK aa, GG : aa = a /\ GG = G
  OBVIOUS
<1>2. PICK f : Recurs(f, aa, GG)
  BY Recursion
<1>3. Is(f)
  BY <1>1, <1>2 DEF Recurs
<1>4. Visited = CHOOSE g : Is(g)
  BY DEF Visited
<1>5. Is(Visited)
  <2>. HIDE DEF Is
  <2>. QED
    BY <1>3, <1>4
<1>. QED
  BY <1>5

---------------------------------------------------------------------------
\* What a plan comes to.

\* The steps of a workflow that checks out.
LEMMA DefinitionIs ==
    ASSUME definition \in Workflows
    PROVE  /\ Len(definition) \in Nat /\ Steps = 1 .. Len(definition)
           /\ \A i \in Steps : /\ definition[i].needs \subseteq Steps
                               /\ Action(i) \in Actions
                               /\ Action(i) = "start_session" => i \in Ptys
                               /\ Action(i) = "send_to_session" => definition[i].session \in Ptys
<1>1. definition \in Seq(StepDefs) /\ CheckedOut(definition)
  BY WorkflowAssumption
<1>2. Len(definition) \in Nat /\ Steps = 1 .. Len(definition)
  BY <1>1 DEF Steps
<1>3. ASSUME NEW i \in Steps PROVE Action(i) \in Actions
  <2>1. definition[i] \in StepDefs
    BY <1>1, <1>3 DEF Steps
  <2>. QED
    BY <2>1 DEF StepDefs, Action
<1>. QED
  BY <1>1, <1>2, <1>3 DEF CheckedOut, Steps, Ptys, Action

\* What becomes of a step that moves.
LEMMA BecomesIs ==
    ASSUME definition \in Workflows, NEW st, NEW i \in Steps, Becomes(st, i) # st[i]
    PROVE  \/ st[i] = "pending" /\ Becomes(st, i) = "skipped"
           \/ st[i] = "pending" /\ Ready(st, i) /\ Becomes(st, i) \in {"running", "waiting", "failed", "skipped"}
           \/ st[i] = "waiting" /\ Becomes(st, i) \in {"succeeded", "failed", "skipped"}
           \/ st[i] = "waiting" /\ Becomes(st, i) = "running" /\ Action(i) = "send_to_session"
<1>1. Action(i) \in Actions
  BY DefinitionIs
<1>2. Begun(st, i) \in {"running", "waiting", "failed", "skipped"}
  <2>1. CASE Action(i) \in {"start_session", "notify", "run_test"}
    BY <2>1 DEF Begun
  <2>2. CASE Action(i) = "wait_pr_activity"
    BY <2>2 DEF Begun
  <2>3. CASE Action(i) = "wait_session"
    BY <2>3 DEF Begun
  <2>4. CASE Action(i) = "send_to_session"
    BY <2>4 DEF Begun
  <2>. QED
    BY <1>1, <2>1, <2>2, <2>3, <2>4 DEF Actions
<1>3. \/ Waited(st, i) \in {"succeeded", "failed", "skipped", "waiting"}
      \/ Waited(st, i) = "running" /\ Action(i) = "send_to_session"
  <2>1. CASE Action(i) = "wait_session"
    BY <2>1 DEF Waited
  <2>2. CASE Action(i) = "wait_pr_activity"
    BY <2>2 DEF Waited
  <2>3. CASE Action(i) = "run_test"
    BY <2>3 DEF Waited
  <2>4. CASE Action(i) = "send_to_session"
    BY <2>4 DEF Waited
  <2>5. CASE Action(i) \in {"start_session", "notify"}
    BY <2>5 DEF Waited
  <2>. QED
    BY <1>1, <2>1, <2>2, <2>3, <2>4, <2>5 DEF Actions
<1>4. CASE st[i] = "pending" /\ Blocked(st, i)
  <2>1. ~ Ready(st, i)
    BY <1>4 DEF Blocked, Ready
  <2>. QED
    BY <1>4, <2>1 DEF Becomes
<1>5. CASE st[i] = "pending" /\ ~ Blocked(st, i) /\ Ready(st, i)
  <2>1. Becomes(st, i) = Begun(st, i)
    BY <1>5 DEF Becomes
  <2>. QED
    BY <1>2, <1>5, <2>1
<1>6. CASE st[i] = "waiting"
  <2>1. Becomes(st, i) = Waited(st, i)
    BY <1>6 DEF Becomes
  <2>. QED
    BY <1>3, <1>6, <2>1
<1>7. CASE ~ (st[i] = "pending" /\ Blocked(st, i)) /\ ~ (st[i] = "pending" /\ Ready(st, i)) /\ st[i] # "waiting"
  BY <1>7 DEF Becomes
<1>. QED
  BY <1>4, <1>5, <1>6, <1>7

\* How the steps stand is what the moves say.
Told(plan) ==
    /\ \A i \in Steps :
          \/ plan.status[i] \in {status[i], "running"}
          \/ \E k \in DOMAIN plan.moves : plan.moves[k].step = i /\ plan.moves[k].to = plan.status[i]
    /\ \A k \in DOMAIN plan.moves :
          /\ plan.moves[k].from # "running"
          /\ plan.status[plan.moves[k].step] # "pending"
          /\ plan.moves[k].to # "waiting" => plan.status[plan.moves[k].step] = plan.moves[k].to
    /\ \A k \in DOMAIN plan.effects : plan.status[plan.effects[k].step] = "running"

PlanFits(plan) ==
    /\ plan \in Plans
    /\ \A k \in DOMAIN plan.moves : MoveFits(plan.moves[k])
    /\ \A k \in DOMAIN plan.effects : EffectFits(plan.effects[k])
    /\ Ordered(status, plan.moves)
    /\ Awaited(status, plan.moves, plan.effects)
    /\ Told(plan)

\* One more move.
LEMMA Appended ==
    ASSUME NEW S, NEW s \in Seq(S), NEW e \in S
    PROVE  /\ Append(s, e) \in Seq(S) /\ Len(s) \in Nat /\ Len(Append(s, e)) = Len(s) + 1
           /\ DOMAIN s = 1 .. Len(s) /\ DOMAIN Append(s, e) = 1 .. Len(s) + 1
           /\ \A k \in DOMAIN s : Append(s, e)[k] = s[k]
           /\ Append(s, e)[Len(s) + 1] = e
OBVIOUS

\* What step i needs will have succeeded, if it has in the plan.
LEMMA ReadyMet ==
    ASSUME definition \in Workflows, NEW plan, PlanFits(plan), NEW i \in Steps, Ready(plan.status, i)
    PROVE  WillBeMet(status, i, plan.moves, Len(plan.moves) + 1)
<1>1. definition[i].needs \subseteq Steps
  BY DefinitionIs
<1>2. plan.moves \in Seq(Moves)
  BY DEF PlanFits, Plans
<1>3. \A j \in DOMAIN plan.moves : j < Len(plan.moves) + 1
  BY <1>2
<1>. SUFFICES ASSUME NEW n \in definition[i].needs
              PROVE  \/ status[n] = "succeeded"
                     \/ \E j \in DOMAIN plan.moves :
                           j < Len(plan.moves) + 1 /\ plan.moves[j].step = n /\ plan.moves[j].to = "succeeded"
  BY DEF WillBeMet
<1>4. plan.status[n] = "succeeded"
  BY DEF Ready
<1>. QED
  BY <1>1, <1>3, <1>4 DEF PlanFits, Told

\* A visit that moves the step.
LEMMA VisitIs ==
    ASSUME NEW plan \in Plans, NEW i \in Steps, NEW to, to = Becomes(plan.status, i), to # plan.status[i],
           NEW move, move = [step |-> i, from |-> plan.status[i], to |-> to],
           NEW next, next = Visit[i][plan]
    PROVE  /\ next.status = [plan.status EXCEPT ![i] = to]
           /\ to = "running" => next.moves = plan.moves /\ next.effects = Append(plan.effects, move)
           /\ to # "running" => next.effects = plan.effects /\ next.moves = Append(plan.moves, move)
           /\ next = [status |-> next.status, moves |-> next.moves, effects |-> next.effects]
<1>1. CASE to = "running"
  <2>1. next = [[plan EXCEPT !.status[i] = to] EXCEPT !.effects = Append(@, move)]
    BY <1>1 DEF Visit
  <2>. QED
    BY <1>1, <2>1 DEF Plans
<1>2. CASE to # "running"
  <2>1. next = [[plan EXCEPT !.status[i] = to] EXCEPT !.moves = Append(@, move)]
    BY <1>2 DEF Visit
  <2>. QED
    BY <1>2, <2>1 DEF Plans
<1>. QED
  BY <1>1, <1>2

\* A visit leaves a plan that fits.
LEMMA VisitFits ==
    ASSUME definition \in Workflows, NEW plan, PlanFits(plan), NEW i \in Steps
    PROVE  PlanFits(Visit[i][plan])
<1>. DEFINE to == Becomes(plan.status, i)
            move == [step |-> i, from |-> plan.status[i], to |-> to]
            next == Visit[i][plan]
<1>1. plan \in Plans
  BY DEF PlanFits
<1>2. CASE to = plan.status[i]
  <2>1. Visit[i][plan] = plan
    BY <1>1, <1>2 DEF Visit
  <2>. QED
    BY <2>1
<1>3. CASE to # plan.status[i]
  <2>1. /\ plan.status[i] \in {"pending", "waiting"} /\ to \in StepStatus \ {"pending", "cancelled"}
        /\ plan.status[i] = "pending" /\ to # "skipped" => Ready(plan.status, i)
        /\ plan.status[i] = "pending" /\ to # "running" => to \in {"waiting", "failed", "skipped"}
        /\ plan.status[i] = "waiting" /\ to # "running" => to \in {"succeeded", "failed", "skipped"}
        /\ plan.status[i] = "waiting" /\ to = "running" => Action(i) = "send_to_session"
    BY <1>3, BecomesIs DEF StepStatus
  <2>2. /\ next.status = [plan.status EXCEPT ![i] = to]
        /\ to = "running" => next.moves = plan.moves /\ next.effects = Append(plan.effects, move)
        /\ to # "running" => next.effects = plan.effects /\ next.moves = Append(plan.moves, move)
        /\ next = [status |-> next.status, moves |-> next.moves, effects |-> next.effects]
    BY <1>1, <1>3, VisitIs
  <2>3. plan.status \in [Steps -> StepStatus] /\ plan.moves \in Seq(Moves) /\ plan.effects \in Seq(Moves)
    BY <1>1 DEF Plans
  <2>4. i \in Nat
    BY DefinitionIs
  <2>5. move \in Moves /\ move.step = i /\ move.from = plan.status[i] /\ move.to = to
    BY <2>1, <2>3, <2>4 DEF Moves, StepStatus
  <2>6. plan.status[i] = "pending" /\ to # "skipped" => WillBeMet(status, i, plan.moves, Len(plan.moves) + 1)
    BY <2>1, ReadyMet
  <2>. HIDE DEF to, move, next
  <2>7. next.status \in [Steps -> StepStatus]
    BY <2>1, <2>2, <2>3
  <2>8. CASE to = "running"
    <3>0. next.moves = plan.moves /\ next.effects = Append(plan.effects, move)
      BY <2>2, <2>8
    <3>1. /\ next.moves = plan.moves /\ next.effects = Append(plan.effects, move)
          /\ DOMAIN plan.effects = 1 .. Len(plan.effects) /\ DOMAIN next.effects = 1 .. Len(plan.effects) + 1
          /\ \A k \in DOMAIN plan.effects : next.effects[k] = plan.effects[k]
          /\ next.effects[Len(plan.effects) + 1] = move
          /\ next.effects \in Seq(Moves)
      BY <2>3, <2>5, <3>0, Appended
    <3>2. \A k \in DOMAIN next.effects : k \in DOMAIN plan.effects \/ k = Len(plan.effects) + 1
      BY <2>3, <3>1
    <3>3. next \in Plans
      BY <2>2, <2>3, <2>7, <3>1 DEF Plans
    <3>4. EffectFits(move)
      BY <2>1, <2>5, <2>8 DEF EffectFits
    <3>5. \A k \in DOMAIN next.effects : EffectFits(next.effects[k])
      BY <3>1, <3>2, <3>4 DEF PlanFits
    <3>6. Awaited(status, next.moves, next.effects)
      <4>1. \A k \in DOMAIN next.effects :
               next.effects[k].from = "pending" => WillBeMet(status, next.effects[k].step, next.moves, Len(next.moves) + 1)
        BY <2>5, <2>6, <2>8, <3>1, <3>2 DEF PlanFits, Awaited
      <4>. QED
        BY <3>1, <4>1 DEF PlanFits, Awaited
    <3>7. Told(next)
      <4>1. \A j \in Steps : next.status[j] = IF j = i THEN to ELSE plan.status[j]
        BY <2>2, <2>3
      <4>2. ASSUME NEW j \in Steps
            PROVE  \/ next.status[j] \in {status[j], "running"}
                   \/ \E k \in DOMAIN next.moves : next.moves[k].step = j /\ next.moves[k].to = next.status[j]
        BY <2>8, <3>1, <4>1 DEF PlanFits, Told
      <4>3. ASSUME NEW k \in DOMAIN next.moves
            PROVE  /\ next.moves[k].from # "running"
                   /\ next.status[next.moves[k].step] # "pending"
                   /\ next.moves[k].to # "waiting" => next.status[next.moves[k].step] = next.moves[k].to
        <5>1. MoveFits(plan.moves[k]) /\ plan.moves[k].from # "running" /\ plan.status[plan.moves[k].step] # "pending"
              /\ (plan.moves[k].to # "waiting" => plan.status[plan.moves[k].step] = plan.moves[k].to)
          BY <3>1 DEF PlanFits, Told
        <5>2. plan.moves[k].step = i => plan.moves[k].to = "waiting"
          BY <2>1, <5>1 DEF MoveFits
        <5>. QED
          BY <2>8, <3>1, <4>1, <5>1, <5>2 DEF MoveFits
      <4>4. ASSUME NEW k \in DOMAIN next.effects PROVE next.status[next.effects[k].step] = "running"
        <5>1. CASE k \in DOMAIN plan.effects
          BY <2>8, <3>1, <4>1, <5>1 DEF PlanFits, Told, EffectFits
        <5>2. CASE k = Len(plan.effects) + 1
          BY <2>5, <2>8, <3>1, <4>1, <5>2
        <5>. QED
          BY <3>2, <5>1, <5>2
      <4>. QED
        BY <4>2, <4>3, <4>4 DEF Told
    <3>8. PlanFits(next)
      BY <3>1, <3>3, <3>5, <3>6, <3>7 DEF PlanFits
    <3>. QED
      BY <3>8 DEF next
  <2>9. CASE to # "running"
    <3>0. next.effects = plan.effects /\ next.moves = Append(plan.moves, move)
      BY <2>2, <2>9
    <3>1. /\ next.effects = plan.effects /\ next.moves = Append(plan.moves, move)
          /\ Len(plan.moves) \in Nat /\ Len(next.moves) = Len(plan.moves) + 1
          /\ DOMAIN plan.moves = 1 .. Len(plan.moves) /\ DOMAIN next.moves = 1 .. Len(plan.moves) + 1
          /\ \A k \in DOMAIN plan.moves : next.moves[k] = plan.moves[k]
          /\ next.moves[Len(plan.moves) + 1] = move
          /\ next.moves \in Seq(Moves)
      BY <2>3, <2>5, <3>0, Appended
    <3>2. \A k \in DOMAIN next.moves : k \in DOMAIN plan.moves \/ k = Len(plan.moves) + 1
      BY <3>1
    <3>3. next \in Plans
      BY <2>2, <2>3, <2>7, <3>1 DEF Plans
    <3>4. MoveFits(move)
      BY <2>1, <2>5, <2>9 DEF MoveFits
    <3>5. \A k \in DOMAIN next.moves : MoveFits(next.moves[k])
      BY <3>1, <3>2, <3>4 DEF PlanFits
    <3>6. \A j \in DOMAIN plan.moves : j \in DOMAIN next.moves /\ j < Len(plan.moves) + 1
      BY <3>1
    <3>7. \A j \in DOMAIN plan.moves : plan.moves[j].step = i => plan.moves[j].to = "waiting" /\ plan.status[i] = "waiting"
      BY <2>1 DEF PlanFits, Told, MoveFits
    <3>8. Ordered(status, next.moves)
      <4>1. ASSUME NEW k \in DOMAIN next.moves, \A j \in DOMAIN next.moves : j < k => next.moves[j].step # next.moves[k].step
            PROVE  status[next.moves[k].step] = next.moves[k].from
        <5>1. CASE k \in DOMAIN plan.moves
          BY <3>1, <3>6, <4>1, <5>1 DEF PlanFits, Ordered
        <5>2. CASE k = Len(plan.moves) + 1
          <6>1. \A j \in DOMAIN plan.moves : plan.moves[j].step # i
            BY <2>5, <3>1, <3>6, <4>1, <5>2
          <6>2. plan.status[i] = status[i]
            BY <2>1, <6>1 DEF PlanFits, Told
          <6>. QED
            BY <2>5, <3>1, <5>2, <6>2
        <5>. QED
          BY <3>2, <5>1, <5>2
      <4>2. ASSUME NEW j \in DOMAIN next.moves, NEW k \in DOMAIN next.moves, j < k, next.moves[j].step = next.moves[k].step
            PROVE  next.moves[j].to = "waiting" /\ next.moves[k].from = "waiting"
        <5>0. j \in DOMAIN plan.moves
          BY <3>1, <4>2
        <5>1. CASE k \in DOMAIN plan.moves
          BY <3>1, <4>2, <5>0, <5>1 DEF PlanFits, Ordered
        <5>2. CASE k = Len(plan.moves) + 1
          BY <2>5, <3>1, <3>7, <4>2, <5>0, <5>2
        <5>. QED
          BY <3>2, <5>1, <5>2
      <4>. QED
        BY <4>1, <4>2 DEF Ordered
    <3>9. \A s : \A k \in Nat : k <= Len(plan.moves) + 1 /\ WillBeMet(status, s, plan.moves, k) => WillBeMet(status, s, next.moves, k)
      BY <3>1, <3>6 DEF WillBeMet
    <3>10. \A s : WillBeMet(status, s, plan.moves, Len(plan.moves) + 1) => WillBeMet(status, s, next.moves, Len(next.moves) + 1)
      <4>1. \A j \in DOMAIN next.moves : j < Len(plan.moves) + 1 => j < Len(next.moves) + 1
        BY <3>1
      <4>. QED
        BY <3>1, <3>6, <4>1 DEF WillBeMet
    <3>11. Awaited(status, next.moves, next.effects)
      <4>1. ASSUME NEW k \in DOMAIN next.moves, next.moves[k].from = "pending", next.moves[k].to # "skipped"
            PROVE  WillBeMet(status, next.moves[k].step, next.moves, k)
        <5>1. CASE k \in DOMAIN plan.moves
          <6>1. WillBeMet(status, plan.moves[k].step, plan.moves, k)
            BY <3>1, <4>1, <5>1 DEF PlanFits, Awaited
          <6>2. k \in Nat /\ k <= Len(plan.moves) + 1
            BY <3>1, <5>1
          <6>. QED
            BY <3>1, <3>9, <5>1, <6>1, <6>2
        <5>2. CASE k = Len(plan.moves) + 1
          <6>1. WillBeMet(status, i, plan.moves, Len(plan.moves) + 1)
            BY <2>5, <2>6, <3>1, <4>1, <5>2
          <6>2. k \in Nat /\ k <= Len(plan.moves) + 1
            BY <3>1, <5>2
          <6>. QED
            BY <2>5, <3>1, <3>9, <5>2, <6>1, <6>2
        <5>. QED
          BY <3>2, <5>1, <5>2
      <4>2. ASSUME NEW k \in DOMAIN next.effects, next.effects[k].from = "pending"
            PROVE  WillBeMet(status, next.effects[k].step, next.moves, Len(next.moves) + 1)
        BY <3>1, <3>10, <4>2 DEF PlanFits, Awaited
      <4>. QED
        BY <4>1, <4>2 DEF Awaited
    <3>12. Told(next)
      <4>1. \A j \in Steps : next.status[j] = IF j = i THEN to ELSE plan.status[j]
        BY <2>2, <2>3
      <4>2. ASSUME NEW j \in Steps
            PROVE  \/ next.status[j] \in {status[j], "running"}
                   \/ \E k \in DOMAIN next.moves : next.moves[k].step = j /\ next.moves[k].to = next.status[j]
        <5>1. CASE j = i
          <6>1. Len(plan.moves) + 1 \in DOMAIN next.moves
            BY <3>1
          <6>. QED
            BY <2>5, <3>1, <4>1, <5>1, <6>1
        <5>2. CASE j # i
          BY <3>1, <3>6, <4>1, <5>2 DEF PlanFits, Told
        <5>. QED
          BY <5>1, <5>2
      <4>3. ASSUME NEW k \in DOMAIN next.moves
            PROVE  /\ next.moves[k].from # "running"
                   /\ next.status[next.moves[k].step] # "pending"
                   /\ next.moves[k].to # "waiting" => next.status[next.moves[k].step] = next.moves[k].to
        <5>1. CASE k \in DOMAIN plan.moves
          <6>1. plan.moves[k].step \in Steps
            BY <5>1 DEF PlanFits, MoveFits
          <6>. QED
            BY <2>1, <3>1, <3>7, <4>1, <5>1, <6>1 DEF PlanFits, Told
        <5>2. CASE k = Len(plan.moves) + 1
          BY <2>1, <2>5, <3>1, <4>1, <5>2
        <5>. QED
          BY <3>2, <5>1, <5>2
      <4>4. ASSUME NEW k \in DOMAIN next.effects PROVE next.status[next.effects[k].step] = "running"
        <5>1. plan.effects[k].step \in Steps /\ plan.status[plan.effects[k].step] = "running"
          BY <3>1 DEF PlanFits, Told, EffectFits
        <5>. QED
          BY <2>1, <3>1, <4>1, <5>1
      <4>. QED
        BY <4>2, <4>3, <4>4 DEF Told
    <3>13. PlanFits(next)
      BY <3>1, <3>3, <3>5, <3>8, <3>11, <3>12 DEF PlanFits
    <3>. QED
      BY <3>13 DEF next
  <2>. QED
    BY <2>8, <2>9
<1>. QED
  BY <1>2, <1>3

\* A plan fits.
LEMMA AdvanceFits ==
    ASSUME definition \in Workflows, status \in [Steps -> StepStatus]
    PROVE  PlanFits(Advance)
<1>. DEFINE n == Len(definition)
            T == {k \in Nat : k = 0 \/ n # 0 => PlanFits(Visited[k])}
<1>1. n \in Nat /\ Steps = 1 .. n
  BY DefinitionIs
<1>2. 0 \in T
  <2>1. Visited[0] = [status |-> status, moves |-> <<>>, effects |-> <<>>]
    BY VisitedIs
  <2>2. Visited[0] \in Plans
    BY <2>1 DEF Plans
  <2>. QED
    BY <2>1, <2>2 DEF PlanFits, Ordered, Awaited, Told
<1>3. ASSUME NEW k \in Nat, k \in T PROVE k + 1 \in T
  <2>. SUFFICES ASSUME n # 0 PROVE PlanFits(Visited[k + 1])
    OBVIOUS
  <2>1. k + 1 \in Nat /\ k + 1 # 0 /\ (k + 1) - 1 = k
    OBVIOUS
  <2>2. Visited[k + 1] = Visit[(k % n) + 1][Visited[k]]
    BY <2>1, VisitedIs
  <2>3. (k % n) + 1 \in Steps
    BY <1>1
  <2>4. PlanFits(Visited[k])
    BY <1>3
  <2>. QED
    BY <2>2, <2>3, <2>4, VisitFits
<1>. HIDE DEF T
<1>4. \A k \in Nat : k \in T
  BY <1>2, <1>3, Induction
<1>5. n * (2 * n + 1) \in Nat /\ (n = 0 => n * (2 * n + 1) = 0)
  BY <1>1
<1>6. PlanFits(Visited[n * (2 * n + 1)])
  BY <1>4, <1>5 DEF T
<1>. QED
  BY <1>6 DEF Advance

\* The steps that are running among none, and among one more.
LEMMA RunningAmongIs ==
    /\ RunningAmong[0] = <<>>
    /\ \A k \in Nat : RunningAmong[k] \in Seq(Nat)
    /\ \A k \in Nat : RunningAmong[k + 1] = IF status[k + 1] = "running"
                                           THEN Append(RunningAmong[k], k + 1) ELSE RunningAmong[k]
<1>. DEFINE G == [k \in Nat |-> [v \in Seq(Nat) |-> IF status[k] = "running" THEN Append(v, k) ELSE v]]
            Is(f) == f = [k \in Nat |-> IF k = 0 THEN <<>>
                                        ELSE IF status[k] = "running" THEN Append(f[k - 1], k) ELSE f[k - 1]]
<1>1. PICK a, GG : a = <<>> /\ GG = G
  OBVIOUS
<1>2. PICK f : Recurs(f, a, GG)
  BY Recursion
<1>3. \A k \in Nat : f[k] = IF k = 0 THEN <<>> ELSE G[k][f[k - 1]]
  BY <1>1, <1>2 DEF Recurs
<1>4. \A k \in Nat : f[k] \in Seq(Nat)
  <2>. DEFINE T == {k \in Nat : f[k] \in Seq(Nat)}
  <2>1. 0 \in T
    <3>1. f[0] = <<>>
      <4>. HIDE DEF G
      <4>. QED
        BY <1>3
    <3>2. f[0] \in Seq(Nat)
      BY <3>1
    <3>. QED
      BY <3>2
  <2>2. ASSUME NEW k \in Nat, k \in T PROVE k + 1 \in T
    <3>1. k + 1 \in Nat /\ k + 1 # 0 /\ (k + 1) - 1 = k /\ f[k] \in Seq(Nat)
      BY <2>2
    <3>2. f[k + 1] = G[k + 1][f[k]]
      BY <1>3, <3>1
    <3>3. f[k + 1] = IF status[k + 1] = "running" THEN Append(f[k], k + 1) ELSE f[k]
      BY <3>1, <3>2
    <3>4. f[k + 1] \in Seq(Nat)
      BY <3>1, <3>3
    <3>. QED
      BY <3>4
  <2>. HIDE DEF T
  <2>3. \A k \in Nat : k \in T
    BY <2>1, <2>2, Induction
  <2>. QED
    BY <2>3 DEF T
<1>5. \A k \in Nat : f[k] = IF k = 0 THEN <<>>
                            ELSE IF status[k] = "running" THEN Append(f[k - 1], k) ELSE f[k - 1]
  <2>. SUFFICES ASSUME NEW k \in Nat, k # 0
                PROVE  f[k] = IF status[k] = "running" THEN Append(f[k - 1], k) ELSE f[k - 1]
    BY <1>3
  <2>1. k - 1 \in Nat /\ f[k - 1] \in Seq(Nat)
    BY <1>4
  <2>2. f[k] = G[k][f[k - 1]]
    BY <1>3
  <2>. QED
    BY <2>1, <2>2
<1>6. Is(f)
  <2>1. f = [k \in Nat |-> f[k]]
    BY <1>2 DEF Recurs
  <2>. QED
    BY <1>5, <2>1
<1>7. RunningAmong = CHOOSE g : Is(g)
  BY DEF RunningAmong
<1>. HIDE DEF G
<1>8. Is(RunningAmong)
  <2>. HIDE DEF Is
  <2>. QED
    BY <1>6, <1>7
<1>9. \A k \in Nat : RunningAmong[k] = IF k = 0 THEN <<>>
                                       ELSE IF status[k] = "running" THEN Append(RunningAmong[k - 1], k)
                                       ELSE RunningAmong[k - 1]
  BY <1>8
<1>. HIDE DEF Is
<1>10. ASSUME NEW k \in Nat
       PROVE  RunningAmong[k + 1] = IF status[k + 1] = "running" THEN Append(RunningAmong[k], k + 1)
                                    ELSE RunningAmong[k]
  <2>1. k + 1 \in Nat /\ k + 1 # 0 /\ (k + 1) - 1 = k
    OBVIOUS
  <2>. QED
    BY <1>9, <2>1
<1>11. \A k \in Nat : RunningAmong[k] \in Seq(Nat)
  <2>. DEFINE T == {k \in Nat : RunningAmong[k] \in Seq(Nat)}
  <2>1. 0 \in T
    <3>1. RunningAmong[0] = <<>> /\ <<>> \in Seq(Nat)
      BY <1>9
    <3>. QED
      BY <3>1
  <2>2. ASSUME NEW k \in Nat, k \in T PROVE k + 1 \in T
    <3>1. k + 1 \in Nat /\ RunningAmong[k] \in Seq(Nat)
      BY <2>2
    <3>2. Append(RunningAmong[k], k + 1) \in Seq(Nat)
      BY <3>1
    <3>3. RunningAmong[k + 1] \in {Append(RunningAmong[k], k + 1), RunningAmong[k]}
      BY <1>10
    <3>4. RunningAmong[k + 1] \in Seq(Nat)
      BY <3>1, <3>2, <3>3
    <3>. QED
      BY <3>4
  <2>. HIDE DEF T
  <2>3. \A k \in Nat : k \in T
    BY <2>1, <2>2, Induction
  <2>. QED
    BY <2>3 DEF T
<1>. QED
  BY <1>9, <1>10, <1>11

\* They run, and each is there once.
LEMMA RunningOnce ==
    ASSUME NEW k \in Nat
    PROVE  /\ \A j \in DOMAIN RunningAmong[k] :
                 RunningAmong[k][j] \in 1 .. k /\ status[RunningAmong[k][j]] = "running"
           /\ \A j, l \in DOMAIN RunningAmong[k] : j < l => RunningAmong[k][j] # RunningAmong[k][l]
<1>. DEFINE Once(n) == /\ \A j \in DOMAIN RunningAmong[n] :
                             RunningAmong[n][j] \in 1 .. n /\ status[RunningAmong[n][j]] = "running"
                       /\ \A j, l \in DOMAIN RunningAmong[n] : j < l => RunningAmong[n][j] # RunningAmong[n][l]
            T == {n \in Nat : Once(n)}
<1>1. 0 \in T
  BY RunningAmongIs
<1>2. ASSUME NEW n \in Nat, n \in T PROVE n + 1 \in T
  <2>. DEFINE r == RunningAmong[n]
              s == RunningAmong[n + 1]
  <2>1. Once(n) /\ n + 1 \in Nat
    BY <1>2
  <2>2. r \in Seq(Nat) /\ s = IF status[n + 1] = "running" THEN Append(r, n + 1) ELSE r
    BY RunningAmongIs
  <2>3. CASE status[n + 1] # "running"
    <3>1. Once(n + 1)
      BY <2>1, <2>2, <2>3
    <3>. QED
      BY <3>1
  <2>4. CASE status[n + 1] = "running"
    <3>1. s = Append(r, n + 1)
      BY <2>2, <2>4
    <3>2. /\ DOMAIN r = 1 .. Len(r) /\ DOMAIN s = 1 .. Len(r) + 1 /\ Len(r) \in Nat
          /\ \A j \in DOMAIN r : s[j] = r[j]
          /\ s[Len(r) + 1] = n + 1
      <4>. HIDE DEF r, s
      <4>. QED
        BY <2>1, <2>2, <3>1
    <3>3. \A j \in DOMAIN r : r[j] \in 1 .. n /\ status[r[j]] = "running"
      BY <2>1
    <3>4. \A j, l \in DOMAIN r : j < l => r[j] # r[l]
      BY <2>1
    <3>. HIDE DEF r, s
    <3>5. ASSUME NEW j \in DOMAIN s PROVE s[j] \in 1 .. n + 1 /\ status[s[j]] = "running"
      <4>1. CASE j \in DOMAIN r
        BY <3>2, <3>3, <4>1
      <4>2. CASE j = Len(r) + 1
        BY <2>4, <3>2, <4>2
      <4>. QED
        BY <3>2, <4>1, <4>2
    <3>6. ASSUME NEW j \in DOMAIN s, NEW l \in DOMAIN s, j < l PROVE s[j] # s[l]
      <4>0. j \in DOMAIN r
        BY <3>2, <3>6
      <4>1. CASE l \in DOMAIN r
        BY <3>2, <3>4, <3>6, <4>0, <4>1
      <4>2. CASE l = Len(r) + 1
        <5>1. s[j] \in 1 .. n /\ s[l] = n + 1
          BY <3>2, <3>3, <4>0, <4>2
        <5>. QED
          BY <5>1
      <4>. QED
        BY <3>2, <4>1, <4>2
    <3>7. Once(n + 1)
      BY <3>5, <3>6 DEF s
    <3>. QED
      BY <2>1, <3>7
  <2>. QED
    BY <2>3, <2>4
<1>. HIDE DEF T
<1>3. \A n \in Nat : n \in T
  BY <1>1, <1>2, Induction
<1>. QED
  BY <1>3 DEF T

\* Steps that were interrupted fail, whatever else is to be done.
LEMMA InterruptedFits ==
    ASSUME definition \in Workflows, NEW moves, moves = Interrupted("failed")
    PROVE  /\ moves \in Seq(Moves)
           /\ \A k \in DOMAIN moves : MoveFits(moves[k]) /\ moves[k].from = "running"
           /\ Ordered(status, moves)
<1>. DEFINE found == RunningAmong[Len(definition)]
<1>1. Len(definition) \in Nat /\ Steps = 1 .. Len(definition)
  BY DefinitionIs
<1>2. found \in Seq(Nat)
  BY <1>1, RunningAmongIs
<1>3. /\ \A j \in DOMAIN found : found[j] \in Steps /\ status[found[j]] = "running"
      /\ \A j, l \in DOMAIN found : j < l => found[j] # found[l]
  BY <1>1, RunningOnce
<1>4. moves = [k \in DOMAIN found |-> [step |-> found[k], from |-> "running", to |-> "failed"]]
  BY DEF Interrupted
<1>. HIDE DEF found
<1>5. DOMAIN moves = DOMAIN found /\ DOMAIN found = 1 .. Len(found) /\ Len(found) \in Nat
  BY <1>2, <1>4
<1>6. \A k \in DOMAIN moves :
         moves[k].step = found[k] /\ moves[k].from = "running" /\ moves[k].to = "failed" /\ moves[k] \in Moves
  BY <1>1, <1>3, <1>4 DEF Moves, StepStatus
<1>7. moves \in Seq(Moves)
  <2>1. \A k \in 1 .. Len(found) : moves[k] \in Moves
    BY <1>5, <1>6
  <2>2. moves \in [1 .. Len(found) -> Moves]
    BY <1>4, <1>5, <2>1
  <2>. QED
    BY <1>5, <2>2
<1>8. \A k \in DOMAIN moves : MoveFits(moves[k]) /\ moves[k].from = "running"
  BY <1>3, <1>5, <1>6 DEF MoveFits
<1>9. Ordered(status, moves)
  BY <1>3, <1>5, <1>6 DEF Ordered
<1>. QED
  BY <1>7, <1>8, <1>9

---------------------------------------------------------------------------
\* The type invariant.

Drivers == [pc : {"rest", "begin", "recover", "plan", "apply", "act", "type", "submit", "report"},
            queued : BOOLEAN, moves : Seq(Moves), effects : Seq(Moves),
            finish : {"none", "succeeded", "failed"}, again : BOOLEAN, typed : SUBSET Ptys,
            outcome : {"none", "succeeded", "failed", "skipped", "waiting"}]
Forges == [out : BOOLEAN, posts : {"unknown", "none", "some"}]
Sessions == [state : {"none", "alive", "ended"}, busy : BOOLEAN, held : BOOLEAN,
             bursts : 0 .. MaxBursts, holds : 0 .. MaxHolds]

RowTypes ==
    /\ definition \in Workflows
    /\ run \in {"none", "queued", "running", "succeeded", "failed", "cancelled"}
    /\ status \in [Steps -> StepStatus]
    /\ test \in [Steps -> {"none", "active", "verdict", "none reached", "gone"}]

WorldTypes ==
    /\ {turned, settled, overdue} \subseteq SUBSET Steps
    /\ forge \in Forges
    /\ sess \in [Ptys -> Sessions]
    /\ {origin, place, app, recovered, posted, refused} \subseteq BOOLEAN

HistoryTypes == acted \in [Steps -> Nat] /\ late \in Nat /\ unread \subseteq Ptys

\* The type invariant is that of the rows, of the driver, of the world and of the histories.
LEMMA TypeParts == TypeOK <=> RowTypes /\ driver \in Drivers /\ WorldTypes /\ HistoryTypes
BY DEF TypeOK, RowTypes, Drivers, WorldTypes, HistoryTypes, Forges, Sessions

\* The first of a sequence, and the rest.
LEMMA HeadIs ==
    ASSUME NEW S, NEW s \in Seq(S), s # <<>>
    PROVE  /\ 1 \in DOMAIN s /\ Head(s) = s[1] /\ Head(s) \in S /\ Tail(s) \in Seq(S)
           /\ Len(s) \in Nat /\ DOMAIN s = 1 .. Len(s)
           /\ DOMAIN Tail(s) = 1 .. Len(s) - 1
           /\ \A k \in DOMAIN Tail(s) : k + 1 \in DOMAIN s /\ Tail(s)[k] = s[k + 1]
OBVIOUS

\* The effect that is carried out is one of the driver's.
LEMMA DoeeIs ==
    ASSUME driver \in Drivers, DriverInv, driver.pc \in Doing
    PROVE  /\ Doee \in Steps /\ driver.effects # <<>> /\ driver.moves = <<>>
           /\ Head(driver.effects) = driver.effects[1] /\ 1 \in DOMAIN driver.effects
           /\ Tail(driver.effects) \in Seq(Moves)
<1>1. driver.effects \in Seq(Moves) /\ driver.effects # <<>> /\ driver.moves = <<>>
  BY DEF Drivers, DriverInv
<1>2. 1 \in DOMAIN driver.effects /\ Head(driver.effects) = driver.effects[1] /\ Tail(driver.effects) \in Seq(Moves)
  BY <1>1, HeadIs
<1>3. EffectFits(driver.effects[1])
  BY <1>2 DEF DriverInv
<1>. QED
  BY <1>1, <1>2, <1>3 DEF EffectFits, Doee

\* The types of the rows hold at first.
LEMMA TypeInit == Init => TypeOK
<1>. SUFFICES ASSUME Init PROVE TypeOK
  OBVIOUS
<1>1. RowTypes
  BY DEF Init, RowTypes, Steps, StepStatus
<1>2. driver \in Drivers
  BY DEF Init, Resting, Drivers
<1>3. WorldTypes
  <2>1. sess \in [Ptys -> Sessions]
    BY WorkflowAssumption DEF Init, Sessions
  <2>. QED
    BY <2>1 DEF Init, WorldTypes, NoAnswer, Forges
<1>4. HistoryTypes
  BY DEF Init, HistoryTypes
<1>. QED
  BY <1>1, <1>2, <1>3, <1>4, TypeParts

\* A step moves to what a step can be.
LEMMA MovedType ==
    ASSUME RowTypes, NEW i, NEW from, NEW to \in StepStatus, Moved(i, from, to), definition' = definition
    PROVE  status' \in [Steps -> StepStatus]'
BY DEF RowTypes, Moved, Steps

\* The rows, the rest of a row, and what a row says of the workflow stay what they are.
LEMMA RowTypesStep == TypeOK /\ DriverInv /\ [Next]_vars => RowTypes'
<1>. SUFFICES ASSUME TypeOK, DriverInv, [Next]_vars PROVE RowTypes'
  OBVIOUS
<1>. USE DEF rows, database, memory, world, histories, UnchangedByDriver, UnchangedByWorld
<1>0. RowTypes /\ driver \in Drivers
  BY TypeParts
<1>1. definition' = definition /\ Steps' = Steps
  BY DEF Next, vars, Queue, Cancel, Vanish, Driving, Tick, GiveUp, Start, Recover, Plan, Apply, Claim, EndPass,
         CarryOut, StartSession, Notify, RunTest, Look, Type, Submit, Report, Refused, Work, Quiet, Turn,
         Exit, Hold, LetGo, TestEnds, TimeOut, Post, Answer, Stop, StartAgain, Steps
<1>2. CASE UNCHANGED <<run, status, test>>
  BY <1>0, <1>1, <1>2 DEF RowTypes
<1>3. CASE Queue
  BY <1>0, <1>1, <1>3 DEF Queue, RowTypes
<1>4. CASE Cancel
  BY <1>0, <1>1, <1>4 DEF Cancel, RowTypes, StepStatus, Steps
<1>5. CASE GiveUp
  BY <1>0, <1>1, <1>5 DEF GiveUp, Finished, RowTypes
<1>6. CASE Start
  BY <1>0, <1>1, <1>6 DEF Start, RowTypes
<1>7. CASE Apply
  <2>1. Head(driver.moves) \in Moves
    BY <1>0, <1>7, HeadIs DEF Apply, Drivers
  <2>2. Head(driver.moves).to \in StepStatus
    BY <2>1 DEF Moves
  <2>. QED
    BY <1>0, <1>1, <1>7, <2>2, MovedType DEF Apply, RowTypes
<1>8. CASE Claim
  BY <1>0, <1>1, <1>8, MovedType DEF Claim, RowTypes, StepStatus
<1>9. CASE EndPass
  BY <1>0, <1>1, <1>9 DEF EndPass, Finished, RowTypes, Drivers
<1>10. CASE Report
  <2>1. driver.outcome \in StepStatus
    BY <1>0, <1>10 DEF Report, At, DriverInv, Drivers, StepStatus
  <2>. QED
    BY <1>0, <1>1, <1>10, <2>1, MovedType DEF Report, RowTypes
<1>11. ASSUME NEW i \in Steps, RunTest(i) PROVE RowTypes'
  BY <1>0, <1>1, <1>11 DEF RunTest, RowTypes
<1>12. ASSUME NEW i \in Steps, TestEnds(i) PROVE RowTypes'
  BY <1>0, <1>1, <1>12 DEF TestEnds, RowTypes
<1>13. CASE Tick \/ Recover \/ Plan \/ Type \/ Submit \/ Refused \/ Vanish \/ Post \/ Answer \/ Stop \/ StartAgain
  BY <1>2, <1>13 DEF Tick, Recover, Plan, Type, Submit, Refused, Vanish, Post, Answer, Stop, StartAgain
<1>14. ASSUME NEW i \in Steps, StartSession(i) \/ Notify(i) \/ Look(i) \/ TimeOut(i) PROVE RowTypes'
  BY <1>2, <1>14 DEF StartSession, Notify, Look, TimeOut
<1>15. ASSUME NEW p \in Ptys, Work(p) \/ Quiet(p) \/ Turn(p) \/ Exit(p) \/ Hold(p) \/ LetGo(p) PROVE RowTypes'
  BY <1>2, <1>15 DEF Work, Quiet, Turn, Exit, Hold, LetGo
<1>16. CASE UNCHANGED vars
  BY <1>2, <1>16 DEF vars
<1>. QED
  BY <1>3, <1>4, <1>5, <1>6, <1>7, <1>8, <1>9, <1>10, <1>11, <1>12, <1>13, <1>14, <1>15, <1>16
     DEF Next, Driving, CarryOut

\* The driver keeps its type.
LEMMA DriverTypesStep == TypeOK /\ DriverInv /\ [Next]_vars => (driver \in Drivers)'
<1>. SUFFICES ASSUME TypeOK, DriverInv, [Next]_vars PROVE (driver \in Drivers)'
  OBVIOUS
<1>. USE DEF rows, database, memory, world, histories, UnchangedByDriver, UnchangedByWorld
<1>0. RowTypes /\ driver \in Drivers /\ RowTypes' /\ Ptys' = Ptys
  <2>1. definition' = definition
    BY DEF Next, vars, Queue, Cancel, Vanish, Driving, Tick, GiveUp, Start, Recover, Plan, Apply, Claim, EndPass,
           CarryOut, StartSession, Notify, RunTest, Look, Type, Submit, Report, Refused, Work, Quiet, Turn,
           Exit, Hold, LetGo, TestEnds, TimeOut, Post, Answer, Stop, StartAgain
  <2>. QED
    BY <2>1, TypeParts, RowTypesStep DEF Ptys, Steps, Action
<1>1. Drivers' = Drivers
  BY <1>0 DEF Drivers
<1>. SUFFICES driver' \in Drivers
  BY <1>1
<1>2. CASE UNCHANGED driver
  BY <1>0, <1>2
<1>3. Resting \in Drivers
  BY DEF Resting, Drivers
<1>4. \A pc \in {"rest", "begin", "recover", "plan", "apply", "act", "type", "submit", "report"} :
         [driver EXCEPT !.pc = pc] \in Drivers
  BY <1>0 DEF Drivers
<1>5. \A how \in {"succeeded", "failed", "skipped", "waiting"} : Came(how) => driver' \in Drivers
  BY <1>0 DEF Drivers, Came
<1>6. CASE Tick
  <2>1. \A b \in BOOLEAN : [Resting EXCEPT !.pc = "begin", !.queued = b] \in Drivers
    BY <1>3 DEF Drivers
  <2>. QED
    BY <1>3, <1>6, <2>1, (run = "queued") \in BOOLEAN DEF Tick, Rest
<1>7. CASE GiveUp \/ Stop \/ Refused
  BY <1>3, <1>7 DEF GiveUp, Stop, Refused, Rest
<1>8. CASE Start
  BY <1>3, <1>4, <1>8 DEF Start, Rest, Goto
<1>9. CASE Recover
  <2>1. Interrupted("failed") \in Seq(Moves)
    BY <1>0, InterruptedFits DEF RowTypes
  <2>2. (IF recovered THEN <<>> ELSE Interrupted("failed")) \in Seq(Moves)
    BY <2>1
  <2>. QED
    BY <1>0, <1>9, <2>2 DEF Recover, Drivers
<1>10. CASE Plan
  <2>1. Advance \in Plans
    BY <1>0, AdvanceFits DEF RowTypes, PlanFits
  <2>2. Finish(Advance.status) \in {"none", "succeeded", "failed"}
    BY DEF Finish
  <2>3. Advance.moves \in Seq(Moves) /\ Advance.effects \in Seq(Moves)
    BY <2>1 DEF Plans
  <2>4. driver' = [driver EXCEPT !.pc = "apply", !.again = FALSE, !.moves = Advance.moves,
                                 !.effects = Advance.effects, !.finish = Finish(Advance.status)]
    BY <1>10 DEF Plan
  <2>. QED
    BY <1>0, <2>2, <2>3, <2>4 DEF Drivers
<1>11. CASE Apply
  <2>1. Tail(driver.moves) \in Seq(Moves)
    BY <1>0, <1>11, HeadIs DEF Apply, Drivers
  <2>. QED
    BY <1>0, <1>11, <2>1 DEF Apply, Drivers
<1>12. CASE Claim
  <2>1. Tail(driver.effects) \in Seq(Moves)
    BY <1>0, <1>12, HeadIs DEF Claim, Drivers
  <2>2. [driver EXCEPT !.effects = Tail(@)] \in Drivers
    BY <1>0, <2>1 DEF Drivers
  <2>. QED
    BY <1>3, <1>4, <1>12, <2>2 DEF Claim, Rest, Goto
<1>13. CASE EndPass
  BY <1>3, <1>4, <1>13 DEF EndPass, Rest, Goto
<1>14. CASE Report
  <2>1. Tail(driver.effects) \in Seq(Moves)
    BY <1>0, <1>14, DoeeIs DEF Report, At, Doing
  <2>2. (driver.again \/ driver.outcome # "waiting") \in BOOLEAN
    OBVIOUS
  <2>. QED
    BY <1>0, <1>14, <2>1, <2>2 DEF Report, Drivers
<1>15. CASE Type
  BY <1>4, <1>5, <1>15 DEF Type, Goto
<1>16. CASE Submit
  BY <1>5, <1>16 DEF Submit
<1>17. ASSUME NEW i \in Steps, StartSession(i) \/ Notify(i) \/ RunTest(i) PROVE driver' \in Drivers
  BY <1>5, <1>17 DEF StartSession, Notify, RunTest
<1>18. ASSUME NEW i \in Steps, Look(i) PROVE driver' \in Drivers
  <2>1. definition[i].session \in Ptys
    BY <1>0, <1>18, DefinitionIs DEF Look, RowTypes
  <2>2. [driver EXCEPT !.pc = "type", !.typed = @ \cup {definition[i].session}] \in Drivers
    BY <1>0, <2>1 DEF Drivers
  <2>. QED
    BY <1>5, <1>18, <2>2 DEF Look
<1>19. CASE Queue \/ Cancel \/ Vanish \/ Post \/ Answer \/ StartAgain \/ UNCHANGED vars
  BY <1>2, <1>19 DEF Queue, Cancel, Vanish, Post, Answer, StartAgain, vars
<1>20. ASSUME NEW p \in Ptys, Work(p) \/ Quiet(p) \/ Turn(p) \/ Exit(p) \/ Hold(p) \/ LetGo(p)
       PROVE  driver' \in Drivers
  BY <1>2, <1>20 DEF Work, Quiet, Turn, Exit, Hold, LetGo
<1>21. ASSUME NEW i \in Steps, TestEnds(i) \/ TimeOut(i) PROVE driver' \in Drivers
  BY <1>2, <1>21 DEF TestEnds, TimeOut
<1>. QED
  BY <1>6, <1>7, <1>8, <1>9, <1>10, <1>11, <1>12, <1>13, <1>14, <1>15, <1>16, <1>17, <1>18, <1>19, <1>20, <1>21
     DEF Next, Driving, CarryOut

\* The world keeps its types.
LEMMA WorldTypesStep == TypeOK /\ DriverInv /\ [Next]_vars => WorldTypes'
<1>. SUFFICES ASSUME TypeOK, DriverInv, [Next]_vars PROVE WorldTypes'
  OBVIOUS
<1>. USE DEF rows, database, memory, world, histories, UnchangedByDriver, UnchangedByWorld
<1>0. RowTypes /\ driver \in Drivers /\ WorldTypes
  BY TypeParts
<1>1. definition' = definition
  BY DEF Next, vars, Queue, Cancel, Vanish, Driving, Tick, GiveUp, Start, Recover, Plan, Apply, Claim, EndPass,
         CarryOut, StartSession, Notify, RunTest, Look, Type, Submit, Report, Refused, Work, Quiet, Turn,
         Exit, Hold, LetGo, TestEnds, TimeOut, Post, Answer, Stop, StartAgain
<1>2. Steps' = Steps /\ Ptys' = Ptys
  BY <1>1 DEF Ptys, Steps, Action
<1>3. CASE UNCHANGED <<turned, settled, overdue, forge, sess, origin, place, app, recovered, posted, refused>>
  BY <1>0, <1>2, <1>3 DEF WorldTypes
<1>4. CASE Queue \/ Cancel \/ GiveUp \/ Apply \/ Claim \/ EndPass \/ Report \/ Type \/ Submit \/ UNCHANGED vars
  BY <1>3, <1>4 DEF Queue, Cancel, GiveUp, Apply, Claim, EndPass, Report, Type, Submit, vars
<1>5. CASE Vanish \/ StartAgain \/ Start \/ Recover \/ Refused \/ Post
  BY <1>0, <1>2, <1>5 DEF Vanish, StartAgain, Start, Recover, Refused, Post, WorldTypes
<1>6. NoAnswer \in Forges /\ \A f \in Forges, b \in BOOLEAN : [f EXCEPT !.out = b] \in Forges
  BY DEF NoAnswer, Forges
<1>7. CASE Tick
  BY <1>0, <1>2, <1>6, <1>7 DEF Tick, WorldTypes
<1>8. CASE Stop
  BY <1>0, <1>2, <1>6, <1>8 DEF Stop, WorldTypes
<1>9. CASE Plan
  <2>1. forge' \in Forges
    BY <1>0, <1>6, <1>9 DEF Plan, Asked, WorldTypes
  <2>. QED
    BY <1>0, <1>2, <1>9, <2>1 DEF Plan, WorldTypes
<1>10. CASE Answer
  <2>1. [out |-> FALSE, posts |-> IF posted THEN "some" ELSE "none"] \in Forges
    BY DEF Forges
  <2>2. forge' \in Forges
    BY <1>0, <1>6, <1>10, <2>1 DEF Answer, WorldTypes
  <2>. QED
    BY <1>0, <1>2, <1>10, <2>2 DEF Answer, WorldTypes
<1>11. ASSUME NEW i \in Steps, Notify(i) \/ RunTest(i) \/ Look(i) \/ TestEnds(i) PROVE WorldTypes'
  BY <1>3, <1>11 DEF Notify, RunTest, Look, TestEnds
<1>12. ASSUME NEW i \in Steps, TimeOut(i) PROVE WorldTypes'
  BY <1>0, <1>2, <1>12 DEF TimeOut, WorldTypes
<1>13. ASSUME NEW p \in Ptys, sess' = [sess EXCEPT ![p] = sess'[p]], sess'[p] \in Sessions
       PROVE  sess' \in [Ptys -> Sessions]
  BY <1>0, <1>13 DEF WorldTypes
<1>14. ASSUME NEW i \in Steps, StartSession(i) PROVE WorldTypes'
  <2>1. i \in Ptys
    BY <1>0, <1>14, DefinitionIs DEF StartSession, RowTypes
  <2>2. sess[i] \in Sessions /\ [sess[i] EXCEPT !.state = "alive"] \in Sessions
    BY <1>0, <2>1 DEF WorldTypes, Sessions
  <2>3. sess' \in [Ptys -> Sessions]
    BY <1>0, <1>14, <2>1, <2>2 DEF StartSession, WorldTypes
  <2>. QED
    BY <1>0, <1>2, <1>14, <2>3 DEF StartSession, WorldTypes
<1>15. ASSUME NEW p \in Ptys, Work(p) \/ Quiet(p) \/ Turn(p) \/ Exit(p) \/ Hold(p) \/ LetGo(p)
       PROVE  WorldTypes'
  <2>1. sess[p] \in Sessions /\ sess \in [Ptys -> Sessions] /\ MaxBursts \in Nat /\ MaxHolds \in Nat
    BY <1>0, WorkflowAssumption DEF WorldTypes
  <2>2. sess' \in [Ptys -> Sessions]
    <3>1. CASE Work(p)
      <4>1. \/ sess[p].bursts < MaxBursts /\ sess' = [sess EXCEPT ![p].busy = TRUE, ![p].bursts = @ + 1]
            \/ sess' = [sess EXCEPT ![p].busy = TRUE]
        BY <3>1 DEF Work
      <4>2. sess[p].bursts \in 0 .. MaxBursts
        BY <2>1 DEF Sessions
      <4>3. CASE sess[p].bursts < MaxBursts /\ sess' = [sess EXCEPT ![p].busy = TRUE, ![p].bursts = @ + 1]
        <5>1. sess[p].bursts + 1 \in 0 .. MaxBursts
          BY <2>1, <4>2, <4>3
        <5>2. [sess[p] EXCEPT !.busy = TRUE, !.bursts = @ + 1] \in Sessions
          BY <2>1, <5>1 DEF Sessions
        <5>. QED
          BY <2>1, <4>3, <5>2
      <4>4. CASE sess' = [sess EXCEPT ![p].busy = TRUE]
        <5>1. [sess[p] EXCEPT !.busy = TRUE] \in Sessions
          BY <2>1 DEF Sessions
        <5>. QED
          BY <2>1, <4>4, <5>1
      <4>. QED
        BY <4>1, <4>3, <4>4
    <3>2. CASE Quiet(p)
      <4>1. [sess[p] EXCEPT !.busy = FALSE] \in Sessions
        BY <2>1 DEF Sessions
      <4>. QED
        BY <2>1, <3>2, <4>1 DEF Quiet
    <3>3. CASE Turn(p)
      BY <2>1, <3>3 DEF Turn
    <3>4. CASE Exit(p)
      <4>1. [sess[p] EXCEPT !.state = "ended", !.busy = FALSE, !.held = FALSE] \in Sessions
        BY <2>1 DEF Sessions
      <4>. QED
        BY <2>1, <3>4, <4>1 DEF Exit
    <3>5. CASE Hold(p)
      <4>1. sess[p].holds \in 0 .. MaxHolds /\ sess[p].holds < MaxHolds
        BY <2>1, <3>5 DEF Sessions, Hold
      <4>2. sess[p].holds + 1 \in 0 .. MaxHolds
        BY <2>1, <4>1
      <4>3. [sess[p] EXCEPT !.held = TRUE, !.holds = @ + 1] \in Sessions
        BY <2>1, <4>2 DEF Sessions
      <4>. QED
        BY <2>1, <3>5, <4>3 DEF Hold
    <3>6. CASE LetGo(p)
      <4>1. [sess[p] EXCEPT !.held = FALSE] \in Sessions
        BY <2>1 DEF Sessions
      <4>. QED
        BY <2>1, <3>6, <4>1 DEF LetGo
    <3>. QED
      BY <1>15, <3>1, <3>2, <3>3, <3>4, <3>5, <3>6
  <2>3. WaitingFor(p) \subseteq Steps
    BY DEF WaitingFor
  <2>4. turned' \subseteq Steps /\ settled' \subseteq Steps /\ overdue' = overdue
    BY <1>0, <1>15, <2>3 DEF Work, Quiet, Turn, Exit, Hold, LetGo, WorldTypes
  <2>5. UNCHANGED <<forge, origin, place, app, recovered, posted, refused>>
    BY <1>15 DEF Work, Quiet, Turn, Exit, Hold, LetGo
  <2>. QED
    BY <1>0, <1>2, <2>2, <2>4, <2>5 DEF WorldTypes
<1>. QED
  BY <1>4, <1>5, <1>7, <1>8, <1>9, <1>10, <1>11, <1>12, <1>14, <1>15 DEF Next, Driving, CarryOut

\* The histories keep their types.
LEMMA HistoryTypesStep == TypeOK /\ DriverInv /\ [Next]_vars => HistoryTypes'
<1>. SUFFICES ASSUME TypeOK, DriverInv, [Next]_vars PROVE HistoryTypes'
  OBVIOUS
<1>. USE DEF rows, database, memory, world, histories, UnchangedByDriver, UnchangedByWorld
<1>0. RowTypes /\ driver \in Drivers /\ HistoryTypes
  BY TypeParts
<1>1. definition' = definition
  BY DEF Next, vars, Queue, Cancel, Vanish, Driving, Tick, GiveUp, Start, Recover, Plan, Apply, Claim, EndPass,
         CarryOut, StartSession, Notify, RunTest, Look, Type, Submit, Report, Refused, Work, Quiet, Turn,
         Exit, Hold, LetGo, TestEnds, TimeOut, Post, Answer, Stop, StartAgain
<1>2. Steps' = Steps /\ Ptys' = Ptys
  BY <1>1 DEF Ptys, Steps, Action
<1>3. CASE UNCHANGED <<acted, late>> /\ unread' \subseteq unread
  BY <1>0, <1>2, <1>3 DEF HistoryTypes
<1>4. ASSUME NEW i \in Steps, DidAct(i) PROVE acted' \in [Steps -> Nat] /\ late' \in Nat
  <2>1. acted \in [Steps -> Nat] /\ late \in Nat
    BY <1>0 DEF HistoryTypes
  <2>2. acted' = [acted EXCEPT ![i] = acted[i] + 1] /\ late' \in {late, late + 1}
    BY <1>4 DEF DidAct
  <2>3. acted[i] + 1 \in Nat /\ late + 1 \in Nat
    BY <2>1
  <2>. QED
    BY <2>1, <2>2, <2>3
<1>5. CASE Type
  <2>1. Doee \in Steps /\ Action(Doee) = "send_to_session"
    BY <1>0, <1>5, DoeeIs DEF Type, At, Doing, Acts, DriverInv
  <2>2. definition[Doee].session \in Ptys
    BY <1>0, <2>1, DefinitionIs DEF RowTypes
  <2>. QED
    BY <1>0, <1>2, <1>4, <1>5, <2>1, <2>2 DEF Type, DidNothing, HistoryTypes, Doee
<1>6. ASSUME NEW i \in Steps, CarryOut(i) PROVE HistoryTypes'
  BY <1>0, <1>2, <1>4, <1>6 DEF CarryOut, StartSession, Notify, RunTest, Look, DidNothing, HistoryTypes
<1>7. CASE Queue \/ Cancel \/ Vanish \/ Tick \/ GiveUp \/ Start \/ Recover \/ Plan \/ Apply \/ Claim \/ EndPass
           \/ Submit \/ Report \/ Refused \/ Post \/ Answer \/ Stop \/ StartAgain \/ UNCHANGED vars
  BY <1>3, <1>7 DEF Queue, Cancel, Vanish, Tick, GiveUp, Start, Recover, Plan, Apply, Claim, EndPass, Submit,
     Report, Refused, Post, Answer, Stop, StartAgain, vars
<1>8. ASSUME NEW p \in Ptys, Work(p) \/ Quiet(p) \/ Turn(p) \/ Exit(p) \/ Hold(p) \/ LetGo(p) PROVE HistoryTypes'
  BY <1>3, <1>8 DEF Work, Quiet, Turn, Exit, Hold, LetGo
<1>9. ASSUME NEW i \in Steps, TestEnds(i) \/ TimeOut(i) PROVE HistoryTypes'
  BY <1>3, <1>9 DEF TestEnds, TimeOut
<1>. QED
  BY <1>5, <1>6, <1>7, <1>8, <1>9 DEF Next, Driving

\* Every step keeps the type invariant.
LEMMA TypeStep == TypeOK /\ DriverInv /\ [Next]_vars => TypeOK'
<1>. SUFFICES ASSUME TypeOK, DriverInv, [Next]_vars PROVE TypeOK'
  OBVIOUS
<1>1. RowTypes' /\ (driver \in Drivers)' /\ WorldTypes' /\ HistoryTypes'
  BY RowTypesStep, DriverTypesStep, WorldTypesStep, HistoryTypesStep
<1>. QED
  BY <1>1, TypeParts, PTL

---------------------------------------------------------------------------
\* The driver.

\* The workflow of a run stays what it was when it was asked for.
LEMMA DefinitionKept == [Next]_vars => /\ definition' = definition /\ Steps' = Steps /\ Ptys' = Ptys
                                       /\ \A i : Action(i)' = Action(i)
<1>. SUFFICES ASSUME [Next]_vars
              PROVE  definition' = definition
  BY DEF Steps, Ptys, Action
<1>. QED
  BY DEF rows, database, memory, world, histories, UnchangedByDriver, UnchangedByWorld,
         Next, vars, Queue, Cancel, Vanish, Driving, Tick, GiveUp, Start, Recover, Plan, Apply, Claim, EndPass,
         CarryOut, StartSession, Notify, RunTest, Look, Type, Submit, Report, Refused, Work, Quiet, Turn,
         Exit, Hold, LetGo, TestEnds, TimeOut, Post, Answer, Stop, StartAgain

\* The steps of those who are no part of the driver.
Others ==
    \/ Vanish \/ Post \/ Answer \/ StartAgain
    \/ \E p \in Ptys : Work(p) \/ Quiet(p) \/ Turn(p) \/ Exit(p) \/ Hold(p) \/ LetGo(p)
    \/ \E i \in Steps : TestEnds(i) \/ TimeOut(i)

\* They leave the driver, its run and the steps alone.
LEMMA OthersLeave == Others \/ UNCHANGED vars => UNCHANGED <<definition, run, status, driver, acted, late>>
BY DEF Others, rows, database, memory, world, histories, UnchangedByWorld, vars, Vanish, Post, Answer,
       StartAgain, Work, Quiet, Turn, Exit, Hold, LetGo, TestEnds, TimeOut

\* Every step keeps what is known of the driver.
LEMMA DriverInvStep == TypeOK /\ DriverInv /\ [Next]_vars => DriverInv'
<1>. SUFFICES ASSUME TypeOK, DriverInv, [Next]_vars PROVE DriverInv'
  OBVIOUS
<1>. USE DEF rows, UnchangedByDriver
<1>0. /\ RowTypes /\ driver \in Drivers /\ definition' = definition /\ Steps' = Steps
      /\ \A i : Action(i)' = Action(i)
  BY TypeParts, DefinitionKept
<1>1. (\A m : MoveFits(m)' <=> MoveFits(m)) /\ (\A m : EffectFits(m)' <=> EffectFits(m))
  BY <1>0 DEF MoveFits, EffectFits
<1>2. ASSUME driver' = Resting, run' \in Begins => run \in Begins /\ status' = status PROVE DriverInv'
  <2>1. /\ Resting.pc = "rest" /\ Resting.moves = <<>> /\ Resting.effects = <<>> /\ Resting.finish = "none"
        /\ DOMAIN Resting.moves = {} /\ DOMAIN Resting.effects = {}
    BY DEF Resting
  <2>2. driver'.pc = "rest" /\ driver'.moves = <<>> /\ driver'.effects = <<>> /\ driver'.finish = "none"
        /\ DOMAIN driver'.moves = {} /\ DOMAIN driver'.effects = {}
    BY <1>2, <2>1
  <2>3. run' \in Begins => \A i \in Steps' : status'[i] = "pending"
    BY <1>0, <1>2 DEF DriverInv
  <2>. QED
    BY <1>2, <2>2, <2>3 DEF DriverInv, Applying, Doing, Acts
<1>4. CASE Others \/ UNCHANGED vars
  <2>1. app' = app \/ app' = TRUE
    BY <1>4 DEF Others, vars, database, memory, world, histories, UnchangedByWorld, Vanish, Post, Answer,
       StartAgain, Work, Quiet, Turn, Exit, Hold, LetGo, TestEnds, TimeOut
  <2>2. UNCHANGED <<run, status, driver>>
    BY <1>4, OthersLeave
  <2>. QED
    BY <1>0, <1>1, <2>1, <2>2 DEF DriverInv, Doee
<1>5. CASE Queue
  <2>1. driver.pc = "rest"
    BY <1>5 DEF Queue, DriverInv, Begins
  <2>2. run' = "queued" /\ run = "none" /\ UNCHANGED <<status, driver, app>>
    BY <1>5 DEF Queue
  <2>. QED
    BY <1>0, <1>1, <2>1, <2>2 DEF DriverInv, Doing, Acts, Applying, Begins
<1>6. CASE Cancel
  <2>1. run' = "cancelled" /\ UNCHANGED <<driver, app>>
    BY <1>6 DEF Cancel
  <2>2. Doee' = Doee
    BY <2>1 DEF Doee
  <2>3. driver.pc \in Doing => Doee \in Steps /\ Final(status'[Doee])
    BY <1>0, <1>6, DoeeIs DEF Cancel, Final
  <2>. QED
    BY <1>0, <1>1, <2>1, <2>2, <2>3 DEF DriverInv, Begins
<1>7. CASE Tick
  <2>1. CASE ~ Active
    BY <1>2, <1>7, <2>1 DEF Tick, Rest
  <2>2. CASE Active
    <3>1. /\ driver' = [Resting EXCEPT !.pc = "begin", !.queued = (run = "queued")]
          /\ UNCHANGED <<run, status, app>> /\ app
      BY <1>7, <2>2 DEF Tick, At
    <3>2. /\ driver'.pc = "begin" /\ driver'.queued = (run = "queued") /\ driver'.moves = <<>>
          /\ driver'.effects = <<>> /\ driver'.finish = "none"
          /\ DOMAIN driver'.moves = {} /\ DOMAIN driver'.effects = {}
      BY <3>1 DEF Resting
    <3>. QED
      BY <1>0, <2>2, <3>1, <3>2 DEF DriverInv, Active, Applying, Doing, Acts
  <2>. QED
    BY <2>1, <2>2
<1>8. CASE GiveUp
  BY <1>2, <1>8 DEF GiveUp, Rest, Finished, Begins, Active
<1>9. CASE Refused
  BY <1>2, <1>9 DEF Refused, Rest
<1>10. CASE Stop
  BY <1>2, <1>10 DEF Stop, Rest, database
<1>11. CASE Start
  <2>1. CASE run # "queued"
    BY <1>2, <1>11, <2>1 DEF Start, Rest
  <2>2. CASE run = "queued"
    <3>1. driver' = [driver EXCEPT !.pc = "recover"] /\ run' = "running" /\ UNCHANGED <<status, app>>
          /\ app /\ driver.pc = "begin"
      BY <1>11, <2>2 DEF Start, Goto, At
    <3>2. /\ driver'.pc = "recover" /\ driver'.moves = driver.moves /\ driver'.effects = driver.effects
          /\ driver'.finish = driver.finish
      BY <1>0, <3>1 DEF Drivers
    <3>. QED
      BY <1>0, <1>1, <3>1, <3>2 DEF DriverInv, Begins, Applying, Doing, Acts
  <2>. QED
    BY <2>1, <2>2
<1>12. CASE Recover
  <2>1. /\ driver' = [driver EXCEPT !.pc = "apply", !.again = TRUE,
                                    !.moves = IF recovered THEN <<>> ELSE Interrupted("failed")]
        /\ UNCHANGED <<run, status, app>> /\ Starting
    BY <1>12 DEF Recover
  <2>2. /\ driver'.pc = "apply" /\ driver'.effects = driver.effects /\ driver'.finish = driver.finish
        /\ driver'.moves = IF recovered THEN <<>> ELSE Interrupted("failed")
    BY <1>0, <2>1 DEF Drivers
  <2>3. \A k \in DOMAIN driver'.moves : MoveFits(driver'.moves[k])
    <3>1. CASE recovered
      BY <2>2, <3>1
    <3>2. CASE ~ recovered
      BY <1>0, <2>2, <3>2, InterruptedFits DEF RowTypes
    <3>. QED
      BY <3>1, <3>2
  <2>5. app /\ (driver.pc = "recover" \/ (driver.pc = "begin" /\ ~ driver.queued))
    BY <2>1 DEF Starting, At
  <2>4. run \notin Begins
    BY <1>0, <2>5 DEF DriverInv, Begins, RowTypes
  <2>. QED
    BY <1>0, <1>1, <2>1, <2>2, <2>3, <2>4, <2>5 DEF DriverInv, Begins, Applying, Doing, Acts
<1>13. CASE Plan
  <2>1. /\ driver' = [driver EXCEPT !.pc = "apply", !.again = FALSE, !.moves = Advance.moves,
                                    !.effects = Advance.effects, !.finish = Finish(Advance.status)]
        /\ UNCHANGED <<run, status, app>> /\ app /\ driver.pc = "plan"
    BY <1>13 DEF Plan, At
  <2>2. /\ driver'.pc = "apply" /\ driver'.moves = Advance.moves /\ driver'.effects = Advance.effects
        /\ driver'.finish = Finish(Advance.status)
    BY <1>0, <2>1 DEF Drivers
  <2>3. PlanFits(Advance)
    BY <1>0, AdvanceFits DEF RowTypes
  <2>4. ASSUME Advance.effects # <<>> PROVE Finish(Advance.status) = "none"
    <3>1. Advance.effects \in Seq(Moves)
      BY <2>3 DEF PlanFits, Plans
    <3>2. 1 \in DOMAIN Advance.effects
      BY <2>4, <3>1, HeadIs
    <3>3. Advance.effects[1].step \in Steps /\ Advance.status[Advance.effects[1].step] = "running"
      BY <2>3, <3>2 DEF PlanFits, Told, EffectFits
    <3>. QED
      BY <3>3 DEF Finish, Final
  <2>5. run \notin Begins
    BY <2>1 DEF DriverInv
  <2>. QED
    BY <1>0, <1>1, <2>1, <2>2, <2>3, <2>4, <2>5 DEF DriverInv, Applying, Doing, Acts, PlanFits
<1>14. CASE Apply
  <2>1. /\ driver' = [driver EXCEPT !.moves = Tail(@)] /\ UNCHANGED <<run, app>> /\ app /\ driver.pc = "apply"
        /\ driver.moves # <<>> /\ driver.moves \in Seq(Moves)
    BY <1>0, <1>14 DEF Apply, At, Drivers
  <2>2. /\ driver'.pc = "apply" /\ driver'.effects = driver.effects /\ driver'.finish = driver.finish
        /\ driver'.moves = Tail(driver.moves)
    BY <1>0, <2>1 DEF Drivers
  <2>3. \A k \in DOMAIN driver'.moves : k + 1 \in DOMAIN driver.moves /\ driver'.moves[k] = driver.moves[k + 1]
    BY <2>1, <2>2, HeadIs
  <2>4. run' \notin Begins
    BY <2>1 DEF DriverInv
  <2>. QED
    BY <1>0, <1>1, <2>1, <2>2, <2>3, <2>4 DEF DriverInv, Applying, Doing, Acts
<1>15. CASE Claim
  <2>1. /\ driver.pc = "apply" /\ app /\ driver.moves = <<>> /\ driver.effects # <<>>
        /\ driver.effects \in Seq(Moves) /\ UNCHANGED <<run, app>>
    BY <1>0, <1>15 DEF Claim, AtEffects, At, Drivers
  <2>2. run \notin Begins
    BY <2>1 DEF DriverInv
  <2>3. CASE run # "running" /\ driver' = Resting
    BY <1>2, <2>1, <2>2, <2>3
  <2>4. CASE /\ run = "running" /\ driver' = [driver EXCEPT !.pc = "act"]
             /\ status' = [status EXCEPT ![Doee] = "running"]
    <3>1. driver'.pc = "act" /\ driver'.effects = driver.effects /\ driver'.finish = driver.finish /\ driver'.moves = driver.moves
      BY <1>0, <2>4 DEF Drivers
    <3>2. Doee' = Doee /\ Doee \in Steps
      <4>1. 1 \in DOMAIN driver.effects /\ Head(driver.effects) = driver.effects[1]
        BY <2>1, HeadIs
      <4>. QED
        BY <3>1, <4>1 DEF DriverInv, EffectFits, Doee
    <3>3. status'[Doee'] = "running"
      BY <1>0, <2>4, <3>2 DEF RowTypes
    <3>. QED
      BY <1>0, <1>1, <2>1, <2>2, <3>1, <3>3 DEF DriverInv, Applying, Doing, Acts
  <2>5. CASE driver' = [driver EXCEPT !.effects = Tail(@)] /\ run = "running"
    <3>1. driver'.pc = "apply" /\ driver'.effects = Tail(driver.effects) /\ driver'.finish = driver.finish
          /\ driver'.moves = driver.moves
      BY <1>0, <2>1, <2>5 DEF Drivers
    <3>2. \A k \in DOMAIN driver'.effects :
             k + 1 \in DOMAIN driver.effects /\ driver'.effects[k] = driver.effects[k + 1]
      BY <2>1, <3>1, HeadIs
    <3>3. driver.finish = "none"
      BY <2>1 DEF DriverInv
    <3>. QED
      BY <1>0, <1>1, <2>1, <2>2, <3>1, <3>2, <3>3 DEF DriverInv, Applying, Doing, Acts
  <2>. QED
    BY <1>15, <2>3, <2>4, <2>5 DEF Claim, Moved, Goto, Rest, Doee
<1>16. CASE EndPass
  <2>1. /\ driver.pc = "apply" /\ app /\ driver.moves = <<>> /\ driver.effects = <<>> /\ UNCHANGED <<status, app>>
    BY <1>16 DEF EndPass, AtEffects, At
  <2>2. run \notin Begins
    BY <2>1 DEF DriverInv
  <2>3. CASE driver' = Resting
    <3>1. run' \notin Begins
      BY <1>0, <1>16, <2>2 DEF EndPass, Finished, Begins, Drivers
    <3>. QED
      BY <1>2, <2>3, <3>1
  <2>4. CASE driver.finish = "none" /\ driver' = [driver EXCEPT !.pc = "plan"] /\ run' = run
    <3>1. driver'.pc = "plan" /\ driver'.effects = driver.effects /\ driver'.finish = driver.finish
          /\ driver'.moves = driver.moves
      BY <1>0, <2>4 DEF Drivers
    <3>. QED
      BY <1>0, <1>1, <2>1, <2>2, <2>4, <3>1 DEF DriverInv, Applying, Doing, Acts
  <2>. QED
    BY <1>16, <2>3, <2>4 DEF EndPass, Rest, Goto
<1>17. ASSUME driver.pc \in Doing, UNCHANGED <<run, status, app>>, app, driver'.pc \in Doing,
              driver'.moves = driver.moves, driver'.effects = driver.effects, driver'.finish = driver.finish,
              driver'.pc \in {"type", "submit"} => Action(Doee) = "send_to_session",
              driver'.pc = "report" => driver'.outcome # "none"
       PROVE  DriverInv'
  <2>1. Doee' = Doee
    BY <1>17 DEF Doee
  <2>2. driver'.pc \notin {"rest", "begin"} /\ driver'.pc \in Applying
    BY <1>17 DEF Applying, Doing, Acts
  <2>3. driver.pc \notin {"rest", "begin"}
    BY <1>17 DEF Doing, Acts
  <2>. QED
    BY <1>0, <1>1, <1>17, <2>1, <2>2, <2>3 DEF DriverInv
<1>18. ASSUME NEW how \in {"succeeded", "failed", "skipped", "waiting"}, Came(how), driver.pc \in Doing,
              UNCHANGED <<run, status, app>>, app
       PROVE  DriverInv'
  <2>1. driver' = [driver EXCEPT !.pc = "report", !.outcome = how]
    BY <1>18 DEF Came
  <2>2. driver'.pc = "report" /\ driver'.moves = driver.moves /\ driver'.effects = driver.effects
        /\ driver'.finish = driver.finish /\ driver'.outcome = how
    BY <1>0, <2>1 DEF Drivers
  <2>. QED
    BY <1>17, <1>18, <2>2 DEF Doing
<1>19. ASSUME NEW pc \in {"type", "submit"}, driver' = [driver EXCEPT !.pc = pc, !.typed = driver'.typed],
              driver.pc \in Doing, Action(Doee) = "send_to_session", UNCHANGED <<run, status, app>>, app
       PROVE  DriverInv'
  <2>1. driver'.pc = pc /\ driver'.moves = driver.moves /\ driver'.effects = driver.effects
        /\ driver'.finish = driver.finish
    BY <1>0, <1>19 DEF Drivers
  <2>. QED
    BY <1>17, <1>19, <2>1 DEF Doing, Acts
<1>20. ASSUME NEW i \in Steps, StartSession(i) \/ Notify(i) \/ RunTest(i) PROVE DriverInv'
  BY <1>18, <1>20 DEF StartSession, Notify, RunTest, Acting, At, Doing, Acts
<1>21. ASSUME NEW i \in Steps, Look(i) PROVE DriverInv'
  <2>1. /\ driver.pc \in Doing /\ UNCHANGED <<run, status, app>> /\ app /\ i = Doee
        /\ Action(Doee) = "send_to_session"
    BY <1>21 DEF Look, Acting, At, Doing, Acts, Doee
  <2>2. CASE Came("skipped") \/ Came("waiting")
    BY <1>18, <2>1, <2>2
  <2>3. CASE driver' = [driver EXCEPT !.pc = "type", !.typed = @ \cup {definition[i].session}]
    <3>1. driver'.typed = driver.typed \cup {definition[i].session}
      BY <1>0, <2>3 DEF Drivers
    <3>. QED
      BY <1>19, <2>1, <2>3, <3>1
  <2>. QED
    BY <1>21, <2>2, <2>3 DEF Look
<1>22. CASE Type
  <2>1. /\ driver.pc \in Doing /\ UNCHANGED <<run, status, app>> /\ app /\ Action(Doee) = "send_to_session"
    BY <1>22 DEF Type, At, Doing, Acts, DriverInv
  <2>2. CASE Came("failed") \/ Came("waiting")
    BY <1>18, <2>1, <2>2
  <2>3. CASE Goto("submit")
    <3>1. driver'.typed = driver.typed /\ driver' = [driver EXCEPT !.pc = "submit", !.typed = driver.typed]
      BY <1>0, <2>3 DEF Drivers, Goto
    <3>. QED
      BY <1>19, <2>1, <3>1
  <2>. QED
    BY <1>22, <2>2, <2>3 DEF Type
<1>23. CASE Submit
  <2>1. driver.pc \in Doing /\ UNCHANGED <<run, status, app>> /\ app
    BY <1>23 DEF Submit, At, Doing
  <2>. QED
    BY <1>18, <1>23, <2>1 DEF Submit
<1>24. CASE Report
  <2>1. /\ driver.pc \in Doing /\ driver.pc = "report" /\ UNCHANGED <<run, app>> /\ app
        /\ driver' = [driver EXCEPT !.pc = "apply", !.effects = Tail(@), !.outcome = "none",
                                    !.again = @ \/ driver.outcome # "waiting"]
    BY <1>24 DEF Report, At, Doing
  <2>2. driver'.pc = "apply" /\ driver'.effects = Tail(driver.effects) /\ driver'.finish = driver.finish
        /\ driver'.moves = driver.moves
    BY <1>0, <2>1 DEF Drivers
  <2>3. driver.effects \in Seq(Moves) /\ driver.effects # <<>>
    BY <1>0, <2>1 DEF DriverInv, Drivers
  <2>4. \A k \in DOMAIN driver'.effects :
           k + 1 \in DOMAIN driver.effects /\ driver'.effects[k] = driver.effects[k + 1]
    BY <2>2, <2>3, HeadIs
  <2>5. driver.finish = "none" /\ run' \notin Begins
    BY <2>1, <2>3 DEF DriverInv
  <2>. QED
    BY <1>0, <1>1, <2>1, <2>2, <2>4, <2>5 DEF DriverInv, Applying, Doing, Acts
<1>. QED
  BY <1>4, <1>5, <1>6, <1>7, <1>8, <1>9, <1>10, <1>11, <1>12, <1>13, <1>14, <1>15, <1>16, <1>20, <1>21,
     <1>22, <1>23, <1>24 DEF Next, Driving, CarryOut, Others

---------------------------------------------------------------------------
\* What is done once, what is done late, and what is typed.

\* Where a plan's next step stands when it is let go on.
LEMMA ClaimIs ==
    ASSUME TypeOK, DriverInv, Claim
    PROVE  /\ Doee \in Steps /\ driver.pc = "apply" /\ app
           /\ \/ UNCHANGED status /\ driver' = Resting /\ run # "running"
              \/ UNCHANGED status /\ driver' = [driver EXCEPT !.effects = Tail(@)]
              \/ /\ run = "running" /\ EffectFits(Head(driver.effects))
                 /\ status[Doee] = Head(driver.effects).from
                 /\ status' = [status EXCEPT ![Doee] = "running"]
                 /\ driver' = [driver EXCEPT !.pc = "act"]
<1>1. driver.effects \in Seq(Moves) /\ driver.effects # <<>>
  BY TypeParts DEF Claim, Drivers
<1>2. 1 \in DOMAIN driver.effects /\ Head(driver.effects) = driver.effects[1]
  BY <1>1, HeadIs
<1>3. EffectFits(Head(driver.effects))
  BY <1>2 DEF DriverInv
<1>. QED
  BY <1>3 DEF Claim, AtEffects, At, Moved, Goto, Rest, EffectFits, Doee

\* Where a step stands that a move is applied to.
LEMMA ApplyIs ==
    ASSUME TypeOK, DriverInv, Apply
    PROVE  /\ driver.pc = "apply" /\ app /\ driver.moves # <<>> /\ driver.moves \in Seq(Moves)
           /\ MoveFits(driver.moves[1]) /\ 1 \in DOMAIN driver.moves
           /\ driver' = [driver EXCEPT !.moves = Tail(@)]
           /\ \/ UNCHANGED status /\ ~ (run = "running" /\ status[driver.moves[1].step] = driver.moves[1].from)
              \/ /\ run = "running" /\ status[driver.moves[1].step] = driver.moves[1].from
                 /\ status' = [status EXCEPT ![driver.moves[1].step] = driver.moves[1].to]
<1>1. driver.moves \in Seq(Moves) /\ driver.moves # <<>>
  BY TypeParts DEF Apply, Drivers
<1>2. 1 \in DOMAIN driver.moves /\ Head(driver.moves) = driver.moves[1]
  BY <1>1, HeadIs
<1>3. MoveFits(driver.moves[1])
  BY <1>2 DEF DriverInv
<1>. QED
  BY <1>1, <1>2, <1>3 DEF Apply, At, Moved

\* Where a step stands whose effect is told of.
LEMMA ReportIs ==
    ASSUME TypeOK, DriverInv, Report
    PROVE  /\ Doee \in Steps /\ driver.pc = "report" /\ app
           /\ driver.outcome \in {"succeeded", "failed", "skipped", "waiting"}
           /\ driver' = [driver EXCEPT !.pc = "apply", !.effects = Tail(@), !.outcome = "none",
                                       !.again = @ \/ driver.outcome # "waiting"]
           /\ \/ UNCHANGED status /\ run # "running"
              \/ /\ run = "running" /\ status[Doee] = "running"
                 /\ status' = [status EXCEPT ![Doee] = driver.outcome]
<1>1. driver.pc = "report" /\ app
  BY DEF Report, At
<1>2. Doee \in Steps
  BY <1>1, TypeParts, DoeeIs DEF Doing
<1>3. driver.outcome \in {"succeeded", "failed", "skipped", "waiting"}
  BY <1>1, TypeParts DEF DriverInv, Drivers
<1>4. status[Doee] = "running" \/ run # "running"
  BY <1>1 DEF DriverInv, Doing
<1>. QED
  BY <1>1, <1>2, <1>3, <1>4 DEF Report, Moved, Doee

\* What Undone says of where the driver is.
LEMMA UndoneKept ==
    ASSUME [Next]_vars, NEW i \in Steps, Undone(i)', status'[i] = status[i],
           \/ driver' = driver
           \/ driver'.pc \notin Acts /\ (driver'.pc = "report" => driver'.outcome # "waiting")
    PROVE  Undone(i)
BY DefinitionKept DEF Undone, Doee, Acts

\* Every step keeps that no step is done twice.
LEMMA OnceStep == TypeOK /\ DriverInv /\ OnceInv /\ [Next]_vars => OnceInv'
<1>. SUFFICES ASSUME TypeOK, DriverInv, OnceInv, [Next]_vars PROVE OnceInv'
  OBVIOUS
<1>. USE DEF rows, histories, UnchangedByDriver
<1>0. /\ RowTypes /\ driver \in Drivers /\ HistoryTypes /\ definition' = definition /\ Steps' = Steps
      /\ \A i : Action(i)' = Action(i)
  BY TypeParts, DefinitionKept
<1>1. ASSUME acted' = acted, \A i \in Steps : Undone(i)' => Undone(i) PROVE OnceInv'
  BY <1>0, <1>1 DEF OnceInv
<1>2. ASSUME acted' = acted, status' = status,
             \/ driver' = driver
             \/ driver'.pc \notin Acts /\ (driver'.pc = "report" => driver'.outcome # "waiting")
      PROVE  OnceInv'
  BY <1>1, <1>2, UndoneKept
<1>3. CASE Others \/ UNCHANGED vars
  BY <1>2, <1>3, OthersLeave
<1>4. CASE Queue
  BY <1>2, <1>4 DEF Queue
<1>5. CASE Cancel
  <2>1. ASSUME NEW i \in Steps, Undone(i)' PROVE Undone(i)
    <3>1. status'[i] \notin {"pending", "waiting"} /\ driver' = driver
      BY <1>0, <1>5, <2>1 DEF Cancel, Final
    <3>. QED
      BY <1>0, <2>1, <3>1 DEF Undone, Doee
  <2>. QED
    BY <1>1, <1>5, <2>1 DEF Cancel
<1>6. Resting.pc = "rest"
  BY DEF Resting
<1>7. CASE Tick
  <2>1. [Resting EXCEPT !.pc = "begin", !.queued = (run = "queued")].pc = "begin"
    BY DEF Resting
  <2>2. driver'.pc \in {"rest", "begin"}
    BY <1>6, <1>7, <2>1 DEF Tick, Rest
  <2>. QED
    BY <1>2, <1>7, <2>2 DEF Tick, Acts
<1>8. CASE GiveUp \/ Refused \/ Stop
  <2>1. driver'.pc = "rest"
    BY <1>6, <1>8 DEF GiveUp, Refused, Stop, Rest
  <2>. QED
    BY <1>2, <1>8, <2>1 DEF GiveUp, Refused, Stop, Acts, database
<1>9. CASE Start \/ EndPass
  <2>1. driver'.pc \in {"rest", "recover", "plan"}
    BY <1>0, <1>6, <1>9 DEF Start, EndPass, Rest, Goto, Drivers
  <2>. QED
    BY <1>2, <1>9, <2>1 DEF Start, EndPass, Acts
<1>10. CASE Recover \/ Plan
  <2>1. driver'.pc = "apply"
    BY <1>0, <1>10 DEF Recover, Plan, Drivers
  <2>. QED
    BY <1>2, <1>10, <2>1 DEF Recover, Plan, Acts
<1>11. CASE Apply
  <2>1. driver'.pc = "apply" /\ acted' = acted
    BY <1>0, <1>11, ApplyIs DEF Drivers, Apply
  <2>2. CASE UNCHANGED status
    BY <1>2, <2>1, <2>2 DEF Acts
  <2>3. CASE /\ status[driver.moves[1].step] = driver.moves[1].from /\ MoveFits(driver.moves[1])
             /\ status' = [status EXCEPT ![driver.moves[1].step] = driver.moves[1].to]
    <3>1. ASSUME NEW i \in Steps, Undone(i)' PROVE Undone(i)
      <4>1. status'[i] = "pending" \/ (status'[i] = "waiting" /\ Action(i) # "run_test")
        BY <1>0, <2>1, <3>1 DEF Undone, Acts
      <4>2. CASE i = driver.moves[1].step
        <5>1. status'[i] = driver.moves[1].to
          BY <1>0, <2>3, <4>2 DEF RowTypes
        <5>2. status[i] = "pending"
          BY <2>3, <4>1, <4>2, <5>1 DEF MoveFits
        <5>. QED
          BY <5>2 DEF Undone
      <4>3. CASE i # driver.moves[1].step
        <5>1. status'[i] = status[i]
          BY <1>0, <2>3, <4>3 DEF RowTypes
        <5>. QED
          BY <4>1, <5>1 DEF Undone
      <4>. QED
        BY <4>2, <4>3
    <3>. QED
      BY <1>1, <2>1, <3>1
  <2>. QED
    BY <1>11, <2>2, <2>3, ApplyIs
<1>12. CASE Claim
  <2>1. acted' = acted /\ Doee \in Steps /\ driver.pc = "apply"
    BY <1>12, ClaimIs DEF Claim
  <2>2. CASE UNCHANGED status /\ driver' = Resting
    BY <1>2, <1>6, <2>1, <2>2 DEF Acts
  <2>3. CASE UNCHANGED status /\ driver' = [driver EXCEPT !.effects = Tail(@)]
    <3>1. driver'.pc = "apply"
      BY <1>0, <2>1, <2>3 DEF Drivers
    <3>. QED
      BY <1>2, <2>1, <2>3, <3>1 DEF Acts
  <2>4. CASE /\ EffectFits(Head(driver.effects)) /\ status[Doee] = Head(driver.effects).from
             /\ status' = [status EXCEPT ![Doee] = "running"] /\ driver' = [driver EXCEPT !.pc = "act"]
    <3>1. driver'.pc = "act" /\ Doee' = Doee
      BY <1>0, <2>4 DEF Drivers, Doee
    <3>2. Undone(Doee)
      BY <2>4 DEF EffectFits, Undone, Doee
    <3>3. ASSUME NEW i \in Steps, i # Doee, Undone(i)' PROVE Undone(i)
      <4>1. status'[i] = status[i]
        BY <1>0, <2>4, <3>3 DEF RowTypes
      <4>. QED
        BY <1>0, <3>1, <3>3, <4>1 DEF Undone
    <3>. QED
      BY <1>1, <2>1, <3>2, <3>3
  <2>. QED
    BY <1>12, <2>2, <2>3, <2>4, ClaimIs
<1>13. CASE Report
  <2>1. driver'.pc = "apply" /\ acted' = acted /\ driver.pc = "report" /\ Doee \in Steps
    BY <1>0, <1>13, ReportIs DEF Drivers, Report
  <2>2. CASE UNCHANGED status
    BY <1>2, <2>1, <2>2 DEF Acts
  <2>3. CASE status' = [status EXCEPT ![Doee] = driver.outcome]
             /\ driver.outcome \in {"succeeded", "failed", "skipped", "waiting"}
    <3>1. ASSUME NEW i \in Steps, Undone(i)' PROVE Undone(i)
      <4>1. status'[i] = "pending" \/ (status'[i] = "waiting" /\ Action(i) # "run_test")
        BY <1>0, <2>1, <3>1 DEF Undone, Acts
      <4>2. CASE i = Doee
        <5>1. status'[i] = driver.outcome
          BY <1>0, <2>3, <4>2 DEF RowTypes
        <5>. QED
          BY <2>1, <2>3, <4>1, <4>2, <5>1 DEF Undone
      <4>3. CASE i # Doee
        <5>1. status'[i] = status[i]
          BY <1>0, <2>3, <4>3 DEF RowTypes
        <5>. QED
          BY <4>1, <5>1 DEF Undone
      <4>. QED
        BY <4>2, <4>3
    <3>. QED
      BY <1>1, <2>1, <3>1
  <2>. QED
    BY <1>13, <2>2, <2>3, ReportIs
<1>14. CASE Submit
  <2>1. \E how \in {"succeeded", "failed"} : driver' = [driver EXCEPT !.pc = "report", !.outcome = how]
    BY <1>14 DEF Submit, Came
  <2>2. driver'.outcome # "waiting" /\ driver'.pc = "report"
    BY <1>0, <2>1 DEF Drivers
  <2>. QED
    BY <1>2, <1>14, <2>2 DEF Submit, Acts
\* A step is being carried out.
<1>15. ASSUME driver.pc \in Acts, UNCHANGED <<acted, status>>, Doee' = Doee, driver'.pc \in {"type", "report"}
       PROVE  OnceInv'
  <2>1. Undone(Doee)
    BY <1>15 DEF Undone
  <2>2. \A i \in Steps : i # Doee /\ Undone(i)' => Undone(i)
    BY <1>0, <1>15 DEF Undone
  <2>. QED
    BY <1>1, <1>15, <2>1, <2>2
<1>16. ASSUME driver.pc \in Acts, UNCHANGED status, DidAct(Doee), Doee' = Doee,
              \/ driver'.pc = "submit"
              \/ driver'.pc = "report" /\ (driver'.outcome = "waiting" => Action(Doee) = "run_test")
       PROVE  OnceInv'
  <2>1. Undone(Doee) /\ Doee \in Steps
    BY <1>0, <1>16, DoeeIs DEF Undone, Doing
  <2>2. acted \in [Steps -> Nat] /\ acted' = [acted EXCEPT ![Doee] = acted[Doee] + 1]
    BY <1>0, <1>16 DEF HistoryTypes, DidAct
  <2>3. acted'[Doee] = 1 /\ \A i \in Steps : i # Doee => acted'[i] = acted[i]
    BY <2>1, <2>2 DEF OnceInv
  <2>4. status[Doee] \notin {"pending", "waiting"}
    BY <1>16 DEF DriverInv, Doing, Final
  <2>5. ~ Undone(Doee)'
    BY <1>0, <1>16, <2>4 DEF Undone, Acts
  <2>6. \A i \in Steps : i # Doee /\ Undone(i)' => Undone(i)
    BY <1>0, <1>16 DEF Undone, Acts
  <2>7. ASSUME NEW i \in Steps PROVE acted'[i] <= 1 /\ (Undone(i)' => acted'[i] = 0)
    <3>1. CASE i = Doee
      BY <1>16, <2>3, <2>5, <3>1
    <3>2. CASE i # Doee
      BY <2>3, <2>6, <3>2 DEF OnceInv
    <3>. QED
      BY <3>1, <3>2
  <2>. QED
    BY <1>0, <2>7 DEF OnceInv
<1>17. ASSUME NEW how, Came(how) PROVE driver'.pc = "report" /\ driver'.outcome = how /\ Doee' = Doee
  BY <1>0, <1>17 DEF Came, Drivers, Doee
<1>18. ASSUME NEW i \in Steps, StartSession(i) \/ Notify(i) PROVE OnceInv'
  <2>1. driver.pc \in Acts /\ i = Doee /\ UNCHANGED status
    BY <1>18 DEF StartSession, Notify, Acting, At, Acts, Doee
  <2>2. CASE Came("succeeded") /\ DidAct(i)
    BY <1>16, <1>17, <2>1, <2>2
  <2>3. CASE Came("failed") /\ DidNothing
    BY <1>15, <1>17, <2>1, <2>3 DEF DidNothing
  <2>. QED
    BY <1>18, <2>2, <2>3 DEF StartSession, Notify
<1>19. ASSUME NEW i \in Steps, RunTest(i) PROVE OnceInv'
  <2>1. driver.pc \in Acts /\ i = Doee /\ UNCHANGED status /\ Action(Doee) = "run_test"
    BY <1>19 DEF RunTest, Acting, At, Acts, Doee
  <2>2. CASE Came("waiting") /\ DidAct(i)
    BY <1>16, <1>17, <2>1, <2>2
  <2>3. CASE Came("failed") /\ DidNothing
    BY <1>15, <1>17, <2>1, <2>3 DEF DidNothing
  <2>. QED
    BY <1>19, <2>2, <2>3 DEF RunTest
<1>20. ASSUME NEW i \in Steps, Look(i) PROVE OnceInv'
  <2>1. driver.pc \in Acts /\ i = Doee /\ UNCHANGED <<status, acted>>
    BY <1>20 DEF Look, Acting, At, Acts, Doee
  <2>2. CASE Came("waiting") \/ Came("skipped")
    BY <1>15, <1>17, <2>1, <2>2
  <2>3. CASE driver' = [driver EXCEPT !.pc = "type", !.typed = @ \cup {definition[i].session}]
    <3>1. driver'.pc = "type" /\ Doee' = Doee
      BY <1>0, <2>3 DEF Drivers, Doee
    <3>. QED
      BY <1>15, <2>1, <3>1
  <2>. QED
    BY <1>20, <2>2, <2>3 DEF Look
<1>21. CASE Type
  <2>1. driver.pc \in Acts /\ UNCHANGED status
    BY <1>21 DEF Type, At, Acts
  <2>2. CASE (Came("waiting") \/ Came("failed")) /\ DidNothing
    BY <1>15, <1>17, <2>1, <2>2 DEF DidNothing
  <2>3. CASE Goto("submit") /\ DidAct(Doee)
    <3>1. driver'.pc = "submit" /\ Doee' = Doee
      BY <1>0, <2>3 DEF Goto, Drivers, Doee
    <3>. QED
      BY <1>16, <2>1, <2>3, <3>1
  <2>. QED
    BY <1>21, <2>2, <2>3 DEF Type, Doee
<1>. QED
  BY <1>3, <1>4, <1>5, <1>7, <1>8, <1>9, <1>10, <1>11, <1>12, <1>13, <1>14, <1>18, <1>19, <1>20, <1>21
     DEF Next, Driving, CarryOut, Others

\* An effect that happens while the run has ended is the last.
LEMMA LateStep == TypeOK /\ DriverInv /\ LateInv /\ [Next]_vars => LateInv'
<1>. SUFFICES ASSUME TypeOK, DriverInv, LateInv, [Next]_vars PROVE LateInv'
  OBVIOUS
<1>. USE DEF rows, histories, UnchangedByDriver
<1>0. RowTypes /\ driver \in Drivers /\ HistoryTypes
  BY TypeParts
<1>1. ASSUME late' = late, run' \in {"none", "queued", "running"} => run \in {"none", "queued", "running"},
             driver'.pc \in Acts => driver.pc \in Acts \/ run = "running"
      PROVE  LateInv'
  BY <1>1 DEF LateInv
<1>2. ASSUME DidAct(Doee), driver.pc \in Acts, driver'.pc \notin Acts, run' = run PROVE LateInv'
  <2>1. late \in Nat /\ late <= 1 /\ late # 1
    BY <1>0, <1>2 DEF LateInv, HistoryTypes
  <2>2. run \notin Begins
    BY <1>2 DEF DriverInv, Acts
  <2>3. CASE run = "running"
    <3>1. late' = 0
      BY <1>2, <2>1, <2>3 DEF DidAct
    <3>. QED
      BY <3>1 DEF LateInv
  <2>4. CASE run # "running"
    <3>1. late' = 1
      BY <1>2, <2>1, <2>4 DEF DidAct
    <3>. QED
      BY <1>2, <2>2, <2>4, <3>1 DEF LateInv, Begins
  <2>. QED
    BY <2>3, <2>4
<1>3. CASE Others \/ UNCHANGED vars
  BY <1>1, <1>3, OthersLeave
<1>4. CASE Queue \/ Cancel
  BY <1>1, <1>4 DEF Queue, Cancel, Active
<1>5. CASE Tick
  <2>1. Resting.pc = "rest" /\ [Resting EXCEPT !.pc = "begin", !.queued = (run = "queued")].pc = "begin"
    BY DEF Resting
  <2>2. driver'.pc \in {"rest", "begin"}
    BY <1>5, <2>1 DEF Tick, Rest
  <2>. QED
    BY <1>1, <1>5, <2>2 DEF Tick, Acts
<1>6. CASE GiveUp \/ Refused \/ Stop
  <2>0. Resting.pc = "rest"
    BY DEF Resting
  <2>1. driver'.pc = "rest"
    BY <1>6, <2>0 DEF GiveUp, Refused, Stop, Rest
  <2>2. late' = late /\ (run' = run \/ run' = "failed")
    BY <1>6 DEF GiveUp, Refused, Stop, Finished, database
  <2>. QED
    BY <1>1, <2>1, <2>2 DEF Acts
<1>7. CASE Start \/ EndPass
  <2>1. driver'.pc \in {"rest", "recover", "plan"}
    BY <1>0, <1>7 DEF Start, EndPass, Rest, Resting, Goto, Drivers
  <2>2. run' = run \/ run \in {"queued", "running"}
    BY <1>7 DEF Start, EndPass, Finished, Active
  <2>. QED
    BY <1>1, <1>7, <2>1, <2>2 DEF Start, EndPass, Acts
<1>8. CASE Recover \/ Plan
  <2>1. driver'.pc = "apply"
    BY <1>0, <1>8 DEF Recover, Plan, Drivers
  <2>. QED
    BY <1>1, <1>8, <2>1 DEF Recover, Plan, Acts
<1>9. CASE Apply
  <2>1. driver'.pc = "apply"
    BY <1>0, <1>9, ApplyIs DEF Drivers
  <2>. QED
    BY <1>1, <1>9, <2>1 DEF Apply, Acts
<1>10. CASE Claim
  <2>1. driver'.pc \in Acts => run = "running"
    BY <1>0, <1>10, ClaimIs DEF Drivers, Resting, Acts
  <2>. QED
    BY <1>1, <1>10, <2>1 DEF Claim
<1>11. CASE Report \/ Submit
  <2>1. driver'.pc \in {"apply", "report"}
    BY <1>0, <1>11 DEF Report, Submit, Came, Drivers
  <2>. QED
    BY <1>1, <1>11, <2>1 DEF Report, Submit, Acts
<1>12. \A how : Came(how) => driver'.pc = "report"
  BY <1>0 DEF Came, Drivers
<1>13. ASSUME NEW i \in Steps, CarryOut(i) PROVE LateInv'
  <2>1. driver.pc \in Acts /\ i = Doee /\ run' = run
    BY <1>13 DEF CarryOut, StartSession, Notify, RunTest, Look, Acting, At, Acts, Doee
  <2>2. CASE late' = late
    BY <1>1, <2>1, <2>2
  <2>3. CASE DidAct(i) /\ \E how : Came(how)
    BY <1>2, <1>12, <2>1, <2>3 DEF Acts
  <2>. QED
    BY <1>13, <2>2, <2>3 DEF CarryOut, StartSession, Notify, RunTest, Look, DidNothing
<1>14. CASE Type
  <2>1. driver.pc \in Acts /\ run' = run
    BY <1>14 DEF Type, At, Acts
  <2>2. CASE late' = late
    BY <1>1, <2>1, <2>2
  <2>3. CASE DidAct(Doee) /\ Goto("submit")
    <3>1. driver'.pc = "submit"
      BY <1>0, <2>3 DEF Goto, Drivers
    <3>. QED
      BY <1>2, <2>1, <2>3, <3>1 DEF Acts
  <2>. QED
    BY <1>14, <2>2, <2>3 DEF Type, DidNothing, Doee
<1>. QED
  BY <1>3, <1>4, <1>5, <1>6, <1>7, <1>8, <1>9, <1>10, <1>11, <1>13, <1>14 DEF Next, Driving, CarryOut, Others

\* Every step keeps that an agent which was typed to is remembered until it has gone quiet.
LEMMA UnreadStep == TypeOK /\ DriverInv /\ UnreadInv /\ [Next]_vars => UnreadInv'
<1>. SUFFICES ASSUME TypeOK, DriverInv, UnreadInv, [Next]_vars PROVE UnreadInv'
  OBVIOUS
<1>. USE DEF rows, database, memory, world, histories, UnchangedByDriver, UnchangedByWorld
<1>0. /\ RowTypes /\ driver \in Drivers /\ WorldTypes /\ HistoryTypes /\ definition' = definition
      /\ \A i : Action(i)' = Action(i)
  BY TypeParts, DefinitionKept
<1>1. unread \subseteq Ptys /\ sess \in [Ptys -> Sessions]
  BY <1>0 DEF HistoryTypes, WorldTypes
\* Nothing is typed, and no session changes.
<1>2. ASSUME UNCHANGED <<sess, unread>>, driver'.pc \in {"rest", "type"} \/ driver.pc # "rest",
             driver'.pc # "rest" => driver.typed \subseteq driver'.typed,
             driver'.pc = "type" => driver.pc = "type" /\ Doee' = Doee
      PROVE  UnreadInv'
  BY <1>0, <1>2 DEF UnreadInv, Alive, Busy
<1>3. ASSUME UNCHANGED <<sess, unread>>, driver'.pc = "rest" PROVE UnreadInv'
  BY <1>3 DEF UnreadInv, Alive
\* A session changes, and its agent, if it was typed to, goes on working or goes quiet.
<1>4. ASSUME NEW p \in Ptys, UNCHANGED driver, unread' \subseteq unread,
             \A q \in Ptys : q # p => sess'[q] = sess[q],
             p \in unread' => sess'[p].state = "alive" /\ (sess[p].busy => sess'[p].busy)
      PROVE  UnreadInv'
  <2>1. Doee' = Doee
    BY <1>4 DEF Doee
  <2>2. \A q \in unread' : Alive(q)' /\ (Busy(q) => Busy(q)')
    BY <1>1, <1>4 DEF UnreadInv, Alive, Busy
  <2>. QED
    BY <1>0, <1>4, <2>1, <2>2 DEF UnreadInv
<1>5. ASSUME NEW p \in Ptys, Work(p) \/ Quiet(p) \/ Turn(p) \/ Exit(p) \/ Hold(p) \/ LetGo(p) PROVE UnreadInv'
  <2>1. UNCHANGED driver /\ unread' \subseteq unread /\ \A q \in Ptys : q # p => sess'[q] = sess[q]
    BY <1>1, <1>5 DEF Work, Quiet, Turn, Exit, Hold, LetGo
  <2>2. sess[p] \in Sessions /\ (p \in unread => sess[p].state = "alive")
    BY <1>1 DEF UnreadInv, Alive
  <2>3. CASE Quiet(p) \/ Exit(p)
    <3>1. p \notin unread'
      BY <2>3 DEF Quiet, Exit
    <3>. QED
      BY <1>4, <2>1, <3>1
  <2>4. CASE Work(p)
    <3>1. sess'[p].busy /\ sess'[p].state = sess[p].state
      BY <1>1, <2>2, <2>4 DEF Work, Sessions
    <3>. QED
      BY <1>4, <2>1, <2>2, <3>1
  <2>5. CASE Turn(p) \/ Hold(p) \/ LetGo(p)
    <3>1. sess'[p].busy = sess[p].busy /\ sess'[p].state = sess[p].state
      BY <1>1, <2>2, <2>5 DEF Turn, Hold, LetGo, Sessions
    <3>2. sess[p].busy \in BOOLEAN
      BY <2>2 DEF Sessions
    <3>. QED
      BY <1>4, <2>1, <2>2, <3>1, <3>2
  <2>. QED
    BY <1>5, <2>3, <2>4, <2>5
<1>6. CASE UNCHANGED <<driver, sess, unread>>
  BY <1>0, <1>6 DEF UnreadInv, Alive, Busy, Doee
<1>7. CASE Queue \/ Cancel \/ Vanish \/ Post \/ Answer \/ StartAgain \/ UNCHANGED vars
  BY <1>6, <1>7 DEF Queue, Cancel, Vanish, Post, Answer, StartAgain, vars
<1>8. ASSUME NEW i \in Steps, TestEnds(i) \/ TimeOut(i) PROVE UnreadInv'
  BY <1>6, <1>8 DEF TestEnds, TimeOut
<1>9. CASE Tick
  <2>0. Resting.pc = "rest" /\ [Resting EXCEPT !.pc = "begin", !.queued = (run = "queued")].pc = "begin"
    BY DEF Resting
  <2>1. driver'.pc # "type" /\ UNCHANGED <<sess, unread>>
    BY <1>9, <2>0 DEF Tick, Rest
  <2>2. \A p \in unread : Busy(p) /\ Alive(p)
    BY <1>9 DEF Tick, EchoIsIn, UnreadInv
  <2>. QED
    BY <2>1, <2>2 DEF UnreadInv, Busy, Alive
<1>10. CASE GiveUp \/ Refused \/ Stop
  <2>1. Resting.pc = "rest"
    BY DEF Resting
  <2>. QED
    BY <1>3, <1>10, <2>1 DEF GiveUp, Refused, Stop, Rest
<1>11. CASE Start \/ EndPass
  <2>1. UNCHANGED <<sess, unread>> /\ driver.pc # "rest"
    BY <1>11 DEF Start, EndPass, AtEffects, At
  <2>2. CASE driver' = Resting
    BY <1>3, <2>1, <2>2 DEF Resting
  <2>3. CASE Goto("recover") \/ Goto("plan")
    <3>1. driver'.typed = driver.typed /\ driver'.pc \in {"recover", "plan"}
      BY <1>0, <2>3 DEF Goto, Drivers
    <3>. QED
      BY <1>2, <2>1, <3>1
  <2>. QED
    BY <1>11, <2>2, <2>3 DEF Start, EndPass, Rest
<1>12. CASE Recover \/ Plan \/ Apply \/ Report
  <2>1. UNCHANGED <<sess, unread>> /\ driver.pc # "rest"
    BY <1>12 DEF Recover, Starting, Plan, Apply, Report, At
  <2>2. driver'.typed = driver.typed /\ driver'.pc = "apply"
    BY <1>0, <1>12 DEF Recover, Plan, Apply, Report, At, Drivers
  <2>. QED
    BY <1>2, <2>1, <2>2
<1>13. CASE Claim
  <2>1. UNCHANGED <<sess, unread>> /\ driver.pc = "apply"
    BY <1>13 DEF Claim, AtEffects, At
  <2>2. CASE driver' = Resting
    BY <1>3, <2>1, <2>2 DEF Resting
  <2>3. CASE driver' = [driver EXCEPT !.effects = Tail(@)] \/ driver' = [driver EXCEPT !.pc = "act"]
    <3>1. driver'.typed = driver.typed /\ driver'.pc \in {"apply", "act"}
      BY <1>0, <2>1, <2>3 DEF Drivers
    <3>. QED
      BY <1>2, <2>1, <3>1
  <2>. QED
    BY <1>13, <2>2, <2>3, ClaimIs
<1>14. \A how : Came(how) => driver'.typed = driver.typed /\ driver'.pc = "report"
  BY <1>0 DEF Came, Drivers
<1>15. CASE Submit
  <2>1. UNCHANGED <<sess, unread>> /\ driver.pc # "rest" /\ \E how : Came(how)
    BY <1>15 DEF Submit, At
  <2>. QED
    BY <1>2, <1>14, <2>1
<1>16. ASSUME NEW i \in Steps, Notify(i) \/ RunTest(i) PROVE UnreadInv'
  <2>1. UNCHANGED <<sess, unread>> /\ driver.pc # "rest" /\ \E how : Came(how)
    BY <1>16 DEF Notify, RunTest, Acting, At
  <2>. QED
    BY <1>2, <1>14, <2>1
<1>17. ASSUME NEW i \in Steps, StartSession(i) PROVE UnreadInv'
  <2>1. i \in Ptys /\ driver.pc # "rest" /\ unread' = unread /\ \E how : Came(how)
    BY <1>0, <1>17, DefinitionIs DEF StartSession, Acting, At, RowTypes
  <2>2. driver'.typed = driver.typed /\ driver'.pc = "report"
    BY <1>14, <2>1
  <2>3. \A q \in Ptys : sess'[q].busy = sess[q].busy /\ (sess[q].state = "alive" => sess'[q].state = "alive")
    BY <1>1, <1>17, <2>1 DEF StartSession, Sessions
  <2>. QED
    BY <1>1, <2>1, <2>2, <2>3 DEF UnreadInv, Alive, Busy
<1>18. ASSUME NEW i \in Steps, Look(i) PROVE UnreadInv'
  <2>1. UNCHANGED <<sess, unread>> /\ driver.pc # "rest" /\ i = Doee
    BY <1>18 DEF Look, Acting, At, Doee
  <2>2. CASE \E how : Came(how)
    BY <1>2, <1>14, <2>1, <2>2
  <2>3. CASE /\ ~ (~ Alive(definition[i].session))
             /\ ~ (Busy(definition[i].session) \/ definition[i].session \in driver.typed)
             /\ driver' = [driver EXCEPT !.pc = "type", !.typed = @ \cup {definition[i].session}]
    <3>1. driver'.pc = "type" /\ Doee' = Doee /\ driver'.typed = driver.typed \cup {definition[i].session}
      BY <1>0, <2>3 DEF Drivers, Doee
    <3>2. definition[i].session \notin unread
      BY <2>1, <2>3 DEF UnreadInv
    <3>. QED
      BY <1>0, <2>1, <3>1, <3>2 DEF UnreadInv, Alive, Busy
  <2>. QED
    BY <1>18, <2>2, <2>3 DEF Look
<1>19. CASE Type
  <2>1. sess' = sess /\ driver.pc = "type"
    BY <1>19 DEF Type, At
  <2>2. CASE (\E how : Came(how)) /\ UNCHANGED unread
    BY <1>2, <1>14, <2>1, <2>2
  <2>3. CASE Alive(definition[Doee].session) /\ Goto("submit") /\ unread' = unread \cup {definition[Doee].session}
    <3>1. driver'.pc = "submit" /\ driver'.typed = driver.typed
      BY <1>0, <2>3 DEF Goto, Drivers
    <3>2. definition[Doee].session \in driver.typed
      BY <2>1 DEF UnreadInv
    <3>. QED
      BY <2>1, <2>3, <3>1, <3>2 DEF UnreadInv, Alive, Busy
  <2>. QED
    BY <1>19, <2>2, <2>3 DEF Type, Doee
<1>. QED
  BY <1>5, <1>7, <1>8, <1>9, <1>10, <1>11, <1>12, <1>13, <1>15, <1>16, <1>17, <1>18, <1>19
     DEF Next, Driving, CarryOut

---------------------------------------------------------------------------
\* What a plan does to the steps.

\* What is left of a plan after a step.
LEMMA PlanNext ==
    ASSUME definition' = definition,
           run' = "running" => /\ Left(status', driver'.moves, driver'.effects, driver'.finish)
                               /\ \A i \in Steps : status'[i] # "cancelled"
    PROVE  PlanInv'
BY DEF PlanInv, Left, Ordered, Awaited, WillBeMet, Finishes, Comes, Steps

\* Nothing is left of a plan.
LEMMA PlanDone ==
    ASSUME NEW st PROVE Left(st, <<>>, <<>>, "none")
BY DEF Left, Ordered, Awaited, Finishes

\* What step i needs has succeeded, once no move is left.
LEMMA MetNow ==
    ASSUME NEW st, NEW moves, NEW i, \A j \in DOMAIN moves : ~ (j < 1), WillBeMet(st, i, moves, 1)
    PROVE  \A n \in definition[i].needs : st[n] = "succeeded"
BY DEF WillBeMet

\* The effects of a plan, once its moves are applied: one more, or the same.
LEMMA EffectsGoOn ==
    ASSUME definition \in Workflows, NEW effects \in Seq(Moves), \A k \in DOMAIN effects : EffectFits(effects[k]),
           NEW st, Left(st, <<>>, effects, "none"), effects # <<>>, NEW next,
           \A n \in Steps : st[n] = "succeeded" => next[n] = "succeeded"
    PROVE  Left(next, <<>>, effects, "none") /\ Left(next, <<>>, Tail(effects), "none")
<1>1. ASSUME NEW k \in DOMAIN effects, effects[k].from = "pending" PROVE WillBeMet(next, effects[k].step, <<>>, 1)
  <2>1. effects[k].step \in Steps /\ WillBeMet(st, effects[k].step, <<>>, Len(<<>>) + 1)
    BY <1>1 DEF EffectFits, Left, Awaited
  <2>2. \A n \in definition[effects[k].step].needs : n \in Steps /\ st[n] = "succeeded"
    BY <2>1, DefinitionIs DEF WillBeMet
  <2>. QED
    BY <2>2 DEF WillBeMet
<1>2. \A k \in DOMAIN Tail(effects) : k + 1 \in DOMAIN effects /\ Tail(effects)[k] = effects[k + 1]
  BY HeadIs
<1>3. Len(<<>>) + 1 = 1
  OBVIOUS
<1>4. Awaited(next, <<>>, effects) /\ Awaited(next, <<>>, Tail(effects))
  BY <1>1, <1>2, <1>3 DEF Awaited
<1>. QED
  BY <1>4 DEF Left, Ordered, Finishes

\* One move of a plan is applied.
LEMMA MovesGoOn ==
    ASSUME definition \in Workflows, NEW moves \in Seq(Moves), moves # <<>>,
           \A k \in DOMAIN moves : MoveFits(moves[k]),
           NEW effects \in Seq(Moves), \A k \in DOMAIN effects : EffectFits(effects[k]),
           NEW finish \in {"none", "succeeded", "failed"},
           NEW st \in [Steps -> StepStatus], Left(st, moves, effects, finish), NEW next,
           st[moves[1].step] = moves[1].from => next = [st EXCEPT ![moves[1].step] = moves[1].to]
    PROVE  st[moves[1].step] = moves[1].from /\ Left(next, Tail(moves), effects, finish)
<1>. DEFINE m == moves[1]
            rest == Tail(moves)
<1>1. 1 \in DOMAIN moves /\ MoveFits(m)
  BY HeadIs
<1>2. /\ Len(moves) \in Nat /\ DOMAIN moves = 1 .. Len(moves) /\ DOMAIN rest = 1 .. Len(moves) - 1
      /\ \A k \in DOMAIN rest : k + 1 \in DOMAIN moves /\ rest[k] = moves[k + 1]
      /\ rest \in Seq(Moves)
  BY HeadIs
<1>3. Len(rest) + 1 = Len(moves)
  BY <1>1, <1>2
<1>. HIDE DEF m, rest
<1>4. Ordered(st, moves) /\ Awaited(st, moves, effects) /\ Finishes(st, finish, moves)
  BY DEF Left
<1>5. st[m.step] = m.from
  <2>1. \A j \in DOMAIN moves : ~ (j < 1)
    BY <1>2
  <2>. QED
    BY <1>1, <1>4, <2>1 DEF Ordered, m
<1>6. next = [st EXCEPT ![m.step] = m.to]
  BY <1>5 DEF m
<1>7. m.step \in Steps /\ next[m.step] = m.to /\ \A i \in Steps : i # m.step => next[i] = st[i]
  BY <1>1, <1>6 DEF MoveFits
<1>8. \A n \in Steps : st[n] = "succeeded" => next[n] = "succeeded"
  BY <1>1, <1>5, <1>7 DEF MoveFits
<1>9. \A k \in DOMAIN moves : k = 1 \/ (k - 1 \in DOMAIN rest /\ rest[k - 1] = moves[k])
  BY <1>2
<1>10. Ordered(next, rest)
  <2>1. ASSUME NEW k \in DOMAIN rest, \A j \in DOMAIN rest : j < k => rest[j].step # rest[k].step
        PROVE  next[rest[k].step] = rest[k].from
    <3>1. rest[k] = moves[k + 1] /\ k + 1 \in DOMAIN moves /\ 1 < k + 1 /\ moves[k + 1].step \in Steps
      BY <1>2 DEF MoveFits
    <3>2. CASE moves[k + 1].step = m.step
      <4>1. m.to = "waiting" /\ moves[k + 1].from = "waiting"
        BY <1>1, <1>4, <3>1, <3>2 DEF Ordered, m
      <4>. QED
        BY <1>7, <3>1, <3>2, <4>1
    <3>3. CASE moves[k + 1].step # m.step
      <4>1. ASSUME NEW j \in DOMAIN moves, j < k + 1 PROVE moves[j].step # moves[k + 1].step
        <5>1. CASE j = 1
          BY <3>3, <5>1 DEF m
        <5>2. CASE j # 1
          <6>1. j - 1 \in DOMAIN rest /\ rest[j - 1] = moves[j] /\ j - 1 < k
            BY <1>2, <1>9, <4>1, <5>2
          <6>. QED
            BY <2>1, <3>1, <6>1
        <5>. QED
          BY <5>1, <5>2
      <4>2. st[moves[k + 1].step] = moves[k + 1].from
        BY <1>4, <3>1, <4>1 DEF Ordered
      <4>. QED
        BY <1>7, <3>1, <3>3, <4>2
    <3>. QED
      BY <3>2, <3>3
  <2>2. ASSUME NEW j \in DOMAIN rest, NEW k \in DOMAIN rest, j < k, rest[j].step = rest[k].step
        PROVE  rest[j].to = "waiting" /\ rest[k].from = "waiting"
    <3>1. j + 1 \in DOMAIN moves /\ k + 1 \in DOMAIN moves /\ j + 1 < k + 1
          /\ rest[j] = moves[j + 1] /\ rest[k] = moves[k + 1]
      BY <1>2, <2>2
    <3>. QED
      BY <1>4, <2>2, <3>1 DEF Ordered
  <2>. QED
    BY <2>1, <2>2 DEF Ordered
<1>11. ASSUME NEW i \in Steps, NEW k \in Nat, WillBeMet(st, i, moves, k + 1) PROVE WillBeMet(next, i, rest, k)
  <2>. SUFFICES ASSUME NEW n \in definition[i].needs
                PROVE  \/ next[n] = "succeeded"
                       \/ \E j \in DOMAIN rest : j < k /\ rest[j].step = n /\ rest[j].to = "succeeded"
    BY DEF WillBeMet
  <2>1. n \in Steps
    BY DefinitionIs
  <2>2. CASE st[n] = "succeeded"
    BY <1>8, <2>1, <2>2
  <2>3. CASE \E j \in DOMAIN moves : j < k + 1 /\ moves[j].step = n /\ moves[j].to = "succeeded"
    <3>1. PICK j \in DOMAIN moves : j < k + 1 /\ moves[j].step = n /\ moves[j].to = "succeeded"
      BY <2>3
    <3>2. CASE j = 1
      BY <1>7, <3>1, <3>2 DEF m
    <3>3. CASE j # 1
      <4>1. j - 1 \in DOMAIN rest /\ rest[j - 1] = moves[j] /\ j - 1 < k
        BY <1>2, <1>9, <3>1, <3>3
      <4>. QED
        BY <3>1, <4>1
    <3>. QED
      BY <3>2, <3>3
  <2>. QED
    BY <1>11, <2>2, <2>3 DEF WillBeMet
<1>12. Awaited(next, rest, effects)
  <2>1. ASSUME NEW k \in DOMAIN rest, rest[k].from = "pending", rest[k].to # "skipped"
        PROVE  WillBeMet(next, rest[k].step, rest, k)
    <3>1. rest[k] = moves[k + 1] /\ k + 1 \in DOMAIN moves /\ k \in Nat /\ moves[k + 1].step \in Steps
      BY <1>2 DEF MoveFits
    <3>2. WillBeMet(st, moves[k + 1].step, moves, k + 1)
      BY <1>4, <2>1, <3>1 DEF Awaited
    <3>. QED
      BY <1>11, <3>1, <3>2
  <2>2. ASSUME NEW k \in DOMAIN effects, effects[k].from = "pending"
        PROVE  WillBeMet(next, effects[k].step, rest, Len(rest) + 1)
    <3>1. effects[k].step \in Steps /\ WillBeMet(st, effects[k].step, moves, Len(moves) + 1)
      BY <1>4, <2>2 DEF Awaited, EffectFits
    <3>2. WillBeMet(next, effects[k].step, rest, Len(moves))
      BY <1>2, <1>11, <3>1
    <3>. QED
      BY <1>3, <3>2
  <2>. QED
    BY <2>1, <2>2 DEF Awaited
<1>13. ASSUME NEW i \in Steps, NEW ways, ways \in {Good, {"failed"}}, Comes(st, i, moves, ways)
       PROVE  Comes(next, i, rest, ways)
  <2>1. CASE st[i] \in ways
    <3>1. st[i] \in {"succeeded", "skipped", "failed"}
      BY <1>13, <2>1 DEF Good
    <3>2. i # m.step
      BY <1>1, <1>5, <3>1 DEF MoveFits
    <3>. QED
      BY <1>7, <2>1, <3>2 DEF Comes
  <2>2. CASE \E k \in DOMAIN moves : moves[k].step = i /\ moves[k].to \in ways
    <3>1. PICK k \in DOMAIN moves : moves[k].step = i /\ moves[k].to \in ways
      BY <2>2
    <3>2. CASE k = 1
      BY <1>7, <3>1, <3>2 DEF Comes, m
    <3>3. CASE k # 1
      <4>1. k - 1 \in DOMAIN rest /\ rest[k - 1] = moves[k]
        BY <1>9, <3>3
      <4>. QED
        BY <3>1, <4>1 DEF Comes
    <3>. QED
      BY <3>2, <3>3
  <2>. QED
    BY <1>13, <2>1, <2>2 DEF Comes
<1>14. Finishes(next, finish, rest)
  BY <1>4, <1>13 DEF Finishes
<1>. QED
  BY <1>5, <1>10, <1>12, <1>14 DEF Left, rest, m

\* A plan that was just made says what it does to the steps.
LEMMA PlanMade ==
    ASSUME definition \in Workflows, status \in [Steps -> StepStatus], \A i \in Steps : status[i] # "cancelled"
    PROVE  Left(status, Advance.moves, Advance.effects, Finish(Advance.status))
<1>. DEFINE plan == Advance
<1>1. PlanFits(plan)
  BY AdvanceFits
<1>. HIDE DEF plan
<1>2. ASSUME NEW i \in Steps, NEW ways, plan.status[i] \in ways, "running" \notin ways
      PROVE  Comes(status, i, plan.moves, ways)
  BY <1>1, <1>2 DEF PlanFits, Told, Comes
<1>3. ASSUME Finish(plan.status) = "succeeded" PROVE \A i \in Steps : Comes(status, i, plan.moves, Good)
  <2>1. ASSUME NEW i \in Steps PROVE plan.status[i] \in Good
    <3>1. Final(plan.status[i]) /\ plan.status[i] # "failed"
      BY <1>3 DEF Finish
    <3>2. plan.status[i] # "cancelled"
      BY <1>1 DEF PlanFits, Told, MoveFits
    <3>. QED
      BY <3>1, <3>2 DEF Final, Good
  <2>. QED
    BY <1>2, <2>1 DEF Good
<1>4. ASSUME Finish(plan.status) = "failed" PROVE \E i \in Steps : Comes(status, i, plan.moves, {"failed"})
  <2>1. PICK i \in Steps : plan.status[i] = "failed"
    BY <1>4 DEF Finish
  <2>. QED
    BY <1>2, <2>1
<1>5. Finishes(status, Finish(plan.status), plan.moves)
  BY <1>3, <1>4 DEF Finishes
<1>6. Left(status, plan.moves, plan.effects, Finish(plan.status))
  BY <1>1, <1>5 DEF PlanFits, Left
<1>. QED
  BY <1>6 DEF plan

\* Every step keeps what is left of a plan.
LEMMA PlanStep == TypeOK /\ DriverInv /\ PlanInv /\ [Next]_vars => PlanInv'
<1>. SUFFICES ASSUME TypeOK, DriverInv, PlanInv, [Next]_vars PROVE PlanInv'
  OBVIOUS
<1>. USE DEF rows, UnchangedByDriver
<1>0. /\ definition \in Workflows /\ status \in [Steps -> StepStatus] /\ driver \in Drivers
      /\ definition' = definition
      /\ driver.moves \in Seq(Moves) /\ driver.effects \in Seq(Moves)
      /\ driver.finish \in {"none", "succeeded", "failed"}
  BY TypeParts, DefinitionKept DEF RowTypes, Drivers
<1>1. ASSUME run' # "running" PROVE PlanInv'
  BY <1>1 DEF PlanInv
<1>2. ASSUME run' = "running" => run = "running" /\ status' = status,
             driver'.moves = driver.moves, driver'.effects = driver.effects, driver'.finish = driver.finish
      PROVE  PlanInv'
  BY <1>0, <1>2, PlanNext DEF PlanInv
<1>3. ASSUME run' = "running" => \A i \in Steps : status'[i] # "cancelled",
             driver'.moves = <<>>, driver'.effects = <<>>, driver'.finish = "none"
      PROVE  PlanInv'
  BY <1>0, <1>3, PlanDone, PlanNext
<1>4. ASSUME run' = "running" => run = "running" /\ status' = status, driver' = Resting PROVE PlanInv'
  <2>1. driver'.moves = <<>> /\ driver'.effects = <<>> /\ driver'.finish = "none"
    BY <1>4 DEF Resting
  <2>. QED
    BY <1>3, <1>4, <2>1 DEF PlanInv
<1>5. CASE Others \/ UNCHANGED vars
  BY <1>2, <1>5, OthersLeave
<1>6. CASE Queue \/ Cancel
  BY <1>1, <1>6 DEF Queue, Cancel
<1>7. CASE Tick
  <2>1. /\ Resting.moves = <<>> /\ Resting.effects = <<>> /\ Resting.finish = "none"
        /\ [Resting EXCEPT !.pc = "begin", !.queued = (run = "queued")].moves = <<>>
        /\ [Resting EXCEPT !.pc = "begin", !.queued = (run = "queued")].effects = <<>>
        /\ [Resting EXCEPT !.pc = "begin", !.queued = (run = "queued")].finish = "none"
    BY DEF Resting
  <2>2. driver'.moves = <<>> /\ driver'.effects = <<>> /\ driver'.finish = "none" /\ UNCHANGED <<run, status>>
    BY <1>7, <2>1 DEF Tick, Rest
  <2>. QED
    BY <1>3, <2>2 DEF PlanInv
<1>8. CASE GiveUp \/ Refused \/ Stop
  <2>1. driver' = Resting /\ status' = status /\ (run' = run \/ run' = "failed")
    BY <1>8 DEF GiveUp, Refused, Stop, Finished, Rest, database
  <2>. QED
    BY <1>4, <2>1
<1>9. CASE Start
  <2>1. driver.moves = <<>> /\ driver.effects = <<>> /\ driver.finish = "none"
    BY <1>9 DEF Start, At, DriverInv, Applying, Doing, Acts
  <2>2. CASE run # "queued"
    BY <1>4, <1>9, <2>2 DEF Start, Rest
  <2>3. CASE run = "queued"
    <3>1. driver' = [driver EXCEPT !.pc = "recover"] /\ status' = status
      BY <1>9, <2>3 DEF Start, Goto
    <3>2. driver'.moves = <<>> /\ driver'.effects = <<>> /\ driver'.finish = "none"
      BY <1>0, <2>1, <3>1 DEF Drivers
    <3>3. \A i \in Steps : status[i] = "pending"
      BY <2>3 DEF DriverInv, Begins
    <3>. QED
      BY <1>3, <3>1, <3>2, <3>3
  <2>. QED
    BY <2>2, <2>3
<1>10. CASE Recover
  <2>1. /\ driver' = [driver EXCEPT !.pc = "apply", !.again = TRUE,
                                    !.moves = IF recovered THEN <<>> ELSE Interrupted("failed")]
        /\ UNCHANGED <<run, status>> /\ Starting
    BY <1>10 DEF Recover
  <2>2. driver.moves = <<>> /\ driver.effects = <<>> /\ driver.finish = "none"
    BY <2>1 DEF Starting, At, DriverInv, Applying, Doing, Acts
  <2>3. /\ driver'.effects = <<>> /\ driver'.finish = "none"
        /\ driver'.moves = IF recovered THEN <<>> ELSE Interrupted("failed")
    BY <1>0, <2>1, <2>2 DEF Drivers
  <2>4. CASE recovered
    BY <1>3, <2>1, <2>3, <2>4 DEF PlanInv
  <2>5. CASE ~ recovered
    <3>1. PICK moves : moves = Interrupted("failed")
      OBVIOUS
    <3>2. Ordered(status, moves) /\ \A k \in DOMAIN moves : moves[k].from = "running"
      BY <1>0, <3>1, InterruptedFits
    <3>3. Left(status, moves, <<>>, "none")
      BY <3>2 DEF Left, Awaited, Finishes
    <3>. QED
      BY <1>0, <2>1, <2>3, <2>5, <3>1, <3>3, PlanNext DEF PlanInv
  <2>. QED
    BY <2>4, <2>5
<1>11. CASE Plan
  <2>1. /\ driver' = [driver EXCEPT !.pc = "apply", !.again = FALSE, !.moves = Advance.moves,
                                    !.effects = Advance.effects, !.finish = Finish(Advance.status)]
        /\ UNCHANGED <<run, status>>
    BY <1>11 DEF Plan
  <2>2. /\ driver'.moves = Advance.moves /\ driver'.effects = Advance.effects
        /\ driver'.finish = Finish(Advance.status)
    BY <1>0, <2>1 DEF Drivers
  <2>. QED
    BY <1>0, <2>1, <2>2, PlanMade, PlanNext DEF PlanInv
<1>12. CASE Apply
  <2>1. run' = run
    BY <1>12 DEF Apply
  <2>2. CASE run # "running"
    BY <1>1, <2>1, <2>2
  <2>3. CASE run = "running"
    <3>1. /\ driver.moves # <<>> /\ MoveFits(driver.moves[1])
          /\ driver' = [driver EXCEPT !.moves = Tail(@)]
          /\ status[driver.moves[1].step] = driver.moves[1].from
                => status' = [status EXCEPT ![driver.moves[1].step] = driver.moves[1].to]
      BY <1>12, <2>3, ApplyIs
    <3>2. /\ driver'.moves = Tail(driver.moves) /\ driver'.effects = driver.effects
          /\ driver'.finish = driver.finish
      BY <1>0, <3>1 DEF Drivers
    <3>3. status[driver.moves[1].step] = driver.moves[1].from
          /\ Left(status', Tail(driver.moves), driver.effects, driver.finish)
      <4>1. /\ \A k \in DOMAIN driver.moves : MoveFits(driver.moves[k])
            /\ \A k \in DOMAIN driver.effects : EffectFits(driver.effects[k])
        BY DEF DriverInv
      <4>2. Left(status, driver.moves, driver.effects, driver.finish)
        BY <2>3 DEF PlanInv
      <4>3. PICK moves, effects, finish, st, next :
                moves = driver.moves /\ effects = driver.effects /\ finish = driver.finish
                /\ st = status /\ next = status'
        OBVIOUS
      <4>4. /\ moves \in Seq(Moves) /\ moves # <<>> /\ effects \in Seq(Moves)
            /\ finish \in {"none", "succeeded", "failed"} /\ st \in [Steps -> StepStatus]
            /\ st[moves[1].step] = moves[1].from => next = [st EXCEPT ![moves[1].step] = moves[1].to]
        BY <1>0, <3>1, <4>3
      <4>5. st[moves[1].step] = moves[1].from /\ Left(next, Tail(moves), effects, finish)
        <5>1. /\ definition \in Workflows /\ Left(st, moves, effects, finish)
              /\ \A k \in DOMAIN moves : MoveFits(moves[k])
              /\ \A k \in DOMAIN effects : EffectFits(effects[k])
          BY <1>0, <4>1, <4>2, <4>3
        <5>. QED
          BY <4>4, <5>1, MovesGoOn
      <4>. QED
        BY <4>3, <4>5
    <3>4. \A i \in Steps : status'[i] # "cancelled"
      BY <1>0, <2>3, <3>1, <3>3 DEF PlanInv, MoveFits
    <3>. QED
      BY <1>0, <3>2, <3>3, <3>4, PlanNext
  <2>. QED
    BY <2>2, <2>3
\* The steps of the effects that are left.
<1>13. ASSUME driver.moves = <<>>, driver.effects # <<>>, run' = run, driver'.moves = <<>>,
              driver'.effects \in {driver.effects, Tail(driver.effects)}, driver'.finish = driver.finish,
              run = "running" => \A n \in Steps : /\ status[n] = "succeeded" => status'[n] = "succeeded"
                                                  /\ status'[n] # "cancelled"
       PROVE  PlanInv'
  <2>. SUFFICES ASSUME run = "running" PROVE Left(status', driver'.moves, driver'.effects, driver'.finish)
    BY <1>0, <1>13, PlanNext
  <2>1. driver.finish = "none" /\ \A k \in DOMAIN driver.effects : EffectFits(driver.effects[k])
    BY <1>13 DEF DriverInv
  <2>2. Left(status, <<>>, driver.effects, "none")
    BY <1>13, <2>1 DEF PlanInv
  <2>3. Left(status', <<>>, driver.effects, "none") /\ Left(status', <<>>, Tail(driver.effects), "none")
    BY <1>0, <1>13, <2>1, <2>2, EffectsGoOn
  <2>. QED
    BY <1>13, <2>1, <2>3
<1>14. CASE Claim
  <2>1. driver.moves = <<>> /\ driver.effects # <<>> /\ run' = run /\ Doee \in Steps
    BY <1>14, ClaimIs DEF Claim, AtEffects
  <2>2. CASE UNCHANGED status /\ driver' = Resting
    BY <1>4, <2>1, <2>2
  <2>3. CASE UNCHANGED status /\ driver' = [driver EXCEPT !.effects = Tail(@)]
    <3>1. /\ driver'.moves = driver.moves /\ driver'.effects = Tail(driver.effects)
          /\ driver'.finish = driver.finish
      BY <1>0, <2>3 DEF Drivers
    <3>. QED
      BY <1>13, <2>1, <2>3, <3>1 DEF PlanInv
  <2>4. CASE /\ EffectFits(Head(driver.effects)) /\ status[Doee] = Head(driver.effects).from
             /\ status' = [status EXCEPT ![Doee] = "running"] /\ driver' = [driver EXCEPT !.pc = "act"]
    <3>1. /\ driver'.moves = driver.moves /\ driver'.effects = driver.effects
          /\ driver'.finish = driver.finish
      BY <1>0, <2>4 DEF Drivers
    <3>2. status[Doee] # "succeeded"
      BY <2>4 DEF EffectFits
    <3>3. run = "running" => \A n \in Steps : /\ status[n] = "succeeded" => status'[n] = "succeeded"
                                              /\ status'[n] # "cancelled"
      BY <1>0, <2>1, <2>4, <3>2 DEF PlanInv
    <3>. QED
      BY <1>13, <2>1, <3>1, <3>3
  <2>. QED
    BY <1>14, <2>2, <2>3, <2>4, ClaimIs
<1>15. CASE Report
  <2>1. driver.pc \in Doing /\ run' = run /\ driver.moves = <<>> /\ driver.effects # <<>>
        /\ driver' = [driver EXCEPT !.pc = "apply", !.effects = Tail(@), !.outcome = "none",
                                    !.again = @ \/ driver.outcome # "waiting"]
    BY <1>15 DEF Report, At, Doing, DriverInv
  <2>2. driver'.moves = driver.moves /\ driver'.effects = Tail(driver.effects) /\ driver'.finish = driver.finish
    BY <1>0, <2>1 DEF Drivers
  <2>3. run = "running" => \A n \in Steps : /\ status[n] = "succeeded" => status'[n] = "succeeded"
                                            /\ status'[n] # "cancelled"
    BY <1>0, <1>15, ReportIs DEF PlanInv
  <2>. QED
    BY <1>13, <2>1, <2>2, <2>3
<1>16. CASE EndPass
  <2>1. /\ driver.effects = <<>> /\ driver.moves = <<>> /\ status' = status
        /\ \/ driver' = Resting /\ (run' = run \/ run' = driver.finish)
           \/ driver' = [driver EXCEPT !.pc = "plan"] /\ run' = run
    BY <1>16 DEF EndPass, AtEffects, Finished, Rest, Goto
  <2>2. CASE driver' = Resting /\ (run' = run \/ run' = driver.finish)
    BY <1>0, <1>4, <2>1, <2>2
  <2>3. CASE driver' = [driver EXCEPT !.pc = "plan"] /\ run' = run
    <3>1. driver'.moves = driver.moves /\ driver'.effects = driver.effects /\ driver'.finish = driver.finish
      BY <1>0, <2>3 DEF Drivers
    <3>. QED
      BY <1>2, <2>1, <2>3, <3>1
  <2>. QED
    BY <2>1, <2>2, <2>3
<1>17. ASSUME NEW i \in Steps, CarryOut(i) PROVE PlanInv'
  <2>1. UNCHANGED <<run, status>>
    BY <1>17 DEF CarryOut, StartSession, Notify, RunTest, Look
  <2>2. driver'.moves = driver.moves /\ driver'.effects = driver.effects /\ driver'.finish = driver.finish
    BY <1>0, <1>17 DEF CarryOut, StartSession, Notify, RunTest, Look, Came, Drivers
  <2>. QED
    BY <1>2, <2>1, <2>2
<1>18. CASE Type \/ Submit
  <2>1. UNCHANGED <<run, status>>
    BY <1>18 DEF Type, Submit
  <2>2. driver'.moves = driver.moves /\ driver'.effects = driver.effects /\ driver'.finish = driver.finish
    BY <1>0, <1>18 DEF Type, Submit, Came, Goto, Drivers
  <2>. QED
    BY <1>2, <2>1, <2>2
<1>. QED
  BY <1>5, <1>6, <1>7, <1>8, <1>9, <1>10, <1>11, <1>12, <1>14, <1>15, <1>16, <1>17, <1>18
     DEF Next, Driving, Others

\* The needs of a step stay met when a change takes nothing back that succeeded.
LEMMA NeedsKept ==
    ASSUME NeedsMet, definition' = definition, Steps' = Steps, definition \in Workflows,
           \A n \in Steps : status[n] = "succeeded" => status'[n] = "succeeded",
           \A i \in Steps :
              \/ status'[i] \notin {"running", "waiting", "succeeded", "failed"}
              \/ status[i] \in {"running", "waiting", "succeeded", "failed"}
              \/ \A n \in definition[i].needs : status[n] = "succeeded"
    PROVE  NeedsMet'
<1>. SUFFICES ASSUME NEW i \in Steps, status'[i] \in {"running", "waiting", "succeeded", "failed"},
                     NEW n \in definition[i].needs
              PROVE  status'[n] = "succeeded"
  BY DEF NeedsMet
<1>1. n \in Steps
  BY DefinitionIs
<1>2. status[n] = "succeeded"
  BY DEF NeedsMet
<1>. QED
  BY <1>1, <1>2

\* Every step keeps that steps begin once what they need has succeeded.
LEMMA NeedsStep == TypeOK /\ DriverInv /\ PlanInv /\ NeedsMet /\ [Next]_vars => NeedsMet'
<1>. SUFFICES ASSUME TypeOK, DriverInv, PlanInv, NeedsMet, [Next]_vars PROVE NeedsMet'
  OBVIOUS
<1>. USE DEF rows, database, UnchangedByDriver
<1>0. /\ definition \in Workflows /\ status \in [Steps -> StepStatus] /\ driver \in Drivers
      /\ definition' = definition /\ Steps' = Steps
  BY TypeParts, DefinitionKept DEF RowTypes
<1>1. CASE status' = status
  BY <1>0, <1>1, NeedsKept
<1>2. CASE Cancel
  <2>1. \A i \in Steps : status'[i] = IF Final(status[i]) THEN status[i] ELSE "cancelled"
    BY <1>2 DEF Cancel
  <2>2. ASSUME NEW i \in Steps PROVE status'[i] = status[i] \/ status'[i] = "cancelled"
    BY <2>1
  <2>3. ASSUME NEW i \in Steps, status[i] = "succeeded" PROVE status'[i] = "succeeded"
    BY <2>1, <2>3 DEF Final
  <2>. QED
    BY <1>0, <2>2, <2>3, NeedsKept
<1>3. ASSUME NEW i \in Steps, NEW to, status' = [status EXCEPT ![i] = to], status[i] # "succeeded",
             \/ to \notin {"running", "waiting", "succeeded", "failed"}
             \/ status[i] \in {"running", "waiting", "succeeded", "failed"}
             \/ \A n \in definition[i].needs : status[n] = "succeeded"
      PROVE  NeedsMet'
  <2>1. status'[i] = to /\ \A j \in Steps : j # i => status'[j] = status[j]
    BY <1>0, <1>3
  <2>2. \A n \in Steps : status[n] = "succeeded" => status'[n] = "succeeded"
    BY <1>3, <2>1
  <2>3. \A j \in Steps : \/ status'[j] \notin {"running", "waiting", "succeeded", "failed"}
                         \/ status[j] \in {"running", "waiting", "succeeded", "failed"}
                         \/ \A n \in definition[j].needs : status[n] = "succeeded"
    BY <1>3, <2>1
  <2>. QED
    BY <1>0, <2>2, <2>3, NeedsKept
<1>4. CASE Apply
  <2>. SUFFICES ASSUME status' # status PROVE NeedsMet'
    BY <1>1
  <2>. DEFINE m == driver.moves[1]
  <2>1. /\ MoveFits(m) /\ 1 \in DOMAIN driver.moves /\ driver.moves \in Seq(Moves)
        /\ run = "running" /\ status[m.step] = m.from /\ status' = [status EXCEPT ![m.step] = m.to]
    BY <1>4, ApplyIs
  <2>2. m.step \in Steps /\ status[m.step] # "succeeded"
    BY <2>1 DEF MoveFits
  <2>3. \/ m.to \notin {"running", "waiting", "succeeded", "failed"}
        \/ status[m.step] \in {"running", "waiting", "succeeded", "failed"}
        \/ m.from = "pending" /\ m.to # "skipped"
    BY <2>1 DEF MoveFits
  <2>4. ASSUME m.from = "pending", m.to # "skipped"
        PROVE  \A n \in definition[m.step].needs : status[n] = "succeeded"
    <3>1. WillBeMet(status, m.step, driver.moves, 1)
      BY <2>1, <2>4 DEF PlanInv, Left, Awaited
    <3>2. \A j \in DOMAIN driver.moves : ~ (j < 1)
      BY <2>1
    <3>. QED
      BY <3>1, <3>2 DEF WillBeMet
  <2>. HIDE DEF m
  <2>5. \/ m.to \notin {"running", "waiting", "succeeded", "failed"}
        \/ status[m.step] \in {"running", "waiting", "succeeded", "failed"}
        \/ \A n \in definition[m.step].needs : status[n] = "succeeded"
    BY <2>3, <2>4
  <2>. QED
    BY <1>3, <2>1, <2>2, <2>5
<1>5. CASE Claim
  <2>. SUFFICES ASSUME status' # status PROVE NeedsMet'
    BY <1>1
  <2>1. /\ driver.moves = <<>> /\ driver.effects # <<>> /\ driver.effects \in Seq(Moves)
        /\ Doee \in Steps /\ run = "running" /\ EffectFits(Head(driver.effects))
        /\ status[Doee] = Head(driver.effects).from /\ status' = [status EXCEPT ![Doee] = "running"]
    BY <1>0, <1>5, ClaimIs DEF Claim, AtEffects, Drivers
  <2>2. 1 \in DOMAIN driver.effects /\ Head(driver.effects) = driver.effects[1]
    BY <2>1, HeadIs
  <2>3. status[Doee] # "succeeded" /\ (status[Doee] = "pending" \/ status[Doee] = "waiting")
    BY <2>1 DEF EffectFits
  <2>4. ASSUME status[Doee] = "pending" PROVE \A n \in definition[Doee].needs : status[n] = "succeeded"
    <3>1. driver.effects[1].from = "pending" /\ driver.effects[1].step = Doee
      BY <2>1, <2>2, <2>4 DEF Doee
    <3>2. WillBeMet(status, Doee, <<>>, Len(<<>>) + 1)
      BY <2>1, <2>2, <3>1 DEF PlanInv, Left, Awaited
    <3>. QED
      BY <3>2 DEF WillBeMet
  <2>. QED
    BY <1>3, <2>1, <2>3, <2>4
<1>6. CASE Report
  <2>1. \/ UNCHANGED status
        \/ status[Doee] = "running" /\ status' = [status EXCEPT ![Doee] = driver.outcome]
    BY <1>6, ReportIs
  <2>2. Doee \in Steps
    BY <1>6, ReportIs
  <2>. QED
    BY <1>1, <1>3, <2>1, <2>2
<1>7. CASE Others \/ UNCHANGED vars
  BY <1>1, <1>7, OthersLeave
<1>8. CASE Queue \/ Tick \/ GiveUp \/ Start \/ Recover \/ Plan \/ EndPass \/ Type \/ Submit \/ Refused \/ Stop
  BY <1>1, <1>8 DEF Queue, Tick, GiveUp, Start, Recover, Plan, EndPass, Type, Submit, Refused, Stop
<1>9. ASSUME NEW i \in Steps, CarryOut(i) PROVE NeedsMet'
  BY <1>1, <1>9 DEF CarryOut, StartSession, Notify, RunTest, Look
<1>. QED
  BY <1>2, <1>4, <1>5, <1>6, <1>7, <1>8, <1>9 DEF Next, Driving, Others

\* Every step keeps that a run ended as its steps say.
LEMMA TrueStep == TypeOK /\ DriverInv /\ PlanInv /\ RunTrue /\ [Next]_vars => RunTrue'
<1>. SUFFICES ASSUME TypeOK, DriverInv, PlanInv, RunTrue, [Next]_vars PROVE RunTrue'
  OBVIOUS
<1>. USE DEF rows, database, UnchangedByDriver
<1>0. /\ definition \in Workflows /\ status \in [Steps -> StepStatus] /\ driver \in Drivers
      /\ Steps' = Steps /\ run \in {"none", "queued", "running", "succeeded", "failed", "cancelled"}
  BY TypeParts, DefinitionKept DEF RowTypes
<1>1. CASE UNCHANGED <<run, status>> /\ (place' => place)
  BY <1>0, <1>1 DEF RunTrue, Final
<1>2. CASE run' \notin {"succeeded", "failed", "cancelled"}
  BY <1>2 DEF RunTrue
<1>3. CASE run' = "failed" /\ ~ place'
  BY <1>3 DEF RunTrue
<1>4. CASE Cancel
  <2>1. run' = "cancelled"
    BY <1>4 DEF Cancel
  <2>2. \A i \in Steps : status'[i] = IF Final(status[i]) THEN status[i] ELSE "cancelled"
    BY <1>4 DEF Cancel
  <2>3. \A i \in Steps : Final(status'[i])
    BY <2>2 DEF Final
  <2>4. \A i \in Steps : Final(status[i])' <=> Final(status'[i])
    BY DEF Final
  <2>. QED
    BY <1>0, <2>1, <2>3 DEF RunTrue, Final
<1>5. CASE Queue
  BY <1>2, <1>5 DEF Queue
<1>6. CASE GiveUp
  <2>1. ~ place' /\ status' = status /\ (run' = "failed" \/ run' = run)
    BY <1>6 DEF GiveUp, Finished
  <2>. QED
    BY <1>1, <1>3, <2>1
<1>7. CASE Start
  <2>1. place' = place /\ status' = status /\ (run' = "running" \/ run' = run)
    BY <1>7 DEF Start
  <2>. QED
    BY <1>1, <1>2, <2>1
\* A step changes only while the run is running.
<1>8. CASE Apply \/ Claim \/ Report
  <2>1. run' = run /\ place' = place /\ (status' = status \/ run = "running")
    BY <1>8 DEF Apply, Claim, Report, Moved
  <2>. QED
    BY <1>1, <1>2, <2>1
<1>9. CASE EndPass
  <2>1. /\ status' = status /\ place' = place /\ driver.moves = <<>>
        /\ run' = run \/ (driver.finish # "none" /\ run' = driver.finish /\ Active)
    BY <1>9 DEF EndPass, AtEffects, Finished
  <2>2. CASE run' = run
    BY <1>1, <2>1, <2>2
  <2>3. CASE driver.finish # "none" /\ run' = driver.finish /\ Active
    <3>1. run = "running"
      BY <1>0, <1>9, <2>3 DEF EndPass, AtEffects, At, DriverInv, Active, Begins
    <3>2. Finishes(status, driver.finish, <<>>)
      BY <2>1, <3>1 DEF PlanInv, Left
    <3>3. driver.finish \in {"succeeded", "failed"}
      BY <1>0, <2>3 DEF Drivers
    <3>4. run' = "succeeded" => \A i \in Steps : status[i] \in {"succeeded", "skipped"}
      BY <2>3, <3>2 DEF Finishes, Comes, Good
    <3>5. run' = "failed" => \E i \in Steps : status[i] = "failed"
      BY <2>3, <3>2 DEF Finishes, Comes
    <3>. QED
      BY <1>0, <2>1, <2>3, <3>3, <3>4, <3>5 DEF RunTrue
  <2>. QED
    BY <2>1, <2>2, <2>3
<1>10. CASE Others \/ UNCHANGED vars
  <2>1. UNCHANGED <<run, status>>
    BY <1>10, OthersLeave
  <2>2. place' => place
    BY <1>10 DEF Others, memory, world, histories, UnchangedByWorld, vars, Vanish, Post, Answer,
       StartAgain, Work, Quiet, Turn, Exit, Hold, LetGo, TestEnds, TimeOut
  <2>. QED
    BY <1>1, <2>1, <2>2
<1>11. CASE Tick \/ Recover \/ Plan \/ Type \/ Submit \/ Refused \/ Stop
  <2>1. UNCHANGED <<run, status, place>>
    BY <1>11 DEF Tick, Recover, Plan, Type, Submit, Refused, Stop
  <2>. QED
    BY <1>1, <2>1
<1>12. ASSUME NEW i \in Steps, CarryOut(i) PROVE RunTrue'
  <2>1. UNCHANGED <<run, status, place>>
    BY <1>12 DEF CarryOut, StartSession, Notify, RunTest, Look
  <2>. QED
    BY <1>1, <2>1
<1>. QED
  BY <1>4, <1>5, <1>6, <1>7, <1>8, <1>9, <1>10, <1>11, <1>12 DEF Next, Driving, Others

---------------------------------------------------------------------------
\* The theorems.

\* A run that was not asked for fits.
LEMMA InvInit == Init => IInv
<1>. SUFFICES ASSUME Init PROVE IInv
  OBVIOUS
<1>1. TypeOK
  BY TypeInit
<1>2. /\ Resting.pc = "rest" /\ Resting.moves = <<>> /\ Resting.effects = <<>> /\ Resting.finish = "none"
  BY DEF Resting
<1>3. DriverInv
  BY <1>2 DEF Init, DriverInv, Applying, Doing, Acts, Begins
<1>4. NeedsMet /\ PlanInv /\ RunTrue
  BY DEF Init, NeedsMet, PlanInv, RunTrue
<1>5. OnceInv /\ LateInv /\ UnreadInv
  BY <1>2 DEF Init, OnceInv, LateInv, UnreadInv
<1>. QED
  BY <1>1, <1>3, <1>4, <1>5 DEF IInv

\* The invariant holds of every run: each step of the driver, of the world and of the app, a
\* cancel, a refused statement and a restart among them, keeps it.
THEOREM Invariant == Spec => []IInv
<1>1. IInv /\ [Next]_vars => IInv'
  BY TypeStep, DriverInvStep, NeedsStep, PlanStep, TrueStep, OnceStep, LateStep, UnreadStep, PTL DEF IInv
<1>. QED
  BY <1>1, InvInit, PTL DEF Spec

\* The rows, the driver's thread, the world and the histories hold what the code can put there.
THEOREM TypeCorrect == Spec => []TypeOK
<1>1. IInv => TypeOK
  BY DEF IInv
<1>. QED
  BY <1>1, Invariant, PTL

\* A step begins only once everything it needs has succeeded, whatever was cancelled, refused or
\* interrupted while a plan that let both go was being applied (engine::advance, move_on).
THEOREM BeginsInOrder == Spec => []NeedsMet
<1>1. IInv => NeedsMet
  BY DEF IInv
<1>. QED
  BY <1>1, Invariant, PTL

\* Nothing is started, typed, notified or queued twice for one step, across put-back messages and
\* restarts (engine::recover, not_yet).
THEOREM NothingTwice == Spec => []DoneOnce
<1>1. IInv => DoneOnce
  BY DEF IInv, OnceInv, DoneOnce
<1>. QED
  BY <1>1, Invariant, PTL

\* How a run's row says it ended is what its steps come to (engine::advance, finish_workflow_run).
THEOREM EndsAsItsSteps == Spec => []RunTrue
<1>1. IInv => RunTrue
  BY DEF IInv
<1>. QED
  BY <1>1, Invariant, PTL

\* After a cancel at most the effect that was under way is carried out (move_on).
THEOREM StopsAtACancel == Spec => []CancelStops
<1>1. IInv => CancelStops
  BY DEF IInv, LateInv, CancelStops
<1>. QED
  BY <1>1, Invariant, PTL

\* An agent gets no second message before it went quiet after the first (carry_out, typed_to).
THEOREM OneAtATime == Spec => OneMessageAtATime
<1>. DEFINE OneMessage == \A p \in Ptys : p \in unread /\ acted' # acted =>
                              definition[Head(driver.effects).step].session # p
                              \/ Action(Head(driver.effects).step) # "send_to_session"
<1>1. IInv /\ [Next]_vars => [OneMessage]_vars
  <2>. SUFFICES ASSUME IInv, [Next]_vars, acted' # acted,
                       NEW p \in Ptys, p \in unread, definition[Doee].session = p,
                       Action(Doee) = "send_to_session"
                PROVE  FALSE
    BY DEF Doee
  <2>. USE DEF rows, database, memory, world, histories, UnchangedByDriver, UnchangedByWorld
  <2>1. CASE Type
    BY <2>1 DEF Type, At, IInv, UnreadInv
  <2>2. ASSUME NEW i \in Steps, CarryOut(i) PROVE FALSE
    BY <2>2 DEF CarryOut, StartSession, Notify, RunTest, Look, Acting, Doee
  <2>3. CASE Others \/ UNCHANGED vars
    BY <2>3, OthersLeave
  <2>4. CASE Queue \/ Cancel \/ Tick \/ GiveUp \/ Start \/ Recover \/ Plan \/ Apply \/ Claim \/ EndPass
             \/ Submit \/ Report \/ Refused \/ Stop
    BY <2>4 DEF Queue, Cancel, Tick, GiveUp, Start, Recover, Plan, Apply, Claim, EndPass, Submit, Report,
                Refused, Stop
  <2>. QED
    BY <2>1, <2>2, <2>3, <2>4 DEF Next, Driving, Others
<1>. QED
  BY <1>1, Invariant, PTL DEF Spec, OneMessageAtATime
=============================================================================
