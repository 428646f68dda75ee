--------------------------- MODULE DaemonProofs ---------------------------
(***************************************************************************)
(* What is proved of Daemon, for any number of clients and daemons: its    *)
(* types, and that a profile has one daemon, at the socket, unless one was *)
(* left coming up with nobody waiting for it.                              *)
(***************************************************************************)
EXTENDS Daemon, TLAPS

---------------------------------------------------------------------------
\* Types

LEMMA TypesInit == Init => TypeOK
<1> SUFFICES ASSUME Init PROVE TypeOK
    OBVIOUS
<1>1. /\ pc \in [Clients -> Steps]
      /\ state \in [Daemons -> {"new", "booting", "serving", "gone"}]
      /\ leaving \in [Daemons -> {"no", "idle", "replaced", "stopped"}]
    BY DEF Init, Steps
<1>2. /\ greeting \in [Clients -> [protocol : Nat, running : Nat]]
      /\ protocol \in [Daemons -> Nat]
    BY DEF Init, NoGreeting
<1>3. sessions \in [Daemons -> 0..MaxSessions]
    BY DaemonAssumption DEF Init
<1>4. /\ client \in [Clients -> Daemons \cup {None}]
      /\ mine \in [Clients -> Daemons \cup {None}]
      /\ replacing \in [Clients -> BOOLEAN]
      /\ lock = None /\ socket = None /\ abandoned = FALSE
    BY DEF Init
<1>5. QED
    BY <1>1, <1>2, <1>3, <1>4 DEF TypeOK

LEMMA TypesStep == TypeOK /\ [Next]_vars => TypeOK'
<1> SUFFICES ASSUME TypeOK, [Next]_vars PROVE TypeOK'
    OBVIOUS
<1> USE DaemonAssumption
<1>1. ASSUME NEW c \in Clients, Launch(c) PROVE TypeOK'
    BY <1>1 DEF TypeOK, Steps, Launch, daemonVars, Goto
<1>2. ASSUME NEW c \in Clients, Look(c) PROVE TypeOK'
    <2>1. pc' \in [Clients -> Steps]
        BY <1>2 DEF TypeOK, Steps, Look, Goto
    <2>2. /\ client' \in [Clients -> Daemons \cup {None}]
          /\ greeting' \in [Clients -> [protocol : Nat, running : Nat]]
        <3>1. CASE Attach(c)
            BY <3>1 DEF TypeOK, Attach, Answers
        <3>2. CASE UNCHANGED <<client, greeting>>
            BY <3>2 DEF TypeOK
        <3>3. QED
            BY <1>2, <3>1, <3>2 DEF Look
    <2>3. UNCHANGED <<replacing, mine, lock, socket, state, protocol, sessions, leaving, abandoned>>
        BY <1>2 DEF Look, daemonVars
    <2>4. QED
        BY <2>1, <2>2, <2>3 DEF TypeOK
<1>3. ASSUME NEW c \in Clients, Found(c) PROVE TypeOK'
    <2>1. /\ pc' \in [Clients -> Steps]
          /\ client' \in [Clients -> Daemons \cup {None}]
          /\ lock' \in Clients \cup {None}
        BY <1>3 DEF TypeOK, Steps, Found, Goto, Attach, Answers, Unlocked
    <2>2. greeting' \in [Clients -> [protocol : Nat, running : Nat]]
        BY <1>3 DEF TypeOK, Found, Attach, Answers
    <2>3. UNCHANGED <<replacing, mine, socket, state, protocol, sessions, leaving, abandoned>>
        BY <1>3 DEF Found, daemonVars
    <2>4. QED
        BY <2>1, <2>2, <2>3 DEF TypeOK
<1>4. ASSUME NEW c \in Clients, NotFound(c) PROVE TypeOK'
    BY <1>4 DEF TypeOK, Steps, NotFound, daemonVars, Goto, Answers
<1>5. ASSUME NEW c \in Clients, TakeLock(c) PROVE TypeOK'
    BY <1>5 DEF TypeOK, Steps, TakeLock, daemonVars, Goto
<1>6. ASSUME NEW c \in Clients, SpawnDaemon(c) PROVE TypeOK'
    BY <1>6 DEF TypeOK, Steps, SpawnDaemon, Goto, Answers
<1>7. ASSUME NEW c \in Clients, WaitForTheirs(c) PROVE TypeOK'
    BY <1>7 DEF TypeOK, Steps, WaitForTheirs, daemonVars, Goto, Answers
<1>8. ASSUME NEW c \in Clients, GiveUp(c) PROVE TypeOK'
    BY <1>8 DEF TypeOK, Steps, GiveUp, Goto, Answers, Unlocked, Abandons, daemonVars
<1>9. ASSUME NEW c \in Clients, Use(c) PROVE TypeOK'
    BY <1>9 DEF TypeOK, Steps, Use, daemonVars, Goto
<1>10. ASSUME NEW c \in Clients, Strand(c) PROVE TypeOK'
    BY <1>10 DEF TypeOK, Steps, Strand, daemonVars, Goto, Disconnected, NoGreeting
<1>11. ASSUME NEW c \in Clients, Replace(c) PROVE TypeOK'
    BY <1>11 DEF TypeOK, Steps, Replace, Goto, Disconnected, NoGreeting, Told
<1>12. ASSUME NEW c \in Clients, StoodDown(c) PROVE TypeOK'
    BY <1>12 DEF TypeOK, Steps, StoodDown, daemonVars, Goto, Answers
<1>13. ASSUME NEW c \in Clients, WouldNotStandDown(c) PROVE TypeOK'
    BY <1>13 DEF TypeOK, Steps, WouldNotStandDown, daemonVars, Goto, Answers
<1>14. ASSUME NEW c \in Clients, Spawn(c) PROVE TypeOK'
    <2>1. sessions' \in [Daemons -> 0..MaxSessions]
        <3>1. sessions \in [Daemons -> 0..MaxSessions] /\ MaxSessions \in Nat
            BY DEF TypeOK
        <3>2. sessions' = [sessions EXCEPT ![client[c]] = sessions[client[c]] + 1]
            BY <1>14 DEF Spawn
        <3>3. sessions[client[c]] < MaxSessions
            BY <1>14 DEF Spawn
        <3>4. ASSUME NEW d \in Daemons PROVE sessions'[d] \in 0..MaxSessions
            BY <3>1, <3>2, <3>3
        <3>5. QED
            BY <3>1, <3>2, <3>4
    <2>2. UNCHANGED <<pc, client, greeting, replacing, mine, lock, socket, state, protocol, leaving,
                      abandoned>>
        BY <1>14 DEF Spawn, clientVars
    <2>3. QED
        BY <2>1, <2>2 DEF TypeOK
<1>15. ASSUME NEW c \in Clients, Quit(c) PROVE TypeOK'
    BY <1>15 DEF TypeOK, Steps, Quit, Gone, Goto, Disconnected, NoGreeting, Unlocked
<1>16. ASSUME NEW c \in Clients, QuitStopping(c) PROVE TypeOK'
    <2>1. sessions' \in [Daemons -> 0..MaxSessions]
        <3>1. sessions \in [Daemons -> 0..MaxSessions] /\ 0 \in 0..MaxSessions
            BY DEF TypeOK
        <3>2. sessions' = [sessions EXCEPT ![client[c]] = 0]
            BY <1>16 DEF QuitStopping
        <3>3. QED
            BY <3>1, <3>2
    <2>2. leaving' \in [Daemons -> {"no", "idle", "replaced", "stopped"}]
        BY <1>16 DEF TypeOK, QuitStopping, Told
    <2>3. Gone(c)
        BY <1>16 DEF QuitStopping
    <2>4. /\ pc' \in [Clients -> Steps]
          /\ client' \in [Clients -> Daemons \cup {None}]
          /\ greeting' \in [Clients -> [protocol : Nat, running : Nat]]
          /\ lock' \in Clients \cup {None}
        BY <2>3 DEF TypeOK, Steps, Gone, Goto, Disconnected, NoGreeting, Unlocked
    <2>5. UNCHANGED <<replacing, mine, socket, state, protocol, abandoned>>
        BY <1>16, <2>3 DEF QuitStopping, Gone
    <2>6. QED
        BY <2>1, <2>2, <2>4, <2>5 DEF TypeOK
<1>17. ASSUME NEW c \in Clients, ClientDies(c) PROVE TypeOK'
    BY <1>17 DEF TypeOK, Steps, ClientDies, Gone, Goto, Disconnected, NoGreeting, Unlocked, Abandons
<1>18. ASSUME NEW d \in Daemons, Bind(d) PROVE TypeOK'
    BY <1>18 DEF TypeOK, Steps, Bind, clientVars
<1>19. ASSUME NEW d \in Daemons, SessionEnds(d) PROVE TypeOK'
    BY <1>19 DEF TypeOK, Steps, SessionEnds, clientVars
<1>20. ASSUME NEW d \in Daemons, Idle(d) PROVE TypeOK'
    BY <1>20 DEF TypeOK, Steps, Idle, clientVars
<1>21. ASSUME NEW d \in Daemons, Leave(d) PROVE TypeOK'
    BY <1>21 DEF TypeOK, Steps, Leave, Goes, clientVars
<1>22. ASSUME NEW d \in Daemons, DaemonDies(d) PROVE TypeOK'
    BY <1>22 DEF TypeOK, Steps, DaemonDies, Goes, clientVars
<1>23. CASE UNCHANGED vars
    BY <1>23 DEF TypeOK, vars, clientVars, daemonVars
<1>24. QED
    BY <1>1, <1>2, <1>3, <1>4, <1>5, <1>6, <1>7, <1>8, <1>9, <1>10,
       <1>11, <1>12, <1>13, <1>14, <1>15, <1>16, <1>17, <1>18, <1>19,
       <1>20, <1>21, <1>22, <1>23 DEF Next, Connecting

\* Every variable holds what the code can put there, in every reachable state.
THEOREM TypesHold == Spec => []TypeOK
    BY TypesInit, TypesStep, PTL DEF Spec

---------------------------------------------------------------------------
\* One daemon

\* A daemon on its way up has somebody waiting for it with the lock.  This is what keeps anybody
\* else from starting another: whoever comes to start one holds the lock and is not waiting.
BootingAwaited == \A d \in Daemons : state[d] = "booting" =>
    lock \in Clients /\ pc[lock] = "wait" /\ mine[lock] = d

\* The inductive invariant, as long as nobody was left waiting for.
OneInv == TypeOK /\ (abandoned \/ (AtMostOne /\ AtSocket /\ BootingAwaited))

\* A step that moves neither daemons nor the lock, and no client away from waiting, keeps it.
LEMMA QuietStep ==
    ASSUME OneInv, TypeOK', state' = state, socket' = socket, lock' = lock, abandoned' = abandoned,
           \A c \in Clients : pc[c] = "wait" => pc'[c] = "wait" /\ mine'[c] = mine[c]
    PROVE  OneInv'
    BY DEF OneInv, AtMostOne, AtSocket, BootingAwaited, Up

LEMMA OneStep == OneInv /\ [Next]_vars => OneInv'
<1> SUFFICES ASSUME OneInv, [Next]_vars PROVE OneInv'
    OBVIOUS
<1> USE DaemonAssumption
<1>t. TypeOK /\ TypeOK'
    BY TypesStep DEF OneInv
<1>a. SUFFICES ASSUME ~abandoned, ~abandoned' PROVE OneInv'
    <2>1. abandoned' \in BOOLEAN /\ (abandoned => abandoned')
        BY <1>t DEF TypeOK, Next, Connecting, vars, Launch, Look, Found, NotFound, TakeLock,
            SpawnDaemon, WaitForTheirs, GiveUp, Use, Strand, Replace, StoodDown, WouldNotStandDown,
            Spawn, Quit, QuitStopping, ClientDies, Bind, SessionEnds, Idle, Leave, DaemonDies, Goes,
            Abandons
    <2>2. QED
        BY <1>t, <2>1 DEF OneInv
<1>i. AtMostOne /\ AtSocket /\ BootingAwaited
    BY <1>a DEF OneInv
<1>1. ASSUME NEW c \in Clients, Launch(c) PROVE OneInv'
    <2>1. /\ state' = state /\ socket' = socket /\ lock' = lock /\ abandoned' = abandoned
          /\ \A x \in Clients : pc[x] = "wait" => pc'[x] = "wait" /\ mine'[x] = mine[x]
        BY <1>1, <1>t DEF TypeOK, daemonVars, Launch, Goto
    <2>2. QED
        BY <1>t, <2>1, QuietStep
<1>2. ASSUME NEW c \in Clients, Look(c) PROVE OneInv'
    <2>1. /\ state' = state /\ socket' = socket /\ lock' = lock /\ abandoned' = abandoned
          /\ \A x \in Clients : pc[x] = "wait" => pc'[x] = "wait" /\ mine'[x] = mine[x]
        BY <1>2, <1>t DEF TypeOK, daemonVars, Look, Goto
    <2>2. QED
        BY <1>t, <2>1, QuietStep
<1>3. ASSUME NEW c \in Clients, NotFound(c) PROVE OneInv'
    <2>1. /\ state' = state /\ socket' = socket /\ lock' = lock /\ abandoned' = abandoned
          /\ \A x \in Clients : pc[x] = "wait" => pc'[x] = "wait" /\ mine'[x] = mine[x]
        BY <1>3, <1>t DEF TypeOK, daemonVars, NotFound, Goto
    <2>2. QED
        BY <1>t, <2>1, QuietStep
<1>4. ASSUME NEW c \in Clients, WaitForTheirs(c) PROVE OneInv'
    <2>1. /\ state' = state /\ socket' = socket /\ lock' = lock /\ abandoned' = abandoned
          /\ \A x \in Clients : pc[x] = "wait" => pc'[x] = "wait" /\ mine'[x] = mine[x]
        BY <1>4, <1>t DEF TypeOK, daemonVars, WaitForTheirs, Goto
    <2>2. QED
        BY <1>t, <2>1, QuietStep
<1>5. ASSUME NEW c \in Clients, Use(c) PROVE OneInv'
    <2>1. /\ state' = state /\ socket' = socket /\ lock' = lock /\ abandoned' = abandoned
          /\ \A x \in Clients : pc[x] = "wait" => pc'[x] = "wait" /\ mine'[x] = mine[x]
        BY <1>5, <1>t DEF TypeOK, daemonVars, Use, Goto
    <2>2. QED
        BY <1>t, <2>1, QuietStep
<1>6. ASSUME NEW c \in Clients, Strand(c) PROVE OneInv'
    <2>1. /\ state' = state /\ socket' = socket /\ lock' = lock /\ abandoned' = abandoned
          /\ \A x \in Clients : pc[x] = "wait" => pc'[x] = "wait" /\ mine'[x] = mine[x]
        BY <1>6, <1>t DEF TypeOK, daemonVars, Strand, Goto
    <2>2. QED
        BY <1>t, <2>1, QuietStep
<1>7. ASSUME NEW c \in Clients, Replace(c) PROVE OneInv'
    <2>1. /\ state' = state /\ socket' = socket /\ lock' = lock /\ abandoned' = abandoned
          /\ \A x \in Clients : pc[x] = "wait" => pc'[x] = "wait" /\ mine'[x] = mine[x]
        BY <1>7, <1>t DEF TypeOK, daemonVars, Replace, Goto
    <2>2. QED
        BY <1>t, <2>1, QuietStep
<1>8. ASSUME NEW c \in Clients, StoodDown(c) PROVE OneInv'
    <2>1. /\ state' = state /\ socket' = socket /\ lock' = lock /\ abandoned' = abandoned
          /\ \A x \in Clients : pc[x] = "wait" => pc'[x] = "wait" /\ mine'[x] = mine[x]
        BY <1>8, <1>t DEF TypeOK, daemonVars, StoodDown, Goto
    <2>2. QED
        BY <1>t, <2>1, QuietStep
<1>9. ASSUME NEW c \in Clients, WouldNotStandDown(c) PROVE OneInv'
    <2>1. /\ state' = state /\ socket' = socket /\ lock' = lock /\ abandoned' = abandoned
          /\ \A x \in Clients : pc[x] = "wait" => pc'[x] = "wait" /\ mine'[x] = mine[x]
        BY <1>9, <1>t DEF TypeOK, daemonVars, WouldNotStandDown, Goto
    <2>2. QED
        BY <1>t, <2>1, QuietStep
<1>10. ASSUME NEW c \in Clients, Spawn(c) PROVE OneInv'
    <2>1. /\ state' = state /\ socket' = socket /\ lock' = lock /\ abandoned' = abandoned
          /\ \A x \in Clients : pc[x] = "wait" => pc'[x] = "wait" /\ mine'[x] = mine[x]
        BY <1>10, <1>t DEF TypeOK, daemonVars, Spawn, clientVars
    <2>2. QED
        BY <1>t, <2>1, QuietStep
<1>11. ASSUME NEW d \in Daemons, SessionEnds(d) PROVE OneInv'
    <2>1. /\ state' = state /\ socket' = socket /\ lock' = lock /\ abandoned' = abandoned
          /\ \A x \in Clients : pc[x] = "wait" => pc'[x] = "wait" /\ mine'[x] = mine[x]
        BY <1>11, <1>t DEF TypeOK, daemonVars, SessionEnds, clientVars
    <2>2. QED
        BY <1>t, <2>1, QuietStep
<1>12. ASSUME NEW d \in Daemons, Idle(d) PROVE OneInv'
    <2>1. /\ state' = state /\ socket' = socket /\ lock' = lock /\ abandoned' = abandoned
          /\ \A x \in Clients : pc[x] = "wait" => pc'[x] = "wait" /\ mine'[x] = mine[x]
        BY <1>12, <1>t DEF TypeOK, daemonVars, Idle, clientVars
    <2>2. QED
        BY <1>t, <2>1, QuietStep
<1>13. ASSUME NEW c \in Clients, TakeLock(c) PROVE OneInv'
    <2>1. /\ state' = state /\ socket' = socket /\ mine' = mine
          /\ \A x \in Clients : pc[x] = "wait" => pc'[x] = "wait"
          /\ lock # None => lock' = lock
        BY <1>13, <1>t DEF TypeOK, daemonVars, TakeLock, Goto
    <2>2. QED
        BY <1>t, <1>i, <2>1 DEF OneInv, AtMostOne, AtSocket, BootingAwaited, Up
<1>14. ASSUME NEW c \in Clients, Found(c) PROVE OneInv'
    <2>1. /\ state' = state /\ socket' = socket /\ mine' = mine
          /\ \A x \in Clients \ {c} : pc'[x] = pc[x]
          /\ lock # c => lock' = lock
          /\ state[socket] = "serving" /\ socket \in Daemons
          /\ pc[c] \in {"attach", "reattach", "wait"}
        BY <1>14, <1>t DEF TypeOK, daemonVars, Found, Attach, Answers, Goto, Unlocked
    <2>2. \A d \in Daemons : state[d] # "booting"
        BY <2>1, <1>i DEF AtMostOne, Up
    <2>3. QED
        BY <1>t, <1>i, <2>1, <2>2 DEF OneInv, AtMostOne, AtSocket, BootingAwaited, Up
<1>15. ASSUME NEW c \in Clients, SpawnDaemon(c) PROVE OneInv'
    <2>1. PICK d \in Daemons : /\ state' = [state EXCEPT ![d] = "booting"]
                               /\ mine' = [mine EXCEPT ![c] = d]
        BY <1>15 DEF SpawnDaemon
    <2>2. pc' = [pc EXCEPT ![c] = "wait"] /\ lock = c /\ lock' = c /\ pc[c] = "reattach" /\ ~Answers
        BY <1>15 DEF SpawnDaemon, Goto
    <2>3. Up = {}
        BY <2>2, <1>t, <1>i DEF TypeOK, AtSocket, BootingAwaited, Up, Answers
    <2>4. \A e \in Daemons : state'[e] \in {"booting", "serving"} => e = d /\ state'[e] = "booting"
        BY <2>1, <2>3, <1>t DEF TypeOK, daemonVars, Up
    <2>5. pc'[c] = "wait" /\ mine'[c] = d
        BY <2>1, <2>2, <1>t DEF TypeOK, daemonVars
    <2>6. QED
        BY <1>t, <1>i, <2>2, <2>4, <2>5 DEF OneInv, AtMostOne, AtSocket, BootingAwaited, Up
<1>16. ASSUME NEW c \in Clients, GiveUp(c) PROVE OneInv'
    <2>1. /\ state' = state /\ socket' = socket /\ mine' = mine
          /\ \A x \in Clients \ {c} : pc'[x] = pc[x]
          /\ lock # c => lock' = lock
        BY <1>16, <1>t DEF TypeOK, daemonVars, GiveUp, Goto, Unlocked
    <2>2. ASSUME lock = c, NEW d \in Daemons PROVE state[d] # "booting"
        <3>1. ~(mine[c] # None /\ state[mine[c]] = "booting")
            BY <1>16, <1>a DEF GiveUp, Abandons
        <3>2. QED
            BY <2>2, <3>1, <1>i, DaemonAssumption DEF BootingAwaited
    <2>3. QED
        BY <1>t, <1>i, <2>1, <2>2 DEF OneInv, AtMostOne, AtSocket, BootingAwaited, Up
<1>17. ASSUME NEW c \in Clients, Quit(c) PROVE OneInv'
    <2>1. Gone(c) /\ pc[c] # "wait"
        BY <1>17 DEF Quit
    <2>2. /\ state' = state /\ socket' = socket /\ mine' = mine
          /\ \A x \in Clients \ {c} : pc'[x] = pc[x]
          /\ lock # c => lock' = lock
        BY <2>1, <1>t DEF TypeOK, daemonVars, Gone, Goto, Unlocked
    <2>3. QED
        BY <1>t, <1>i, <2>1, <2>2 DEF OneInv, AtMostOne, AtSocket, BootingAwaited, Up
<1>18. ASSUME NEW c \in Clients, QuitStopping(c) PROVE OneInv'
    <2>1. Gone(c) /\ pc[c] # "wait"
        BY <1>18 DEF QuitStopping, Serving
    <2>2. /\ state' = state /\ socket' = socket /\ mine' = mine
          /\ \A x \in Clients \ {c} : pc'[x] = pc[x]
          /\ lock # c => lock' = lock
        BY <2>1, <1>t DEF TypeOK, daemonVars, Gone, Goto, Unlocked
    <2>3. QED
        BY <1>t, <1>i, <2>1, <2>2 DEF OneInv, AtMostOne, AtSocket, BootingAwaited, Up
<1>19. ASSUME NEW c \in Clients, ClientDies(c) PROVE OneInv'
    <2>1. Gone(c) /\ Abandons(c)
        BY <1>19 DEF ClientDies
    <2>2. /\ state' = state /\ socket' = socket /\ mine' = mine
          /\ \A x \in Clients \ {c} : pc'[x] = pc[x]
          /\ lock # c => lock' = lock
        BY <2>1, <1>t DEF TypeOK, Gone, Goto, Unlocked
    <2>3. ASSUME lock = c, NEW d \in Daemons PROVE state[d] # "booting"
        <3>1. ~(mine[c] # None /\ state[mine[c]] = "booting")
            BY <2>1, <1>a DEF Abandons
        <3>2. QED
            BY <2>3, <3>1, <1>i, DaemonAssumption DEF BootingAwaited
    <2>4. QED
        BY <1>t, <1>i, <2>2, <2>3 DEF OneInv, AtMostOne, AtSocket, BootingAwaited, Up
<1>20. ASSUME NEW d \in Daemons, Bind(d) PROVE OneInv'
    <2>1. /\ state[d] = "booting" /\ state' = [state EXCEPT ![d] = "serving"] /\ socket' = d
          /\ UNCHANGED <<pc, mine, lock>>
        BY <1>20 DEF Bind, clientVars
    <2>2. \A e \in Daemons : state'[e] \in {"booting", "serving"} => e = d
        BY <2>1, <1>t, <1>i DEF TypeOK, AtMostOne, Up
    <2>3. state'[d] = "serving"
        BY <2>1, <1>t DEF TypeOK, daemonVars
    <2>4. QED
        BY <1>t, <1>i, <2>1, <2>2, <2>3 DEF OneInv, AtMostOne, AtSocket, BootingAwaited, Up
<1>21. ASSUME NEW d \in Daemons, Leave(d) PROVE OneInv'
    <2>1. /\ state' = [state EXCEPT ![d] = "gone"]
          /\ UNCHANGED <<pc, mine, lock, socket>>
        BY <1>21 DEF Leave, Goes, clientVars
    <2>2. \A e \in Daemons : state'[e] \in {"booting", "serving"} => state'[e] = state[e]
        BY <2>1, <1>t DEF TypeOK, daemonVars
    <2>3. QED
        BY <1>t, <1>i, <2>1, <2>2 DEF OneInv, AtMostOne, AtSocket, BootingAwaited, Up
<1>22. ASSUME NEW d \in Daemons, DaemonDies(d) PROVE OneInv'
    <2>1. /\ state' = [state EXCEPT ![d] = "gone"]
          /\ UNCHANGED <<pc, mine, lock, socket>>
        BY <1>22 DEF DaemonDies, Goes, clientVars
    <2>2. \A e \in Daemons : state'[e] \in {"booting", "serving"} => state'[e] = state[e]
        BY <2>1, <1>t DEF TypeOK, daemonVars
    <2>3. QED
        BY <1>t, <1>i, <2>1, <2>2 DEF OneInv, AtMostOne, AtSocket, BootingAwaited, Up
<1>23. CASE UNCHANGED vars
    BY <1>23, <1>t, QuietStep DEF vars, clientVars, daemonVars
<1>24. QED
    BY <1>1, <1>2, <1>3, <1>4, <1>5, <1>6, <1>7, <1>8, <1>9, <1>10,
       <1>11, <1>12, <1>13, <1>14, <1>15, <1>16, <1>17, <1>18, <1>19,
       <1>20, <1>21, <1>22, <1>23 DEF Next, Connecting

LEMMA OneInit == Init => OneInv
    BY TypesInit, DaemonAssumption DEF Init, OneInv, AtMostOne, AtSocket, BootingAwaited, Up

\* However many copies start, quit, are killed and replace each other's daemon, and whatever
\* daemon dies, a profile has at most one daemon and the socket leads to it, until one is left
\* coming up with nobody waiting for it (connect_or_start and its lock).
THEOREM OneDaemonHolds == Spec => []OneDaemon
<1>1. OneInv => OneDaemon
    BY DEF OneInv, OneDaemon
<1>2. QED
    BY OneInit, OneStep, <1>1, PTL DEF Spec
============================================================================
