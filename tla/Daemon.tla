------------------------------- MODULE Daemon -------------------------------
(***************************************************************************)
(* Finding, starting, replacing and leaving the terminal daemon            *)
(* (crates/core/src/daemon.rs, crates/pty-ipc/src/server.rs and client.rs, *)
(* src-tauri/src/quit.rs).                                                 *)
(*                                                                         *)
(* Every profile is to have one daemon, which outlives the clients that    *)
(* start it.  The clients, copies of the app and of `ys`, look for it at a *)
(* socket file, start one when nobody answers, and replace one of another  *)
(* build when nothing runs in it.  The daemon leaves when it is idle or    *)
(* told to.  A socket file leads to the daemon that bound it last, and     *)
(* stays behind when that daemon is gone.                                  *)
(***************************************************************************)
EXTENDS Naturals, FiniteSets

CONSTANTS
    Clients,        \* copies of the app, and of `ys`
    Daemons,        \* the daemon processes that may be started
    Build,          \* the protocol each client's build speaks
    Oldest,         \* OLDEST_PROTOCOL
    MaxSessions,
    Turned          \* the clients that are turned away from a held lock (Windows, or no lock
                    \* file); the others wait for it (flock)

None == "none"

ASSUME DaemonAssumption ==
    /\ None \notin Clients \cup Daemons
    /\ Build \in [Clients -> Nat]
    /\ Oldest \in Nat /\ MaxSessions \in Nat
    /\ Turned \subseteq Clients

VARIABLES
    pc,        \* where a client is in `connect`
    client,    \* the daemon it is connected to
    greeting,  \* what that daemon's Welcome said: its protocol, its running sessions
    replacing, \* whether it has just told an older daemon to stop
    mine,      \* the daemon it started itself
    lock,      \* who holds the lock file
    socket,    \* the daemon the socket file leads to
    state, protocol, sessions, leaving,
    abandoned  \* (history) a daemon was left coming up with nobody waiting for it

clientVars == <<pc, client, greeting, replacing, mine>>
daemonVars == <<socket, state, protocol, sessions, leaving>>
vars == <<clientVars, lock, daemonVars, abandoned>>

Steps == {"off", "attach", "locking", "reattach", "wait", "greeted", "standdown",
          "connected", "reporting", "inprocess", "quit"}
NoGreeting == [protocol |-> 0, running |-> 0]

\* Every variable holds what the code can put there.
TypeOK ==
    /\ pc \in [Clients -> Steps]
    /\ client \in [Clients -> Daemons \cup {None}]
    /\ greeting \in [Clients -> [protocol : Nat, running : Nat]]
    /\ replacing \in [Clients -> BOOLEAN]
    /\ mine \in [Clients -> Daemons \cup {None}]
    /\ lock \in Clients \cup {None}
    /\ socket \in Daemons \cup {None}
    /\ state \in [Daemons -> {"new", "booting", "serving", "gone"}]
    /\ protocol \in [Daemons -> Nat]
    /\ sessions \in [Daemons -> 0..MaxSessions]
    /\ leaving \in [Daemons -> {"no", "idle", "replaced", "stopped"}]
    /\ abandoned \in BOOLEAN

Init ==
    /\ pc = [c \in Clients |-> "off"]
    /\ client = [c \in Clients |-> None]
    /\ greeting = [c \in Clients |-> NoGreeting]
    /\ replacing = [c \in Clients |-> FALSE]
    /\ mine = [c \in Clients |-> None]
    /\ lock = None
    /\ socket = None
    /\ state = [d \in Daemons |-> "new"]
    /\ protocol = [d \in Daemons |-> 0]
    /\ sessions = [d \in Daemons |-> 0]
    /\ leaving = [d \in Daemons |-> "no"]
    /\ abandoned = FALSE

---------------------------------------------------------------------------
\* Connecting

Conns(d) == {c \in Clients : client[c] = d}
Answers == socket # None /\ state[socket] = "serving"
Goto(c, step) == pc' = [pc EXCEPT ![c] = step]
Unlocked(c) == IF lock = c THEN None ELSE lock

\* The handshake: the client is connected, and told the protocol and what is running.
Attach(c) ==
    /\ Answers
    /\ client' = [client EXCEPT ![c] = socket]
    /\ greeting' = [greeting EXCEPT ![c] = [protocol |-> protocol[socket],
                                            running |-> sessions[socket]]]

\* A client starts, and looks for a daemon.
Launch(c) ==
    /\ pc[c] = "off"
    /\ Goto(c, "attach")
    /\ replacing' = [replacing EXCEPT ![c] = FALSE]
    /\ mine' = [mine EXCEPT ![c] = None]
    /\ UNCHANGED <<client, greeting, lock, daemonVars, abandoned>>

\* connect_or_start: somebody answers, before or after the lock or while waiting.
Found(c) ==
    /\ pc[c] \in {"attach", "reattach", "wait"}
    /\ Attach(c)
    /\ Goto(c, "greeted")
    /\ lock' = Unlocked(c)
    /\ UNCHANGED <<replacing, mine, daemonVars, abandoned>>

\* Nobody answered: only whoever holds the lock may start one.
NotFound(c) ==
    /\ pc[c] = "attach" /\ ~Answers
    /\ Goto(c, "locking")
    /\ UNCHANGED <<client, greeting, replacing, mine, lock, daemonVars, abandoned>>

\* (mutant) nobody waits for the lock, and everybody goes on as if they had it
TakeLockAnyway(c) ==
    /\ pc[c] = "locking"
    /\ lock' = c
    /\ Goto(c, "reattach")
    /\ UNCHANGED <<client, greeting, replacing, mine, daemonVars, abandoned>>

TakeLock(c) ==
    /\ pc[c] = "locking"
    /\ \/ lock = None /\ lock' = c
       \/ lock # None /\ c \in Turned /\ UNCHANGED lock
    /\ Goto(c, "reattach")
    /\ UNCHANGED <<client, greeting, replacing, mine, daemonVars, abandoned>>

\* Still nobody: the socket file is a corpse and is removed, and a daemon of this build started.
SpawnDaemon(c) ==
    /\ pc[c] = "reattach" /\ ~Answers /\ lock = c
    /\ \E d \in Daemons :
        /\ state[d] = "new"
        /\ state' = [state EXCEPT ![d] = "booting"]
        /\ protocol' = [protocol EXCEPT ![d] = Build[c]]
        /\ mine' = [mine EXCEPT ![c] = d]
    /\ socket' = None
    /\ Goto(c, "wait")
    /\ UNCHANGED <<client, greeting, replacing, lock, sessions, leaving, abandoned>>

\* Somebody else holds the lock: theirs is waited for.
WaitForTheirs(c) ==
    /\ pc[c] = "reattach" /\ ~Answers /\ lock # c
    /\ Goto(c, "wait")
    /\ UNCHANGED <<client, greeting, replacing, mine, lock, daemonVars, abandoned>>

\* What is left of waiting: START_TIMEOUT passed.  The daemon it started may still come up.
Abandons(c) == abandoned' = (abandoned \/ (mine[c] # None /\ state[mine[c]] = "booting"))

\* (mutant) the lock is kept by whoever gave up
GiveUpHolding(c) ==
    /\ pc[c] = "wait" /\ ~Answers
    /\ Goto(c, "inprocess")
    /\ Abandons(c)
    /\ UNCHANGED <<client, greeting, replacing, mine, lock, daemonVars>>

\* START_TIMEOUT passed, or no process could be started: terminals run in this process.
GiveUp(c) ==
    /\ \/ pc[c] = "wait" /\ ~Answers
       \/ pc[c] = "reattach" /\ ~Answers /\ lock = c /\ \A d \in Daemons : state[d] # "new"
    /\ Goto(c, "inprocess")
    /\ lock' = Unlocked(c)
    /\ Abandons(c)
    /\ UNCHANGED <<client, greeting, replacing, mine, daemonVars>>

---------------------------------------------------------------------------
\* What to do with the daemon that answered

Verdict(c) ==
    IF greeting[c].protocol = Build[c] THEN "use"
    ELSE IF greeting[c].running = 0 THEN "replace"
    ELSE IF greeting[c].protocol \in Oldest .. (Build[c] - 1) THEN "keep"
    ELSE "strand"

Disconnected(c) ==
    /\ client' = [client EXCEPT ![c] = None]
    /\ greeting' = [greeting EXCEPT ![c] = NoGreeting]

\* A daemon that can be used is; one of the wrong build after a replacement is not.
Use(c) ==
    /\ pc[c] = "greeted"
    /\ \/ Verdict(c) = "use"
       \/ Verdict(c) = "keep" /\ ~replacing[c]
    /\ Goto(c, "connected")
    /\ UNCHANGED <<client, greeting, replacing, mine, lock, daemonVars, abandoned>>

\* Agents run in one this build cannot talk to: it is left alone.
Strand(c) ==
    /\ pc[c] = "greeted"
    /\ \/ Verdict(c) = "strand"
       \/ replacing[c] /\ Verdict(c) # "use"
    /\ Goto(c, "inprocess")
    /\ Disconnected(c)
    /\ UNCHANGED <<replacing, mine, lock, daemonVars, abandoned>>

\* What a Shutdown request leaves a daemon with: the first reason to leave is the one it goes by.
Told(d, reason) == IF state[d] = "serving" /\ leaving[d] = "no" THEN reason ELSE leaving[d]

\* Nothing ran in it when it answered: it is told to stop, without stopping any session.
Replace(c) ==
    /\ pc[c] = "greeted" /\ ~replacing[c] /\ Verdict(c) = "replace"
    /\ leaving' = [leaving EXCEPT ![client[c]] = Told(client[c], "replaced")]
    /\ Goto(c, "standdown")
    /\ replacing' = [replacing EXCEPT ![c] = TRUE]
    /\ Disconnected(c)
    /\ UNCHANGED <<mine, lock, socket, state, protocol, sessions, abandoned>>

\* It has let go of the socket.
StoodDown(c) ==
    /\ pc[c] = "standdown" /\ ~Answers
    /\ Goto(c, "attach")
    /\ UNCHANGED <<client, greeting, replacing, mine, lock, daemonVars, abandoned>>

\* Somebody answers there for as long as START_TIMEOUT.
WouldNotStandDown(c) ==
    /\ pc[c] = "standdown" /\ Answers
    /\ Goto(c, "inprocess")
    /\ UNCHANGED <<client, greeting, replacing, mine, lock, daemonVars, abandoned>>

\* connect_existing, for the commands of `ys` that only report: what answers is taken as it is.
Look(c) ==
    /\ pc[c] = "off"
    /\ \/ Attach(c) /\ Goto(c, "reporting")
       \/ ~Answers /\ Goto(c, "quit") /\ UNCHANGED <<client, greeting>>
    /\ UNCHANGED <<replacing, mine, lock, daemonVars, abandoned>>

---------------------------------------------------------------------------
\* The daemon

\* It listens, taking over a socket file that is there.
Bind(d) ==
    /\ state[d] = "booting"
    /\ state' = [state EXCEPT ![d] = "serving"]
    /\ socket' = d
    /\ UNCHANGED <<clientVars, lock, protocol, sessions, leaving, abandoned>>

Serving(c) == pc[c] = "connected" /\ state[client[c]] = "serving"

Spawn(c) ==
    /\ Serving(c) /\ sessions[client[c]] < MaxSessions
    /\ sessions' = [sessions EXCEPT ![client[c]] = @ + 1]
    /\ UNCHANGED <<clientVars, lock, socket, state, protocol, leaving, abandoned>>

SessionEnds(d) ==
    /\ state[d] = "serving" /\ sessions[d] > 0
    /\ sessions' = [sessions EXCEPT ![d] = @ - 1]
    /\ UNCHANGED <<clientVars, lock, socket, state, protocol, leaving, abandoned>>

\* (mutant) whoever started the daemon counts as watching it for ever
IdleForStranger(d) ==
    /\ state[d] = "serving" /\ leaving[d] = "no"
    /\ Conns(d) = {} /\ sessions[d] = 0 /\ \A c \in Clients : mine[c] # d
    /\ leaving' = [leaving EXCEPT ![d] = "idle"]
    /\ UNCHANGED <<clientVars, lock, socket, state, protocol, sessions, abandoned>>

\* watch_for_idleness: no client and no session when it last looked, for as long as the grace.
Idle(d) ==
    /\ state[d] = "serving" /\ leaving[d] = "no"
    /\ Conns(d) = {} /\ sessions[d] = 0
    /\ leaving' = [leaving EXCEPT ![d] = "idle"]
    /\ UNCHANGED <<clientVars, lock, socket, state, protocol, sessions, abandoned>>

Goes(d) ==
    /\ state' = [state EXCEPT ![d] = "gone"]
    /\ sessions' = [sessions EXCEPT ![d] = 0]
    /\ UNCHANGED <<clientVars, lock, socket, protocol, leaving, abandoned>>

\* The process ends, at once when idle and three seconds after it was told to.
Leave(d) == state[d] = "serving" /\ leaving[d] # "no" /\ Goes(d)

\* (external) the system, or its user, kills the daemon.
DaemonDies(d) == state[d] \in {"booting", "serving"} /\ Goes(d)

---------------------------------------------------------------------------
\* Leaving a client

Gone(c) ==
    /\ Goto(c, "quit")
    /\ Disconnected(c)
    /\ lock' = Unlocked(c)
    /\ UNCHANGED <<replacing, mine, socket, state, protocol>>

\* The agents are left to carry on.
Quit(c) ==
    /\ pc[c] \in {"connected", "reporting", "inprocess"}
    /\ Gone(c)
    /\ UNCHANGED <<sessions, leaving, abandoned>>

\* The daemon's sessions are killed, and it is told to stop.
QuitStopping(c) ==
    /\ Serving(c)
    /\ sessions' = [sessions EXCEPT ![client[c]] = 0]
    /\ leaving' = [leaving EXCEPT ![client[c]] = Told(client[c], "stopped")]
    /\ Gone(c)
    /\ UNCHANGED abandoned

\* (external) the system kills a client; its lock goes with it.
ClientDies(c) ==
    /\ pc[c] \notin {"off", "quit"}
    /\ Gone(c)
    /\ Abandons(c)
    /\ UNCHANGED <<sessions, leaving>>

---------------------------------------------------------------------------
Connecting(c) ==
    \/ Found(c) \/ NotFound(c) \/ TakeLock(c) \/ SpawnDaemon(c) \/ WaitForTheirs(c) \/ GiveUp(c)
    \/ Use(c) \/ Strand(c) \/ Replace(c) \/ StoodDown(c) \/ WouldNotStandDown(c)

Next ==
    \/ \E c \in Clients :
        \/ Launch(c) \/ Look(c) \/ Connecting(c)
        \/ Spawn(c) \/ Quit(c) \/ QuitStopping(c) \/ ClientDies(c)
    \/ \E d \in Daemons :
        \/ Bind(d) \/ SessionEnds(d) \/ Idle(d) \/ Leave(d) \/ DaemonDies(d)

Spec == Init /\ [][Next]_vars

\* Every thread goes on: a client in `connect`, a daemon coming up, its idle and shutdown threads.
FairSpec ==
    /\ Spec
    /\ \A c \in Clients : WF_vars(Connecting(c))
    /\ \A d \in Daemons : WF_vars(Bind(d)) /\ WF_vars(Idle(d)) /\ WF_vars(Leave(d))

---------------------------------------------------------------------------
\* Properties

Up == {d \in Daemons : state[d] \in {"booting", "serving"}}

\* Two copies that start at once do not both start a daemon: whoever starts, gives up, replaces
\* or kills one, there is at most one at any moment, and the socket leads to it.  Only a daemon
\* that was left coming up, past START_TIMEOUT or by a client that was killed, can make it two
\* (the lock of connect_or_start).
AtMostOne == \A d, e \in Up : d = e
AtSocket == \A d \in Daemons : state[d] = "serving" => socket = d
OneDaemon == abandoned \/ (AtMostOne /\ AtSocket)

\* Whoever starts ends up with terminals, the daemon's or its own, whatever dies on the way: the
\* lock is let go of, and nobody waits for ever for a daemon that is not coming.
EveryoneServed == \A c \in Clients :
    pc[c] = "attach" ~> pc[c] \in {"connected", "inprocess", "quit"}

\* A daemon nobody watches any more, with nothing running in it, goes (watch_for_idleness).
NothingLeftBehind == \A d \in Daemons :
    <>[](Conns(d) = {} /\ sessions[d] = 0) => <>[](state[d] # "serving")
============================================================================
