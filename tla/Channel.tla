------------------------------ MODULE Channel ------------------------------
(***************************************************************************)
(* The channels of remote devices, as a host serves them: from the link to *)
(* the relay down to the terminal daemon.  Four parties take part.         *)
(*                                                                         *)
(*   the connector   opens a thread for each channel of its link, has the  *)
(*                   grants looked at again, and reconnects only when all  *)
(*                   threads are done (crates/remote-host/src/lib.rs)      *)
(*   a channel       one thread: it answers its device's requests in order *)
(*                   and lets go of everything when the channel closes     *)
(*                   (crates/core/src/remote/serve.rs)                     *)
(*   the client      the app's one connection to the daemon: callers wait  *)
(*                   for their answers, a reader thread hands answers to   *)
(*                   callers and items to sinks                            *)
(*                   (crates/pty-ipc/src/client.rs)                        *)
(*   the daemon      answers the connection's requests in order, and feeds *)
(*                   it the items of one terminal through one queue        *)
(*                   (crates/pty-ipc/src/server.rs); the terminal itself   *)
(*                   is Session's, and is here its last item and Control   *)
(*                                                                         *)
(* Left out: what a request asks of the store only, starts and uploads, a  *)
(* terminal's end and its sizes (they travel as output and control do),    *)
(* the look at the terminal before each operation, which changes nothing.  *)
(* An item is one frame.                                                   *)
(***************************************************************************)
EXTENDS Control, Integers, Sequences, FiniteSets, SequencesExt

CONSTANTS
    Channels,       \* the channels the relay may open, each once
    DeviceOf,       \* the device of each channel
    Protocols,      \* what the daemon may speak: 2, or 3, which says who controls
    Room,           \* MAX_QUEUED_OUTPUT, in frames
    ActivityRoom,   \* ACTIVITY_WAITING, in frames
    MaxSeq,         \* how many items the terminal has
    Past,           \* the activity recorded before: "shown" to a device, or "other"
    MaxRecorded,    \* how much there is of it in the end
    MaxRequests,    \* how many requests the devices make
    MaxFaults       \* how often the link fails or a request to the daemon is given up

ResumeProtocol == 3

ASSUME ChannelsAssumption == DeviceOf \in [Channels -> Holders]
\* No device has the name that stands for a controller not yet known
ASSUME NamesAssumption == "none" \notin Holders
ASSUME RoomAssumption == Room \in Nat \ {0} /\ ActivityRoom \in 0 .. Room
ASSUME BoundsAssumption == MaxSeq \in Nat /\ Past \in Seq({"shown", "other"})

VARIABLES
    granted,    \* the devices this host's record lets in
    link,       \* "up", "joining" the threads of a lost link, "down"
    open,       \* the channels whose inbox the connector still feeds
    recheck,    \* the channels with a recheck in their inbox
    at,         \* where each channel's thread is
    work,       \* the stream, or the lease, its request is about
    watched,    \* Visitor::streams
    leases,     \* Visitor::leases
    following,  \* Visitor::subscriptions: how far activity was sent; Nowhere
    waiting,    \* ChannelOut::queued: what waits for the device, in frames
    flows,      \* each stream's Flow, by its number
    asked,      \* the requests on their way to the daemon
    wire,       \* the frames on their way to the client
    called,     \* how many requests each channel's thread made of the daemon
    pending,    \* DaemonClient::pending: whose request waits for its answer
    answer,     \* what a thread was answered; None
    watchers,   \* DaemonClient::watchers: the streams with a sink
    viewers,    \* the streams the daemon attached
    seq,        \* the terminal's last item
    control,    \* who controls the terminal: a state of Control
    protocol,   \* what this daemon speaks
    log,        \* the activity recorded: "shown" to the device, or "other"
    told,       \* all that was queued for a device of each stream
    batches,    \* the activity queued for each channel's device
    unanswered, \* the streams whose attach was given up, the channels whose acquire was
    spent       \* how many requests and faults there were

visit == <<at, work, watched, leases, following>>
ipc == <<asked, wire, called, pending, answer, watchers>>
daemon == <<viewers, seq, control, protocol>>
connector == <<link, open, recheck>>
device == <<waiting, flows, told, batches>>
vars == <<granted, visit, ipc, daemon, connector, device, log, unanswered, spent>>

None == "none"
Nowhere == 0 - 1
Streams == 1 .. Len(flows)
Threads == {c \in Channels : at[c] \notin {"unopened", "over"}}
Of(s) == flows[s].channel
LetIn(c) == DeviceOf[c] \in granted

NoAnswer == [r |-> "none"]
Done == [r |-> "done"]
Refused == [r |-> "refused"]

Init ==
    /\ granted \in SUBSET Holders
    /\ link = "up" /\ open = {} /\ recheck = {}
    /\ at = [c \in Channels |-> "unopened"]
    /\ work = [c \in Channels |-> 0]
    /\ watched = [c \in Channels |-> {}]
    /\ leases = [c \in Channels |-> {}]
    /\ following = [c \in Channels |-> Nowhere]
    /\ waiting = [c \in Channels |-> 0]
    /\ flows = <<>> /\ told = <<>>
    /\ asked = <<>> /\ wire = <<>>
    /\ called = [c \in Channels |-> 0]
    /\ pending = {} /\ watchers = {}
    /\ answer = [c \in Channels |-> NoAnswer]
    /\ viewers = {} /\ seq = 0
    /\ control = NewControl /\ protocol \in Protocols
    /\ log = Past
    /\ batches = [c \in Channels |-> <<>>]
    /\ unanswered = [streams |-> {}, acquires |-> {}]
    /\ spent = [requests |-> 0, faults |-> 0]

-----------------------------------------------------------------------------
(* The sink of a stream                                                    *)

\* Flow, as attach makes it: nothing goes before the reply
NewFlow(c) ==
    [channel |-> c, held |-> <<>>, replied |-> FALSE, start |-> None, from |-> 0,
     controller |-> None, over |-> FALSE]

\* Flow::send, over what it changes: the flow, what was queued of it, how much waits for the
\* device, and whether the stream goes on
Send(x, item) ==
    IF item.k = "control" THEN [x EXCEPT !.told = Append(@, <<"control", item.who>>)]
    ELSE IF x.waiting < Room
         THEN [x EXCEPT !.told = Append(@, <<"out", item.n>>), !.waiting = @ + 1]
         ELSE [x EXCEPT !.told = Append(@, <<"over", 0>>), !.flow.over = TRUE, !.ok = FALSE]

\* Flow::take: an item from the daemon
Take(x, item) ==
    LET begun == [x EXCEPT !.flow.start = item.k, !.flow.from = item.n]
        y == IF item.k = "snapshot" THEN begun ELSE x
    IN  CASE x.flow.over -> [x EXCEPT !.ok = FALSE]
          [] ~ x.flow.over /\ item.k = "resumed" -> begun
          [] ~ x.flow.over /\ item.k = "control" /\ ~ x.flow.replied ->
                 [x EXCEPT !.flow.controller = item.who]
          [] ~ x.flow.over /\ item.k # "resumed" /\ x.flow.replied -> Send(y, item)
          [] OTHER -> [y EXCEPT !.flow.held = Append(@, item)]

At(s) == [flow |-> flows[s], told |-> told[s], waiting |-> waiting[Of(s)], ok |-> TRUE]

Becomes(s, x) ==
    /\ flows' = [flows EXCEPT ![s] = x.flow]
    /\ told' = [told EXCEPT ![s] = x.told]
    /\ waiting' = [waiting EXCEPT ![Of(s)] = x.waiting]

\* (mutant) what was held back is forgotten when the reply has gone
RepliedOnly(s, who) ==
    [At(s) EXCEPT !.told = <<<<"attached", flows[s].from>>, <<"control", who>>>>,
                  !.flow.replied = TRUE, !.flow.held = <<>>]

\* The reply that starts the stream, then what was held back, items all of it: as much as there is
\* room for
Replied(s, who) ==
    LET f == flows[s]
        left == IF waiting[Of(s)] < Room THEN Room - waiting[Of(s)] ELSE 0
        all == Len(f.held) <= left
        fits == IF all THEN Len(f.held) ELSE left
    IN  [flow |-> [f EXCEPT !.replied = TRUE, !.held = <<>>, !.over = ~ all],
         told |-> <<<<"attached", f.from>>, <<"control", who>>>>
                      \o [i \in 1 .. fits |-> <<"out", f.held[i].n>>]
                      \o (IF all THEN <<>> ELSE <<<<"over", 0>>>>),
         waiting |-> waiting[Of(s)] + fits,
         ok |-> all]

-----------------------------------------------------------------------------
(* The connection to the daemon                                            *)

\* DaemonClient::request
Ask(c, op) ==
    /\ called' = [called EXCEPT ![c] = @ + 1]
    /\ pending' = pending \cup {c}
    /\ asked' = Append(asked, [by |-> c, id |-> called[c] + 1, op |-> op])
    /\ UNCHANGED wire

Answered(c) == at[c] # "idle" /\ answer[c] # NoAnswer

\* The caller takes its answer
Hear(c) == Answered(c) /\ answer' = [answer EXCEPT ![c] = NoAnswer]

\* The flow's lock, held while an earlier daemon is asked who controls the terminal
Locked(s) == \E c \in Threads : at[c] = "asking" /\ work[c] = s /\ answer[c] = NoAnswer

\* An answer goes to the caller that waits for this very request
HandOver(frame) ==
    /\ IF frame.by \in pending /\ frame.id = called[frame.by]
       THEN /\ answer' = [answer EXCEPT ![frame.by] = frame.a]
            /\ pending' = pending \ {frame.by}
       ELSE UNCHANGED <<answer, pending>>
    /\ UNCHANGED <<watchers, device>>

\* An item goes to its stream's sink; one that says it is done is dropped
Feed(frame) ==
    IF frame.s \in watchers
    THEN /\ ~ Locked(frame.s)
         /\ LET x == Take(At(frame.s), frame.item) IN
            /\ Becomes(frame.s, x)
            /\ watchers' = IF x.ok THEN watchers ELSE watchers \ {frame.s}
         /\ UNCHANGED <<answer, pending, batches>>
    ELSE UNCHANGED <<answer, pending, watchers, device>>

\* read_loop
Read ==
    /\ wire # <<>>
    /\ wire' = Tail(wire)
    /\ IF Head(wire).f = "answer" THEN HandOver(Head(wire)) ELSE Feed(Head(wire))
    /\ UNCHANGED <<granted, visit, asked, called, daemon, connector, log, unanswered, spent>>

-----------------------------------------------------------------------------
(* The daemon                                                              *)

Item(s, item) == [f |-> "item", s |-> s, item |-> item]
Output(n) == [k |-> "out", n |-> n]

\* An item for every viewer
ToAll(item) == SetToSeq({Item(s, item) : s \in viewers})

\* Viewers are told of a controller that changed, by a daemon that tells
Announced(before, after) ==
    IF protocol >= ResumeProtocol /\ Controller(before) # Controller(after)
    THEN ToAll([k |-> "control", who |-> Controller(after)]) ELSE <<>>

\* What a new viewer is sent: a snapshot, or the items since the one it names when they are
\* all kept; then who controls the terminal
Beginnings(s, after) ==
    LET whole == <<Item(s, [k |-> "snapshot", n |-> seq])>>
        since == <<Item(s, [k |-> "resumed", n |-> after])>>
                   \o [i \in 1 .. seq - after |-> Item(s, Output(after + i))]
        who == IF protocol >= ResumeProtocol
               THEN <<Item(s, [k |-> "control", who |-> Controller(control)])>> ELSE <<>>
    IN  {whole \o who} \cup (IF after \in 0 .. seq THEN {since \o who} ELSE {})


Serves(o) == asked # <<>> /\ Head(asked).op.o = o

\* The answer follows what the request made the daemon send
Respond(items, a) ==
    /\ asked' = Tail(asked)
    /\ wire' = wire \o items \o <<[f |-> "answer", by |-> Head(asked).by, id |-> Head(asked).id,
                                   a |-> a]>>
    /\ UNCHANGED <<granted, visit, called, pending, answer, watchers, seq, protocol, connector, device,
                   log, unanswered, spent>>

\* Op::Watch: the viewer is sent its beginning before the request is answered
ServeWatch ==
    /\ Serves("watch")
    /\ LET op == Head(asked).op IN
       /\ \E items \in Beginnings(op.s, op.after) : Respond(items, Done)
       /\ viewers' = viewers \cup {op.s}
    /\ UNCHANGED control

\* Op::Detach
ServeDetach ==
    /\ Serves("detach")
    /\ viewers' = viewers \ {Head(asked).op.s}
    /\ Respond(<<>>, Done)
    /\ UNCHANGED control

\* Op::Controller
ServeController ==
    /\ Serves("controller")
    /\ Respond(<<>>, [r |-> "controller", who |-> Controller(control)])
    /\ UNCHANGED <<viewers, control>>

\* Op::Acquire
ServeAcquire ==
    /\ Serves("acquire")
    /\ LET op == Head(asked).op
           fresh == Acquired(control, op.holder, control.generation + 1) IN
       IF MayAcquire(control, op.holder, op.takeOver)
       THEN /\ control' = fresh
            /\ Respond(Announced(control, fresh),
                       [r |-> "leased", ref |-> [id |-> fresh.id,
                                                 generation |-> fresh.generation]])
       ELSE Respond(<<>>, Refused) /\ UNCHANGED control
    /\ UNCHANGED viewers

\* Op::Renew, Op::Input and Op::ResizeLeased: what they ask of the lease
ServeUse ==
    /\ Serves("use")
    /\ Respond(<<>>, IF Check(control, Head(asked).op.ref) THEN Done ELSE Refused)
    /\ UNCHANGED <<viewers, control>>

\* Op::Release
ServeRelease ==
    /\ Serves("release")
    /\ LET ref == Head(asked).op.ref IN
       /\ control' = Release(control, ref)
       /\ Respond(Announced(control, control'),
                  IF Check(control, ref) THEN Done ELSE Refused)
    /\ UNCHANGED viewers

Quiet == UNCHANGED <<granted, visit, asked, called, pending, answer, watchers, viewers, protocol,
                     connector, device, log, unanswered, spent>>

\* The program printed.  (Before anyone watched, that is only where the numbers start.)
Prints ==
    /\ seq < MaxSeq /\ flows # <<>>
    /\ seq' = seq + 1
    /\ wire' = wire \o ToAll(Output(seq + 1))
    /\ UNCHANGED control /\ Quiet

\* The person at the computer typed: control is theirs
LocalTypes ==
    /\ Controller(control) \in Holders
    /\ control' = LocalInput(control)
    /\ wire' = wire \o Announced(control, control')
    /\ UNCHANGED seq /\ Quiet

\* A hold nobody kept up ran out
RunsOut ==
    /\ control.who # "nobody"
    /\ control' = GivenUp(control)
    /\ wire' = wire \o Announced(control, control')
    /\ UNCHANGED seq /\ Quiet

-----------------------------------------------------------------------------
(* A channel's thread: its requests                                        *)

\* A request of the device is taken from the inbox
Takes(c) ==
    /\ at[c] = "idle" /\ spent.requests < MaxRequests
    /\ spent' = [spent EXCEPT !.requests = @ + 1]
    /\ UNCHANGED <<granted, connector, daemon, log, unanswered>>

\* Every request looks the grant up first; without it, the channel closes
RefuseRequest(c) ==
    /\ Takes(c) /\ ~ LetIn(c)
    /\ at' = [at EXCEPT ![c] = "closing"]
    /\ UNCHANGED <<work, watched, leases, following, ipc, device>>

Goes(c, where) == at' = [at EXCEPT ![c] = where]

\* terminal.attach: a stream of its own, its sink in place before the daemon is asked.  A device
\* resumes from where a stream it was sent had got to; an earlier daemon is not asked to resume.
Attach(c, after) ==
    /\ Takes(c) /\ LetIn(c)
    /\ LET s == Len(flows) + 1
           kept == IF protocol >= ResumeProtocol THEN after ELSE Nowhere IN
       /\ flows' = Append(flows, NewFlow(c))
       /\ told' = Append(told, <<>>)
       /\ watchers' = watchers \cup {s}
       /\ Ask(c, [o |-> "watch", s |-> s, after |-> kept])
       /\ work' = [work EXCEPT ![c] = s]
    /\ Goes(c, "watching")
    /\ UNCHANGED <<watched, leases, following, answer, waiting, batches>>

\* terminal.detach
Detach(c, s) ==
    /\ Takes(c) /\ LetIn(c) /\ s \in watched[c]
    /\ watched' = [watched EXCEPT ![c] = @ \ {s}]
    /\ watchers' = watchers \ {s}
    /\ Ask(c, [o |-> "detach", s |-> s])
    /\ work' = [work EXCEPT ![c] = s]
    /\ Goes(c, "detaching")
    /\ UNCHANGED <<leases, following, answer, device>>

\* terminal.acquire
Acquire(c, takeOver) ==
    /\ Takes(c) /\ LetIn(c)
    /\ Ask(c, [o |-> "acquire", holder |-> DeviceOf[c], takeOver |-> takeOver])
    /\ Goes(c, "acquiring")
    /\ UNCHANGED <<work, watched, leases, following, answer, watchers, device>>

\* terminal.renew, terminal.input, terminal.resize, with a lease of this channel
Use(c, ref) ==
    /\ Takes(c) /\ LetIn(c) /\ ref \in leases[c]
    /\ Ask(c, [o |-> "use", ref |-> ref])
    /\ work' = [work EXCEPT ![c] = ref]
    /\ Goes(c, "using")
    /\ UNCHANGED <<watched, leases, following, answer, watchers, device>>

\* terminal.release: forgotten before the daemon is asked
GiveBack(c, ref) ==
    /\ Takes(c) /\ LetIn(c) /\ ref \in leases[c]
    /\ leases' = [leases EXCEPT ![c] = @ \ {ref}]
    /\ Ask(c, [o |-> "release", ref |-> ref])
    /\ Goes(c, "releasing")
    /\ UNCHANGED <<work, watched, following, answer, watchers, device>>

\* recorded_after: what of the log after one place, up to another, is on show to a device
Recorded(from, to) ==
    LET shown == {n \in from + 1 .. to : log[n] = "shown"}
    IN  CHOOSE q \in [1 .. Cardinality(shown) -> shown] : \A i, j \in DOMAIN q : i < j => q[i] < q[j]

\* subscription_start: an event the device was sent, or the end of the log
Starts == {n \in 1 .. Len(log) : log[n] = "shown"} \cup {Len(log)}

\* What was recorded from one place to another, after what was sent before, while little waits for
\* the device; a stretch of which nothing is shown is passed over
SendRecorded(c, from, to, before) ==
    LET shown == Recorded(from, to)
        sent == shown # <<>> /\ waiting[c] <= ActivityRoom IN
    /\ following' = [following EXCEPT ![c] = IF sent \/ shown = <<>> THEN to ELSE from]
    /\ batches' = [batches EXCEPT ![c] = IF sent THEN before \o shown ELSE before]
    /\ waiting' = [waiting EXCEPT ![c] = IF sent THEN @ + 1 ELSE @]

\* activity.subscribe: from a place in the log the device names, or from its end, and at once the
\* first of what was recorded since
Subscribe(c, from, to) ==
    /\ Takes(c) /\ LetIn(c) /\ following[c] = Nowhere
    /\ SendRecorded(c, from, to, <<from>>)
    /\ UNCHANGED <<at, work, watched, leases, ipc, flows, told>>

\* activity.unsubscribe
Unsubscribe(c) ==
    /\ Takes(c) /\ LetIn(c) /\ following[c] # Nowhere
    /\ following' = [following EXCEPT ![c] = Nowhere]
    /\ UNCHANGED <<at, work, watched, leases, ipc, device>>

\* Where the streams a device was sent had got to
Places(c) ==
    UNION {{told[s][i][2] : i \in {i \in DOMAIN told[s] : told[s][i][1] \in {"attached", "out"}}} :
           s \in {s \in Streams : DeviceOf[Of(s)] = DeviceOf[c]}}

Request(c) ==
    \/ RefuseRequest(c)
    \/ \E after \in {Nowhere} \cup Places(c) : Attach(c, after)
    \/ \E s \in Streams : Detach(c, s)
    \/ \E takeOver \in BOOLEAN : Acquire(c, takeOver)
    \/ \E ref \in leases[c] : Use(c, ref) \/ GiveBack(c, ref)
    \/ \E from \in Starts :
           \E to \in from .. Len(log) : Subscribe(c, from, to)
    \/ Unsubscribe(c)

-----------------------------------------------------------------------------
(* A channel's thread: what it does with an answer                         *)

Steady == UNCHANGED <<granted, connector, daemon, log, unanswered, spent>>

\* The caller goes on without asking anything more
Back(c) == Goes(c, "idle") /\ UNCHANGED <<asked, wire, called, pending, watchers>>

\* The stream is known to the channel from its reply on, unless it is over already: then the
\* daemon is told to leave it
Reply(c, who) ==
    LET s == work[c]
        x == Replied(s, who) IN
    /\ Becomes(s, x)
    /\ UNCHANGED batches
    /\ IF x.ok
       THEN Back(c) /\ watched' = [watched EXCEPT ![c] = @ \cup {s}]
       ELSE /\ Ask(c, [o |-> "detach", s |-> s])
            /\ watchers' = watchers \ {s}
            /\ Goes(c, "dropping") /\ UNCHANGED watched
    /\ UNCHANGED <<work, leases, following>>

\* The attach was answered.  A daemon that has not said who controls the terminal is asked,
\* with the flow locked.
Attached(c) ==
    /\ at[c] = "watching" /\ Hear(c)
    /\ IF flows[work[c]].controller = None
       THEN /\ Ask(c, [o |-> "controller"])
            /\ Goes(c, "asking")
            /\ UNCHANGED <<work, watched, leases, following, watchers, device>>
       ELSE Reply(c, flows[work[c]].controller)
    /\ Steady

\* ... and says so
ToldWho(c) ==
    /\ at[c] = "asking" /\ Hear(c)
    /\ Reply(c, answer[c].who)
    /\ Steady

\* The device is told that its stream has ended
Detached(c) ==
    /\ at[c] = "detaching" /\ Hear(c)
    /\ told' = [told EXCEPT ![work[c]] = Append(@, <<"done", 0>>)]
    /\ Back(c)
    /\ UNCHANGED <<work, watched, leases, following, waiting, flows, batches>>
    /\ Steady

\* A lease, or a refusal
TakesLease(c) ==
    /\ at[c] = "acquiring" /\ Hear(c)
    /\ leases' = [leases EXCEPT ![c] =
                     IF answer[c].r = "leased" THEN @ \cup {answer[c].ref} ELSE @]
    /\ Back(c)
    /\ UNCHANGED <<work, watched, following, device>>
    /\ Steady

\* Visitor::lost: a lease the daemon says is gone is forgotten
Used(c) ==
    /\ at[c] = "using" /\ Hear(c)
    /\ leases' = [leases EXCEPT ![c] = IF answer[c] = Refused THEN @ \ {work[c]} ELSE @]
    /\ Back(c)
    /\ UNCHANGED <<work, watched, following, device>>
    /\ Steady

\* Nothing more to do than to answer the device
Finished(c) ==
    /\ at[c] \in {"releasing", "dropping"} /\ Hear(c)
    /\ Back(c)
    /\ UNCHANGED <<work, watched, leases, following, device>>
    /\ Steady

Hears(c) ==
    \/ Attached(c)
    \/ ToldWho(c)
    \/ Detached(c)
    \/ TakesLease(c)
    \/ Used(c)
    \/ Finished(c)

\* The reader waits for the lock of a flow
SinkWaits ==
    wire # <<>> /\ Head(wire).f = "item" /\ Head(wire).s \in watchers /\ Locked(Head(wire).s)

\* REQUEST_TIMEOUT: the request is forgotten here, and carried out there.  How often that happens
\* is bounded, but for a request the reader itself keeps from its answer.
GivesUp(c) ==
    /\ c \in pending
    /\ \/ spent.faults < MaxFaults /\ spent' = [spent EXCEPT !.faults = @ + 1]
       \/ SinkWaits /\ UNCHANGED spent
    /\ pending' = pending \ {c}
    /\ UNCHANGED <<granted, connector, daemon, log, asked, wire, called, work, watched, leases,
                   following>>

\* An attach, an acquire or a use fails; a stream that never began has no sink
GivesUpAsking(c) ==
    /\ GivesUp(c) /\ at[c] \in {"watching", "acquiring", "using"}
    /\ Goes(c, "idle")
    /\ IF at[c] = "watching"
       THEN /\ watchers' = watchers \ {work[c]}
            /\ unanswered' = [unanswered EXCEPT !.streams = @ \cup {work[c]}]
       ELSE /\ unanswered' = IF at[c] = "acquiring"
                             THEN [unanswered EXCEPT !.acquires = @ \cup {c}] ELSE unanswered
            /\ UNCHANGED watchers
    /\ UNCHANGED <<answer, device>>

\* Anything else goes on as it does when answered: the answer was not needed, or nobody is said
\* to control the terminal
GivesUpWaiting(c) ==
    /\ GivesUp(c) /\ at[c] \in {"asking", "detaching", "releasing", "dropping", "lettingGo"}
    /\ answer' = [answer EXCEPT ![c] = [r |-> "controller", who |-> "nobody"]]
    /\ UNCHANGED <<at, watchers, device, unanswered>>

\* Visitor::poll, as much as it reads at once
Poll(c, to) ==
    /\ at[c] = "idle" /\ LetIn(c) /\ following[c] # Nowhere
    /\ SendRecorded(c, following[c], to, batches[c])
    /\ UNCHANGED <<at, work, watched, leases, ipc, flows, told>>
    /\ Steady

\* The workspace a subscription follows is no longer on show to its device
FollowingEnds(c) ==
    /\ at[c] = "idle" /\ LetIn(c) /\ following[c] # Nowhere
    /\ following' = [following EXCEPT ![c] = Nowhere]
    /\ UNCHANGED <<at, work, watched, leases, ipc, device>>
    /\ Steady

-----------------------------------------------------------------------------
(* A channel's thread: its beginning and its end                           *)

\* Visitor::open: only a device this host's own record lets in
Enter(c) ==
    /\ at[c] = "opening"
    /\ Goes(c, IF LetIn(c) THEN "greeting" ELSE "over")
    /\ UNCHANGED <<work, watched, leases, following, ipc, device>>
    /\ Steady

\* The first message is a hello the host can answer, or the channel closes
Greet(c) ==
    /\ at[c] = "greeting"
    /\ Goes(c, "idle") \/ Goes(c, "closing")
    /\ UNCHANGED <<work, watched, leases, following, ipc, device>>
    /\ Steady

\* (mutant) only a channel that has greeted is rechecked
RecheckGreeted(c) ==
    /\ at[c] = "idle" /\ c \in recheck
    /\ recheck' = recheck \ {c}
    /\ Goes(c, IF LetIn(c) THEN at[c] ELSE "closing")
    /\ UNCHANGED <<granted, link, open, work, watched, leases, following, ipc, daemon, device, log,
                   unanswered, spent>>

\* A recheck of the grant
Recheck(c) ==
    /\ at[c] \in {"greeting", "idle"} /\ c \in recheck
    /\ recheck' = recheck \ {c}
    /\ Goes(c, IF LetIn(c) THEN at[c] ELSE "closing")
    /\ UNCHANGED <<granted, link, open, work, watched, leases, following, ipc, daemon, device, log,
                   unanswered, spent>>

\* The inbox is closed
Ends(c) ==
    /\ at[c] \in {"greeting", "idle"} /\ c \notin open
    /\ Goes(c, "closing")
    /\ UNCHANGED <<work, watched, leases, following, ipc, device>>
    /\ Steady

\* Visitor::close begins
BeginClose(c) ==
    /\ at[c] = "closing"
    /\ Goes(c, "lettingGo")
    /\ following' = [following EXCEPT ![c] = Nowhere]
    /\ answer' = [answer EXCEPT ![c] = Done]
    /\ UNCHANGED <<work, watched, leases, asked, wire, called, pending, watchers, device>>
    /\ Steady

LetGoOfStream(c, s) ==
    /\ at[c] = "lettingGo" /\ Hear(c) /\ s \in watched[c]
    /\ watched' = [watched EXCEPT ![c] = @ \ {s}]
    /\ watchers' = watchers \ {s}
    /\ Ask(c, [o |-> "detach", s |-> s])
    /\ UNCHANGED <<at, work, leases, following, device>>
    /\ Steady

LetGoOfLease(c, ref) ==
    /\ at[c] = "lettingGo" /\ Hear(c) /\ watched[c] = {} /\ ref \in leases[c]
    /\ leases' = [leases EXCEPT ![c] = @ \ {ref}]
    /\ Ask(c, [o |-> "release", ref |-> ref])
    /\ UNCHANGED <<at, work, watched, following, watchers, device>>
    /\ Steady

\* (mutant) the leases of a channel that closes are left to run out
LeasesLeft(c) ==
    /\ at[c] = "lettingGo" /\ Hear(c) /\ watched[c] = {}
    /\ Goes(c, "over")
    /\ UNCHANGED <<work, watched, leases, following, asked, wire, called, pending, watchers, device>>
    /\ Steady

\* Visitor::close ends, and with it the thread
HasLetGo(c) ==
    /\ at[c] = "lettingGo" /\ Hear(c) /\ watched[c] = {} /\ leases[c] = {}
    /\ Goes(c, "over")
    /\ UNCHANGED <<work, watched, leases, following, asked, wire, called, pending, watchers, device>>
    /\ Steady

LetsGo(c) ==
    \/ \E s \in watched[c] : LetGoOfStream(c, s)
    \/ \E ref \in leases[c] : LetGoOfLease(c, ref)
    \/ HasLetGo(c)

-----------------------------------------------------------------------------
(* The connector, and what happens around it                               *)

Around == UNCHANGED <<ipc, daemon, visit, device, log, unanswered>>

\* The relay opens a channel: a thread of its own
Open(c) ==
    /\ link = "up" /\ at[c] = "unopened"
    /\ open' = open \cup {c}
    /\ at' = [at EXCEPT ![c] = "opening"]
    /\ UNCHANGED <<granted, link, recheck, work, watched, leases, following, ipc, daemon, device,
                   log, unanswered, spent>>

\* The relay closes one, or its device left
Shut(c) ==
    /\ c \in open
    /\ open' = open \ {c}
    /\ UNCHANGED <<granted, link, recheck, spent>> /\ Around

\* Every RECHECK_EVERY, or at once when a grant was revoked here.  A channel whose device is
\* still let in is not followed: its recheck changes nothing.
RecheckAll ==
    /\ link = "up"
    /\ recheck' = recheck \cup {c \in open : ~ LetIn(c)}
    /\ UNCHANGED <<granted, link, open, spent>> /\ Around

\* The link is lost: every inbox is closed, and the threads are waited for
Lose ==
    /\ link = "up" /\ spent.faults < MaxFaults
    /\ spent' = [spent EXCEPT !.faults = @ + 1]
    /\ link' = "joining" /\ open' = {}
    /\ UNCHANGED <<granted, recheck>> /\ Around

Join ==
    /\ link = "joining" /\ Threads = {}
    /\ link' = "down"
    /\ UNCHANGED <<granted, open, recheck, spent>> /\ Around

Reconnect ==
    /\ link = "down"
    /\ link' = "up"
    /\ UNCHANGED <<granted, open, recheck, spent>> /\ Around

\* A frame is written to the link
Write(c) ==
    /\ link # "down" /\ waiting[c] > 0
    /\ waiting' = [waiting EXCEPT ![c] = @ - 1]
    /\ UNCHANGED <<granted, connector, visit, ipc, daemon, flows, told, batches, log, unanswered,
                   spent>>

\* The person here revokes a device's grant
Revoke(d) ==
    /\ d \in granted
    /\ granted' = granted \ {d}
    /\ UNCHANGED <<connector, spent>> /\ Around

\* Activity is recorded, while somebody follows it (what nobody follows is as good as past)
Record(kind) ==
    /\ Len(log) < MaxRecorded /\ \E c \in Channels : following[c] # Nowhere
    /\ log' = Append(log, kind)
    /\ UNCHANGED <<granted, connector, visit, ipc, daemon, device, unanswered, spent>>

-----------------------------------------------------------------------------

Serve == ServeWatch \/ ServeDetach \/ ServeController \/ ServeAcquire \/ ServeUse \/ ServeRelease

Visit(c) == Request(c) \/ Hears(c) \/ Enter(c) \/ Greet(c) \/ Recheck(c) \/ Ends(c) \/ BeginClose(c)
            \/ LetsGo(c)

Next ==
    \/ Read \/ Serve \/ Prints \/ LocalTypes \/ RunsOut
    \/ RecheckAll \/ Lose \/ Join \/ Reconnect
    \/ \E c \in Channels :
           \/ Visit(c) \/ GivesUpAsking(c) \/ GivesUpWaiting(c)
           \/ \E to \in 1 .. Len(log) : following[c] # Nowhere /\ to > following[c] /\ Poll(c, to)
           \/ FollowingEnds(c)
           \/ Open(c) \/ Shut(c) \/ Write(c)
    \/ \E d \in Holders : Revoke(d)
    \/ \E kind \in {"shown", "other"} : Record(kind)

Spec == Init /\ [][Next]_vars

\* Threads run, the reader reads, the daemon answers, and grants are looked at again.  Nothing
\* is assumed of devices, the relay, the link or the person at the computer.
FairSpec ==
    /\ Spec
    /\ WF_vars(Read) /\ WF_vars(Serve) /\ WF_vars(RecheckAll) /\ WF_vars(Join)
    /\ \A c \in Channels :
           /\ WF_vars(SinkWaits /\ GivesUpWaiting(c))
           /\ WF_vars(Hears(c) \/ Enter(c) \/ Recheck(c) \/ Ends(c) \/ BeginClose(c) \/ LetsGo(c))

-----------------------------------------------------------------------------
(* Properties                                                              *)

\* Every variable keeps its shape.
TypeOK ==
    /\ granted \subseteq Holders
    /\ link \in {"up", "joining", "down"}
    /\ open \subseteq Channels /\ recheck \subseteq Channels
    /\ at \in [Channels -> {"unopened", "opening", "greeting", "idle", "watching", "asking",
                            "detaching", "dropping", "acquiring", "using", "releasing", "closing",
                            "lettingGo", "over"}]
    /\ \A c \in Channels :
           /\ watched[c] \subseteq Streams /\ leases[c] \subseteq LeaseRefs
           /\ following[c] \in {Nowhere} \cup 0 .. Len(log)
           /\ waiting[c] \in 0 .. Room + 1 /\ called[c] \in Nat
    /\ pending \subseteq Channels /\ watchers \subseteq Streams /\ viewers \subseteq Streams
    /\ control \in ControlStates /\ seq \in 0 .. MaxSeq
    /\ Len(told) = Len(flows)

\* The words of one kind that a device was told of a stream, and the items among them
Told(s, kind) == {i \in DOMAIN told[s] : told[s][i][1] = kind}
Sent(s) == {told[s][i][2] : i \in Told(s, "out")}

\* The frames of one kind on their way to the sink of a stream, and the items that are
Coming(s, kind) == {i \in DOMAIN wire : wire[i].f = "item" /\ wire[i].s = s /\ wire[i].item.k = kind}
Due(s) == {wire[i].item.n : i \in Coming(s, "out")}

\* Where the items of a stream begin: with the screen its reply names, or after the item it names
First(s) == IF flows[s].start = "snapshot" THEN flows[s].from ELSE flows[s].from + 1

\* What a device is sent of a stream is its reply, then the items from the place the reply
\* names on, none missing, none twice, in order, and nothing once the stream is over or given back.
Whole(s) ==
    LET t == told[s] IN
    t # <<>> =>
        /\ t[1] = <<"attached", flows[s].from>>
        /\ \A i, j \in Told(s, "out") : i < j => t[i][2] < t[j][2]
        /\ \A n \in Sent(s) : n >= First(s) /\ First(s) .. n \subseteq Sent(s)
        /\ \A i \in 1 .. Len(t) - 1 : t[i][1] \in {"over", "done"} => t[i + 1][1] = "done"

\* What was queued for the device, and what is on its way to it after that, is what the terminal
\* printed, each item once and in order, and who controls it
UpToDate(s) ==
    LET words == Told(s, "control")
        coming == Coming(s, "out") IN
    (told[s] # <<>> /\ s \in watchers /\ s \in viewers) =>
        /\ Sent(s) \cup Due(s) = First(s) .. seq
        /\ \A n \in Sent(s) : \A m \in Due(s) : n < m
        /\ \A i, j \in coming : i < j => wire[i].item.n < wire[j].item.n
        /\ (protocol >= ResumeProtocol /\ Coming(s, "control") = {}) =>
               \A i \in words : (\A j \in words : j <= i) => told[s][i][2] = Controller(control)

\* A device is sent each event of what it follows once, in order, from where it began.
ActivityWhole ==
    \A c \in Channels : batches[c] # <<>> =>
        LET from == Head(batches[c])
            sent == Tail(batches[c]) IN
        \E to \in from .. Len(log) :
            /\ following[c] # Nowhere => to = following[c]
            /\ \A i, j \in DOMAIN sent : i < j => sent[i] < sent[j]
            /\ {sent[i] : i \in DOMAIN sent} = {n \in from + 1 .. to : log[n] = "shown"}

\* Whatever was held back, refused, given up or passed over: what a device is sent of a
\* terminal and of the activity it follows has no gap and no repeat.
SentWhole == (\A s \in Streams : Whole(s) /\ UpToDate(s)) /\ ActivityWhole

\* A channel that is over has nothing attached at the daemon, and a lease in force has a channel
\* that knows it: but for what a request that was given up left behind.
Unowned(s) ==
    /\ s \in viewers /\ at[Of(s)] = "over" /\ s \notin unanswered.streams
    /\ \A i \in DOMAIN asked : asked[i].op # [o |-> "detach", s |-> s]

Known(ref) ==
    \/ \E c \in Threads : ref \in leases[c] \/ answer[c] = [r |-> "leased", ref |-> ref]
    \/ \E i \in DOMAIN wire : wire[i].f = "answer" /\ wire[i].a = [r |-> "leased", ref |-> ref]
    \/ \E i \in DOMAIN asked : asked[i].op = [o |-> "release", ref |-> ref]

NothingHeld ==
    /\ ~ \E s \in Streams : Unowned(s)
    /\ control.who \in Holders =>
           \/ Known([id |-> control.id, generation |-> control.generation])
           \/ \E c \in unanswered.acquires : DeviceOf[c] = control.who

\* A device whose grant is gone is soon on no channel.
RevokedEnds == \A c \in Channels : []<>(LetIn(c) \/ c \notin Threads)
=============================================================================
