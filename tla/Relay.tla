------------------------------- MODULE Relay -------------------------------
(***************************************************************************)
(* One instance of the relay (crates/server/src/relay.rs): it carries the  *)
(* traffic of a host's devices to the host and back, both connected out to *)
(* it.  With it, what the host makes of the frames of its link             *)
(* (crates/remote-host/src/lib.rs, serve).                                 *)
(*                                                                         *)
(* Modelled: one host, that connects again and again; the sockets of its   *)
(* devices; the hub, and the task that checks what the records say.  A     *)
(* socket is read and written by its own task, and nothing but the locks   *)
(* of the hub orders them.  Which instance a host is on is in Links.       *)
(***************************************************************************)
EXTENDS Naturals, Sequences, FiniteSets

CONSTANTS
    Links,      \* the times the host connects
    Sockets,    \* the sockets of devices, numbered as they ask, each with a grant of its own
    MaxConnections, \* bound: how many of those, links and sockets, there are in all
    MaxBack,    \* bound: frames in flight from the host
    MaxFailures \* bound: how often the records cannot be read

ASSUME RelayAssumption ==
    MaxConnections \in Nat /\ MaxBack \in Nat \ {0} /\ MaxFailures \in Nat /\ Links \subseteq Nat \ {0} /\ Sockets \subseteq Nat

NoLink == 0

VARIABLES
    granted,    \* the records: the sockets whose grant is in force
    enrolled,   \*              whether the host is
    current,    \* the hub: the link of the host
    link,       \* a host's link: where its task is, whether it closes, the number of the next channel
    queue,      \*                what waits to be sent to the host
    back,       \*                what the host sent
    joined,     \*                the sockets that have a channel of it
    sock,       \* a device's socket: where its task is, its link and channel, whether it closes
    serving,    \* the host: the channels of a link it answers, and whose they are
    check,      \* the task that checks: what it does, on which link, the sockets left
    dirty,      \* whether it was told to
    failures,
    crossed     \* history: whether a device was told what was meant for another

vars == <<granted, enrolled, current, link, queue, back, joined, sock, serving, check, dirty,
          failures, crossed>>
records == <<granted, enrolled>>
checking == <<check, dirty, failures>>

NewLink == [pc |-> "new", closing |-> FALSE, next |-> 1]
NewSocket == [pc |-> "new", link |-> NoLink, channel |-> 0, closing |-> FALSE]
OverSocket == [NewSocket EXCEPT !.pc = "over"]
Idle == [pc |-> "idle", link |-> NoLink, left |-> {}]

Init ==
    /\ granted = Sockets /\ enrolled = TRUE
    /\ current = NoLink
    /\ link = [l \in Links |-> NewLink]
    /\ queue = [l \in Links |-> <<>>] /\ back = [l \in Links |-> <<>>]
    /\ joined = [l \in Links |-> {}]
    /\ sock = [s \in Sockets |-> NewSocket]
    /\ serving = [l \in Links |-> {}]
    /\ check = Idle /\ dirty = FALSE /\ failures = 0
    /\ crossed = FALSE

\* bound: one more may connect
MayConnect ==
    Cardinality({l \in Links : link[l].pc # "new"}) + Cardinality({s \in Sockets : sock[s].pc # "new"})
        < MaxConnections

---------------------------------------------------------------------------
\* Outbox::push, of a frame for the host: unless the link closes or too much waits.  What devices
\* say fills the queue as well, so that there may be room for a frame or not; once the task of
\* the link is past reading it nobody does.
Fits(l, frame) ==
    /\ ~ link[l].closing
    /\ queue' = IF link[l].pc = "up" THEN [queue EXCEPT ![l] = Append(@, frame)] ELSE queue
Push(l, frame) == Fits(l, frame) \/ UNCHANGED queue
Frame(kind, s) == [kind |-> kind, channel |-> sock[s].channel, of |-> s]

\* Outbox::close; which of the reasons stands is left out
Closing(record) == [record EXCEPT !.closing = TRUE]
ClosingAll(ss) == [s \in Sockets |-> IF s \in ss THEN Closing(sock[s]) ELSE sock[s]]

\* close_all
CloseAll(l) ==
    /\ joined' = [joined EXCEPT ![l] = {}]
    /\ sock' = ClosingAll(joined[l])

\* (mutant) the device is let go of only when there was room to tell the host
CloseOnceTold(l, s) ==
    IF s \in joined[l]
    THEN /\ joined' = [joined EXCEPT ![l] = @ \ {s}]
         /\ \/ Fits(l, Frame("close", s)) /\ sock' = ClosingAll({s})
            \/ UNCHANGED <<sock, queue>>
    ELSE UNCHANGED <<joined, sock, queue>>

\* HostLink::close_channel
CloseChannel(l, s) ==
    IF s \in joined[l]
    THEN /\ joined' = [joined EXCEPT ![l] = @ \ {s}]
         /\ sock' = ClosingAll({s})
         /\ Push(l, Frame("close", s))
    ELSE UNCHANGED <<joined, sock, queue>>

---------------------------------------------------------------------------
\* A host's link: serve_socket.  Its ticket is spent and the check asked for; attach_host puts it
\* in place of any earlier link.
Attach(l) ==
    /\ MayConnect /\ link[l].pc = "new" /\ enrolled /\ \A k \in Links : k < l => link[k].pc # "new"
    /\ dirty' = TRUE
    /\ current' = l
    /\ IF current = NoLink
       THEN link' = [link EXCEPT ![l].pc = "up"] /\ UNCHANGED <<queue, joined, sock>>
       ELSE /\ CloseAll(current)
            /\ link' = [link EXCEPT ![l].pc = "up", ![current] = Closing(@)]
            /\ queue' = [queue EXCEPT ![current] = <<>>]
    /\ UNCHANGED <<records, back, serving, check, failures, crossed>>

\* pump: the host closes its socket, or says nothing for too long
LinkLost(l) ==
    /\ link[l].pc = "up" /\ ~ link[l].closing
    /\ link' = [link EXCEPT ![l] = Closing(@)]
    /\ queue' = [queue EXCEPT ![l] = <<>>]
    /\ UNCHANGED <<records, current, back, joined, sock, serving, checking, crossed>>

\* pump: what closes has closed, or a frame could not be written, and then nothing is closing;
\* detach_host
LinkEnds(l) ==
    /\ link[l].pc = "up"
    /\ link' = [link EXCEPT ![l].pc = "over"]
    /\ current' = IF current = l THEN NoLink ELSE current
    /\ CloseAll(l)
    /\ queue' = [queue EXCEPT ![l] = <<>>] /\ back' = [back EXCEPT ![l] = <<>>]
    /\ serving' = [serving EXCEPT ![l] = {}]
    /\ UNCHANGED <<records, checking, crossed>>

---------------------------------------------------------------------------
\* A device's socket.  ControlService::ticket: for a grant in force
Ticket(s) ==
    /\ MayConnect /\ sock[s].pc = "new" /\ s \in granted /\ enrolled
    /\ \A t \in Sockets : t < s => sock[t].pc # "new"
    /\ sock' = [sock EXCEPT ![s].pc = "ticket"]
    /\ UNCHANGED <<records, current, link, queue, back, joined, serving, checking, crossed>>

\* serve_socket: the ticket is spent, the check asked for and the host's link looked up,
Present(s) ==
    /\ sock[s].pc = "ticket"
    /\ dirty' = TRUE
    /\ sock' = [sock EXCEPT ![s] = IF current = NoLink THEN OverSocket
                                   ELSE [@ EXCEPT !.pc = "joining", !.link = current]]
    /\ UNCHANGED <<records, current, link, queue, back, joined, serving, check, failures, crossed>>

\* (mutant) the first number that no channel has
LowestFree(l) ==
    CHOOSE n \in 1 .. Cardinality(joined[l]) + 1 : \A s \in joined[l] : sock[s].channel # n

\* next_channel.fetch_add
Number(l) == link[l].next

\* its channel is put among those of the link,
Join(s) ==
    /\ sock[s].pc = "joining"
    /\ \E l \in {sock[s].link} :
          /\ sock' = [sock EXCEPT ![s].pc = "opening", ![s].channel = Number(l)]
          /\ link' = [link EXCEPT ![l].next = @ + 1]
          /\ joined' = [joined EXCEPT ![l] = @ \cup {s}]
    /\ UNCHANGED <<records, current, queue, back, serving, checking, crossed>>

\* and the host told of it.
OpenChannel(s) ==
    /\ sock[s].pc = "opening"
    /\ \/ /\ Fits(sock[s].link, Frame("open", s))
          /\ sock' = [sock EXCEPT ![s].pc = "up"]
       \/ /\ sock' = [sock EXCEPT ![s] = [Closing(@) EXCEPT !.pc = "up"]]
          /\ UNCHANGED queue
    /\ UNCHANGED <<records, current, link, back, joined, serving, checking, crossed>>

\* device_message, where there is no room; or the device closes its socket, or is silent
SocketLost(s) ==
    /\ sock[s].pc = "up" /\ ~ sock[s].closing
    /\ sock' = ClosingAll({s})
    /\ UNCHANGED <<records, current, link, queue, back, joined, serving, checking, crossed>>

\* pump: what closes has closed, or it could not be written to; its channel is taken away
Leave(s) ==
    /\ sock[s].pc = "up"
    /\ \E l \in {sock[s].link} :
          IF s \in joined[l]
          THEN joined' = [joined EXCEPT ![l] = @ \ {s}] /\ Push(l, Frame("close", s))
          ELSE UNCHANGED <<joined, queue>>
    /\ sock' = [sock EXCEPT ![s] = OverSocket]
    /\ UNCHANGED <<records, current, link, back, serving, checking, crossed>>

---------------------------------------------------------------------------
\* The host: crates/remote-host/src/lib.rs.

Served(l, c) == {visit \in serving[l] : visit.channel = c}

\* serve: a frame of the link; closing a channel it does not know says nothing to it
HostHears(l) ==
    /\ link[l].pc = "up" /\ queue[l] # <<>>
    /\ \E frame \in {Head(queue[l])} :
          serving' = [serving EXCEPT ![l] =
                         (@ \ Served(l, frame.channel)) \cup
                         {[channel |-> c, of |-> frame.of] :
                             c \in IF frame.kind = "open" THEN {frame.channel} ELSE {}}]
    /\ queue' = [queue EXCEPT ![l] = Tail(@)]
    /\ UNCHANGED <<records, current, link, back, joined, sock, checking, crossed>>

\* visit: something for the device, or its channel is closed, the device not being let in
HostSays(l) ==
    /\ link[l].pc = "up" /\ Len(back[l]) < MaxBack
    /\ \E visit \in serving[l], kind \in {"text", "close"} :
          /\ back' = [back EXCEPT ![l] = Append(@, [kind |-> kind, channel |-> visit.channel, of |-> visit.of])]
          /\ serving' = [serving EXCEPT ![l] = IF kind = "close" THEN @ \ {visit} ELSE @]
    /\ UNCHANGED <<records, current, link, queue, joined, sock, checking, crossed>>

\* host_message: for whoever has the channel, and dropped if nobody does
RelayHears(l) ==
    /\ link[l].pc = "up" /\ back[l] # <<>>
    /\ back' = [back EXCEPT ![l] = Tail(@)]
    /\ \E frame \in {Head(back[l])} : LET to == {s \in joined[l] : sock[s].channel = frame.channel} IN
       /\ crossed' = (crossed \/ \E s \in to : s # frame.of)
       /\ \/ /\ to = {} \/ frame.kind = "text"
             /\ UNCHANGED <<queue, joined, sock>>
          \/ \* the device is not keeping up
             /\ frame.kind = "text" /\ \E s \in to : CloseChannel(l, s)
          \/ /\ frame.kind = "close" /\ to # {}
             /\ joined' = [joined EXCEPT ![l] = @ \ to]
             /\ sock' = ClosingAll(to)
             /\ UNCHANGED queue
    /\ UNCHANGED <<records, current, link, serving, checking>>

---------------------------------------------------------------------------
\* The task that checks: start_rechecks, recheck.

\* A round comes every so often, whether anything was told or not.
Round ==
    /\ check.pc = "idle"
    /\ check' = [Idle EXCEPT !.pc = "look"]
    /\ UNCHANGED <<records, current, link, queue, back, joined, sock, serving, dirty, failures, crossed>>

HearDirty ==
    /\ check.pc = "idle" /\ dirty /\ dirty' = FALSE
    /\ check' = [Idle EXCEPT !.pc = "look"]
    /\ UNCHANGED <<records, current, link, queue, back, joined, sock, serving, failures, crossed>>

\* The link there is: it is closed if the host is not in force any more, or its sockets are
\* looked at.
Look ==
    /\ check.pc = "look"
    /\ check' = IF current = NoLink \/ ~ enrolled THEN Idle
                ELSE [pc |-> "check", link |-> current, left |-> joined[current]]
    /\ IF enrolled \/ current = NoLink THEN UNCHANGED <<link, queue, joined, sock>>
       ELSE /\ CloseAll(current)
            /\ link' = [link EXCEPT ![current] = Closing(@)]
            /\ queue' = [queue EXCEPT ![current] = <<>>]
    /\ UNCHANGED <<records, current, back, serving, dirty, failures, crossed>>

\* One of them: its grant is read, and it closed if that is not in force.
CheckOne ==
    /\ check.pc = "check"
    /\ \E s \in check.left :
          /\ check' = [check EXCEPT !.left = @ \ {s}]
          /\ IF s \in granted THEN UNCHANGED <<queue, joined, sock>>
             ELSE CloseChannel(check.link, s)
    /\ UNCHANGED <<records, current, link, back, serving, dirty, failures, crossed>>

Checked ==
    /\ check.pc = "check" /\ check.left = {}
    /\ check' = Idle
    /\ UNCHANGED <<records, current, link, queue, back, joined, sock, serving, dirty, failures, crossed>>

\* The records cannot be read: what is left waits for the next round.
CannotRead ==
    /\ check.pc # "idle" /\ failures < MaxFailures
    /\ failures' = failures + 1 /\ check' = Idle
    /\ UNCHANGED <<records, current, link, queue, back, joined, sock, serving, dirty, crossed>>

---------------------------------------------------------------------------
\* A grant, or the host, is revoked, maybe through another instance; then the signal of it may be
\* missed.  A grant that no socket uses any more is of no interest.
Revoke(s) ==
    /\ s \in granted /\ sock[s].pc \notin {"new", "over"} /\ granted' = granted \ {s}
    /\ dirty' \in {dirty, TRUE}
    /\ UNCHANGED <<enrolled, current, link, queue, back, joined, sock, serving, check, failures, crossed>>

RevokeHost ==
    /\ enrolled /\ enrolled' = FALSE
    /\ dirty' \in {dirty, TRUE}
    /\ UNCHANGED <<granted, current, link, queue, back, joined, sock, serving, check, failures, crossed>>

LinkSteps(l) ==
    \/ Attach(l) \/ LinkLost(l) \/ LinkEnds(l)
    \/ HostHears(l) \/ HostSays(l) \/ RelayHears(l)

SocketSteps(s) ==
    \/ Ticket(s) \/ Present(s) \/ Join(s) \/ OpenChannel(s) \/ SocketLost(s)
    \/ Leave(s) \/ Revoke(s)

Next ==
    \/ \E l \in Links : LinkSteps(l)
    \/ \E s \in Sockets : SocketSteps(s)
    \/ Round \/ HearDirty \/ Look \/ CheckOne \/ Checked \/ CannotRead \/ RevokeHost

Spec == Init /\ [][Next]_vars

\* Rounds come, and what one began is carried on.
FairSpec == Spec /\ WF_vars(Round) /\ WF_vars(Look \/ CheckOne \/ Checked)

(***************************************************************************)
(* Properties.                                                             *)
(***************************************************************************)

LinkRecords == [pc : {"new", "up", "over"}, closing : BOOLEAN, next : Nat]
SockRecords == [pc : {"new", "ticket", "joining", "opening", "up", "over"},
                link : Links \cup {NoLink}, channel : Nat, closing : BOOLEAN]
Frames == [kind : {"open", "close", "text"}, channel : Nat, of : Sockets]
Visits == [channel : Nat, of : Sockets]
Checks == [pc : {"idle", "look", "check"}, link : Links \cup {NoLink}, left : SUBSET Sockets]

TypeOK ==
    /\ granted \subseteq Sockets /\ enrolled \in BOOLEAN
    /\ current \in Links \cup {NoLink}
    /\ link \in [Links -> LinkRecords]
    /\ queue \in [Links -> Seq(Frames)] /\ back \in [Links -> Seq(Frames)]
    /\ joined \in [Links -> SUBSET Sockets]
    /\ sock \in [Sockets -> SockRecords]
    /\ serving \in [Links -> SUBSET Visits]
    /\ check \in Checks
    /\ dirty \in BOOLEAN /\ failures \in 0 .. MaxFailures /\ crossed \in BOOLEAN

\* A device is told only what the host said to it, even when the host says it to a channel that
\* closed meanwhile (relay.rs:680, host_message).
OnlyTheirs == ~ crossed

Reaches(s) ==
    /\ sock[s].pc = "up" /\ ~ sock[s].closing
    /\ link[sock[s].link].pc = "up" /\ ~ link[sock[s].link].closing

\* A device whose grant is revoked, or whose host is, does not reach the host for ever, though it
\* may join just after the check that its ticket or the revocation asked for, though the signal
\* may be missed and though the records may refuse a look (relay.rs:9-15).
RevokedOff == []<>(\A s \in Sockets : Reaches(s) => s \in granted /\ enrolled)
=============================================================================
