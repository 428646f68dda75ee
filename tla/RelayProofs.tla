---------------------------- MODULE RelayProofs ----------------------------
(***************************************************************************)
(* Proofs about the relay server: of Relay, for any number of links,       *)
(* sockets and frames, that a device is told only what the host said to    *)
(* it; and of Links, for any number of instances, connects and crashes,    *)
(* that what an instance holds is what its links believe, and that a check *)
(* never closes the link that was noted last.                              *)
(***************************************************************************)
EXTENDS Relay, Links, SequenceTheorems, TLAPS

Active(s) == sock[s].pc \in {"opening", "up"}
Has(s, l, c) == Active(s) /\ sock[s].link = l /\ sock[s].channel = c

\* The sockets that have or had a channel: each another of its link, given out before.
ChannelsInv ==
    /\ \A s \in Sockets : Active(s) =>
          sock[s].link \in Links /\ sock[s].channel < link[sock[s].link].next
    /\ \A s \in Sockets : sock[s].pc = "joining" => sock[s].link \in Links
    /\ \A s, t \in Sockets :
          Active(s) /\ Has(t, sock[s].link, sock[s].channel) => s = t
    /\ \A l \in Links : \A s \in joined[l] : Active(s) /\ sock[s].link = l
    /\ check.pc = "check" => check.link \in Links

\* A channel that was given out, and belongs to that socket if to any.
Known(l, c, of) == c < link[l].next /\ \A s \in Sockets : Has(s, l, c) => s = of

\* What goes to and fro, and what the host answers, names channels with their owners.
FramesInv ==
    \A l \in Links :
        /\ \A visit \in serving[l] : Known(l, visit.channel, visit.of)
        /\ \A n \in 1 .. Len(queue[l]) : Known(l, queue[l][n].channel, queue[l][n].of)
        /\ \A n \in 1 .. Len(back[l]) : Known(l, back[l][n].channel, back[l][n].of)

IInv == TypeOK /\ ChannelsInv /\ FramesInv /\ OnlyTheirs

LEMMA NoLinkIsNone == NoLink \notin Links
  BY RelayAssumption DEF NoLink

\* Closing a record changes nothing else of it (relay.rs: Outbox::close).
LEMMA ClosingSock ==
    ASSUME NEW r \in SockRecords
    PROVE  /\ Closing(r) \in SockRecords
           /\ Closing(r).pc = r.pc /\ Closing(r).link = r.link /\ Closing(r).channel = r.channel
  BY DEF Closing, SockRecords

LEMMA ClosingLink ==
    ASSUME NEW r \in LinkRecords
    PROVE  Closing(r) \in LinkRecords /\ Closing(r).next = r.next
  BY DEF Closing, LinkRecords

\* Closing some sockets leaves each as it was otherwise (relay.rs: close_all, close_channel).
LEMMA ClosingSome ==
    ASSUME TypeOK, NEW ss, sock' = ClosingAll(ss)
    PROVE  /\ sock' \in [Sockets -> SockRecords]
           /\ \A s \in Sockets : sock'[s].pc = sock[s].pc /\ sock'[s].link = sock[s].link
                                 /\ sock'[s].channel = sock[s].channel
  BY ClosingSock DEF TypeOK, ClosingAll

\* A frame that is pushed is the only one that comes in (relay.rs: Outbox::push).
LEMMA Pushed ==
    ASSUME TypeOK, NEW l \in Links, NEW frame \in Frames, Push(l, frame)
    PROVE  /\ queue' \in [Links -> Seq(Frames)]
           /\ \A k \in Links : \A n \in 1 .. Len(queue'[k]) :
                 \/ n \in 1 .. Len(queue[k]) /\ queue'[k][n] = queue[k][n]
                 \/ k = l /\ queue'[k][n] = frame
<1>1. CASE queue' = queue
  BY <1>1 DEF TypeOK
<1>2. CASE queue' = [queue EXCEPT ![l] = Append(@, frame)]
  <2>1. queue[l] \in Seq(Frames) /\ Append(queue[l], frame) \in Seq(Frames)
    BY DEF TypeOK
  <2>2. /\ Len(Append(queue[l], frame)) = Len(queue[l]) + 1
        /\ \A n \in 1 .. Len(queue[l]) + 1 :
              Append(queue[l], frame)[n] = IF n <= Len(queue[l]) THEN queue[l][n] ELSE frame
    BY <2>1, AppendProperties
  <2>. QED BY <1>2, <2>1, <2>2, LenProperties DEF TypeOK
<1>. QED BY <1>1, <1>2 DEF Push, Fits

---------------------------------------------------------------------------
\* Types: every step keeps them.

LEMMA PushTyped ==
    ASSUME TypeOK, NEW l \in Links, NEW kind \in {"open", "close"}, NEW s \in Sockets,
           Push(l, Frame(kind, s))
    PROVE  queue' \in [Links -> Seq(Frames)]
<1>1. sock[s].channel \in Nat
  BY DEF TypeOK, SockRecords
<1>2. Frame(kind, s) \in Frames
  BY <1>1 DEF Frame, Frames
<1>. QED BY <1>2, Pushed

LEMMA CloseChannelTyped ==
    ASSUME TypeOK, NEW l \in Links, NEW s \in Sockets, CloseChannel(l, s)
    PROVE  /\ joined' \in [Links -> SUBSET Sockets]
           /\ sock' \in [Sockets -> SockRecords]
           /\ queue' \in [Links -> Seq(Frames)]
<1>1. CASE s \in joined[l]
  <2>1. joined' = [joined EXCEPT ![l] = @ \ {s}] /\ sock' = ClosingAll({s}) /\ Push(l, Frame("close", s))
    BY <1>1 DEF CloseChannel
  <2>2. queue' \in [Links -> Seq(Frames)]
    BY <2>1, PushTyped
  <2>3. sock' \in [Sockets -> SockRecords]
    BY <2>1, ClosingSome
  <2>. QED BY <2>1, <2>2, <2>3 DEF TypeOK
<1>2. CASE s \notin joined[l]
  BY <1>2 DEF CloseChannel, TypeOK
<1>. QED BY <1>1, <1>2

LEMMA CloseAllTyped ==
    ASSUME TypeOK, NEW l \in Links, CloseAll(l)
    PROVE  joined' \in [Links -> SUBSET Sockets] /\ sock' \in [Sockets -> SockRecords]
<1>1. joined' = [joined EXCEPT ![l] = {}] /\ sock' = ClosingAll(joined[l])
  BY DEF CloseAll
<1>2. sock' \in [Sockets -> SockRecords]
  BY <1>1, ClosingSome
<1>. QED BY <1>1, <1>2 DEF TypeOK

LEMMA NoFramesTyped == ASSUME TypeOK, NEW l \in Links
                       PROVE  /\ [queue EXCEPT ![l] = <<>>] \in [Links -> Seq(Frames)]
                              /\ [back EXCEPT ![l] = <<>>] \in [Links -> Seq(Frames)]
  BY DEF TypeOK

LEMMA TailTyped ==
    ASSUME NEW q \in Seq(Frames), q # <<>>
    PROVE  /\ Head(q) \in Frames /\ Head(q) = q[1] /\ 1 \in 1 .. Len(q)
           /\ Tail(q) \in Seq(Frames)
           /\ \A n \in 1 .. Len(Tail(q)) : n + 1 \in 1 .. Len(q) /\ Tail(q)[n] = q[n + 1]
  BY HeadTailProperties, LenProperties, EmptySeq, ElementOfSeq

\* A link's record after its task moved on (relay.rs: serve_socket).
LEMMA MovedLink ==
    ASSUME NEW r \in LinkRecords, NEW to \in {"up", "over"}
    PROVE  [r EXCEPT !.pc = to] \in LinkRecords /\ [r EXCEPT !.pc = to].next = r.next
  BY DEF LinkRecords

LEMMA CountedLink ==
    ASSUME NEW r \in LinkRecords
    PROVE  [r EXCEPT !.next = @ + 1] \in LinkRecords /\ [r EXCEPT !.next = @ + 1].next = r.next + 1
  BY DEF LinkRecords

LEMMA LinkStepTyped == ASSUME TypeOK, NEW l \in Links, LinkSteps(l) PROVE TypeOK'
<1>. USE DEF TypeOK
<1>1. CASE Attach(l)
  <2>0. link[l] \in LinkRecords /\ [link[l] EXCEPT !.pc = "up"] \in LinkRecords
    BY MovedLink
  <2>1. CASE current = NoLink
    <3>1. /\ link' = [link EXCEPT ![l].pc = "up"] /\ current' = l /\ dirty' = TRUE
          /\ UNCHANGED <<granted, enrolled, queue, back, joined, sock, serving, check, failures, crossed>>
      BY <1>1, <2>1 DEF Attach, records
    <3>. QED BY <2>0, <3>1
  <2>2. CASE current # NoLink
    <3>1. current \in Links /\ link[current] \in LinkRecords
      BY <2>2
    <3>2. /\ link' = [link EXCEPT ![l].pc = "up", ![current] = Closing(@)] /\ current' = l /\ dirty' = TRUE
          /\ queue' = [queue EXCEPT ![current] = <<>>] /\ CloseAll(current)
          /\ UNCHANGED <<granted, enrolled, back, serving, check, failures, crossed>>
      BY <1>1, <2>2 DEF Attach, records
    <3>3. Closing(link[current]) \in LinkRecords /\ Closing([link[l] EXCEPT !.pc = "up"]) \in LinkRecords
      BY <2>0, <3>1, ClosingLink
    <3>4. link' \in [Links -> LinkRecords]
      BY <2>0, <3>1, <3>2, <3>3
    <3>5. joined' \in [Links -> SUBSET Sockets] /\ sock' \in [Sockets -> SockRecords]
      BY <3>1, <3>2, CloseAllTyped
    <3>6. queue' \in [Links -> Seq(Frames)]
      BY <3>1, <3>2, NoFramesTyped
    <3>. QED BY <3>2, <3>4, <3>5, <3>6
  <2>. QED BY <2>1, <2>2
<1>2. CASE LinkLost(l)
  <2>1. Closing(link[l]) \in LinkRecords
    BY ClosingLink
  <2>2. [queue EXCEPT ![l] = <<>>] \in [Links -> Seq(Frames)]
    BY NoFramesTyped
  <2>. QED BY <1>2, <2>1, <2>2 DEF LinkLost, records, checking
<1>3. CASE LinkEnds(l)
  <2>1. joined' \in [Links -> SUBSET Sockets] /\ sock' \in [Sockets -> SockRecords]
    BY <1>3, CloseAllTyped DEF LinkEnds
  <2>2. queue' \in [Links -> Seq(Frames)] /\ back' \in [Links -> Seq(Frames)]
    BY <1>3, NoFramesTyped DEF LinkEnds
  <2>3. link' \in [Links -> LinkRecords]
    BY <1>3, MovedLink DEF LinkEnds
  <2>4. serving' \in [Links -> SUBSET Visits] /\ current' \in Links \cup {NoLink}
    BY <1>3 DEF LinkEnds
  <2>5. UNCHANGED <<granted, enrolled, check, dirty, failures, crossed>>
    BY <1>3 DEF LinkEnds, records, checking
  <2>. QED BY <2>1, <2>2, <2>3, <2>4, <2>5
<1>4. CASE HostHears(l)
  <2>1. queue[l] \in Seq(Frames) /\ queue[l] # <<>>
    BY <1>4 DEF HostHears
  <2>2. PICK frame \in {Head(queue[l])} :
          serving' = [serving EXCEPT ![l] =
                         (@ \ Served(l, frame.channel)) \cup
                         {[channel |-> c, of |-> frame.of] :
                             c \in IF frame.kind = "open" THEN {frame.channel} ELSE {}}]
    BY <1>4 DEF HostHears
  <2>3. frame \in Frames
    BY <2>1, <2>2, TailTyped
  <2>4. serving' \in [Links -> SUBSET Visits]
    BY <2>2, <2>3 DEF Frames, Visits, Served
  <2>5. queue' \in [Links -> Seq(Frames)]
    BY <1>4, <2>1, TailTyped DEF HostHears
  <2>. QED BY <1>4, <2>4, <2>5 DEF HostHears, records, checking
<1>5. CASE HostSays(l)
  <2>1. PICK visit \in serving[l], kind \in {"text", "close"} :
          /\ back' = [back EXCEPT ![l] = Append(@, [kind |-> kind, channel |-> visit.channel, of |-> visit.of])]
          /\ serving' = [serving EXCEPT ![l] = IF kind = "close" THEN @ \ {visit} ELSE @]
    BY <1>5 DEF HostSays
  <2>2. [kind |-> kind, channel |-> visit.channel, of |-> visit.of] \in Frames
    BY <2>1 DEF Frames, Visits
  <2>3. back' \in [Links -> Seq(Frames)]
    BY <2>1, <2>2
  <2>4. serving' \in [Links -> SUBSET Visits]
    BY <2>1
  <2>. QED BY <1>5, <2>3, <2>4 DEF HostSays, records, checking
<1>6. CASE RelayHears(l)
  <2>1. back[l] \in Seq(Frames) /\ back[l] # <<>> /\ back' = [back EXCEPT ![l] = Tail(@)]
    BY <1>6 DEF RelayHears
  <2>2. back' \in [Links -> Seq(Frames)]
    BY <2>1, TailTyped
  <2>3. /\ joined' \in [Links -> SUBSET Sockets]
        /\ sock' \in [Sockets -> SockRecords]
        /\ queue' \in [Links -> Seq(Frames)]
        /\ crossed' \in BOOLEAN
    <3>1. PICK frame \in {Head(back[l])} :
            LET to == {s \in joined[l] : sock[s].channel = frame.channel} IN
            /\ crossed' = (crossed \/ \E s \in to : s # frame.of)
            /\ \/ UNCHANGED <<queue, joined, sock>>
               \/ \E s \in to : CloseChannel(l, s)
               \/ /\ joined' = [joined EXCEPT ![l] = @ \ to]
                  /\ sock' = ClosingAll(to)
                  /\ UNCHANGED queue
      BY <1>6 DEF RelayHears
    <3>. DEFINE to == {s \in joined[l] : sock[s].channel = frame.channel}
    <3>2. to \subseteq Sockets /\ crossed' \in BOOLEAN
      BY <3>1
    <3>3. CASE UNCHANGED <<queue, joined, sock>>
      BY <3>2, <3>3
    <3>4. CASE \E s \in to : CloseChannel(l, s)
      BY <3>2, <3>4, CloseChannelTyped
    <3>5. CASE joined' = [joined EXCEPT ![l] = @ \ to] /\ sock' = ClosingAll(to) /\ UNCHANGED queue
      <4>1. sock' \in [Sockets -> SockRecords]
        BY <3>5, ClosingSome
      <4>. QED BY <3>2, <3>5, <4>1
    <3>. QED BY <3>1, <3>3, <3>4, <3>5
  <2>. QED BY <1>6, <2>2, <2>3 DEF RelayHears, records, checking
<1>. QED BY <1>1, <1>2, <1>3, <1>4, <1>5, <1>6 DEF LinkSteps

LEMMA SocketStepTyped ==
    ASSUME TypeOK, ChannelsInv, NEW s \in Sockets, SocketSteps(s)
    PROVE  TypeOK'
<1>. USE DEF TypeOK
<1>0. sock[s] \in SockRecords
  OBVIOUS
<1>1. CASE Ticket(s)
  <2>1. [sock[s] EXCEPT !.pc = "ticket"] \in SockRecords
    BY <1>0 DEF SockRecords
  <2>. QED BY <1>1, <2>1 DEF Ticket, records, checking
<1>2. CASE Present(s)
  <2>1. OverSocket \in SockRecords
    BY DEF OverSocket, NewSocket, SockRecords
  <2>2. [sock[s] EXCEPT !.pc = "joining", !.link = current] \in SockRecords
    BY <1>0 DEF SockRecords
  <2>3. sock' \in [Sockets -> SockRecords]
    BY <1>2, <2>1, <2>2 DEF Present
  <2>. QED BY <1>2, <2>3 DEF Present, records
<1>3. CASE Join(s)
  <2>. DEFINE l == sock[s].link
  <2>1. /\ sock' = [sock EXCEPT ![s].pc = "opening", ![s].channel = Number(l)]
        /\ link' = [link EXCEPT ![l].next = @ + 1]
        /\ joined' = [joined EXCEPT ![l] = @ \cup {s}]
        /\ l \in Links
    BY <1>3 DEF Join, ChannelsInv
  <2>2. link[l] \in LinkRecords /\ link[l].next \in Nat
    BY <2>1 DEF LinkRecords
  <2>3. [link[l] EXCEPT !.next = @ + 1] \in LinkRecords
    BY <2>2, CountedLink
  <2>4. [sock[s] EXCEPT !.pc = "opening", !.channel = link[l].next] \in SockRecords
    BY <1>0, <2>2 DEF SockRecords
  <2>. HIDE DEF l
  <2>5. sock' \in [Sockets -> SockRecords] /\ link' \in [Links -> LinkRecords]
    BY <2>1, <2>3, <2>4 DEF Number
  <2>. QED BY <1>3, <2>1, <2>5 DEF Join, records, checking
<1>4. CASE OpenChannel(s)
  <2>1. sock[s].link \in Links
    BY <1>4 DEF OpenChannel, ChannelsInv, Active
  <2>2. Push(sock[s].link, Frame("open", s))
    BY <1>4 DEF OpenChannel, Push
  <2>5. queue' \in [Links -> Seq(Frames)]
    BY <2>1, <2>2, PushTyped
  <2>3. /\ [sock[s] EXCEPT !.pc = "up"] \in SockRecords
        /\ [Closing(sock[s]) EXCEPT !.pc = "up"] \in SockRecords
    BY <1>0 DEF SockRecords, Closing
  <2>4. sock' \in [Sockets -> SockRecords]
    BY <1>4, <2>3 DEF OpenChannel
  <2>. QED BY <1>4, <2>4, <2>5 DEF OpenChannel, records, checking
<1>5. CASE SocketLost(s)
  <2>1. sock' \in [Sockets -> SockRecords]
    BY <1>5, ClosingSome DEF SocketLost
  <2>. QED BY <1>5, <2>1 DEF SocketLost, records, checking
<1>6. CASE Leave(s)
  <2>1. sock[s].link \in Links
    BY <1>6 DEF Leave, ChannelsInv, Active
  <2>. DEFINE l == sock[s].link
  <2>2. \/ /\ joined' = [joined EXCEPT ![l] = @ \ {s}]
           /\ Push(l, Frame("close", s))
        \/ UNCHANGED <<joined, queue>>
    BY <1>6 DEF Leave
  <2>. HIDE DEF l
  <2>3. queue' \in [Links -> Seq(Frames)] /\ joined' \in [Links -> SUBSET Sockets]
    <3>1. l \in Links
      BY <2>1 DEF l
    <3>2. CASE UNCHANGED <<joined, queue>>
      BY <3>2
    <3>3. CASE joined' = [joined EXCEPT ![l] = @ \ {s}] /\ Push(l, Frame("close", s))
      BY <3>1, <3>3, PushTyped
    <3>. QED BY <2>2, <3>2, <3>3
  <2>4. sock' \in [Sockets -> SockRecords]
    BY <1>6 DEF Leave, OverSocket, NewSocket, SockRecords
  <2>. QED BY <1>6, <2>3, <2>4 DEF Leave, records, checking
<1>7. CASE Revoke(s)
  BY <1>7 DEF Revoke
<1>. QED BY <1>1, <1>2, <1>3, <1>4, <1>5, <1>6, <1>7 DEF SocketSteps

CheckSteps == Round \/ HearDirty \/ Look \/ CheckOne \/ Checked \/ CannotRead

LEMMA CheckStepTyped == ASSUME TypeOK, ChannelsInv, CheckSteps PROVE TypeOK'
<1>. USE DEF TypeOK
<1>1. Idle \in Checks /\ [Idle EXCEPT !.pc = "look"] \in Checks
  BY DEF Idle, Checks, NoLink
<1>2. CASE Round \/ HearDirty \/ Checked \/ CannotRead
  <2>1. check' \in Checks
    <3>1. check' = Idle \/ check' = [Idle EXCEPT !.pc = "look"]
      BY <1>2 DEF Round, HearDirty, Checked, CannotRead
    <3>. QED BY <1>1, <3>1, Zenon
  <2>3. dirty' = dirty \/ dirty' = FALSE
    BY <1>2 DEF Round, HearDirty, Checked, CannotRead, Idle
  <2>4. failures' \in 0 .. MaxFailures
    <3>1. MaxFailures \in Nat
      BY RelayAssumption
    <3>2. failures' = failures \/ (failures < MaxFailures /\ failures' = failures + 1)
      BY <1>2 DEF Round, HearDirty, Checked, CannotRead, Idle
    <3>3. failures \in 0 .. MaxFailures
      OBVIOUS
    <3>. QED BY <3>1, <3>2, <3>3
  <2>2. UNCHANGED <<granted, enrolled, current, link, queue, back, joined, sock, serving, crossed>>
    BY <1>2 DEF Round, HearDirty, Checked, CannotRead, records
  <2>. QED BY <2>1, <2>2, <2>3, <2>4
<1>3. CASE Look
  <2>1. check' \in Checks
    <3>1. CASE current = NoLink \/ ~ enrolled
      BY <1>1, <1>3, <3>1 DEF Look
    <3>2. CASE current # NoLink /\ enrolled
      BY <1>3, <3>2 DEF Look, Checks
    <3>. QED BY <3>1, <3>2
  <2>2. CASE enrolled \/ current = NoLink
    BY <1>3, <2>1, <2>2 DEF Look, records
  <2>3. CASE ~ enrolled /\ current # NoLink
    <3>1. /\ CloseAll(current) /\ link' = [link EXCEPT ![current] = Closing(@)]
          /\ queue' = [queue EXCEPT ![current] = <<>>]
          /\ UNCHANGED <<granted, enrolled, current, back, serving, dirty, failures, crossed>>
      BY <1>3, <2>3 DEF Look, records
    <3>2. current \in Links /\ Closing(link[current]) \in LinkRecords
      BY <2>3, ClosingLink
    <3>3. joined' \in [Links -> SUBSET Sockets] /\ sock' \in [Sockets -> SockRecords]
      BY <3>1, <3>2, CloseAllTyped
    <3>4. queue' \in [Links -> Seq(Frames)]
      BY <3>1, <3>2, NoFramesTyped
    <3>. QED BY <2>1, <3>1, <3>2, <3>3, <3>4
  <2>. QED BY <2>2, <2>3
<1>4. CASE CheckOne
  <2>1. PICK s \in check.left :
          /\ check' = [check EXCEPT !.left = @ \ {s}]
          /\ UNCHANGED <<queue, joined, sock>> \/ CloseChannel(check.link, s)
    BY <1>4 DEF CheckOne
  <2>2. check.link \in Links /\ s \in Sockets /\ check' \in Checks
    BY <1>4, <2>1 DEF CheckOne, ChannelsInv, Checks
  <2>3. /\ joined' \in [Links -> SUBSET Sockets]
        /\ sock' \in [Sockets -> SockRecords]
        /\ queue' \in [Links -> Seq(Frames)]
    <3>1. CASE CloseChannel(check.link, s)
      BY <2>2, <3>1, CloseChannelTyped
    <3>2. CASE UNCHANGED <<queue, joined, sock>>
      BY <3>2
    <3>. QED BY <2>1, <3>1, <3>2
  <2>. QED BY <1>4, <2>2, <2>3 DEF CheckOne, records
<1>. QED BY <1>2, <1>3, <1>4 DEF CheckSteps

---------------------------------------------------------------------------
\* Channels: Join alone gives one out, and a number the link never gave before
\* (relay.rs: next_channel.fetch_add).  Every other step keeps what there is.

Keeps ==
    /\ \A s \in Sockets : Active(s)' =>
          Active(s) /\ sock'[s].link = sock[s].link /\ sock'[s].channel = sock[s].channel
    /\ \A s \in Sockets : sock'[s].pc = "joining" => sock'[s].link \in Links
    /\ \A l \in Links : link'[l].next = link[l].next
    /\ \A l \in Links : \A s \in joined'[l] : s \in joined[l] /\ Active(s)'

CheckedLink == check'.pc = "check" => check'.link \in Links

\* The sockets and the numbers stay as they are; some of the channels may go.
Quiet ==
    /\ \A s \in Sockets : /\ sock'[s].pc = sock[s].pc /\ sock'[s].link = sock[s].link
                          /\ sock'[s].channel = sock[s].channel
    /\ \A l \in Links : joined'[l] \subseteq joined[l] /\ link'[l].next = link[l].next

LEMMA QuietKeeps == ASSUME TypeOK, ChannelsInv, Quiet PROVE Keeps
<1>1. \A s \in Sockets : Active(s)' => Active(s)
  BY DEF Quiet, Active
<1>2. \A l \in Links : \A s \in joined[l] : s \in Sockets /\ Active(s)
  BY DEF ChannelsInv, TypeOK
<1>3. \A s \in Sockets : Active(s) => Active(s)'
  BY DEF Quiet, Active
<1>. QED BY <1>1, <1>2, <1>3 DEF Quiet, Keeps, ChannelsInv

LEMMA CloseChannelQuiet ==
    ASSUME TypeOK, NEW l \in Links, NEW s \in Sockets, CloseChannel(l, s), UNCHANGED link
    PROVE  Quiet
<1>1. CASE s \in joined[l]
  <2>1. joined' = [joined EXCEPT ![l] = @ \ {s}] /\ sock' = ClosingAll({s})
    BY <1>1 DEF CloseChannel
  <2>. QED BY <2>1, ClosingSome DEF Quiet, TypeOK
<1>2. CASE s \notin joined[l]
  BY <1>2 DEF CloseChannel, Quiet
<1>. QED BY <1>1, <1>2

LEMMA CloseAllQuiet ==
    ASSUME TypeOK, NEW l \in Links, CloseAll(l), \A k \in Links : link'[k].next = link[k].next
    PROVE  Quiet
<1>1. joined' = [joined EXCEPT ![l] = {}] /\ sock' = ClosingAll(joined[l])
  BY DEF CloseAll
<1>. QED BY <1>1, ClosingSome DEF Quiet, TypeOK

LEMMA LinkStepQuiet == ASSUME TypeOK, NEW l \in Links, LinkSteps(l) PROVE Quiet
<1>0. link \in [Links -> LinkRecords] /\ link[l] \in LinkRecords
  BY DEF TypeOK
<1>1. CASE Attach(l)
  <2>0. /\ [link[l] EXCEPT !.pc = "up"] \in LinkRecords
        /\ [link[l] EXCEPT !.pc = "up"].next = link[l].next
    BY <1>0, MovedLink
  <2>1. CASE current = NoLink
    BY <1>0, <1>1, <2>0, <2>1 DEF Attach, Quiet
  <2>2. CASE current # NoLink
    <3>1. current \in Links /\ link[current] \in LinkRecords
      BY <1>0, <2>2 DEF TypeOK
    <3>2. link' = [link EXCEPT ![l].pc = "up", ![current] = Closing(@)] /\ CloseAll(current)
      BY <1>1, <2>2 DEF Attach
    <3>3. /\ Closing(link[current]).next = link[current].next
          /\ Closing([link[l] EXCEPT !.pc = "up"]).next = link[l].next
      BY <2>0, <3>1, ClosingLink
    <3>4. \A k \in Links : link'[k].next = link[k].next
      BY <1>0, <2>0, <3>1, <3>2, <3>3
    <3>. QED BY <3>1, <3>2, <3>4, CloseAllQuiet
  <2>. QED BY <2>1, <2>2
<1>2. CASE LinkLost(l)
  BY <1>0, <1>2, ClosingLink DEF LinkLost, Quiet
<1>3. CASE LinkEnds(l)
  <2>1. CloseAll(l) /\ link' = [link EXCEPT ![l].pc = "over"]
    BY <1>3 DEF LinkEnds
  <2>2. \A k \in Links : link'[k].next = link[k].next
    BY <1>0, <2>1, MovedLink
  <2>. QED BY <2>1, <2>2, CloseAllQuiet
<1>4. CASE HostHears(l)
  BY <1>4 DEF HostHears, Quiet
<1>5. CASE HostSays(l)
  BY <1>5 DEF HostSays, Quiet
<1>6. CASE RelayHears(l)
  <2>1. PICK frame \in {Head(back[l])} :
          LET to == {s \in joined[l] : sock[s].channel = frame.channel} IN
          \/ UNCHANGED <<queue, joined, sock>>
          \/ \E s \in to : CloseChannel(l, s)
          \/ /\ joined' = [joined EXCEPT ![l] = @ \ to]
             /\ sock' = ClosingAll(to)
    BY <1>6 DEF RelayHears
  <2>. DEFINE to == {s \in joined[l] : sock[s].channel = frame.channel}
  <2>2. UNCHANGED link /\ to \subseteq Sockets
    BY <1>6 DEF RelayHears, TypeOK
  <2>3. CASE UNCHANGED <<queue, joined, sock>>
    BY <2>2, <2>3 DEF Quiet
  <2>4. CASE \E s \in to : CloseChannel(l, s)
    BY <2>2, <2>4, CloseChannelQuiet
  <2>5. CASE joined' = [joined EXCEPT ![l] = @ \ to] /\ sock' = ClosingAll(to)
    BY <2>2, <2>5, ClosingSome DEF Quiet, TypeOK
  <2>. QED BY <2>1, <2>3, <2>4, <2>5
<1>. QED BY <1>1, <1>2, <1>3, <1>4, <1>5, <1>6 DEF LinkSteps

LEMMA CheckStepQuiet == ASSUME TypeOK, ChannelsInv, CheckSteps PROVE Quiet /\ CheckedLink
<1>1. CASE Round \/ HearDirty \/ Checked \/ CannotRead
  <2>1. UNCHANGED <<sock, joined, link>>
    BY <1>1 DEF Round, HearDirty, Checked, CannotRead
  <2>2. check' = Idle \/ check' = [Idle EXCEPT !.pc = "look"]
    BY <1>1 DEF Round, HearDirty, Checked, CannotRead
  <2>3. Idle.pc # "check" /\ [Idle EXCEPT !.pc = "look"].pc # "check"
    BY DEF Idle
  <2>4. check'.pc # "check"
    BY <2>2, <2>3, Zenon
  <2>. QED BY <2>1, <2>4 DEF Quiet, CheckedLink
<1>2. CASE Look
  <2>1. CheckedLink
    <3>1. CASE current = NoLink \/ ~ enrolled
      BY <1>2, <3>1 DEF Look, CheckedLink, Idle
    <3>2. CASE current # NoLink /\ enrolled
      <4>1. check' = [pc |-> "check", link |-> current, left |-> joined[current]] /\ current \in Links
        BY <1>2, <3>2 DEF Look, TypeOK
      <4>. QED BY <4>1 DEF CheckedLink
    <3>. QED BY <3>1, <3>2
  <2>2. CASE enrolled \/ current = NoLink
    BY <1>2, <2>1, <2>2 DEF Look, Quiet
  <2>3. CASE ~ enrolled /\ current # NoLink
    <3>1. CloseAll(current) /\ link' = [link EXCEPT ![current] = Closing(@)] /\ current \in Links
      BY <1>2, <2>3 DEF Look, TypeOK
    <3>2. \A k \in Links : link'[k].next = link[k].next
      BY <3>1, ClosingLink DEF TypeOK
    <3>. QED BY <2>1, <3>1, <3>2, CloseAllQuiet
  <2>. QED BY <2>2, <2>3
<1>3. CASE CheckOne
  <2>1. PICK s \in check.left :
          /\ check' = [check EXCEPT !.left = @ \ {s}]
          /\ UNCHANGED <<queue, joined, sock>> \/ CloseChannel(check.link, s)
    BY <1>3 DEF CheckOne
  <2>2. check.pc = "check" /\ check.link \in Links /\ s \in Sockets /\ UNCHANGED link
    BY <1>3, <2>1 DEF CheckOne, ChannelsInv, Checks, TypeOK
  <2>3. check'.link = check.link
    BY <2>1 DEF TypeOK, Checks
  <2>4. CASE CloseChannel(check.link, s)
    BY <2>2, <2>3, <2>4, CloseChannelQuiet DEF CheckedLink
  <2>5. CASE UNCHANGED <<queue, joined, sock>>
    BY <2>2, <2>3, <2>5 DEF CheckedLink, Quiet
  <2>. QED BY <2>1, <2>4, <2>5
<1>. QED BY <1>1, <1>2, <1>3 DEF CheckSteps

LEMMA SocketStepKeeps ==
    ASSUME TypeOK, ChannelsInv, NEW s \in Sockets, SocketSteps(s), ~ Join(s)
    PROVE  Keeps
<1>0. sock \in [Sockets -> SockRecords] /\ sock[s] \in SockRecords
  BY DEF TypeOK
<1>1. \A l \in Links : \A t \in joined[l] : t \in Sockets /\ Active(t) /\ sock[t].link = l
  BY DEF ChannelsInv, TypeOK
<1>2. CASE Ticket(s)
  <2>1. sock' = [sock EXCEPT ![s] = [@ EXCEPT !.pc = "ticket"]] /\ UNCHANGED <<link, joined>>
    BY <1>2 DEF Ticket
  <2>2. sock[s].pc = "new" /\ [sock[s] EXCEPT !.pc = "ticket"].pc = "ticket"
    BY <1>0, <1>2 DEF Ticket, SockRecords
  <2>. QED BY <1>0, <1>1, <2>1, <2>2 DEF Keeps, Active, ChannelsInv
<1>3. CASE Present(s)
  <2>1. sock[s].pc = "ticket" /\ UNCHANGED <<link, joined>>
    BY <1>3 DEF Present
  <2>2. \/ sock' = [sock EXCEPT ![s] = OverSocket]
        \/ /\ sock' = [sock EXCEPT ![s] = [@ EXCEPT !.pc = "joining", !.link = current]]
           /\ current \in Links
    BY <1>3 DEF Present, TypeOK
  <2>3. OverSocket.pc = "over"
    BY DEF OverSocket, NewSocket
  <2>4. /\ [sock[s] EXCEPT !.pc = "joining", !.link = current].pc = "joining"
        /\ [sock[s] EXCEPT !.pc = "joining", !.link = current].link = current
    BY <1>0 DEF SockRecords
  <2>5. /\ \/ sock'[s].pc = "over"
           \/ sock'[s].pc = "joining" /\ sock'[s].link = current /\ current \in Links
        /\ \A t \in Sockets \ {s} : sock'[t] = sock[t]
    BY <1>0, <2>2, <2>3, <2>4
  <2>. QED BY <1>1, <2>1, <2>5 DEF Keeps, Active, ChannelsInv
<1>4. CASE OpenChannel(s)
  <2>1. sock[s].pc = "opening" /\ UNCHANGED <<link, joined>>
    BY <1>4 DEF OpenChannel
  <2>2. \/ sock' = [sock EXCEPT ![s] = [@ EXCEPT !.pc = "up"]]
        \/ sock' = [sock EXCEPT ![s] = [Closing(@) EXCEPT !.pc = "up"]]
    BY <1>4 DEF OpenChannel
  <2>3. \A r \in {sock[s], Closing(sock[s])} :
           /\ [r EXCEPT !.pc = "up"].pc = "up"
           /\ [r EXCEPT !.pc = "up"].link = sock[s].link
           /\ [r EXCEPT !.pc = "up"].channel = sock[s].channel
    BY <1>0 DEF SockRecords, Closing
  <2>4. /\ sock'[s].pc = "up" /\ sock'[s].link = sock[s].link /\ sock'[s].channel = sock[s].channel
        /\ \A t \in Sockets \ {s} : sock'[t] = sock[t]
    BY <1>0, <2>2, <2>3
  <2>. QED BY <1>1, <2>1, <2>4 DEF Keeps, Active, ChannelsInv
<1>5. CASE SocketLost(s)
  <2>1. Quiet
    BY <1>5, ClosingSome DEF SocketLost, Quiet
  <2>. QED BY <2>1, QuietKeeps
<1>6. CASE Leave(s)
  <2>. DEFINE l == sock[s].link
  <2>1. /\ sock[s].pc = "up" /\ l \in Links /\ UNCHANGED link
        /\ sock' = [sock EXCEPT ![s] = OverSocket]
        /\ IF s \in joined[l] THEN joined' = [joined EXCEPT ![l] = @ \ {s}] ELSE UNCHANGED joined
    BY <1>6 DEF Leave, ChannelsInv, Active
  <2>. HIDE DEF l
  <2>2. OverSocket.pc = "over" /\ joined \in [Links -> SUBSET Sockets]
    BY DEF OverSocket, NewSocket, TypeOK
  <2>3. \A k \in Links : joined'[k] \subseteq joined[k] /\ s \notin joined'[k]
    BY <1>1, <2>1, <2>2 DEF l
  <2>. QED BY <1>0, <1>1, <2>1, <2>2, <2>3 DEF Keeps, Active, ChannelsInv
<1>7. CASE Revoke(s)
  <2>1. Quiet
    BY <1>7 DEF Revoke, Quiet
  <2>. QED BY <2>1, QuietKeeps
<1>. QED BY <1>2, <1>3, <1>4, <1>5, <1>6, <1>7 DEF SocketSteps


LEMMA KeepsChannels ==
    ASSUME TypeOK, TypeOK', ChannelsInv, Keeps, CheckedLink
    PROVE  ChannelsInv'
<1>1. \A s \in Sockets : Active(s)' =>
         Active(s) /\ sock'[s].link \in Links /\ sock'[s].channel < link'[sock'[s].link].next
  BY DEF Keeps, ChannelsInv
<1>2. \A s, t \in Sockets :
         Active(s)' /\ Active(t)' /\ sock'[t].link = sock'[s].link /\ sock'[t].channel = sock'[s].channel
            => s = t
  BY DEF Keeps, ChannelsInv, Has
<1>3. \A l \in Links : \A s \in joined'[l] : Active(s)' /\ sock'[s].link = l
  <2>1. \A l \in Links : \A s \in joined[l] : s \in Sockets
    BY DEF TypeOK
  <2>. QED BY <2>1 DEF Keeps, ChannelsInv
<1>4. \A s \in Sockets : sock'[s].pc = "joining" => sock'[s].link \in Links
  BY DEF Keeps
<1>. QED BY <1>1, <1>2, <1>3, <1>4 DEF ChannelsInv, CheckedLink, Has

\* What a socket that joins has afterwards (relay.rs: connect_device).
LEMMA Joined ==
    ASSUME TypeOK, ChannelsInv, NEW s \in Sockets, Join(s)
    PROVE  /\ sock[s].pc = "joining" /\ sock[s].link \in Links
           /\ sock'[s].pc = "opening" /\ sock'[s].link = sock[s].link
           /\ sock'[s].channel = link[sock[s].link].next
           /\ \A t \in Sockets \ {s} : sock'[t] = sock[t]
           /\ \A l \in Links : link[l].next \in Nat
           /\ \A l \in Links : link'[l].next = IF l = sock[s].link THEN link[l].next + 1 ELSE link[l].next
           /\ \A l \in Links : joined'[l] = IF l = sock[s].link THEN joined[l] \cup {s} ELSE joined[l]
           /\ UNCHANGED <<queue, back, serving, check, crossed>>
<1>. DEFINE l == sock[s].link
<1>1. /\ sock' = [sock EXCEPT ![s].pc = "opening", ![s].channel = Number(l)]
      /\ link' = [link EXCEPT ![l].next = @ + 1]
      /\ joined' = [joined EXCEPT ![l] = @ \cup {s}]
      /\ sock[s].pc = "joining" /\ l \in Links
      /\ UNCHANGED <<queue, back, serving, check, crossed>>
  BY DEF Join, ChannelsInv, checking
<1>. HIDE DEF l
<1>2. /\ sock \in [Sockets -> SockRecords] /\ sock[s] \in SockRecords
      /\ link \in [Links -> LinkRecords] /\ joined \in [Links -> SUBSET Sockets]
  BY DEF TypeOK
<1>3. LET r == [sock[s] EXCEPT !.pc = "opening", !.channel = link[l].next] IN
      r.pc = "opening" /\ r.link = sock[s].link /\ r.channel = link[l].next
  BY <1>2 DEF SockRecords
<1>4. /\ sock'[s] = [sock[s] EXCEPT !.pc = "opening", !.channel = link[l].next]
      /\ \A t \in Sockets \ {s} : sock'[t] = sock[t]
  BY <1>1, <1>2 DEF Number
<1>5. \A k \in Links : link[k].next \in Nat
  BY <1>2 DEF LinkRecords
<1>6. [link[l] EXCEPT !.next = @ + 1].next = link[l].next + 1
  BY <1>1, <1>2, CountedLink
<1>7. \A k \in Links : link'[k].next = IF k = l THEN link[k].next + 1 ELSE link[k].next
  BY <1>1, <1>2, <1>6
<1>8. \A k \in Links : joined'[k] = IF k = l THEN joined[k] \cup {s} ELSE joined[k]
  BY <1>1, <1>2
<1>. QED BY <1>1, <1>3, <1>4, <1>5, <1>7, <1>8 DEF l

LEMMA JoinChannels ==
    ASSUME TypeOK, TypeOK', ChannelsInv, NEW s \in Sockets, Join(s)
    PROVE  ChannelsInv'
<1>1. \A t \in Sockets : Active(t)' =>
         /\ sock'[t].link \in Links /\ sock'[t].channel \in Nat
         /\ sock'[t].channel < link'[sock'[t].link].next
  <2>1. \A t \in Sockets : sock[t].channel \in Nat
    BY DEF TypeOK, SockRecords
  <2>. QED BY <2>1, Joined DEF ChannelsInv, Active
<1>2. \A t \in Sockets \ {s} : Active(t)' =>
         Active(t) /\ (sock'[t].link = sock'[s].link => sock'[t].channel # sock'[s].channel)
  <2>1. \A t \in Sockets : sock[t].channel \in Nat
    BY DEF TypeOK, SockRecords
  <2>. QED BY <2>1, Joined DEF ChannelsInv, Active
<1>3. \A t, u \in Sockets :
         Active(t)' /\ Active(u)' /\ sock'[u].link = sock'[t].link /\ sock'[u].channel = sock'[t].channel
            => t = u
  BY <1>2, Joined DEF ChannelsInv, Has
<1>4. \A l \in Links : \A t \in joined'[l] : Active(t)' /\ sock'[t].link = l
  <2>1. \A l \in Links : \A t \in joined[l] : t \in Sockets /\ t # s
    BY Joined DEF TypeOK, ChannelsInv, Active
  <2>2. \A l \in Links : \A t \in joined[l] : Active(t) /\ sock[t].link = l /\ sock'[t] = sock[t]
    BY <2>1, Joined DEF ChannelsInv
  <2>3. /\ sock'[s].pc = "opening" /\ sock'[s].link = sock[s].link
        /\ \A l \in Links : joined'[l] = IF l = sock[s].link THEN joined[l] \cup {s} ELSE joined[l]
    BY Joined
  <2>4. \A l \in Links : \A t \in joined[l] : Active(t)' /\ sock'[t].link = l
    BY <2>2 DEF Active
  <2>5. Active(s)'
    BY <2>3 DEF Active
  <2>6. \A l \in Links : \A t \in joined'[l] : t \in joined[l] \/ (t = s /\ l = sock[s].link)
    BY <2>3
  <2>. QED BY <2>3, <2>4, <2>5, <2>6
<1>5. \A t \in Sockets : sock'[t].pc = "joining" => sock'[t].link \in Links
  BY Joined DEF ChannelsInv
<1>6. check'.pc = "check" => check'.link \in Links
  BY Joined DEF ChannelsInv
<1>. QED BY <1>1, <1>3, <1>4, <1>5, <1>6 DEF ChannelsInv, Has

HasNext(s, l, c) ==
    sock'[s].pc \in {"opening", "up"} /\ sock'[s].link = l /\ sock'[s].channel = c
KnownNext(l, c, of) == c < link'[l].next /\ \A s \in Sockets : HasNext(s, l, c) => s = of

\* A channel that is known stays so: no later one has its number.
LEMMA KnownKept ==
    ASSUME TypeOK, ChannelsInv, NEW l \in Links, NEW c \in Nat, NEW of, Known(l, c, of),
           Keeps \/ \E s \in Sockets : Join(s)
    PROVE  KnownNext(l, c, of)
<1>. USE DEF KnownNext, HasNext
<1>1. CASE Keeps
  BY <1>1 DEF Keeps, Known, Has, Active
<1>2. CASE \E s \in Sockets : Join(s)
  <2>1. PICK s \in Sockets : Join(s)
    BY <1>2
  <2>2. c < link'[l].next
    BY <2>1, Joined DEF Known
  <2>3. \A t \in Sockets : HasNext(t, l, c) => Has(t, l, c)
    BY <2>1, Joined DEF Known, Has, Active
  <2>. QED BY <2>2, <2>3 DEF Known
<1>. QED BY <1>1, <1>2

---------------------------------------------------------------------------
\* Frames: whatever comes into a queue, comes back or is answered names a channel with its owner.

AllKnown(l, ff) == \A frame \in ff : Known(l, frame.channel, frame.of)
In(q) == {q[n] : n \in 1 .. Len(q)}

FramesCome ==
    \A l \in Links : /\ AllKnown(l, serving'[l])
                     /\ AllKnown(l, In(queue'[l]))
                     /\ AllKnown(l, In(back'[l]))

LEMMA FramesAre ==
    ASSUME FramesInv, NEW l \in Links
    PROVE  AllKnown(l, serving[l]) /\ AllKnown(l, In(queue[l])) /\ AllKnown(l, In(back[l]))
  BY DEF FramesInv, AllKnown, In

LEMMA FramesStay ==
    ASSUME FramesInv, UNCHANGED <<serving, queue, back>>
    PROVE  FramesCome
  BY FramesAre DEF FramesCome

\* The frame about a socket that has a channel names its owner.
LEMMA OwnFrame ==
    ASSUME TypeOK, ChannelsInv, NEW s \in Sockets, Active(s), NEW kind \in {"open", "close"}
    PROVE  /\ Frame(kind, s) \in Frames
           /\ Known(sock[s].link, Frame(kind, s).channel, Frame(kind, s).of)
<1>1. sock[s].channel \in Nat
  BY DEF TypeOK, SockRecords
<1>2. Known(sock[s].link, sock[s].channel, s)
  BY DEF Known, ChannelsInv, Has
<1>. QED BY <1>1, <1>2 DEF Frame, Frames

LEMMA PushKnown ==
    ASSUME TypeOK, ChannelsInv, FramesInv, NEW s \in Sockets, Active(s),
           NEW kind \in {"open", "close"}, Push(sock[s].link, Frame(kind, s))
    PROVE  \A l \in Links : AllKnown(l, In(queue'[l]))
<1>1. sock[s].link \in Links
  BY DEF ChannelsInv
<1>2. \A k \in Links : \A n \in 1 .. Len(queue'[k]) :
         \/ n \in 1 .. Len(queue[k]) /\ queue'[k][n] = queue[k][n]
         \/ k = sock[s].link /\ queue'[k][n] = Frame(kind, s)
  BY <1>1, OwnFrame, Pushed
<1>. QED BY <1>2, OwnFrame, FramesAre DEF AllKnown, In

LEMMA CloseChannelKnown ==
    ASSUME TypeOK, ChannelsInv, FramesInv, NEW l \in Links, NEW s \in Sockets, CloseChannel(l, s)
    PROVE  \A k \in Links : AllKnown(k, In(queue'[k]))
<1>1. CASE s \in joined[l]
  <2>1. Active(s) /\ sock[s].link = l /\ Push(sock[s].link, Frame("close", s))
    BY <1>1 DEF CloseChannel, ChannelsInv
  <2>. QED BY <2>1, PushKnown
<1>2. CASE s \notin joined[l]
  BY <1>2, FramesAre DEF CloseChannel
<1>. QED BY <1>1, <1>2

\* What is left of a queue was in it.
LEMMA FewerFrames ==
    ASSUME NEW q \in Seq(Frames), q # <<>>
    PROVE  In(Tail(q)) \subseteq In(q) /\ Head(q) \in In(q)
  BY TailTyped DEF In

LEMMA NoFrames == In(<<>>) = {}
  BY DEF In

LEMMA Emptied ==
    ASSUME TypeOK, FramesInv, NEW l \in Links, NEW q \in [Links -> Seq(Frames)],
           \A k \in Links : AllKnown(k, In(q[k]))
    PROVE  \A k \in Links : AllKnown(k, In([q EXCEPT ![l] = <<>>][k]))
  BY NoFrames DEF AllKnown

LEMMA LinkStepFrames ==
    ASSUME TypeOK, ChannelsInv, FramesInv, NEW l \in Links, LinkSteps(l)
    PROVE  FramesCome
<1>0. /\ \A k \in Links : AllKnown(k, serving[k]) /\ AllKnown(k, In(queue[k])) /\ AllKnown(k, In(back[k]))
      /\ queue \in [Links -> Seq(Frames)] /\ back \in [Links -> Seq(Frames)]
      /\ serving \in [Links -> SUBSET Visits]
  BY FramesAre DEF TypeOK
<1>1. CASE Attach(l)
  <2>1. UNCHANGED <<serving, back>>
    BY <1>1 DEF Attach
  <2>2. queue' = queue \/ (current \in Links /\ queue' = [queue EXCEPT ![current] = <<>>])
    BY <1>1 DEF Attach, TypeOK
  <2>. QED BY <1>0, <2>1, <2>2, Emptied DEF FramesCome
<1>2. CASE LinkLost(l)
  <2>1. UNCHANGED <<serving, back>> /\ queue' = [queue EXCEPT ![l] = <<>>]
    BY <1>2 DEF LinkLost
  <2>. QED BY <1>0, <2>1, Emptied DEF FramesCome
<1>3. CASE LinkEnds(l)
  <2>1. /\ queue' = [queue EXCEPT ![l] = <<>>] /\ back' = [back EXCEPT ![l] = <<>>]
        /\ serving' = [serving EXCEPT ![l] = {}]
    BY <1>3 DEF LinkEnds
  <2>2. \A k \in Links : AllKnown(k, serving'[k])
    BY <1>0, <2>1 DEF AllKnown
  <2>. QED BY <1>0, <2>1, <2>2, Emptied DEF FramesCome
<1>4. CASE HostHears(l)
  <2>1. /\ queue[l] \in Seq(Frames) /\ queue[l] # <<>> /\ UNCHANGED back
        /\ queue' = [queue EXCEPT ![l] = Tail(@)]
    BY <1>0, <1>4 DEF HostHears
  <2>2. PICK frame \in {Head(queue[l])} :
          serving' = [serving EXCEPT ![l] =
                         (@ \ Served(l, frame.channel)) \cup
                         {[channel |-> c, of |-> frame.of] :
                             c \in IF frame.kind = "open" THEN {frame.channel} ELSE {}}]
    BY <1>4 DEF HostHears
  <2>3. Known(l, frame.channel, frame.of)
    BY <1>0, <2>1, <2>2, FewerFrames DEF AllKnown
  <2>4. \A visit \in serving'[l] :
           visit \in serving[l] \/ (visit.channel = frame.channel /\ visit.of = frame.of)
    BY <1>0, <2>2
  <2>5. \A k \in Links : AllKnown(k, serving'[k])
    BY <1>0, <2>2, <2>3, <2>4 DEF AllKnown
  <2>6. \A k \in Links : In(queue'[k]) \subseteq In(queue[k])
    BY <1>0, <2>1, FewerFrames
  <2>. QED BY <1>0, <2>1, <2>5, <2>6 DEF FramesCome, AllKnown
<1>5. CASE HostSays(l)
  <2>1. PICK visit \in serving[l], kind \in {"text", "close"} :
          /\ back' = [back EXCEPT ![l] = Append(@, [kind |-> kind, channel |-> visit.channel, of |-> visit.of])]
          /\ serving' = [serving EXCEPT ![l] = IF kind = "close" THEN @ \ {visit} ELSE @]
    BY <1>5 DEF HostSays
  <2>. DEFINE frame == [kind |-> kind, channel |-> visit.channel, of |-> visit.of]
  <2>2. frame \in Frames /\ Known(l, frame.channel, frame.of)
    BY <1>0, <2>1 DEF Frames, Visits, AllKnown
  <2>3. back' = [back EXCEPT ![l] = Append(@, frame)] /\ back[l] \in Seq(Frames)
    BY <1>0, <2>1
  <2>. HIDE DEF frame
  <2>4. In(Append(back[l], frame)) \subseteq In(back[l]) \cup {frame}
    <3>1. /\ Len(Append(back[l], frame)) = Len(back[l]) + 1
          /\ \A n \in 1 .. Len(back[l]) + 1 :
                Append(back[l], frame)[n] = IF n <= Len(back[l]) THEN back[l][n] ELSE frame
      BY <2>2, <2>3, AppendProperties
    <3>. QED BY <2>3, <3>1, LenProperties DEF In
  <2>5. \A k \in Links : AllKnown(k, In(back'[k]))
    BY <1>0, <2>2, <2>3, <2>4 DEF AllKnown
  <2>6. \A k \in Links : AllKnown(k, serving'[k])
    BY <1>0, <2>1 DEF AllKnown
  <2>7. UNCHANGED queue
    BY <1>5 DEF HostSays
  <2>. QED BY <1>0, <2>5, <2>6, <2>7 DEF FramesCome
<1>6. CASE RelayHears(l)
  <2>1. /\ back[l] \in Seq(Frames) /\ back[l] # <<>> /\ UNCHANGED serving
        /\ back' = [back EXCEPT ![l] = Tail(@)]
    BY <1>0, <1>6 DEF RelayHears
  <2>2. queue' = queue \/ \E s \in Sockets : CloseChannel(l, s)
    BY <1>6 DEF RelayHears, TypeOK
  <2>3. \A k \in Links : AllKnown(k, In(queue'[k]))
    BY <1>0, <2>2, CloseChannelKnown
  <2>4. \A k \in Links : In(back'[k]) \subseteq In(back[k])
    BY <1>0, <2>1, FewerFrames
  <2>. QED BY <1>0, <2>1, <2>3, <2>4 DEF FramesCome, AllKnown
<1>. QED BY <1>1, <1>2, <1>3, <1>4, <1>5, <1>6 DEF LinkSteps

LEMMA SocketStepFrames ==
    ASSUME TypeOK, ChannelsInv, FramesInv, NEW s \in Sockets, SocketSteps(s)
    PROVE  FramesCome
<1>1. CASE Ticket(s) \/ Present(s) \/ Join(s) \/ SocketLost(s) \/ Revoke(s)
  <2>1. UNCHANGED <<serving, queue, back>>
    BY <1>1 DEF Ticket, Present, Join, SocketLost, Revoke
  <2>. QED BY <2>1, FramesStay
<1>2. CASE OpenChannel(s)
  <2>1. /\ UNCHANGED <<serving, back>> /\ Active(s)
        /\ Push(sock[s].link, Frame("open", s))
    BY <1>2 DEF OpenChannel, Active, Push
  <2>. QED BY <2>1, PushKnown, FramesAre DEF FramesCome
<1>3. CASE Leave(s)
  <2>1. /\ UNCHANGED <<serving, back>> /\ Active(s)
        /\ Push(sock[s].link, Frame("close", s))
    BY <1>3 DEF Leave, Active, Push
  <2>. QED BY <2>1, PushKnown, FramesAre DEF FramesCome
<1>. QED BY <1>1, <1>2, <1>3 DEF SocketSteps

LEMMA CheckStepFrames ==
    ASSUME TypeOK, ChannelsInv, FramesInv, CheckSteps
    PROVE  FramesCome
<1>1. UNCHANGED <<serving, back>>
  BY DEF CheckSteps, Round, HearDirty, Look, CheckOne, Checked, CannotRead
<1>2. \A l \in Links : AllKnown(l, In(queue'[l]))
  <2>1. \/ queue' = queue
        \/ current \in Links /\ queue' = [queue EXCEPT ![current] = <<>>]
        \/ \E s \in Sockets : check.link \in Links /\ CloseChannel(check.link, s)
    <3>1. CASE Round \/ HearDirty \/ Checked \/ CannotRead
      BY <3>1 DEF Round, HearDirty, Checked, CannotRead
    <3>2. CASE Look
      BY <3>2 DEF Look, TypeOK
    <3>3. CASE CheckOne
      BY <3>3 DEF CheckOne, ChannelsInv, TypeOK, Checks
    <3>. QED BY <3>1, <3>2, <3>3 DEF CheckSteps
  <2>. QED BY <2>1, FramesAre, Emptied, CloseChannelKnown DEF TypeOK
<1>. QED BY <1>1, <1>2, FramesAre DEF FramesCome

LEMMA FramesKept ==
    ASSUME TypeOK, TypeOK', ChannelsInv, FramesCome, Keeps \/ \E s \in Sockets : Join(s)
    PROVE  FramesInv'
<1>. SUFFICES ASSUME NEW l \in Links
              PROVE  /\ \A visit \in serving'[l] : KnownNext(l, visit.channel, visit.of)
                     /\ \A n \in 1 .. Len(queue'[l]) : KnownNext(l, queue'[l][n].channel, queue'[l][n].of)
                     /\ \A n \in 1 .. Len(back'[l]) : KnownNext(l, back'[l][n].channel, back'[l][n].of)
  BY DEF FramesInv, Known, Has, Active, KnownNext, HasNext
<1>1. /\ \A visit \in serving'[l] : visit \in Visits
      /\ \A n \in 1 .. Len(queue'[l]) : queue'[l][n] \in Frames
      /\ \A n \in 1 .. Len(back'[l]) : back'[l][n] \in Frames
  <2>1. serving'[l] \subseteq Visits /\ queue'[l] \in Seq(Frames) /\ back'[l] \in Seq(Frames)
    BY DEF TypeOK
  <2>. QED BY <2>1, ElementOfSeq
<1>2. /\ \A visit \in serving'[l] : Known(l, visit.channel, visit.of)
      /\ \A n \in 1 .. Len(queue'[l]) : Known(l, queue'[l][n].channel, queue'[l][n].of)
      /\ \A n \in 1 .. Len(back'[l]) : Known(l, back'[l][n].channel, back'[l][n].of)
  BY DEF FramesCome, AllKnown, In
<1>3. /\ \A visit \in Visits : visit.channel \in Nat
      /\ \A frame \in Frames : frame.channel \in Nat
  BY DEF Visits, Frames
<1>. QED BY <1>1, <1>2, <1>3, KnownKept

---------------------------------------------------------------------------
\* Who is told: whoever has the channel a frame names, and that is its owner.

LEMMA ToldRight ==
    ASSUME TypeOK, ChannelsInv, FramesInv, OnlyTheirs, NEW l \in Links, RelayHears(l)
    PROVE  OnlyTheirs'
<1>1. back[l] \in Seq(Frames) /\ back[l] # <<>>
  BY DEF RelayHears, TypeOK
<1>2. PICK frame \in {Head(back[l])} :
        crossed' = (crossed \/ \E s \in {t \in joined[l] : sock[t].channel = frame.channel} : s # frame.of)
  BY DEF RelayHears
<1>3. Known(l, frame.channel, frame.of)
  BY <1>1, <1>2, FewerFrames, FramesAre DEF AllKnown
<1>4. \A s \in joined[l] : s \in Sockets /\ Active(s) /\ sock[s].link = l
  BY DEF ChannelsInv, TypeOK
<1>5. ~ \E s \in {t \in joined[l] : sock[t].channel = frame.channel} : s # frame.of
  BY <1>3, <1>4 DEF Known, Has
<1>. QED BY <1>2, <1>5 DEF OnlyTheirs

LEMMA OthersTellNobody ==
    ASSUME \/ \E l \in Links : LinkSteps(l) /\ ~ RelayHears(l)
           \/ \E s \in Sockets : SocketSteps(s)
           \/ CheckSteps \/ RevokeHost
    PROVE  UNCHANGED crossed
<1>1. CASE \E l \in Links : LinkSteps(l) /\ ~ RelayHears(l)
  BY <1>1 DEF LinkSteps, Attach, LinkLost, LinkEnds, HostHears, HostSays
<1>2. CASE \E s \in Sockets : SocketSteps(s)
  BY <1>2 DEF SocketSteps, Ticket, Present, Join, OpenChannel, SocketLost, Leave, Revoke
<1>3. CASE CheckSteps \/ RevokeHost
  BY <1>3 DEF CheckSteps, Round, HearDirty, Look, CheckOne, Checked, CannotRead, RevokeHost
<1>. QED BY <1>1, <1>2, <1>3

---------------------------------------------------------------------------

\* An instance starts with no link and no socket, so that nothing is on its way.
THEOREM InitHolds == Init => IInv
<1>. SUFFICES ASSUME Init PROVE IInv
  OBVIOUS
<1>1. TypeOK
  <2>1. NewLink \in LinkRecords /\ NewSocket \in SockRecords /\ Idle \in Checks
    BY DEF NewLink, LinkRecords, NewSocket, SockRecords, Idle, Checks
  <2>2. <<>> \in Seq(Frames)
    OBVIOUS
  <2>3. failures \in 0 .. MaxFailures
    BY RelayAssumption DEF Init
  <2>. QED BY <2>1, <2>2, <2>3 DEF Init, TypeOK
<1>2. ChannelsInv
  BY DEF Init, ChannelsInv, Active, NewSocket, Idle
<1>3. FramesInv
  BY DEF Init, FramesInv
<1>. QED BY <1>1, <1>2, <1>3 DEF IInv, Init, OnlyTheirs

\* Whatever a link, a socket, the host or the checking task does keeps the numbers and the frames right.
THEOREM StepHolds == IInv /\ [Next]_vars => IInv'
<1>. SUFFICES ASSUME IInv, [Next]_vars PROVE IInv'
  OBVIOUS
<1>. USE DEF IInv
<1>1. ASSUME NEW l \in Links, LinkSteps(l) PROVE IInv'
  <2>1. TypeOK' /\ Quiet
    BY <1>1, LinkStepTyped, LinkStepQuiet
  <2>2. CheckedLink
    <3>1. UNCHANGED check
      BY <1>1 DEF LinkSteps, Attach, LinkLost, LinkEnds, HostHears, HostSays, RelayHears, checking
    <3>. QED BY <3>1 DEF CheckedLink, ChannelsInv
  <2>3. Keeps
    BY <2>1, QuietKeeps
  <2>4. ChannelsInv'
    BY <2>1, <2>2, <2>3, KeepsChannels
  <2>5. FramesInv'
    BY <1>1, <2>1, <2>3, LinkStepFrames, FramesKept
  <2>6. OnlyTheirs'
    <3>1. CASE RelayHears(l)
      BY <3>1, ToldRight
    <3>2. CASE ~ RelayHears(l)
      BY <1>1, <3>2, OthersTellNobody DEF OnlyTheirs
    <3>. QED BY <3>1, <3>2
  <2>. QED BY <2>1, <2>4, <2>5, <2>6
<1>2. ASSUME NEW s \in Sockets, SocketSteps(s) PROVE IInv'
  <2>1. TypeOK' /\ FramesCome
    BY <1>2, SocketStepTyped, SocketStepFrames
  <2>2. OnlyTheirs'
    BY <1>2, OthersTellNobody DEF OnlyTheirs
  <2>3. ChannelsInv' /\ (Keeps \/ Join(s))
    <3>1. CASE Join(s)
      BY <2>1, <3>1, JoinChannels
    <3>2. CASE ~ Join(s)
      <4>1. UNCHANGED check
        BY <1>2 DEF SocketSteps, Ticket, Present, Join, OpenChannel, SocketLost, Leave, Revoke, checking
      <4>2. CheckedLink
        BY <4>1 DEF CheckedLink, ChannelsInv
      <4>. QED BY <1>2, <2>1, <3>2, <4>2, SocketStepKeeps, KeepsChannels
    <3>. QED BY <3>1, <3>2
  <2>4. FramesInv'
    BY <2>1, <2>3, FramesKept
  <2>. QED BY <2>1, <2>2, <2>3, <2>4
<1>3. ASSUME CheckSteps PROVE IInv'
  <2>1. TypeOK' /\ Quiet /\ CheckedLink /\ FramesCome
    BY <1>3, CheckStepTyped, CheckStepQuiet, CheckStepFrames
  <2>2. Keeps
    BY <2>1, QuietKeeps
  <2>3. ChannelsInv' /\ FramesInv'
    BY <2>1, <2>2, KeepsChannels, FramesKept
  <2>4. OnlyTheirs'
    BY <1>3, OthersTellNobody DEF OnlyTheirs
  <2>. QED BY <2>1, <2>3, <2>4
<1>4. ASSUME RevokeHost \/ UNCHANGED vars PROVE IInv'
  <2>1. /\ UNCHANGED <<granted, current, link, queue, back, joined, sock, serving, check, failures, crossed>>
        /\ enrolled' = enrolled \/ enrolled' = FALSE
        /\ dirty' = dirty \/ dirty' = TRUE
    BY <1>4 DEF RevokeHost, vars
  <2>2. TypeOK'
    BY <2>1 DEF TypeOK
  <2>3. ChannelsInv'
    BY <2>1 DEF ChannelsInv, Active, Has
  <2>4. FramesInv'
    BY <2>1 DEF FramesInv, Known, Has, Active
  <2>. QED BY <2>1, <2>2, <2>3, <2>4 DEF OnlyTheirs
<1>. QED BY <1>1, <1>2, <1>3, <1>4 DEF Next, CheckSteps

\* A device is told only what the host said to it (relay.rs:680, host_message), however many
\* links and devices there are and whatever closes in between: no two channels of a link ever
\* have one number, so that what is late for a channel finds nobody else at it.
THEOREM OnlyTheirsHolds == Spec => []OnlyTheirs
<1>1. IInv => OnlyTheirs
  BY DEF IInv
<1>. QED BY <1>1, InitHolds, StepHolds, PTL DEF Spec

\* Every variable always has its type, for any number of links, sockets and frames.
THEOREM TypesHold == Spec => []TypeOK
<1>1. IInv => TypeOK
  BY DEF IInv
<1>. QED BY <1>1, InitHolds, StepHolds, PTL DEF Spec

---------------------------------------------------------------------------
(* The links of one host, over several instances: Links                    *)

\* Where a link's task is while the link is of its instance, and while the records may name it.
Placed == {"attaching", "up", "leaving", "forgetting"}

\* A link the hub of an instance holds is one whose task is there, and has not let go of it.
HoldsInv ==
    /\ \A i \in Instances :
          holds[i] # NoConnect => at[holds[i]] = i /\ pc[holds[i]] \in {"up", "leaving"}
    /\ \A l \in Connects : pc[l] \in Placed \cup {"noting"} => at[l] \in Instances
    /\ \A l \in Connects : Up(l) => holds[at[l]] = l

\* The records name the link noted last until that is over: whoever forgets its own place leaves
\* that of another alone.
PlaceInv == latest # NoConnect /\ pc[latest] \in Placed => place = latest

LinksIInv == LinksTypeOK /\ HoldsInv /\ PlaceInv

\* The variables have their types (the state of relay.rs: Hub, HostLink).
LEMMA LinksInitTyped == LinksInit => LinksTypeOK
  BY LinksAssumption DEF LinksInit, LinksTypeOK, Resting, Open, NoConnect

\* The number of no link is not that of a link.
LEMMA NoConnectIsNone == NoConnect \notin Connects
  BY LinksAssumption DEF NoConnect

\* Every step keeps the types.
LEMMA LinksStepTyped == ASSUME LinksTypeOK, [LinksNext]_linksVars PROVE LinksTypeOK'
<1> USE DEF LinksTypeOK
<1>1. ASSUME NEW l \in Connects, NEW i \in Instances, Connect(l, i) PROVE LinksTypeOK'
  BY <1>1 DEF Connect, Goes
<1>2. ASSUME NEW l \in Connects, Note(l) PROVE LinksTypeOK'
  BY <1>2 DEF Note, Goes, AreOver
<1>3. ASSUME NEW l \in Connects, AttachHost(l) PROVE LinksTypeOK'
  <2>1. close' \in [Connects -> {Open, "replaced", "gone"}]
    BY <1>3 DEF AttachHost, Instead, ClosingFor
  <2>. QED BY <1>3, <2>1 DEF AttachHost, Goes
<1>4. ASSUME NEW l \in Connects, Ends(l) PROVE LinksTypeOK'
  BY <1>4 DEF Ends, Goes
<1>5. ASSUME NEW l \in Connects, DetachHost(l) PROVE LinksTypeOK'
  BY <1>5 DEF DetachHost, Goes
<1>6. ASSUME NEW l \in Connects, Forget(l) PROVE LinksTypeOK'
  BY <1>6 DEF Forget, AreOver, Dropped
<1>7. ASSUME NEW i \in Instances, CheckRound(i) PROVE LinksTypeOK'
  BY <1>7 DEF CheckRound, Turns
<1>8. ASSUME NEW i \in Instances, HearLinked(i) PROVE LinksTypeOK'
  BY <1>8 DEF HearLinked, Turns
<1>9. ASSUME NEW i \in Instances, Keep(i) PROVE LinksTypeOK'
  <2>1. close' \in [Connects -> {Open, "replaced", "gone"}]
    BY <1>9 DEF Keep, ClosingFor
  <2>. QED BY <1>9, <2>1 DEF Keep, Turns, Resting
<1>10. ASSUME NEW i \in Instances, KeepPlace(i) PROVE LinksTypeOK'
  <2>1. close' \in [Connects -> {Open, "replaced", "gone"}]
    BY <1>10 DEF KeepPlace, ClosingFor
  <2>. QED BY <1>10, <2>1 DEF KeepPlace, Turns, Resting
<1>11. ASSUME NEW i \in Instances, Crash(i) PROVE LinksTypeOK'
  BY <1>11, LinksAssumption DEF Crash, AreOver, Turns, Resting
<1>12. ASSUME UNCHANGED linksVars PROVE LinksTypeOK'
  BY <1>12 DEF linksVars
<1>. QED
  BY <1>1, <1>2, <1>3, <1>4, <1>5, <1>6, <1>7, <1>8, <1>9, <1>10, <1>11, <1>12
     DEF LinksNext, ConnectSteps, LookSteps

\* A step that only closes links, at most, keeps what instances hold.
LEMMA ClosingKeepsHub ==
    ASSUME HoldsInv, UNCHANGED <<holds, pc, at>>,
           \A l \in Connects : close[l] # Open => close'[l] # Open
    PROVE  HoldsInv'
  BY DEF HoldsInv, Up

\* Every step keeps what instances hold.
LEMMA StepHub == ASSUME LinksTypeOK, HoldsInv, [LinksNext]_linksVars PROVE HoldsInv'
<1> USE DEF LinksTypeOK
<1>1. ASSUME NEW l \in Connects, NEW i \in Instances, Connect(l, i) PROVE HoldsInv'
  BY <1>1 DEF Connect, Goes, HoldsInv, Up, Placed
<1>2. ASSUME NEW l \in Connects, Note(l) PROVE HoldsInv'
  BY <1>2 DEF Note, Goes, AreOver, HoldsInv, Up, Placed
<1>3. ASSUME NEW l \in Connects, AttachHost(l) PROVE HoldsInv'
  <2>1. /\ pc[l] = "attaching" /\ pc' = [pc EXCEPT ![l] = "up"]
        /\ holds' = [holds EXCEPT ![at[l]] = l] /\ at' = at
        /\ close' = Instead(holds[at[l]])
    BY <1>3 DEF AttachHost, Goes
  <2>2. at[l] \in Instances
    BY <2>1 DEF HoldsInv, Placed
  <2>3. \A k \in Connects : close[k] # Open => close'[k] # Open
    BY <2>1, <2>2 DEF Instead, ClosingFor, Open
  <2>4. \A k \in Connects : k # l /\ Up(k)' => Up(k) /\ at[k] # at[l]
    BY <2>1, <2>2, <2>3, NoConnectIsNone DEF Up, HoldsInv, Instead, ClosingFor, Open
  <2>. QED BY <2>1, <2>2, <2>4, NoConnectIsNone DEF HoldsInv, Up, Placed
<1>4. ASSUME NEW l \in Connects, Ends(l) PROVE HoldsInv'
  BY <1>4 DEF Ends, Goes, HoldsInv, Up, Placed
<1>5. ASSUME NEW l \in Connects, DetachHost(l) PROVE HoldsInv'
  BY <1>5, NoConnectIsNone DEF DetachHost, Goes, HoldsInv, Up, Placed
<1>6. ASSUME NEW l \in Connects, Forget(l) PROVE HoldsInv'
  BY <1>6 DEF Forget, AreOver, HoldsInv, Up, Placed
<1>7. ASSUME NEW i \in Instances, CheckRound(i) PROVE HoldsInv'
  BY <1>7, ClosingKeepsHub DEF CheckRound
<1>8. ASSUME NEW i \in Instances, HearLinked(i) PROVE HoldsInv'
  BY <1>8, ClosingKeepsHub DEF HearLinked
<1>9. ASSUME NEW i \in Instances, Keep(i) PROVE HoldsInv'
  <2>1. \A l \in Connects : close[l] # Open => close'[l] # Open
    BY <1>9 DEF Keep, ClosingFor, Open
  <2>. QED BY <1>9, <2>1, ClosingKeepsHub DEF Keep
<1>10. ASSUME NEW i \in Instances, KeepPlace(i) PROVE HoldsInv'
  <2>1. \A l \in Connects : close[l] # Open => close'[l] # Open
    BY <1>10 DEF KeepPlace, ClosingFor, Open
  <2>. QED BY <1>10, <2>1, ClosingKeepsHub DEF KeepPlace
<1>11. ASSUME NEW i \in Instances, Crash(i) PROVE HoldsInv'
  BY <1>11, NoConnectIsNone DEF Crash, AreOver, HoldsInv, Up, Placed
<1>12. ASSUME UNCHANGED linksVars PROVE HoldsInv'
  BY <1>12 DEF linksVars, HoldsInv, Up
<1>. QED
  BY <1>1, <1>2, <1>3, <1>4, <1>5, <1>6, <1>7, <1>8, <1>9, <1>10, <1>11, <1>12
     DEF LinksNext, ConnectSteps, LookSteps

\* A step that brings no link nearer to its place keeps what the records name.
LEMMA OthersKeepPlace ==
    ASSUME PlaceInv, UNCHANGED <<place, latest>>, latest \in Connects \cup {NoConnect},
           \A l \in Connects : pc'[l] \in Placed => pc[l] \in Placed
    PROVE  PlaceInv'
  BY DEF PlaceInv

\* Every step keeps what the records name.
LEMMA StepPlace == ASSUME LinksTypeOK, PlaceInv, [LinksNext]_linksVars PROVE PlaceInv'
<1> USE DEF LinksTypeOK
<1>1. ASSUME NEW l \in Connects, NEW i \in Instances, Connect(l, i) PROVE PlaceInv'
  BY <1>1, OthersKeepPlace DEF Connect, Goes, Placed
<1>2. ASSUME NEW l \in Connects, Note(l) PROVE PlaceInv'
  BY <1>2 DEF Note, Goes, AreOver, PlaceInv, Placed
<1>3. ASSUME NEW l \in Connects, AttachHost(l) PROVE PlaceInv'
  BY <1>3, OthersKeepPlace DEF AttachHost, Goes, Placed
<1>4. ASSUME NEW l \in Connects, Ends(l) PROVE PlaceInv'
  BY <1>4, OthersKeepPlace DEF Ends, Goes, Placed
<1>5. ASSUME NEW l \in Connects, DetachHost(l) PROVE PlaceInv'
  BY <1>5, OthersKeepPlace DEF DetachHost, Goes, Placed
<1>6. ASSUME NEW l \in Connects, Forget(l) PROVE PlaceInv'
  BY <1>6 DEF Forget, AreOver, Dropped, PlaceInv, Placed
<1>7. ASSUME NEW i \in Instances, LookSteps(i) PROVE PlaceInv'
  BY <1>7 DEF LookSteps, CheckRound, HearLinked, Keep, KeepPlace, PlaceInv
<1>8. ASSUME NEW i \in Instances, Crash(i) PROVE PlaceInv'
  BY <1>8, OthersKeepPlace DEF Crash, AreOver, Placed
<1>9. ASSUME UNCHANGED linksVars PROVE PlaceInv'
  BY <1>9 DEF linksVars, PlaceInv
<1>. QED
  BY <1>1, <1>2, <1>3, <1>4, <1>5, <1>6, <1>7, <1>8, <1>9 DEF LinksNext, ConnectSteps

\* The inductive invariant.
THEOREM LinksInductive == LinksSpec => []LinksIInv
<1>1. LinksInit => LinksIInv
  BY LinksInitTyped DEF LinksIInv, LinksInit, HoldsInv, PlaceInv, Up, Placed, NoConnect
<1>2. LinksIInv /\ [LinksNext]_linksVars => LinksIInv'
  BY LinksStepTyped, StepHub, StepPlace DEF LinksIInv
<1>. QED BY <1>1, <1>2, PTL DEF LinksSpec

\* What an instance holds is one link, and a link that is up is the one its instance holds
\* (relay.rs: attach_host, detach_host).
THEOREM HeldHolds == LinksSpec => []Held
<1>1. LinksIInv => Held
  BY DEF LinksIInv, HoldsInv, Held
<1>. QED BY <1>1, LinksInductive, PTL

\* A check that closes a link closes none that was noted last.
LEMMA StepNewest ==
    ASSUME LinksIInv, LinksNext,
           NEW i \in Instances, looks[i].pc \in {"keep", "place"}, looks'[i] = Resting,
           NEW l \in Connects, Up(l), close'[l] = "replaced"
    PROVE  latest # l
<1> USE DEF LinksIInv, LinksTypeOK
<1>0. close[l] = Open /\ Open # "replaced" /\ looks[i].pc # Resting.pc
  BY DEF Up, Open, Resting
<1>1. close' # close /\ looks' # looks
  BY <1>0
<1>2. ASSUME NEW j \in Instances, Keep(j) \/ KeepPlace(j) PROVE latest # l
  <2>1. Displaced(j) /\ close' = ClosingFor(looks[j].link, "replaced")
    BY <1>1, <1>2 DEF Keep, KeepPlace
  <2>2. looks[j].link = l
    BY <1>0, <2>1 DEF ClosingFor
  <2>3. place # l
    BY <2>1, <2>2 DEF Displaced
  <2>. QED BY <2>3, NoConnectIsNone DEF PlaceInv, Up, Placed
<1>3. ASSUME NEW j \in Instances, Crash(j) PROVE FALSE
  BY <1>0, <1>3 DEF Crash, AreOver
<1>4. ASSUME NEW k \in Connects, ConnectSteps(k) PROVE FALSE
  BY <1>1, <1>4 DEF ConnectSteps, Connect, Note, AttachHost, Ends, DetachHost, Forget
<1>5. ASSUME NEW j \in Instances, CheckRound(j) \/ HearLinked(j) PROVE FALSE
  BY <1>1, <1>5 DEF CheckRound, HearLinked
<1>. QED BY <1>2, <1>3, <1>4, <1>5 DEF LinksNext, LookSteps

\* A link is found displaced only by one that was noted later (relay.rs: keep_places, keep_place).
THEOREM NewestHolds == LinksSpec => NewestStays
<1>1. LinksIInv /\ [LinksNext]_linksVars =>
        [\A i \in Instances : looks[i].pc \in {"keep", "place"} /\ looks'[i] = Resting =>
            \A l \in Connects : Up(l) /\ close'[l] = "replaced" => latest # l]_linksVars
  BY StepNewest
<1>. QED BY <1>1, LinksInductive, PTL DEF LinksSpec, NewestStays

\* Every variable always has its type, for any number of links and instances.
THEOREM LinksTypesHold == LinksSpec => []LinksTypeOK
<1>1. LinksIInv => LinksTypeOK
  BY DEF LinksIInv
<1>. QED BY <1>1, LinksInductive, PTL
=============================================================================
