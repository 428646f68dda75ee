---------------------------- MODULE ChannelProofs ----------------------------
(***************************************************************************)
(* Proofs about Channel, for any number of channels, devices, requests and *)
(* faults, any room and any daemon.                                        *)
(***************************************************************************)
EXTENDS Channel, FiniteSetTheorems, SequenceTheorems, WellFoundedInduction, TLAPS

---------------------------------------------------------------------------
\* What is on its way

\* What is asked of the daemon, and by whom.
Ops == [o: {"watch"}, s: Nat, after: Int] \cup [o: {"detach"}, s: Nat] \cup [o: {"controller"}]
         \cup [o: {"acquire"}, holder: Holders, takeOver: BOOLEAN]
         \cup [o: {"use", "release"}, ref: LeaseRefs]
Requests == [by: Channels, id: Nat, op: Ops]

\* What it answers and says.
Answers == {NoAnswer, Done, Refused} \cup [r: {"controller"}, who: Controllers]
             \cup [r: {"leased"}, ref: LeaseRefs]
Outputs == [k: {"snapshot", "out"}, n: Int]
Items == Outputs \cup [k: {"resumed"}, n: Int] \cup [k: {"control"}, who: Controllers]
AnswerFrames == [f: {"answer"}, by: Channels, id: Nat, a: Answers]
ItemFrames == [f: {"item"}, s: Nat, item: Items]
Frames == AnswerFrames \cup ItemFrames

\* What is known of a stream, and what its device was told.
Flows == [channel: Channels, held: Seq(Outputs), replied: BOOLEAN,
          start: {None, "snapshot", "resumed"}, from: Int, controller: Controllers \cup {None},
          over: BOOLEAN]
Words == ({"attached", "out", "over", "done"} \X Int) \cup ({"control"} \X Controllers)

Steps == {"unopened", "opening", "greeting", "idle", "watching", "asking", "detaching", "dropping",
          "acquiring", "using", "releasing", "closing", "lettingGo", "over"}

\* Every variable has its shape.
Shape ==
    /\ asked \in Seq(Requests) /\ wire \in Seq(Frames)
    /\ called \in [Channels -> Nat] /\ answer \in [Channels -> Answers]
    /\ pending \subseteq Channels
    /\ at \in [Channels -> Steps] /\ DOMAIN work = Channels
    /\ watched \in [Channels -> SUBSET Nat] /\ leases \in [Channels -> SUBSET LeaseRefs]
    /\ flows \in Seq(Flows) /\ told \in Seq(Seq(Words)) /\ Len(told) = Len(flows)
    /\ waiting \in [Channels -> 0 .. Room + 1]
    /\ viewers \subseteq Streams /\ watchers \subseteq Streams
    /\ control \in ControlStates /\ (control.who # "nobody" => control.left # 0)
    /\ seq \in 0 .. MaxSeq
    /\ unanswered \in [streams: SUBSET Nat, acquires: SUBSET Channels]

---------------------------------------------------------------------------
\* Sequences

\* One more at the end.
LEMMA AppendIs ==
    ASSUME NEW S, NEW q \in Seq(S), NEW x \in S
    PROVE  /\ Append(q, x) \in Seq(S) /\ Len(Append(q, x)) = Len(q) + 1 /\ Len(q) \in Nat
           /\ DOMAIN q = 1 .. Len(q) /\ DOMAIN Append(q, x) = 1 .. Len(q) + 1
           /\ \A i \in 1 .. Len(q) : Append(q, x)[i] = q[i]
           /\ Append(q, x)[Len(q) + 1] = x
  OBVIOUS

\* The first is taken.
LEMMA TailIs ==
    ASSUME NEW S, NEW q \in Seq(S), q # <<>>
    PROVE  /\ Tail(q) \in Seq(S) /\ Len(Tail(q)) = Len(q) - 1 /\ Len(q) \in Nat \ {0}
           /\ DOMAIN q = 1 .. Len(q) /\ DOMAIN Tail(q) = 1 .. Len(q) - 1
           /\ 1 \in DOMAIN q /\ Head(q) = q[1] /\ Head(q) \in S
           /\ \A i \in DOMAIN Tail(q) : Tail(q)[i] = q[i + 1] /\ i + 1 \in DOMAIN q
           /\ \A i \in DOMAIN q : i # 1 => i - 1 \in DOMAIN Tail(q) /\ Tail(q)[i - 1] = q[i]
  BY HeadTailProperties, LenProperties, EmptySeq, ElementOfSeq

\* Others follow.
LEMMA ConcatIs ==
    ASSUME NEW S, NEW q \in Seq(S), NEW r \in Seq(S)
    PROVE  /\ q \o r \in Seq(S) /\ Len(q \o r) = Len(q) + Len(r) /\ Len(q) \in Nat /\ Len(r) \in Nat
           /\ DOMAIN q = 1 .. Len(q) /\ DOMAIN (q \o r) = 1 .. Len(q) + Len(r)
           /\ \A i \in 1 .. Len(q) : (q \o r)[i] = q[i]
           /\ \A i \in 1 .. Len(r) : (q \o r)[Len(q) + i] = r[i]
           /\ \A i \in DOMAIN (q \o r) : i \notin DOMAIN q =>
                  i - Len(q) \in 1 .. Len(r) /\ (q \o r)[i] = r[i - Len(q)]
  OBVIOUS

\* One is changed.
LEMMA ExceptIs ==
    ASSUME NEW S, NEW q \in Seq(S), NEW k \in DOMAIN q, NEW x \in S
    PROVE  /\ [q EXCEPT ![k] = x] \in Seq(S) /\ Len([q EXCEPT ![k] = x]) = Len(q)
           /\ DOMAIN [q EXCEPT ![k] = x] = DOMAIN q
           /\ [q EXCEPT ![k] = x][k] = x
           /\ \A i \in DOMAIN q : i # k => [q EXCEPT ![k] = x][i] = q[i]
  OBVIOUS

---------------------------------------------------------------------------
\* Control

\* A hold that is there has not run out.
LEMMA ControlIs ==
    ASSUME Shape
    PROVE  /\ Lapse(control) = control /\ Controller(control) = control.who
           /\ Leased(control) <=> control.who \in Holders
           /\ control.who \in Controllers /\ control.generation \in Nat /\ control.id \in Nat
  BY DEF Shape, ControlStates, Lapse, Controller, Leased

---------------------------------------------------------------------------
\* What a thread does, of its own

\* Where a thread waits for an answer, and where it has nothing of its own.
Waits == {"watching", "asking", "detaching", "dropping", "acquiring", "using", "releasing",
          "lettingGo"}
Empty == {"unopened", "opening", "greeting", "over"}

\* A thread goes to a place, with what it was answered, works on, watches and holds.
Thread(x, to, a, w, ws, ls) ==
    /\ at'[x] = to /\ answer'[x] = a /\ work'[x] = w /\ watched'[x] = ws /\ leases'[x] = ls
    /\ \A y \in Channels : y # x =>
          /\ at'[y] = at[y] /\ answer'[y] = answer[y] /\ work'[y] = work[y]
          /\ watched'[y] = watched[y] /\ leases'[y] = leases[y]

\* It asks the daemon for something, or for nothing.
Asks(x, op) ==
    /\ asked' = Append(asked, [by |-> x, id |-> called[x] + 1, op |-> op]) /\ wire' = wire
    /\ called' = [called EXCEPT ![x] = @ + 1] /\ pending' = pending \cup {x}
NoAsk == UNCHANGED <<asked, wire, called, pending>>

SameStreams == Streams' = Streams /\ \A s \in Streams : Of(s)' = Of(s)
Calm == UNCHANGED <<viewers, control, unanswered, seq>>

Stays(x, to, a) == Thread(x, to, a, work[x], watched[x], leases[x])

\* Without the daemon, from where it waits for nothing.
Walks(x) ==
    /\ at[x] \notin Waits /\ NoAsk /\ Calm /\ SameStreams
    /\ \/ \E to \in Steps \ Waits : (to \in Empty => at[x] \in Empty) /\ Stays(x, to, answer[x])
       \/ at[x] = "closing" /\ Stays(x, "lettingGo", Done)

\* With an answer, and nothing more to ask.
Learns(x) ==
    /\ Answered(x) /\ NoAsk /\ Calm /\ SameStreams
    /\ \/ /\ at[x] \in {"watching", "asking"}
          /\ Thread(x, "idle", NoAnswer, work[x], watched[x] \cup {work[x]}, leases[x])
       \/ at[x] \in {"detaching", "releasing", "dropping"} /\ Stays(x, "idle", NoAnswer)
       \/ /\ at[x] = "acquiring"
          /\ Thread(x, "idle", NoAnswer, work[x], watched[x],
                    IF answer[x].r = "leased" THEN leases[x] \cup {answer[x].ref} ELSE leases[x])
       \/ /\ at[x] = "using"
          /\ Thread(x, "idle", NoAnswer, work[x], watched[x],
                    IF answer[x] = Refused THEN leases[x] \ {work[x]} ELSE leases[x])
       \/ /\ at[x] = "lettingGo" /\ watched[x] = {} /\ leases[x] = {}
          /\ Stays(x, "over", NoAnswer)

\* A request of the device makes it ask.
AsksIdle(x) ==
    /\ at[x] = "idle" /\ Calm
    /\ \/ /\ \E after \in Int : Asks(x, [o |-> "watch", s |-> Len(flows) + 1, after |-> after])
          /\ Thread(x, "watching", answer[x], Len(flows) + 1, watched[x], leases[x])
          /\ Streams' = Streams \cup {Len(flows) + 1} /\ flows'[Len(flows) + 1].channel = x
          /\ \A s \in Streams : Of(s)' = Of(s)
       \/ \E s \in watched[x] :
          /\ Asks(x, [o |-> "detach", s |-> s]) /\ SameStreams
          /\ Thread(x, "detaching", answer[x], s, watched[x] \ {s}, leases[x])
       \/ \E takeOver \in BOOLEAN :
          /\ Asks(x, [o |-> "acquire", holder |-> DeviceOf[x], takeOver |-> takeOver])
          /\ Stays(x, "acquiring", answer[x]) /\ SameStreams
       \/ \E ref \in leases[x] :
          /\ Asks(x, [o |-> "use", ref |-> ref]) /\ SameStreams
          /\ Thread(x, "using", answer[x], ref, watched[x], leases[x])
       \/ \E ref \in leases[x] :
          /\ Asks(x, [o |-> "release", ref |-> ref]) /\ SameStreams
          /\ Thread(x, "releasing", answer[x], work[x], watched[x], leases[x] \ {ref})

\* An answer makes it ask again.
AsksOn(x) ==
    /\ Answered(x) /\ Calm /\ SameStreams
    /\ \/ at[x] = "watching" /\ Asks(x, [o |-> "controller"]) /\ Stays(x, "asking", NoAnswer)
       \/ /\ at[x] \in {"watching", "asking"} /\ Asks(x, [o |-> "detach", s |-> work[x]])
          /\ Stays(x, "dropping", NoAnswer)
       \/ \E s \in watched[x] :
          /\ at[x] = "lettingGo" /\ Asks(x, [o |-> "detach", s |-> s])
          /\ Thread(x, "lettingGo", NoAnswer, work[x], watched[x] \ {s}, leases[x])
       \/ \E ref \in leases[x] :
          /\ at[x] = "lettingGo" /\ Asks(x, [o |-> "release", ref |-> ref])
          /\ Thread(x, "lettingGo", NoAnswer, work[x], watched[x], leases[x] \ {ref})

\* It waits no longer.
StopsWaiting(x) ==
    /\ x \in pending /\ pending' = pending \ {x}
    /\ UNCHANGED <<asked, wire, called, viewers, control, seq>> /\ SameStreams
    /\ \/ /\ at[x] \in {"watching", "acquiring", "using"} /\ Stays(x, "idle", answer[x])
          /\ unanswered' =
                [streams |-> IF at[x] = "watching" THEN unanswered.streams \cup {work[x]}
                             ELSE unanswered.streams,
                 acquires |-> IF at[x] = "acquiring" THEN unanswered.acquires \cup {x}
                              ELSE unanswered.acquires]
       \/ /\ at[x] \in {"asking", "detaching", "releasing", "dropping", "lettingGo"}
          /\ Stays(x, at[x], [r |-> "controller", who |-> "nobody"]) /\ unanswered' = unanswered

\* Nothing of this changes.
Elsewhere ==
    /\ NoAsk /\ Calm /\ SameStreams
    /\ UNCHANGED <<at, answer, watched, leases>> /\ \A y \in Channels : work'[y] = work[y]

ThreadStep(x) == Walks(x) \/ Learns(x) \/ AsksIdle(x) \/ AsksOn(x) \/ StopsWaiting(x) \/ Elsewhere

---------------------------------------------------------------------------
\* Each step of a thread is one of these

\* A stream that is fed, or whose reply goes, stays that stream.
LEMMA BecomesSame ==
    ASSUME Shape, NEW s \in Streams, NEW x, x.flow.channel = Of(s), Becomes(s, x)
    PROVE  SameStreams
<1>1. DOMAIN flows = 1 .. Len(flows) /\ flows \in Seq(Flows)
  BY DEF Shape
<1>2. flows' = [flows EXCEPT ![s] = x.flow] /\ s \in DOMAIN flows
  BY <1>1 DEF Becomes, Streams
<1>3. DOMAIN flows' = DOMAIN flows /\ Len(flows') = Len(flows)
  BY <1>1, <1>2
<1>. QED  BY <1>1, <1>2, <1>3 DEF SameStreams, Streams, Of

\* A reply leaves the stream to its channel.
LEMMA RepliedSame ==
    ASSUME Shape, NEW s \in Streams, NEW who
    PROVE  Replied(s, who).flow.channel = Of(s)
<1>1. flows[s] \in Flows
  BY DEF Shape, Streams
<1>2. ASSUME NEW all PROVE [flows[s] EXCEPT !.replied = TRUE, !.held = <<>>, !.over = ~ all].channel = flows[s].channel
  BY <1>1 DEF Flows
<1>. QED  BY <1>2 DEF Replied, Of

\* A request of a device.
LEMMA RequestIs == ASSUME Shape, NEW x \in Channels, Request(x) PROVE ThreadStep(x)
<1>. USE DEF visit, ipc, daemon, connector, device, Takes
<1>1. CASE RefuseRequest(x)
  <2>1. Walks(x)
    BY <1>1 DEF RefuseRequest, Shape, Walks, Stays, Thread, NoAsk, Calm, SameStreams, Streams, Of, Waits, Empty, Steps
  <2>. QED  BY <2>1 DEF ThreadStep
<1>2. ASSUME NEW after \in {Nowhere} \cup Places(x), Attach(x, after) PROVE ThreadStep(x)
  <2>1. after \in Int
    <3>1. ASSUME NEW s \in Streams, NEW i \in DOMAIN told[s], told[s][i][1] \in {"attached", "out"}
          PROVE  told[s][i][2] \in Int
      <4>1. told[s] \in Seq(Words)
        BY DEF Shape, Streams
      <4>2. told[s][i] \in Words
        BY <4>1
      <4>. QED  BY <3>1, <4>2 DEF Words
    <3>. QED  BY <1>2, <3>1 DEF Places, Nowhere
  <2>2. /\ flows \in Seq(Flows) /\ NewFlow(x).channel = x /\ Len(flows) \in Nat
        /\ flows' = Append(flows, NewFlow(x))
        /\ DOMAIN flows = 1 .. Len(flows)
    BY <1>2 DEF Shape, Attach, NewFlow
  <2>3. NewFlow(x) \in Flows
    BY DEF NewFlow, Flows
  <2>4. /\ Streams' = Streams \cup {Len(flows) + 1} /\ flows'[Len(flows) + 1].channel = x
        /\ \A s \in Streams : Of(s)' = Of(s)
    <3>1. /\ Len(flows') = Len(flows) + 1 /\ flows'[Len(flows) + 1] = NewFlow(x)
          /\ \A s \in 1 .. Len(flows) : flows'[s] = flows[s]
      BY <2>2, <2>3
    <3>. QED  BY <2>2, <3>1 DEF Streams, Of
  <2>5. /\ Asks(x, [o |-> "watch", s |-> Len(flows) + 1,
                   after |-> IF protocol >= ResumeProtocol THEN after ELSE Nowhere])
        /\ at[x] = "idle" /\ Calm
    BY <1>2 DEF Attach, Ask, Asks, Calm
  <2>6. Thread(x, "watching", answer[x], Len(flows) + 1, watched[x], leases[x])
    BY <1>2 DEF Attach, Goes, Shape, Thread
  <2>7. (IF protocol >= ResumeProtocol THEN after ELSE Nowhere) \in Int
    BY <2>1 DEF Nowhere
  <2>8. AsksIdle(x)
    BY <2>4, <2>5, <2>6, <2>7 DEF AsksIdle
  <2>. QED  BY <2>8 DEF ThreadStep
<1>3. ASSUME NEW s \in Streams, Detach(x, s) PROVE ThreadStep(x)
  <2>1. AsksIdle(x)
    BY <1>3 DEF Detach, Ask, Goes, Shape, AsksIdle, Asks, Thread, Calm, SameStreams, Streams, Of
  <2>. QED  BY <2>1 DEF ThreadStep
<1>4. ASSUME NEW takeOver \in BOOLEAN, Acquire(x, takeOver) PROVE ThreadStep(x)
  <2>1. AsksIdle(x)
    BY <1>4 DEF Acquire, Ask, Goes, Shape, AsksIdle, Asks, Stays, Thread, Calm, SameStreams, Streams, Of
  <2>. QED  BY <2>1 DEF ThreadStep
<1>5. ASSUME NEW ref \in leases[x], Use(x, ref) PROVE ThreadStep(x)
  <2>1. AsksIdle(x)
    BY <1>5 DEF Use, Ask, Goes, Shape, AsksIdle, Asks, Stays, Thread, Calm, SameStreams, Streams, Of
  <2>. QED  BY <2>1 DEF ThreadStep
<1>6. ASSUME NEW ref \in leases[x], GiveBack(x, ref) PROVE ThreadStep(x)
  <2>1. AsksIdle(x)
    BY <1>6 DEF GiveBack, Ask, Goes, Shape, AsksIdle, Asks, Stays, Thread, Calm, SameStreams, Streams, Of
  <2>. QED  BY <2>1 DEF ThreadStep
<1>7. ASSUME NEW from, NEW to, Subscribe(x, from, to) PROVE ThreadStep(x)
  <2>1. Elsewhere
    BY <1>7 DEF Subscribe, Elsewhere, NoAsk, Calm, SameStreams, Streams, Of
  <2>. QED  BY <2>1 DEF ThreadStep
<1>8. CASE Unsubscribe(x)
  <2>1. Elsewhere
    BY <1>8 DEF Unsubscribe, Elsewhere, NoAsk, Calm, SameStreams, Streams, Of
  <2>. QED  BY <2>1 DEF ThreadStep
<1>. QED
  BY <1>1, <1>2, <1>3, <1>4, <1>5, <1>6, <1>7, <1>8 DEF Request

\* What a thread that is to have a stream works on is a stream, and its own.
WorkOurs ==
    \A x \in Channels : at[x] \in {"watching", "asking", "detaching"} =>
        work[x] \in Streams /\ Of(work[x]) = x

\* What it does with an answer.
LEMMA ReplyIs ==
    ASSUME Shape, WorkOurs, NEW x \in Channels, NEW who, Reply(x, who), Answered(x),
           at[x] \in {"watching", "asking"}, Calm,
           answer' = [answer EXCEPT ![x] = NoAnswer]
    PROVE  Learns(x) \/ AsksOn(x)
<1>1. work[x] \in Streams
  BY DEF WorkOurs
<1>2. SameStreams
  BY <1>1, RepliedSame, BecomesSame DEF Reply
<1>3. CASE Replied(work[x], who).ok
  <2>1. Learns(x)
    BY <1>2, <1>3 DEF Reply, Back, Goes, Shape, Learns, NoAsk, Stays, Thread
  <2>. QED  BY <2>1
<1>4. CASE ~ Replied(work[x], who).ok
  <2>1. AsksOn(x)
    BY <1>2, <1>4 DEF Reply, Ask, Goes, Shape, AsksOn, Asks, Stays, Thread
  <2>. QED  BY <2>1
<1>. QED  BY <1>3, <1>4

\* A thread that hears the answer it waits for is a step of its own.
LEMMA HearsIs == ASSUME Shape, WorkOurs, NEW x \in Channels, Hears(x) PROVE ThreadStep(x)
<1>. USE DEF visit, ipc, daemon, connector, device, Steady, Hear
<1>1. CASE Attached(x)
  <2>1. CASE flows[work[x]].controller = None
    <3>1. AsksOn(x)
      BY <1>1, <2>1 DEF Attached, Ask, Goes, Shape, AsksOn, Asks, Stays, Thread, Calm, SameStreams, Streams, Of
    <3>. QED  BY <3>1 DEF ThreadStep
  <2>2. CASE flows[work[x]].controller # None
    <3>1. Learns(x) \/ AsksOn(x)
      BY <1>1, <2>2, ReplyIs DEF Attached, Calm
    <3>. QED  BY <3>1 DEF ThreadStep
  <2>. QED  BY <2>1, <2>2
<1>2. CASE ToldWho(x)
  <2>1. Learns(x) \/ AsksOn(x)
    BY <1>2, ReplyIs DEF ToldWho, Calm
  <2>. QED  BY <2>1 DEF ThreadStep
<1>3. CASE Detached(x)
  <2>1. Learns(x)
    BY <1>3 DEF Detached, Back, Goes, Shape, Learns, NoAsk, Stays, Thread, Calm, SameStreams, Streams, Of
  <2>. QED  BY <2>1 DEF ThreadStep
<1>4. CASE TakesLease(x)
  <2>1. Learns(x)
    BY <1>4 DEF TakesLease, Back, Goes, Shape, Learns, NoAsk, Stays, Thread, Calm, SameStreams, Streams, Of
  <2>. QED  BY <2>1 DEF ThreadStep
<1>5. CASE Used(x)
  <2>1. Learns(x)
    BY <1>5 DEF Used, Back, Goes, Shape, Learns, NoAsk, Stays, Thread, Calm, SameStreams, Streams, Of
  <2>. QED  BY <2>1 DEF ThreadStep
<1>6. CASE Finished(x)
  <2>1. Learns(x)
    BY <1>6 DEF Finished, Back, Goes, Shape, Learns, NoAsk, Stays, Thread, Calm, SameStreams, Streams, Of
  <2>. QED  BY <2>1 DEF ThreadStep
<1>. QED  BY <1>1, <1>2, <1>3, <1>4, <1>5, <1>6 DEF Hears

\* How it begins and ends.
LEMMA EndsIs ==
    ASSUME Shape, NEW x \in Channels,
           Enter(x) \/ Greet(x) \/ Recheck(x) \/ Ends(x) \/ BeginClose(x) \/ LetsGo(x) \/ Open(x)
    PROVE  ThreadStep(x)
<1>. USE DEF visit, ipc, daemon, connector, device, Steady, Hear, Goes, Shape, Stays, Thread, NoAsk, Calm,
         SameStreams, Streams, Of, Waits, Empty, Steps
<1>1. CASE Enter(x)
  <2>1. Walks(x)
    BY <1>1 DEF Enter, Walks
  <2>. QED  BY <2>1 DEF ThreadStep
<1>2. CASE Greet(x)
  <2>1. Walks(x)
    BY <1>2 DEF Greet, Walks
  <2>. QED  BY <2>1 DEF ThreadStep
<1>3. CASE Recheck(x)
  <2>1. Walks(x)
    BY <1>3 DEF Recheck, Walks
  <2>. QED  BY <2>1 DEF ThreadStep
<1>4. CASE Ends(x)
  <2>1. Walks(x)
    BY <1>4 DEF Ends, Walks
  <2>. QED  BY <2>1 DEF ThreadStep
<1>5. CASE BeginClose(x)
  <2>1. Walks(x)
    BY <1>5 DEF BeginClose, Walks
  <2>. QED  BY <2>1 DEF ThreadStep
<1>6. ASSUME NEW s \in watched[x], LetGoOfStream(x, s) PROVE ThreadStep(x)
  <2>1. AsksOn(x)
    BY <1>6 DEF LetGoOfStream, Ask, AsksOn, Asks
  <2>. QED  BY <2>1 DEF ThreadStep
<1>7. ASSUME NEW ref \in leases[x], LetGoOfLease(x, ref) PROVE ThreadStep(x)
  <2>1. AsksOn(x)
    BY <1>7 DEF LetGoOfLease, Ask, AsksOn, Asks
  <2>. QED  BY <2>1 DEF ThreadStep
<1>8. CASE HasLetGo(x)
  <2>1. Learns(x)
    BY <1>8 DEF HasLetGo, Learns
  <2>. QED  BY <2>1 DEF ThreadStep
<1>9. CASE Open(x)
  <2>1. Walks(x)
    BY <1>9 DEF Open, Walks
  <2>. QED  BY <2>1 DEF ThreadStep
<1>. QED  BY <1>1, <1>2, <1>3, <1>4, <1>5, <1>6, <1>7, <1>8, <1>9 DEF LetsGo

\* How it stops waiting.
LEMMA GivesUpIs ==
    ASSUME Shape, NEW x \in Channels, GivesUpAsking(x) \/ GivesUpWaiting(x)
    PROVE  ThreadStep(x)
<1>. USE DEF visit, ipc, daemon, connector, device, Goes, Shape, Stays, Thread, SameStreams, Streams, Of
<1>1. CASE GivesUpAsking(x)
  <2>1. StopsWaiting(x)
    BY <1>1 DEF GivesUpAsking, GivesUp, StopsWaiting
  <2>. QED  BY <2>1 DEF ThreadStep
<1>2. CASE GivesUpWaiting(x)
  <2>1. StopsWaiting(x)
    BY <1>2 DEF GivesUpWaiting, GivesUp, StopsWaiting
  <2>. QED  BY <2>1 DEF ThreadStep
<1>. QED  BY <1>1, <1>2

\* What is sent of activity, written to the link or done by others.
LEMMA ElsewhereIs ==
    ASSUME Shape,
           \/ RecheckAll \/ Lose \/ Join \/ Reconnect \/ (\E d \in Holders : Revoke(d))
           \/ (\E kind \in {"shown", "other"} : Record(kind))
           \/ (\E x \in Channels : Shut(x) \/ Write(x) \/ FollowingEnds(x) \/ \E to : Poll(x, to))
           \/ UNCHANGED vars
    PROVE  Elsewhere
BY DEF visit, ipc, daemon, connector, device, vars, Around, Steady, Elsewhere, NoAsk, Calm, SameStreams, Streams, Of,
       RecheckAll, Lose, Join, Reconnect, Revoke, Record, Shut, Write, FollowingEnds, Poll

---------------------------------------------------------------------------
\* What the daemon says

\* The elements of a finite set in a row, each once.
LEMMA SetToSeqIs ==
    ASSUME NEW S, IsFiniteSet(S)
    PROVE  /\ SetToSeq(S) \in Seq(S)
           /\ \A i, j \in DOMAIN SetToSeq(S) : SetToSeq(S)[i] = SetToSeq(S)[j] => i = j
           /\ \A x \in S : \E i \in DOMAIN SetToSeq(S) : SetToSeq(S)[i] = x
<1>. DEFINE n == Cardinality(S)
            q == SetToSeq(S)
<1>1. n \in Nat /\ ExistsBijection(1 .. n, S)
  BY FS_CardinalityType
<1>2. PICK b : b \in Bijection(1 .. n, S)
  BY <1>1 DEF ExistsBijection
<1>3. b \in [1 .. n -> S] /\ IsInjective(b)
  BY <1>2 DEF Bijection, Injection, IsInjective
<1>4. q \in [1 .. n -> S] /\ IsInjective(q)
  BY <1>3 DEF SetToSeq
<1>5. q \in Seq(S) /\ DOMAIN q = 1 .. n
  BY <1>1, <1>4
<1>6. q \in Injection(1 .. n, S)
  BY <1>4 DEF Injection, IsInjective
<1>7. Cardinality(1 .. n) = n
  BY <1>1, FS_Interval
<1>8. q \in Surjection(1 .. n, S)
  BY <1>6, <1>7, FS_Injection
<1>9. \A x \in S : \E i \in 1 .. n : q[i] = x
  BY <1>8 DEF Surjection
<1>10. \A i, j \in DOMAIN q : q[i] = q[j] => i = j
  BY <1>4 DEF IsInjective
<1>. HIDE DEF n, q
<1>11. /\ q \in Seq(S)
       /\ \A i, j \in DOMAIN q : q[i] = q[j] => i = j
       /\ \A x \in S : \E i \in DOMAIN q : q[i] = x
  BY <1>5, <1>9, <1>10
<1>. QED  BY <1>11 DEF q

\* Every viewer is told once, and nobody else.
LEMMA ToAllIs ==
    ASSUME Shape, NEW item \in Items
    PROVE  /\ ToAll(item) \in Seq(ItemFrames)
           /\ \A i \in DOMAIN ToAll(item) : ToAll(item)[i].s \in viewers /\ ToAll(item)[i].item = item
           /\ \A i, j \in DOMAIN ToAll(item) : ToAll(item)[i].s = ToAll(item)[j].s => i = j
           /\ \A s \in viewers : \E i \in DOMAIN ToAll(item) : ToAll(item)[i] = Item(s, item)
<1>. DEFINE S == {Item(s, item) : s \in viewers}
            q == SetToSeq(S)
<1>1. viewers \subseteq Nat /\ IsFiniteSet(viewers)
  <2>1. Len(flows) \in Nat /\ viewers \in SUBSET (1 .. Len(flows))
    BY DEF Shape, Streams
  <2>2. IsFiniteSet(1 .. Len(flows))
    BY <2>1, FS_Interval
  <2>3. IsFiniteSet(viewers)
    BY <2>1, <2>2, FS_Subset
  <2>. QED  BY <2>1, <2>3
<1>2. IsFiniteSet(S)
  <2>. DEFINE g == [s \in viewers |-> Item(s, item)]
  <2>1. g \in Surjection(viewers, S)
    BY DEF Surjection
  <2>. HIDE DEF g, S
  <2>. QED  BY <1>1, <2>1, FS_Surjection
<1>3. \A x \in S : x \in ItemFrames /\ x.s \in viewers /\ x.item = item /\ x = Item(x.s, item)
  BY <1>1 DEF Item, ItemFrames
<1>4. \A s \in viewers : Item(s, item) \in S
  OBVIOUS
<1>. HIDE DEF S
<1>5. /\ q \in Seq(S)
      /\ \A i, j \in DOMAIN q : q[i] = q[j] => i = j
      /\ \A x \in S : \E i \in DOMAIN q : q[i] = x
  BY <1>2, SetToSeqIs
<1>6. \A i \in DOMAIN q : q[i] \in S
  BY <1>5
<1>7. q \in Seq(ItemFrames)
  BY <1>3, <1>5, <1>6
<1>. HIDE DEF q
<1>8. /\ q \in Seq(ItemFrames)
      /\ \A i \in DOMAIN q : q[i].s \in viewers /\ q[i].item = item
      /\ \A i, j \in DOMAIN q : q[i].s = q[j].s => i = j
      /\ \A s \in viewers : \E i \in DOMAIN q : q[i] = Item(s, item)
  <2>1. \A i \in DOMAIN q : q[i].s \in viewers /\ q[i].item = item /\ q[i] = Item(q[i].s, item)
    BY <1>3, <1>6
  <2>2. \A i, j \in DOMAIN q : q[i].s = q[j].s => i = j
    BY <1>5, <2>1
  <2>3. \A s \in viewers : \E i \in DOMAIN q : q[i] = Item(s, item)
    BY <1>4, <1>5
  <2>. QED  BY <1>7, <2>1, <2>2, <2>3
<1>. QED  BY <1>8 DEF q, S, ToAll

\* Nobody is told that nothing changed.
LEMMA AnnouncedIs ==
    ASSUME Shape, NEW before, NEW after, Controller(after) \in Controllers
    PROVE  /\ Announced(before, after) \in Seq(ItemFrames)
           /\ \A i \in DOMAIN Announced(before, after) :
                 /\ Announced(before, after)[i].s \in viewers
                 /\ Announced(before, after)[i].item = [k |-> "control", who |-> Controller(after)]
           /\ protocol >= ResumeProtocol /\ Controller(before) # Controller(after) =>
                 \A s \in viewers : \E i \in DOMAIN Announced(before, after) :
                     Announced(before, after)[i].s = s
<1>. DEFINE item == [k |-> "control", who |-> Controller(after)]
<1>1. item \in Items
  BY DEF Items
<1>2. CASE protocol >= ResumeProtocol /\ Controller(before) # Controller(after)
  <2>1. Announced(before, after) = ToAll(item)
    BY <1>2 DEF Announced
  <2>. HIDE DEF item
  <2>2. /\ ToAll(item) \in Seq(ItemFrames)
        /\ \A i \in DOMAIN ToAll(item) : ToAll(item)[i].s \in viewers /\ ToAll(item)[i].item = item
        /\ \A s \in viewers : \E i \in DOMAIN ToAll(item) : ToAll(item)[i] = Item(s, item)
    BY <1>1, ToAllIs
  <2>3. \A s : Item(s, item).s = s
    BY DEF Item
  <2>4. \A s \in viewers : \E i \in DOMAIN ToAll(item) : ToAll(item)[i].s = s
    BY <2>2, <2>3
  <2>. QED  BY <2>1, <2>2, <2>4 DEF item
<1>3. CASE ~ (protocol >= ResumeProtocol /\ Controller(before) # Controller(after))
  <2>1. Announced(before, after) = <<>>
    BY <1>3 DEF Announced
  <2>. QED  BY <1>3, <2>1
<1>. QED  BY <1>2, <1>3

\* What a new viewer is sent first.
LEMMA BeginningsAre ==
    ASSUME Shape, NEW s \in Nat, NEW after, NEW items \in Beginnings(s, after)
    PROVE  items \in Seq(ItemFrames) /\ \A i \in DOMAIN items : items[i].s = s
<1>. DEFINE whole == <<Item(s, [k |-> "snapshot", n |-> seq])>>
            first == <<Item(s, [k |-> "resumed", n |-> after])>>
            rest == [i \in 1 .. seq - after |-> Item(s, Output(after + i))]
            who == IF protocol >= ResumeProtocol
                   THEN <<Item(s, [k |-> "control", who |-> Controller(control)])>> ELSE <<>>
            F == {x \in ItemFrames : x.s = s}
<1>1. seq \in Nat
  BY BoundsAssumption DEF Shape
<1>2. \A item \in Items : Item(s, item) \in F
  BY DEF Item, ItemFrames
<1>3. whole \in Seq(F)
  BY <1>1, <1>2 DEF Items, Outputs
<1>4. who \in Seq(F)
  <2>1. [k |-> "control", who |-> Controller(control)] \in Items
    BY ControlIs DEF Items
  <2>2. Item(s, [k |-> "control", who |-> Controller(control)]) \in F
    BY <1>2, <2>1
  <2>. HIDE DEF F
  <2>3. <<>> \in Seq(F)
    OBVIOUS
  <2>4. ASSUME NEW x \in F PROVE <<x>> \in Seq(F)
    OBVIOUS
  <2>5. <<Item(s, [k |-> "control", who |-> Controller(control)])>> \in Seq(F)
    BY <2>2, <2>4
  <2>6. CASE protocol >= ResumeProtocol
    BY <2>5, <2>6
  <2>7. CASE ~ (protocol >= ResumeProtocol)
    BY <2>3, <2>7
  <2>. QED  BY <2>6, <2>7
<1>5. ASSUME after \in 0 .. seq PROVE first \in Seq(F) /\ rest \in Seq(F)
  <2>1. first \in Seq(F)
    BY <1>1, <1>2, <1>5 DEF Items
  <2>2. \A i \in 1 .. seq - after : Item(s, Output(after + i)) \in F
    BY <1>1, <1>2, <1>5 DEF Items, Outputs, Output
  <2>3. seq - after \in Nat
    BY <1>1, <1>5
  <2>. HIDE DEF F
  <2>4. rest \in [1 .. seq - after -> F]
    BY <2>2
  <2>5. rest \in Seq(F)
    BY <2>3, <2>4
  <2>. QED  BY <2>1, <2>5
<1>6. items = whole \o who \/ (after \in 0 .. seq /\ items = (first \o rest) \o who)
  BY DEF Beginnings
<1>. HIDE DEF whole, first, rest, who, F
<1>7. items \in Seq(F)
  <2>1. whole \o who \in Seq(F)
    BY <1>3, <1>4
  <2>2. ASSUME after \in 0 .. seq PROVE (first \o rest) \o who \in Seq(F)
    <3>1. first \o rest \in Seq(F)
      BY <1>5, <2>2
    <3>. QED  BY <1>4, <3>1
  <2>. QED  BY <1>6, <2>1, <2>2
<1>8. \A i \in DOMAIN items : items[i] \in F
  BY <1>7
<1>9. items \in Seq(ItemFrames)
  BY <1>7 DEF F
<1>. QED  BY <1>8, <1>9 DEF F

---------------------------------------------------------------------------
\* What the daemon and the reader do, of this

\* The daemon answers its first request, after what the request made it say.
Tells(items, a) ==
    /\ asked # <<>> /\ asked' = Tail(asked) /\ items \in Seq(ItemFrames) /\ a \in Answers
    /\ wire' = wire \o items \o <<[f |-> "answer", by |-> Head(asked).by, id |-> Head(asked).id,
                                   a |-> a]>>
    /\ UNCHANGED <<called, pending, answer, at, watched, leases, unanswered>>
    /\ (\A y \in Channels : work'[y] = work[y]) /\ SameStreams

\* It says something without being asked.
Says(items) ==
    /\ items \in Seq(ItemFrames) /\ wire' = wire \o items
    /\ UNCHANGED <<asked, called, pending, answer, at, watched, leases, viewers, unanswered>>
    /\ (\A y \in Channels : work'[y] = work[y]) /\ SameStreams

InForce == [id |-> control.id, generation |-> control.generation]

\* Control passes to another hold, of nobody or of the person at the computer.
Taken ==
    control' \in {GivenUp(control), LocalInput(control)} /\ control'.who \notin Holders

\* It serves the request.
Answering ==
    LET op == Head(asked).op IN
    \/ op.o = "watch" /\ viewers' = viewers \cup {op.s} /\ control' = control
       /\ \E items \in Seq(ItemFrames) : Tells(items, Done)
    \/ op.o = "detach" /\ viewers' = viewers \ {op.s} /\ control' = control /\ Tells(<<>>, Done)
    \/ op.o = "controller" /\ viewers' = viewers /\ control' = control
       /\ Tells(<<>>, [r |-> "controller", who |-> control.who])
    \/ op.o = "acquire" /\ viewers' = viewers
       /\ \/ control' = control /\ Tells(<<>>, Refused)
          \/ /\ control' = Acquired(control, op.holder, control.generation + 1)
             /\ \E items \in Seq(ItemFrames) : Tells(items, [r |-> "leased",
                    ref |-> [id |-> control.generation + 1, generation |-> control.generation + 1]])
    \/ op.o = "use" /\ viewers' = viewers /\ control' = control
       /\ \/ Tells(<<>>, Done)
          \/ Tells(<<>>, Refused) /\ ~ (control.who \in Holders /\ op.ref = InForce)
    \/ op.o = "release" /\ viewers' = viewers
       /\ \/ /\ control' = control /\ ~ (control.who \in Holders /\ op.ref = InForce)
             /\ \E items \in Seq(ItemFrames) : Tells(items, Refused)
          \/ control' = GivenUp(control) /\ \E items \in Seq(ItemFrames) : Tells(items, Done)

\* It speaks of itself.
Speaks ==
    \E items \in Seq(ItemFrames) : Says(items) /\ (control' = control \/ Taken)

\* The reader hands over an answer that is waited for, and nothing else of this.
Reads ==
    /\ wire # <<>> /\ wire' = Tail(wire)
    /\ UNCHANGED <<asked, called, at, watched, leases, viewers, control, unanswered>>
    /\ (\A y \in Channels : work'[y] = work[y]) /\ SameStreams
    /\ LET frame == Head(wire) IN
       \/ /\ frame.f = "answer" /\ frame.by \in pending /\ frame.id = called[frame.by]
          /\ answer' = [answer EXCEPT ![frame.by] = frame.a]
          /\ pending' = pending \ {frame.by}
       \/ /\ ~ (frame.f = "answer" /\ frame.by \in pending /\ frame.id = called[frame.by])
          /\ UNCHANGED <<answer, pending>>

\* A lease that is looked up is the one in force.
LEMMA CheckIs ==
    ASSUME Shape, NEW ref \in LeaseRefs
    PROVE  Check(control, ref) <=> control.who \in Holders /\ ref = InForce
<1>1. ref = [id |-> ref.id, generation |-> ref.generation]
  BY DEF LeaseRefs
<1>. QED  BY <1>1, ControlIs DEF Check, InForce

\* Serving a request answers it.
LEMMA ServeIs == ASSUME Shape, Serve PROVE Answering
<1>. DEFINE r == Head(asked)
            op == r.op
<1>. USE DEF visit, ipc, connector, device
<1>0. asked # <<>> /\ r \in Requests /\ op \in Ops
  <2>1. asked # <<>>
    BY DEF Serve, ServeWatch, ServeDetach, ServeController, ServeAcquire, ServeUse, ServeRelease, Serves
  <2>2. r \in Requests
    BY <2>1, TailIs DEF Shape
  <2>. QED  BY <2>1, <2>2 DEF Requests
<1>1. <<>> \in Seq(ItemFrames) /\ \A y \in Channels : UNCHANGED work => work'[y] = work[y]
  OBVIOUS
<1>2. ASSUME NEW items \in Seq(ItemFrames), NEW a \in Answers, Respond(items, a) PROVE Tells(items, a)
  BY <1>0, <1>2 DEF Respond, Tells, SameStreams, Streams, Of
<1>3. CASE ServeWatch
  <2>1. /\ op.o = "watch" /\ control' = control /\ viewers' = viewers \cup {op.s}
        /\ \E items \in Beginnings(op.s, op.after) : Respond(items, Done)
    BY <1>3 DEF ServeWatch, Serves
  <2>2. op.s \in Nat
    BY <1>0, <2>1 DEF Ops
  <2>3. PICK items \in Beginnings(op.s, op.after) : Respond(items, Done)
    BY <2>1
  <2>4. items \in Seq(ItemFrames)
    BY <2>2, BeginningsAre
  <2>5. Done \in Answers
    BY DEF Answers
  <2>6. Tells(items, Done)
    BY <1>2, <2>3, <2>4, <2>5
  <2>. QED  BY <2>1, <2>4, <2>6 DEF Answering
<1>4. CASE ServeDetach
  <2>1. /\ op.o = "detach" /\ control' = control /\ viewers' = viewers \ {op.s} /\ Respond(<<>>, Done)
    BY <1>4 DEF ServeDetach, Serves
  <2>2. Done \in Answers
    BY DEF Answers
  <2>3. Tells(<<>>, Done)
    BY <1>1, <1>2, <2>1, <2>2
  <2>. QED  BY <2>1, <2>3 DEF Answering
<1>5. CASE ServeController
  <2>1. /\ op.o = "controller" /\ control' = control /\ viewers' = viewers
        /\ Respond(<<>>, [r |-> "controller", who |-> control.who])
    BY <1>5, ControlIs DEF ServeController, Serves
  <2>2. [r |-> "controller", who |-> control.who] \in Answers
    BY ControlIs DEF Answers
  <2>3. Tells(<<>>, [r |-> "controller", who |-> control.who])
    BY <1>1, <1>2, <2>1, <2>2
  <2>. QED  BY <2>1, <2>3 DEF Answering
<1>6. CASE ServeAcquire
  <2>. DEFINE fresh == Acquired(control, op.holder, control.generation + 1)
              ref == [id |-> control.generation + 1, generation |-> control.generation + 1]
  <2>1. op.o = "acquire" /\ viewers' = viewers
    BY <1>6 DEF ServeAcquire, Serves
  <2>2. op.holder \in Holders
    BY <1>0, <2>1 DEF Ops
  <2>3. /\ fresh.id = control.generation + 1 /\ fresh.generation = control.generation + 1
        /\ fresh.left # 0 /\ Controller(fresh) = op.holder
    BY ControlIs, HoldsAssumption DEF Acquired, Controller, Lapse
  <2>4. CASE MayAcquire(control, op.holder, op.takeOver)
    <3>1. control' = fresh /\ Respond(Announced(control, fresh), [r |-> "leased", ref |-> ref])
      <4>. HIDE DEF fresh
      <4>1. [id |-> fresh.id, generation |-> fresh.generation] = ref
        BY <2>3
      <4>2. control' = fresh /\ Respond(Announced(control, fresh), [r |-> "leased",
                ref |-> [id |-> fresh.id, generation |-> fresh.generation]])
        BY <1>6, <2>4 DEF ServeAcquire, fresh
      <4>. QED  BY <4>1, <4>2
    <3>2. Announced(control, fresh) \in Seq(ItemFrames)
      BY <2>2, <2>3, AnnouncedIs DEF Controllers
    <3>3. [r |-> "leased", ref |-> ref] \in Answers
      BY ControlIs DEF Answers, LeaseRefs
    <3>4. Tells(Announced(control, fresh), [r |-> "leased", ref |-> ref])
      BY <1>2, <3>1, <3>2, <3>3
    <3>. QED  BY <2>1, <3>1, <3>2, <3>4 DEF Answering
  <2>5. CASE ~ MayAcquire(control, op.holder, op.takeOver)
    <3>1. control' = control /\ Respond(<<>>, Refused)
      BY <1>6, <2>5 DEF ServeAcquire
    <3>2. Refused \in Answers
      BY DEF Answers
    <3>3. Tells(<<>>, Refused)
      BY <1>1, <1>2, <3>1, <3>2
    <3>. QED  BY <2>1, <3>1, <3>3 DEF Answering
  <2>. QED  BY <2>4, <2>5
<1>7. CASE ServeUse
  <2>1. /\ op.o = "use" /\ control' = control /\ viewers' = viewers
        /\ Respond(<<>>, IF Check(control, op.ref) THEN Done ELSE Refused)
    BY <1>7 DEF ServeUse, Serves
  <2>2. op.ref \in LeaseRefs
    BY <1>0, <2>1 DEF Ops
  <2>3. Done \in Answers /\ Refused \in Answers
    BY DEF Answers
  <2>4. CASE Check(control, op.ref)
    <3>1. Tells(<<>>, Done)
      BY <1>1, <1>2, <2>1, <2>3, <2>4
    <3>. QED  BY <2>1, <3>1 DEF Answering
  <2>5. CASE ~ Check(control, op.ref)
    <3>1. Tells(<<>>, Refused)
      BY <1>1, <1>2, <2>1, <2>3, <2>5
    <3>2. ~ (control.who \in Holders /\ op.ref = InForce)
      BY <2>2, <2>5, CheckIs
    <3>. QED  BY <2>1, <3>1, <3>2 DEF Answering
  <2>. QED  BY <2>4, <2>5
<1>8. CASE ServeRelease
  <2>1. /\ op.o = "release" /\ viewers' = viewers /\ control' = Release(control, op.ref)
        /\ Respond(Announced(control, control'), IF Check(control, op.ref) THEN Done ELSE Refused)
    BY <1>8 DEF ServeRelease, Serves
  <2>2. op.ref \in LeaseRefs
    BY <1>0, <2>1 DEF Ops
  <2>3. Done \in Answers /\ Refused \in Answers
    BY DEF Answers
  <2>4. CASE Check(control, op.ref)
    <3>1. control' = GivenUp(control)
      BY <2>1, <2>4, ControlIs DEF Release
    <3>2. Controller(control') \in Controllers
      BY <3>1 DEF GivenUp, Controller, Lapse, Controllers
    <3>3. Announced(control, control') \in Seq(ItemFrames)
      BY <3>2, AnnouncedIs
    <3>4. Tells(Announced(control, control'), Done)
      BY <1>2, <2>1, <2>3, <2>4, <3>3
    <3>. QED  BY <2>1, <3>1, <3>3, <3>4 DEF Answering
  <2>5. CASE ~ Check(control, op.ref)
    <3>1. control' = control
      BY <2>1, <2>5, ControlIs DEF Release
    <3>2. Announced(control, control') \in Seq(ItemFrames)
      BY <3>1, AnnouncedIs, ControlIs
    <3>3. Tells(Announced(control, control'), Refused)
      BY <1>2, <2>1, <2>3, <2>5, <3>2
    <3>4. ~ (control.who \in Holders /\ op.ref = InForce)
      BY <2>2, <2>5, CheckIs
    <3>. QED  BY <2>1, <3>1, <3>2, <3>3, <3>4 DEF Answering
  <2>. QED  BY <2>4, <2>5
<1>. QED  BY <1>3, <1>4, <1>5, <1>6, <1>7, <1>8 DEF Serve

\* It prints, or control passes to somebody here.
LEMMA SpeaksIs == ASSUME Shape, Prints \/ LocalTypes \/ RunsOut PROVE Speaks
<1>. USE DEF visit, ipc, connector, device
<1>1. ASSUME NEW items \in Seq(ItemFrames), Quiet, wire' = wire \o items PROVE Says(items)
  BY <1>1 DEF Quiet, Says, SameStreams, Streams, Of
<1>2. CASE Prints
  <2>1. control' = control /\ Quiet /\ wire' = wire \o ToAll(Output(seq + 1))
    BY <1>2 DEF Prints
  <2>2. Output(seq + 1) \in Items
    BY BoundsAssumption DEF Shape, Output, Items, Outputs
  <2>3. ToAll(Output(seq + 1)) \in Seq(ItemFrames)
    BY <2>2, ToAllIs
  <2>. QED  BY <1>1, <2>1, <2>3 DEF Speaks
<1>3. CASE LocalTypes
  <2>1. control' = LocalInput(control) /\ Quiet /\ wire' = wire \o Announced(control, control')
    BY <1>3 DEF LocalTypes
  <2>2. control'.who = "local" /\ Controller(control') \in Controllers
    BY <2>1, HoldsAssumption DEF LocalInput, Controller, Lapse, Controllers
  <2>3. Announced(control, control') \in Seq(ItemFrames)
    BY <2>2, AnnouncedIs
  <2>4. Taken
    BY <2>1, <2>2, HoldersAssumption DEF Taken
  <2>. QED  BY <1>1, <2>1, <2>3, <2>4 DEF Speaks
<1>4. CASE RunsOut
  <2>1. control' = GivenUp(control) /\ Quiet /\ wire' = wire \o Announced(control, control')
    BY <1>4 DEF RunsOut
  <2>2. control'.who = "nobody" /\ Controller(control') \in Controllers
    BY <2>1 DEF GivenUp, Controller, Lapse, Controllers
  <2>3. Announced(control, control') \in Seq(ItemFrames)
    BY <2>2, AnnouncedIs
  <2>4. Taken
    BY <2>1, <2>2, HoldersAssumption DEF Taken
  <2>. QED  BY <1>1, <2>1, <2>3, <2>4 DEF Speaks
<1>. QED  BY <1>2, <1>3, <1>4

\* Where an item goes to, what the stream is then, and what was told of it.
LEMMA TakeIs ==
    ASSUME Shape, NEW s \in Streams, NEW item \in Items
    PROVE  /\ Take(At(s), item).flow \in Flows /\ Take(At(s), item).flow.channel = Of(s)
           /\ Take(At(s), item).told \in Seq(Words) /\ Take(At(s), item).waiting \in 0 .. Room + 1
<1>. DEFINE x == At(s)
            begun == [x EXCEPT !.flow.start = item.k, !.flow.from = item.n]
            Good(z) == /\ z.flow \in Flows /\ z.flow.channel = Of(s)
                       /\ z.told \in Seq(Words) /\ z.waiting \in 0 .. Room + 1
            T == [flow: Flows, told: Seq(Words), waiting: 0 .. Room + 1, ok: BOOLEAN]
            G == {z \in T : z.flow.channel = Of(s)}
<1>1. x \in G
  <2>1. flows[s] \in Flows /\ told[s] \in Seq(Words)
    BY DEF Shape, Streams
  <2>2. waiting[Of(s)] \in 0 .. Room + 1
    BY <2>1 DEF Shape, Of, Flows
  <2>. QED  BY <2>1, <2>2 DEF At, Of
<1>2. ASSUME NEW z \in G, NEW i \in Items, i.k # "resumed" PROVE Send(z, i) \in G
  <2>1. z.told \in Seq(Words) /\ z.waiting \in 0 .. Room + 1 /\ z.flow \in Flows /\ z.flow.channel = Of(s)
    OBVIOUS
  <2>2. CASE i.k = "control"
    <3>1. <<"control", i.who>> \in Words
      BY <1>2, <2>2 DEF Items, Words, Outputs
    <3>2. Append(z.told, <<"control", i.who>>) \in Seq(Words)
      BY <2>1, <3>1
    <3>. QED  BY <2>2, <3>2 DEF Send
  <2>3. CASE i.k # "control"
    <3>0. i.n \in Int
      BY <1>2, <2>3 DEF Items, Outputs
    <3>1. <<"out", i.n>> \in Words /\ <<"over", 0>> \in Words
      BY <3>0 DEF Words
    <3>2. Append(z.told, <<"out", i.n>>) \in Seq(Words) /\ Append(z.told, <<"over", 0>>) \in Seq(Words)
      BY <2>1, <3>1
    <3>3. CASE z.waiting < Room
      <4>1. z.waiting + 1 \in 0 .. Room + 1
        BY <2>1, <3>3, RoomAssumption
      <4>. QED  BY <2>3, <3>2, <3>3, <4>1 DEF Send
    <3>4. CASE ~ (z.waiting < Room)
      <4>1. [z.flow EXCEPT !.over = TRUE] \in Flows /\ [z.flow EXCEPT !.over = TRUE].channel = Of(s)
        BY <2>1 DEF Flows
      <4>2. Send(z, i) = [z EXCEPT !.told = Append(@, <<"over", 0>>), !.flow = [@ EXCEPT !.over = TRUE], !.ok = FALSE]
        BY <2>3, <3>4 DEF Send
      <4>. QED  BY <3>2, <4>1, <4>2
    <3>. QED  BY <3>3, <3>4
  <2>. QED  BY <2>2, <2>3
<1>3. ASSUME item.k \in {"snapshot", "resumed"} PROVE begun \in G
  <2>1. item.n \in Int
    BY <1>3 DEF Items, Outputs
  <2>2. [x.flow EXCEPT !.start = item.k, !.from = item.n] \in Flows
        /\ [x.flow EXCEPT !.start = item.k, !.from = item.n].channel = Of(s)
    BY <1>1, <1>3, <2>1 DEF Flows
  <2>3. begun = [x EXCEPT !.flow = [@ EXCEPT !.start = item.k, !.from = item.n]]
    BY <1>1
  <2>. QED  BY <1>1, <2>2, <2>3
<1>. HIDE DEF x
<1>. DEFINE y == IF item.k = "snapshot" THEN begun ELSE x
<1>4. y \in G
  BY <1>1, <1>3
<1>. HIDE DEF begun, y
<1>5. Take(x, item) =
        CASE x.flow.over -> [x EXCEPT !.ok = FALSE]
          [] ~ x.flow.over /\ item.k = "resumed" -> begun
          [] ~ x.flow.over /\ item.k = "control" /\ ~ x.flow.replied ->
                 [x EXCEPT !.flow.controller = item.who]
          [] ~ x.flow.over /\ item.k # "resumed" /\ x.flow.replied -> Send(y, item)
          [] OTHER -> [y EXCEPT !.flow.held = Append(@, item)]
  BY DEF Take, begun, y
<1>6. CASE x.flow.over
  <2>1. Take(x, item) = [x EXCEPT !.ok = FALSE]
    BY <1>5, <1>6
  <2>2. Take(x, item) \in G
    BY <1>1, <2>1
  <2>. QED  BY <2>2 DEF x
<1>7. CASE ~ x.flow.over /\ item.k = "resumed"
  <2>1. Take(x, item) = begun
    BY <1>5, <1>7
  <2>2. Take(x, item) \in G
    BY <1>3, <1>7, <2>1
  <2>. QED  BY <2>2 DEF x
<1>8. CASE ~ x.flow.over /\ item.k = "control" /\ ~ x.flow.replied
  <2>1. Take(x, item) = [x EXCEPT !.flow.controller = item.who]
    BY <1>5, <1>8
  <2>2. item.who \in Controllers
    BY <1>8 DEF Items, Outputs
  <2>3. [x.flow EXCEPT !.controller = item.who] \in Flows
        /\ [x.flow EXCEPT !.controller = item.who].channel = Of(s)
    BY <1>1, <2>2 DEF Flows
  <2>4. Take(x, item) = [x EXCEPT !.flow = [@ EXCEPT !.controller = item.who]]
    BY <1>1, <2>1
  <2>5. Take(x, item) \in G
    BY <1>1, <2>3, <2>4
  <2>. QED  BY <2>5 DEF x
<1>9. CASE ~ x.flow.over /\ item.k # "resumed" /\ x.flow.replied
  <2>1. Take(x, item) = Send(y, item)
    BY <1>5, <1>9
  <2>2. Take(x, item) \in G
    BY <1>2, <1>4, <1>9, <2>1
  <2>. QED  BY <2>2 DEF x
<1>10. CASE ~ x.flow.over /\ item.k \notin {"resumed", "control"} /\ ~ x.flow.replied
  <2>1. Take(x, item) = [y EXCEPT !.flow.held = Append(@, item)]
    BY <1>5, <1>10
  <2>2. item \in Outputs
    BY <1>10 DEF Items
  <2>3. y.flow.held \in Seq(Outputs)
    BY <1>4 DEF Flows
  <2>4. Append(y.flow.held, item) \in Seq(Outputs)
    BY <2>2, <2>3
  <2>5. [y.flow EXCEPT !.held = Append(@, item)] \in Flows
        /\ [y.flow EXCEPT !.held = Append(@, item)].channel = Of(s)
    BY <1>4, <2>4 DEF Flows
  <2>. DEFINE g == [y.flow EXCEPT !.held = Append(@, item)]
  <2>6. [y EXCEPT !.flow.held = Append(@, item)] = [y EXCEPT !.flow = g]
    OBVIOUS
  <2>. HIDE DEF g
  <2>7. g \in Flows /\ g.channel = Of(s)
    BY <2>5 DEF g
  <2>8. y \in T
    BY <1>4
  <2>9. [y EXCEPT !.flow = g] \in G
    BY <2>7, <2>8
  <2>10. Take(x, item) \in G
    BY <2>1, <2>6, <2>9
  <2>. QED  BY <2>10 DEF x
<1>. QED  BY <1>6, <1>7, <1>8, <1>9, <1>10

\* What the reader does is one of two things.
LEMMA ReadIs == ASSUME Shape, Read PROVE Reads
<1>. DEFINE frame == Head(wire)
<1>. USE DEF visit, daemon, connector, device
<1>1. wire # <<>> /\ wire' = Tail(wire) /\ frame \in Frames
  BY TailIs DEF Read, Shape
<1>2. /\ UNCHANGED <<asked, called, at, watched, leases, viewers, control, unanswered, work>>
      /\ IF frame.f = "answer" THEN HandOver(frame) ELSE Feed(frame)
  BY DEF Read
<1>3. CASE frame.f = "answer"
  <2>1. HandOver(frame)
    BY <1>2, <1>3
  <2>2. SameStreams
    BY <2>1 DEF HandOver, SameStreams, Streams, Of
  <2>. QED  BY <1>1, <1>2, <1>3, <2>1, <2>2 DEF HandOver, Reads
<1>4. CASE frame.f # "answer"
  <2>1. Feed(frame) /\ frame \in ItemFrames
    BY <1>1, <1>2, <1>4 DEF Frames, AnswerFrames
  <2>2. UNCHANGED <<answer, pending>>
    BY <2>1 DEF Feed
  <2>3. SameStreams
    <3>1. CASE frame.s \in watchers
      <4>1. frame.s \in Streams /\ frame.item \in Items
        BY <2>1, <3>1 DEF Shape, ItemFrames
      <4>2. Becomes(frame.s, Take(At(frame.s), frame.item))
        BY <2>1, <3>1 DEF Feed
      <4>3. Take(At(frame.s), frame.item).flow.channel = Of(frame.s)
        BY <4>1, TakeIs
      <4>. HIDE DEF frame
      <4>. QED  BY <4>1, <4>2, <4>3, BecomesSame
    <3>2. CASE frame.s \notin watchers
      BY <2>1, <3>2 DEF Feed, SameStreams, Streams, Of
    <3>. QED  BY <3>1, <3>2
  <2>. QED  BY <1>1, <1>2, <1>4, <2>2, <2>3 DEF Reads
<1>. QED  BY <1>3, <1>4

\* Every step is one of these.
LEMMA NextIs ==
    ASSUME Shape, WorkOurs, [Next]_vars
    PROVE  (\E x \in Channels : ThreadStep(x)) \/ Answering \/ Speaks \/ Reads \/ Elsewhere
<1>1. CASE Read
  BY <1>1, ReadIs
<1>2. CASE Serve
  BY <1>2, ServeIs
<1>3. CASE Prints \/ LocalTypes \/ RunsOut
  BY <1>3, SpeaksIs
<1>4. CASE RecheckAll \/ Lose \/ Join \/ Reconnect \/ (\E d \in Holders : Revoke(d))
           \/ (\E kind \in {"shown", "other"} : Record(kind)) \/ UNCHANGED vars
  BY <1>4, ElsewhereIs
<1>5. ASSUME NEW x \in Channels, Visit(x) \/ Open(x) PROVE ThreadStep(x)
  BY <1>5, RequestIs, HearsIs, EndsIs DEF Visit
<1>6. ASSUME NEW x \in Channels, GivesUpAsking(x) \/ GivesUpWaiting(x) PROVE ThreadStep(x)
  BY <1>6, GivesUpIs
<1>7. ASSUME NEW x \in Channels, FollowingEnds(x) \/ Shut(x) \/ Write(x) \/ \E to : Poll(x, to) PROVE Elsewhere
  BY <1>7, ElsewhereIs
<1>. QED  BY <1>1, <1>2, <1>3, <1>4, <1>5, <1>6, <1>7 DEF Next

---------------------------------------------------------------------------
\* What is on its way after a step

\* The requests and the frames after a request more, a request answered, and a frame read.
LEMMA AsksThen ==
    ASSUME Shape, NEW x \in Channels, NEW op \in Ops, Asks(x, op)
    PROVE  /\ asked' \in Seq(Requests) /\ Len(asked) \in Nat
           /\ DOMAIN asked = 1 .. Len(asked) /\ DOMAIN asked' = 1 .. Len(asked) + 1
           /\ \A i \in DOMAIN asked : asked'[i] = asked[i]
           /\ asked'[Len(asked) + 1] = [by |-> x, id |-> called[x] + 1, op |-> op]
           /\ wire' = wire /\ pending' = pending \cup {x} /\ called' \in [Channels -> Nat]
           /\ called'[x] = called[x] + 1 /\ \A y \in Channels : y # x => called'[y] = called[y]
<1>1. [by |-> x, id |-> called[x] + 1, op |-> op] \in Requests
  BY DEF Shape, Requests
<1>2. asked \in Seq(Requests) /\ asked' = Append(asked, [by |-> x, id |-> called[x] + 1, op |-> op])
  BY DEF Shape, Asks
<1>. DEFINE r == [by |-> x, id |-> called[x] + 1, op |-> op]
<1>. HIDE DEF r
<1>3. /\ asked' \in Seq(Requests) /\ Len(asked) \in Nat
      /\ DOMAIN asked = 1 .. Len(asked) /\ DOMAIN asked' = 1 .. Len(asked) + 1
      /\ \A i \in DOMAIN asked : asked'[i] = asked[i]
      /\ asked'[Len(asked) + 1] = r
  BY <1>1, <1>2, AppendIs DEF r
<1>. QED  BY <1>3 DEF Shape, Asks, r

\* What a step to which every viewer listens leaves of what is on its way.
LEMMA TellsThen ==
    ASSUME Shape, NEW items, NEW a, Tells(items, a)
    PROVE  /\ Head(asked) = asked[1] /\ Head(asked) \in Requests /\ 1 \in DOMAIN asked
           /\ DOMAIN asked \subseteq Int /\ DOMAIN asked' \subseteq Int
           /\ asked' \in Seq(Requests) /\ wire' \in Seq(Frames)
           /\ \A i \in DOMAIN asked' : asked'[i] = asked[i + 1] /\ i + 1 \in DOMAIN asked
           /\ \A i \in DOMAIN asked : i # 1 => i - 1 \in DOMAIN asked' /\ asked'[i - 1] = asked[i]
           /\ 1 \notin {i + 1 : i \in DOMAIN asked'}
           /\ \A i \in DOMAIN wire : i \in DOMAIN wire' /\ wire'[i] = wire[i]
           /\ \A i \in DOMAIN wire' : i \notin DOMAIN wire =>
                 \/ wire'[i].f = "item"
                 \/ /\ i = Len(wire') /\ wire'[i].f = "answer" /\ wire'[i].a = a
                    /\ wire'[i].by = Head(asked).by /\ wire'[i].id = Head(asked).id
           /\ Len(wire') \in DOMAIN wire' /\ wire'[Len(wire')].f = "answer" /\ wire'[Len(wire')].a = a
           /\ wire'[Len(wire')].by = Head(asked).by /\ wire'[Len(wire')].id = Head(asked).id
<1>. DEFINE r == Head(asked)
            frame == [f |-> "answer", by |-> r.by, id |-> r.id, a |-> a]
<1>1. /\ asked # <<>> /\ asked' = Tail(asked) /\ items \in Seq(ItemFrames) /\ a \in Answers
      /\ wire' = (wire \o items) \o <<frame>>
  BY DEF Tells
<1>2. /\ asked' \in Seq(Requests) /\ DOMAIN asked = 1 .. Len(asked) /\ Len(asked) \in Nat
      /\ DOMAIN asked' = 1 .. Len(asked) - 1 /\ 1 \in DOMAIN asked /\ Head(asked) = asked[1]
      /\ Head(asked) \in Requests
      /\ \A i \in DOMAIN asked' : asked'[i] = asked[i + 1] /\ i + 1 \in DOMAIN asked
      /\ \A i \in DOMAIN asked : i # 1 => i - 1 \in DOMAIN asked' /\ asked'[i - 1] = asked[i]
  BY <1>1, TailIs DEF Shape
<1>3. frame \in Frames /\ items \in Seq(Frames) /\ wire \in Seq(Frames)
  <2>1. frame \in AnswerFrames
    BY <1>1, <1>2 DEF AnswerFrames, Requests
  <2>2. items \in Seq(Frames)
    BY <1>1 DEF Frames
  <2>. QED  BY <2>1, <2>2 DEF Frames, Shape
<1>4. \A i \in DOMAIN items : items[i].f = "item"
  <2>1. \A i \in DOMAIN items : items[i] \in ItemFrames
    BY <1>1
  <2>. QED  BY <2>1 DEF ItemFrames
<1>5. frame.f = "answer" /\ frame.by = r.by /\ frame.id = r.id /\ frame.a = a
  OBVIOUS
<1>. HIDE DEF frame, r
<1>6. /\ wire \o items \in Seq(Frames) /\ Len(wire \o items) \in Nat
      /\ Len(wire) \in Nat /\ Len(items) \in Nat
      /\ DOMAIN wire = 1 .. Len(wire) /\ DOMAIN items = 1 .. Len(items)
      /\ DOMAIN (wire \o items) = 1 .. Len(wire \o items) /\ Len(wire \o items) = Len(wire) + Len(items)
      /\ \A i \in DOMAIN wire : (wire \o items)[i] = wire[i]
      /\ \A i \in DOMAIN (wire \o items) : i \notin DOMAIN wire =>
             i - Len(wire) \in 1 .. Len(items) /\ (wire \o items)[i] = items[i - Len(wire)]
  BY <1>3, ConcatIs
<1>. DEFINE q == wire \o items
<1>. HIDE DEF q
<1>7. wire' = Append(q, frame)
  <2>1. q \in Seq(Frames) /\ wire' = q \o <<frame>>
    BY <1>1, <1>6 DEF q
  <2>. QED  BY <1>3, <2>1
<1>8. /\ wire' \in Seq(Frames) /\ DOMAIN wire' = 1 .. Len(q) + 1 /\ Len(wire') = Len(q) + 1
      /\ \A i \in 1 .. Len(q) : wire'[i] = q[i]
      /\ wire'[Len(q) + 1] = frame
  BY <1>3, <1>6, <1>7, AppendIs DEF q
<1>9. \A i \in DOMAIN wire : i \in DOMAIN wire' /\ wire'[i] = wire[i]
  BY <1>6, <1>8 DEF q
<1>10. ASSUME NEW i \in DOMAIN wire', i \notin DOMAIN wire, i # Len(wire')
       PROVE  wire'[i].f = "item"
  <2>1. i \in DOMAIN q /\ wire'[i] = q[i]
    BY <1>6, <1>8, <1>10 DEF q
  <2>2. i - Len(wire) \in DOMAIN items /\ q[i] = items[i - Len(wire)]
    BY <1>6, <1>10, <2>1 DEF q
  <2>. QED  BY <1>4, <2>1, <2>2
<1>11. Len(wire') \in DOMAIN wire' /\ wire'[Len(wire')] = frame
  BY <1>6, <1>8 DEF q
<1>12. 1 \notin {i + 1 : i \in DOMAIN asked'}
  BY <1>2
<1>13. DOMAIN asked \subseteq Int /\ DOMAIN asked' \subseteq Int
  BY <1>2
<1>. QED  BY <1>2, <1>5, <1>8, <1>9, <1>10, <1>11, <1>12, <1>13 DEF r

\* What a step with which the daemon answers leaves of what is on its way.
LEMMA SaysThen ==
    ASSUME Shape, NEW items, Says(items)
    PROVE  /\ wire' \in Seq(Frames)
           /\ \A i \in DOMAIN wire : i \in DOMAIN wire' /\ wire'[i] = wire[i]
           /\ \A i \in DOMAIN wire' : i \notin DOMAIN wire => wire'[i].f = "item"
<1>1. items \in Seq(ItemFrames) /\ wire' = wire \o items
  BY DEF Says
<1>2. items \in Seq(Frames) /\ wire \in Seq(Frames)
  BY <1>1 DEF Shape, Frames
<1>3. \A i \in 1 .. Len(items) : items[i].f = "item"
  <2>1. \A i \in 1 .. Len(items) : items[i] \in ItemFrames
    BY <1>1
  <2>. QED  BY <2>1 DEF ItemFrames
<1>4. /\ wire' \in Seq(Frames)
      /\ DOMAIN wire = 1 .. Len(wire) /\ DOMAIN wire' = 1 .. Len(wire) + Len(items)
      /\ Len(wire) \in Nat /\ Len(items) \in Nat
      /\ \A i \in 1 .. Len(wire) : wire'[i] = wire[i]
      /\ \A i \in DOMAIN wire' : i \notin DOMAIN wire =>
             i - Len(wire) \in 1 .. Len(items) /\ wire'[i] = items[i - Len(wire)]
  BY <1>1, <1>2, ConcatIs
<1>5. \A i \in DOMAIN wire : i \in DOMAIN wire' /\ wire'[i] = wire[i]
  BY <1>4
<1>6. \A i \in DOMAIN wire' : i \notin DOMAIN wire => wire'[i].f = "item"
  BY <1>3, <1>4
<1>. QED  BY <1>4, <1>5, <1>6

\* What the reader leaves of what is on its way.
LEMMA ReadsThen ==
    ASSUME Shape, Reads
    PROVE  /\ wire' \in Seq(Frames) /\ 1 \in DOMAIN wire /\ Head(wire) = wire[1] /\ Head(wire) \in Frames
           /\ DOMAIN wire \subseteq Int /\ DOMAIN wire' \subseteq Int
           /\ \A i \in DOMAIN wire' : wire'[i] = wire[i + 1] /\ i + 1 \in DOMAIN wire
           /\ \A i \in DOMAIN wire : i # 1 => i - 1 \in DOMAIN wire' /\ wire'[i - 1] = wire[i]
           /\ 1 \notin {i + 1 : i \in DOMAIN wire'}
<1>1. wire # <<>> /\ wire' = Tail(wire) /\ wire \in Seq(Frames)
  BY DEF Reads, Shape
<1>2. /\ wire' \in Seq(Frames) /\ DOMAIN wire = 1 .. Len(wire) /\ Len(wire) \in Nat
      /\ DOMAIN wire' = 1 .. Len(wire) - 1 /\ 1 \in DOMAIN wire /\ Head(wire) = wire[1]
      /\ Head(wire) \in Frames
      /\ \A i \in DOMAIN wire' : wire'[i] = wire[i + 1] /\ i + 1 \in DOMAIN wire
      /\ \A i \in DOMAIN wire : i # 1 => i - 1 \in DOMAIN wire' /\ wire'[i - 1] = wire[i]
  BY <1>1, TailIs
<1>. QED  BY <1>2

\* What a thread's step makes of them.
Silent(x) == UNCHANGED <<asked, wire, called>> /\ pending' \in {pending, pending \ {x}}

\* A thread counts up when it asks, and at no other time.
LEMMA ThreadCalls ==
    ASSUME Shape, WorkOurs, NEW x \in Channels, ThreadStep(x)
    PROVE  Silent(x) \/ \E op \in Ops : Asks(x, op)
<1>1. CASE Walks(x) \/ Learns(x) \/ Elsewhere
  BY <1>1 DEF Walks, Learns, Elsewhere, NoAsk, Silent
<1>2. CASE StopsWaiting(x)
  BY <1>2 DEF StopsWaiting, Silent
<1>3. Len(flows) + 1 \in Nat /\ watched[x] \subseteq Nat /\ leases[x] \subseteq LeaseRefs
  BY DEF Shape
<1>4. CASE AsksIdle(x)
  <2>1. \A after \in Int : [o |-> "watch", s |-> Len(flows) + 1, after |-> after] \in Ops
    BY <1>3 DEF Ops
  <2>2. \A s \in watched[x] : [o |-> "detach", s |-> s] \in Ops
    BY <1>3 DEF Ops
  <2>3. \A takeOver \in BOOLEAN : [o |-> "acquire", holder |-> DeviceOf[x], takeOver |-> takeOver] \in Ops
    BY ChannelsAssumption DEF Ops
  <2>4. \A ref \in leases[x] : [o |-> "use", ref |-> ref] \in Ops /\ [o |-> "release", ref |-> ref] \in Ops
    BY <1>3 DEF Ops
  <2>. QED  BY <1>4, <2>1, <2>2, <2>3, <2>4 DEF AsksIdle
<1>5. CASE AsksOn(x)
  <2>1. [o |-> "controller"] \in Ops
    BY DEF Ops
  <2>2. \A s \in watched[x] : [o |-> "detach", s |-> s] \in Ops
    BY <1>3 DEF Ops
  <2>3. \A ref \in leases[x] : [o |-> "release", ref |-> ref] \in Ops
    BY <1>3 DEF Ops
  <2>4. at[x] \in {"watching", "asking"} => [o |-> "detach", s |-> work[x]] \in Ops
    BY DEF Ops, WorkOurs, Streams
  <2>. QED  BY <1>5, <2>1, <2>2, <2>3, <2>4 DEF AsksOn
<1>. QED  BY <1>1, <1>2, <1>4, <1>5 DEF ThreadStep

---------------------------------------------------------------------------
\* Requests and their answers

IsAnswer(i) == wire[i].f = "answer"

\* A thread has an answer only where it waits, and none while its request is pending.
WaitsInv ==
    \A x \in Channels :
        /\ x \in pending => answer[x] = NoAnswer /\ at[x] \in Waits
        /\ answer[x] # NoAnswer => at[x] \in Waits
        /\ at[x] \in Empty => watched[x] = {} /\ leases[x] = {}

\* No two requests are one, on their way or answered, and none was made later than the last.
CallsInv ==
    /\ \A i \in DOMAIN asked : asked[i].id <= called[asked[i].by]
    /\ \A i \in DOMAIN wire : IsAnswer(i) => wire[i].id <= called[wire[i].by]
    /\ \A i, j \in DOMAIN asked : asked[i].by = asked[j].by /\ asked[i].id = asked[j].id => i = j
    /\ \A i, j \in DOMAIN wire :
          IsAnswer(i) /\ IsAnswer(j) /\ wire[i].by = wire[j].by /\ wire[i].id = wire[j].id => i = j
    /\ \A i \in DOMAIN asked, j \in DOMAIN wire :
          IsAnswer(j) => ~ (asked[i].by = wire[j].by /\ asked[i].id = wire[j].id)

\* Waiting for an answer is kept by every step.
LEMMA WaitsNext ==
    ASSUME Shape, WorkOurs, WaitsInv,
           (\E x \in Channels : ThreadStep(x)) \/ Answering \/ Speaks \/ Reads \/ Elsewhere
    PROVE  WaitsInv'
<1>1. ASSUME NEW x \in Channels, NEW y \in Channels, ThreadStep(x)
      PROVE  /\ y \in pending' => answer'[y] = NoAnswer /\ at'[y] \in Waits
             /\ answer'[y] # NoAnswer => at'[y] \in Waits
             /\ at'[y] \in Empty => watched'[y] = {} /\ leases'[y] = {}
  <2>. USE DEF WaitsInv, Thread, Stays, NoAsk, Asks, Answered, Waits, Empty, Steps
  <2>1. CASE Walks(x)
    BY <1>1, <2>1 DEF Walks
  <2>2. CASE Learns(x)
    BY <1>1, <2>2 DEF Learns
  <2>3. CASE AsksIdle(x)
    BY <1>1, <2>3 DEF AsksIdle
  <2>4. CASE AsksOn(x)
    BY <1>1, <2>4 DEF AsksOn
  <2>5. CASE StopsWaiting(x)
    BY <1>1, <2>5 DEF StopsWaiting
  <2>6. CASE Elsewhere
    BY <1>1, <2>6 DEF Elsewhere
  <2>. QED  BY <1>1, <2>1, <2>2, <2>3, <2>4, <2>5, <2>6 DEF ThreadStep
<1>2. ASSUME Answering \/ Speaks \/ Elsewhere PROVE UNCHANGED <<pending, answer, at, watched, leases>>
  BY <1>2 DEF Answering, Speaks, Tells, Says, Elsewhere, NoAsk
<1>3. ASSUME Reads PROVE WaitsInv'
  BY <1>3 DEF Reads, WaitsInv, Shape
<1>. QED  BY <1>1, <1>2, <1>3 DEF WaitsInv

\* That requests are told apart is kept by every step.
LEMMA CallsNext ==
    ASSUME Shape, WorkOurs, CallsInv,
           (\E x \in Channels : ThreadStep(x)) \/ Answering \/ Speaks \/ Reads \/ Elsewhere
    PROVE  CallsInv'
<1>. USE DEF IsAnswer
<1>0. /\ \A i \in DOMAIN asked : asked[i] \in Requests
      /\ \A i \in DOMAIN wire : wire[i] \in Frames
      /\ called \in [Channels -> Nat]
  BY DEF Shape
<1>00. /\ \A i \in DOMAIN asked : asked[i].by \in Channels /\ asked[i].id \in Nat
       /\ \A i \in DOMAIN wire : IsAnswer(i) => wire[i].by \in Channels /\ wire[i].id \in Nat
  BY <1>0 DEF Requests, Frames, AnswerFrames, ItemFrames
<1>1. ASSUME NEW x \in Channels, ThreadStep(x) PROVE CallsInv'
  <2>1. CASE Silent(x)
    BY <2>1 DEF Silent, CallsInv
  <2>2. ASSUME NEW op \in Ops, Asks(x, op) PROVE CallsInv'
    <3>0. asked'[Len(asked) + 1] = [by |-> x, id |-> called[x] + 1, op |-> op]
      BY <2>2, AsksThen
    <3>1. /\ Len(asked) \in Nat
          /\ DOMAIN asked = 1 .. Len(asked) /\ DOMAIN asked' = 1 .. Len(asked) + 1
          /\ \A i \in DOMAIN asked : asked'[i] = asked[i]
          /\ asked'[Len(asked) + 1].by = x /\ asked'[Len(asked) + 1].id = called[x] + 1
          /\ wire' = wire
          /\ called'[x] = called[x] + 1 /\ \A y \in Channels : y # x => called'[y] = called[y]
      BY <2>2, <3>0, AsksThen
    <3>2. \A i \in DOMAIN asked' : i \in DOMAIN asked \/ i = Len(asked) + 1
      BY <3>1
    <3>3. Len(asked) + 1 \notin DOMAIN asked /\ called[x] \in Nat
      BY <1>0, <3>1
    <3>4. \A y \in Channels : called[y] \in Nat /\ called'[y] \in Nat /\ called[y] <= called'[y]
      BY <1>0, <3>1
    <3>5. \A i \in DOMAIN asked' : asked'[i].id <= called'[asked'[i].by]
      BY <1>00, <3>1, <3>2, <3>3, <3>4 DEF CallsInv
    <3>6. \A i \in DOMAIN wire : IsAnswer(i) => wire[i].id <= called'[wire[i].by]
      BY <1>00, <3>4 DEF CallsInv
    <3>7. ASSUME NEW i \in DOMAIN asked', NEW j \in DOMAIN asked',
                 asked'[i].by = asked'[j].by, asked'[i].id = asked'[j].id
          PROVE  i = j
      <4>1. ASSUME NEW k \in DOMAIN asked, asked[k].by = x PROVE asked[k].id # called[x] + 1
        BY <1>00, <3>3, <4>1 DEF CallsInv
      <4>. QED  BY <3>1, <3>2, <3>7, <4>1 DEF CallsInv
    <3>8. ASSUME NEW i \in DOMAIN asked', NEW j \in DOMAIN wire, IsAnswer(j),
                 asked'[i].by = wire[j].by, asked'[i].id = wire[j].id
          PROVE  FALSE
      <4>1. CASE i \in DOMAIN asked
        BY <3>1, <3>8, <4>1 DEF CallsInv
      <4>2. CASE i = Len(asked) + 1
        BY <1>00, <3>1, <3>3, <3>8, <4>2 DEF CallsInv
      <4>. QED  BY <3>2, <4>1, <4>2
    <3>. QED  BY <3>1, <3>5, <3>6, <3>7, <3>8 DEF CallsInv
  <2>. QED  BY <1>1, <2>1, <2>2, ThreadCalls
<1>2. ASSUME NEW items, NEW a, Tells(items, a) PROVE CallsInv'
  <2>. DEFINE r == asked[1]
  <2>1. /\ Head(asked) = r /\ 1 \in DOMAIN asked
        /\ \A i \in DOMAIN asked' : asked'[i] = asked[i + 1] /\ i + 1 \in DOMAIN asked /\ i + 1 # 1
        /\ \A i \in DOMAIN wire : i \in DOMAIN wire' /\ wire'[i] = wire[i]
        /\ \A i \in DOMAIN wire' : i \notin DOMAIN wire =>
              \/ wire'[i].f = "item"
              \/ i = Len(wire') /\ wire'[i].f = "answer" /\ wire'[i].by = r.by /\ wire'[i].id = r.id
        /\ DOMAIN asked' \subseteq Int
    BY <1>2, TellsThen
  <2>. HIDE DEF r
  <2>2. called' = called /\ r = asked[1]
    BY <1>2 DEF Tells, r
  <2>3. \A i \in DOMAIN asked' : asked'[i].id <= called'[asked'[i].by]
    BY <2>1, <2>2 DEF CallsInv
  <2>4. \A i \in DOMAIN wire' : wire'[i].f = "answer" => wire'[i].id <= called'[wire'[i].by]
    BY <2>1, <2>2 DEF CallsInv
  <2>5. \A i, j \in DOMAIN asked' : asked'[i].by = asked'[j].by /\ asked'[i].id = asked'[j].id => i = j
    BY <2>1 DEF CallsInv
  <2>6. ASSUME NEW i \in DOMAIN wire', NEW j \in DOMAIN wire', wire'[i].f = "answer", wire'[j].f = "answer",
               wire'[i].by = wire'[j].by, wire'[i].id = wire'[j].id
        PROVE  i = j
    BY <2>1, <2>2, <2>6 DEF CallsInv
  <2>7. ASSUME NEW i \in DOMAIN asked', NEW j \in DOMAIN wire', wire'[j].f = "answer",
               asked'[i].by = wire'[j].by, asked'[i].id = wire'[j].id
        PROVE  FALSE
    BY <2>1, <2>2, <2>7 DEF CallsInv
  <2>. QED  BY <2>3, <2>4, <2>5, <2>6, <2>7 DEF CallsInv
<1>3. ASSUME NEW items, Says(items) PROVE CallsInv'
  <2>1. /\ \A i \in DOMAIN wire : i \in DOMAIN wire' /\ wire'[i] = wire[i]
        /\ \A i \in DOMAIN wire' : i \notin DOMAIN wire => wire'[i].f = "item"
        /\ asked' = asked /\ called' = called
    BY <1>3, SaysThen DEF Says
  <2>. QED  BY <2>1 DEF CallsInv
<1>4. CASE Reads
  <2>1. /\ \A i \in DOMAIN wire' : wire'[i] = wire[i + 1] /\ i + 1 \in DOMAIN wire
        /\ asked' = asked /\ called' = called /\ DOMAIN wire' \subseteq Int
    BY <1>4, ReadsThen DEF Reads
  <2>. QED  BY <2>1 DEF CallsInv
<1>5. CASE Elsewhere
  BY <1>5 DEF Elsewhere, NoAsk, CallsInv
<1>. QED  BY <1>1, <1>2, <1>3, <1>4, <1>5 DEF Answering, Speaks

---------------------------------------------------------------------------
\* Streams

Watches(r, s) == r.op.o = "watch" /\ r.op.s = s
Detaches(r, s) == r.op = [o |-> "detach", s |-> s]

\* Whose a stream is: a thread that attaches it, a channel that watches it, a request to leave it;
\* or the daemon does not feed it and is not asked to.
Kept(s) ==
    \/ at[Of(s)] \in {"watching", "asking"} /\ work[Of(s)] = s
    \/ s \in watched[Of(s)]
    \/ \E i \in DOMAIN asked : Detaches(asked[i], s)
    \/ s \notin viewers /\ \A i \in DOMAIN asked : ~ Watches(asked[i], s)

\* What is asked about are streams, what a channel watches is its own, and a stream is not watched
\* any more after it was left.
OrderInv ==
    /\ \A i \in DOMAIN asked : asked[i].op.o \in {"watch", "detach"} => asked[i].op.s \in Streams
    /\ \A x \in Channels : \A s \in watched[x] : s \in Streams /\ Of(s) = x
    /\ \A i, j \in DOMAIN asked : \A s \in Streams :
          Watches(asked[i], s) /\ Detaches(asked[j], s) => i < j

KeptInv == \A s \in Streams : s \notin unanswered.streams => Kept(s)

StreamsInv == WorkOurs /\ OrderInv /\ KeptInv

\* A stream belongs to a channel.
LEMMA OfIs == ASSUME Shape PROVE /\ \A s \in Streams : Of(s) \in Channels /\ s \in Nat
                                 /\ Len(flows) + 1 \notin Streams /\ Len(flows) \in Nat
<1>1. \A s \in Streams : flows[s] \in Flows
  BY DEF Shape, Streams
<1>2. Len(flows) \in Nat
  BY DEF Shape
<1>. QED  BY <1>1, <1>2 DEF Of, Flows, Streams

\* That what a channel works on is its own is kept by every step.
LEMMA WorkNext ==
    ASSUME Shape, WorkOurs, OrderInv,
           (\E x \in Channels : ThreadStep(x)) \/ Answering \/ Speaks \/ Reads \/ Elsewhere
    PROVE  WorkOurs' /\ \A x \in Channels : \A s \in watched'[x] : s \in Streams' /\ flows'[s].channel = x
<1>0. SameStreams => \A s \in Streams : s \in Streams' /\ flows'[s].channel = flows[s].channel
  BY DEF SameStreams, Of
<1>1. ASSUME NEW x \in Channels, ThreadStep(x),
             NEW y \in Channels
      PROVE  /\ at'[y] \in {"watching", "asking", "detaching"} => work'[y] \in Streams' /\ flows'[work'[y]].channel = y
             /\ \A s \in watched'[y] : s \in Streams' /\ flows'[s].channel = y
  <2>. USE DEF WorkOurs, OrderInv, Thread, Stays, Of, Waits
  <2>1. CASE Walks(x)
    BY <1>0, <1>1, <2>1 DEF Walks
  <2>2. CASE Learns(x)
    BY <1>0, <1>1, <2>2 DEF Learns
  <2>3. CASE AsksIdle(x)
    <3>1. \A s \in Streams : s \in Streams' /\ flows'[s].channel = flows[s].channel
      BY <1>0, <2>3 DEF AsksIdle
    <3>2. /\ at'[x] \in {"watching", "detaching"} => work'[x] \in Streams' /\ flows'[work'[x]].channel = x
          /\ watched'[x] \subseteq watched[x]
      <4>1. CASE /\ at'[x] = "watching" /\ work'[x] = Len(flows) + 1 /\ watched'[x] = watched[x]
                 /\ Streams' = Streams \cup {Len(flows) + 1} /\ flows'[Len(flows) + 1].channel = x
        BY <4>1
      <4>2. ASSUME NEW s \in watched[x], at'[x] = "detaching", work'[x] = s, watched'[x] = watched[x] \ {s}
            PROVE  /\ work'[x] \in Streams' /\ flows'[work'[x]].channel = x
                   /\ watched'[x] \subseteq watched[x]
        BY <3>1, <4>2
      <4>3. CASE at'[x] \notin {"watching", "detaching"} /\ watched'[x] = watched[x]
        BY <4>3
      <4>. QED  BY <2>3, <4>1, <4>2, <4>3 DEF AsksIdle
    <3>3. at'[x] # "asking"
      BY <2>3 DEF AsksIdle
    <3>4. y # x => at'[y] = at[y] /\ work'[y] = work[y] /\ watched'[y] = watched[y]
      BY <2>3 DEF AsksIdle
    <3>. QED  BY <3>1, <3>2, <3>3, <3>4
  <2>4. CASE AsksOn(x)
    <3>1. \A s \in Streams : s \in Streams' /\ flows'[s].channel = flows[s].channel
      BY <1>0, <2>4 DEF AsksOn
    <3>2. at'[x] = "asking" => at[x] = "watching" /\ work'[x] = work[x]
      BY <2>4 DEF AsksOn
    <3>3. at'[x] \notin {"watching", "detaching"} /\ watched'[x] \subseteq watched[x]
      BY <2>4 DEF AsksOn
    <3>4. y # x => at'[y] = at[y] /\ work'[y] = work[y] /\ watched'[y] = watched[y]
      BY <2>4 DEF AsksOn
    <3>. QED  BY <3>1, <3>2, <3>3, <3>4
  <2>5. CASE StopsWaiting(x)
    BY <1>0, <1>1, <2>5 DEF StopsWaiting
  <2>6. CASE Elsewhere
    BY <1>0, <1>1, <2>6 DEF Elsewhere
  <2>. QED  BY <1>1, <2>1, <2>2, <2>3, <2>4, <2>5, <2>6 DEF ThreadStep
<1>2. ASSUME Answering \/ Speaks \/ Reads \/ Elsewhere
      PROVE  UNCHANGED <<at, watched>> /\ (\A y \in Channels : work'[y] = work[y]) /\ SameStreams
  BY <1>2 DEF Answering, Speaks, Tells, Says, Reads, Elsewhere
<1>3. ASSUME Answering \/ Speaks \/ Reads \/ Elsewhere, NEW y \in Channels
      PROVE  /\ at'[y] \in {"watching", "asking", "detaching"} => work'[y] \in Streams' /\ flows'[work'[y]].channel = y
             /\ \A s \in watched'[y] : s \in Streams' /\ flows'[s].channel = y
  BY <1>0, <1>2, <1>3 DEF WorkOurs, OrderInv, Of
<1>. QED  BY <1>1, <1>3 DEF WorkOurs, Of

\* What a thread asks for.
Asked(x, op) ==
    /\ Asks(x, op) /\ op \in Ops /\ x \notin pending
    /\ op.o \in {"watch", "detach"} => op.s \in Streams'
    /\ op.o = "watch" => op.s \notin Streams
    /\ op.o = "acquire" => op.holder = DeviceOf[x] /\ at'[x] = "acquiring"
    /\ at'[x] = "using" => op = [o |-> "use", ref |-> work'[x]]
    /\ at'[x] = "asking" => op.o = "controller"

\* What is asked after a step was asked before, or is the request of the step.
LEMMA AskedIs ==
    ASSUME Shape, WaitsInv, WorkOurs, OrderInv, NEW x \in Channels, ThreadStep(x)
    PROVE  Silent(x) \/ \E op : Asked(x, op)
<1>0. Len(flows) + 1 \in Nat /\ watched[x] \subseteq Nat /\ leases[x] \subseteq LeaseRefs
      /\ DeviceOf[x] \in Holders
  BY ChannelsAssumption DEF Shape
<1>. USE DEF Thread, Stays
<1>1. CASE Walks(x) \/ Learns(x) \/ Elsewhere
  BY <1>1 DEF Walks, Learns, Elsewhere, NoAsk, Silent
<1>2. CASE StopsWaiting(x)
  BY <1>2 DEF StopsWaiting, Silent
<1>3. CASE AsksIdle(x)
  <2>0. x \notin pending
    BY <1>3 DEF WaitsInv, Waits, AsksIdle
  <2>1. ASSUME NEW after \in Int, Asks(x, [o |-> "watch", s |-> Len(flows) + 1, after |-> after]),
               at'[x] = "watching", Streams' = Streams \cup {Len(flows) + 1}
        PROVE  Asked(x, [o |-> "watch", s |-> Len(flows) + 1, after |-> after])
    BY <1>0, <2>0, <2>1, OfIs DEF Asked, Ops
  <2>2. ASSUME NEW s \in watched[x], Asks(x, [o |-> "detach", s |-> s]), at'[x] = "detaching", SameStreams
        PROVE  Asked(x, [o |-> "detach", s |-> s])
    BY <1>0, <2>0, <2>2 DEF Asked, Ops, OrderInv, SameStreams
  <2>3. ASSUME NEW t \in BOOLEAN, Asks(x, [o |-> "acquire", holder |-> DeviceOf[x], takeOver |-> t]),
               at'[x] = "acquiring"
        PROVE  Asked(x, [o |-> "acquire", holder |-> DeviceOf[x], takeOver |-> t])
    BY <1>0, <2>0, <2>3 DEF Asked, Ops
  <2>4. ASSUME NEW ref \in leases[x], Asks(x, [o |-> "use", ref |-> ref]), work'[x] = ref, at'[x] = "using"
        PROVE  Asked(x, [o |-> "use", ref |-> ref])
    BY <1>0, <2>0, <2>4 DEF Asked, Ops
  <2>5. ASSUME NEW ref \in leases[x], Asks(x, [o |-> "release", ref |-> ref]), at'[x] = "releasing"
        PROVE  Asked(x, [o |-> "release", ref |-> ref])
    BY <1>0, <2>0, <2>5 DEF Asked, Ops
  <2>. QED  BY <1>3, <2>1, <2>2, <2>3, <2>4, <2>5 DEF AsksIdle
<1>4. CASE AsksOn(x)
  <2>0. x \notin pending
    BY <1>4 DEF WaitsInv, Answered, AsksOn
  <2>1. ASSUME Asks(x, [o |-> "controller"]), at'[x] = "asking"
        PROVE  Asked(x, [o |-> "controller"])
    BY <2>0, <2>1 DEF Asked, Ops
  <2>2. ASSUME at[x] \in {"watching", "asking"}, Asks(x, [o |-> "detach", s |-> work[x]]), at'[x] = "dropping",
               SameStreams
        PROVE  Asked(x, [o |-> "detach", s |-> work[x]])
    <3>1. work[x] \in Streams /\ work[x] \in Nat
      BY <2>2, OfIs DEF WorkOurs
    <3>. QED  BY <2>0, <2>2, <3>1 DEF Asked, Ops, SameStreams
  <2>3. ASSUME NEW s \in watched[x], Asks(x, [o |-> "detach", s |-> s]), at'[x] = "lettingGo", SameStreams
        PROVE  Asked(x, [o |-> "detach", s |-> s])
    BY <1>0, <2>0, <2>3 DEF Asked, Ops, OrderInv, SameStreams
  <2>4. ASSUME NEW ref \in leases[x], Asks(x, [o |-> "release", ref |-> ref]), at'[x] = "lettingGo"
        PROVE  Asked(x, [o |-> "release", ref |-> ref])
    BY <1>0, <2>0, <2>4 DEF Asked, Ops
  <2>. QED  BY <1>4, <2>1, <2>2, <2>3, <2>4 DEF AsksOn
<1>. QED  BY <1>1, <1>2, <1>3, <1>4 DEF ThreadStep

\* That watching comes before leaving is kept by every step.
LEMMA OrderNext ==
    ASSUME Shape, WaitsInv, WorkOurs, OrderInv,
           (\E x \in Channels : ThreadStep(x)) \/ Answering \/ Speaks \/ Reads \/ Elsewhere
    PROVE  OrderInv'
<1>1. \A x \in Channels : \A s \in watched'[x] : s \in Streams' /\ Of(s)' = x
  BY WorkNext DEF Of
<1>2. Streams \subseteq Streams'
  BY DEF ThreadStep, Walks, Learns, AsksIdle, AsksOn, StopsWaiting, Answering, Speaks, Tells, Says, Reads, Elsewhere,
         SameStreams
<1>. DEFINE Rest == /\ \A i \in DOMAIN asked' : asked'[i].op.o \in {"watch", "detach"} => asked'[i].op.s \in Streams'
                    /\ \A i, j \in DOMAIN asked' : \A s \in Streams' :
                           Watches(asked'[i], s) /\ Detaches(asked'[j], s) => i < j
<1>3. ASSUME NEW x \in Channels, ThreadStep(x) PROVE Rest
  <2>1. CASE Silent(x)
    <3>1. asked' = asked
      BY <2>1 DEF Silent
    <3>2. \A i \in DOMAIN asked : asked[i].op.o = "watch" => asked[i].op.s \in Streams
      BY DEF OrderInv
    <3>. QED  BY <1>2, <3>1, <3>2 DEF OrderInv, Watches
  <2>2. ASSUME NEW op, Asked(x, op) PROVE Rest
    <3>1. /\ Asks(x, op) /\ op \in Ops
          /\ op.o \in {"watch", "detach"} => op.s \in Streams'
          /\ op.o = "watch" => op.s \notin Streams
      BY <2>2 DEF Asked
    <3>0. asked'[Len(asked) + 1] = [by |-> x, id |-> called[x] + 1, op |-> op]
      BY <3>1, AsksThen
    <3>2. /\ Len(asked) \in Nat
          /\ DOMAIN asked = 1 .. Len(asked) /\ DOMAIN asked' = 1 .. Len(asked) + 1
          /\ \A i \in DOMAIN asked : asked'[i] = asked[i]
          /\ asked'[Len(asked) + 1].op = op
      BY <3>0, <3>1, AsksThen
    <3>3. \A i \in DOMAIN asked' : i \in DOMAIN asked \/ i = Len(asked) + 1
      BY <3>2
    <3>4. \A i \in DOMAIN asked' : asked'[i].op.o \in {"watch", "detach"} => asked'[i].op.s \in Streams'
      BY <1>2, <3>1, <3>2, <3>3 DEF OrderInv
    <3>5. ASSUME NEW i \in DOMAIN asked', NEW j \in DOMAIN asked', NEW s \in Streams',
                 Watches(asked'[i], s), Detaches(asked'[j], s)
          PROVE  i < j
      <4>1. CASE i \in DOMAIN asked /\ j \in DOMAIN asked
        <5>1. s \in Streams
          BY <3>2, <3>5, <4>1 DEF OrderInv, Watches
        <5>. QED  BY <3>2, <3>5, <4>1, <5>1 DEF OrderInv
      <4>2. CASE i \in DOMAIN asked /\ j = Len(asked) + 1
        BY <3>2, <4>2
      <4>3. CASE i = Len(asked) + 1 /\ j \in DOMAIN asked
        <5>1. s \in Streams
          BY <3>2, <3>5, <4>3 DEF OrderInv, Detaches
        <5>2. op.o = "watch" /\ op.s = s
          BY <3>2, <3>5, <4>3 DEF Watches
        <5>. QED  BY <3>1, <5>1, <5>2
      <4>4. CASE i = Len(asked) + 1 /\ j = Len(asked) + 1
        BY <3>2, <3>5, <4>4 DEF Watches, Detaches
      <4>. QED  BY <3>3, <4>1, <4>2, <4>3, <4>4
    <3>. QED  BY <3>4, <3>5
  <2>. QED  BY <1>3, <2>1, <2>2, AskedIs
<1>4. ASSUME NEW items, NEW a, Tells(items, a) PROVE Rest
  <2>1. /\ \A i \in DOMAIN asked' : asked'[i] = asked[i + 1] /\ i + 1 \in DOMAIN asked
        /\ DOMAIN asked' \subseteq Int
    BY <1>4, TellsThen
  <2>2. Streams' = Streams
    BY <1>4 DEF Tells, SameStreams
  <2>. QED  BY <2>1, <2>2 DEF OrderInv, Watches, Detaches
<1>5. ASSUME Speaks \/ Reads \/ Elsewhere PROVE Rest
  <2>1. asked' = asked /\ Streams' = Streams
    BY <1>5 DEF Speaks, Says, Reads, Elsewhere, NoAsk, SameStreams
  <2>. QED  BY <2>1 DEF OrderInv, Watches, Detaches
<1>6. Rest
  BY <1>3, <1>4, <1>5 DEF Answering
<1>. QED  BY <1>1, <1>6 DEF OrderInv, Watches, Detaches

\* A stream stays kept when its thread, what is asked and what is viewed say so.
LEMMA KeptNext ==
    ASSUME Shape, WaitsInv, StreamsInv,
           (\E x \in Channels : ThreadStep(x)) \/ Answering \/ Speaks \/ Reads \/ Elsewhere
    PROVE  KeptInv'
<1>0. WorkOurs /\ OrderInv /\ KeptInv
  BY DEF StreamsInv
<1>. DEFINE P1(s) == at[Of(s)] \in {"watching", "asking"} /\ work[Of(s)] = s
            P2(s) == s \in watched[Of(s)]
            P3(s) == \E i \in DOMAIN asked : Detaches(asked[i], s)
            P4(s) == s \notin viewers /\ \A i \in DOMAIN asked : ~ Watches(asked[i], s)
            Q1(s) == at'[Of(s)'] \in {"watching", "asking"} /\ work'[Of(s)'] = s
            Q2(s) == s \in watched'[Of(s)']
            Q3(s) == \E i \in DOMAIN asked' : Detaches(asked'[i], s)
            Q4(s) == s \notin viewers' /\ \A i \in DOMAIN asked' : ~ Watches(asked'[i], s)
<1>1. ASSUME NEW s, Q1(s) \/ Q2(s) \/ Q3(s) \/ Q4(s) PROVE Kept(s)'
  BY <1>1 DEF Kept, Of, Detaches, Watches
<1>2. ASSUME NEW s \in Streams, s \notin unanswered.streams PROVE P1(s) \/ P2(s) \/ P3(s) \/ P4(s)
  BY <1>0, <1>2 DEF KeptInv, Kept
<1>3. ASSUME NEW x \in Channels, ThreadStep(x), NEW s \in Streams', s \notin unanswered'.streams
      PROVE  Q1(s) \/ Q2(s) \/ Q3(s) \/ Q4(s)
  <2>1. CASE Silent(x)
    <3>1. asked' = asked
      BY <2>1 DEF Silent
    <3>2. P3(s) => Q3(s)
      BY <3>1
    <3>3. \/ Walks(x) /\ unanswered' = unanswered
          \/ Learns(x) /\ unanswered' = unanswered
          \/ StopsWaiting(x)
          \/ Elsewhere /\ unanswered' = unanswered
      <4>1. CASE AsksIdle(x) \/ AsksOn(x)
        <5>1. \E op : asked' = Append(asked, op)
          BY <4>1 DEF AsksIdle, AsksOn, Asks
        <5>2. PICK op : asked' = Append(asked, op)
          BY <5>1
        <5>3. Len(asked') = Len(asked) + 1 /\ Len(asked) \in Nat
          BY <5>2 DEF Shape
        <5>. QED  BY <3>1, <5>3
      <4>. QED  BY <1>3, <4>1 DEF ThreadStep, Walks, Learns, Elsewhere, Calm
    <3>4. s \in Streams /\ Of(s)' = Of(s) /\ viewers' = viewers
      BY <3>3 DEF Walks, Learns, StopsWaiting, Elsewhere, Calm, SameStreams
    <3>5. Of(s) \in Channels
      BY <3>4, OfIs
    <3>6. P4(s) => Q4(s)
      BY <3>1, <3>4
    <3>7. s \notin unanswered.streams
      BY <1>3, <3>3 DEF StopsWaiting
    <3>8. Of(s) # x => (P1(s) => Q1(s)) /\ (P2(s) => Q2(s))
      BY <3>3, <3>4, <3>5 DEF Walks, Learns, StopsWaiting, Elsewhere, Thread, Stays
    <3>9. Of(s) = x /\ P1(s) => Q1(s) \/ Q2(s)
      BY <1>3, <3>3, <3>4, <3>5 DEF Walks, Learns, StopsWaiting, Elsewhere, Thread, Stays, Waits
    <3>10. Of(s) = x /\ P2(s) => Q2(s)
      BY <3>3, <3>4, <3>5 DEF Walks, Learns, StopsWaiting, Elsewhere, Thread, Stays
    <3>. HIDE DEF P1, P2, P3, P4, Q1, Q2, Q3, Q4
    <3>. QED  BY <1>2, <3>2, <3>4, <3>6, <3>7, <3>8, <3>9, <3>10
  <2>2. ASSUME NEW op, Asked(x, op) PROVE Q1(s) \/ Q2(s) \/ Q3(s) \/ Q4(s)
    <3>0. asked'[Len(asked) + 1] = [by |-> x, id |-> called[x] + 1, op |-> op]
      BY <2>2, AsksThen DEF Asked
    <3>1. /\ DOMAIN asked = 1 .. Len(asked) /\ DOMAIN asked' = 1 .. Len(asked) + 1
          /\ \A i \in DOMAIN asked : asked'[i] = asked[i] /\ i \in DOMAIN asked'
          /\ asked'[Len(asked) + 1].op = op /\ Len(asked) + 1 \in DOMAIN asked'
          /\ \A i \in DOMAIN asked' : i \in DOMAIN asked \/ i = Len(asked) + 1
      <4>1. /\ DOMAIN asked = 1 .. Len(asked) /\ DOMAIN asked' = 1 .. Len(asked) + 1
            /\ \A i \in DOMAIN asked : asked'[i] = asked[i]
            /\ Len(asked) \in Nat
        BY <2>2, AsksThen DEF Asked
      <4>. QED  BY <3>0, <4>1
    <3>2. AsksIdle(x) \/ AsksOn(x)
      <4>1. CASE Walks(x) \/ Learns(x) \/ StopsWaiting(x) \/ Elsewhere
        <5>1. asked' = asked
          BY <4>1 DEF Walks, Learns, StopsWaiting, Elsewhere, NoAsk
        <5>2. Len(asked) \in Nat
          BY DEF Shape
        <5>. QED  BY <3>1, <5>1, <5>2
      <4>. QED  BY <1>3, <4>1 DEF ThreadStep
    <3>3. viewers' = viewers /\ unanswered' = unanswered
      BY <3>2 DEF AsksIdle, AsksOn, Calm
    <3>4. CASE s \notin Streams
      <4>1. AsksIdle(x) /\ s = Len(flows) + 1 /\ Streams' # Streams
        BY <1>3, <3>2, <3>4 DEF AsksIdle, AsksOn, SameStreams
      <4>2. at'[x] = "watching" /\ work'[x] = s /\ flows'[s].channel = x
        BY <4>1 DEF AsksIdle, Thread, SameStreams
      <4>. QED  BY <4>2 DEF Of
    <3>5. CASE s \in Streams
      <4>1. Of(s)' = Of(s) /\ Of(s) \in Channels
        BY <3>2, <3>5, OfIs DEF AsksIdle, AsksOn, SameStreams
      <4>2. P3(s) => Q3(s)
        BY <3>1
      <4>3. P4(s) => Q4(s)
        <5>1. ~ Watches([by |-> x, id |-> called[x] + 1, op |-> op], s)
          BY <2>2, <3>5 DEF Watches, Asked
        <5>. QED  BY <3>0, <3>1, <3>3, <5>1
      <4>4. Of(s) # x => (P1(s) => Q1(s)) /\ (P2(s) => Q2(s))
        <5>1. Of(s) # x => /\ at'[Of(s)] = at[Of(s)] /\ work'[Of(s)] = work[Of(s)]
                           /\ watched'[Of(s)] = watched[Of(s)]
          BY <3>2, <4>1 DEF AsksIdle, AsksOn, Thread, Stays
        <5>. QED  BY <4>1, <5>1
      <4>5. ASSUME NEW p, Asks(x, p), Detaches([op |-> p], s) PROVE Q3(s)
        <5>1. asked'[Len(asked) + 1] = [by |-> x, id |-> called[x] + 1, op |-> p]
          <6>. DEFINE r == [by |-> x, id |-> called[x] + 1, op |-> p]
          <6>1. asked' = Append(asked, r) /\ asked \in Seq(Requests)
            BY <4>5 DEF Asks, Shape
          <6>. HIDE DEF r
          <6>2. asked'[Len(asked) + 1] = r
            BY <6>1
          <6>. QED  BY <6>2 DEF r
        <5>2. Detaches(asked'[Len(asked) + 1], s)
          BY <4>5, <5>1 DEF Detaches
        <5>. QED  BY <3>1, <5>2
      <4>6. Of(s) = x /\ P1(s) => Q1(s) \/ Q3(s)
        <5>1. ASSUME Of(s) = x, P1(s) PROVE Q1(s) \/ Q3(s)
          <6>1. AsksOn(x) /\ at[x] \in {"watching", "asking"} /\ work[x] = s
            BY <3>2, <5>1 DEF AsksIdle
          <6>2. CASE at'[x] = "asking" /\ work'[x] = work[x]
            BY <4>1, <5>1, <6>2
          <6>3. CASE Asks(x, [o |-> "detach", s |-> work[x]])
            BY <4>5, <6>1, <6>3 DEF Detaches
          <6>. QED  BY <6>1, <6>2, <6>3 DEF AsksOn, Stays, Thread
        <5>. QED  BY <5>1
      <4>7. Of(s) = x /\ P2(s) => Q2(s) \/ Q3(s)
        <5>1. ASSUME Of(s) = x, P2(s) PROVE Q2(s) \/ Q3(s)
          <6>1. CASE s \in watched'[x]
            BY <4>1, <5>1, <6>1
          <6>2. CASE s \notin watched'[x]
            <7>1. Asks(x, [o |-> "detach", s |-> s])
              <8>1. CASE AsksIdle(x)
                BY <5>1, <6>2, <8>1 DEF AsksIdle, Stays, Thread
              <8>2. CASE AsksOn(x)
                BY <5>1, <6>2, <8>2 DEF AsksOn, Stays, Thread
              <8>. QED  BY <3>2, <8>1, <8>2
            <7>. QED  BY <4>5, <7>1 DEF Detaches
          <6>. QED  BY <6>1, <6>2
        <5>. QED  BY <5>1
      <4>. HIDE DEF P1, P2, P3, P4, Q1, Q2, Q3, Q4
      <4>. QED  BY <1>2, <1>3, <3>3, <3>5, <4>2, <4>3, <4>4, <4>6, <4>7
    <3>. QED  BY <3>4, <3>5
  <2>. QED  BY <1>0, <1>3, <2>1, <2>2, AskedIs
<1>4. ASSUME Answering \/ Speaks \/ Reads \/ Elsewhere
      PROVE  /\ UNCHANGED <<at, watched, unanswered>> /\ (\A y \in Channels : work'[y] = work[y])
             /\ SameStreams
  BY <1>4 DEF Answering, Speaks, Tells, Says, Reads, Elsewhere, Calm
<1>5. ASSUME Answering \/ Speaks \/ Reads \/ Elsewhere, NEW s \in Streams
      PROVE  (P1(s) => Q1(s)) /\ (P2(s) => Q2(s))
  <2>1. Of(s)' = Of(s) /\ Of(s) \in Channels
    BY <1>4, <1>5, OfIs DEF SameStreams
  <2>. QED  BY <1>4, <1>5, <2>1
<1>6. ASSUME Speaks \/ Reads \/ Elsewhere PROVE UNCHANGED <<asked, viewers>>
  BY <1>6 DEF Speaks, Says, Reads, Elsewhere, NoAsk, Calm
<1>7. ASSUME Speaks \/ Reads \/ Elsewhere PROVE KeptInv'
  <2>1. ASSUME NEW s \in Streams', s \notin unanswered'.streams PROVE Kept(s)'
    <3>1. s \in Streams /\ s \notin unanswered.streams
      BY <1>4, <1>7, <2>1 DEF SameStreams
    <3>2. (P3(s) => Q3(s)) /\ (P4(s) => Q4(s))
      BY <1>6, <1>7
    <3>. HIDE DEF P1, P2, P3, P4, Q1, Q2, Q3, Q4
    <3>. QED  BY <1>1, <1>2, <1>5, <1>7, <3>1, <3>2
  <2>. QED  BY <2>1 DEF KeptInv
<1>8. ASSUME NEW items, NEW a, Tells(items, a), Answering PROVE KeptInv'
  <2>. DEFINE op == asked[1].op
  <2>1. /\ Head(asked) = asked[1] /\ 1 \in DOMAIN asked
        /\ DOMAIN asked \subseteq Int
        /\ \A i \in DOMAIN asked' : asked'[i] = asked[i + 1] /\ i + 1 \in DOMAIN asked
        /\ \A i \in DOMAIN asked : i # 1 => i - 1 \in DOMAIN asked' /\ asked'[i - 1] = asked[i]
    BY <1>8, TellsThen
  <2>2. \/ op.o = "watch" /\ viewers' = viewers \cup {op.s}
        \/ op.o = "detach" /\ viewers' = viewers \ {op.s}
        \/ op.o \notin {"watch", "detach"} /\ viewers' = viewers
    BY <1>8, <2>1 DEF Answering
  <2>3. ASSUME NEW s \in Streams', s \notin unanswered'.streams PROVE Kept(s)'
    <3>1. s \in Streams /\ s \notin unanswered.streams
      BY <1>4, <1>8, <2>3 DEF SameStreams
    <3>2. P3(s) /\ ~ Detaches(asked[1], s) => Q3(s)
      BY <2>1
    <3>3. P4(s) => Q4(s)
      <4>1. ASSUME P4(s) PROVE Q4(s)
        <5>1. ~ (op.o = "watch" /\ op.s = s)
          BY <2>1, <4>1 DEF Watches
        <5>2. s \notin viewers'
          BY <2>2, <4>1, <5>1
        <5>. QED  BY <2>1, <4>1, <5>2
      <4>. QED  BY <4>1
    <3>4. ASSUME Detaches(asked[1], s) PROVE Q4(s)
      <4>1. s \notin viewers'
        BY <2>2, <3>4 DEF Detaches
      <4>2. ASSUME NEW i \in DOMAIN asked', Watches(asked'[i], s) PROVE FALSE
        <5>1. i + 1 \in DOMAIN asked /\ Watches(asked[i + 1], s) /\ i + 1 \in Int /\ i + 1 > 1
          <6>1. i + 1 \in DOMAIN asked /\ Watches(asked[i + 1], s)
            BY <2>1, <4>2
          <6>2. DOMAIN asked = 1 .. Len(asked) /\ DOMAIN asked' = 1 .. Len(asked')
            <7>1. asked \in Seq(Requests) /\ asked' \in Seq(Requests)
              BY <1>8, TellsThen DEF Shape
            <7>. QED  BY <7>1
          <6>. QED  BY <6>1, <6>2
        <5>2. i + 1 < 1
          BY <1>0, <2>1, <3>1, <3>4, <5>1 DEF OrderInv
        <5>. QED  BY <5>1, <5>2
      <4>. QED  BY <4>1, <4>2
    <3>5. P1(s) => Q1(s)
      BY <1>5, <1>8, <3>1
    <3>6. P2(s) => Q2(s)
      BY <1>5, <1>8, <3>1
    <3>. HIDE DEF P1, P2, P3, P4, Q1, Q2, Q3, Q4
    <3>. QED  BY <1>1, <1>2, <3>1, <3>2, <3>3, <3>4, <3>5, <3>6
  <2>. QED  BY <2>3 DEF KeptInv
<1>9. CASE Answering
  BY <1>8, <1>9 DEF Answering
<1>. HIDE DEF Q1, Q2, Q3, Q4
<1>. QED  BY <1>1, <1>3, <1>7, <1>9 DEF KeptInv

---------------------------------------------------------------------------
\* Leases

\* Control passes to nobody, to the person at the computer, or to a new lease.
LEMMA ControlNext ==
    ASSUME Shape,
           (\E x \in Channels : ThreadStep(x)) \/ Answering \/ Speaks \/ Reads \/ Elsewhere
    PROVE  /\ control' \in ControlStates /\ (control'.who # "nobody" => control'.left # 0)
           /\ control'.generation \in Nat /\ control'.generation >= control.generation
           /\ control'.who \in Holders => control' = control \/
                 (control'.id = control.generation + 1 /\ control'.generation = control.generation + 1)
<1>0. /\ control \in ControlStates /\ Lapse(control) = control /\ control.generation \in Nat
      /\ (control.who # "nobody" => control.left # 0)
  BY ControlIs DEF Shape
<1>1. CASE control' = control
  BY <1>0, <1>1
<1>2. CASE control' = GivenUp(control)
  BY <1>0, <1>2, HoldersAssumption DEF GivenUp, ControlStates, Controllers
<1>3. CASE control' = LocalInput(control)
  <2>1. control' = [generation |-> IF control.who = "local" THEN control.generation ELSE control.generation + 1,
                    who |-> "local", id |-> 0, left |-> LocalHold, input |-> 0]
    BY <1>0, <1>3 DEF LocalInput
  <2>2. (IF control.who = "local" THEN control.generation ELSE control.generation + 1) \in Nat
    BY <1>0
  <2>3. control' \in ControlStates
    BY <2>1, <2>2, HoldsAssumption DEF ControlStates, Controllers
  <2>4. control'.who = "local" /\ control'.left # 0 /\ control'.generation >= control.generation
        /\ control'.generation \in Nat
    BY <1>0, <2>1, <2>2, HoldsAssumption
  <2>. QED  BY <2>3, <2>4, HoldersAssumption
<1>4. ASSUME NEW h \in Holders, control' = Acquired(control, h, control.generation + 1)
      PROVE  /\ control' \in ControlStates /\ (control'.who # "nobody" => control'.left # 0)
             /\ control'.generation \in Nat /\ control'.generation >= control.generation
             /\ control'.id = control.generation + 1 /\ control'.generation = control.generation + 1
  <2>1. control' = [generation |-> control.generation + 1, who |-> h, id |-> control.generation + 1,
                    left |-> LeaseTtl, input |-> 0]
    BY <1>0, <1>4 DEF Acquired
  <2>. QED  BY <1>0, <2>1, HoldsAssumption DEF ControlStates, Controllers
<1>5. CASE Answering
  <2>1. \/ control' \in {control, GivenUp(control)}
        \/ Head(asked).op.o = "acquire" /\ control' = Acquired(control, Head(asked).op.holder, control.generation + 1)
           /\ \E items, a : Tells(items, a)
    BY <1>5 DEF Answering
  <2>2. ASSUME NEW items, NEW a, Tells(items, a), Head(asked).op.o = "acquire" PROVE Head(asked).op.holder \in Holders
    <3>1. Head(asked) \in Requests
      BY <2>2, TellsThen
    <3>. QED  BY <2>2, <3>1 DEF Requests, Ops
  <2>. QED  BY <1>1, <1>2, <1>4, <2>1, <2>2
<1>6. CASE Speaks
  BY <1>1, <1>2, <1>3, <1>6 DEF Speaks, Taken
<1>7. ASSUME NEW x \in Channels, ThreadStep(x) PROVE control' = control
  BY <1>7 DEF ThreadStep, Walks, Learns, AsksIdle, AsksOn, StopsWaiting, Elsewhere, Calm
<1>8. CASE Reads \/ Elsewhere
  BY <1>1, <1>8 DEF Reads, Elsewhere, Calm
<1>. QED  BY <1>1, <1>5, <1>6, <1>7, <1>8

LeaseOf(ref) == [r |-> "leased", ref |-> ref]

\* A lease that was handed out, of one hold of control and no other.
Handed(ref) == ref.id = ref.generation /\ ref.generation <= control.generation
OutOfForce(ref) == Handed(ref) /\ ~ (control.who \in Holders /\ ref = InForce)

HandedInv ==
    /\ control.who \in Holders => Handed(InForce)
    /\ \A x \in Channels :
          /\ \A ref \in leases[x] : Handed(ref)
          /\ at[x] = "using" => work[x] \in LeaseRefs /\ Handed(work[x])
          /\ answer[x].r = "leased" => Handed(answer[x].ref)
    /\ \A i \in DOMAIN wire : IsAnswer(i) /\ wire[i].a.r = "leased" => Handed(wire[i].a.ref)

\* What was handed out stays so, and what is out of force too.
LEMMA HandedStays ==
    ASSUME Shape, NEW ref, ref \in LeaseRefs, Handed(ref),
           (\E x \in Channels : ThreadStep(x)) \/ Answering \/ Speaks \/ Reads \/ Elsewhere
    PROVE  Handed(ref)' /\ (OutOfForce(ref) => OutOfForce(ref)')
<1>1. /\ control'.generation \in Nat /\ control'.generation >= control.generation
      /\ control'.who \in Holders => control' = control \/
            (control'.id = control.generation + 1 /\ control'.generation = control.generation + 1)
  BY ControlNext
<1>2. control.generation \in Nat /\ ref.generation \in Nat
  BY ControlIs DEF LeaseRefs
<1>3. Handed(ref)'
  BY <1>1, <1>2 DEF Handed
<1>4. ASSUME OutOfForce(ref), control'.who \in Holders, ref = InForce' PROVE FALSE
  <2>1. ref.generation = control'.generation
    BY <1>4 DEF InForce
  <2>. QED  BY <1>1, <1>2, <1>4, <2>1 DEF OutOfForce, InForce, Handed
<1>. QED  BY <1>3, <1>4 DEF OutOfForce

\* That a lease is handed to whoever asked for it is kept by every step.
LEMMA HandedNext ==
    ASSUME Shape, HandedInv,
           (\E x \in Channels : ThreadStep(x)) \/ Answering \/ Speaks \/ Reads \/ Elsewhere
    PROVE  HandedInv'
<1>. DEFINE H(ref) == ref \in LeaseRefs /\ ref.id = ref.generation /\ ref.generation <= control'.generation
<1>0. \A ref \in LeaseRefs : Handed(ref) => H(ref)
  BY HandedStays DEF Handed
<1>00. \A a \in Answers : a.r = "leased" => a.ref \in LeaseRefs
  BY DEF Answers, NoAnswer, Done, Refused
<1>1. control'.who \in Holders => Handed(InForce)'
  <2>1. ASSUME control'.who \in Holders PROVE InForce'.id = InForce'.generation /\ InForce'.generation <= control'.generation
    <3>1. /\ control'.generation \in Nat
          /\ control' = control \/
              (control'.id = control.generation + 1 /\ control'.generation = control.generation + 1)
      BY <2>1, ControlNext
    <3>. QED  BY <2>1, <3>1 DEF HandedInv, Handed, InForce
  <2>. QED  BY <2>1 DEF Handed
<1>2. /\ \A x \in Channels : \A ref \in leases[x] : ref \in LeaseRefs /\ Handed(ref)
      /\ \A x \in Channels : at[x] = "using" => work[x] \in LeaseRefs /\ Handed(work[x])
      /\ \A x \in Channels : answer[x].r = "leased" => answer[x].ref \in LeaseRefs /\ Handed(answer[x].ref)
  <2>1. \A x \in Channels : answer[x].r = "leased" => answer[x].ref \in LeaseRefs
    <3>1. \A x \in Channels : answer[x] \in Answers
      BY DEF Shape
    <3>. QED  BY <1>00, <3>1
  <2>. QED  BY <2>1 DEF HandedInv, Shape
<1>3. /\ \A x \in Channels : \A ref \in leases[x] : H(ref)
      /\ \A x \in Channels : at[x] = "using" => H(work[x])
      /\ \A x \in Channels : answer[x].r = "leased" => H(answer[x].ref)
  BY <1>0, <1>2
<1>4. \A i \in DOMAIN wire : wire[i].f = "answer" /\ wire[i].a.r = "leased" => H(wire[i].a.ref)
  <2>1. ASSUME NEW i \in DOMAIN wire, wire[i].f = "answer", wire[i].a.r = "leased"
        PROVE  wire[i].a.ref \in LeaseRefs
    <3>1. wire[i] \in Frames
      BY DEF Shape
    <3>2. wire[i].a \in Answers
      BY <2>1, <3>1 DEF Frames, AnswerFrames, ItemFrames
    <3>. QED  BY <1>00, <2>1, <3>2
  <2>. QED  BY <1>0, <2>1 DEF HandedInv, IsAnswer
<1>. HIDE DEF H
<1>. DEFINE Good == /\ \A x \in Channels :
                          /\ \A ref \in leases'[x] : H(ref)
                          /\ at'[x] = "using" => H(work'[x])
                          /\ answer'[x].r = "leased" => H(answer'[x].ref)
                    /\ \A i \in DOMAIN wire' : wire'[i].f = "answer" /\ wire'[i].a.r = "leased" => H(wire'[i].a.ref)
<1>5. ASSUME NEW x \in Channels, ThreadStep(x) PROVE Good
  <2>1. wire' = wire
    BY <1>5 DEF ThreadStep, Walks, Learns, AsksIdle, AsksOn, StopsWaiting, Elsewhere, NoAsk, Asks
  <2>2. ASSUME NEW y \in Channels
        PROVE  /\ \A ref \in leases'[y] : H(ref)
               /\ at'[y] = "using" => H(work'[y])
               /\ answer'[y].r = "leased" => H(answer'[y].ref)
    <3>. USE DEF Thread, Stays, NoAnswer, Done, Waits
    <3>1. CASE Walks(x)
      BY <1>3, <1>5, <2>2, <3>1 DEF Walks
    <3>2. CASE Learns(x)
      BY <1>3, <1>5, <2>2, <3>2 DEF Learns
    <3>3. CASE AsksIdle(x)
      BY <1>3, <1>5, <2>2, <3>3 DEF AsksIdle
    <3>4. CASE AsksOn(x)
      <4>1. leases'[x] \subseteq leases[x] /\ at'[x] # "using" /\ answer'[x] = NoAnswer
        BY <3>4 DEF AsksOn
      <4>2. y # x => /\ leases'[y] = leases[y] /\ at'[y] = at[y] /\ work'[y] = work[y]
                     /\ answer'[y] = answer[y]
        BY <3>4 DEF AsksOn
      <4>. QED  BY <1>3, <4>1, <4>2
    <3>5. CASE StopsWaiting(x)
      BY <1>3, <1>5, <2>2, <3>5 DEF StopsWaiting
    <3>6. CASE Elsewhere
      BY <1>3, <1>5, <2>2, <3>6 DEF Elsewhere
    <3>. QED  BY <1>5, <3>1, <3>2, <3>3, <3>4, <3>5, <3>6 DEF ThreadStep
  <2>. QED  BY <1>4, <2>1, <2>2
<1>6. ASSUME Answering PROVE Good
  <2>1. PICK items, a : /\ Tells(items, a)
                        /\ a.r = "leased" => /\ a.ref = [id |-> control.generation + 1, generation |-> control.generation + 1]
                                             /\ control'.generation = control.generation + 1
    <3>1. \A h : Acquired(control, h, control.generation + 1).generation = control.generation + 1
      BY ControlIs DEF Acquired
    <3>. QED  BY <1>6, <3>1 DEF Answering, Done, Refused
  <2>2. a.r = "leased" => H(a.ref)
    <3>1. control.generation \in Nat
      BY ControlIs
    <3>. QED  BY <2>1, <3>1 DEF H, LeaseRefs
  <2>3. \A i \in DOMAIN wire' : wire'[i].f = "answer" /\ wire'[i].a.r = "leased" => H(wire'[i].a.ref)
    <3>1. /\ \A i \in DOMAIN wire : i \in DOMAIN wire' /\ wire'[i] = wire[i]
          /\ \A i \in DOMAIN wire' : i \notin DOMAIN wire => wire'[i].f = "item" \/ wire'[i].a = a
      BY <2>1, TellsThen
    <3>. QED  BY <1>4, <2>2, <3>1
  <2>. QED  BY <1>3, <2>1, <2>3 DEF Tells
<1>7. ASSUME Speaks PROVE Good
  <2>1. PICK items : Says(items)
    BY <1>7 DEF Speaks
  <2>2. /\ \A i \in DOMAIN wire : i \in DOMAIN wire' /\ wire'[i] = wire[i]
        /\ \A i \in DOMAIN wire' : i \notin DOMAIN wire => wire'[i].f = "item"
    BY <2>1, SaysThen
  <2>. QED  BY <1>3, <1>4, <2>1, <2>2 DEF Says
<1>8. ASSUME Reads PROVE Good
  <2>1. /\ \A i \in DOMAIN wire' : wire'[i] = wire[i + 1] /\ i + 1 \in DOMAIN wire
        /\ 1 \in DOMAIN wire /\ Head(wire) = wire[1]
    BY <1>8, ReadsThen
  <2>2. \A x \in Channels : answer'[x] = answer[x] \/ (wire[1].f = "answer" /\ answer'[x] = wire[1].a)
    BY <1>8, <2>1 DEF Reads, Shape
  <2>3. UNCHANGED <<at, leases>> /\ \A x \in Channels : work'[x] = work[x]
    BY <1>8 DEF Reads
  <2>. QED  BY <1>3, <1>4, <2>1, <2>2, <2>3
<1>9. ASSUME Elsewhere PROVE Good
  BY <1>3, <1>4, <1>9 DEF Elsewhere, NoAsk
<1>10. Good
  BY <1>5, <1>6, <1>7, <1>8, <1>9
<1>. QED  BY <1>1, <1>10 DEF H, HandedInv, IsAnswer, Handed

\* A thread's last request, while it waits for the answer.
Newest(r) == r.by \in pending /\ r.id = called[r.by]

\* What a thread waits for is what it last asked, and a lease it is refused is not in force.
AskedInv ==
    /\ \A i \in DOMAIN asked :
          /\ asked[i].op.o = "acquire" =>
                /\ asked[i].op.holder = DeviceOf[asked[i].by]
                /\ \/ asked[i].by \in unanswered.acquires
                   \/ Newest(asked[i]) /\ at[asked[i].by] = "acquiring"
          /\ Newest(asked[i]) /\ at[asked[i].by] = "using" =>
                asked[i].op = [o |-> "use", ref |-> work[asked[i].by]]
          /\ Newest(asked[i]) /\ at[asked[i].by] = "asking" => asked[i].op.o = "controller"
    /\ \A i \in DOMAIN wire : IsAnswer(i) /\ Newest(wire[i]) =>
          /\ at[wire[i].by] = "using" /\ wire[i].a = Refused => OutOfForce(work[wire[i].by])
          /\ at[wire[i].by] = "asking" => wire[i].a.r = "controller"
    /\ \A x \in Channels :
          /\ at[x] = "using" /\ answer[x] = Refused => OutOfForce(work[x])
          /\ at[x] = "asking" /\ answer[x] # NoAnswer => answer[x].r = "controller"

\* A request keeps waiting, and what it is about stays: or its thread waits for it no longer.
LEMMA NewestStays ==
    ASSUME Shape, WaitsInv, CallsInv, WorkOurs, OrderInv, NEW x \in Channels, ThreadStep(x),
           NEW r, r.by \in Channels, r.id \in Nat, r.id <= called[r.by]
    PROVE  /\ unanswered.acquires \subseteq unanswered'.acquires
           /\ Newest(r) => \/ Newest(r)' /\ at'[r.by] = at[r.by] /\ work'[r.by] = work[r.by]
                           \/ /\ r.by \notin pending'
                              /\ at[r.by] = "acquiring" => r.by \in unanswered'.acquires
           /\ Newest(r)' => Newest(r) /\ at'[r.by] = at[r.by] /\ work'[r.by] = work[r.by]
<1>. DEFINE y == r.by
<1>1. called \in [Channels -> Nat] /\ unanswered \in [streams: SUBSET Nat, acquires: SUBSET Channels]
  BY DEF Shape
<1>2. unanswered.acquires \subseteq unanswered'.acquires
  BY <1>1 DEF ThreadStep, Walks, Learns, AsksIdle, AsksOn, StopsWaiting, Elsewhere, Calm
<1>3. CASE y # x
  <2>1. (y \in pending' <=> y \in pending) /\ called'[y] = called[y]
    <3>1. CASE Silent(x)
      BY <1>3, <3>1 DEF Silent
    <3>2. ASSUME NEW op, Asks(x, op) PROVE (y \in pending' <=> y \in pending) /\ called'[y] = called[y]
      BY <1>1, <1>3, <3>2 DEF Asks
    <3>. QED  BY <3>1, <3>2, ThreadCalls
  <2>2. at'[y] = at[y] /\ work'[y] = work[y]
    BY <1>3 DEF ThreadStep, Walks, Learns, AsksIdle, AsksOn, StopsWaiting, Elsewhere, Stays, Thread
  <2>. QED  BY <1>2, <2>1, <2>2 DEF Newest
<1>4. CASE y = x
  <2>1. CASE Walks(x) \/ Learns(x)
    <3>1. x \notin pending /\ pending' = pending
      BY <2>1 DEF Walks, Learns, NoAsk, WaitsInv, Answered
    <3>. QED  BY <1>2, <1>4, <3>1 DEF Newest
  <2>2. CASE Elsewhere
    <3>1. UNCHANGED <<pending, called, at>> /\ work'[x] = work[x]
      BY <2>2 DEF Elsewhere, NoAsk
    <3>. QED  BY <1>2, <1>4, <3>1 DEF Newest
  <2>3. CASE StopsWaiting(x)
    <3>1. /\ x \notin pending'
          /\ at[x] = "acquiring" => x \in unanswered'.acquires
      BY <2>3 DEF StopsWaiting
    <3>. QED  BY <1>2, <1>4, <3>1 DEF Newest
  <2>4. ASSUME NEW op, Asked(x, op) PROVE ~ Newest(r) /\ ~ Newest(r)'
    <3>1. x \notin pending /\ called'[x] = called[x] + 1
      BY <1>1, <2>4 DEF Asked, Asks
    <3>. QED  BY <1>1, <1>4, <3>1 DEF Newest
  <2>5. CASE AsksIdle(x) \/ AsksOn(x)
    <3>1. CASE Silent(x)
      <4>1. \E q : asked' = Append(asked, q)
        BY <2>5 DEF AsksIdle, AsksOn, Asks
      <4>2. PICK q : asked' = Append(asked, q)
        BY <4>1
      <4>3. Len(asked') = Len(asked) + 1 /\ Len(asked) \in Nat /\ asked' = asked
        BY <3>1, <4>2 DEF Shape, Silent
      <4>. QED  BY <4>3
    <3>. QED  BY <1>2, <2>4, <3>1, AskedIs
  <2>. QED  BY <2>1, <2>2, <2>3, <2>5 DEF ThreadStep
<1>. QED  BY <1>3, <1>4

\* That leases are given back by whoever had them is kept by every step.
LEMMA AskedNext ==
    ASSUME Shape, WaitsInv, CallsInv, StreamsInv, HandedInv, AskedInv,
           (\E x \in Channels : ThreadStep(x)) \/ Answering \/ Speaks \/ Reads \/ Elsewhere
    PROVE  AskedInv'
<1>0. WorkOurs /\ OrderInv
  BY DEF StreamsInv
<1>. DEFINE Wait(r) == r.by \in pending /\ r.id = called[r.by]
            Wait2(r) == r.by \in pending' /\ r.id = called'[r.by]
            Out(ref) == /\ ref.id = ref.generation /\ ref.generation <= control.generation
                        /\ ~ (control.who \in Holders /\ ref = InForce)
            Out2(ref) == /\ ref.id = ref.generation /\ ref.generation <= control'.generation
                         /\ ~ (control'.who \in Holders /\ ref = InForce')
            A(r) == r.op.o = "acquire" =>
                      /\ r.op.holder = DeviceOf[r.by]
                      /\ r.by \in unanswered.acquires \/ (Wait(r) /\ at[r.by] = "acquiring")
            A2(r) == r.op.o = "acquire" =>
                      /\ r.op.holder = DeviceOf[r.by]
                      /\ r.by \in unanswered'.acquires \/ (Wait2(r) /\ at'[r.by] = "acquiring")
            B(r) == Wait(r) => /\ at[r.by] = "using" => r.op = [o |-> "use", ref |-> work[r.by]]
                               /\ at[r.by] = "asking" => r.op.o = "controller"
            B2(r) == Wait2(r) => /\ at'[r.by] = "using" => r.op = [o |-> "use", ref |-> work'[r.by]]
                                 /\ at'[r.by] = "asking" => r.op.o = "controller"
            C(w) == w.f = "answer" /\ Wait(w) =>
                      /\ at[w.by] = "using" /\ w.a = Refused => Out(work[w.by])
                      /\ at[w.by] = "asking" => w.a.r = "controller"
            C2(w) == w.f = "answer" /\ Wait2(w) =>
                      /\ at'[w.by] = "using" /\ w.a = Refused => Out2(work'[w.by])
                      /\ at'[w.by] = "asking" => w.a.r = "controller"
            D(x) == /\ at[x] = "using" /\ answer[x] = Refused => Out(work[x])
                    /\ at[x] = "asking" /\ answer[x] # NoAnswer => answer[x].r = "controller"
            D2(x) == /\ at'[x] = "using" /\ answer'[x] = Refused => Out2(work'[x])
                     /\ at'[x] = "asking" /\ answer'[x] # NoAnswer => answer'[x].r = "controller"
<1>1. /\ \A i \in DOMAIN asked : A(asked[i]) /\ B(asked[i])
      /\ \A i \in DOMAIN wire : C(wire[i])
      /\ \A x \in Channels : D(x)
  BY DEF AskedInv, Newest, OutOfForce, Handed, IsAnswer
<1>2. ASSUME /\ \A i \in DOMAIN asked' : A2(asked'[i]) /\ B2(asked'[i])
             /\ \A i \in DOMAIN wire' : C2(wire'[i])
             /\ \A x \in Channels : D2(x)
      PROVE  AskedInv'
  BY <1>2 DEF AskedInv, Newest, OutOfForce, Handed, IsAnswer
<1>3. /\ \A i \in DOMAIN asked : asked[i].by \in Channels /\ asked[i].id \in Nat /\ asked[i].id <= called[asked[i].by]
      /\ \A i \in DOMAIN wire : wire[i].f = "answer" =>
             wire[i].by \in Channels /\ wire[i].id \in Nat /\ wire[i].id <= called[wire[i].by]
  <2>1. \A i \in DOMAIN asked : asked[i] \in Requests
    BY DEF Shape
  <2>2. \A i \in DOMAIN wire : wire[i] \in Frames
    BY DEF Shape
  <2>. QED  BY <2>1, <2>2 DEF Requests, Frames, AnswerFrames, ItemFrames, CallsInv, IsAnswer
<1>4. \A ref \in LeaseRefs : Out(ref) => Out2(ref)
  BY HandedStays DEF OutOfForce, Handed
<1>5. \A x \in Channels : at[x] = "using" => work[x] \in LeaseRefs
                             /\ work[x].id = work[x].generation /\ work[x].generation <= control.generation
  BY DEF HandedInv, Handed
<1>. HIDE DEF Out, Out2
<1>6. ASSUME NEW x \in Channels, ThreadStep(x)
      PROVE  /\ \A i \in DOMAIN asked' : A2(asked'[i]) /\ B2(asked'[i])
             /\ \A i \in DOMAIN wire' : C2(wire'[i])
             /\ \A y \in Channels : D2(y)
  <2>1. ASSUME NEW r, r.by \in Channels, r.id \in Nat, r.id <= called[r.by]
        PROVE  /\ unanswered.acquires \subseteq unanswered'.acquires
               /\ Wait(r) => \/ Wait2(r) /\ at'[r.by] = at[r.by] /\ work'[r.by] = work[r.by]
                             \/ /\ r.by \notin pending'
                                /\ at[r.by] = "acquiring" => r.by \in unanswered'.acquires
               /\ Wait2(r) => Wait(r) /\ at'[r.by] = at[r.by] /\ work'[r.by] = work[r.by]
    BY <1>0, <1>6, <2>1, NewestStays DEF Newest
  <2>2. ASSUME NEW r, r.by \in Channels, r.id \in Nat, r.id <= called[r.by], A(r), B(r)
        PROVE  A2(r) /\ B2(r)
    BY <2>1, <2>2
  <2>3. ASSUME NEW w, w.f = "answer" => w.by \in Channels /\ w.id \in Nat /\ w.id <= called[w.by], C(w)
        PROVE  C2(w)
    BY <1>4, <1>5, <2>1, <2>3
  <2>4. wire' = wire
    BY <1>6 DEF ThreadStep, Walks, Learns, AsksIdle, AsksOn, StopsWaiting, Elsewhere, NoAsk, Asks
  <2>5. \A i \in DOMAIN wire' : C2(wire'[i])
    BY <1>1, <1>3, <2>3, <2>4
  <2>6. \A i \in DOMAIN asked' : A2(asked'[i]) /\ B2(asked'[i])
    <3>1. CASE Silent(x)
      <4>1. asked' = asked
        BY <3>1 DEF Silent
      <4>. HIDE DEF A, A2, B, B2
      <4>. QED  BY <1>1, <1>3, <2>2, <4>1
    <3>2. ASSUME NEW op, Asked(x, op) PROVE \A i \in DOMAIN asked' : A2(asked'[i]) /\ B2(asked'[i])
      <4>. DEFINE r == [by |-> x, id |-> called[x] + 1, op |-> op]
      <4>1. /\ DOMAIN asked = 1 .. Len(asked) /\ DOMAIN asked' = 1 .. Len(asked) + 1
            /\ \A i \in DOMAIN asked : asked'[i] = asked[i]
            /\ asked'[Len(asked) + 1] = r /\ Len(asked) \in Nat
            /\ x \in pending' /\ called'[x] = called[x] + 1
        BY <3>2, AsksThen DEF Asked
      <4>2. A2(r) /\ B2(r)
        BY <3>2, <4>1 DEF Asked
      <4>3. \A i \in DOMAIN asked' : i \in DOMAIN asked \/ i = Len(asked) + 1
        BY <4>1
      <4>. HIDE DEF A, A2, B, B2, r
      <4>. QED  BY <1>1, <1>3, <2>2, <4>1, <4>2, <4>3
    <3>. QED  BY <1>0, <1>6, <3>1, <3>2, AskedIs
  <2>7. ASSUME NEW y \in Channels PROVE D2(y)
    <3>1. at'[y] = "using" /\ answer'[y] = Refused => at[y] = "using" /\ answer[y] = Refused /\ work'[y] = work[y]
      <4>. USE DEF Thread, Stays, NoAnswer, Done, Refused, Waits, Answered, WaitsInv
      <4>1. CASE Walks(x)
        BY <2>7, <4>1 DEF Walks
      <4>2. CASE Learns(x)
        BY <2>7, <4>2 DEF Learns
      <4>3. CASE AsksIdle(x)
        <5>1. answer'[x] = NoAnswer
          BY <4>3 DEF AsksIdle
        <5>2. y # x => at'[y] = at[y] /\ work'[y] = work[y] /\ answer'[y] = answer[y]
          BY <2>7, <4>3 DEF AsksIdle
        <5>. QED  BY <5>1, <5>2
      <4>4. CASE AsksOn(x)
        <5>1. answer'[x] = NoAnswer
          BY <4>4 DEF AsksOn
        <5>2. y # x => at'[y] = at[y] /\ work'[y] = work[y] /\ answer'[y] = answer[y]
          BY <2>7, <4>4 DEF AsksOn
        <5>. QED  BY <5>1, <5>2
      <4>5. CASE StopsWaiting(x)
        BY <2>7, <4>5 DEF StopsWaiting
      <4>6. CASE Elsewhere
        BY <2>7, <4>6 DEF Elsewhere
      <4>. QED  BY <1>6, <4>1, <4>2, <4>3, <4>4, <4>5, <4>6 DEF ThreadStep
    <3>2. at'[y] = "asking" /\ answer'[y] # NoAnswer =>
              \/ at[y] = "asking" /\ answer'[y] = answer[y]
              \/ answer'[y].r = "controller"
      <4>1. ASSUME AsksOn(x) \/ AsksIdle(x) \/ Walks(x) \/ Learns(x), at'[x] = "asking" PROVE answer'[x] = NoAnswer
        BY <4>1 DEF AsksOn, AsksIdle, Walks, Learns, Thread, Stays, Waits, Steps
      <4>2. CASE AsksOn(x) \/ AsksIdle(x) \/ Walks(x) \/ Learns(x)
        <5>1. y # x => at'[y] = at[y] /\ answer'[y] = answer[y]
          BY <2>7, <4>2 DEF AsksOn, AsksIdle, Walks, Learns, Thread, Stays
        <5>. QED  BY <4>1, <4>2, <5>1
      <4>3. CASE StopsWaiting(x)
        BY <2>7, <4>3 DEF StopsWaiting, Thread, Stays
      <4>4. CASE Elsewhere
        BY <4>4 DEF Elsewhere
      <4>. QED  BY <1>6, <4>2, <4>3, <4>4 DEF ThreadStep
    <3>. QED  BY <1>1, <1>4, <1>5, <3>1, <3>2
  <2>. QED  BY <2>5, <2>6, <2>7
<1>7. ASSUME Answering \/ Speaks \/ Elsewhere
      PROVE  /\ UNCHANGED <<called, pending, answer, at, unanswered>> /\ (\A y \in Channels : work'[y] = work[y])
  BY <1>7 DEF Answering, Speaks, Tells, Says, Elsewhere, NoAsk, Calm
<1>8. ASSUME Answering \/ Speaks \/ Elsewhere, NEW r, r.by \in Channels, A(r), B(r) PROVE A2(r) /\ B2(r)
  BY <1>7, <1>8
<1>9. ASSUME Answering \/ Speaks \/ Elsewhere, NEW w, w.f = "answer" => w.by \in Channels, C(w) PROVE C2(w)
  BY <1>4, <1>5, <1>7, <1>9
<1>10. ASSUME Answering \/ Speaks \/ Elsewhere, NEW y \in Channels PROVE D2(y)
  BY <1>1, <1>4, <1>5, <1>7, <1>10
<1>11. ASSUME NEW items, NEW a, Tells(items, a), Answering,
              a = Refused => /\ asked[1].op.o \in {"acquire", "use", "release"}
                             /\ asked[1].op.o = "use" => ~ (control.who \in Holders /\ asked[1].op.ref = InForce),
              asked[1].op.o = "controller" => a.r = "controller"
       PROVE  /\ \A i \in DOMAIN asked' : A2(asked'[i]) /\ B2(asked'[i])
              /\ \A i \in DOMAIN wire' : C2(wire'[i])
              /\ \A y \in Channels : D2(y)
  <2>1. /\ 1 \in DOMAIN asked /\ Head(asked) = asked[1]
        /\ \A i \in DOMAIN asked' : asked'[i] = asked[i + 1] /\ i + 1 \in DOMAIN asked
        /\ \A i \in DOMAIN wire : i \in DOMAIN wire' /\ wire'[i] = wire[i]
        /\ \A i \in DOMAIN wire' : i \notin DOMAIN wire =>
              \/ wire'[i].f = "item"
              \/ /\ wire'[i].f = "answer" /\ wire'[i].a = a
                 /\ wire'[i].by = Head(asked).by /\ wire'[i].id = Head(asked).id
    BY <1>11, TellsThen
  <2>2. \A i \in DOMAIN asked' : A2(asked'[i]) /\ B2(asked'[i])
    <3>. HIDE DEF A, A2, B, B2
    <3>. QED  BY <1>1, <1>3, <1>8, <1>11, <2>1
  <2>3. ASSUME NEW w, w.f = "answer", w.a = a, w.by = asked[1].by, w.id = asked[1].id PROVE C2(w)
    <3>1. ASSUME Wait2(w), at'[w.by] = "using", a = Refused PROVE Out2(work'[w.by])
      <4>1. w.by \in Channels /\ Wait(asked[1]) /\ at[w.by] = "using" /\ work'[w.by] = work[w.by]
        BY <1>3, <1>7, <1>11, <2>1, <2>3, <3>1
      <4>2. asked[1].op = [o |-> "use", ref |-> work[w.by]]
        BY <1>1, <2>1, <2>3, <4>1
      <4>3. ~ (control.who \in Holders /\ work[w.by] = InForce)
        BY <1>11, <3>1, <4>2
      <4>4. Out(work[w.by]) /\ work[w.by] \in LeaseRefs
        BY <1>5, <4>1, <4>3 DEF Out
      <4>. QED  BY <1>4, <4>1, <4>4
    <3>2. ASSUME Wait2(w), at'[w.by] = "asking" PROVE a.r = "controller"
      <4>1. Wait(asked[1]) /\ at[asked[1].by] = "asking"
        BY <1>7, <1>11, <2>3, <3>2
      <4>. QED  BY <1>1, <1>11, <2>1, <4>1
    <3>. QED  BY <2>3, <3>1, <3>2
  <2>4. \A i \in DOMAIN wire' : C2(wire'[i])
    <3>1. ASSUME NEW i \in DOMAIN wire', wire'[i].f = "item" PROVE C2(wire'[i])
      BY <3>1
    <3>. HIDE DEF C, C2
    <3>. QED  BY <1>1, <1>3, <1>9, <1>11, <2>1, <2>3, <3>1
  <2>. HIDE DEF A2, B2, C2, D2
  <2>. QED  BY <1>10, <1>11, <2>2, <2>4
<1>12. ASSUME NEW items, Says(items), Speaks
       PROVE  /\ \A i \in DOMAIN asked' : A2(asked'[i]) /\ B2(asked'[i])
              /\ \A i \in DOMAIN wire' : C2(wire'[i])
              /\ \A y \in Channels : D2(y)
  <2>1. /\ \A i \in DOMAIN wire : i \in DOMAIN wire' /\ wire'[i] = wire[i]
        /\ \A i \in DOMAIN wire' : i \notin DOMAIN wire => wire'[i].f = "item"
        /\ asked' = asked
    BY <1>12, SaysThen DEF Says
  <2>2. ASSUME NEW i \in DOMAIN wire', wire'[i].f = "item" PROVE C2(wire'[i])
    BY <2>2
  <2>. HIDE DEF A, A2, B, B2, C, C2, D, D2
  <2>. QED  BY <1>1, <1>3, <1>8, <1>9, <1>10, <1>12, <2>1, <2>2
<1>13. ASSUME Elsewhere
       PROVE  /\ \A i \in DOMAIN asked' : A2(asked'[i]) /\ B2(asked'[i])
              /\ \A i \in DOMAIN wire' : C2(wire'[i])
              /\ \A y \in Channels : D2(y)
  <2>1. asked' = asked /\ wire' = wire
    BY <1>13 DEF Elsewhere, NoAsk
  <2>. HIDE DEF A, A2, B, B2, C, C2, D, D2
  <2>. QED  BY <1>1, <1>3, <1>8, <1>9, <1>10, <1>13, <2>1
<1>14. ASSUME Reads
       PROVE  /\ \A i \in DOMAIN asked' : A2(asked'[i]) /\ B2(asked'[i])
              /\ \A i \in DOMAIN wire' : C2(wire'[i])
              /\ \A y \in Channels : D2(y)
  <2>. DEFINE w == wire[1]
              mine == w.f = "answer" /\ w.by \in pending /\ w.id = called[w.by]
  <2>1. /\ 1 \in DOMAIN wire /\ Head(wire) = wire[1]
        /\ \A i \in DOMAIN wire' : wire'[i] = wire[i + 1] /\ i + 1 \in DOMAIN wire
    BY <1>14, ReadsThen
  <2>2. /\ UNCHANGED <<asked, called, at, control, unanswered>> /\ \A y \in Channels : work'[y] = work[y]
        /\ \/ mine /\ answer' = [answer EXCEPT ![w.by] = w.a] /\ pending' = pending \ {w.by}
           \/ ~ mine /\ UNCHANGED <<answer, pending>>
    BY <1>14, <2>1 DEF Reads
  <2>3. \A i \in DOMAIN asked : w.f = "answer" => ~ (asked[i].by = w.by /\ asked[i].id = w.id)
    BY <2>1 DEF CallsInv, IsAnswer
  <2>4. ASSUME NEW i \in DOMAIN asked PROVE A2(asked[i]) /\ B2(asked[i])
    BY <1>1, <1>3, <2>2, <2>3
  <2>5. ASSUME NEW i \in DOMAIN wire PROVE C2(wire[i])
    BY <1>1, <1>3, <1>4, <1>5, <2>2
  <2>6. ASSUME NEW y \in Channels PROVE D2(y)
    <3>1. \/ answer'[y] = answer[y]
          \/ mine /\ y = w.by /\ answer'[y] = w.a
      BY <2>2 DEF Shape
    <3>2. CASE answer'[y] = answer[y]
      BY <1>1, <1>4, <1>5, <2>2, <3>2
    <3>3. CASE mine /\ y = w.by /\ answer'[y] = w.a
      BY <1>1, <1>4, <1>5, <2>1, <2>2, <3>3
    <3>. QED  BY <3>1, <3>2, <3>3
  <2>. HIDE DEF A2, B2, C2, D2
  <2>. QED  BY <2>1, <2>2, <2>4, <2>5, <2>6
<1>15. CASE Answering
  <2>1. PICK items, a : /\ Tells(items, a)
                        /\ a = Refused =>
                             /\ Head(asked).op.o \in {"acquire", "use", "release"}
                             /\ Head(asked).op.o = "use" =>
                                   ~ (control.who \in Holders /\ Head(asked).op.ref = InForce)
                        /\ Head(asked).op.o = "controller" => a.r = "controller"
    BY <1>15 DEF Answering, Done, Refused
  <2>2. Head(asked) = asked[1]
    BY <2>1, TellsThen
  <2>. HIDE DEF A, A2, B, B2, C, C2, D, D2
  <2>. QED  BY <1>2, <1>11, <1>15, <2>1, <2>2
<1>16. CASE Speaks
  <2>1. PICK items : Says(items)
    BY <1>16 DEF Speaks
  <2>. HIDE DEF A, A2, B, B2, C, C2, D, D2
  <2>. QED  BY <1>2, <1>12, <1>16, <2>1
<1>. HIDE DEF A, A2, B, B2, C, C2, D, D2
<1>. QED  BY <1>2, <1>6, <1>13, <1>14, <1>15, <1>16

\* The lease in force is known to a channel, or on its way to one that asked for it or from one
\* that gives it back; or the request for it was given up.
InForceKnown ==
    \/ \E x \in Channels : InForce \in leases[x]
    \/ \E x \in Channels : at[x] = "acquiring" /\ answer[x] = LeaseOf(InForce)
    \/ \E i \in DOMAIN wire :
          /\ IsAnswer(i) /\ wire[i].a = LeaseOf(InForce)
          /\ Newest(wire[i]) /\ at[wire[i].by] = "acquiring" /\ DeviceOf[wire[i].by] = control.who
    \/ \E i \in DOMAIN asked : asked[i].op = [o |-> "release", ref |-> InForce]
    \/ \E x \in unanswered.acquires : DeviceOf[x] = control.who

LeasesInv == control.who \in Holders => InForceKnown

\* While control does not change hands.
LEMMA KnownStays ==
    ASSUME Shape, WaitsInv, CallsInv, StreamsInv, AskedInv, control.who \in Holders, InForceKnown,
           control' = control,
           (\E x \in Channels : ThreadStep(x)) \/ Answering \/ Speaks \/ Reads \/ Elsewhere
    PROVE  InForceKnown'
<1>. DEFINE F == InForce
            K1 == \E x \in Channels : F \in leases[x]
            K2 == \E x \in Channels : at[x] = "acquiring" /\ answer[x] = LeaseOf(F)
            K3 == \E i \in DOMAIN wire :
                     /\ wire[i].f = "answer" /\ wire[i].a = LeaseOf(F) /\ Newest(wire[i])
                     /\ at[wire[i].by] = "acquiring" /\ DeviceOf[wire[i].by] = control.who
            K4 == \E i \in DOMAIN asked : asked[i].op = [o |-> "release", ref |-> F]
            K5 == \E x \in unanswered.acquires : DeviceOf[x] = control.who
            M1 == \E x \in Channels : F \in leases'[x]
            M2 == \E x \in Channels : at'[x] = "acquiring" /\ answer'[x] = LeaseOf(F)
            M3 == \E i \in DOMAIN wire' :
                     /\ wire'[i].f = "answer" /\ wire'[i].a = LeaseOf(F)
                     /\ wire'[i].by \in pending' /\ wire'[i].id = called'[wire'[i].by]
                     /\ at'[wire'[i].by] = "acquiring" /\ DeviceOf[wire'[i].by] = control.who
            M4 == \E i \in DOMAIN asked' : asked'[i].op = [o |-> "release", ref |-> F]
            M5 == \E x \in unanswered'.acquires : DeviceOf[x] = control.who
<1>0. WorkOurs /\ OrderInv
  BY DEF StreamsInv
<1>1. InForce' = F
  BY DEF InForce
<1>2. K1 \/ K2 \/ K3 \/ K4 \/ K5
  BY DEF InForceKnown, IsAnswer
<1>3. ASSUME M1 \/ M2 \/ M3 \/ M4 \/ M5 PROVE InForceKnown'
  BY <1>1, <1>3 DEF InForceKnown, IsAnswer, LeaseOf, Newest
<1>4. \A x \in Channels : at[x] = "using" /\ answer[x] = Refused => F # work[x]
  BY DEF AskedInv, OutOfForce
<1>5. \A i \in DOMAIN wire : wire[i].f = "answer" =>
             wire[i].by \in Channels /\ wire[i].id \in Nat /\ wire[i].id <= called[wire[i].by]
  <2>1. \A i \in DOMAIN wire : wire[i] \in Frames
    BY DEF Shape
  <2>. QED  BY <2>1 DEF Frames, AnswerFrames, ItemFrames, CallsInv, IsAnswer
<1>. HIDE DEF F
<1>6. ASSUME NEW x \in Channels, ThreadStep(x) PROVE M1 \/ M2 \/ M3 \/ M4 \/ M5
  <2>0. ASSUME NEW op, Asks(x, op)
        PROVE  /\ \A i \in DOMAIN asked : i \in DOMAIN asked' /\ asked'[i] = asked[i]
               /\ op = [o |-> "release", ref |-> F] => M4
    <3>. DEFINE r == [by |-> x, id |-> called[x] + 1, op |-> op]
    <3>1. asked' = Append(asked, r) /\ asked \in Seq(Requests) /\ r.op = op
      BY <2>0 DEF Asks, Shape
    <3>. HIDE DEF r
    <3>2. /\ \A i \in DOMAIN asked : i \in DOMAIN asked' /\ asked'[i] = asked[i]
          /\ Len(asked) + 1 \in DOMAIN asked' /\ asked'[Len(asked) + 1] = r
      BY <3>1
    <3>. QED  BY <3>1, <3>2
  <2>1. CASE K1
    <3>1. PICK y \in Channels : F \in leases[y]
      BY <2>1
    <3>2. F \in leases'[y] \/ \E op : Asks(x, op) /\ op = [o |-> "release", ref |-> F]
      <4>. USE DEF Thread, Stays
      <4>1. CASE Walks(x)
        BY <3>1, <4>1 DEF Walks
      <4>2. CASE Learns(x)
        BY <1>4, <3>1, <4>2 DEF Learns
      <4>3. CASE AsksIdle(x)
        BY <3>1, <4>3 DEF AsksIdle
      <4>4. CASE AsksOn(x)
        BY <3>1, <4>4 DEF AsksOn
      <4>5. CASE StopsWaiting(x)
        BY <3>1, <4>5 DEF StopsWaiting
      <4>6. CASE Elsewhere
        BY <3>1, <4>6 DEF Elsewhere
      <4>. QED  BY <1>6, <4>1, <4>2, <4>3, <4>4, <4>5, <4>6 DEF ThreadStep
    <3>. QED  BY <2>0, <3>2
  <2>2. CASE K2
    <3>1. PICK y \in Channels : at[y] = "acquiring" /\ answer[y] = LeaseOf(F)
      BY <2>2
    <3>2. answer[y].r = "leased" /\ answer[y].ref = F /\ answer[y] # NoAnswer /\ y \notin pending
      BY <3>1 DEF LeaseOf, NoAnswer, WaitsInv
    <3>3. \/ at'[y] = "acquiring" /\ answer'[y] = LeaseOf(F)
          \/ F \in leases'[y]
      <4>. USE DEF Thread, Stays
      <4>1. CASE Walks(x)
        BY <3>1, <4>1 DEF Walks, Waits
      <4>2. CASE Learns(x)
        BY <3>1, <3>2, <4>2 DEF Learns
      <4>3. CASE AsksIdle(x)
        BY <3>1, <4>3 DEF AsksIdle
      <4>4. CASE AsksOn(x)
        BY <3>1, <4>4 DEF AsksOn
      <4>5. CASE StopsWaiting(x)
        BY <3>1, <3>2, <4>5 DEF StopsWaiting
      <4>6. CASE Elsewhere
        BY <3>1, <4>6 DEF Elsewhere
      <4>. QED  BY <1>6, <4>1, <4>2, <4>3, <4>4, <4>5, <4>6 DEF ThreadStep
    <3>. QED  BY <3>3
  <2>3. CASE K3
    <3>1. PICK i \in DOMAIN wire :
              /\ wire[i].f = "answer" /\ wire[i].a = LeaseOf(F) /\ Newest(wire[i])
              /\ at[wire[i].by] = "acquiring" /\ DeviceOf[wire[i].by] = control.who
      BY <2>3
    <3>2. wire' = wire
      BY <1>6 DEF ThreadStep, Walks, Learns, AsksIdle, AsksOn, StopsWaiting, Elsewhere, NoAsk, Asks
    <3>. DEFINE w == wire[i]
    <3>3. w.by \in Channels /\ w.id \in Nat /\ w.id <= called[w.by] /\ Newest(w)
      BY <1>5, <3>1
    <3>. HIDE DEF w
    <3>4. \/ w.by \in pending' /\ w.id = called'[w.by] /\ at'[w.by] = at[w.by]
          \/ at[w.by] = "acquiring" => w.by \in unanswered'.acquires
      <4>1. ASSUME NEW r, r.by \in Channels, r.id \in Nat, r.id <= called[r.by], Newest(r)
            PROVE  \/ r.by \in pending' /\ r.id = called'[r.by] /\ at'[r.by] = at[r.by]
                   \/ at[r.by] = "acquiring" => r.by \in unanswered'.acquires
        BY <1>0, <1>6, <4>1, NewestStays DEF Newest
      <4>. QED  BY <3>3, <4>1
    <3>. QED  BY <3>1, <3>2, <3>4 DEF w
  <2>4. CASE K4
    <3>1. PICK i \in DOMAIN asked : asked[i].op = [o |-> "release", ref |-> F]
      BY <2>4
    <3>2. i \in DOMAIN asked' /\ asked'[i] = asked[i]
      <4>1. CASE Silent(x)
        BY <4>1 DEF Silent
      <4>. QED  BY <1>0, <1>6, <2>0, <4>1, ThreadCalls
    <3>. QED  BY <3>1, <3>2
  <2>5. CASE K5
    <3>1. unanswered.acquires \subseteq unanswered'.acquires
      BY <1>6 DEF ThreadStep, Walks, Learns, AsksIdle, AsksOn, StopsWaiting, Elsewhere, Calm
    <3>. QED  BY <2>5, <3>1
  <2>. HIDE DEF K1, K2, K3, K4, K5, M1, M2, M3, M4, M5
  <2>. QED  BY <1>2, <2>1, <2>2, <2>3, <2>4, <2>5
<1>7. ASSUME Answering \/ Speaks \/ Elsewhere
      PROVE  /\ UNCHANGED <<called, pending, answer, at, leases, unanswered>>
  BY <1>7 DEF Answering, Speaks, Tells, Says, Elsewhere, NoAsk, Calm
<1>8. ASSUME Answering \/ Speaks \/ Elsewhere,
             \A i \in DOMAIN wire : i \in DOMAIN wire' /\ wire'[i] = wire[i],
             K4 => M4
      PROVE  M1 \/ M2 \/ M3 \/ M4 \/ M5
  <2>1. (K1 => M1) /\ (K2 => M2) /\ (K5 => M5)
    BY <1>7, <1>8
  <2>2. K3 => M3
    BY <1>7, <1>8 DEF Newest
  <2>. HIDE DEF K1, K2, K3, K4, K5, M1, M2, M3, M4, M5
  <2>. QED  BY <1>2, <1>8, <2>1, <2>2
<1>9. CASE Answering
  <2>1. PICK items, a : /\ Tells(items, a)
                        /\ Head(asked).op.o = "release" =>
                             \/ control' = GivenUp(control)
                             \/ ~ (control.who \in Holders /\ Head(asked).op.ref = F)
    BY <1>9 DEF Answering, F
  <2>2. /\ \A i \in DOMAIN asked : i # 1 => i - 1 \in DOMAIN asked' /\ asked'[i - 1] = asked[i]
        /\ \A i \in DOMAIN wire : i \in DOMAIN wire' /\ wire'[i] = wire[i]
        /\ Head(asked) = asked[1]
    BY <2>1, TellsThen
  <2>3. control' # GivenUp(control)
    BY HoldersAssumption DEF GivenUp
  <2>4. asked[1].op # [o |-> "release", ref |-> F]
    BY <2>1, <2>2, <2>3
  <2>5. K4 => M4
    BY <2>2, <2>4
  <2>. HIDE DEF K4, M1, M2, M3, M4, M5
  <2>. QED  BY <1>3, <1>8, <1>9, <2>2, <2>5
<1>10. CASE Speaks
  <2>1. PICK items : Says(items)
    BY <1>10 DEF Speaks
  <2>2. asked' = asked /\ \A i \in DOMAIN wire : i \in DOMAIN wire' /\ wire'[i] = wire[i]
    BY <2>1, SaysThen DEF Says
  <2>3. K4 => M4
    BY <2>2
  <2>. HIDE DEF K4, M1, M2, M3, M4, M5
  <2>. QED  BY <1>3, <1>8, <1>10, <2>2, <2>3
<1>11. CASE Elsewhere
  <2>1. asked' = asked /\ wire' = wire
    BY <1>11 DEF Elsewhere, NoAsk
  <2>2. K4 => M4
    BY <2>1
  <2>. HIDE DEF K4, M1, M2, M3, M4, M5
  <2>. QED  BY <1>3, <1>8, <1>11, <2>1, <2>2
<1>12. CASE Reads
  <2>. DEFINE w == wire[1]
              mine == w.f = "answer" /\ w.by \in pending /\ w.id = called[w.by]
  <2>1. /\ 1 \in DOMAIN wire /\ Head(wire) = wire[1]
        /\ \A i \in DOMAIN wire : i # 1 => i - 1 \in DOMAIN wire' /\ wire'[i - 1] = wire[i]
    BY <1>12, ReadsThen
  <2>2. /\ UNCHANGED <<asked, called, at, leases, unanswered>>
        /\ \/ mine /\ answer' = [answer EXCEPT ![w.by] = w.a] /\ pending' = pending \ {w.by}
           \/ ~ mine /\ UNCHANGED <<answer, pending>>
    BY <1>12, <2>1 DEF Reads
  <2>3. (K1 => M1) /\ (K4 => M4) /\ (K5 => M5)
    BY <2>2
  <2>4. K2 => M2
    <3>1. ASSUME NEW x \in Channels, at[x] = "acquiring", answer[x] = LeaseOf(F) PROVE answer'[x] = answer[x]
      <4>1. x \notin pending
        BY <3>1 DEF WaitsInv, LeaseOf, NoAnswer
      <4>. QED  BY <2>2, <4>1 DEF Shape
    <3>. QED  BY <2>2, <3>1
  <2>5. ASSUME NEW i \in DOMAIN wire,
               /\ wire[i].f = "answer" /\ wire[i].a = LeaseOf(F) /\ Newest(wire[i])
               /\ at[wire[i].by] = "acquiring" /\ DeviceOf[wire[i].by] = control.who
        PROVE  M2 \/ M3
    <3>1. CASE i = 1
      <4>1. mine /\ w.by \in Channels /\ answer'[w.by] = LeaseOf(F)
        BY <1>5, <2>2, <2>5, <3>1 DEF Newest, Shape
      <4>. QED  BY <2>2, <2>5, <3>1, <4>1
    <3>2. CASE i # 1
      <4>1. i - 1 \in DOMAIN wire' /\ wire'[i - 1] = wire[i]
        BY <2>1, <3>2
      <4>2. wire[i].by \in pending' /\ wire[i].id = called'[wire[i].by]
        <5>1. ASSUME mine, w.by = wire[i].by PROVE FALSE
          BY <2>1, <2>5, <3>2, <5>1 DEF Newest, CallsInv, IsAnswer
        <5>. QED  BY <2>2, <2>5, <5>1 DEF Newest
      <4>. QED  BY <2>2, <2>5, <4>1, <4>2
    <3>. QED  BY <3>1, <3>2
  <2>6. K3 => M2 \/ M3
    <3>. HIDE DEF M2, M3
    <3>. QED  BY <2>5
  <2>. HIDE DEF K1, K2, K3, K4, K5, M1, M2, M3, M4, M5
  <2>. QED  BY <1>2, <1>3, <2>3, <2>4, <2>6
<1>. HIDE DEF M1, M2, M3, M4, M5
<1>. QED  BY <1>3, <1>6, <1>9, <1>10, <1>11, <1>12

\* A new hold of control is a lease that was just handed out, or nobody's from afar.
LEMMA LeasesNext ==
    ASSUME Shape, WaitsInv, CallsInv, StreamsInv, AskedInv, LeasesInv,
           (\E x \in Channels : ThreadStep(x)) \/ Answering \/ Speaks \/ Reads \/ Elsewhere
    PROVE  LeasesInv'
<1>. SUFFICES ASSUME control'.who \in Holders PROVE InForceKnown'
  BY DEF LeasesInv
<1>1. CASE control' = control
  BY <1>1, KnownStays DEF LeasesInv
<1>2. CASE control' # control
  <2>1. Answering \/ Speaks
    BY <1>2 DEF ThreadStep, Walks, Learns, AsksIdle, AsksOn, StopsWaiting, Elsewhere, Calm, Reads
  <2>2. ~ Speaks
    BY <1>2 DEF Speaks, Taken
  <2>3. GivenUp(control).who = "nobody"
    BY DEF GivenUp
  <2>. DEFINE g == control.generation + 1
              ref == [id |-> g, generation |-> g]
  <2>4. PICK items : /\ Head(asked).op.o = "acquire"
                     /\ control' = Acquired(control, Head(asked).op.holder, control.generation + 1)
                     /\ Tells(items, [r |-> "leased", ref |-> ref])
    BY <1>2, <2>1, <2>2, <2>3, HoldersAssumption DEF Answering
  <2>5. control'.who = Head(asked).op.holder /\ control'.id = g /\ control'.generation = g
    BY <2>4, ControlIs DEF Acquired
  <2>6. InForce' = ref
    BY <2>5 DEF InForce
  <2>. HIDE DEF ref
  <2>7. /\ Head(asked) = asked[1] /\ 1 \in DOMAIN asked
        /\ Len(wire') \in DOMAIN wire' /\ wire'[Len(wire')].f = "answer"
        /\ wire'[Len(wire')].a = [r |-> "leased", ref |-> ref]
        /\ wire'[Len(wire')].by = Head(asked).by /\ wire'[Len(wire')].id = Head(asked).id
    BY <2>4, TellsThen
  <2>8. UNCHANGED <<called, pending, at, unanswered>>
    BY <2>4 DEF Tells
  <2>9. /\ asked[1].op.holder = DeviceOf[asked[1].by]
        /\ asked[1].by \in unanswered.acquires \/ (Newest(asked[1]) /\ at[asked[1].by] = "acquiring")
    BY <2>4, <2>7 DEF AskedInv
  <2>10. CASE asked[1].by \in unanswered.acquires
    BY <2>5, <2>7, <2>8, <2>9, <2>10 DEF InForceKnown
  <2>11. CASE Newest(asked[1]) /\ at[asked[1].by] = "acquiring"
    <3>. DEFINE n == Len(wire')
    <3>1. /\ n \in DOMAIN wire' /\ wire'[n].f = "answer" /\ wire'[n].a = [r |-> "leased", ref |-> InForce']
          /\ wire'[n].by \in pending' /\ wire'[n].id = called'[wire'[n].by]
          /\ at'[wire'[n].by] = "acquiring" /\ DeviceOf[wire'[n].by] = control'.who
      BY <2>5, <2>6, <2>7, <2>8, <2>9, <2>11 DEF Newest
    <3>. HIDE DEF n
    <3>. QED  BY <3>1 DEF InForceKnown, IsAnswer, LeaseOf, Newest
  <2>. QED  BY <2>9, <2>10, <2>11
<1>. QED  BY <1>1, <1>2

---------------------------------------------------------------------------
\* Every step keeps the shapes

\* What a step changes of a variable that maps channels is what it maps some channel to.
Maps(f) == f = [x \in Channels |-> f[x]]

AllMaps == Maps(at) /\ Maps(answer) /\ Maps(watched) /\ Maps(leases) /\ Maps(called) /\ DOMAIN work = Channels
           /\ Maps(following)

\* A value for one channel.
LEMMA MapsExcept ==
    ASSUME NEW f, Maps(f), NEW x, NEW v
    PROVE  Maps([f EXCEPT ![x] = v])
  BY DEF Maps

\* Every step keeps what is known of every channel.
LEMMA AllMapsNext == ASSUME AllMaps, [Next]_vars PROVE AllMaps'
<1>. USE DEF AllMaps, visit, ipc, daemon, connector, device, Steady, Around, Takes, Goes, Ask, Hear, Back, Reply
<1>0. ASSUME NEW f, NEW g, Maps(f), g = f PROVE Maps(g)
  BY <1>0
<1>1. CASE Read
  <2>1. UNCHANGED <<at, work, watched, leases, following, called>>
    BY <1>1 DEF Read
  <2>2. answer' = answer \/ \E x, a : answer' = [answer EXCEPT ![x] = a]
    BY <1>1 DEF Read, HandOver, Feed
  <2>3. Maps(answer')
    BY <2>2, MapsExcept
  <2>. QED  BY <2>1, <2>3 DEF Maps
<1>2. CASE Serve \/ Prints \/ LocalTypes \/ RunsOut
  <2>1. UNCHANGED <<at, work, watched, leases, following, called, answer>>
    BY <1>2 DEF Serve, Prints, LocalTypes, RunsOut, Quiet, ServeWatch, ServeDetach, ServeController,
                ServeAcquire, ServeUse, ServeRelease, Respond
  <2>. QED  BY <2>1 DEF Maps
<1>3. CASE \/ RecheckAll \/ Lose \/ Join \/ Reconnect \/ (\E d \in Holders : Revoke(d))
           \/ (\E kind \in {"shown", "other"} : Record(kind)) \/ UNCHANGED vars
           \/ \E x \in Channels : Shut(x) \/ Write(x)
  <2>1. UNCHANGED <<at, work, watched, leases, following, called, answer>>
    BY <1>3 DEF RecheckAll, Lose, Join, Reconnect, Revoke, Record, Shut, Write, vars
  <2>. QED  BY <2>1 DEF Maps
<1>. DEFINE Ex(f, g) == g = f \/ \E x, v : g = [f EXCEPT ![x] = v]
            Each == /\ Ex(at, at') /\ Ex(answer, answer') /\ Ex(watched, watched') /\ Ex(leases, leases')
                    /\ Ex(called, called') /\ Ex(work, work') /\ Ex(following, following')
<1>4. ASSUME Each PROVE AllMaps'
  <2>1. ASSUME NEW f, NEW g, Maps(f), Ex(f, g) PROVE Maps(g)
    BY <2>1, MapsExcept
  <2>2. DOMAIN work' = Channels
    BY <1>4
  <2>. HIDE DEF Ex
  <2>. QED  BY <1>4, <2>1, <2>2 DEF Maps
<1>5. ASSUME NEW x \in Channels,
             Enter(x) \/ Greet(x) \/ Recheck(x) \/ Ends(x) \/ BeginClose(x) \/ Open(x) \/ GivesUpAsking(x)
             \/ GivesUpWaiting(x) \/ FollowingEnds(x) \/ \E to : Poll(x, to)
      PROVE  Each
  BY <1>5 DEF Enter, Greet, Recheck, Ends, BeginClose, Open, GivesUpAsking, GivesUpWaiting, GivesUp,
              FollowingEnds, Poll, SendRecorded
<1>6. ASSUME NEW x \in Channels, LetsGo(x) PROVE Each
  BY <1>6 DEF LetsGo, LetGoOfStream, LetGoOfLease, HasLetGo
<1>7. ASSUME NEW x \in Channels, Hears(x) PROVE Each
  BY <1>7 DEF Hears, Attached, ToldWho, Detached, TakesLease, Used, Finished
<1>8. ASSUME NEW x \in Channels, Request(x) PROVE Each
  BY <1>8, ZenonT(60) DEF Request, RefuseRequest, Attach, Detach, Acquire, Use, GiveBack, Subscribe, Unsubscribe, SendRecorded
<1>. HIDE DEF Each
<1>9. ASSUME NEW x \in Channels, Visit(x) \/ GivesUpAsking(x) \/ GivesUpWaiting(x) \/ FollowingEnds(x) \/ Open(x)
             \/ \E to : Poll(x, to)
      PROVE  AllMaps'
  BY <1>4, <1>5, <1>6, <1>7, <1>8, <1>9 DEF Visit
<1>. QED  BY <1>1, <1>2, <1>3, <1>9 DEF Next

\* The sinks, what they told, and what waits.
SinksShape ==
    /\ flows \in Seq(Flows) /\ told \in Seq(Seq(Words)) /\ Len(told) = Len(flows)
    /\ waiting \in [Channels -> 0 .. Room + 1]
    /\ watchers \subseteq Streams /\ seq \in 0 .. MaxSeq

\* A stream is fed, or its reply goes.
LEMMA BecomesShape ==
    ASSUME Shape, NEW s \in Streams, NEW x, Becomes(s, x),
           x.flow \in Flows, x.told \in Seq(Words), x.waiting \in 0 .. Room + 1, watchers' \subseteq watchers,
           seq' = seq
    PROVE  SinksShape'
<1>1. /\ flows \in Seq(Flows) /\ told \in Seq(Seq(Words)) /\ Len(told) = Len(flows)
      /\ waiting \in [Channels -> 0 .. Room + 1] /\ DOMAIN flows = Streams /\ DOMAIN told = Streams
      /\ watchers \subseteq Streams /\ seq \in 0 .. MaxSeq
  BY DEF Shape, Streams
<1>2. /\ flows' = [flows EXCEPT ![s] = x.flow] /\ told' = [told EXCEPT ![s] = x.told]
      /\ waiting' = [waiting EXCEPT ![Of(s)] = x.waiting]
  BY DEF Becomes
<1>3. flows' \in Seq(Flows) /\ Len(flows') = Len(flows)
  BY <1>1, <1>2, ExceptIs
<1>4. told' \in Seq(Seq(Words)) /\ Len(told') = Len(told)
  BY <1>1, <1>2, ExceptIs
<1>5. waiting' \in [Channels -> 0 .. Room + 1]
  BY <1>1, <1>2
<1>6. Streams' = Streams
  BY <1>3 DEF Streams
<1>. QED  BY <1>1, <1>3, <1>4, <1>5, <1>6 DEF SinksShape

\* A reply keeps the shape of its stream.
LEMMA RepliedIs ==
    ASSUME Shape, NEW s \in Streams, NEW who \in Controllers
    PROVE  /\ Replied(s, who).flow \in Flows /\ Replied(s, who).told \in Seq(Words)
           /\ Replied(s, who).waiting \in 0 .. Room + 1
<1>. DEFINE f == flows[s]
            n == waiting[Of(s)]
            left == IF n < Room THEN Room - n ELSE 0
            all == Len(f.held) <= left
            fits == IF all THEN Len(f.held) ELSE left
            outs == [i \in 1 .. fits |-> <<"out", f.held[i].n>>]
            reply == <<<<"attached", f.from>>, <<"control", who>>>>
            last == IF all THEN <<>> ELSE <<<<"over", 0>>>>
<1>1. f \in Flows /\ f.held \in Seq(Outputs) /\ f.from \in Int /\ Len(f.held) \in Nat
  <2>1. f \in Flows
    BY DEF Shape, Streams
  <2>2. f.held \in Seq(Outputs) /\ f.from \in Int
    BY <2>1 DEF Flows
  <2>. QED  BY <2>1, <2>2
<1>2. n \in 0 .. Room + 1 /\ Room \in Nat
  BY OfIs, RoomAssumption DEF Shape
<1>. HIDE DEF n, f
<1>3. left \in Nat /\ (n < Room => n + left = Room) /\ (~ (n < Room) => left = 0)
  BY <1>2
<1>4. fits \in Nat /\ fits <= Len(f.held) /\ fits <= left
  BY <1>1, <1>3
<1>5. n + fits \in 0 .. Room + 1
  BY <1>2, <1>3, <1>4
<1>6. \A i \in 1 .. fits : <<"out", f.held[i].n>> \in Words
  <2>1. ASSUME NEW i \in 1 .. fits PROVE f.held[i] \in Outputs
    <3>1. i \in 1 .. Len(f.held)
      BY <1>1, <1>4
    <3>. QED  BY <1>1, <3>1
  <2>2. \A i \in 1 .. fits : f.held[i].n \in Int
    BY <2>1 DEF Outputs
  <2>. QED  BY <2>2 DEF Words
<1>7. <<"attached", f.from>> \in Words /\ <<"control", who>> \in Words /\ <<"over", 0>> \in Words
  BY <1>1 DEF Words
<1>8. [f EXCEPT !.replied = TRUE, !.held = <<>>, !.over = ~ all] \in Flows
  <2>1. (~ all) \in BOOLEAN /\ <<>> \in Seq(Outputs)
    OBVIOUS
  <2>. HIDE DEF all
  <2>. QED  BY <1>1, <2>1 DEF Flows
<1>. HIDE DEF fits, all
<1>9. outs \in Seq(Words)
  <2>1. outs \in [1 .. fits -> Words]
    BY <1>6
  <2>. QED  BY <1>4, <2>1
<1>10. reply \in Seq(Words) /\ last \in Seq(Words)
  BY <1>7
<1>11. (reply \o outs) \o last \in Seq(Words)
  <2>. HIDE DEF reply, outs, last
  <2>1. reply \o outs \in Seq(Words)
    BY <1>9, <1>10
  <2>. QED  BY <1>10, <2>1
<1>12. /\ Replied(s, who).flow = [f EXCEPT !.replied = TRUE, !.held = <<>>, !.over = ~ all]
       /\ Replied(s, who).told = (reply \o outs) \o last
       /\ Replied(s, who).waiting = n + fits
  BY DEF Replied, f, n, fits, all
<1>. HIDE DEF reply, outs, last
<1>. QED  BY <1>5, <1>8, <1>11, <1>12

\* Who answered knows who controls the terminal.
LEMMA ReplyShape ==
    ASSUME Shape, WorkOurs, NEW x \in Channels, at[x] \in {"watching", "asking"},
           NEW who \in Controllers, Reply(x, who), seq' = seq
    PROVE  SinksShape'
<1>. DEFINE z == Replied(work[x], who)
<1>1. work[x] \in Streams
  BY DEF WorkOurs
<1>2. z.flow \in Flows /\ z.told \in Seq(Words) /\ z.waiting \in 0 .. Room + 1
  BY <1>1, RepliedIs
<1>3. Becomes(work[x], z) /\ watchers' \subseteq watchers
  BY DEF Reply, Back
<1>. HIDE DEF z
<1>. QED  BY <1>1, <1>2, <1>3, BecomesShape

\* Every step keeps the shape of the streams.
LEMMA SinksNext ==
    ASSUME Shape, WorkOurs, AskedInv, [Next]_vars
    PROVE  SinksShape'
<1>. USE DEF visit, ipc, daemon, connector, device, Steady, Around, Takes, Hear
<1>0. /\ flows \in Seq(Flows) /\ told \in Seq(Seq(Words)) /\ Len(told) = Len(flows)
      /\ waiting \in [Channels -> 0 .. Room + 1] /\ DOMAIN flows = Streams /\ DOMAIN told = Streams
      /\ watchers \subseteq Streams /\ seq \in 0 .. MaxSeq /\ Len(flows) \in Nat
  BY DEF Shape, Streams
<1>1. ASSUME UNCHANGED <<flows, told, waiting, seq>>, watchers' \subseteq watchers PROVE SinksShape'
  BY <1>0, <1>1 DEF SinksShape, Streams
<1>2. ASSUME UNCHANGED <<flows, told, watchers, seq>>, waiting' \in [Channels -> 0 .. Room + 1] PROVE SinksShape'
  BY <1>0, <1>2 DEF SinksShape, Streams
<1>3. CASE Read
  <2>1. /\ wire # <<>> /\ Head(wire) \in Frames /\ seq' = seq
        /\ IF Head(wire).f = "answer" THEN HandOver(Head(wire)) ELSE Feed(Head(wire))
    BY <1>3, TailIs DEF Read, Shape
  <2>2. CASE Head(wire).f = "answer" \/ Head(wire).s \notin watchers
    BY <1>1, <2>1, <2>2 DEF HandOver, Feed
  <2>3. CASE Head(wire).f # "answer" /\ Head(wire).s \in watchers
    <3>. DEFINE frame == Head(wire)
                z == Take(At(frame.s), frame.item)
    <3>1. frame.s \in Streams /\ frame.item \in Items
      BY <1>0, <2>1, <2>3 DEF Frames, AnswerFrames, ItemFrames
    <3>2. Becomes(frame.s, z) /\ watchers' \subseteq watchers
      BY <2>1, <2>3 DEF Feed
    <3>. HIDE DEF frame
    <3>3. z.flow \in Flows /\ z.told \in Seq(Words) /\ z.waiting \in 0 .. Room + 1
      BY <3>1, TakeIs
    <3>. HIDE DEF z
    <3>. QED  BY <2>1, <3>1, <3>2, <3>3, BecomesShape
  <2>. QED  BY <2>2, <2>3
<1>4. CASE Serve \/ LocalTypes \/ RunsOut
  <2>1. UNCHANGED <<flows, told, waiting, seq, watchers>>
    BY <1>4 DEF Serve, LocalTypes, RunsOut, Quiet, ServeWatch, ServeDetach, ServeController,
                ServeAcquire, ServeUse, ServeRelease, Respond
  <2>. QED  BY <1>1, <2>1
<1>5. CASE Prints
  <2>1. UNCHANGED <<flows, told, waiting, watchers>> /\ seq' = seq + 1 /\ seq < MaxSeq
    BY <1>5 DEF Prints, Quiet
  <2>. QED  BY <1>0, <2>1, BoundsAssumption DEF SinksShape, Streams
<1>6. CASE \/ RecheckAll \/ Lose \/ Join \/ Reconnect \/ (\E d \in Holders : Revoke(d))
           \/ (\E kind \in {"shown", "other"} : Record(kind)) \/ UNCHANGED vars
           \/ \E x \in Channels : Shut(x) \/ FollowingEnds(x) \/ Open(x)
  <2>1. UNCHANGED <<flows, told, waiting, seq, watchers>>
    BY <1>6 DEF RecheckAll, Lose, Join, Reconnect, Revoke, Record, Shut, FollowingEnds, Open, vars
  <2>. QED  BY <1>1, <2>1
<1>7. ASSUME NEW x \in Channels, Write(x) PROVE SinksShape'
  <2>1. UNCHANGED <<flows, told, watchers, seq>> /\ waiting[x] > 0 /\ waiting' = [waiting EXCEPT ![x] = @ - 1]
    BY <1>7 DEF Write
  <2>2. waiting' \in [Channels -> 0 .. Room + 1]
    BY <1>0, <2>1, RoomAssumption
  <2>. QED  BY <1>2, <2>1, <2>2
<1>8. ASSUME NEW x \in Channels, NEW from, NEW to, NEW before, SendRecorded(x, from, to, before),
             UNCHANGED <<flows, told, watchers, seq>>
      PROVE  SinksShape'
  <2>1. waiting' = waiting \/ (waiting' = [waiting EXCEPT ![x] = @ + 1] /\ waiting[x] <= ActivityRoom)
    <3>1. waiting' = waiting \/ (waiting' = [waiting EXCEPT ![x] = @ + 1] /\ waiting[x] <= ActivityRoom)
      BY <1>0, <1>8 DEF SendRecorded
    <3>. QED  BY <3>1
  <2>2. waiting' \in [Channels -> 0 .. Room + 1]
    BY <1>0, <2>1, RoomAssumption
  <2>. QED  BY <1>2, <1>8, <2>2
<1>9. ASSUME NEW x \in Channels,
             Enter(x) \/ Greet(x) \/ Recheck(x) \/ Ends(x) \/ BeginClose(x) \/ GivesUpAsking(x)
             \/ GivesUpWaiting(x) \/ LetsGo(x)
      PROVE  SinksShape'
  <2>1. UNCHANGED <<flows, told, waiting, seq>> /\ watchers' \subseteq watchers
    BY <1>9 DEF Enter, Greet, Recheck, Ends, BeginClose, GivesUpAsking, GivesUpWaiting, GivesUp, LetsGo,
                LetGoOfStream, LetGoOfLease, HasLetGo
  <2>. QED  BY <1>1, <2>1
<1>10. ASSUME NEW x \in Channels, NEW to, Poll(x, to) PROVE SinksShape'
  <2>1. UNCHANGED <<flows, told, watchers, seq>>
    BY <1>10 DEF Poll
  <2>. QED  BY <1>8, <1>10, <2>1 DEF Poll
<1>11. ASSUME NEW x \in Channels, Request(x) PROVE SinksShape'
  <2>1. ASSUME NEW after, Attach(x, after) PROVE SinksShape'
    <3>1. /\ flows' = Append(flows, NewFlow(x)) /\ told' = Append(told, <<>>)
          /\ watchers' = watchers \cup {Len(flows) + 1} /\ UNCHANGED <<waiting, seq>>
      BY <2>1 DEF Attach
    <3>2. NewFlow(x) \in Flows
      BY DEF NewFlow, Flows
    <3>3. flows' \in Seq(Flows) /\ Len(flows') = Len(flows) + 1
      BY <1>0, <3>1, <3>2
    <3>4. told' \in Seq(Seq(Words)) /\ Len(told') = Len(told) + 1
      <4>1. <<>> \in Seq(Words)
        OBVIOUS
      <4>. QED  BY <1>0, <3>1, <4>1
    <3>5. watchers' \subseteq Streams'
      <4>1. Streams = 1 .. Len(flows) /\ Streams' = 1 .. Len(flows')
        BY DEF Streams
      <4>2. Len(flows) + 1 \in Streams' /\ \A s \in Streams : s \in Streams'
        BY <1>0, <3>3, <4>1
      <4>. HIDE DEF Streams
      <4>. QED  BY <1>0, <3>1, <4>2
    <3>. QED  BY <1>0, <3>1, <3>3, <3>4, <3>5 DEF SinksShape
  <2>2. ASSUME NEW from, NEW to, Subscribe(x, from, to) PROVE SinksShape'
    <3>1. UNCHANGED <<flows, told, watchers, seq>> /\ SendRecorded(x, from, to, <<from>>)
      BY <2>2 DEF Subscribe
    <3>. QED  BY <1>8, <3>1
  <2>3. CASE \/ RefuseRequest(x) \/ (\E s \in Streams : Detach(x, s)) \/ (\E t \in BOOLEAN : Acquire(x, t))
             \/ (\E ref \in leases[x] : Use(x, ref) \/ GiveBack(x, ref)) \/ Unsubscribe(x)
    <3>1. UNCHANGED <<flows, told, waiting, seq>> /\ watchers' \subseteq watchers
      BY <2>3 DEF RefuseRequest, Detach, Acquire, Use, GiveBack, Unsubscribe
    <3>. QED  BY <1>1, <3>1
  <2>. QED  BY <1>11, <2>1, <2>2, <2>3 DEF Request
<1>12. ASSUME NEW x \in Channels, Hears(x) PROVE SinksShape'
  <2>1. CASE Attached(x)
    <3>1. CASE flows[work[x]].controller = None
      <4>1. UNCHANGED <<flows, told, waiting, seq, watchers>>
        BY <2>1, <3>1 DEF Attached
      <4>. QED  BY <1>1, <4>1
    <3>2. CASE flows[work[x]].controller # None
      <4>1. /\ at[x] = "watching" /\ Reply(x, flows[work[x]].controller) /\ seq' = seq
        BY <2>1, <3>2 DEF Attached
      <4>2. flows[work[x]] \in Flows
        BY <1>0, <4>1 DEF WorkOurs
      <4>3. flows[work[x]].controller \in Controllers
        BY <3>2, <4>2 DEF Flows
      <4>. QED  BY <4>1, <4>3, ReplyShape
    <3>. QED  BY <3>1, <3>2
  <2>2. CASE ToldWho(x)
    <3>1. at[x] = "asking" /\ answer[x] # NoAnswer /\ Reply(x, answer[x].who) /\ seq' = seq
      BY <2>2 DEF ToldWho, Answered
    <3>2. answer[x].r = "controller" /\ answer[x] \in Answers
      BY <3>1 DEF AskedInv, Shape
    <3>3. answer[x].who \in Controllers
      BY <3>2 DEF Answers, NoAnswer, Done, Refused
    <3>. QED  BY <3>1, <3>3, ReplyShape
  <2>3. CASE Detached(x)
    <3>1. /\ told' = [told EXCEPT ![work[x]] = Append(@, <<"done", 0>>)] /\ UNCHANGED <<flows, waiting, seq, watchers>>
          /\ work[x] \in Streams
      BY <2>3 DEF Detached, Back, WorkOurs
    <3>2. Append(told[work[x]], <<"done", 0>>) \in Seq(Words)
      <4>1. told[work[x]] \in Seq(Words) /\ <<"done", 0>> \in Words
        BY <1>0, <3>1 DEF Words
      <4>. QED  BY <4>1
    <3>3. told' \in Seq(Seq(Words)) /\ Len(told') = Len(told)
      BY <1>0, <3>1, <3>2, ExceptIs
    <3>. QED  BY <1>0, <3>1, <3>3 DEF SinksShape, Streams
  <2>4. CASE TakesLease(x) \/ Used(x) \/ Finished(x)
    <3>1. UNCHANGED <<flows, told, waiting, seq, watchers>>
      BY <2>4 DEF TakesLease, Used, Finished, Back
    <3>. QED  BY <1>1, <3>1
  <2>. QED  BY <1>12, <2>1, <2>2, <2>3, <2>4 DEF Hears
<1>. QED  BY <1>3, <1>4, <1>5, <1>6, <1>7, <1>9, <1>10, <1>11, <1>12 DEF Next, Visit

\* Requests, answers, threads and control.
LEMMA TrafficNext ==
    ASSUME Shape, WorkOurs, WaitsInv, OrderInv,
           (\E x \in Channels : ThreadStep(x)) \/ Answering \/ Speaks \/ Reads \/ Elsewhere
    PROVE  /\ asked' \in Seq(Requests) /\ wire' \in Seq(Frames) /\ pending' \subseteq Channels
           /\ viewers' \subseteq Streams'
           /\ unanswered' \in [streams: SUBSET Nat, acquires: SUBSET Channels]
           /\ \A y \in Channels :
                 /\ answer'[y] \in Answers /\ at'[y] \in Steps /\ watched'[y] \subseteq Nat
                 /\ leases'[y] \subseteq LeaseRefs
<1>0. /\ asked \in Seq(Requests) /\ wire \in Seq(Frames) /\ pending \subseteq Channels
      /\ viewers \subseteq Streams
      /\ unanswered \in [streams: SUBSET Nat, acquires: SUBSET Channels]
      /\ \A y \in Channels :
            /\ answer[y] \in Answers /\ at[y] \in Steps /\ watched[y] \subseteq Nat
            /\ leases[y] \subseteq LeaseRefs
  BY DEF Shape
<1>1. Streams \subseteq Streams'
  BY DEF ThreadStep, Walks, Learns, AsksIdle, AsksOn, StopsWaiting, Answering, Speaks, Tells, Says, Reads, Elsewhere,
         SameStreams
<1>2. ASSUME NEW x \in Channels, ThreadStep(x)
      PROVE  /\ asked' \in Seq(Requests) /\ wire' \in Seq(Frames) /\ pending' \subseteq Channels
             /\ viewers' \subseteq Streams'
             /\ unanswered' \in [streams: SUBSET Nat, acquires: SUBSET Channels]
             /\ \A y \in Channels :
                   /\ answer'[y] \in Answers /\ at'[y] \in Steps /\ watched'[y] \subseteq Nat
                   /\ leases'[y] \subseteq LeaseRefs
  <2>1. asked' \in Seq(Requests) /\ wire' \in Seq(Frames) /\ pending' \subseteq Channels
    <3>1. CASE Silent(x)
      BY <1>0, <3>1 DEF Silent
    <3>2. ASSUME NEW op \in Ops, Asks(x, op)
          PROVE  asked' \in Seq(Requests) /\ wire' \in Seq(Frames) /\ pending' \subseteq Channels
      <4>1. asked' \in Seq(Requests) /\ wire' = wire /\ pending' = pending \cup {x}
        BY <3>2, AsksThen
      <4>. QED  BY <1>0, <4>1
    <3>. QED  BY <1>2, <3>1, <3>2, ThreadCalls
  <2>2. viewers' = viewers
    BY <1>2 DEF ThreadStep, Walks, Learns, AsksIdle, AsksOn, StopsWaiting, Elsewhere, Calm
  <2>3. unanswered' \in [streams: SUBSET Nat, acquires: SUBSET Channels]
    <3>1. CASE StopsWaiting(x)
      <4>1. at[x] = "watching" => work[x] \in Nat
        BY OfIs DEF WorkOurs
      <4>. QED  BY <1>0, <3>1, <4>1 DEF StopsWaiting
    <3>2. CASE ~ StopsWaiting(x)
      BY <1>0, <1>2, <3>2 DEF ThreadStep, Walks, Learns, AsksIdle, AsksOn, Elsewhere, Calm
    <3>. QED  BY <3>1, <3>2
  <2>4. NoAnswer \in Answers /\ Done \in Answers /\ [r |-> "controller", who |-> "nobody"] \in Answers
    BY DEF Answers, Controllers
  <2>5. ASSUME NEW y \in Channels
        PROVE  /\ answer'[y] \in Answers /\ at'[y] \in Steps /\ watched'[y] \subseteq Nat
               /\ leases'[y] \subseteq LeaseRefs
    <3>. USE DEF Thread, Stays
    <3>0. ASSUME y # x, ~ Elsewhere PROVE
                 /\ answer'[y] = answer[y] /\ at'[y] = at[y] /\ watched'[y] = watched[y]
                 /\ leases'[y] = leases[y]
      BY <1>2, <2>5, <3>0 DEF ThreadStep, Walks, Learns, AsksIdle, AsksOn, StopsWaiting
    <3>1. CASE Walks(x)
      BY <1>0, <2>4, <3>0, <3>1 DEF Walks, Steps
    <3>2. CASE Learns(x)
      <4>1. at[x] \in {"watching", "asking"} => work[x] \in Nat
        BY OfIs DEF WorkOurs
      <4>2. answer[x].r = "leased" => answer[x].ref \in LeaseRefs
        BY <1>0 DEF Answers, NoAnswer, Done, Refused
      <4>3. answer'[x] = NoAnswer /\ at'[x] \in Steps
        BY <3>2 DEF Learns, Steps
      <4>4. watched'[x] \subseteq Nat
        BY <1>0, <3>2, <4>1 DEF Learns
      <4>5. leases'[x] \subseteq LeaseRefs
        BY <1>0, <3>2, <4>2 DEF Learns
      <4>. QED  BY <1>0, <2>4, <3>0, <3>2, <4>3, <4>4, <4>5 DEF Elsewhere
    <3>3. CASE AsksIdle(x)
      <4>1. answer'[x] = answer[x] /\ at'[x] \in Steps
        BY <3>3 DEF AsksIdle, Steps
      <4>2. watched'[x] \subseteq watched[x] /\ leases'[x] \subseteq leases[x]
        BY <3>3 DEF AsksIdle
      <4>. QED  BY <1>0, <2>4, <3>0, <4>1, <4>2 DEF Elsewhere
    <3>4. CASE AsksOn(x)
      <4>1. answer'[x] = NoAnswer /\ at'[x] \in Steps
        BY <3>4 DEF AsksOn, Steps
      <4>2. watched'[x] \subseteq watched[x] /\ leases'[x] \subseteq leases[x]
        BY <3>4 DEF AsksOn
      <4>. QED  BY <1>0, <2>4, <3>0, <4>1, <4>2 DEF Elsewhere
    <3>5. CASE StopsWaiting(x)
      BY <1>0, <2>4, <3>0, <3>5 DEF StopsWaiting, Steps, Elsewhere
    <3>6. CASE Elsewhere
      BY <1>0, <3>6 DEF Elsewhere
    <3>. QED  BY <1>2, <3>1, <3>2, <3>3, <3>4, <3>5, <3>6 DEF ThreadStep
  <2>. QED  BY <1>0, <1>1, <2>1, <2>2, <2>3, <2>5
<1>3. ASSUME NEW items, NEW a, Tells(items, a), Answering
      PROVE  asked' \in Seq(Requests) /\ wire' \in Seq(Frames) /\ viewers' \subseteq Streams'
             /\ UNCHANGED <<pending, answer, at, watched, leases, unanswered>>
  <2>1. asked' \in Seq(Requests) /\ wire' \in Seq(Frames) /\ Head(asked) = asked[1] /\ 1 \in DOMAIN asked
    BY <1>3, TellsThen
  <2>2. asked[1].op.o = "watch" => asked[1].op.s \in Streams
    BY <2>1 DEF OrderInv
  <2>3. viewers' \subseteq viewers \/ (asked[1].op.o = "watch" /\ viewers' = viewers \cup {asked[1].op.s})
    BY <1>3, <2>1 DEF Answering
  <2>. QED  BY <1>0, <1>1, <1>3, <2>1, <2>2, <2>3 DEF Tells
<1>4. CASE Answering
  <2>1. PICK items, a : Tells(items, a)
    BY <1>4 DEF Answering
  <2>. QED  BY <1>0, <1>3, <1>4, <2>1
<1>5. CASE Speaks
  <2>1. PICK items : Says(items)
    BY <1>5 DEF Speaks
  <2>2. wire' \in Seq(Frames)
    BY <2>1, SaysThen
  <2>. QED  BY <1>0, <1>1, <2>1, <2>2 DEF Says
<1>6. CASE Reads
  <2>1. wire' \in Seq(Frames) /\ Head(wire) \in Frames
    BY <1>6, ReadsThen
  <2>2. Head(wire).f = "answer" => Head(wire).a \in Answers
    BY <2>1 DEF Frames, AnswerFrames, ItemFrames
  <2>3. \A y \in Channels : answer'[y] \in Answers
    BY <1>0, <1>6, <2>2 DEF Reads, Shape
  <2>4. UNCHANGED <<asked, at, watched, leases, viewers, unanswered>> /\ pending' \subseteq pending
    BY <1>6 DEF Reads
  <2>. QED  BY <1>0, <1>1, <2>1, <2>3, <2>4
<1>7. CASE Elsewhere
  BY <1>0, <1>1, <1>7 DEF Elsewhere, NoAsk, Calm
<1>. QED  BY <1>2, <1>4, <1>5, <1>6, <1>7

\* The device's grants, the link, and how far activity was sent.
RecordInv ==
    /\ granted \subseteq Holders /\ link \in {"up", "joining", "down"}
    /\ open \subseteq Channels /\ recheck \subseteq Channels
    /\ log \in Seq({"shown", "other"})
    /\ \A x \in Channels : following[x] \in {Nowhere} \cup 0 .. Len(log)
    /\ Maps(following)

\* Every step keeps the shape of what is recorded.
LEMMA RecordNext == ASSUME RecordInv, [Next]_vars, AllMaps PROVE RecordInv'
<1>. USE DEF visit, ipc, daemon, connector, device, Steady, Around, Takes, Hear
<1>0. /\ granted \subseteq Holders /\ link \in {"up", "joining", "down"}
      /\ open \subseteq Channels /\ recheck \subseteq Channels
      /\ log \in Seq({"shown", "other"}) /\ Len(log) \in Nat
      /\ \A x \in Channels : following[x] \in {Nowhere} \cup 0 .. Len(log)
      /\ Maps(following)' /\ DOMAIN following = Channels
  BY AllMapsNext DEF RecordInv, AllMaps, Maps
<1>1. ASSUME UNCHANGED <<granted, link, open, recheck, log, following>> PROVE RecordInv'
  BY <1>0, <1>1 DEF RecordInv, Maps
<1>2. ASSUME UNCHANGED <<log, following>>, granted' \subseteq granted, link' \in {"up", "joining", "down"},
             open' \subseteq Channels, recheck' \subseteq Channels
      PROVE  RecordInv'
  BY <1>0, <1>2 DEF RecordInv
<1>3. ASSUME NEW x \in Channels, NEW n \in {Nowhere} \cup 0 .. Len(log), following' = [following EXCEPT ![x] = n],
             UNCHANGED <<granted, link, open, recheck, log>>
      PROVE  RecordInv'
  <2>1. \A y \in Channels : following'[y] \in {Nowhere} \cup 0 .. Len(log')
    BY <1>0, <1>3
  <2>. QED  BY <1>0, <1>3, <2>1 DEF RecordInv
<1>4. CASE Read \/ Serve \/ Prints \/ LocalTypes \/ RunsOut \/ UNCHANGED vars \/ \E x \in Channels : Write(x)
  <2>1. UNCHANGED <<granted, link, open, recheck, log, following>>
    BY <1>4 DEF Read, Serve, Prints, LocalTypes, RunsOut, Quiet, ServeWatch, ServeDetach, ServeController,
                ServeAcquire, ServeUse, ServeRelease, Respond, Write, vars
  <2>. QED  BY <1>1, <2>1
<1>5. CASE \/ RecheckAll \/ Lose \/ Join \/ Reconnect \/ (\E d \in Holders : Revoke(d))
           \/ (\E x \in Channels : Shut(x) \/ Open(x) \/ Recheck(x))
  <2>1. /\ UNCHANGED <<log, following>> /\ granted' \subseteq granted /\ link' \in {"up", "joining", "down"}
        /\ open' \subseteq Channels /\ recheck' \subseteq Channels
    BY <1>0, <1>5 DEF RecheckAll, Lose, Join, Reconnect, Revoke, Shut, Open, Recheck
  <2>. QED  BY <1>2, <2>1
<1>6. ASSUME NEW kind \in {"shown", "other"}, Record(kind) PROVE RecordInv'
  <2>1. UNCHANGED <<granted, link, open, recheck, following>> /\ log' = Append(log, kind)
    BY <1>6 DEF Record
  <2>2. log' \in Seq({"shown", "other"}) /\ Len(log') = Len(log) + 1
    BY <1>0, <2>1
  <2>3. \A x \in Channels : following'[x] \in {Nowhere} \cup 0 .. Len(log')
    BY <1>0, <2>1, <2>2
  <2>. QED  BY <1>0, <2>1, <2>2, <2>3 DEF RecordInv
<1>7. ASSUME NEW x \in Channels, NEW from \in 0 .. Len(log), NEW to \in 0 .. Len(log), NEW before,
             SendRecorded(x, from, to, before), UNCHANGED <<granted, link, open, recheck, log>>
      PROVE  RecordInv'
  <2>1. PICK n \in {from, to} : following' = [following EXCEPT ![x] = n]
    BY <1>7 DEF SendRecorded
  <2>. QED  BY <1>3, <1>7, <2>1
<1>8. ASSUME NEW x \in Channels, NEW to \in 1 .. Len(log), following[x] # Nowhere, to > following[x], Poll(x, to)
      PROVE  RecordInv'
  <2>1. UNCHANGED <<granted, link, open, recheck, log>> /\ SendRecorded(x, following[x], to, batches[x])
    BY <1>8 DEF Poll
  <2>2. following[x] \in 0 .. Len(log) /\ to \in 0 .. Len(log)
    BY <1>0, <1>8
  <2>. QED  BY <1>7, <2>1, <2>2
<1>9. ASSUME NEW x \in Channels, Request(x) PROVE RecordInv'
  <2>1. ASSUME NEW from \in Starts, NEW to \in from .. Len(log), Subscribe(x, from, to) PROVE RecordInv'
    <3>1. from \in 0 .. Len(log) /\ to \in 0 .. Len(log)
      BY <1>0, <2>1 DEF Starts
    <3>2. UNCHANGED <<granted, link, open, recheck, log>> /\ SendRecorded(x, from, to, <<from>>)
      BY <2>1 DEF Subscribe
    <3>. QED  BY <1>7, <3>1, <3>2
  <2>2. CASE Unsubscribe(x)
    BY <1>3, <2>2 DEF Unsubscribe
  <2>3. CASE \/ RefuseRequest(x) \/ (\E after : Attach(x, after)) \/ (\E s \in Streams : Detach(x, s))
             \/ (\E t \in BOOLEAN : Acquire(x, t)) \/ (\E ref \in leases[x] : Use(x, ref) \/ GiveBack(x, ref))
    <3>1. UNCHANGED <<granted, link, open, recheck, log, following>>
      BY <2>3 DEF RefuseRequest, Attach, Detach, Acquire, Use, GiveBack
    <3>. QED  BY <1>1, <3>1
  <2>. QED  BY <1>9, <2>1, <2>2, <2>3 DEF Request
<1>10. ASSUME NEW x \in Channels, BeginClose(x) \/ FollowingEnds(x) PROVE RecordInv'
  BY <1>3, <1>10 DEF BeginClose, FollowingEnds
<1>11. ASSUME NEW x \in Channels,
              Hears(x) \/ Enter(x) \/ Greet(x) \/ Ends(x) \/ LetsGo(x) \/ GivesUpAsking(x) \/ GivesUpWaiting(x)
       PROVE  RecordInv'
  <2>1. UNCHANGED <<granted, link, open, recheck, log, following>>
    BY <1>11 DEF Hears, Attached, ToldWho, Detached, TakesLease, Used, Finished, Reply, Enter, Greet, Ends, LetsGo,
                 LetGoOfStream, LetGoOfLease, HasLetGo, GivesUpAsking, GivesUpWaiting, GivesUp
  <2>. QED  BY <1>1, <2>1
<1>. QED  BY <1>4, <1>5, <1>6, <1>8, <1>9, <1>10, <1>11 DEF Next, Visit

---------------------------------------------------------------------------
\* The inductive invariant

IInv ==
    /\ Shape /\ AllMaps /\ WaitsInv /\ CallsInv /\ StreamsInv /\ HandedInv /\ AskedInv /\ LeasesInv
    /\ RecordInv

\* Every step keeps the shape of every variable.
LEMMA ShapeNext == ASSUME IInv, [Next]_vars PROVE Shape'
<1>1. (\E x \in Channels : ThreadStep(x)) \/ Answering \/ Speaks \/ Reads \/ Elsewhere
  BY NextIs DEF IInv, StreamsInv
<1>2. SinksShape'
  BY SinksNext DEF IInv, StreamsInv
<1>3. AllMaps'
  BY AllMapsNext DEF IInv
<1>4. /\ asked' \in Seq(Requests) /\ wire' \in Seq(Frames) /\ pending' \subseteq Channels
      /\ viewers' \subseteq Streams'
      /\ unanswered' \in [streams: SUBSET Nat, acquires: SUBSET Channels]
      /\ \A y \in Channels :
            /\ answer'[y] \in Answers /\ at'[y] \in Steps /\ watched'[y] \subseteq Nat
            /\ leases'[y] \subseteq LeaseRefs
  BY <1>1, TrafficNext DEF IInv, StreamsInv
<1>5. control' \in ControlStates /\ (control'.who # "nobody" => control'.left # 0)
  BY <1>1, ControlNext DEF IInv
<1>6. \A y \in Channels : called'[y] \in Nat
  <2>0. called \in [Channels -> Nat]
    BY DEF IInv, Shape
  <2>1. ASSUME NEW x \in Channels, ThreadStep(x) PROVE \A y \in Channels : called'[y] \in Nat
    <3>1. called' = called \/ called' = [called EXCEPT ![x] = @ + 1]
      BY <2>1 DEF ThreadStep, Walks, Learns, AsksIdle, AsksOn, StopsWaiting, Elsewhere, NoAsk, Asks
    <3>. QED  BY <2>0, <3>1
  <2>2. ASSUME Answering \/ Speaks \/ Reads \/ Elsewhere PROVE called' = called
    BY <2>2 DEF Answering, Speaks, Tells, Says, Reads, Elsewhere, NoAsk
  <2>. QED  BY <1>1, <2>0, <2>1, <2>2
<1>7. /\ at' \in [Channels -> Steps] /\ answer' \in [Channels -> Answers]
      /\ watched' \in [Channels -> SUBSET Nat] /\ leases' \in [Channels -> SUBSET LeaseRefs]
      /\ called' \in [Channels -> Nat] /\ DOMAIN work' = Channels
  BY <1>3, <1>4, <1>6 DEF AllMaps, Maps
<1>. QED  BY <1>2, <1>4, <1>5, <1>7 DEF Shape, SinksShape

\* Every step keeps the invariant.
LEMMA InvariantNext == ASSUME IInv, [Next]_vars PROVE IInv'
<1>1. (\E x \in Channels : ThreadStep(x)) \/ Answering \/ Speaks \/ Reads \/ Elsewhere
  BY NextIs DEF IInv, StreamsInv
<1>2. Shape'
  BY ShapeNext
<1>3. AllMaps'
  BY AllMapsNext DEF IInv
<1>4. WaitsInv'
  BY <1>1, WaitsNext DEF IInv, StreamsInv
<1>5. CallsInv'
  BY <1>1, CallsNext DEF IInv, StreamsInv
<1>6. WorkOurs'
  BY <1>1, WorkNext DEF IInv, StreamsInv
<1>7. OrderInv'
  BY <1>1, OrderNext DEF IInv, StreamsInv
<1>8. KeptInv'
  BY <1>1, KeptNext DEF IInv
<1>9. HandedInv'
  BY <1>1, HandedNext DEF IInv
<1>10. AskedInv'
  BY <1>1, AskedNext DEF IInv
<1>11. LeasesInv'
  BY <1>1, LeasesNext DEF IInv
<1>12. RecordInv'
  BY RecordNext DEF IInv
<1>. QED  BY <1>2, <1>3, <1>4, <1>5, <1>6, <1>7, <1>8, <1>9, <1>10, <1>11, <1>12 DEF IInv, StreamsInv

\* It holds at first.
LEMMA InvariantInit == ASSUME Init PROVE IInv
<1>. USE DEF Init
<1>0. /\ asked = <<>> /\ wire = <<>> /\ DOMAIN asked = {} /\ DOMAIN wire = {} /\ Streams = {}
      /\ flows = <<>> /\ told = <<>> /\ Len(flows) = 0
  BY DEF Streams
<1>1. NewControl \in ControlStates /\ NewControl.who = "nobody"
  BY DEF NewControl, ControlStates, Controllers
<1>2. Shape
  <2>1. asked \in Seq(Requests) /\ wire \in Seq(Frames) /\ flows \in Seq(Flows) /\ told \in Seq(Seq(Words))
    BY <1>0
  <2>2. at \in [Channels -> Steps] /\ answer \in [Channels -> Answers] /\ DOMAIN work = Channels
    BY DEF Steps, Answers
  <2>3. waiting \in [Channels -> 0 .. Room + 1]
    BY RoomAssumption
  <2>. QED  BY <1>0, <1>1, <2>1, <2>2, <2>3, BoundsAssumption DEF Shape
<1>3. AllMaps
  BY DEF AllMaps, Maps
<1>4. WaitsInv
  BY DEF WaitsInv, Waits, Empty
<1>5. CallsInv
  BY <1>0 DEF CallsInv
<1>6. StreamsInv
  BY <1>0 DEF StreamsInv, WorkOurs, OrderInv, KeptInv
<1>7. HandedInv
  BY <1>0, <1>1, HoldersAssumption DEF HandedInv, NoAnswer
<1>8. AskedInv
  BY <1>0 DEF AskedInv
<1>9. LeasesInv
  BY <1>1, HoldersAssumption DEF LeasesInv
<1>10. RecordInv
  <2>1. log \in Seq({"shown", "other"})
    BY BoundsAssumption
  <2>. QED  BY <2>1 DEF RecordInv, Maps
<1>. QED  BY <1>2, <1>3, <1>4, <1>5, <1>6, <1>7, <1>8, <1>9, <1>10 DEF IInv

\* IInv holds at the start, and every step keeps it.
THEOREM ChannelInductive == Spec => []IInv
<1>1. IInv /\ [Next]_vars => IInv'
  BY InvariantNext
<1>2. Init => IInv
  BY InvariantInit
<1>. QED  BY <1>1, <1>2, PTL DEF Spec

\* The variables keep their shapes.
THEOREM TypesHold == Spec => []TypeOK
<1>1. IInv => TypeOK
  <2>. SUFFICES ASSUME IInv PROVE TypeOK
    OBVIOUS
  <2>1. \A x \in Channels : watched[x] \subseteq Streams
    BY DEF IInv, StreamsInv, OrderInv
  <2>. QED  BY <2>1 DEF IInv, Shape, RecordInv, TypeOK, Steps
<1>. QED  BY <1>1, ChannelInductive, PTL

\* A channel that is over has nothing attached at the daemon, and a lease in force is known to a
\* channel, on its way to one or being given back: but for what a request that was given up left.
THEOREM NothingHeldHolds == Spec => []NothingHeld
<1>1. IInv => NothingHeld
  <2>. SUFFICES ASSUME IInv PROVE NothingHeld
    OBVIOUS
  <2>1. ASSUME NEW s \in Streams, Unowned(s) PROVE FALSE
    <3>1. /\ s \in viewers /\ at[Of(s)] = "over" /\ s \notin unanswered.streams
          /\ \A i \in DOMAIN asked : asked[i].op # [o |-> "detach", s |-> s]
      BY <2>1 DEF Unowned
    <3>2. Kept(s)
      BY <3>1 DEF IInv, StreamsInv, KeptInv
    <3>3. Of(s) \in Channels
      BY OfIs DEF IInv
    <3>4. watched[Of(s)] = {}
      BY <3>1, <3>3 DEF IInv, WaitsInv, Empty
    <3>. QED  BY <3>1, <3>2, <3>4 DEF Kept, Detaches
  <2>2. ASSUME control.who \in Holders
        PROVE  \/ Known(InForce)
               \/ \E c \in unanswered.acquires : DeviceOf[c] = control.who
    <3>1. InForceKnown
      BY <2>2 DEF IInv, LeasesInv
    <3>2. \A x \in Channels : leases[x] # {} \/ at[x] = "acquiring" => x \in Threads
      BY DEF IInv, WaitsInv, Threads, Empty
    <3>3. unanswered.acquires \subseteq Channels
      BY DEF IInv, Shape
    <3>. HIDE DEF InForce
    <3>. QED  BY <3>1, <3>2 DEF InForceKnown, Known, LeaseOf, IsAnswer
  <2>. QED  BY <2>1, <2>2 DEF NothingHeld, InForce
<1>. QED  BY <1>1, ChannelInductive, PTL

---------------------------------------------------------------------------
\* What a device is sent: what is on its way to a sink, and what a sink has

\* A frame of a stream; one that moves its numbers on, has a number, is where the stream begins,
\* or names who controls the terminal.
Mine(i, s) == wire[i].f = "item" /\ wire[i].s = s
Moves(i, s) == Mine(i, s) /\ wire[i].item.k # "control"
Numbers(i, s) == Mine(i, s) /\ wire[i].item.k \in {"snapshot", "out"}
Begins(i, s) == Mine(i, s) /\ wire[i].item.k \in {"snapshot", "resumed"}
Names(i, s) == Mine(i, s) /\ wire[i].item.k = "control"

\* The daemon was not only asked for a stream.  What is on its way of it.
Served(s) == \A i \in DOMAIN asked : ~ Watches(asked[i], s)
Left(s) == {wire[i].item.n : i \in {j \in DOMAIN wire : Numbers(j, s)}}

\* Nothing was made of a stream yet.
Fresh(s) ==
    /\ s \notin viewers /\ \A i \in DOMAIN wire : ~ Mine(i, s)
    /\ flows[s].start = None /\ flows[s].controller = None /\ flows[s].held = <<>> /\ told[s] = <<>>

\* A stream is asked for once, nothing comes of it before, and nobody leaves one that has a sink.
BeginInv ==
    /\ \A i \in DOMAIN wire : ~ IsAnswer(i) => wire[i].s \in Streams
    /\ \A i, j \in DOMAIN asked : \A s \in Streams : Watches(asked[i], s) /\ Watches(asked[j], s) => i = j
    /\ \A s \in Streams : ~ Served(s) => Fresh(s)
    /\ \A s \in watchers : \A i \in DOMAIN asked : ~ Detaches(asked[i], s)

\* What a sink has made of its stream.
Sunk(s) ==
    /\ flows[s].replied <=> told[s] # <<>>
    /\ flows[s].replied => flows[s].start # None
    /\ ~ flows[s].replied => ~ flows[s].over
    /\ s \in watchers => ~ flows[s].over /\ Told(s, "over") = {} /\ Told(s, "done") = {}
    /\ flows[s].start = None => flows[s].held = <<>>
    /\ ~ flows[s].replied => \A i \in DOMAIN flows[s].held : flows[s].held[i].n = First(s) + i - 1
    /\ Whole(s)

\* The number up to which it has them.
Place(s, p) ==
    \/ /\ flows[s].start = None
       /\ \E i \in DOMAIN wire :
             /\ Begins(i, s)
             /\ p = IF wire[i].item.k = "snapshot" THEN wire[i].item.n - 1 ELSE wire[i].item.n
    \/ flows[s].start # None /\ ~ flows[s].replied /\ p = First(s) + Len(flows[s].held) - 1
    \/ flows[s].start # None /\ flows[s].replied /\ p >= First(s) - 1 /\ Sent(s) = First(s) .. p

\* What is on its way to it goes on from there.
Fed(s) ==
    /\ s \in viewers
    /\ \A i, j \in DOMAIN wire : Begins(i, s) /\ Moves(j, s) => i <= j
    /\ \A i \in DOMAIN wire : Begins(i, s) => flows[s].start = None
    /\ \E p \in (0 - 1) .. seq : Place(s, p) /\ Left(s) = p + 1 .. seq
    /\ \A i, j \in DOMAIN wire : i < j /\ Numbers(i, s) /\ Numbers(j, s) => wire[i].item.n < wire[j].item.n

\* The last that names who controls the terminal is right: on its way, or else at the sink.
Knows(s) ==
    IF ~ flows[s].replied THEN flows[s].controller = control.who
    ELSE \A i \in Told(s, "control") : (\A j \in Told(s, "control") : j <= i) => told[s][i][2] = control.who

Named(s) ==
    /\ \A i \in DOMAIN wire : Names(i, s) /\ (\A j \in DOMAIN wire : Names(j, s) => j <= i) =>
           wire[i].item.who = control.who
    /\ (\A i \in DOMAIN wire : ~ Names(i, s)) => Knows(s)

SinksInv == \A s \in Streams : Sunk(s)
FedInv == \A s \in watchers : Served(s) => Fed(s)
NamedInv == protocol >= ResumeProtocol => \A s \in watchers : Served(s) => Named(s)

\* Who waits for a stream has a sink that was told nothing, and is answered when the stream has
\* begun.
Ready(s) == Served(s) /\ flows[s].start # None /\ (protocol >= ResumeProtocol => flows[s].controller # None)

BegunBy(i, s) ==
    /\ Served(s)
    /\ flows[s].start # None \/ \E j \in DOMAIN wire : j < i /\ Begins(j, s)
    /\ protocol >= ResumeProtocol => flows[s].controller # None \/ \E j \in DOMAIN wire : j < i /\ Names(j, s)

ReadyInv ==
    /\ \A x \in Channels :
          /\ at[x] \in {"watching", "asking"} => work[x] \in watchers /\ told[work[x]] = <<>>
          /\ at[x] = "watching" /\ answer[x] # NoAnswer => Ready(work[x])
          /\ at[x] = "asking" => Ready(work[x]) /\ ~ (protocol >= ResumeProtocol)
          /\ at[x] = "detaching" => work[x] \notin watchers /\ told[work[x]] # <<>>
          /\ \A s \in watched[x] : told[s] # <<>>
    /\ \A i \in DOMAIN asked : Newest(asked[i]) /\ at[asked[i].by] = "watching" => Watches(asked[i], work[asked[i].by])
    /\ \A i \in DOMAIN wire : IsAnswer(i) /\ Newest(wire[i]) /\ at[wire[i].by] = "watching" =>
          BegunBy(i, work[wire[i].by])

---------------------------------------------------------------------------
\* What every step makes of the sinks

Still == UNCHANGED <<flows, told, watchers>>
Standing == UNCHANGED <<viewers, seq, control, protocol>>
Resting == UNCHANGED <<at, work, watched, called>>

\* The reader hands an item to a sink.
Feeding ==
    LET frame == Head(wire)
        x == Take(At(frame.s), frame.item) IN
    /\ wire # <<>> /\ wire' = Tail(wire) /\ frame.f = "item" /\ frame.s \in watchers
    /\ Becomes(frame.s, x)
    /\ watchers' = IF x.ok THEN watchers ELSE watchers \ {frame.s}
    /\ UNCHANGED <<asked, pending, answer>> /\ Standing /\ Resting

\* It hands over an answer, or passes over an item.
Passing ==
    LET frame == Head(wire) IN
    /\ wire # <<>> /\ wire' = Tail(wire) /\ Still /\ asked' = asked /\ Standing /\ Resting
    /\ frame.f = "answer" \/ frame.s \notin watchers
    /\ \/ /\ frame.f = "answer" /\ Newest(frame)
          /\ answer' = [answer EXCEPT ![frame.by] = frame.a]
          /\ pending' = pending \ {frame.by}
       \/ ~ (frame.f = "answer" /\ Newest(frame)) /\ UNCHANGED <<answer, pending>>

\* The daemon answers, after it said something.
Serving(items, a) ==
    /\ asked # <<>> /\ asked' = Tail(asked)
    /\ wire' = wire \o items \o <<[f |-> "answer", by |-> Head(asked).by, id |-> Head(asked).id,
                                   a |-> a]>>
    /\ Still /\ UNCHANGED <<seq, protocol, pending, answer>> /\ Resting

Beginning ==
    LET op == Head(asked).op IN
    /\ op.o = "watch" /\ viewers' = viewers \cup {op.s} /\ control' = control
    /\ \E items \in Beginnings(op.s, op.after) : Serving(items, Done)

Ending ==
    LET op == Head(asked).op IN
    op.o = "detach" /\ viewers' = viewers \ {op.s} /\ control' = control /\ Serving(<<>>, Done)

Granting ==
    /\ Head(asked).op.o \notin {"watch", "detach"} /\ viewers' = viewers
    /\ \E a \in Answers : Serving(Announced(control, control'), a)

\* It says something of itself.
Printing ==
    /\ wire' = wire \o ToAll(Output(seq + 1)) /\ seq' = seq + 1
    /\ Still /\ UNCHANGED <<viewers, control, protocol, asked, pending, answer>> /\ Resting

Announcing ==
    /\ wire' = wire \o Announced(control, control')
    /\ Still /\ UNCHANGED <<viewers, seq, protocol, asked, pending, answer>> /\ Resting

\* A thread opens a stream.
Opening(x) ==
    /\ flows' = Append(flows, NewFlow(x)) /\ told' = Append(told, <<>>)
    /\ watchers' = watchers \cup {Len(flows) + 1} /\ Standing
    /\ \E after \in Int : Asks(x, [o |-> "watch", s |-> Len(flows) + 1, after |-> after])
    /\ Thread(x, "watching", answer[x], Len(flows) + 1, watched[x], leases[x])

\* It replies, to a device that is to know who controls the terminal.
Replying(x, who) ==
    LET s == work[x] IN
    /\ Answered(x) /\ at[x] \in {"watching", "asking"} /\ who \in Controllers
    /\ at[x] = "watching" => who = flows[s].controller
    /\ Becomes(s, Replied(s, who)) /\ Standing
    /\ \/ /\ Replied(s, who).ok /\ UNCHANGED <<asked, wire, called, pending, watchers>>
          /\ Thread(x, "idle", NoAnswer, s, watched[x] \cup {s}, leases[x])
       \/ /\ ~ Replied(s, who).ok /\ Asks(x, [o |-> "detach", s |-> s])
          /\ watchers' = watchers \ {s}
          /\ Thread(x, "dropping", NoAnswer, s, watched[x], leases[x])

\* It asks who controls the terminal first.
Wondering(x) ==
    /\ Answered(x) /\ at[x] = "watching" /\ flows[work[x]].controller = None
    /\ Still /\ Standing /\ Asks(x, [o |-> "controller"]) /\ Stays(x, "asking", NoAnswer)

\* It leaves a stream, and says so.
Leaving(x, s) ==
    /\ s \in watched[x] /\ watchers' = watchers \ {s} /\ UNCHANGED <<flows, told>> /\ Standing
    /\ Asks(x, [o |-> "detach", s |-> s])
    /\ \E a : \/ Thread(x, "detaching", a, s, watched[x] \ {s}, leases[x])
              \/ Thread(x, "lettingGo", a, work[x], watched[x] \ {s}, leases[x])

Parting(x) ==
    /\ Answered(x) /\ at[x] = "detaching" /\ NoAsk /\ Standing
    /\ told' = [told EXCEPT ![work[x]] = Append(@, <<"done", 0>>)] /\ UNCHANGED <<flows, watchers>>
    /\ Stays(x, "idle", NoAnswer)

\* It gives a stream up that it waits for.
Abandoning(x) ==
    /\ at[x] = "watching" /\ watchers' = watchers \ {work[x]} /\ UNCHANGED <<flows, told>> /\ Standing
    /\ UNCHANGED <<asked, wire, called>> /\ pending' = pending \ {x} /\ Stays(x, "idle", answer[x])

\* It does something else.
Otherwise(x) ==
    /\ Still /\ Standing /\ wire' = wire
    /\ \/ UNCHANGED <<asked, called>> /\ pending' \subseteq pending
       \/ \E op \in Ops : Asks(x, op) /\ op.o \notin {"watch", "detach"}
    /\ \E to \in Steps : \E a, w, ls :
          /\ Thread(x, to, a, w, watched[x], ls)
          /\ \/ to \notin {"watching", "asking", "detaching"}
             \/ to \in {"asking", "detaching"} /\ to = at[x] /\ w = work[x] /\ asked' = asked

SinkStep ==
    \/ Feeding \/ Passing \/ Beginning \/ Ending \/ Granting \/ Printing \/ Announcing
    \/ \E x \in Channels :
          \/ Opening(x) \/ (\E who : Replying(x, who)) \/ Wondering(x) \/ (\E s \in Streams : Leaving(x, s))
          \/ Parting(x) \/ Abandoning(x) \/ Otherwise(x)
    \/ Still /\ Standing /\ Resting /\ UNCHANGED <<asked, wire, pending, answer>>

\* The reader.
LEMMA ReadSinks == ASSUME Shape, Read PROVE Feeding \/ Passing
<1>. DEFINE frame == Head(wire)
<1>. USE DEF visit, daemon, connector, device, Still, Standing, Resting
<1>1. /\ wire # <<>> /\ wire' = Tail(wire) /\ frame \in Frames
      /\ UNCHANGED <<asked, called, at, watched, work, viewers, seq, control, protocol>>
      /\ IF frame.f = "answer" THEN HandOver(frame) ELSE Feed(frame)
  BY TailIs DEF Read, Shape
<1>2. CASE frame.f = "answer"
  <2>1. Passing
    BY <1>1, <1>2 DEF HandOver, Passing, Newest
  <2>. QED  BY <2>1
<1>3. CASE frame.f # "answer" /\ frame.s \notin watchers
  <2>1. Passing
    BY <1>1, <1>3 DEF Feed, Passing
  <2>. QED  BY <2>1
<1>4. CASE frame.f # "answer" /\ frame.s \in watchers
  <2>1. frame.f = "item"
    BY <1>1, <1>4 DEF Frames, AnswerFrames, ItemFrames
  <2>2. Feeding
    BY <1>1, <1>4, <2>1 DEF Feed, Feeding
  <2>. QED  BY <2>2
<1>. QED  BY <1>2, <1>3, <1>4

\* The daemon, when it is asked.
LEMMA ServeSinks == ASSUME Shape, Serve PROVE Beginning \/ Ending \/ Granting
<1>. DEFINE op == Head(asked).op
<1>. USE DEF visit, ipc, connector, device, Still, Standing, Resting
<1>0. asked # <<>> /\ op \in Ops
  <2>1. asked # <<>>
    BY DEF Serve, ServeWatch, ServeDetach, ServeController, ServeAcquire, ServeUse, ServeRelease, Serves
  <2>2. Head(asked) \in Requests
    BY <2>1, TailIs DEF Shape
  <2>. QED  BY <2>1, <2>2 DEF Requests
<1>1. Announced(control, control) = <<>>
  BY DEF Announced
<1>2. ASSUME NEW items, NEW a, Respond(items, a) PROVE Serving(items, a)
  BY <1>0, <1>2 DEF Respond, Serving
<1>3. CASE ServeWatch
  <2>1. Beginning
    BY <1>2, <1>3 DEF ServeWatch, Serves, Beginning
  <2>. QED  BY <2>1
<1>4. CASE ServeDetach
  <2>1. Ending
    BY <1>2, <1>4 DEF ServeDetach, Serves, Ending
  <2>. QED  BY <2>1
<1>5. ASSUME NEW a \in Answers, op.o \notin {"watch", "detach"}, viewers' = viewers,
             Respond(Announced(control, control'), a)
      PROVE  Granting
  BY <1>2, <1>5 DEF Granting
<1>6. Done \in Answers /\ Refused \in Answers
  BY DEF Answers
<1>7. CASE ServeController
  <2>1. [r |-> "controller", who |-> Controller(control)] \in Answers
    BY ControlIs DEF Answers
  <2>2. op.o = "controller" /\ UNCHANGED <<viewers, control>>
        /\ Respond(Announced(control, control'), [r |-> "controller", who |-> Controller(control)])
    BY <1>1, <1>7 DEF ServeController, Serves
  <2>. QED  BY <1>5, <2>1, <2>2
<1>8. CASE ServeAcquire
  <2>. DEFINE fresh == Acquired(control, op.holder, control.generation + 1)
              ref == [id |-> fresh.id, generation |-> fresh.generation]
  <2>1. op.o = "acquire" /\ viewers' = viewers
    BY <1>8 DEF ServeAcquire, Serves
  <2>2. fresh.id = control.generation + 1 /\ fresh.generation = control.generation + 1
    BY ControlIs DEF Acquired
  <2>3. [r |-> "leased", ref |-> ref] \in Answers
    BY <2>2, ControlIs DEF Answers, LeaseRefs
  <2>. HIDE DEF fresh
  <2>4. \/ control' = fresh /\ Respond(Announced(control, fresh), [r |-> "leased", ref |-> ref])
        \/ control' = control /\ Respond(<<>>, Refused)
    BY <1>8 DEF ServeAcquire, fresh
  <2>. QED  BY <1>1, <1>5, <1>6, <2>1, <2>3, <2>4
<1>9. CASE ServeUse
  <2>1. op.o = "use" /\ UNCHANGED <<viewers, control>>
        /\ Respond(<<>>, IF Check(control, op.ref) THEN Done ELSE Refused)
    BY <1>9 DEF ServeUse, Serves
  <2>2. (IF Check(control, op.ref) THEN Done ELSE Refused) \in Answers
    BY <1>6
  <2>3. Announced(control, control') = <<>>
    BY <1>1, <2>1
  <2>. QED  BY <1>5, <2>1, <2>2, <2>3
<1>10. CASE ServeRelease
  <2>1. op.o = "release" /\ UNCHANGED viewers
        /\ Respond(Announced(control, control'), IF Check(control, op.ref) THEN Done ELSE Refused)
    BY <1>10 DEF ServeRelease, Serves
  <2>2. (IF Check(control, op.ref) THEN Done ELSE Refused) \in Answers
    BY <1>6
  <2>. QED  BY <1>5, <2>1, <2>2
<1>. QED  BY <1>3, <1>4, <1>7, <1>8, <1>9, <1>10 DEF Serve

\* The daemon, of itself.
LEMMA SpeakSinks == ASSUME Prints \/ LocalTypes \/ RunsOut PROVE Printing \/ Announcing
<1>. USE DEF visit, ipc, connector, device, Still, Standing, Resting, Quiet
<1>1. CASE Prints
  BY <1>1 DEF Prints, Printing
<1>2. CASE LocalTypes
  BY <1>2 DEF LocalTypes, Announcing
<1>3. CASE RunsOut
  BY <1>3 DEF RunsOut, Announcing
<1>. QED  BY <1>1, <1>2, <1>3

\* A request of a device.
LEMMA RequestSinks == ASSUME Shape, WorkOurs, OrderInv, NEW x \in Channels, Request(x) PROVE SinkStep
<1>. USE DEF visit, ipc, daemon, connector, device, Takes, Goes, Ask, Still, Standing, Resting
<1>0. /\ at \in [Channels -> Steps] /\ answer \in [Channels -> Answers] /\ DOMAIN work = Channels
      /\ watched \in [Channels -> SUBSET Nat] /\ leases \in [Channels -> SUBSET LeaseRefs] /\ Len(flows) \in Nat
  BY DEF Shape
<1>1. ASSUME UNCHANGED <<flows, told, watchers, daemon, wire, asked, called, pending>>,
             NEW to \in Steps, to \notin {"watching", "asking", "detaching"}, NEW a, NEW w, NEW ls,
             Thread(x, to, a, w, watched[x], ls)
      PROVE  SinkStep
  <2>1. Otherwise(x)
    BY <1>1 DEF Otherwise
  <2>. QED  BY <2>1 DEF SinkStep
<1>2. ASSUME UNCHANGED <<flows, told, watchers, daemon, wire>>,
             NEW op \in Ops, op.o \notin {"watch", "detach"}, Asks(x, op),
             NEW to \in Steps, to \notin {"watching", "asking", "detaching"}, NEW a, NEW w, NEW ls,
             Thread(x, to, a, w, watched[x], ls)
      PROVE  SinkStep
  <2>1. Otherwise(x)
    BY <1>2 DEF Otherwise
  <2>. QED  BY <2>1 DEF SinkStep
<1>3. CASE RefuseRequest(x)
  <2>1. UNCHANGED <<flows, told, watchers, daemon, wire, asked, called, pending>>
        /\ Thread(x, "closing", answer[x], work[x], watched[x], leases[x])
    BY <1>0, <1>3 DEF RefuseRequest, Thread
  <2>. QED  BY <1>1, <2>1 DEF Steps
<1>4. ASSUME NEW after \in {Nowhere} \cup Places(x), Attach(x, after) PROVE SinkStep
  <2>1. after \in Int
    <3>1. ASSUME NEW s \in Streams, NEW i \in DOMAIN told[s], told[s][i][1] \in {"attached", "out"}
          PROVE  told[s][i][2] \in Int
      <4>1. told[s] \in Seq(Words)
        BY DEF Shape, Streams
      <4>2. told[s][i] \in Words
        BY <4>1
      <4>. QED  BY <3>1, <4>2 DEF Words
    <3>. QED  BY <1>4, <3>1 DEF Places, Nowhere
  <2>. DEFINE kept == IF protocol >= ResumeProtocol THEN after ELSE Nowhere
  <2>2. kept \in Int
    BY <2>1 DEF Nowhere
  <2>3. Asks(x, [o |-> "watch", s |-> Len(flows) + 1, after |-> kept])
    BY <1>4 DEF Attach, Asks
  <2>. HIDE DEF kept
  <2>4. Thread(x, "watching", answer[x], Len(flows) + 1, watched[x], leases[x])
    BY <1>0, <1>4 DEF Attach, Thread
  <2>5. Opening(x)
    BY <1>4, <2>2, <2>3, <2>4 DEF Attach, Opening
  <2>. QED  BY <2>5 DEF SinkStep
<1>5. ASSUME NEW s \in Streams, Detach(x, s) PROVE SinkStep
  <2>1. Thread(x, "detaching", answer[x], s, watched[x] \ {s}, leases[x])
    BY <1>0, <1>5 DEF Detach, Thread
  <2>2. Leaving(x, s)
    BY <1>5, <2>1 DEF Detach, Leaving, Asks
  <2>. QED  BY <2>2 DEF SinkStep
<1>6. ASSUME NEW takeOver \in BOOLEAN, Acquire(x, takeOver) PROVE SinkStep
  <2>1. Thread(x, "acquiring", answer[x], work[x], watched[x], leases[x])
    BY <1>0, <1>6 DEF Acquire, Thread
  <2>2. Asks(x, [o |-> "acquire", holder |-> DeviceOf[x], takeOver |-> takeOver])
    BY <1>6 DEF Acquire, Asks
  <2>3. [o |-> "acquire", holder |-> DeviceOf[x], takeOver |-> takeOver] \in Ops
    BY ChannelsAssumption DEF Ops
  <2>4. UNCHANGED <<flows, told, watchers, daemon, wire>>
    BY <1>6 DEF Acquire
  <2>. QED  BY <1>2, <2>1, <2>2, <2>3, <2>4 DEF Steps
<1>7. ASSUME NEW ref \in leases[x], Use(x, ref) PROVE SinkStep
  <2>1. Thread(x, "using", answer[x], ref, watched[x], leases[x])
    BY <1>0, <1>7 DEF Use, Thread
  <2>2. Asks(x, [o |-> "use", ref |-> ref]) /\ UNCHANGED <<flows, told, watchers, daemon, wire>>
    BY <1>7 DEF Use, Asks
  <2>3. [o |-> "use", ref |-> ref] \in Ops
    BY <1>0 DEF Ops
  <2>. QED  BY <1>2, <2>1, <2>2, <2>3 DEF Steps
<1>8. ASSUME NEW ref \in leases[x], GiveBack(x, ref) PROVE SinkStep
  <2>1. Thread(x, "releasing", answer[x], work[x], watched[x], leases[x] \ {ref})
    BY <1>0, <1>8 DEF GiveBack, Thread
  <2>2. Asks(x, [o |-> "release", ref |-> ref]) /\ UNCHANGED <<flows, told, watchers, daemon, wire>>
    BY <1>8 DEF GiveBack, Asks
  <2>3. [o |-> "release", ref |-> ref] \in Ops
    BY <1>0 DEF Ops
  <2>. QED  BY <1>2, <2>1, <2>2, <2>3 DEF Steps
<1>9. ASSUME Unsubscribe(x) \/ \E from, to : Subscribe(x, from, to) PROVE SinkStep
  <2>1. Still /\ Standing /\ Resting /\ UNCHANGED <<asked, wire, pending, answer>>
    BY <1>9 DEF Unsubscribe, Subscribe
  <2>. QED  BY <2>1 DEF SinkStep
<1>. QED  BY <1>3, <1>4, <1>5, <1>6, <1>7, <1>8, <1>9 DEF Request

\* What is done with an answer.
LEMMA ReplySinks ==
    ASSUME Shape, WorkOurs, NEW x \in Channels, NEW who \in Controllers, Reply(x, who), Answered(x),
           at[x] \in {"watching", "asking"}, at[x] = "watching" => who = flows[work[x]].controller,
           answer' = [answer EXCEPT ![x] = NoAnswer], Standing
    PROVE  Replying(x, who)
<1>0. /\ at \in [Channels -> Steps] /\ answer \in [Channels -> Answers] /\ DOMAIN work = Channels
      /\ watched \in [Channels -> SUBSET Nat] /\ leases \in [Channels -> SUBSET LeaseRefs]
  BY DEF Shape
<1>1. CASE Replied(work[x], who).ok
  <2>1. /\ UNCHANGED <<asked, wire, called, pending, watchers>>
        /\ Thread(x, "idle", NoAnswer, work[x], watched[x] \cup {work[x]}, leases[x])
    BY <1>0, <1>1 DEF Reply, Back, Goes, Thread
  <2>. QED  BY <1>1, <2>1 DEF Reply, Replying
<1>2. CASE ~ Replied(work[x], who).ok
  <2>1. /\ Asks(x, [o |-> "detach", s |-> work[x]]) /\ watchers' = watchers \ {work[x]}
        /\ Thread(x, "dropping", NoAnswer, work[x], watched[x], leases[x])
    BY <1>0, <1>2 DEF Reply, Ask, Asks, Goes, Thread
  <2>. QED  BY <1>2, <2>1 DEF Reply, Replying
<1>. QED  BY <1>1, <1>2

\* A thread that takes its answer.
LEMMA HearsSinks ==
    ASSUME Shape, WorkOurs, AskedInv, NEW x \in Channels, Hears(x) PROVE SinkStep
<1>. USE DEF visit, ipc, daemon, connector, device, Steady, Hear, Standing, Still
<1>0. /\ at \in [Channels -> Steps] /\ answer \in [Channels -> Answers] /\ DOMAIN work = Channels
      /\ watched \in [Channels -> SUBSET Nat] /\ leases \in [Channels -> SUBSET LeaseRefs]
      /\ flows \in Seq(Flows) /\ DOMAIN flows = Streams
  BY DEF Shape, Streams
<1>1. CASE Attached(x)
  <2>1. CASE flows[work[x]].controller = None
    <3>1. /\ Asks(x, [o |-> "controller"]) /\ Stays(x, "asking", NoAnswer) /\ Still
      BY <1>0, <1>1, <2>1 DEF Attached, Ask, Asks, Goes, Stays, Thread
    <3>2. Wondering(x)
      BY <1>1, <2>1, <3>1 DEF Attached, Wondering
    <3>. QED  BY <3>2 DEF SinkStep
  <2>2. CASE flows[work[x]].controller # None
    <3>1. at[x] = "watching" /\ Reply(x, flows[work[x]].controller) /\ Answered(x)
      BY <1>1, <2>2 DEF Attached
    <3>2. flows[work[x]] \in Flows
      BY <1>0, <3>1 DEF WorkOurs
    <3>3. flows[work[x]].controller \in Controllers
      BY <2>2, <3>2 DEF Flows
    <3>4. Replying(x, flows[work[x]].controller)
      BY <1>1, <3>1, <3>3, ReplySinks DEF Attached
    <3>. QED  BY <3>4 DEF SinkStep
  <2>. QED  BY <2>1, <2>2
<1>2. CASE ToldWho(x)
  <2>1. at[x] = "asking" /\ answer[x] # NoAnswer /\ Reply(x, answer[x].who) /\ Answered(x)
    BY <1>2 DEF ToldWho, Answered
  <2>2. answer[x].r = "controller" /\ answer[x] \in Answers
    BY <2>1 DEF AskedInv, Shape
  <2>3. answer[x].who \in Controllers
    BY <2>2 DEF Answers, NoAnswer, Done, Refused
  <2>4. Replying(x, answer[x].who)
    BY <1>2, <2>1, <2>3, ReplySinks DEF ToldWho
  <2>. QED  BY <2>4 DEF SinkStep
<1>3. CASE Detached(x)
  <2>1. Parting(x)
    BY <1>0, <1>3 DEF Detached, Back, Goes, Parting, NoAsk, Stays, Thread
  <2>. QED  BY <2>1 DEF SinkStep
<1>4. CASE TakesLease(x) \/ Used(x) \/ Finished(x)
  <2>1. /\ UNCHANGED <<flows, told, watchers, daemon, wire, asked, called, pending>>
        /\ Thread(x, "idle", NoAnswer, work[x], watched[x], leases'[x])
    BY <1>0, <1>4 DEF TakesLease, Used, Finished, Back, Goes, Thread
  <2>2. Otherwise(x)
    BY <2>1 DEF Otherwise, Steps
  <2>. QED  BY <2>2 DEF SinkStep
<1>. QED  BY <1>1, <1>2, <1>3, <1>4 DEF Hears

\* How it begins and ends.
LEMMA EndsSinks ==
    ASSUME Shape, OrderInv, NEW x \in Channels,
           Enter(x) \/ Greet(x) \/ Recheck(x) \/ Ends(x) \/ BeginClose(x) \/ LetsGo(x) \/ Open(x)
    PROVE  SinkStep
<1>. USE DEF visit, ipc, daemon, connector, device, Steady, Hear, Goes, Standing, Still
<1>0. /\ at \in [Channels -> Steps] /\ answer \in [Channels -> Answers] /\ DOMAIN work = Channels
      /\ watched \in [Channels -> SUBSET Nat] /\ leases \in [Channels -> SUBSET LeaseRefs]
      /\ flows \in Seq(Flows) /\ DOMAIN flows = Streams
  BY DEF Shape, Streams
<1>1. ASSUME UNCHANGED <<flows, told, watchers, daemon, wire, asked, called, pending>>,
             NEW to \in Steps, to \notin {"watching", "asking", "detaching"}, NEW a, NEW w, NEW ls,
             Thread(x, to, a, w, watched[x], ls)
      PROVE  SinkStep
  <2>1. Otherwise(x)
    BY <1>1 DEF Otherwise
  <2>. QED  BY <2>1 DEF SinkStep
<1>2. CASE Enter(x) \/ Greet(x) \/ Recheck(x) \/ Ends(x) \/ BeginClose(x) \/ Open(x)
  <2>1. /\ UNCHANGED <<flows, told, watchers, daemon, wire, asked, called, pending>>
        /\ Thread(x, at'[x], answer'[x], work[x], watched[x], leases[x])
    BY <1>0, <1>2 DEF Enter, Greet, Recheck, Ends, BeginClose, Open, Thread
  <2>2. at'[x] \in {"greeting", "over", "idle", "closing", "lettingGo", "opening"}
    BY <1>0, <1>2 DEF Enter, Greet, Recheck, Ends, BeginClose, Open
  <2>. QED  BY <1>1, <2>1, <2>2 DEF Steps
<1>3. ASSUME NEW s \in watched[x], LetGoOfStream(x, s) PROVE SinkStep
  <2>1. Thread(x, "lettingGo", NoAnswer, work[x], watched[x] \ {s}, leases[x])
    BY <1>0, <1>3 DEF LetGoOfStream, Thread
  <2>2. Leaving(x, s)
    BY <1>3, <2>1 DEF LetGoOfStream, Leaving, Ask, Asks
  <2>3. s \in Streams
    BY <1>3 DEF OrderInv
  <2>. QED  BY <2>2, <2>3 DEF SinkStep
<1>4. ASSUME NEW ref \in leases[x], LetGoOfLease(x, ref) PROVE SinkStep
  <2>1. Thread(x, "lettingGo", NoAnswer, work[x], watched[x], leases[x] \ {ref})
    BY <1>0, <1>4 DEF LetGoOfLease, Thread
  <2>2. Asks(x, [o |-> "release", ref |-> ref]) /\ UNCHANGED <<flows, told, watchers, daemon, wire>>
    BY <1>4 DEF LetGoOfLease, Ask, Asks
  <2>3. [o |-> "release", ref |-> ref] \in Ops
    BY <1>0 DEF Ops
  <2>4. Otherwise(x)
    BY <2>1, <2>2, <2>3 DEF Otherwise, Steps
  <2>. QED  BY <2>4 DEF SinkStep
<1>5. CASE HasLetGo(x)
  <2>1. /\ UNCHANGED <<flows, told, watchers, daemon, wire, asked, called, pending>>
        /\ Thread(x, "over", NoAnswer, work[x], watched[x], leases[x])
    BY <1>0, <1>5 DEF HasLetGo, Thread
  <2>. QED  BY <1>1, <2>1 DEF Steps
<1>. QED  BY <1>2, <1>3, <1>4, <1>5 DEF LetsGo

\* How it stops waiting.
LEMMA GivesUpSinks ==
    ASSUME Shape, NEW x \in Channels, GivesUpAsking(x) \/ GivesUpWaiting(x)
    PROVE  SinkStep
<1>. USE DEF visit, ipc, daemon, connector, device, Goes, Standing, Still
<1>0. /\ at \in [Channels -> Steps] /\ answer \in [Channels -> Answers] /\ DOMAIN work = Channels
      /\ watched \in [Channels -> SUBSET Nat] /\ leases \in [Channels -> SUBSET LeaseRefs]
  BY DEF Shape
<1>1. CASE GivesUpAsking(x) /\ at[x] = "watching"
  <2>1. Abandoning(x)
    BY <1>0, <1>1 DEF GivesUpAsking, GivesUp, Abandoning, Stays, Thread
  <2>. QED  BY <2>1 DEF SinkStep
<1>2. CASE GivesUpAsking(x) /\ at[x] # "watching"
  <2>1. /\ UNCHANGED <<flows, told, watchers, daemon, wire, asked, called>> /\ pending' \subseteq pending
        /\ Thread(x, "idle", answer[x], work[x], watched[x], leases[x])
    BY <1>0, <1>2 DEF GivesUpAsking, GivesUp, Thread
  <2>2. Otherwise(x)
    BY <2>1 DEF Otherwise, Steps
  <2>. QED  BY <2>2 DEF SinkStep
<1>3. CASE GivesUpWaiting(x)
  <2>1. /\ UNCHANGED <<flows, told, watchers, daemon, wire, asked, called>> /\ pending' \subseteq pending
        /\ Thread(x, at[x], answer'[x], work[x], watched[x], leases[x])
        /\ at[x] \in {"asking", "detaching", "releasing", "dropping", "lettingGo"}
    BY <1>0, <1>3 DEF GivesUpWaiting, GivesUp, Thread
  <2>2. Otherwise(x)
    BY <2>1 DEF Otherwise, Steps
  <2>. QED  BY <2>2 DEF SinkStep
<1>. QED  BY <1>1, <1>2, <1>3

\* Every step is one of these.
LEMMA SinkSteps == ASSUME IInv, [Next]_vars PROVE SinkStep
<1>0. Shape /\ WorkOurs /\ OrderInv /\ AskedInv
  BY DEF IInv, StreamsInv
<1>1. CASE Read
  BY <1>0, <1>1, ReadSinks DEF SinkStep
<1>2. CASE Serve
  BY <1>0, <1>2, ServeSinks DEF SinkStep
<1>3. CASE Prints \/ LocalTypes \/ RunsOut
  BY <1>3, SpeakSinks DEF SinkStep
<1>4. CASE \/ RecheckAll \/ Lose \/ Join \/ Reconnect \/ (\E d \in Holders : Revoke(d))
           \/ (\E kind \in {"shown", "other"} : Record(kind))
           \/ (\E x \in Channels : Shut(x) \/ Write(x) \/ FollowingEnds(x) \/ \E to : Poll(x, to))
           \/ UNCHANGED vars
  <2>1. Still /\ Standing /\ Resting /\ UNCHANGED <<asked, wire, pending, answer>>
    BY <1>4 DEF visit, ipc, daemon, connector, device, vars, Around, Steady, Still, Standing, Resting,
                RecheckAll, Lose, Join, Reconnect, Revoke, Record, Shut, Write, FollowingEnds, Poll
  <2>. QED  BY <2>1 DEF SinkStep
<1>5. ASSUME NEW x \in Channels, Visit(x) \/ Open(x) PROVE SinkStep
  BY <1>0, <1>5, RequestSinks, HearsSinks, EndsSinks DEF Visit
<1>6. ASSUME NEW x \in Channels, GivesUpAsking(x) \/ GivesUpWaiting(x) PROVE SinkStep
  BY <1>0, <1>6, GivesUpSinks
<1>. QED  BY <1>1, <1>2, <1>3, <1>4, <1>5, <1>6 DEF Next

---------------------------------------------------------------------------
\* The wire

\* It grows by items, and perhaps an answer after them.
Grown(items) ==
    /\ Len(wire) \in Nat /\ DOMAIN wire = 1 .. Len(wire) /\ DOMAIN wire' \subseteq Int
    /\ \A i \in DOMAIN wire : i \in DOMAIN wire' /\ wire'[i] = wire[i]
    /\ \A j \in DOMAIN items :
          j \in Nat \ {0} /\ Len(wire) + j \in DOMAIN wire' /\ wire'[Len(wire) + j] = items[j]
    /\ \A i \in DOMAIN wire' : i \notin DOMAIN wire =>
          /\ i > Len(wire)
          /\ \/ wire'[i].f = "answer"
             \/ i - Len(wire) \in DOMAIN items /\ wire'[i] = items[i - Len(wire)]

\* By items only.
LEMMA SaidGrown ==
    ASSUME Shape, NEW items \in Seq(ItemFrames), wire' = wire \o items
    PROVE  Grown(items)
<1>1. items \in Seq(Frames) /\ wire \in Seq(Frames)
  BY DEF Shape, Frames
<1>2. /\ Len(wire) \in Nat /\ Len(items) \in Nat /\ DOMAIN items = 1 .. Len(items)
      /\ DOMAIN wire = 1 .. Len(wire) /\ DOMAIN wire' = 1 .. Len(wire) + Len(items)
      /\ \A i \in 1 .. Len(wire) : wire'[i] = wire[i]
      /\ \A i \in 1 .. Len(items) : wire'[Len(wire) + i] = items[i]
      /\ \A i \in DOMAIN wire' : i \notin DOMAIN wire =>
             i - Len(wire) \in 1 .. Len(items) /\ wire'[i] = items[i - Len(wire)]
  BY <1>1, ConcatIs
<1>. QED  BY <1>2 DEF Grown

\* What comes with an answer, and what is asked then.
LEMMA ServedGrown ==
    ASSUME Shape, NEW items \in Seq(ItemFrames), NEW a \in Answers, Serving(items, a)
    PROVE  /\ Grown(items)
           /\ asked[1] = Head(asked) /\ 1 \in DOMAIN asked /\ Head(asked) \in Requests
           /\ DOMAIN asked \subseteq Int /\ DOMAIN asked' \subseteq Int
           /\ \A i \in DOMAIN asked' : asked'[i] = asked[i + 1] /\ i + 1 \in DOMAIN asked /\ i + 1 # 1
           /\ \A i \in DOMAIN asked : i # 1 => i - 1 \in DOMAIN asked' /\ asked'[i - 1] = asked[i]
           /\ \A i \in DOMAIN wire' : wire'[i].f = "answer" /\ i \notin DOMAIN wire =>
                 /\ wire'[i] = [f |-> "answer", by |-> Head(asked).by, id |-> Head(asked).id, a |-> a]
                 /\ \A j \in DOMAIN items : Len(wire) + j < i
           /\ asked' \in Seq(Requests)
<1>. DEFINE r == Head(asked)
            last == [f |-> "answer", by |-> r.by, id |-> r.id, a |-> a]
            said == wire \o items
<1>1. /\ asked # <<>> /\ asked' = Tail(asked) /\ asked \in Seq(Requests) /\ wire \in Seq(Frames)
      /\ wire' = wire \o items \o <<last>>
  BY DEF Serving, Shape
<1>2. /\ asked' \in Seq(Requests) /\ DOMAIN asked = 1 .. Len(asked) /\ Len(asked) \in Nat
      /\ DOMAIN asked' = 1 .. Len(asked) - 1 /\ 1 \in DOMAIN asked /\ r = asked[1] /\ r \in Requests
      /\ \A i \in DOMAIN asked' : asked'[i] = asked[i + 1] /\ i + 1 \in DOMAIN asked
      /\ \A i \in DOMAIN asked : i # 1 => i - 1 \in DOMAIN asked' /\ asked'[i - 1] = asked[i]
  BY <1>1, TailIs
<1>3. last \in Frames /\ last.f = "answer"
  BY <1>2 DEF Requests, Frames, AnswerFrames
<1>4. items \in Seq(Frames)
  BY DEF Frames
<1>. HIDE DEF last
<1>5. /\ said \in Seq(Frames) /\ Len(said) = Len(wire) + Len(items)
      /\ Len(wire) \in Nat /\ Len(items) \in Nat /\ DOMAIN items = 1 .. Len(items)
      /\ DOMAIN wire = 1 .. Len(wire)
      /\ \A i \in 1 .. Len(wire) : said[i] = wire[i]
      /\ \A i \in 1 .. Len(items) : said[Len(wire) + i] = items[i]
      /\ \A i \in 1 .. Len(said) : i \notin DOMAIN wire =>
             i - Len(wire) \in 1 .. Len(items) /\ said[i] = items[i - Len(wire)]
  BY <1>1, <1>4, ConcatIs
<1>. HIDE DEF said
<1>6. wire' = Append(said, last)
  BY <1>1, <1>3, <1>5 DEF said
<1>7. /\ DOMAIN wire' = 1 .. Len(said) + 1 /\ wire'[Len(said) + 1] = last
      /\ \A i \in 1 .. Len(said) : wire'[i] = said[i]
  BY <1>3, <1>5, <1>6, AppendIs
<1>8. Grown(items)
  <2>1. \A i \in DOMAIN wire : i \in DOMAIN wire' /\ wire'[i] = wire[i]
    BY <1>5, <1>7
  <2>2. \A j \in DOMAIN items :
          j \in Nat \ {0} /\ Len(wire) + j \in DOMAIN wire' /\ wire'[Len(wire) + j] = items[j]
    BY <1>5, <1>7
  <2>3. ASSUME NEW i \in DOMAIN wire', i \notin DOMAIN wire
        PROVE  /\ i > Len(wire)
               /\ \/ wire'[i].f = "answer"
                  \/ i - Len(wire) \in DOMAIN items /\ wire'[i] = items[i - Len(wire)]
    <3>0. i \in 1 .. Len(said) + 1 /\ i \notin 1 .. Len(wire)
      BY <1>5, <1>7, <2>3
    <3>4. Len(said) \in Nat /\ Len(said) >= Len(wire) /\ Len(wire) \in Nat
      BY <1>5
    <3>1. i \in Int /\ i > Len(wire) /\ (i = Len(said) + 1 \/ i \in 1 .. Len(said))
      BY <3>0, <3>4
    <3>2. CASE i = Len(said) + 1
      BY <1>3, <1>7, <3>1, <3>2
    <3>3. CASE i \in 1 .. Len(said)
      BY <1>5, <1>7, <2>3, <3>1, <3>3
    <3>. QED  BY <3>1, <3>2, <3>3
  <2>4. DOMAIN wire' \subseteq Int
    BY <1>5, <1>7
  <2>. QED  BY <1>5, <2>1, <2>2, <2>3, <2>4 DEF Grown
<1>9. ASSUME NEW i \in DOMAIN wire', wire'[i].f = "answer", i \notin DOMAIN wire
      PROVE  wire'[i] = last /\ \A j \in DOMAIN items : Len(wire) + j < i
  <2>1. i = Len(said) + 1
    <3>1. ASSUME i \in 1 .. Len(said) PROVE FALSE
      <4>1. i - Len(wire) \in 1 .. Len(items) /\ wire'[i] = items[i - Len(wire)]
        BY <1>5, <1>7, <1>9, <3>1
      <4>2. items[i - Len(wire)] \in ItemFrames
        BY <4>1
      <4>. QED  BY <1>9, <4>1, <4>2 DEF ItemFrames
    <3>. QED  BY <1>5, <1>7, <3>1, SMTT(30)
  <2>. QED  BY <1>5, <1>7, <2>1
<1>10. /\ DOMAIN asked \subseteq Int /\ DOMAIN asked' \subseteq Int
       /\ \A i \in DOMAIN asked' : i + 1 # 1
  BY <1>2
<1>. QED  BY <1>2, <1>8, <1>9, <1>10 DEF last

\* Its first frame is taken.
Taking ==
    /\ 1 \in DOMAIN wire /\ Head(wire) = wire[1] /\ wire[1] \in Frames
    /\ DOMAIN wire \subseteq Nat \ {0} /\ DOMAIN wire' \subseteq Nat \ {0}
    /\ \A i \in DOMAIN wire' : i + 1 \in DOMAIN wire /\ wire'[i] = wire[i + 1]
    /\ \A i \in DOMAIN wire : i # 1 => i - 1 \in DOMAIN wire' /\ wire'[i - 1] = wire[i]

\* What it leaves, when the first frame is taken off the wire.
LEMMA TakenOff == ASSUME Shape, wire # <<>>, wire' = Tail(wire) PROVE Taking
<1>1. wire \in Seq(Frames)
  BY DEF Shape
<1>2. /\ DOMAIN wire = 1 .. Len(wire) /\ Len(wire) \in Nat /\ DOMAIN wire' = 1 .. Len(wire) - 1
      /\ 1 \in DOMAIN wire /\ Head(wire) = wire[1] /\ Head(wire) \in Frames
      /\ \A i \in DOMAIN wire' : wire'[i] = wire[i + 1] /\ i + 1 \in DOMAIN wire
      /\ \A i \in DOMAIN wire : i # 1 => i - 1 \in DOMAIN wire' /\ wire'[i - 1] = wire[i]
  BY <1>1, TailIs
<1>. QED  BY <1>2 DEF Taking

\* The frames of a stream that move it on, or name who controls the terminal, stay, in their order.
SameMoves(s) ==
    \E d \in {0, 1} :
        /\ DOMAIN wire \subseteq Int /\ DOMAIN wire' \subseteq Int
        /\ \A i \in DOMAIN wire' : Moves(i, s)' => i + d \in DOMAIN wire /\ wire'[i] = wire[i + d]
        /\ \A i \in DOMAIN wire : Moves(i, s) => i - d \in DOMAIN wire' /\ wire'[i - d] = wire[i]

SameNames(s) ==
    \E d \in {0, 1} :
        /\ DOMAIN wire \subseteq Int /\ DOMAIN wire' \subseteq Int
        /\ \A i \in DOMAIN wire' : Names(i, s)' => i + d \in DOMAIN wire /\ wire'[i] = wire[i + d]
        /\ \A i \in DOMAIN wire : Names(i, s) => i - d \in DOMAIN wire' /\ wire'[i - d] = wire[i]

\* A step that leaves the wire alone.
LEMMA SameWire == ASSUME Shape, wire' = wire, NEW s PROVE SameMoves(s) /\ SameNames(s)
<1>1. DOMAIN wire \subseteq Int
  BY DEF Shape
<1>2. \A i \in DOMAIN wire : i + 0 = i /\ i - 0 = i
  BY <1>1
<1>3. 0 \in {0, 1}
  OBVIOUS
<1>. QED  BY <1>1, <1>2, <1>3 DEF SameMoves, SameNames, Moves, Names, Mine

\* A step that takes a frame.
LEMMA SameTaken ==
    ASSUME Taking, NEW s
    PROVE  (~ Moves(1, s) => SameMoves(s)) /\ (~ Names(1, s) => SameNames(s))
<1>1. DOMAIN wire \subseteq Int /\ DOMAIN wire' \subseteq Int
  BY DEF Taking
<1>. QED  BY <1>1 DEF Taking, SameMoves, SameNames

\* A step that adds to it.
LEMMA SameGrown ==
    ASSUME NEW items, Grown(items), NEW s
    PROVE  /\ (\A j \in DOMAIN items : ~ (items[j].f = "item" /\ items[j].s = s /\ items[j].item.k # "control"))
                 => SameMoves(s)
           /\ (\A j \in DOMAIN items : ~ (items[j].f = "item" /\ items[j].s = s /\ items[j].item.k = "control"))
                 => SameNames(s)
<1>1. DOMAIN wire \subseteq Int /\ DOMAIN wire' \subseteq Int
  BY DEF Grown
<1>2. \A i \in DOMAIN wire : i \in DOMAIN wire' /\ wire'[i] = wire[i] /\ i + 0 = i /\ i - 0 = i
  BY <1>1 DEF Grown
<1>3. \A i \in DOMAIN wire' : i + 0 = i
  BY <1>1
<1>4. \A i \in DOMAIN wire' : i \notin DOMAIN wire =>
          \/ wire'[i].f = "answer"
          \/ i - Len(wire) \in DOMAIN items /\ wire'[i] = items[i - Len(wire)]
  BY DEF Grown
<1>5. ASSUME \A j \in DOMAIN items : ~ (items[j].f = "item" /\ items[j].s = s /\ items[j].item.k # "control")
      PROVE  SameMoves(s)
  <2>1. \A i \in DOMAIN wire' : Moves(i, s)' => i \in DOMAIN wire /\ wire'[i] = wire[i]
    BY <1>2, <1>4, <1>5 DEF Moves, Mine
  <2>2. 0 \in {0, 1}
    OBVIOUS
  <2>. QED  BY <1>1, <1>2, <1>3, <2>1, <2>2 DEF SameMoves
<1>6. ASSUME \A j \in DOMAIN items : ~ (items[j].f = "item" /\ items[j].s = s /\ items[j].item.k = "control")
      PROVE  SameNames(s)
  <2>1. \A i \in DOMAIN wire' : Names(i, s)' => i \in DOMAIN wire /\ wire'[i] = wire[i]
    BY <1>2, <1>4, <1>6 DEF Names, Mine
  <2>2. 0 \in {0, 1}
    OBVIOUS
  <2>. QED  BY <1>1, <1>2, <1>3, <2>1, <2>2 DEF SameNames
<1>. QED  BY <1>5, <1>6

---------------------------------------------------------------------------
\* What a viewer is sent first

\* An item of its own, the items that follow, and who controls the terminal where that is told.
LEMMA BeginningsHave ==
    ASSUME Shape, NEW s \in Nat, NEW after \in Int, NEW items \in Beginnings(s, after)
    PROVE  \E m \in Nat \ {0}, w \in {0, 1} :
              /\ DOMAIN items = 1 .. m + w /\ (protocol >= ResumeProtocol => w = 1)
              /\ w = 1 => items[m + 1] = Item(s, [k |-> "control", who |-> control.who])
              /\ \/ m = 1 /\ items[1] = Item(s, [k |-> "snapshot", n |-> seq])
                 \/ /\ m = seq - after + 1 /\ after \in 0 .. seq
                    /\ items[1] = Item(s, [k |-> "resumed", n |-> after])
                    /\ \A i \in 2 .. m : items[i] = Item(s, Output(after + i - 1))
<1>. DEFINE whole == <<Item(s, [k |-> "snapshot", n |-> seq])>>
            first == <<Item(s, [k |-> "resumed", n |-> after])>>
            rest == [i \in 1 .. seq - after |-> Item(s, Output(after + i))]
            named == Item(s, [k |-> "control", who |-> control.who])
            who == IF protocol >= ResumeProtocol THEN <<named>> ELSE <<>>
            F == {x \in ItemFrames : x.s = s}
<1>1. seq \in Nat
  BY BoundsAssumption DEF Shape
<1>2. \A item \in Items : Item(s, item) \in F
  BY DEF Item, ItemFrames
<1>3. whole \in Seq(F) /\ Len(whole) = 1 /\ whole[1] = Item(s, [k |-> "snapshot", n |-> seq])
  BY <1>1, <1>2 DEF Items, Outputs
<1>4. PICK w \in {0, 1} : /\ who \in Seq(F) /\ Len(who) = w /\ (w = 1 => who[1] = named)
                          /\ protocol >= ResumeProtocol => w = 1
  <2>1. [k |-> "control", who |-> control.who] \in Items
    BY ControlIs DEF Items
  <2>2. named \in F
    BY <1>2, <2>1
  <2>. HIDE DEF F, named
  <2>3. <<>> \in Seq(F) /\ Len(<<>>) = 0
    OBVIOUS
  <2>4. <<named>> \in Seq(F) /\ Len(<<named>>) = 1 /\ <<named>>[1] = named
    BY <2>2
  <2>5. CASE protocol >= ResumeProtocol
    BY <2>4, <2>5
  <2>6. CASE ~ (protocol >= ResumeProtocol)
    BY <2>3, <2>6
  <2>. QED  BY <2>5, <2>6
<1>5. ASSUME after \in 0 .. seq
      PROVE  /\ first \in Seq(F) /\ Len(first) = 1 /\ first[1] = Item(s, [k |-> "resumed", n |-> after])
             /\ rest \in Seq(F) /\ Len(rest) = seq - after
             /\ \A i \in 1 .. seq - after : rest[i] = Item(s, Output(after + i))
  <2>1. first \in Seq(F) /\ Len(first) = 1 /\ first[1] = Item(s, [k |-> "resumed", n |-> after])
    BY <1>1, <1>2, <1>5 DEF Items
  <2>2. \A i \in 1 .. seq - after : Item(s, Output(after + i)) \in F
    BY <1>1, <1>2, <1>5 DEF Items, Outputs, Output
  <2>3. seq - after \in Nat
    BY <1>1, <1>5
  <2>. HIDE DEF F
  <2>4. rest \in [1 .. seq - after -> F]
    BY <2>2
  <2>5. rest \in Seq(F) /\ Len(rest) = seq - after
    BY <2>3, <2>4
  <2>6. \A i \in 1 .. seq - after : rest[i] = Item(s, Output(after + i))
    OBVIOUS
  <2>. QED  BY <2>1, <2>5, <2>6
<1>6. items = whole \o who \/ (after \in 0 .. seq /\ items = (first \o rest) \o who)
  BY ControlIs DEF Beginnings
<1>. HIDE DEF whole, first, rest, who, named, F
<1>7. CASE items = whole \o who
  <2>1. /\ DOMAIN items = 1 .. 1 + w
        /\ items[1] = whole[1] /\ (w = 1 => items[1 + 1] = who[1])
    BY <1>3, <1>4, <1>7, ConcatIs
  <2>. QED  BY <1>3, <1>4, <2>1 DEF named
<1>8. CASE after \in 0 .. seq /\ items = (first \o rest) \o who
  <2>. DEFINE m == seq - after + 1
  <2>1. m \in Nat \ {0} /\ seq - after \in Nat
    BY <1>1, <1>8
  <2>2. /\ first \o rest \in Seq(F) /\ Len(first \o rest) = m
        /\ (first \o rest)[1] = first[1]
        /\ \A i \in 1 .. seq - after : (first \o rest)[1 + i] = rest[i]
    <3>. HIDE DEF m
    <3>1. first \in Seq(F) /\ rest \in Seq(F) /\ Len(first) = 1 /\ Len(rest) = seq - after
      BY <1>5, <1>8
    <3>2. \A q, r \in Seq(F) :
             /\ q \o r \in Seq(F) /\ Len(q \o r) = Len(q) + Len(r)
             /\ \A i \in 1 .. Len(q) : (q \o r)[i] = q[i]
             /\ \A i \in 1 .. Len(r) : (q \o r)[Len(q) + i] = r[i]
      BY ConcatIs
    <3>3. 1 + (seq - after) = m /\ 1 \in 1 .. Len(first)
      BY <2>1, <3>1 DEF m
    <3>4. /\ first \o rest \in Seq(F) /\ Len(first \o rest) = Len(first) + Len(rest)
          /\ \A i \in 1 .. Len(first) : (first \o rest)[i] = first[i]
          /\ \A i \in 1 .. Len(rest) : (first \o rest)[Len(first) + i] = rest[i]
      BY <3>1, <3>2, Zenon
    <3>. QED  BY <3>1, <3>3, <3>4
  <2>3. /\ DOMAIN items = 1 .. m + w /\ (w = 1 => items[m + 1] = who[1])
        /\ \A i \in 1 .. m : items[i] = (first \o rest)[i]
    <3>. DEFINE q == first \o rest
    <3>. HIDE DEF q, m
    <3>1. q \in Seq(F) /\ Len(q) = m /\ items = q \o who
      BY <1>8, <2>2 DEF q
    <3>2. /\ DOMAIN items = 1 .. m + w /\ (w = 1 => items[m + 1] = who[1])
          /\ \A i \in 1 .. m : items[i] = q[i]
      BY <1>4, <3>1, ConcatIs
    <3>. QED  BY <3>2 DEF q
  <2>4. items[1] = Item(s, [k |-> "resumed", n |-> after])
    BY <1>5, <1>8, <2>1, <2>2, <2>3
  <2>5. ASSUME NEW i \in 2 .. m PROVE items[i] = Item(s, Output(after + i - 1))
    <3>1. i - 1 \in 1 .. seq - after /\ i \in 1 .. m /\ 1 + (i - 1) = i
      BY <1>1, <1>8, <2>1, <2>5
    <3>2. items[i] = rest[i - 1]
      BY <2>2, <2>3, <3>1
    <3>3. after + (i - 1) = after + i - 1
      BY <1>1, <1>8, <3>1
    <3>. QED  BY <1>5, <1>8, <3>1, <3>2, <3>3
  <2>. QED  BY <1>4, <1>8, <2>1, <2>3, <2>4, <2>5 DEF named
<1>. QED  BY <1>6, <1>7, <1>8

---------------------------------------------------------------------------
\* Beginning

\* What is said to a viewer, of what it watches.
LEMMA SaidTo ==
    ASSUME IInv, [Next]_vars
    PROVE  /\ Granting \/ Announcing =>
                 /\ Announced(control, control') \in Seq(ItemFrames)
                 /\ \A j \in DOMAIN Announced(control, control') :
                       /\ Announced(control, control')[j].s \in viewers
                       /\ Announced(control, control')[j].item = [k |-> "control", who |-> control'.who]
                 /\ protocol >= ResumeProtocol /\ control.who # control'.who =>
                       \A s \in viewers : \E j \in DOMAIN Announced(control, control') :
                           Announced(control, control')[j].s = s
                 /\ control.who = control'.who => Announced(control, control') = <<>>
                 /\ wire' = wire \o Announced(control, control') => Grown(Announced(control, control'))
           /\ Printing =>
                 /\ ToAll(Output(seq + 1)) \in Seq(ItemFrames) /\ Grown(ToAll(Output(seq + 1)))
                 /\ \A j \in DOMAIN ToAll(Output(seq + 1)) :
                       /\ ToAll(Output(seq + 1))[j].s \in viewers
                       /\ ToAll(Output(seq + 1))[j].item = Output(seq + 1)
                 /\ \A i, j \in DOMAIN ToAll(Output(seq + 1)) :
                       ToAll(Output(seq + 1))[i].s = ToAll(Output(seq + 1))[j].s => i = j
                 /\ \A s \in viewers : \E j \in DOMAIN ToAll(Output(seq + 1)) :
                       ToAll(Output(seq + 1))[j] = Item(s, Output(seq + 1))
<1>1. Shape /\ Shape'
  BY ShapeNext DEF IInv
<1>2. Controller(control) = control.who /\ Controller(control') = control'.who /\ control'.who \in Controllers
  BY <1>1, ControlIs DEF Shape, ControlStates, Controller, Lapse
<1>. DEFINE q == Announced(control, control')
<1>3. /\ q \in Seq(ItemFrames)
      /\ \A j \in DOMAIN q : q[j].s \in viewers /\ q[j].item = [k |-> "control", who |-> control'.who]
      /\ protocol >= ResumeProtocol /\ control.who # control'.who => \A s \in viewers : \E j \in DOMAIN q : q[j].s = s
  BY <1>1, <1>2, AnnouncedIs
<1>4. control.who = control'.who => q = <<>>
  BY <1>2 DEF Announced
<1>5. wire' = wire \o q => Grown(q)
  BY <1>1, <1>3, SaidGrown
<1>. DEFINE r == ToAll(Output(seq + 1))
<1>6. Output(seq + 1) \in Items
  BY <1>1, BoundsAssumption DEF Shape, Output, Items, Outputs
<1>7. /\ r \in Seq(ItemFrames)
      /\ \A j \in DOMAIN r : r[j].s \in viewers /\ r[j].item = Output(seq + 1)
      /\ \A i, j \in DOMAIN r : r[i].s = r[j].s => i = j
      /\ \A s \in viewers : \E j \in DOMAIN r : r[j] = Item(s, Output(seq + 1))
  BY <1>1, <1>6, ToAllIs
<1>8. Printing => Grown(r)
  BY <1>1, <1>7, SaidGrown DEF Printing
<1>. HIDE DEF q, r
<1>. QED  BY <1>3, <1>4, <1>5, <1>7, <1>8 DEF q, r

\* What a step does to a stream: nothing, but for the one it is about.
LEMMA BecomesIs ==
    ASSUME Shape, NEW s \in Streams, NEW x, Becomes(s, x)
    PROVE  /\ Streams' = Streams /\ flows'[s] = x.flow /\ told'[s] = x.told
           /\ \A z \in Streams : z # s => flows'[z] = flows[z] /\ told'[z] = told[z]
<1>1. flows \in Seq(Flows) /\ told \in Seq(Seq(Words)) /\ DOMAIN flows = Streams /\ DOMAIN told = Streams
  BY DEF Shape, Streams
<1>2. flows' = [flows EXCEPT ![s] = x.flow] /\ told' = [told EXCEPT ![s] = x.told]
  BY DEF Becomes
<1>3. Len(flows') = Len(flows)
  BY <1>1, <1>2
<1>. QED  BY <1>1, <1>2, <1>3 DEF Streams

\* A stream that is new.
LEMMA OpenedIs ==
    ASSUME Shape, NEW x \in Channels, Opening(x)
    PROVE  /\ Streams' = Streams \cup {Len(flows) + 1} /\ Len(flows) + 1 \notin Streams
           /\ flows'[Len(flows) + 1] = NewFlow(x) /\ told'[Len(flows) + 1] = <<>>
           /\ \A z \in Streams : flows'[z] = flows[z] /\ told'[z] = told[z]
<1>1. /\ flows \in Seq(Flows) /\ told \in Seq(Seq(Words)) /\ Len(flows) \in Nat /\ Len(told) = Len(flows)
      /\ flows' = Append(flows, NewFlow(x)) /\ told' = Append(told, <<>>)
  BY DEF Shape, Opening
<1>2. NewFlow(x) \in Flows /\ <<>> \in Seq(Words)
  BY DEF NewFlow, Flows
<1>3. /\ Len(flows') = Len(flows) + 1 /\ flows'[Len(flows) + 1] = NewFlow(x)
      /\ \A z \in 1 .. Len(flows) : flows'[z] = flows[z]
  BY <1>1, <1>2, AppendIs
<1>4. told'[Len(flows) + 1] = <<>> /\ \A z \in 1 .. Len(flows) : told'[z] = told[z]
  BY <1>1, <1>2, AppendIs
<1>. QED  BY <1>1, <1>3, <1>4 DEF Streams

\* A stream that is fed, one whose reply goes, one that is parted with, or a new one.
Touches(s) ==
    \/ Feeding /\ s = Head(wire).s /\ s \in Streams
    \/ \E x \in Channels : s \in Streams /\ s = work[x] /\ (Parting(x) \/ \E who : Replying(x, who))
    \/ \E x \in Channels : Opening(x) /\ s = Len(flows) + 1

\* Every other stream stays as it was.
LEMMA TouchesOne ==
    ASSUME IInv, SinkStep
    PROVE  /\ Streams \subseteq Streams'
           /\ \A s \in Streams' : Touches(s) \/ (s \in Streams /\ flows'[s] = flows[s] /\ told'[s] = told[s])
<1>0. Shape /\ WorkOurs
  BY DEF IInv, StreamsInv
<1>1. ASSUME UNCHANGED <<flows, told>>
      PROVE  Streams' = Streams /\ \A s \in Streams : flows'[s] = flows[s] /\ told'[s] = told[s]
  BY <1>1 DEF Streams
<1>2. CASE Feeding
  <2>1. Head(wire).s \in Streams
    BY <1>0, <1>2 DEF Shape, Feeding
  <2>. DEFINE z == Take(At(Head(wire).s), Head(wire).item)
              h == Head(wire).s
  <2>2. Becomes(h, z)
    BY <1>2 DEF Feeding
  <2>. HIDE DEF z, h
  <2>3. Streams' = Streams /\ \A s \in Streams : s # h => flows'[s] = flows[s] /\ told'[s] = told[s]
    BY <1>0, <2>1, <2>2, BecomesIs DEF h
  <2>. QED  BY <1>2, <2>1, <2>3 DEF Touches, h
<1>3. ASSUME NEW x \in Channels, Opening(x) PROVE Streams \subseteq Streams'
           /\ \A s \in Streams' : Touches(s) \/ (s \in Streams /\ flows'[s] = flows[s] /\ told'[s] = told[s])
  BY <1>0, <1>3, OpenedIs DEF Touches
<1>4. ASSUME NEW x \in Channels, NEW who, Replying(x, who) PROVE Streams \subseteq Streams'
           /\ \A s \in Streams' : Touches(s) \/ (s \in Streams /\ flows'[s] = flows[s] /\ told'[s] = told[s])
  <2>. DEFINE z == Replied(work[x], who)
  <2>1. work[x] \in Streams /\ Becomes(work[x], z)
    BY <1>0, <1>4 DEF Replying, WorkOurs
  <2>. HIDE DEF z
  <2>2. Streams' = Streams /\ \A s \in Streams : s # work[x] => flows'[s] = flows[s] /\ told'[s] = told[s]
    BY <1>0, <2>1, BecomesIs
  <2>. QED  BY <1>4, <2>1, <2>2 DEF Touches
<1>5. ASSUME NEW x \in Channels, Parting(x) PROVE Streams \subseteq Streams'
           /\ \A s \in Streams' : Touches(s) \/ (s \in Streams /\ flows'[s] = flows[s] /\ told'[s] = told[s])
  <2>1. /\ work[x] \in Streams /\ flows' = flows /\ DOMAIN told = Streams
        /\ told' = [told EXCEPT ![work[x]] = Append(@, <<"done", 0>>)]
    BY <1>0, <1>5 DEF Parting, WorkOurs, Shape, Streams
  <2>2. Streams' = Streams /\ \A s \in Streams : s # work[x] => told'[s] = told[s] /\ flows'[s] = flows[s]
    BY <2>1 DEF Streams
  <2>. QED  BY <1>5, <2>1, <2>2 DEF Touches
<1>6. CASE UNCHANGED <<flows, told>>
  BY <1>1, <1>6
<1>7. \/ UNCHANGED <<flows, told>> \/ Feeding
      \/ \E x \in Channels : Opening(x) \/ Parting(x) \/ \E who : Replying(x, who)
  BY DEF SinkStep, Passing, Beginning, Ending, Granting, Printing, Announcing, Serving, Wondering, Leaving,
         Abandoning, Otherwise, Still
<1>. QED  BY <1>2, <1>3, <1>4, <1>5, <1>6, <1>7

\* What a step asks for was asked for before, or is new.
LEMMA AsksOne ==
    ASSUME IInv, SinkStep
    PROVE  \/ asked' = asked
           \/ /\ asked # <<>> /\ asked' = Tail(asked) /\ Head(asked) = asked[1] /\ DOMAIN asked' \subseteq Int
              /\ \A i \in DOMAIN asked' : asked'[i] = asked[i + 1] /\ i + 1 \in DOMAIN asked /\ i + 1 # 1
              /\ \A i \in DOMAIN asked : i # 1 => i - 1 \in DOMAIN asked' /\ asked'[i - 1] = asked[i]
              /\ 1 \in DOMAIN asked /\ Still
           \/ \E x \in Channels, op \in Ops :
                 /\ Asks(x, op) /\ Len(asked) + 1 \in DOMAIN asked'
                 /\ asked'[Len(asked) + 1] = [by |-> x, id |-> called[x] + 1, op |-> op]
                 /\ \A i \in DOMAIN asked : i \in DOMAIN asked' /\ asked'[i] = asked[i]
                 /\ \A i \in DOMAIN asked' : i \in DOMAIN asked \/ i = Len(asked) + 1
                 /\ op.o = "watch" => Opening(x) /\ op.s = Len(flows) + 1
                 /\ op.o = "detach" => op.s \notin watchers'
<1>0. Shape /\ WorkOurs
  BY DEF IInv, StreamsInv
<1>1. ASSUME NEW x \in Channels, NEW op \in Ops, Asks(x, op),
             op.o = "watch" => Opening(x) /\ op.s = Len(flows) + 1,
             op.o = "detach" => op.s \notin watchers'
      PROVE  \E y \in Channels, p \in Ops :
                 /\ Asks(y, p) /\ Len(asked) + 1 \in DOMAIN asked'
                 /\ asked'[Len(asked) + 1] = [by |-> y, id |-> called[y] + 1, op |-> p]
                 /\ \A i \in DOMAIN asked : i \in DOMAIN asked' /\ asked'[i] = asked[i]
                 /\ \A i \in DOMAIN asked' : i \in DOMAIN asked \/ i = Len(asked) + 1
                 /\ p.o = "watch" => Opening(y) /\ p.s = Len(flows) + 1
                 /\ p.o = "detach" => p.s \notin watchers'
  <2>1. /\ Len(asked) \in Nat /\ DOMAIN asked = 1 .. Len(asked) /\ DOMAIN asked' = 1 .. Len(asked) + 1
        /\ \A i \in DOMAIN asked : asked'[i] = asked[i]
        /\ asked'[Len(asked) + 1] = [by |-> x, id |-> called[x] + 1, op |-> op]
    BY <1>0, <1>1, AsksThen
  <2>2. /\ Len(asked) + 1 \in DOMAIN asked' /\ \A i \in DOMAIN asked : i \in DOMAIN asked'
        /\ \A i \in DOMAIN asked' : i \in DOMAIN asked \/ i = Len(asked) + 1
    BY <2>1
  <2>. QED  BY <1>1, <2>1, <2>2
<1>2. ASSUME asked # <<>>, asked' = Tail(asked)
      PROVE  /\ Head(asked) = asked[1] /\ DOMAIN asked' \subseteq Int
             /\ \A i \in DOMAIN asked' : asked'[i] = asked[i + 1] /\ i + 1 \in DOMAIN asked /\ i + 1 # 1
             /\ \A i \in DOMAIN asked : i # 1 => i - 1 \in DOMAIN asked' /\ asked'[i - 1] = asked[i]
             /\ 1 \in DOMAIN asked
  <2>1. asked \in Seq(Requests)
    BY <1>0 DEF Shape
  <2>2. /\ 1 \in DOMAIN asked /\ Head(asked) = asked[1] /\ DOMAIN asked' = 1 .. Len(asked) - 1 /\ Len(asked) \in Nat
        /\ \A i \in DOMAIN asked' : asked'[i] = asked[i + 1] /\ i + 1 \in DOMAIN asked
        /\ \A i \in DOMAIN asked : i # 1 => i - 1 \in DOMAIN asked' /\ asked'[i - 1] = asked[i]
    BY <1>2, <2>1, TailIs
  <2>. QED  BY <2>2
<1>3. ASSUME NEW x \in Channels, Opening(x) PROVE \E op \in Ops : Asks(x, op) /\ op.o = "watch" /\ op.s = Len(flows) + 1
  <2>1. PICK after \in Int : Asks(x, [o |-> "watch", s |-> Len(flows) + 1, after |-> after])
    BY <1>3 DEF Opening
  <2>2. [o |-> "watch", s |-> Len(flows) + 1, after |-> after] \in Ops
    BY <1>0 DEF Shape, Ops
  <2>. QED  BY <2>1, <2>2
<1>4. ASSUME NEW x \in Channels, NEW s \in Streams, Leaving(x, s)
      PROVE  Asks(x, [o |-> "detach", s |-> s]) /\ [o |-> "detach", s |-> s] \in Ops /\ s \notin watchers'
  <2>1. s \in Nat
    BY <1>0, OfIs
  <2>. QED  BY <1>4, <2>1 DEF Leaving, Ops
<1>5. ASSUME NEW x \in Channels, NEW who, Replying(x, who)
      PROVE  asked' = asked \/ /\ Asks(x, [o |-> "detach", s |-> work[x]]) /\ [o |-> "detach", s |-> work[x]] \in Ops
                               /\ work[x] \notin watchers'
  <2>1. work[x] \in Nat
    BY <1>0, <1>5, OfIs DEF Replying, WorkOurs
  <2>. QED  BY <1>5, <2>1 DEF Replying, Ops
<1>6. ASSUME NEW x \in Channels, Wondering(x) PROVE Asks(x, [o |-> "controller"]) /\ [o |-> "controller"] \in Ops
  BY <1>6 DEF Wondering, Ops
<1>7. ASSUME NEW x \in Channels, Otherwise(x)
      PROVE  asked' = asked \/ \E op \in Ops : Asks(x, op) /\ op.o \notin {"watch", "detach"}
  BY <1>7 DEF Otherwise
<1>8. CASE Beginning \/ Ending \/ Granting
  <2>1. asked # <<>> /\ asked' = Tail(asked) /\ Still
    BY <1>8 DEF Beginning, Ending, Granting, Serving
  <2>. QED  BY <1>2, <2>1
<1>9. ASSUME Feeding \/ Passing \/ Printing \/ Announcing PROVE asked' = asked
  BY <1>9 DEF Feeding, Passing, Printing, Announcing
<1>10. ASSUME NEW x \in Channels, Parting(x) \/ Abandoning(x) PROVE asked' = asked
  BY <1>10 DEF Parting, NoAsk, Abandoning
<1>11. ASSUME NEW x \in Channels,
              Opening(x) \/ (\E who : Replying(x, who)) \/ Wondering(x) \/ (\E s \in Streams : Leaving(x, s))
              \/ Parting(x) \/ Abandoning(x) \/ Otherwise(x)
       PROVE  asked' = asked \/ \E op \in Ops :
                 /\ Asks(x, op)
                 /\ op.o = "watch" => Opening(x) /\ op.s = Len(flows) + 1
                 /\ op.o = "detach" => op.s \notin watchers'
  <2>1. CASE Opening(x)
    <3>1. PICK op \in Ops : Asks(x, op) /\ op.o = "watch" /\ op.s = Len(flows) + 1
      BY <1>3, <2>1
    <3>. QED  BY <2>1, <3>1
  <2>2. ASSUME NEW s \in Streams, Leaving(x, s)
        PROVE  \E op \in Ops : Asks(x, op) /\ op.o = "detach" /\ op.s \notin watchers'
    <3>1. [o |-> "detach", s |-> s].o = "detach" /\ [o |-> "detach", s |-> s].s = s
      OBVIOUS
    <3>. QED  BY <1>4, <2>2, <3>1
  <2>3. ASSUME NEW who, Replying(x, who)
        PROVE  asked' = asked \/ \E op \in Ops : Asks(x, op) /\ op.o = "detach" /\ op.s \notin watchers'
    <3>1. [o |-> "detach", s |-> work[x]].o = "detach" /\ [o |-> "detach", s |-> work[x]].s = work[x]
      OBVIOUS
    <3>. QED  BY <1>5, <2>3, <3>1
  <2>4. CASE Wondering(x)
    <3>1. [o |-> "controller"].o = "controller"
      OBVIOUS
    <3>. QED  BY <1>6, <2>4, <3>1
  <2>5. CASE Parting(x) \/ Abandoning(x)
    BY <1>10, <2>5
  <2>6. CASE Otherwise(x)
    BY <1>7, <2>6
  <2>. QED  BY <1>11, <2>1, <2>2, <2>3, <2>4, <2>5, <2>6
<1>12. asked' = asked \/ Beginning \/ Ending \/ Granting
       \/ \E x \in Channels, op \in Ops :
             /\ Asks(x, op)
             /\ op.o = "watch" => Opening(x) /\ op.s = Len(flows) + 1
             /\ op.o = "detach" => op.s \notin watchers'
  BY <1>9, <1>11 DEF SinkStep
<1>. QED  BY <1>1, <1>8, <1>12

\* What is on its way was before, or is an answer, or an item for a viewer.
LEMMA BeginningSays ==
    ASSUME IInv, Beginning
    PROVE  /\ Watches(asked[1], Head(asked).op.s) /\ Head(asked).op.s \in Streams /\ asked[1] = Head(asked)
           /\ \E items \in Beginnings(Head(asked).op.s, Head(asked).op.after) :
                 Serving(items, Done) /\ items \in Seq(ItemFrames) /\ Grown(items)
                 /\ \A j \in DOMAIN items : items[j].f = "item" /\ items[j].s = Head(asked).op.s
<1>0. Shape /\ OrderInv
  BY DEF IInv, StreamsInv
<1>. DEFINE op == Head(asked).op
<1>1. /\ op.o = "watch" /\ asked # <<>>
  BY DEF Beginning, Serving
<1>2. Head(asked) = asked[1] /\ Head(asked) \in Requests /\ 1 \in DOMAIN asked
  BY <1>0, <1>1, TailIs DEF Shape
<1>3. op.s \in Nat /\ op.after \in Int
  BY <1>1, <1>2 DEF Requests, Ops
<1>4. op.s \in Streams
  BY <1>0, <1>1, <1>2 DEF OrderInv
<1>5. PICK items \in Beginnings(op.s, op.after) : Serving(items, Done)
  BY DEF Beginning
<1>. HIDE DEF op
<1>6. items \in Seq(ItemFrames)
  BY <1>0, <1>3, BeginningsAre
<1>7. Grown(items)
  BY <1>0, <1>5, <1>6, ServedGrown DEF Answers
<1>8. \A j \in DOMAIN items : items[j].f = "item" /\ items[j].s = op.s
  <2>1. PICK m \in Nat \ {0}, w \in {0, 1} :
              /\ DOMAIN items = 1 .. m + w
              /\ w = 1 => items[m + 1] = Item(op.s, [k |-> "control", who |-> control.who])
              /\ \/ m = 1 /\ items[1] = Item(op.s, [k |-> "snapshot", n |-> seq])
                 \/ /\ items[1] = Item(op.s, [k |-> "resumed", n |-> op.after])
                    /\ \A i \in 2 .. m : items[i] = Item(op.s, Output(op.after + i - 1))
    BY <1>0, <1>3, <1>5, BeginningsHave, SMTT(30)
  <2>2. \A item : Item(op.s, item).f = "item" /\ Item(op.s, item).s = op.s
    BY DEF Item
  <2>3. ASSUME NEW j \in DOMAIN items PROVE j = 1 \/ j \in 2 .. m \/ (w = 1 /\ j = m + 1)
    BY <2>1, <2>3
  <2>. QED  BY <2>1, <2>2, <2>3
<1>. QED  BY <1>1, <1>2, <1>4, <1>5, <1>6, <1>7, <1>8 DEF op, Watches

\* Every frame on its way was, or is one of these.
LEMMA WireOne ==
    ASSUME IInv, [Next]_vars, SinkStep
    PROVE  \A i \in DOMAIN wire' :
              \/ \E j \in DOMAIN wire : wire'[i] = wire[j]
              \/ wire'[i].f = "answer"
              \/ wire'[i].s \in viewers
              \/ Beginning /\ wire'[i].s = Head(asked).op.s
<1>0. Shape
  BY DEF IInv
<1>1. ASSUME NEW items, Grown(items), NEW V, \A j \in DOMAIN items : items[j].s \in V
      PROVE  \A i \in DOMAIN wire' :
                (\E j \in DOMAIN wire : wire'[i] = wire[j]) \/ wire'[i].f = "answer" \/ wire'[i].s \in V
  BY <1>1 DEF Grown
<1>2. CASE Feeding \/ Passing
  <2>1. Taking
    BY <1>0, <1>2, TakenOff DEF Feeding, Passing
  <2>. QED  BY <2>1 DEF Taking
<1>3. CASE Beginning
  <2>1. PICK items \in Beginnings(Head(asked).op.s, Head(asked).op.after) :
           Grown(items) /\ \A j \in DOMAIN items : items[j].s = Head(asked).op.s
    BY <1>3, BeginningSays
  <2>. DEFINE V == {Head(asked).op.s}
  <2>2. \A j \in DOMAIN items : items[j].s \in V
    BY <2>1
  <2>. HIDE DEF V
  <2>3. \A i \in DOMAIN wire' :
           (\E j \in DOMAIN wire : wire'[i] = wire[j]) \/ wire'[i].f = "answer" \/ wire'[i].s \in V
    BY <1>1, <2>1, <2>2
  <2>. QED  BY <1>3, <2>3 DEF V
<1>4. CASE Ending
  <2>1. Serving(<<>>, Done)
    BY <1>4 DEF Ending
  <2>3. DOMAIN <<>> = {} /\ <<>> \in Seq(ItemFrames)
    OBVIOUS
  <2>2. Grown(<<>>)
    BY <1>0, <2>1, <2>3, ServedGrown DEF Answers
  <2>4. \A i \in DOMAIN wire' : i \in DOMAIN wire \/ wire'[i].f = "answer"
    BY <2>2, <2>3 DEF Grown
  <2>. QED  BY <2>2, <2>4 DEF Grown
<1>5. CASE Granting \/ Announcing
  <2>. DEFINE q == Announced(control, control')
  <2>1. q \in Seq(ItemFrames) /\ \A j \in DOMAIN q : q[j].s \in viewers
    BY <1>5, SaidTo
  <2>. HIDE DEF q
  <2>2. CASE Granting
    <3>1. PICK a \in Answers : Serving(q, a)
      BY <2>2 DEF Granting, q
    <3>. QED  BY <1>0, <1>1, <2>1, <3>1, ServedGrown
  <2>3. CASE Announcing
    <3>1. wire' = wire \o q
      BY <2>3 DEF Announcing, q
    <3>. QED  BY <1>0, <1>1, <2>1, <3>1, SaidGrown
  <2>. QED  BY <1>5, <2>2, <2>3
<1>6. CASE Printing
  <2>. DEFINE q == ToAll(Output(seq + 1))
  <2>1. Grown(q) /\ \A j \in DOMAIN q : q[j].s \in viewers
    BY <1>6, SaidTo
  <2>. HIDE DEF q
  <2>. QED  BY <1>1, <2>1
<1>7. ASSUME wire' = wire PROVE \A i \in DOMAIN wire' : \E j \in DOMAIN wire : wire'[i] = wire[j]
  BY <1>7
<1>8. \/ Feeding \/ Passing \/ Beginning \/ Ending \/ Granting \/ Announcing \/ Printing \/ wire' = wire
  BY DEF SinkStep, Opening, Replying, Wondering, Leaving, Parting, Abandoning, Otherwise, Asks, NoAsk
<1>. QED  BY <1>2, <1>3, <1>4, <1>5, <1>6, <1>7, <1>8

\* That a stream is asked for once, before anything comes of it, is kept by every step.
LEMMA BeginNext ==
    ASSUME IInv, [Next]_vars, BeginInv, SinksInv, ReadyInv
    PROVE  BeginInv'
<1>0. Shape /\ OrderInv /\ WorkOurs /\ Shape' /\ CallsInv'
  BY ShapeNext, InvariantNext DEF IInv, StreamsInv
<1>1. SinkStep
  BY SinkSteps
<1>2. /\ Streams \subseteq Streams'
      /\ \A s \in Streams' : Touches(s) \/ (s \in Streams /\ flows'[s] = flows[s] /\ told'[s] = told[s])
  BY <1>1, TouchesOne
<1>3. viewers \subseteq Streams /\ watchers \subseteq Streams /\ watchers' \subseteq Streams'
  BY <1>0 DEF Shape
\* what is on its way
<1>4. \A i \in DOMAIN wire' : wire'[i].f # "answer" => wire'[i].s \in Streams
  <2>1. \A j \in DOMAIN wire : wire[j].f # "answer" => wire[j].s \in Streams
    BY DEF BeginInv, IsAnswer
  <2>. QED  BY <1>1, <1>3, <2>1, WireOne, BeginningSays
\* what is asked
<1>5. ASSUME NEW i \in DOMAIN asked', NEW s \in Streams', Watches(asked'[i], s)
      PROVE  \/ \E j \in DOMAIN asked : asked'[i] = asked[j] /\ Watches(asked[j], s) /\ s \in Streams
             \/ s \notin Streams /\ s = Len(flows) + 1 /\ asked'[i].by \in Channels /\ Opening(asked'[i].by)
                /\ i = Len(asked) + 1
  <2>0. \A j \in DOMAIN asked : Watches(asked[j], s) => s \in Streams
    BY <1>0 DEF OrderInv, Watches
  <2>1. Len(flows) + 1 \notin Streams
    BY <1>0, OfIs
  <2>2. CASE asked' = asked
    BY <1>5, <2>0, <2>2
  <2>3. CASE \A j \in DOMAIN asked' : asked'[j] = asked[j + 1] /\ j + 1 \in DOMAIN asked
    BY <1>5, <2>0, <2>3
  <2>4. ASSUME NEW x \in Channels, NEW op \in Ops, Len(asked) + 1 \in DOMAIN asked',
                 asked'[Len(asked) + 1] = [by |-> x, id |-> called[x] + 1, op |-> op],
                 \A j \in DOMAIN asked : j \in DOMAIN asked' /\ asked'[j] = asked[j],
                 \A j \in DOMAIN asked' : j \in DOMAIN asked \/ j = Len(asked) + 1,
                 op.o = "watch" => Opening(x) /\ op.s = Len(flows) + 1
        PROVE  \/ \E j \in DOMAIN asked : asked'[i] = asked[j] /\ Watches(asked[j], s) /\ s \in Streams
               \/ s \notin Streams /\ s = Len(flows) + 1 /\ asked'[i].by \in Channels /\ Opening(asked'[i].by)
                  /\ i = Len(asked) + 1
    <3>1. CASE i \in DOMAIN asked
      BY <1>5, <2>0, <2>4, <3>1
    <3>2. CASE i = Len(asked) + 1
      <4>1. asked'[i].by = x /\ asked'[i].op = op
        BY <2>4, <3>2
      <4>. QED  BY <1>5, <2>1, <2>4, <3>2, <4>1 DEF Watches
    <3>. QED  BY <2>4, <3>1, <3>2
  <2>. QED  BY <1>1, <2>2, <2>3, <2>4, AsksOne
<1>6. ASSUME NEW i \in DOMAIN asked', NEW j \in DOMAIN asked', NEW s \in Streams',
             Watches(asked'[i], s), Watches(asked'[j], s)
      PROVE  i = j
  <2>1. CASE s \in Streams
    <3>1. PICK k \in DOMAIN asked : asked'[i] = asked[k] /\ Watches(asked[k], s)
      BY <1>5, <1>6, <2>1
    <3>2. PICK l \in DOMAIN asked : asked'[j] = asked[l] /\ Watches(asked[l], s)
      BY <1>5, <1>6, <2>1
    <3>3. k = l
      BY <2>1, <3>1, <3>2 DEF BeginInv
    <3>4. asked'[i].by = asked'[j].by /\ asked'[i].id = asked'[j].id
      BY <3>1, <3>2, <3>3
    <3>. QED  BY <1>0, <3>4 DEF CallsInv
  <2>2. CASE s \notin Streams
    BY <1>5, <1>6, <2>2
  <2>. QED  BY <2>1, <2>2
\* what nothing was made of
<1>7. ASSUME NEW s \in Streams', ~ Served(s)' PROVE Fresh(s)'
  <2>1. PICK i \in DOMAIN asked' : Watches(asked'[i], s)
    BY <1>7 DEF Served, Watches
  <2>2. CASE s \in Streams
    <3>1. PICK k \in DOMAIN asked : asked'[i] = asked[k] /\ Watches(asked[k], s)
      BY <1>5, <2>1, <2>2
    <3>2. Fresh(s) /\ ~ Served(s)
      BY <2>2, <3>1 DEF BeginInv, Served
    <3>3. ~ (Beginning /\ Head(asked).op.s = s)
      <4>1. SUFFICES ASSUME Beginning, Head(asked).op.s = s PROVE FALSE
        OBVIOUS
      <4>2. Watches(asked[1], s) /\ asked # <<>> /\ asked' = Tail(asked)
        BY <4>1, BeginningSays DEF Beginning, Serving
      <4>3. asked'[i] = asked[i + 1] /\ i + 1 \in DOMAIN asked /\ i + 1 # 1 /\ 1 \in DOMAIN asked
        <5>1. /\ DOMAIN asked' = 1 .. Len(asked) - 1 /\ Len(asked) \in Nat /\ 1 \in DOMAIN asked
              /\ \A j \in DOMAIN asked' : asked'[j] = asked[j + 1] /\ j + 1 \in DOMAIN asked
          BY <1>0, <4>2, TailIs DEF Shape
        <5>. QED  BY <5>1
      <4>4. Watches(asked[i + 1], s)
        BY <2>1, <4>3
      <4>. QED  BY <2>2, <4>2, <4>3, <4>4 DEF BeginInv
    <3>4. ~ Touches(s)
      <4>1. ~ (Feeding /\ s = Head(wire).s)
        <5>1. Feeding => Head(wire).f = "item" /\ Head(wire) = wire[1] /\ 1 \in DOMAIN wire
          BY <1>0, TakenOff DEF Feeding, Taking
        <5>. QED  BY <3>2, <5>1 DEF Fresh, Mine
      <4>2. ASSUME NEW x \in Channels, s = work[x], Parting(x) PROVE FALSE
        BY <3>2, <4>2 DEF Parting, ReadyInv, Fresh
      <4>3. ASSUME NEW x \in Channels, s = work[x], NEW who, Replying(x, who) PROVE FALSE
        <5>1. Ready(s)
          BY <4>3 DEF Replying, ReadyInv, Answered
        <5>. QED  BY <3>2, <5>1 DEF Ready
      <4>4. s # Len(flows) + 1
        BY <1>0, <2>2, OfIs
      <4>. QED  BY <4>1, <4>2, <4>3, <4>4 DEF Touches
    <3>5. flows'[s] = flows[s] /\ told'[s] = told[s]
      BY <1>2, <1>7, <3>4
    <3>6. s \notin viewers'
      <4>1. viewers' \subseteq viewers \/ (Beginning /\ viewers' = viewers \cup {Head(asked).op.s})
        BY <1>1 DEF SinkStep, Feeding, Passing, Beginning, Ending, Granting, Printing, Announcing, Opening, Replying,
                    Wondering, Leaving, Parting, Abandoning, Otherwise, Standing
      <4>. QED  BY <3>2, <3>3, <4>1 DEF Fresh
    <3>7. \A j \in DOMAIN wire' : ~ (wire'[j].f = "item" /\ wire'[j].s = s)
      BY <1>1, <3>2, <3>3, WireOne DEF Fresh, Mine
    <3>. QED  BY <3>2, <3>5, <3>6, <3>7 DEF Fresh, Mine
  <2>3. CASE s \notin Streams
    <3>1. PICK x \in Channels : Opening(x) /\ s = Len(flows) + 1
      BY <1>5, <2>1, <2>3
    <3>2. flows'[s] = NewFlow(x) /\ told'[s] = <<>> /\ viewers' = viewers
      BY <1>0, <3>1, OpenedIs DEF Opening, Standing
    <3>3. \A j \in DOMAIN wire' : ~ (wire'[j].f = "item" /\ wire'[j].s = s)
      BY <1>4, <2>3
    <3>. QED  BY <1>3, <2>3, <3>2, <3>3 DEF Fresh, Mine, NewFlow
  <2>. QED  BY <2>2, <2>3
\* what has a sink
<1>8. ASSUME NEW s \in watchers', NEW i \in DOMAIN asked', Detaches(asked'[i], s) PROVE FALSE
  <2>1. s \in watchers \/ s \notin Streams
    <3>1. watchers' \subseteq watchers \/ \E x \in Channels : Opening(x) /\ watchers' = watchers \cup {Len(flows) + 1}
      BY <1>1 DEF SinkStep, Feeding, Passing, Beginning, Ending, Granting, Printing, Announcing, Opening, Replying,
                  Wondering, Leaving, Parting, Abandoning, Otherwise, Still, Serving
    <3>2. Len(flows) + 1 \notin Streams
      BY <1>0, OfIs
    <3>. QED  BY <1>8, <3>1, <3>2
  <2>2. \A j \in DOMAIN asked : ~ Detaches(asked[j], s)
    BY <1>0, <2>1 DEF BeginInv, OrderInv, Detaches
  <2>3. CASE asked' = asked
    BY <1>8, <2>2, <2>3
  <2>4. CASE \A j \in DOMAIN asked' : asked'[j] = asked[j + 1] /\ j + 1 \in DOMAIN asked
    BY <1>8, <2>2, <2>4
  <2>5. ASSUME NEW x \in Channels, NEW op \in Ops,
                 asked'[Len(asked) + 1] = [by |-> x, id |-> called[x] + 1, op |-> op],
                 \A j \in DOMAIN asked : j \in DOMAIN asked' /\ asked'[j] = asked[j],
                 \A j \in DOMAIN asked' : j \in DOMAIN asked \/ j = Len(asked) + 1,
                 op.o = "detach" => op.s \notin watchers'
        PROVE  FALSE
    <3>1. asked'[Len(asked) + 1].op = op
      BY <2>5
    <3>2. CASE i \in DOMAIN asked
      BY <1>8, <2>2, <2>5, <3>2
    <3>3. CASE i = Len(asked) + 1
      <4>1. op.o = "detach" /\ op.s = s
        BY <1>8, <3>1, <3>3 DEF Detaches
      <4>. QED  BY <1>8, <2>5, <4>1
    <3>. QED  BY <2>5, <3>2, <3>3
  <2>. QED  BY <1>1, <2>3, <2>4, <2>5, AsksOne
<1>9. \A i \in DOMAIN wire' : wire'[i].f # "answer" => wire'[i].s \in Streams'
  BY <1>2, <1>4
<1>. QED  BY <1>6, <1>7, <1>8, <1>9 DEF BeginInv, IsAnswer, Watches, Detaches

---------------------------------------------------------------------------
\* What the reader makes of a stream

\* What a stream's sink is afterwards.
FlowIs(s, start, from, held, replied, controller, over) ==
    /\ flows'[s].start = start /\ flows'[s].from = from /\ flows'[s].held = held
    /\ flows'[s].replied = replied /\ flows'[s].controller = controller /\ flows'[s].over = over

\* The items a sink takes, by what they are and whether its reply has gone.
LEMMA TakeThen ==
    ASSUME Shape, NEW s \in Streams, NEW item \in Items, ~ flows[s].over
    PROVE  LET x == Take(At(s), item)
               f == flows[s] IN
           /\ item.k = "resumed" =>
                 x.flow = [f EXCEPT !.start = item.k, !.from = item.n] /\ x.told = told[s] /\ x.ok
           /\ item.k = "snapshot" /\ ~ f.replied =>
                 /\ x.flow = [f EXCEPT !.start = item.k, !.from = item.n, !.held = Append(f.held, item)]
                 /\ x.told = told[s] /\ x.ok
           /\ item.k = "control" /\ ~ f.replied =>
                 x.flow = [f EXCEPT !.controller = item.who] /\ x.told = told[s] /\ x.ok
           /\ item.k = "control" /\ f.replied =>
                 x.flow = f /\ x.told = Append(told[s], <<"control", item.who>>) /\ x.ok
           /\ item.k = "out" /\ ~ f.replied =>
                 x.flow = [f EXCEPT !.held = Append(f.held, item)] /\ x.told = told[s] /\ x.ok
           /\ item.k = "out" /\ f.replied =>
                 \/ x.flow = f /\ x.told = Append(told[s], <<"out", item.n>>) /\ x.ok
                 \/ x.flow = [f EXCEPT !.over = TRUE] /\ x.told = Append(told[s], <<"over", 0>>) /\ ~ x.ok
<1>. DEFINE f == flows[s]
            x == At(s)
            begun == [x EXCEPT !.flow.start = item.k, !.flow.from = item.n]
            y == IF item.k = "snapshot" THEN begun ELSE x
<1>1. f \in Flows
  BY DEF Shape, Streams
<1>2. x = [flow |-> f, told |-> told[s], waiting |-> waiting[Of(s)], ok |-> TRUE]
  BY DEF At
<1>3. /\ begun.flow = [f EXCEPT !.start = item.k, !.from = item.n] /\ begun.told = told[s] /\ begun.ok = TRUE
      /\ [begun EXCEPT !.flow.held = Append(@, item)].flow
            = [[f EXCEPT !.start = item.k, !.from = item.n] EXCEPT !.held = Append(@, item)]
      /\ [begun EXCEPT !.flow.held = Append(@, item)].told = told[s]
      /\ [begun EXCEPT !.flow.held = Append(@, item)].ok = TRUE
  <2>. DEFINE g == [f EXCEPT !.start = item.k, !.from = item.n]
  <2>1. begun = [flow |-> g, told |-> told[s], waiting |-> waiting[Of(s)], ok |-> TRUE]
    <3>1. x.flow = f
      BY <1>2
    <3>2. begun = [x EXCEPT !.flow = [x.flow EXCEPT !.start = item.k, !.from = item.n]]
      OBVIOUS
    <3>3. begun = [x EXCEPT !.flow = g]
      BY <3>1, <3>2
    <3>. HIDE DEF begun, g, x
    <3>. QED  BY <1>2, <3>3
  <2>. HIDE DEF begun, g
  <2>2. /\ begun.flow = g /\ begun.told = told[s] /\ begun.ok = TRUE
        /\ [begun EXCEPT !.flow.held = Append(@, item)].flow = [g EXCEPT !.held = Append(@, item)]
        /\ [begun EXCEPT !.flow.held = Append(@, item)].told = told[s]
        /\ [begun EXCEPT !.flow.held = Append(@, item)].ok = TRUE
    BY <2>1
  <2>. QED  BY <2>2 DEF g
<1>4. x.flow = f
  BY <1>2
<1>. HIDE DEF x, begun, y, f
<1>5. Take(x, item) =
        CASE x.flow.over -> [x EXCEPT !.ok = FALSE]
          [] ~ x.flow.over /\ item.k = "resumed" -> begun
          [] ~ x.flow.over /\ item.k = "control" /\ ~ x.flow.replied ->
                 [x EXCEPT !.flow.controller = item.who]
          [] ~ x.flow.over /\ item.k # "resumed" /\ x.flow.replied -> Send(y, item)
          [] OTHER -> [y EXCEPT !.flow.held = Append(@, item)]
  BY DEF Take, begun, y
<1>6. ~ f.over
  BY DEF f
<1>7. CASE item.k = "resumed"
  <2>1. Take(x, item) = begun
    BY <1>4, <1>5, <1>6, <1>7
  <2>. QED  BY <1>3, <1>7, <2>1 DEF x, f
<1>8. CASE item.k = "snapshot" /\ ~ f.replied
  <2>1. Take(x, item) = [begun EXCEPT !.flow.held = Append(@, item)]
    BY <1>4, <1>5, <1>6, <1>8 DEF y
  <2>2. Take(x, item).flow = [[f EXCEPT !.start = item.k, !.from = item.n] EXCEPT !.held = Append(@, item)]
        /\ Take(x, item).told = told[s] /\ Take(x, item).ok = TRUE
    BY <1>3, <2>1
  <2>3. [[f EXCEPT !.start = item.k, !.from = item.n] EXCEPT !.held = Append(@, item)]
         = [f EXCEPT !.start = item.k, !.from = item.n, !.held = Append(f.held, item)]
    BY <1>1 DEF Flows
  <2>. QED  BY <1>8, <2>2, <2>3 DEF x, f
<1>9. CASE item.k = "control" /\ ~ f.replied
  <2>1. Take(x, item) = [x EXCEPT !.flow.controller = item.who]
    BY <1>4, <1>5, <1>6, <1>9
  <2>2. Take(x, item).flow = [f EXCEPT !.controller = item.who] /\ Take(x, item).told = told[s]
        /\ Take(x, item).ok = TRUE
    BY <1>2, <2>1
  <2>. QED  BY <1>9, <2>2 DEF x, f
<1>10. CASE item.k = "control" /\ f.replied
  <2>1. Take(x, item) = [x EXCEPT !.told = Append(@, <<"control", item.who>>)]
    BY <1>4, <1>5, <1>6, <1>10 DEF y, Send
  <2>2. Take(x, item).flow = f /\ Take(x, item).told = Append(told[s], <<"control", item.who>>)
        /\ Take(x, item).ok = TRUE
    BY <1>2, <2>1
  <2>. QED  BY <1>10, <2>2 DEF x, f
<1>11. CASE item.k = "out" /\ ~ f.replied
  <2>1. Take(x, item) = [x EXCEPT !.flow.held = Append(@, item)]
    BY <1>4, <1>5, <1>6, <1>11 DEF y
  <2>2. Take(x, item).flow = [f EXCEPT !.held = Append(f.held, item)] /\ Take(x, item).told = told[s]
        /\ Take(x, item).ok = TRUE
    BY <1>2, <2>1
  <2>. QED  BY <1>11, <2>2 DEF x, f
<1>12. CASE item.k = "out" /\ f.replied
  <2>1. Take(x, item) = IF x.waiting < Room
                        THEN [x EXCEPT !.told = Append(@, <<"out", item.n>>), !.waiting = @ + 1]
                        ELSE [x EXCEPT !.told = Append(@, <<"over", 0>>), !.flow.over = TRUE, !.ok = FALSE]
    BY <1>4, <1>5, <1>6, <1>12 DEF y, Send
  <2>2. \/ Take(x, item).flow = f /\ Take(x, item).told = Append(told[s], <<"out", item.n>>)
           /\ Take(x, item).ok = TRUE
        \/ Take(x, item).flow = [f EXCEPT !.over = TRUE] /\ Take(x, item).told = Append(told[s], <<"over", 0>>)
           /\ Take(x, item).ok = FALSE
    BY <1>2, <2>1
  <2>. QED  BY <1>12, <2>2 DEF x, f
<1>13. item.k \in {"resumed", "snapshot", "control", "out"} /\ f.replied \in BOOLEAN
  BY <1>1 DEF Items, Outputs, Flows
<1>14. CASE item.k = "snapshot" /\ f.replied
  BY <1>14 DEF f
<1>. QED  BY <1>7, <1>8, <1>9, <1>10, <1>11, <1>12, <1>13, <1>14

\* What it makes of the stream whose item it hands over.
Resumed(s, item) ==
    /\ item.k = "resumed" /\ FlowIs(s, item.k, item.n, <<>>, FALSE, flows[s].controller, FALSE)
    /\ told[s] = <<>> /\ told'[s] = <<>> /\ watchers' = watchers /\ flows[s].start = None
Shown(s, item) ==
    /\ item.k = "snapshot" /\ FlowIs(s, item.k, item.n, <<item>>, FALSE, flows[s].controller, FALSE)
    /\ told[s] = <<>> /\ told'[s] = <<>> /\ watchers' = watchers /\ flows[s].start = None
Noted(s, item) ==
    /\ item.k = "control" /\ told[s] = <<>> /\ told'[s] = <<>> /\ watchers' = watchers
    /\ FlowIs(s, flows[s].start, flows[s].from, flows[s].held, FALSE, item.who, FALSE) /\ ~ flows[s].replied
HeldBack(s, item) ==
    /\ item.k = "out" /\ told[s] = <<>> /\ told'[s] = <<>> /\ watchers' = watchers /\ flows[s].start # None
    /\ FlowIs(s, flows[s].start, flows[s].from, Append(flows[s].held, item), FALSE, flows[s].controller, FALSE)
    /\ item.n = First(s) + Len(flows[s].held) /\ ~ flows[s].replied
SaidOn(s, item) ==
    /\ item.k = "control" /\ flows'[s] = flows[s] /\ told'[s] = Append(told[s], <<"control", item.who>>)
    /\ watchers' = watchers /\ flows[s].replied
PassedOn(s, item) ==
    /\ item.k = "out" /\ flows'[s] = flows[s] /\ told'[s] = Append(told[s], <<"out", item.n>>)
    /\ watchers' = watchers /\ flows[s].replied /\ Sent(s) = First(s) .. item.n - 1 /\ item.n >= First(s)
Overrun(s, item) ==
    /\ item.k = "out" /\ told'[s] = Append(told[s], <<"over", 0>>) /\ watchers' = watchers \ {s}
    /\ FlowIs(s, flows[s].start, flows[s].from, flows[s].held, TRUE, flows[s].controller, TRUE) /\ flows[s].replied

\* The reader does one of these to the stream of the first frame, whose number comes next.
LEMMA FeedingIs ==
    ASSUME IInv, BeginInv, SinksInv, FedInv, Feeding, NEW s, s = Head(wire).s, NEW item, item = Head(wire).item
    PROVE  /\ Taking /\ s \in Streams /\ s \in watchers /\ Served(s) /\ Fed(s) /\ Mine(1, s) /\ wire[1].item = item
           /\ item \in Items
           /\ item.k # "control" => \E p \in (0 - 1) .. seq :
                 /\ Place(s, p) /\ Left(s) = p + 1 .. seq
                 /\ item.k = "snapshot" => item.n = p + 1
                 /\ item.k = "resumed" => item.n = p
                 /\ item.k = "out" => item.n = p + 1
           /\ \/ Resumed(s, item) \/ Shown(s, item) \/ Noted(s, item) \/ HeldBack(s, item)
              \/ SaidOn(s, item) \/ PassedOn(s, item) \/ Overrun(s, item)
           /\ \A z \in Streams : z # s => flows'[z] = flows[z] /\ told'[z] = told[z]
<1>0. Shape
  BY DEF IInv
<1>1. Taking
  BY <1>0, TakenOff DEF Feeding
<1>2. Head(wire) = wire[1] /\ 1 \in DOMAIN wire /\ wire[1] \in Frames /\ wire[1].f = "item" /\ s \in watchers
  BY <1>1 DEF Taking, Feeding
<1>3. s \in Streams /\ item \in Items /\ Mine(1, s) /\ wire[1].item = item
  BY <1>0, <1>2 DEF Shape, Frames, AnswerFrames, ItemFrames, Mine
<1>4. Served(s)
  BY <1>2, <1>3 DEF BeginInv, Fresh
<1>5. Fed(s) /\ Sunk(s)
  BY <1>2, <1>3, <1>4 DEF FedInv, SinksInv
<1>6. ~ flows[s].over
  BY <1>2, <1>5 DEF Sunk
<1>7. flows[s] \in Flows /\ seq \in Nat
  BY <1>0, <1>3, BoundsAssumption DEF Shape, Streams
<1>. DEFINE x == Take(At(s), item)
            f == flows[s]
<1>8. Becomes(s, x) /\ watchers' = IF x.ok THEN watchers ELSE watchers \ {s}
  BY DEF Feeding
<1>. HIDE DEF x
<1>9. flows'[s] = x.flow /\ told'[s] = x.told /\ \A z \in Streams : z # s => flows'[z] = flows[z] /\ told'[z] = told[z]
  BY <1>0, <1>3, <1>8, BecomesIs
<1>10. /\ item.k = "resumed" =>
                 x.flow = [f EXCEPT !.start = item.k, !.from = item.n] /\ x.told = told[s] /\ x.ok
       /\ item.k = "snapshot" /\ ~ f.replied =>
             /\ x.flow = [f EXCEPT !.start = item.k, !.from = item.n, !.held = Append(f.held, item)]
             /\ x.told = told[s] /\ x.ok
       /\ item.k = "control" /\ ~ f.replied =>
             x.flow = [f EXCEPT !.controller = item.who] /\ x.told = told[s] /\ x.ok
       /\ item.k = "control" /\ f.replied =>
             x.flow = f /\ x.told = Append(told[s], <<"control", item.who>>) /\ x.ok
       /\ item.k = "out" /\ ~ f.replied =>
             x.flow = [f EXCEPT !.held = Append(f.held, item)] /\ x.told = told[s] /\ x.ok
       /\ item.k = "out" /\ f.replied =>
             \/ x.flow = f /\ x.told = Append(told[s], <<"out", item.n>>) /\ x.ok
             \/ x.flow = [f EXCEPT !.over = TRUE] /\ x.told = Append(told[s], <<"over", 0>>) /\ ~ x.ok
  BY <1>0, <1>3, <1>6, TakeThen DEF x
<1>11. item.k \in {"snapshot", "resumed"} => f.start = None /\ ~ f.replied /\ told[s] = <<>> /\ f.held = <<>>
  BY <1>2, <1>3, <1>5 DEF Fed, Begins, Sunk
<1>12. ~ f.replied => told[s] = <<>>
  BY <1>5 DEF Sunk
<1>13. PICK p \in (0 - 1) .. seq : Place(s, p) /\ Left(s) = p + 1 .. seq
  BY <1>5 DEF Fed
<1>14. ASSUME NEW i \in DOMAIN wire, Begins(i, s), item.k # "control" PROVE i = 1
  <2>1. Moves(1, s) /\ i \in Nat \ {0}
    BY <1>1, <1>3, <1>14 DEF Moves, Taking
  <2>2. i <= 1
    BY <1>2, <1>5, <1>14, <2>1 DEF Fed
  <2>. QED  BY <2>1, <2>2
<1>15. item.k = "out" => f.start # None
  BY <1>3, <1>13, <1>14 DEF Place, Begins
<1>16. item.k \in {"snapshot", "out"} => item.n = p + 1
  <2>1. SUFFICES ASSUME item.k \in {"snapshot", "out"} PROVE item.n = p + 1
    OBVIOUS
  <2>2. Numbers(1, s)
    BY <1>3, <2>1 DEF Numbers
  <2>3. item.n \in Left(s)
    BY <1>2, <1>3, <2>2 DEF Left
  <2>4. p + 1 \in Left(s)
    BY <1>7, <1>13, <2>3
  <2>5. PICK j \in DOMAIN wire : Numbers(j, s) /\ wire[j].item.n = p + 1
    BY <2>4 DEF Left
  <2>6. j # 1 => item.n < p + 1
    <3>1. j \in Nat \ {0}
      BY <1>1 DEF Taking
    <3>2. j # 1 => 1 < j
      BY <3>1
    <3>. QED  BY <1>2, <1>3, <1>5, <2>2, <2>5, <3>2 DEF Fed
  <2>. QED  BY <1>3, <1>7, <1>13, <2>3, <2>5, <2>6
<1>17. item.k = "resumed" => item.n = p
  <2>1. SUFFICES ASSUME item.k = "resumed" PROVE item.n = p
    OBVIOUS
  <2>2. PICK i \in DOMAIN wire :
           Begins(i, s) /\ p = IF wire[i].item.k = "snapshot" THEN wire[i].item.n - 1 ELSE wire[i].item.n
    BY <1>11, <1>13, <2>1 DEF Place
  <2>. QED  BY <1>3, <1>14, <2>1, <2>2
<1>18. item.k \in {"resumed", "snapshot", "control", "out"} /\ f.replied \in BOOLEAN /\ f.over = FALSE
  BY <1>3, <1>6, <1>7 DEF Items, Outputs, Flows
<1>19. CASE item.k = "resumed"
  <2>8. x.flow = [f EXCEPT !.start = item.k, !.from = item.n]
    BY <1>10, <1>19
  <2>7. f.replied = FALSE /\ f.over = FALSE
    BY <1>11, <1>18, <1>19
  <2>9. FlowIs(s, item.k, item.n, <<>>, FALSE, flows[s].controller, FALSE)
    BY <1>7, <1>9, <1>11, <1>18, <1>19, <2>8, <2>7 DEF FlowIs, Flows
  <2>1. Resumed(s, item)
    BY <2>9, <1>8, <1>9, <1>10, <1>11, <1>18, <1>19 DEF Resumed
  <2>. QED  BY <1>1, <1>2, <1>3, <1>4, <1>5, <1>9, <1>13, <1>16, <1>17, <1>19, <2>1
<1>20. CASE item.k = "snapshot"
  <2>1. Append(<<>>, item) = <<item>>
    OBVIOUS
  <2>6. Append(f.held, item) = <<item>>
    BY <1>11, <1>20, <2>1
  <2>8. x.flow = [f EXCEPT !.start = item.k, !.from = item.n, !.held = <<item>>]
    BY <1>10, <1>11, <1>20, <2>6
  <2>7. f.replied = FALSE /\ f.over = FALSE
    BY <1>11, <1>18, <1>20, <2>1
  <2>9. FlowIs(s, item.k, item.n, <<item>>, FALSE, flows[s].controller, FALSE)
    BY <1>7, <1>9, <1>11, <1>18, <1>20, <2>1, <2>8, <2>7 DEF FlowIs, Flows
  <2>2. Shown(s, item)
    BY <2>9, <1>8, <1>9, <1>10, <1>11, <1>18, <1>20, <2>1 DEF Shown
  <2>. QED  BY <1>1, <1>2, <1>3, <1>4, <1>5, <1>9, <1>13, <1>16, <1>17, <1>20, <2>2
<1>21. CASE item.k = "control" /\ ~ f.replied
  <2>8. x.flow = [f EXCEPT !.controller = item.who]
    BY <1>10, <1>21
  <2>7. f.replied = FALSE /\ f.over = FALSE
    BY <1>18, <1>21
  <2>9. FlowIs(s, flows[s].start, flows[s].from, flows[s].held, FALSE, item.who, FALSE)
    BY <1>7, <1>9, <1>18, <1>21, <2>8, <2>7 DEF FlowIs, Flows
  <2>1. Noted(s, item)
    BY <2>9, <1>8, <1>9, <1>10, <1>12, <1>18, <1>21 DEF Noted
  <2>. QED  BY <1>1, <1>2, <1>3, <1>4, <1>5, <1>9, <1>21, <2>1
<1>22. CASE item.k = "control" /\ f.replied
  <2>1. SaidOn(s, item)
    BY <1>8, <1>9, <1>10, <1>22 DEF SaidOn
  <2>. QED  BY <1>1, <1>2, <1>3, <1>4, <1>5, <1>9, <1>22, <2>1
<1>23. CASE item.k = "out" /\ ~ f.replied
  <2>1. p = First(s) + Len(f.held) - 1 /\ f.held \in Seq(Outputs)
    BY <1>7, <1>13, <1>15, <1>23 DEF Place, Flows
  <2>2. First(s) \in Int /\ Len(f.held) \in Nat
    BY <1>7, <2>1 DEF First, Flows
  <2>3. item.n = First(s) + Len(f.held)
    BY <1>13, <1>16, <1>23, <2>1, <2>2
  <2>8. x.flow = [f EXCEPT !.held = Append(f.held, item)]
    BY <1>10, <1>23
  <2>7. f.replied = FALSE /\ f.over = FALSE
    BY <1>18, <1>23
  <2>9. FlowIs(s, flows[s].start, flows[s].from, Append(flows[s].held, item), FALSE, flows[s].controller, FALSE)
    BY <1>7, <1>9, <1>18, <1>23, <2>8, <2>7, SMTT(30) DEF FlowIs, Flows
  <2>4. HeldBack(s, item)
    BY <2>9, <1>8, <1>9, <1>10, <1>12, <1>15, <1>18, <1>23, <2>3 DEF HeldBack
  <2>. QED  BY <1>1, <1>2, <1>3, <1>4, <1>5, <1>9, <1>13, <1>16, <1>17, <1>23, <2>4
<1>24. CASE item.k = "out" /\ f.replied
  <2>1. p >= First(s) - 1 /\ Sent(s) = First(s) .. p
    BY <1>13, <1>15, <1>24 DEF Place
  <2>2. First(s) \in Int /\ p \in Int /\ item.n = p + 1
    BY <1>7, <1>13, <1>16, <1>24 DEF First, Flows
  <2>3. Sent(s) = First(s) .. item.n - 1 /\ item.n >= First(s)
    BY <2>1, <2>2
  <2>4. PassedOn(s, item) \/ Overrun(s, item)
    <3>1. CASE x.flow = f /\ x.told = Append(told[s], <<"out", item.n>>) /\ x.ok
      BY <1>8, <1>9, <1>24, <2>3, <3>1 DEF PassedOn
    <3>2. CASE x.flow = [f EXCEPT !.over = TRUE] /\ x.told = Append(told[s], <<"over", 0>>) /\ ~ x.ok
      BY <1>7, <1>8, <1>9, <1>18, <1>24, <3>2, SMTT(30) DEF Overrun, FlowIs, Flows
    <3>. QED  BY <1>10, <1>24, <3>1, <3>2
  <2>. QED  BY <1>1, <1>2, <1>3, <1>4, <1>5, <1>9, <1>13, <1>16, <1>17, <1>24, <2>4
<1>. QED  BY <1>18, <1>19, <1>20, <1>21, <1>22, <1>23, <1>24

---------------------------------------------------------------------------
\* What goes with a reply

\* What a reply says, and leaves of the sink.
RepliesWith(x, s, who) ==
    /\ x.flow.replied = TRUE /\ x.flow.held = <<>> /\ x.flow.over = (~ x.ok) /\ x.ok \in BOOLEAN
    /\ x.flow.start = flows[s].start /\ x.flow.from = flows[s].from
    /\ x.flow.controller = flows[s].controller
    /\ \E n \in 0 .. Len(flows[s].held) :
          /\ x.ok => n = Len(flows[s].held) /\ DOMAIN x.told = 1 .. n + 2
          /\ ~ x.ok => DOMAIN x.told = 1 .. n + 3 /\ x.told[n + 3] = <<"over", 0>>
          /\ x.told[1] = <<"attached", flows[s].from>> /\ x.told[2] = <<"control", who>>
          /\ \A i \in 1 .. n : x.told[i + 2] = <<"out", flows[s].held[i].n>>

\* The reply itself, as much of what was held back as there is room for, and that the stream is
\* over when that is not all.
LEMMA RepliedThen ==
    ASSUME Shape, NEW s \in Streams, NEW who \in Controllers, NEW x, x = Replied(s, who)
    PROVE  RepliesWith(x, s, who)
<1>. DEFINE f == flows[s]
            left == IF waiting[Of(s)] < Room THEN Room - waiting[Of(s)] ELSE 0
            all == Len(f.held) <= left
            n == IF all THEN Len(f.held) ELSE left
            outs == [i \in 1 .. n |-> <<"out", f.held[i].n>>]
            reply == <<<<"attached", f.from>>, <<"control", who>>>>
            last == IF all THEN <<>> ELSE <<<<"over", 0>>>>
<1>1. f \in Flows
  BY DEF Shape, Streams
<1>2. f.held \in Seq(Outputs) /\ f.from \in Int /\ Len(f.held) \in Nat
  BY <1>1 DEF Flows
<1>3. waiting[Of(s)] \in 0 .. Room + 1 /\ Room \in Nat
  BY OfIs, RoomAssumption DEF Shape
<1>4. left \in Nat
  BY <1>3
<1>5. /\ x.flow = [f EXCEPT !.replied = TRUE, !.held = <<>>, !.over = ~ all] /\ x.ok = all
      /\ x.told = (reply \o outs) \o last
  BY DEF Replied
<1>. HIDE DEF left, f
<1>6. n \in 0 .. Len(f.held) /\ (all => n = Len(f.held)) /\ all \in BOOLEAN
  BY <1>2, <1>4
<1>7. \A i \in 1 .. n : <<"out", f.held[i].n>> \in Words
  <2>1. ASSUME NEW i \in 1 .. n PROVE f.held[i] \in Outputs
    <3>1. i \in 1 .. Len(f.held)
      BY <1>2, <1>6
    <3>. QED  BY <1>2, <3>1
  <2>2. \A i \in 1 .. n : f.held[i].n \in Int
    BY <2>1 DEF Outputs
  <2>. QED  BY <2>2 DEF Words
<1>. HIDE DEF all, n
<1>8. outs \in Seq(Words) /\ Len(outs) = n /\ \A i \in 1 .. n : outs[i] = <<"out", f.held[i].n>>
  <2>1. outs \in [1 .. n -> Words]
    BY <1>7
  <2>2. n \in Nat
    BY <1>2, <1>6
  <2>. QED  BY <2>1, <2>2
<1>9. reply \in Seq(Words) /\ Len(reply) = 2 /\ reply[1] = <<"attached", f.from>> /\ reply[2] = <<"control", who>>
  BY <1>2 DEF Words
<1>10. last \in Seq(Words) /\ (all => Len(last) = 0) /\ (~ all => Len(last) = 1 /\ last[1] = <<"over", 0>>)
      /\ (~ all => 1 \in 1 .. Len(last))
  <2>1. CASE all
    BY <2>1
  <2>2. CASE ~ all
    <3>1. last = <<<<"over", 0>>>> /\ <<"over", 0>> \in Words
      BY <2>2 DEF Words
    <3>. HIDE DEF last
    <3>2. last \in Seq(Words) /\ Len(last) = 1 /\ last[1] = <<"over", 0>> /\ 1 \in 1 .. 1
      BY <3>1
    <3>. QED  BY <2>2, <3>2
  <2>. QED  BY <2>1, <2>2
<1>. HIDE DEF outs, reply, last
<1>11. /\ reply \o outs \in Seq(Words) /\ Len(reply \o outs) = n + 2
       /\ (reply \o outs)[1] = reply[1] /\ (reply \o outs)[2] = reply[2]
       /\ \A i \in 1 .. n : (reply \o outs)[i + 2] = outs[i]
  <2>1. /\ reply \o outs \in Seq(Words) /\ Len(reply \o outs) = Len(reply) + Len(outs)
        /\ \A i \in 1 .. Len(reply) : (reply \o outs)[i] = reply[i]
        /\ \A i \in 1 .. Len(outs) : (reply \o outs)[Len(reply) + i] = outs[i]
    <3>1. \A q, r \in Seq(Words) :
             /\ q \o r \in Seq(Words) /\ Len(q \o r) = Len(q) + Len(r)
             /\ \A i \in 1 .. Len(q) : (q \o r)[i] = q[i]
             /\ \A i \in 1 .. Len(r) : (q \o r)[Len(q) + i] = r[i]
      BY ConcatIs
    <3>. QED  BY <1>8, <1>9, <3>1, Zenon
  <2>2. n \in Nat /\ 2 + n = n + 2 /\ 1 \in 1 .. 2 /\ 2 \in 1 .. 2 /\ \A i \in 1 .. n : 2 + i = i + 2
    BY <1>2, <1>6
  <2>. QED  BY <1>8, <1>9, <2>1, <2>2
<1>. DEFINE q == reply \o outs
<1>. HIDE DEF q
<1>12. q \in Seq(Words) /\ Len(q) = n + 2 /\ x.told = q \o last
  BY <1>5, <1>11 DEF q
<1>13. /\ DOMAIN x.told = 1 .. n + 2 + Len(last)
       /\ \A i \in 1 .. n + 2 : x.told[i] = q[i]
       /\ ~ all => x.told[n + 2 + 1] = last[1]
  <2>1. /\ DOMAIN (q \o last) = 1 .. Len(q) + Len(last)
        /\ \A i \in 1 .. Len(q) : (q \o last)[i] = q[i]
        /\ \A i \in 1 .. Len(last) : (q \o last)[Len(q) + i] = last[i]
    BY <1>10, <1>12, ConcatIs
  <2>2. ~ all => Len(last) = 1 /\ 1 \in 1 .. Len(last)
    BY <1>10
  <2>. QED  BY <1>12, <2>1, <2>2
<1>14. /\ x.told[1] = <<"attached", f.from>> /\ x.told[2] = <<"control", who>>
       /\ \A i \in 1 .. n : x.told[i + 2] = <<"out", f.held[i].n>>
  <2>1. n \in Nat /\ 1 \in 1 .. n + 2 /\ 2 \in 1 .. n + 2 /\ \A i \in 1 .. n : i + 2 \in 1 .. n + 2
    BY <1>2, <1>6
  <2>2. /\ q[1] = reply[1] /\ q[2] = reply[2]
        /\ \A i \in 1 .. n : q[i + 2] = outs[i]
    BY <1>11 DEF q
  <2>. QED  BY <1>8, <1>9, <1>13, <2>1, <2>2
<1>15. /\ all => DOMAIN x.told = 1 .. n + 2
       /\ ~ all => DOMAIN x.told = 1 .. n + 3 /\ x.told[n + 3] = <<"over", 0>>
  <2>1. n \in Nat /\ n + 2 + 0 = n + 2 /\ n + 2 + 1 = n + 3
    BY <1>2, <1>6
  <2>. QED  BY <1>10, <1>13, <2>1
<1>16. /\ x.flow.replied = TRUE /\ x.flow.held = <<>> /\ x.flow.over = (~ all)
       /\ x.flow.start = f.start /\ x.flow.from = f.from /\ x.flow.controller = f.controller
  BY <1>1, <1>5 DEF Flows
<1>. QED  BY <1>5, <1>6, <1>14, <1>15, <1>16 DEF f, RepliesWith

\* What a device is told with a reply.
RepliesSo(s, who) ==
    \E n \in 0 .. Len(flows[s].held) :
        /\ s \in watchers' => n = Len(flows[s].held) /\ DOMAIN told'[s] = 1 .. n + 2
        /\ s \notin watchers' => DOMAIN told'[s] = 1 .. n + 3 /\ told'[s][n + 3] = <<"over", 0>>
        /\ told'[s][1] = <<"attached", flows[s].from>> /\ told'[s][2] = <<"control", who>>
        /\ \A i \in 1 .. n : told'[s][i + 2] = <<"out", First(s) + i - 1>>

\* What was held back follows the reply, from the first on.
LEMMA ReplyingIs ==
    ASSUME IInv, SinksInv, ReadyInv, NEW x \in Channels, NEW who, Replying(x, who), NEW s, s = work[x]
    PROVE  /\ s \in Streams /\ s \in watchers /\ Ready(s) /\ told[s] = <<>> /\ ~ flows[s].replied
           /\ Streams' = Streams /\ \A z \in Streams : z # s => flows'[z] = flows[z] /\ told'[z] = told[z]
           /\ FlowIs(s, flows[s].start, flows[s].from, <<>>, TRUE, flows[s].controller, s \notin watchers')
           /\ watchers' \in {watchers, watchers \ {s}}
           /\ RepliesSo(s, who)
<1>0. Shape /\ WorkOurs
  BY DEF IInv, StreamsInv
<1>1. s \in Streams /\ who \in Controllers /\ s \in watchers /\ told[s] = <<>> /\ Ready(s)
  BY <1>0 DEF Replying, WorkOurs, ReadyInv, Answered
<1>2. Sunk(s) /\ ~ flows[s].replied
  BY <1>1 DEF SinksInv, Sunk
<1>. DEFINE z == Replied(s, who)
<1>3. Becomes(s, z) /\ watchers' = IF z.ok THEN watchers ELSE watchers \ {s}
  BY DEF Replying
<1>31. z = Replied(s, who)
  OBVIOUS
<1>. HIDE DEF z
<1>41. RepliesWith(z, s, who)
  BY <1>0, <1>1, <1>31, RepliedThen
<1>4. /\ z.flow.replied = TRUE /\ z.flow.held = <<>> /\ z.flow.over = (~ z.ok) /\ z.ok \in BOOLEAN
      /\ z.flow.start = flows[s].start /\ z.flow.from = flows[s].from
      /\ z.flow.controller = flows[s].controller
      /\ \E n \in 0 .. Len(flows[s].held) :
            /\ z.ok => n = Len(flows[s].held) /\ DOMAIN z.told = 1 .. n + 2
            /\ ~ z.ok => DOMAIN z.told = 1 .. n + 3 /\ z.told[n + 3] = <<"over", 0>>
            /\ z.told[1] = <<"attached", flows[s].from>> /\ z.told[2] = <<"control", who>>
            /\ \A i \in 1 .. n : z.told[i + 2] = <<"out", flows[s].held[i].n>>
  BY <1>41 DEF RepliesWith
<1>5. /\ Streams' = Streams /\ flows'[s] = z.flow /\ told'[s] = z.told
      /\ \A y \in Streams : y # s => flows'[y] = flows[y] /\ told'[y] = told[y]
  BY <1>0, <1>1, <1>3, BecomesIs
<1>6. (s \notin watchers') = (~ z.ok) /\ watchers' \in {watchers, watchers \ {s}}
  BY <1>1, <1>3, <1>4
<1>7. FlowIs(s, flows[s].start, flows[s].from, <<>>, TRUE, flows[s].controller, s \notin watchers')
  BY <1>4, <1>5, <1>6 DEF FlowIs
<1>8. PICK n \in 0 .. Len(flows[s].held) :
            /\ z.ok => n = Len(flows[s].held) /\ DOMAIN z.told = 1 .. n + 2
            /\ ~ z.ok => DOMAIN z.told = 1 .. n + 3 /\ z.told[n + 3] = <<"over", 0>>
            /\ z.told[1] = <<"attached", flows[s].from>> /\ z.told[2] = <<"control", who>>
            /\ \A i \in 1 .. n : z.told[i + 2] = <<"out", flows[s].held[i].n>>
  BY <1>4
<1>9. \A i \in 1 .. n : flows[s].held[i].n = First(s) + i - 1
  <2>1. flows[s] \in Flows
    BY <1>0, <1>1 DEF Shape, Streams
  <2>2. flows[s].held \in Seq(Outputs)
    BY <2>1 DEF Flows
  <2>3. \A i \in 1 .. n : i \in DOMAIN flows[s].held
    BY <1>8, <2>2
  <2>. QED  BY <1>2, <2>3 DEF Sunk
<1>10. /\ s \in watchers' => n = Len(flows[s].held) /\ DOMAIN told'[s] = 1 .. n + 2
       /\ s \notin watchers' => DOMAIN told'[s] = 1 .. n + 3 /\ told'[s][n + 3] = <<"over", 0>>
       /\ told'[s][1] = <<"attached", flows[s].from>> /\ told'[s][2] = <<"control", who>>
       /\ \A i \in 1 .. n : told'[s][i + 2] = <<"out", First(s) + i - 1>>
  BY <1>5, <1>6, <1>8, <1>9
<1>11. RepliesSo(s, who)
  BY <1>8, <1>10 DEF RepliesSo
<1>. QED  BY <1>1, <1>2, <1>5, <1>6, <1>7, <1>11

---------------------------------------------------------------------------
\* What a sink told

\* One more word.
LEMMA ToldAppend ==
    ASSUME Shape, NEW s \in Streams, NEW w \in Words, told'[s] = Append(told[s], w)
    PROVE  /\ Len(told[s]) \in Nat /\ DOMAIN told[s] = 1 .. Len(told[s])
           /\ DOMAIN told'[s] = 1 .. Len(told[s]) + 1 /\ Len(told'[s]) = Len(told[s]) + 1
           /\ \A i \in 1 .. Len(told[s]) : told'[s][i] = told[s][i]
           /\ told'[s][Len(told[s]) + 1] = w /\ told'[s] # <<>>
           /\ \A k : /\ w[1] # k => Told(s, k)' = Told(s, k)
                     /\ w[1] = k => Told(s, k)' = Told(s, k) \cup {Len(told[s]) + 1}
           /\ w[1] # "out" => Sent(s)' = Sent(s)
           /\ w[1] = "out" => Sent(s)' = Sent(s) \cup {w[2]}
<1>1. told[s] \in Seq(Words)
  BY DEF Shape, Streams
<1>2. /\ Len(told[s]) \in Nat /\ DOMAIN told[s] = 1 .. Len(told[s])
      /\ DOMAIN told'[s] = 1 .. Len(told[s]) + 1 /\ Len(told'[s]) = Len(told[s]) + 1
      /\ \A i \in 1 .. Len(told[s]) : told'[s][i] = told[s][i]
      /\ told'[s][Len(told[s]) + 1] = w
  BY <1>1, AppendIs
<1>. DEFINE n == Len(told[s]) + 1
<1>3. DOMAIN told'[s] = DOMAIN told[s] \cup {n} /\ \A i \in DOMAIN told[s] : told'[s][i] = told[s][i]
  BY <1>2
<1>4. told'[s][n] = w /\ told'[s] # <<>>
  <2>1. Len(<<>>) = 0 /\ Len(told'[s]) # 0
    BY <1>2
  <2>. QED  BY <1>2, <2>1
<1>. HIDE DEF n
<1>5. ASSUME NEW k, w[1] # k PROVE Told(s, k)' = Told(s, k)
  BY <1>3, <1>4, <1>5 DEF Told
<1>6. ASSUME NEW k, w[1] = k PROVE Told(s, k)' = Told(s, k) \cup {n}
  BY <1>3, <1>4, <1>6 DEF Told
<1>7. \A i \in Told(s, "out") : told'[s][i] = told[s][i]
  BY <1>3 DEF Told
<1>8. w[1] # "out" => Sent(s)' = Sent(s)
  <2>1. w[1] # "out" => Told(s, "out")' = Told(s, "out")
    BY <1>5
  <2>2. Sent(s)' = {told'[s][i][2] : i \in Told(s, "out")'}
    BY DEF Sent
  <2>3. ASSUME w[1] # "out" PROVE Sent(s)' = Sent(s)
    <3>1. Sent(s)' = {told'[s][i][2] : i \in Told(s, "out")}
      BY <2>1, <2>2, <2>3
    <3>2. Sent(s) = {told[s][i][2] : i \in Told(s, "out")}
      BY DEF Sent
    <3>. DEFINE T == Told(s, "out")
                f(i) == told[s][i][2]
                g(i) == told'[s][i][2]
    <3>3. \A i \in T : f(i) = g(i)
      BY <1>7
    <3>4. Sent(s)' = {g(i) : i \in T} /\ Sent(s) = {f(i) : i \in T}
      BY <3>1, <3>2
    <3>. HIDE DEF T, f, g
    <3>. QED  BY <3>3, <3>4
  <2>. QED  BY <2>3
<1>9. w[1] = "out" => Sent(s)' = Sent(s) \cup {w[2]}
  <2>1. w[1] = "out" => Told(s, "out")' = Told(s, "out") \cup {n}
    BY <1>6
  <2>2. Sent(s)' = {told'[s][i][2] : i \in Told(s, "out")'}
    BY DEF Sent
  <2>3. ASSUME w[1] = "out" PROVE Sent(s)' = Sent(s) \cup {w[2]}
    <3>1. Sent(s)' = {told'[s][i][2] : i \in Told(s, "out") \cup {n}}
      BY <2>1, <2>2, <2>3
    <3>2. Sent(s) = {told[s][i][2] : i \in Told(s, "out")}
      BY DEF Sent
    <3>. DEFINE T == Told(s, "out")
                f(i) == told[s][i][2]
                g(i) == told'[s][i][2]
    <3>3. \A i \in T : f(i) = g(i)
      BY <1>7
    <3>4. Sent(s)' = {g(i) : i \in T \cup {n}} /\ Sent(s) = {f(i) : i \in T} /\ g(n) = w[2]
      BY <1>4, <3>1, <3>2
    <3>. HIDE DEF T, f, g
    <3>. QED  BY <3>3, <3>4
  <2>. QED  BY <2>3
<1>. QED  BY <1>2, <1>4, <1>5, <1>6, <1>8, <1>9 DEF n

\* An item that goes on from those sent, or a word that is none, leaves what was sent whole.
LEMMA WholeAppend ==
    ASSUME Shape, NEW s \in Streams, NEW w \in Words, told'[s] = Append(told[s], w), Whole(s), told[s] # <<>>,
           flows'[s].start = flows[s].start, flows'[s].from = flows[s].from,
           w[1] = "out" => Sent(s) = First(s) .. w[2] - 1 /\ w[2] >= First(s),
           w[1] = "done" \/ (Told(s, "over") = {} /\ Told(s, "done") = {})
    PROVE  Whole(s)'
<1>1. /\ Len(told[s]) \in Nat /\ DOMAIN told[s] = 1 .. Len(told[s])
      /\ DOMAIN told'[s] = 1 .. Len(told[s]) + 1 /\ Len(told'[s]) = Len(told[s]) + 1
      /\ \A i \in 1 .. Len(told[s]) : told'[s][i] = told[s][i]
      /\ told'[s][Len(told[s]) + 1] = w
      /\ \A k : /\ w[1] # k => Told(s, k)' = Told(s, k)
                /\ w[1] = k => Told(s, k)' = Told(s, k) \cup {Len(told[s]) + 1}
      /\ w[1] # "out" => Sent(s)' = Sent(s)
      /\ w[1] = "out" => Sent(s)' = Sent(s) \cup {w[2]}
  BY ToldAppend
<1>2. /\ told[s][1] = <<"attached", flows[s].from>>
      /\ \A i, j \in Told(s, "out") : i < j => told[s][i][2] < told[s][j][2]
      /\ \A n \in Sent(s) : n >= First(s) /\ First(s) .. n \subseteq Sent(s)
      /\ \A i \in 1 .. Len(told[s]) - 1 : told[s][i][1] \in {"over", "done"} => told[s][i + 1][1] = "done"
  BY DEF Whole
<1>3. First(s)' = First(s) /\ First(s) \in Int
  <2>1. flows[s] \in Flows
    BY DEF Shape, Streams
  <2>. QED  BY <2>1 DEF First, Flows
<1>4. 1 \in 1 .. Len(told[s])
  <2>1. told[s] \in Seq(Words)
    BY DEF Shape, Streams
  <2>. QED  BY <2>1
<1>5. told'[s][1] = <<"attached", flows'[s].from>>
  BY <1>1, <1>2, <1>4
<1>6. Told(s, "out") \subseteq 1 .. Len(told[s]) /\ \A i \in Told(s, "out") : told[s][i][2] \in Sent(s)
  BY <1>1 DEF Told, Sent
<1>7. w[1] = "out" => w[2] \in Int
  BY DEF Words
<1>8. ASSUME NEW i \in Told(s, "out")', NEW j \in Told(s, "out")', i < j
      PROVE  told'[s][i][2] < told'[s][j][2]
  <2>1. CASE w[1] # "out"
    <3>1. i \in Told(s, "out") /\ j \in Told(s, "out")
      BY <1>1, <1>8, <2>1
    <3>2. told'[s][i] = told[s][i] /\ told'[s][j] = told[s][j]
      BY <1>1, <1>6, <3>1
    <3>. QED  BY <1>2, <1>8, <3>1, <3>2
  <2>2. CASE w[1] = "out"
    <3>1. Told(s, "out")' = Told(s, "out") \cup {Len(told[s]) + 1}
      BY <1>1, <2>2
    <3>2. i \in Told(s, "out")
      BY <1>1, <1>6, <1>8, <3>1
    <3>3. CASE j \in Told(s, "out")
      <4>1. told'[s][i] = told[s][i] /\ told'[s][j] = told[s][j]
        BY <1>1, <1>6, <3>2, <3>3
      <4>. QED  BY <1>2, <1>8, <3>2, <3>3, <4>1
    <3>4. CASE j = Len(told[s]) + 1
      <4>1. told'[s][i] = told[s][i] /\ told'[s][j] = w /\ told[s][i][2] \in Sent(s)
        BY <1>1, <1>6, <3>2, <3>4
      <4>2. told[s][i][2] \in First(s) .. w[2] - 1
        BY <2>2, <4>1
      <4>3. told[s][i][2] < w[2]
        BY <1>3, <1>7, <2>2, <4>2
      <4>. QED  BY <4>1, <4>3
    <3>. QED  BY <1>8, <3>1, <3>3, <3>4
  <2>. QED  BY <2>1, <2>2
<1>9. ASSUME NEW n \in Sent(s)' PROVE n >= First(s) /\ First(s) .. n \subseteq Sent(s)'
  <2>1. CASE w[1] # "out"
    BY <1>1, <1>2, <1>9, <2>1
  <2>2. CASE w[1] = "out"
    <3>1. Sent(s)' = (First(s) .. w[2] - 1) \cup {w[2]}
      BY <1>1, <2>2
    <3>2. w[2] \in Int /\ w[2] >= First(s)
      BY <1>7, <2>2
    <3>3. Sent(s)' = First(s) .. w[2]
      BY <1>3, <3>1, <3>2
    <3>. QED  BY <1>3, <1>9, <3>2, <3>3
  <2>. QED  BY <2>1, <2>2
<1>10. ASSUME NEW i \in 1 .. Len(told[s]), told'[s][i][1] \in {"over", "done"}
       PROVE  told'[s][i + 1][1] = "done"
  <2>1. told[s][i] = told'[s][i] /\ i \in DOMAIN told[s]
    BY <1>1, <1>10
  <2>2. i \in Told(s, "over") \/ i \in Told(s, "done")
    BY <1>10, <2>1 DEF Told
  <2>3. w[1] = "done"
    BY <2>2
  <2>4. CASE i = Len(told[s])
    BY <1>1, <2>3, <2>4
  <2>5. CASE i # Len(told[s])
    <3>1. i \in 1 .. Len(told[s]) - 1 /\ i + 1 \in 1 .. Len(told[s])
      BY <1>1, <2>5
    <3>. QED  BY <1>1, <1>2, <1>10, <2>1, <3>1
  <2>. QED  BY <2>4, <2>5
<1>11. Len(told'[s]) - 1 = Len(told[s])
  BY <1>1
<1>. QED  BY <1>3, <1>5, <1>8, <1>9, <1>10, <1>11 DEF Whole

\* What a reply starts is whole, and goes up to what was held back when there was room for it.
LEMMA ReplyWhole ==
    ASSUME IInv, [Next]_vars, SinksInv, ReadyInv, NEW x \in Channels, NEW who, Replying(x, who), NEW s, s = work[x]
    PROVE  /\ First(s)' = First(s) /\ First(s) \in Int /\ told'[s] # <<>> /\ Len(flows[s].held) \in Nat
           /\ \E n \in 0 .. Len(flows[s].held) :
                 /\ s \in watchers' => n = Len(flows[s].held)
                 /\ Sent(s)' = First(s) .. First(s) + n - 1
           /\ Told(s, "control")' = {2} /\ told'[s][2] = <<"control", who>>
           /\ s \in watchers' => Told(s, "over")' = {} /\ Told(s, "done")' = {}
           /\ Whole(s)'
<1>1. /\ s \in Streams /\ FlowIs(s, flows[s].start, flows[s].from, <<>>, TRUE, flows[s].controller, s \notin watchers')
      /\ RepliesSo(s, who)
  BY ReplyingIs
<1>2. flows[s] \in Flows
  BY <1>1 DEF IInv, Shape, Streams
<1>3. First(s)' = First(s) /\ First(s) \in Int /\ Len(flows[s].held) \in Nat /\ flows'[s].from = flows[s].from
  BY <1>1, <1>2 DEF First, FlowIs, Flows
<1>4. PICK n \in 0 .. Len(flows[s].held) :
            /\ s \in watchers' => n = Len(flows[s].held) /\ DOMAIN told'[s] = 1 .. n + 2
            /\ s \notin watchers' => DOMAIN told'[s] = 1 .. n + 3 /\ told'[s][n + 3] = <<"over", 0>>
            /\ told'[s][1] = <<"attached", flows[s].from>> /\ told'[s][2] = <<"control", who>>
            /\ \A i \in 1 .. n : told'[s][i + 2] = <<"out", First(s) + i - 1>>
  BY <1>1 DEF RepliesSo
<1>5. n \in Nat
  BY <1>3, <1>4
<1>6. ASSUME NEW i \in DOMAIN told'[s]
      PROVE  /\ i \in Nat \ {0}
             /\ \/ i = 1 /\ told'[s][i] = <<"attached", flows[s].from>>
                \/ i = 2 /\ told'[s][i] = <<"control", who>>
                \/ i \in 3 .. n + 2 /\ told'[s][i] = <<"out", First(s) + i - 3>>
                \/ i = n + 3 /\ told'[s][i] = <<"over", 0>> /\ s \notin watchers'
  <2>1. i \in Int /\ (i = 1 \/ i = 2 \/ i \in 3 .. n + 2 \/ (i = n + 3 /\ s \notin watchers'))
    BY <1>4, <1>5, <1>6
  <2>2. CASE i \in 3 .. n + 2
    <3>1. i - 2 \in 1 .. n /\ (i - 2) + 2 = i
      BY <1>5, <2>2
    <3>2. told'[s][i] = <<"out", First(s) + (i - 2) - 1>>
      BY <1>4, <3>1
    <3>3. First(s) + (i - 2) - 1 = First(s) + i - 3 /\ i \in Nat \ {0}
      BY <1>3, <1>5, <2>2
    <3>. QED  BY <2>2, <3>2, <3>3
  <2>. QED  BY <1>4, <1>5, <2>1, <2>2
<1>7. 1 .. n + 2 \subseteq DOMAIN told'[s] /\ 1 \in 1 .. n + 2 /\ 2 \in 1 .. n + 2
  BY <1>4, <1>5
<1>8. told'[s] # <<>>
  <2>1. DOMAIN <<>> = {} /\ 1 \in DOMAIN told'[s]
    BY <1>7
  <2>. QED  BY <2>1
<1>9. Told(s, "out")' = 3 .. n + 2
  <2>1. \A i \in DOMAIN told'[s] : told'[s][i][1] = "out" => i \in 3 .. n + 2
    BY <1>6
  <2>2. \A i \in 3 .. n + 2 : i \in DOMAIN told'[s] /\ told'[s][i][1] = "out"
    <3>1. \A i \in 3 .. n + 2 : i \in 1 .. n + 2 /\ i # 1 /\ i # 2 /\ i # n + 3
      BY <1>5
    <3>. QED  BY <1>6, <1>7, <3>1
  <2>. QED  BY <2>1, <2>2 DEF Told
<1>10. \A i \in 3 .. n + 2 : told'[s][i][2] = First(s) + i - 3
  <2>1. \A i \in 3 .. n + 2 : i \in 1 .. n + 2 /\ i # 1 /\ i # 2 /\ i # n + 3
    BY <1>5
  <2>2. \A i \in 3 .. n + 2 : told'[s][i] = <<"out", First(s) + i - 3>>
    BY <1>6, <1>7, <2>1
  <2>. QED  BY <2>2
<1>11. Sent(s)' = First(s) .. First(s) + n - 1
  <2>1. Sent(s)' = {told'[s][i][2] : i \in 3 .. n + 2}
    BY <1>9 DEF Sent
  <2>2. \A i \in 3 .. n + 2 : told'[s][i][2] \in First(s) .. First(s) + n - 1
    <3>1. \A i \in 3 .. n + 2 : First(s) + i - 3 \in First(s) .. First(s) + n - 1
      BY <1>3, <1>5
    <3>. QED  BY <1>10, <3>1
  <2>3. ASSUME NEW m \in First(s) .. First(s) + n - 1
        PROVE  \E i \in 3 .. n + 2 : told'[s][i][2] = m
    <3>1. m - First(s) + 3 \in 3 .. n + 2 /\ First(s) + (m - First(s) + 3) - 3 = m
      BY <1>3, <1>5
    <3>. QED  BY <1>10, <3>1
  <2>. QED  BY <2>1, <2>2, <2>3, SMTT(30)
<1>12. Told(s, "control")' = {2}
  <2>1. \A i \in DOMAIN told'[s] : told'[s][i][1] = "control" => i = 2
    BY <1>6
  <2>2. 2 \in DOMAIN told'[s] /\ told'[s][2][1] = "control"
    BY <1>4, <1>7
  <2>. QED  BY <2>1, <2>2 DEF Told
<1>13. s \in watchers' => Told(s, "over")' = {} /\ Told(s, "done")' = {}
  BY <1>6 DEF Told
<1>14. Whole(s)'
  <2>1. \A i, j \in 3 .. n + 2 : i < j => told'[s][i][2] < told'[s][j][2]
    <3>1. \A i, j \in 3 .. n + 2 : i < j => First(s) + i - 3 < First(s) + j - 3
      BY <1>3, <1>5
    <3>. QED  BY <1>10, <3>1
  <2>2. \A m \in First(s) .. First(s) + n - 1 :
            m >= First(s) /\ First(s) .. m \subseteq First(s) .. First(s) + n - 1
    BY <1>3, <1>5
  <2>3. ASSUME NEW i \in 1 .. Len(told'[s]) - 1 PROVE told'[s][i][1] \notin {"over", "done"}
    <3>1. told'[s] \in Seq(Words)
      <4>1. IInv' /\ s \in Streams'
        BY <1>1, ReplyingIs, InvariantNext
      <4>. QED  BY <4>1 DEF IInv, Shape, Streams
    <3>2. DOMAIN told'[s] = 1 .. Len(told'[s]) /\ Len(told'[s]) \in Nat
      BY <3>1
    <3>3. Len(told'[s]) <= n + 3
      BY <1>4, <1>5, <3>2
    <3>4. i \in DOMAIN told'[s] /\ i # n + 3
      BY <1>5, <3>2, <3>3
    <3>. QED  BY <1>6, <3>4
  <2>. QED  BY <1>3, <1>4, <1>9, <1>11, <2>1, <2>2, <2>3 DEF Whole
<1>. QED  BY <1>3, <1>4, <1>8, <1>11, <1>12, <1>13, <1>14

---------------------------------------------------------------------------
\* What a sink has made of its stream is kept by every step

\* Only a stream that is asked for gets a sink.
LEMMA WatchersOld == ASSUME IInv, SinkStep, NEW s \in Streams, s \in watchers' PROVE s \in watchers
<1>1. Len(flows) + 1 \notin Streams
  BY OfIs DEF IInv
<1>2. CASE Feeding \/ Passing \/ Beginning \/ Ending \/ Granting \/ Printing \/ Announcing \/ Still
  BY <1>2 DEF Feeding, Passing, Beginning, Ending, Granting, Printing, Announcing, Serving, Still
<1>3. ASSUME NEW x \in Channels, Opening(x) PROVE s \in watchers
  BY <1>1, <1>3 DEF Opening
<1>4. ASSUME NEW x \in Channels,
             (\E who : Replying(x, who)) \/ Wondering(x) \/ (\E z \in Streams : Leaving(x, z))
             \/ Parting(x) \/ Abandoning(x) \/ Otherwise(x)
      PROVE  watchers' \subseteq watchers
  BY <1>4 DEF Replying, Wondering, Leaving, Parting, Abandoning, Otherwise, Still
<1>. QED  BY <1>2, <1>3, <1>4 DEF SinkStep

\* A stream that is left alone.
LEMMA SunkSame ==
    ASSUME NEW s, flows'[s] = flows[s], told'[s] = told[s], s \in watchers' => s \in watchers, Sunk(s)
    PROVE  Sunk(s)'
<1>1. (\A k : Told(s, k)' = Told(s, k)) /\ Sent(s)' = Sent(s) /\ First(s)' = First(s)
  BY DEF Told, Sent, First
<1>2. Whole(s) => Whole(s)'
  <2>1. SUFFICES ASSUME Whole(s) PROVE Whole(s)'
    OBVIOUS
  <2>2. Told(s, "out")' = Told(s, "out")
    BY <1>1
  <2>. QED  BY <1>1, <2>1, <2>2 DEF Whole
<1>3. Told(s, "over")' = Told(s, "over") /\ Told(s, "done")' = Told(s, "done")
  BY <1>1
<1>. QED  BY <1>1, <1>2, <1>3 DEF Sunk

\* One whose reply goes.
LEMMA SunkReplying ==
    ASSUME IInv, [Next]_vars, SinksInv, ReadyInv, NEW x \in Channels, NEW who, Replying(x, who), NEW s, s = work[x]
    PROVE  Sunk(s)'
<1>1. /\ s \in Streams /\ Ready(s)
      /\ FlowIs(s, flows[s].start, flows[s].from, <<>>, TRUE, flows[s].controller, s \notin watchers')
  BY ReplyingIs
<1>2. /\ told'[s] # <<>> /\ (s \in watchers' => Told(s, "over")' = {} /\ Told(s, "done")' = {})
      /\ Whole(s)'
  BY ReplyWhole
<1>3. /\ flows'[s].replied = TRUE /\ flows'[s].start # None /\ flows'[s].over = (s \notin watchers')
      /\ flows'[s].held = <<>>
  BY <1>1 DEF FlowIs, Ready
<1>. QED  BY <1>2, <1>3 DEF Sunk

\* One that is parted with.
LEMMA SunkParting ==
    ASSUME IInv, SinksInv, ReadyInv, NEW x \in Channels, Parting(x), NEW s, s = work[x]
    PROVE  Sunk(s)'
<1>1. /\ s \in Streams /\ DOMAIN told = Streams /\ flows' = flows /\ watchers' = watchers
      /\ told' = [told EXCEPT ![s] = Append(@, <<"done", 0>>)]
  BY DEF IInv, Shape, StreamsInv, Streams, WorkOurs, Parting
<1>2. told'[s] = Append(told[s], <<"done", 0>>) /\ <<"done", 0>> \in Words
  BY <1>1 DEF Words
<1>3. s \notin watchers /\ told[s] # <<>> /\ Sunk(s)
  BY <1>1 DEF ReadyInv, Parting, SinksInv
<1>4. told'[s] # <<>>
  BY <1>1, <1>2, ToldAppend DEF IInv
<1>5. Whole(s)'
  BY <1>1, <1>2, <1>3, WholeAppend DEF IInv, Sunk
<1>6. First(s)' = First(s)
  BY <1>1 DEF First
<1>. QED  BY <1>1, <1>3, <1>4, <1>5, <1>6 DEF Sunk

\* A new one.
LEMMA SunkOpening == ASSUME IInv, NEW x \in Channels, Opening(x), NEW s, s = Len(flows) + 1 PROVE Sunk(s)'
<1>1. flows'[s] = NewFlow(x) /\ told'[s] = <<>>
  BY OpenedIs DEF IInv
<1>2. /\ flows'[s].replied = FALSE /\ flows'[s].over = FALSE /\ flows'[s].start = None /\ flows'[s].held = <<>>
      /\ DOMAIN flows'[s].held = {} /\ DOMAIN told'[s] = {}
  BY <1>1 DEF NewFlow
<1>3. Told(s, "over")' = {} /\ Told(s, "done")' = {} /\ Whole(s)'
  BY <1>1, <1>2 DEF Told, Whole
<1>. QED  BY <1>1, <1>2, <1>3 DEF Sunk

\* One that is fed.
LEMMA SunkFeeding ==
    ASSUME IInv, BeginInv, SinksInv, FedInv, Feeding, NEW s, s = Head(wire).s
    PROVE  Sunk(s)'
<1>. DEFINE item == Head(wire).item
<1>1. /\ s \in Streams /\ s \in watchers /\ item \in Items
      /\ \/ Resumed(s, item) \/ Shown(s, item) \/ Noted(s, item) \/ HeldBack(s, item)
         \/ SaidOn(s, item) \/ PassedOn(s, item) \/ Overrun(s, item)
  BY FeedingIs
<1>2. Sunk(s) /\ flows[s] \in Flows /\ Shape
  <2>1. Shape
    BY DEF IInv
  <2>2. flows[s] \in Flows
    BY <1>1, <2>1 DEF Shape, Streams
  <2>. QED  BY <1>1, <2>1, <2>2 DEF SinksInv
<1>3. flows[s].held \in Seq(Outputs) /\ Len(flows[s].held) \in Nat /\ First(s) \in Int
  BY <1>2 DEF Flows, First
<1>. HIDE DEF item
<1>4. ASSUME told'[s] = <<>>, ~ flows'[s].replied, ~ flows'[s].over, flows'[s].start = None => flows'[s].held = <<>>,
             \A i \in DOMAIN flows'[s].held : flows'[s].held[i].n = First(s)' + i - 1
      PROVE  Sunk(s)'
  <2>1. DOMAIN told'[s] = {}
    BY <1>4
  <2>2. Told(s, "over")' = {} /\ Told(s, "done")' = {} /\ Whole(s)'
    BY <1>4, <2>1 DEF Told, Whole
  <2>. QED  BY <1>4, <2>2 DEF Sunk
<1>5. CASE Resumed(s, item)
  <2>1. /\ told'[s] = <<>> /\ ~ flows'[s].replied /\ ~ flows'[s].over /\ flows'[s].held = <<>>
        /\ DOMAIN flows'[s].held = {}
    BY <1>5 DEF Resumed, FlowIs
  <2>. QED  BY <1>4, <2>1
<1>6. CASE Shown(s, item)
  <2>1. /\ told'[s] = <<>> /\ ~ flows'[s].replied /\ ~ flows'[s].over /\ flows'[s].held = <<item>>
        /\ flows'[s].start = "snapshot" /\ flows'[s].from = item.n
    BY <1>6 DEF Shown, FlowIs
  <2>2. First(s)' = item.n /\ item.n \in Int
    BY <1>1, <1>6, <2>1 DEF First, Shown, Items, Outputs
  <2>3. \A i \in DOMAIN flows'[s].held : i = 1 /\ flows'[s].held[i] = item
    BY <2>1
  <2>4. \A i \in DOMAIN flows'[s].held : flows'[s].held[i].n = First(s)' + i - 1
    BY <2>2, <2>3
  <2>. QED  BY <1>4, <2>1, <2>4 DEF None
<1>7. CASE Noted(s, item)
  <2>1. /\ told'[s] = <<>> /\ ~ flows'[s].replied /\ ~ flows'[s].over /\ flows'[s].held = flows[s].held
        /\ flows'[s].start = flows[s].start /\ flows'[s].from = flows[s].from /\ ~ flows[s].replied
    BY <1>7 DEF Noted, FlowIs
  <2>2. First(s)' = First(s)
    BY <2>1 DEF First
  <2>. QED  BY <1>2, <1>4, <2>1, <2>2 DEF Sunk
<1>8. CASE HeldBack(s, item)
  <2>1. /\ told'[s] = <<>> /\ ~ flows'[s].replied /\ ~ flows'[s].over
        /\ flows'[s].held = Append(flows[s].held, item)
        /\ flows'[s].start = flows[s].start /\ flows'[s].from = flows[s].from /\ ~ flows[s].replied
        /\ flows[s].start # None /\ item.n = First(s) + Len(flows[s].held) /\ item.k = "out"
    BY <1>8 DEF HeldBack, FlowIs
  <2>2. First(s)' = First(s)
    BY <2>1 DEF First
  <2>3. item \in Outputs
    BY <1>1, <2>1 DEF Items, Outputs
  <2>. DEFINE n == Len(flows[s].held)
              h == flows[s].held
  <2>4. /\ DOMAIN Append(h, item) = 1 .. n + 1 /\ Append(h, item)[n + 1] = item /\ DOMAIN h = 1 .. n
        /\ \A i \in 1 .. n : Append(h, item)[i] = h[i]
    BY <1>3, <2>3, AppendIs
  <2>5. \A i \in 1 .. n : h[i].n = First(s) + i - 1
    BY <1>2, <2>1, <2>4 DEF Sunk
  <2>6. ASSUME NEW i \in DOMAIN flows'[s].held PROVE flows'[s].held[i].n = First(s)' + i - 1
    <3>1. i \in 1 .. n + 1 /\ flows'[s].held[i] = Append(h, item)[i]
      BY <2>1, <2>4, <2>6
    <3>2. CASE i \in 1 .. n
      BY <2>2, <2>4, <2>5, <3>1, <3>2
    <3>3. CASE i = n + 1
      <4>1. First(s) + n = First(s) + (n + 1) - 1
        BY <1>3
      <4>. QED  BY <2>1, <2>2, <2>4, <3>1, <3>3, <4>1
    <3>. QED  BY <1>3, <3>1, <3>2, <3>3
  <2>. QED  BY <1>4, <2>1, <2>6
<1>9. ASSUME NEW w \in Words, told'[s] = Append(told[s], w), flows[s].replied, flows'[s].replied,
             flows'[s].start = flows[s].start, flows'[s].from = flows[s].from, flows'[s].held = flows[s].held,
             w[1] = "out" => Sent(s) = First(s) .. w[2] - 1 /\ w[2] >= First(s),
             s \in watchers' => w[1] \in {"control", "out"} /\ ~ flows'[s].over
      PROVE  Sunk(s)'
  <2>1. told[s] # <<>> /\ Told(s, "over") = {} /\ Told(s, "done") = {} /\ Whole(s)
    BY <1>1, <1>2, <1>9 DEF Sunk
  <2>2. Whole(s)'
    BY <1>1, <1>2, <1>9, <2>1, WholeAppend
  <2>3. /\ told'[s] # <<>>
        /\ \A k : w[1] # k => Told(s, k)' = Told(s, k)
    BY <1>1, <1>2, <1>9, ToldAppend
  <2>4. s \in watchers' => Told(s, "over")' = {} /\ Told(s, "done")' = {}
    BY <1>9, <2>1, <2>3
  <2>. QED  BY <1>2, <1>9, <2>2, <2>3, <2>4 DEF Sunk
<1>10. CASE SaidOn(s, item)
  <2>1. <<"control", item.who>> \in Words
    BY <1>1, <1>10 DEF SaidOn, Items, Outputs, Words
  <2>. QED  BY <1>1, <1>2, <1>9, <1>10, <2>1 DEF SaidOn, Sunk
<1>11. CASE PassedOn(s, item)
  <2>1. <<"out", item.n>> \in Words
    BY <1>1, <1>11 DEF PassedOn, Items, Outputs, Words
  <2>. QED  BY <1>1, <1>2, <1>9, <1>11, <2>1 DEF PassedOn, Sunk
<1>12. CASE Overrun(s, item)
  <2>1. <<"over", 0>> \in Words
    BY DEF Words
  <2>. QED  BY <1>9, <1>12, <2>1 DEF Overrun, FlowIs
<1>. QED  BY <1>1, <1>5, <1>6, <1>7, <1>8, <1>10, <1>11, <1>12 DEF item

\* Each step.
LEMMA SunkNext == ASSUME IInv, [Next]_vars, BeginInv, SinksInv, FedInv, ReadyInv PROVE SinksInv'
<1>1. SinkStep
  BY SinkSteps
<1>2. /\ Streams \subseteq Streams'
      /\ \A s \in Streams' : Touches(s) \/ (s \in Streams /\ flows'[s] = flows[s] /\ told'[s] = told[s])
  BY <1>1, TouchesOne
<1>3. ASSUME NEW s \in Streams', Touches(s) PROVE Sunk(s)'
  <2>1. CASE Feeding /\ s = Head(wire).s
    BY <2>1, SunkFeeding
  <2>2. ASSUME NEW x \in Channels, s = work[x], Parting(x) PROVE Sunk(s)'
    BY <2>2, SunkParting
  <2>3. ASSUME NEW x \in Channels, s = work[x], NEW who, Replying(x, who) PROVE Sunk(s)'
    BY <2>3, SunkReplying
  <2>4. ASSUME NEW x \in Channels, s = Len(flows) + 1, Opening(x) PROVE Sunk(s)'
    BY <2>4, SunkOpening
  <2>. QED  BY <1>3, <2>1, <2>2, <2>3, <2>4 DEF Touches
<1>4. ASSUME NEW s \in Streams, flows'[s] = flows[s], told'[s] = told[s] PROVE Sunk(s)'
  BY <1>1, <1>4, WatchersOld, SunkSame DEF SinksInv
<1>. QED  BY <1>2, <1>3, <1>4 DEF SinksInv

---------------------------------------------------------------------------
\* What is on its way to a sink is kept by every step

\* A stream that was asked for has been, once its request is carried out.
LEMMA ServedStays ==
    ASSUME IInv, SinkStep, NEW s \in Streams, Served(s)'
    PROVE  Served(s) \/ (Beginning /\ Head(asked).op.s = s)
<1>1. CASE /\ asked # <<>> /\ asked' = Tail(asked) /\ Head(asked) = asked[1]
           /\ \A i \in DOMAIN asked : i # 1 => i - 1 \in DOMAIN asked' /\ asked'[i - 1] = asked[i]
  <2>1. Beginning \/ Ending \/ Granting
    <3>1. asked \in Seq(Requests)
      BY DEF IInv, Shape
    <3>2. Len(asked') = Len(asked) - 1 /\ Len(asked) \in Nat
      BY <1>1, <3>1, TailIs
    <3>3. asked' # asked
      BY <3>2
    <3>4. ASSUME NEW x \in Channels, NEW op, Asks(x, op) PROVE FALSE
      <4>1. \E r : asked' = Append(asked, r)
        BY <3>4 DEF Asks
      <4>2. PICK r : asked' = Append(asked, r)
        BY <4>1
      <4>3. Len(asked') = Len(asked) + 1
        BY <3>1, <4>2
      <4>. QED  BY <3>2, <4>3
    <3>5. ASSUME NEW x \in Channels,
                 Opening(x) \/ (\E who : Replying(x, who)) \/ Wondering(x) \/ (\E z \in Streams : Leaving(x, z))
                 \/ Parting(x) \/ Abandoning(x) \/ Otherwise(x)
          PROVE  FALSE
      BY <3>3, <3>4, <3>5 DEF Opening, Replying, Wondering, Leaving, Parting, Abandoning, Otherwise, NoAsk
    <3>. QED  BY <3>3, <3>5 DEF SinkStep, Feeding, Passing, Printing, Announcing
  <2>2. CASE Ending \/ Granting
    <3>1. ~ Watches(asked[1], s)
      BY <1>1, <2>2 DEF Ending, Granting, Watches
    <3>. QED  BY <1>1, <3>1 DEF Served
  <2>3. CASE Beginning /\ Head(asked).op.s # s
    <3>1. ~ Watches(asked[1], s)
      BY <1>1, <2>3 DEF Watches
    <3>. QED  BY <1>1, <3>1 DEF Served
  <2>. QED  BY <2>1, <2>2, <2>3
<1>2. CASE \A i \in DOMAIN asked : i \in DOMAIN asked' /\ asked'[i] = asked[i]
  BY <1>2 DEF Served
<1>. QED  BY <1>1, <1>2, AsksOne

\* Only the reader and the daemon change what is on its way to a sink, and the daemon stays with it.
LEMMA TrafficKept ==
    ASSUME IInv, [Next]_vars, BeginInv, NEW s \in watchers, Served(s)
    PROVE  /\ s \in viewers => s \in viewers'
           /\ \/ Printing
              \/ Feeding /\ Head(wire).s = s /\ Head(wire).item.k # "control"
              \/ SameMoves(s) /\ seq' = seq
           /\ \/ Feeding /\ Head(wire).s = s /\ Head(wire).item.k = "control"
              \/ (Granting \/ Announcing) /\ control.who # control'.who
              \/ SameNames(s) /\ control'.who = control.who
           /\ protocol' = protocol
<1>0. Shape /\ SinkStep
  BY SinkSteps DEF IInv
<1>1. CASE Feeding
  <2>1. Taking /\ UNCHANGED <<viewers, seq, control, protocol>> /\ Head(wire) = wire[1]
    BY <1>0, <1>1, TakenOff DEF Feeding, Standing, Taking
  <2>2. ~ (Head(wire).s = s /\ Head(wire).item.k # "control") => ~ Moves(1, s)
    BY <2>1 DEF Moves, Mine
  <2>3. ~ (Head(wire).s = s /\ Head(wire).item.k = "control") => ~ Names(1, s)
    BY <2>1 DEF Names, Mine
  <2>4. (~ Moves(1, s) => SameMoves(s)) /\ (~ Names(1, s) => SameNames(s))
    BY <2>1, SameTaken
  <2>. QED  BY <1>1, <2>1, <2>2, <2>3, <2>4
<1>2. CASE Passing
  <2>1. Taking /\ UNCHANGED <<viewers, seq, control, protocol>> /\ Head(wire) = wire[1]
    BY <1>0, <1>2, TakenOff DEF Passing, Standing, Taking
  <2>2. ~ Moves(1, s) /\ ~ Names(1, s)
    BY <1>2, <2>1 DEF Moves, Names, Mine, Passing
  <2>. QED  BY <2>1, <2>2, SameTaken
<1>3. CASE Beginning
  <2>1. Watches(asked[1], Head(asked).op.s) /\ asked # <<>>
    BY <1>3, BeginningSays DEF Beginning, Serving
  <2>2. PICK items \in Beginnings(Head(asked).op.s, Head(asked).op.after) :
                 Serving(items, Done) /\ items \in Seq(ItemFrames) /\ Grown(items)
                 /\ \A j \in DOMAIN items : items[j].f = "item" /\ items[j].s = Head(asked).op.s
    BY <1>3, BeginningSays
  <2>3. Head(asked).op.s # s
    <3>1. 1 \in DOMAIN asked
      BY <1>0, <2>1, TailIs DEF Shape
    <3>. QED  BY <2>1, <3>1 DEF Served
  <2>4. SameMoves(s) /\ SameNames(s)
    BY <2>2, <2>3, SameGrown
  <2>. QED  BY <1>3, <2>2, <2>4 DEF Beginning, Serving
<1>4. CASE Ending
  <2>1. Serving(<<>>, Done) /\ control' = control
    BY <1>4 DEF Ending
  <2>2. Grown(<<>>) /\ asked[1] = Head(asked) /\ 1 \in DOMAIN asked /\ Head(asked) \in Requests
    <3>1. Done \in Answers /\ <<>> \in Seq(ItemFrames)
      BY DEF Answers
    <3>. QED  BY <1>0, <2>1, <3>1, ServedGrown
  <2>3. Head(asked).op.s # s
    <3>1. Head(asked).op = [o |-> "detach", s |-> Head(asked).op.s]
      BY <1>4, <2>2 DEF Ending, Requests, Ops
    <3>. QED  BY <2>2, <3>1 DEF BeginInv, Detaches
  <2>4. SameMoves(s) /\ SameNames(s)
    <3>1. DOMAIN <<>> = {}
      OBVIOUS
    <3>. QED  BY <2>2, <3>1, SameGrown
  <2>. QED  BY <1>4, <2>1, <2>3, <2>4 DEF Ending, Serving
<1>5. CASE Granting \/ Announcing
  <2>. DEFINE items == Announced(control, control')
  <2>1. /\ items \in Seq(ItemFrames)
        /\ \A j \in DOMAIN items : items[j].item = [k |-> "control", who |-> control'.who]
        /\ control.who = control'.who => items = <<>>
        /\ wire' = wire \o items => Grown(items)
    BY <1>5, SaidTo
  <2>2. viewers' = viewers /\ seq' = seq /\ protocol' = protocol
    BY <1>5 DEF Granting, Announcing, Serving
  <2>3. Grown(items)
    <3>1. CASE Announcing
      BY <2>1, <3>1 DEF Announcing
    <3>2. CASE Granting
      <4>. HIDE DEF items
      <4>1. PICK a \in Answers : Serving(items, a)
        BY <3>2 DEF Granting, items
      <4>. QED  BY <1>0, <2>1, <4>1, ServedGrown
    <3>. QED  BY <1>5, <3>1, <3>2
  <2>. HIDE DEF items
  <2>4. SameMoves(s)
    <3>1. \A j \in DOMAIN items : items[j].item.k = "control"
      BY <2>1
    <3>. QED  BY <2>3, <3>1, SameGrown
  <2>5. control.who = control'.who => SameNames(s)
    <3>1. SUFFICES ASSUME items = <<>> PROVE SameNames(s)
      BY <2>1
    <3>2. DOMAIN items = {}
      BY <3>1
    <3>. QED  BY <2>3, <3>2, SameGrown
  <2>. QED  BY <1>5, <2>2, <2>4, <2>5
<1>6. CASE Printing
  <2>. DEFINE items == ToAll(Output(seq + 1))
  <2>1. /\ Grown(items) /\ \A j \in DOMAIN items : items[j].item = Output(seq + 1)
    BY <1>6, SaidTo
  <2>2. \A j \in DOMAIN items : items[j].item.k # "control"
    BY <2>1 DEF Output
  <2>. HIDE DEF items
  <2>3. SameNames(s)
    BY <2>1, <2>2, SameGrown
  <2>. QED  BY <1>6, <2>3 DEF Printing
<1>7. ASSUME wire' = wire, UNCHANGED <<viewers, seq, control, protocol>>
      PROVE  SameMoves(s) /\ SameNames(s) /\ seq' = seq /\ control'.who = control.who /\ protocol' = protocol
             /\ (s \in viewers => s \in viewers')
  BY <1>0, <1>7, SameWire
<1>8. ASSUME NEW x \in Channels,
                 Opening(x) \/ (\E who : Replying(x, who)) \/ Wondering(x) \/ (\E z \in Streams : Leaving(x, z))
                 \/ Parting(x) \/ Abandoning(x) \/ Otherwise(x)
      PROVE  wire' = wire /\ UNCHANGED <<viewers, seq, control, protocol>>
  BY <1>8 DEF Opening, Replying, Wondering, Leaving, Parting, Abandoning, Otherwise, NoAsk, Asks, Standing
<1>9. CASE Still /\ Standing /\ Resting /\ UNCHANGED <<asked, wire, pending, answer>>
  BY <1>7, <1>9 DEF Standing
<1>. QED  BY <1>0, <1>1, <1>2, <1>3, <1>4, <1>5, <1>6, <1>7, <1>8, <1>9 DEF SinkStep

\* A sink is fed as it was where what moves it on stays, and its place.
LEMMA FedKept ==
    ASSUME NEW s, SameMoves(s), seq' = seq, s \in viewers', Fed(s), flows'[s].start = flows[s].start,
           \A p \in (0 - 1) .. seq : flows[s].start # None /\ Place(s, p) => Place(s, p)'
    PROVE  Fed(s)'
<1>1. PICK d \in {0, 1} :
        /\ DOMAIN wire \subseteq Int /\ DOMAIN wire' \subseteq Int
        /\ \A i \in DOMAIN wire' : Moves(i, s)' => i + d \in DOMAIN wire /\ wire'[i] = wire[i + d]
        /\ \A i \in DOMAIN wire : Moves(i, s) => i - d \in DOMAIN wire' /\ wire'[i - d] = wire[i]
  BY DEF SameMoves
<1>2. ASSUME NEW i \in DOMAIN wire', Moves(i, s)'
      PROVE  /\ i + d \in DOMAIN wire /\ wire'[i] = wire[i + d] /\ Moves(i + d, s)
             /\ (Numbers(i, s)' => Numbers(i + d, s)) /\ (Begins(i, s)' => Begins(i + d, s))
  BY <1>1, <1>2 DEF Moves, Mine, Numbers, Begins
<1>3. ASSUME NEW i \in DOMAIN wire, Moves(i, s)
      PROVE  /\ i - d \in DOMAIN wire' /\ wire'[i - d] = wire[i]
             /\ (Numbers(i, s) => Numbers(i - d, s)') /\ (Begins(i, s) => Begins(i - d, s)')
  BY <1>1, <1>3 DEF Moves, Mine, Numbers, Begins
<1>4. /\ \A i : (Numbers(i, s) => Moves(i, s)) /\ (Begins(i, s) => Moves(i, s))
      /\ \A i : (Numbers(i, s)' => Moves(i, s)') /\ (Begins(i, s)' => Moves(i, s)')
  BY DEF Moves, Numbers, Begins
<1>5. ASSUME NEW i \in DOMAIN wire', NEW j \in DOMAIN wire', Begins(i, s)', Moves(j, s)' PROVE i <= j
  <2>1. i + d \in DOMAIN wire /\ j + d \in DOMAIN wire /\ Begins(i + d, s) /\ Moves(j + d, s)
    BY <1>2, <1>4, <1>5
  <2>2. i + d <= j + d
    BY <2>1 DEF Fed
  <2>. QED  BY <1>1, <2>2
<1>6. ASSUME NEW i \in DOMAIN wire', Begins(i, s)' PROVE flows'[s].start = None
  BY <1>2, <1>4, <1>6 DEF Fed
<1>7. ASSUME NEW i \in DOMAIN wire', NEW j \in DOMAIN wire', i < j, Numbers(i, s)', Numbers(j, s)'
      PROVE  wire'[i].item.n < wire'[j].item.n
  <2>1. /\ i + d \in DOMAIN wire /\ j + d \in DOMAIN wire /\ Numbers(i + d, s) /\ Numbers(j + d, s)
        /\ wire'[i] = wire[i + d] /\ wire'[j] = wire[j + d]
    BY <1>2, <1>4, <1>7
  <2>2. i + d < j + d
    BY <1>1, <1>7
  <2>. QED  BY <2>1, <2>2 DEF Fed
<1>8. Left(s)' = Left(s)
  <2>1. ASSUME NEW i \in DOMAIN wire', Numbers(i, s)' PROVE wire'[i].item.n \in Left(s)
    BY <1>2, <1>4, <2>1 DEF Left
  <2>2. ASSUME NEW i \in DOMAIN wire, Numbers(i, s)
        PROVE  \E j \in DOMAIN wire' : Numbers(j, s)' /\ wire[i].item.n = wire'[j].item.n
    BY <1>3, <1>4, <2>2
  <2>3. Left(s)' = {wire'[i].item.n : i \in {j \in DOMAIN wire' : Numbers(j, s)'}}
    BY DEF Left
  <2>4. Left(s) = {wire[i].item.n : i \in {j \in DOMAIN wire : Numbers(j, s)}}
    BY DEF Left
  <2>5. Left(s)' \subseteq Left(s)
    BY <2>1, <2>3
  <2>6. Left(s) \subseteq Left(s)'
    BY <2>2, <2>3, <2>4
  <2>. QED  BY <2>5, <2>6
<1>9. PICK p \in (0 - 1) .. seq : Place(s, p) /\ Left(s) = p + 1 .. seq
  BY DEF Fed
<1>10. Place(s, p)'
  <2>1. CASE flows[s].start # None
    BY <1>9, <2>1
  <2>2. CASE flows[s].start = None
    <3>1. PICK i \in DOMAIN wire :
             /\ Begins(i, s)
             /\ p = IF wire[i].item.k = "snapshot" THEN wire[i].item.n - 1 ELSE wire[i].item.n
      BY <1>9, <2>2 DEF Place
    <3>2. i - d \in DOMAIN wire' /\ wire'[i - d] = wire[i] /\ Begins(i - d, s)'
      BY <1>3, <1>4, <3>1
    <3>. QED  BY <2>2, <3>1, <3>2 DEF Place
  <2>. QED  BY <2>1, <2>2
<1>11. \E q \in (0 - 1) .. seq' : Place(s, q)' /\ Left(s)' = q + 1 .. seq'
  BY <1>8, <1>9, <1>10
<1>. QED  BY <1>5, <1>6, <1>7, <1>11 DEF Fed

\* A sink that took the first frame, from the place it had to the next.
LEMMA FedTaken ==
    ASSUME NEW s, Taking, Mine(1, s), Moves(1, s), Fed(s), seq' = seq, seq \in Nat, s \in viewers',
           NEW p \in (0 - 1) .. seq, Left(s) = p + 1 .. seq, NEW q, Place(s, q)', flows'[s].start # None,
           \/ wire[1].item.k = "resumed" /\ q = p
           \/ Numbers(1, s) /\ wire[1].item.n = p + 1 /\ q = p + 1
    PROVE  Fed(s)'
<1>1. /\ 1 \in DOMAIN wire /\ DOMAIN wire \subseteq Nat \ {0} /\ DOMAIN wire' \subseteq Nat \ {0}
      /\ \A i \in DOMAIN wire' : i + 1 \in DOMAIN wire /\ wire'[i] = wire[i + 1]
      /\ \A i \in DOMAIN wire : i # 1 => i - 1 \in DOMAIN wire' /\ wire'[i - 1] = wire[i]
  BY DEF Taking
<1>2. /\ \A i, j \in DOMAIN wire : Begins(i, s) /\ Moves(j, s) => i <= j
      /\ \A i, j \in DOMAIN wire : i < j /\ Numbers(i, s) /\ Numbers(j, s) => wire[i].item.n < wire[j].item.n
  BY DEF Fed
<1>3. ASSUME NEW i \in DOMAIN wire'
      PROVE  (Numbers(i, s)' => Numbers(i + 1, s)) /\ (Begins(i, s)' => Begins(i + 1, s))
  BY <1>1 DEF Numbers, Begins, Mine
<1>4. ASSUME NEW i \in DOMAIN wire, i # 1, Numbers(i, s) PROVE Numbers(i - 1, s)'
  BY <1>1, <1>4 DEF Numbers, Mine
<1>5. ASSUME NEW i \in DOMAIN wire', Begins(i, s)' PROVE FALSE
  <2>1. i + 1 \in DOMAIN wire /\ Begins(i + 1, s)
    BY <1>1, <1>3, <1>5
  <2>2. i + 1 <= 1
    BY <1>1, <1>2, <2>1
  <2>. QED  BY <1>1, <2>2
<1>6. ASSUME NEW i \in DOMAIN wire', NEW j \in DOMAIN wire', i < j, Numbers(i, s)', Numbers(j, s)'
      PROVE  wire'[i].item.n < wire'[j].item.n
  <2>1. /\ i + 1 \in DOMAIN wire /\ j + 1 \in DOMAIN wire /\ Numbers(i + 1, s) /\ Numbers(j + 1, s)
        /\ wire'[i] = wire[i + 1] /\ wire'[j] = wire[j + 1] /\ i + 1 < j + 1
    BY <1>1, <1>3, <1>6
  <2>. QED  BY <1>2, <2>1
<1>7. /\ \A n : n \in Left(s)' <=> \E i \in DOMAIN wire' : Numbers(i, s)' /\ n = wire'[i].item.n
      /\ \A n : n \in Left(s) <=> \E i \in DOMAIN wire : Numbers(i, s) /\ n = wire[i].item.n
  <2>1. Left(s)' = {wire'[i].item.n : i \in {j \in DOMAIN wire' : Numbers(j, s)'}}
    BY DEF Left
  <2>2. Left(s) = {wire[i].item.n : i \in {j \in DOMAIN wire : Numbers(j, s)}}
    BY DEF Left
  <2>. QED  BY <2>1, <2>2
<1>8. Left(s)' \subseteq Left(s) /\ (Numbers(1, s) => \A n \in Left(s)' : wire[1].item.n < n)
  <2>1. ASSUME NEW i \in DOMAIN wire', Numbers(i, s)'
        PROVE  wire'[i].item.n \in Left(s) /\ (Numbers(1, s) => wire[1].item.n < wire'[i].item.n)
    <3>1. i + 1 \in DOMAIN wire /\ Numbers(i + 1, s) /\ wire'[i] = wire[i + 1] /\ 1 < i + 1
      BY <1>1, <1>3, <2>1
    <3>. QED  BY <1>1, <1>2, <1>7, <3>1
  <2>. QED  BY <1>7, <2>1
<1>9. ASSUME NEW n \in Left(s), Numbers(1, s) => n # wire[1].item.n PROVE n \in Left(s)'
  <2>1. PICK i \in DOMAIN wire : Numbers(i, s) /\ n = wire[i].item.n
    BY <1>7
  <2>2. i # 1
    BY <1>9, <2>1
  <2>. QED  BY <1>1, <1>4, <1>7, <2>1, <2>2
<1>10. q \in (0 - 1) .. seq /\ Left(s)' = q + 1 .. seq
  <2>1. CASE wire[1].item.k = "resumed" /\ q = p
    <3>1. ~ Numbers(1, s)
      BY <2>1 DEF Numbers
    <3>. QED  BY <1>8, <1>9, <2>1, <3>1
  <2>2. CASE Numbers(1, s) /\ wire[1].item.n = p + 1 /\ q = p + 1
    <3>1. p + 1 \in Left(s)
      BY <1>1, <1>7, <2>2
    <3>2. q \in (0 - 1) .. seq
      BY <2>2, <3>1
    <3>3. Left(s)' \subseteq q + 1 .. seq
      BY <1>8, <2>2
    <3>4. q + 1 .. seq \subseteq Left(s)'
      <4>1. \A n \in q + 1 .. seq : n \in Left(s) /\ n # p + 1
        BY <2>2
      <4>. QED  BY <1>9, <2>2, <4>1
    <3>. QED  BY <3>2, <3>3, <3>4
  <2>. QED  BY <2>1, <2>2
<1>. QED  BY <1>5, <1>6, <1>10 DEF Fed

\* A sink that is fed.
LEMMA FedFeeding ==
    ASSUME IInv, BeginInv, SinksInv, FedInv, Feeding, NEW s, s = Head(wire).s, s \in watchers',
           NEW item, item = Head(wire).item
    PROVE  Fed(s)'
<1>1. /\ Taking /\ s \in Streams /\ s \in watchers /\ Fed(s) /\ Mine(1, s) /\ wire[1].item = item /\ item \in Items
      /\ item.k # "control" => \E p \in (0 - 1) .. seq :
            /\ Place(s, p) /\ Left(s) = p + 1 .. seq
            /\ item.k = "snapshot" => item.n = p + 1
            /\ item.k = "resumed" => item.n = p
            /\ item.k = "out" => item.n = p + 1
      /\ \/ Resumed(s, item) \/ Shown(s, item) \/ Noted(s, item) \/ HeldBack(s, item)
         \/ SaidOn(s, item) \/ PassedOn(s, item) \/ Overrun(s, item)
  BY FeedingIs
<1>2. Shape /\ flows[s] \in Flows /\ seq \in Nat /\ seq' = seq /\ s \in viewers'
  <2>1. flows[s] \in Flows /\ seq \in Nat /\ Shape
    <3>1. Shape /\ seq \in 0 .. MaxSeq
      BY DEF IInv, Shape
    <3>2. flows[s] \in Flows
      BY <1>1, <3>1 DEF Shape, Streams
    <3>. QED  BY <3>1, <3>2, BoundsAssumption
  <2>2. seq' = seq /\ viewers' = viewers /\ s \in viewers
    BY <1>1 DEF Feeding, Standing, Fed
  <2>. QED  BY <2>1, <2>2
<1>3. First(s) \in Int /\ flows[s].held \in Seq(Outputs) /\ Len(flows[s].held) \in Nat
  BY <1>2 DEF First, Flows
<1>4. ASSUME item.k # "control", NEW q, Place(s, q)', flows'[s].start # None,
             \/ item.k = "resumed" /\ q = item.n
             \/ item.k \in {"snapshot", "out"} /\ q = item.n
      PROVE  Fed(s)'
  <2>1. PICK p \in (0 - 1) .. seq :
            /\ Left(s) = p + 1 .. seq
            /\ item.k = "snapshot" => item.n = p + 1
            /\ item.k = "resumed" => item.n = p
            /\ item.k = "out" => item.n = p + 1
    BY <1>1, <1>4
  <2>2. Moves(1, s)
    BY <1>1, <1>4 DEF Moves
  <2>3. \/ wire[1].item.k = "resumed" /\ q = p
        \/ Numbers(1, s) /\ wire[1].item.n = p + 1 /\ q = p + 1
    BY <1>1, <1>4, <2>1 DEF Numbers
  <2>. QED  BY <1>1, <1>2, <1>4, <2>1, <2>2, <2>3, FedTaken
<1>5. ASSUME item.k = "control", flows'[s].start = flows[s].start, flows'[s].from = flows[s].from,
             flows'[s].replied = flows[s].replied, flows'[s].held = flows[s].held, Sent(s)' = Sent(s)
      PROVE  Fed(s)'
  <2>1. SameMoves(s)
    BY <1>1, <1>5, SameTaken DEF Moves
  <2>2. First(s)' = First(s)
    BY <1>5 DEF First
  <2>3. ASSUME NEW p \in (0 - 1) .. seq, flows[s].start # None, Place(s, p) PROVE Place(s, p)'
    BY <1>5, <2>2, <2>3 DEF Place
  <2>. QED  BY <1>1, <1>2, <1>5, <2>1, <2>3, FedKept
<1>6. CASE Resumed(s, item)
  <2>1. /\ item.k = "resumed" /\ flows'[s].start = "resumed" /\ flows'[s].from = item.n /\ ~ flows'[s].replied
        /\ flows'[s].held = <<>> /\ item.n \in Int
    BY <1>1, <1>6 DEF Resumed, FlowIs, Items, Outputs
  <2>2. First(s)' = item.n + 1 /\ Len(flows'[s].held) = 0
    BY <2>1 DEF First
  <2>3. item.n = First(s)' + Len(flows'[s].held) - 1
    BY <2>1, <2>2
  <2>4. Place(s, item.n)'
    BY <2>1, <2>3 DEF Place, None
  <2>. QED  BY <1>4, <2>1, <2>4 DEF None
<1>7. CASE Shown(s, item)
  <2>1. /\ item.k = "snapshot" /\ flows'[s].start = "snapshot" /\ flows'[s].from = item.n /\ ~ flows'[s].replied
        /\ flows'[s].held = <<item>> /\ item.n \in Int
    BY <1>1, <1>7 DEF Shown, FlowIs, Items, Outputs
  <2>2. First(s)' = item.n /\ Len(flows'[s].held) = 1
    BY <2>1 DEF First
  <2>3. item.n = First(s)' + Len(flows'[s].held) - 1
    BY <2>1, <2>2
  <2>4. Place(s, item.n)'
    BY <2>1, <2>3 DEF Place, None
  <2>. QED  BY <1>4, <2>1, <2>4 DEF None
<1>8. CASE Noted(s, item)
  <2>1. /\ item.k = "control" /\ flows'[s].start = flows[s].start /\ flows'[s].from = flows[s].from
        /\ ~ flows'[s].replied /\ ~ flows[s].replied /\ flows'[s].held = flows[s].held
        /\ told[s] = <<>> /\ told'[s] = <<>>
    BY <1>8 DEF Noted, FlowIs
  <2>2. flows[s].replied \in BOOLEAN /\ flows'[s].replied = FALSE
    BY <1>2, <1>8 DEF Flows, Noted, FlowIs
  <2>3. Sent(s)' = Sent(s)
    BY <2>1 DEF Sent, Told
  <2>. QED  BY <1>5, <2>1, <2>2, <2>3
<1>9. CASE HeldBack(s, item)
  <2>1. /\ item.k = "out" /\ flows'[s].start = flows[s].start /\ flows'[s].from = flows[s].from
        /\ ~ flows'[s].replied /\ flows'[s].held = Append(flows[s].held, item) /\ flows[s].start # None
        /\ item.n = First(s) + Len(flows[s].held)
    BY <1>9 DEF HeldBack, FlowIs
  <2>2. item \in Outputs
    BY <1>1, <2>1 DEF Items, Outputs
  <2>3. Len(flows'[s].held) = Len(flows[s].held) + 1
    BY <1>3, <2>1, <2>2, AppendIs, SMTT(30)
  <2>4. First(s)' = First(s)
    BY <2>1 DEF First
  <2>5. item.n = First(s)' + Len(flows'[s].held) - 1
    BY <1>3, <2>1, <2>3, <2>4, SMTT(30)
  <2>6. Place(s, item.n)'
    BY <2>1, <2>5 DEF Place
  <2>. QED  BY <1>4, <2>1, <2>6
<1>10. CASE SaidOn(s, item)
  <2>1. <<"control", item.who>> \in Words /\ item.k = "control"
    BY <1>1, <1>10 DEF SaidOn, Items, Outputs, Words
  <2>2. Sent(s)' = Sent(s)
    BY <1>1, <1>2, <1>10, <2>1, ToldAppend DEF SaidOn
  <2>. QED  BY <1>5, <1>10, <2>1, <2>2 DEF SaidOn
<1>11. CASE PassedOn(s, item)
  <2>1. <<"out", item.n>> \in Words /\ item.k = "out" /\ item.n \in Int
    BY <1>1, <1>11 DEF PassedOn, Items, Outputs, Words
  <2>2. /\ flows'[s] = flows[s] /\ told'[s] = Append(told[s], <<"out", item.n>>)
        /\ flows[s].replied /\ Sent(s) = First(s) .. item.n - 1 /\ item.n >= First(s)
    BY <1>11 DEF PassedOn
  <2>3. Sent(s)' = Sent(s) \cup {item.n}
    <3>. DEFINE w == <<"out", item.n>>
    <3>1. w \in Words /\ told'[s] = Append(told[s], w) /\ w[1] = "out" /\ w[2] = item.n
      BY <2>1, <2>2
    <3>. HIDE DEF w
    <3>2. Sent(s)' = Sent(s) \cup {w[2]}
      BY <1>1, <1>2, <3>1, ToldAppend
    <3>. QED  BY <3>1, <3>2
  <2>4. Sent(s)' = First(s) .. item.n /\ First(s)' = First(s)
    <3>1. First(s)' = First(s)
      BY <2>2 DEF First
    <3>2. (First(s) .. item.n - 1) \cup {item.n} = First(s) .. item.n
      BY <1>3, <2>1, <2>2, SMTT(30)
    <3>. QED  BY <2>2, <2>3, <3>1, <3>2
  <2>5. flows'[s].start # None
    BY <1>1, <1>2, <2>2 DEF SinksInv, Sunk
  <2>6. item.n >= First(s)' - 1
    BY <1>3, <2>1, <2>2, <2>4, SMTT(30)
  <2>7. Place(s, item.n)'
    BY <2>2, <2>4, <2>5, <2>6 DEF Place
  <2>. QED  BY <1>4, <2>1, <2>5, <2>7
<1>12. CASE Overrun(s, item)
  BY <1>12 DEF Overrun
<1>. QED  BY <1>1, <1>6, <1>7, <1>8, <1>9, <1>10, <1>11, <1>12

\* One whose reply goes.
LEMMA FedReplying ==
    ASSUME IInv, [Next]_vars, SinksInv, ReadyInv, NEW x \in Channels, NEW who, Replying(x, who), NEW s, s = work[x],
           s \in watchers', Fed(s)
    PROVE  Fed(s)'
<1>1. /\ s \in Streams /\ Ready(s) /\ ~ flows[s].replied
      /\ FlowIs(s, flows[s].start, flows[s].from, <<>>, TRUE, flows[s].controller, s \notin watchers')
  BY ReplyingIs
<1>2. /\ First(s)' = First(s) /\ First(s) \in Int /\ Len(flows[s].held) \in Nat
      /\ Sent(s)' = First(s) .. First(s) + Len(flows[s].held) - 1
  BY ReplyWhole
<1>3. wire' = wire /\ seq' = seq /\ viewers' = viewers /\ Shape
  BY DEF Replying, Standing, Asks, IInv
<1>4. /\ flows'[s].start = flows[s].start /\ flows[s].start # None /\ flows'[s].replied = TRUE
  BY <1>1 DEF FlowIs, Ready
<1>5. ASSUME NEW p \in (0 - 1) .. seq, Place(s, p) PROVE Place(s, p)'
  <2>1. p = First(s) + Len(flows[s].held) - 1
    BY <1>1, <1>4, <1>5 DEF Place
  <2>2. p >= First(s)' - 1 /\ Sent(s)' = First(s)' .. p
    BY <1>2, <2>1
  <2>. QED  BY <1>4, <2>2 DEF Place
<1>6. SameMoves(s)
  BY <1>3, SameWire
<1>. QED  BY <1>3, <1>4, <1>5, <1>6, FedKept DEF Fed

\* One that the program prints to.
LEMMA FedPrinting ==
    ASSUME IInv, [Next]_vars, Printing, NEW s, Fed(s), flows'[s] = flows[s], told'[s] = told[s]
    PROVE  Fed(s)'
<1>. DEFINE items == ToAll(Output(seq + 1))
<1>1. /\ Grown(items)
      /\ \A j \in DOMAIN items : items[j].item = Output(seq + 1)
      /\ \A i, j \in DOMAIN items : items[i].s = items[j].s => i = j
      /\ \A z \in viewers : \E j \in DOMAIN items : items[j] = Item(z, Output(seq + 1))
  BY SaidTo
<1>2. seq \in Nat /\ seq' = seq + 1 /\ viewers' = viewers
  BY BoundsAssumption DEF IInv, Shape, Printing
<1>. HIDE DEF items
<1>3. PICK k \in DOMAIN items : items[k] = Item(s, Output(seq + 1))
  BY <1>1 DEF Fed
<1>20. Len(wire) + k \in Int
  BY <1>1 DEF Grown
<1>21. PICK e \in Int : e = Len(wire) + k
  BY <1>20
<1>4. /\ \A i \in DOMAIN wire : i \in DOMAIN wire' /\ wire'[i] = wire[i] /\ i < e /\ i \in Int
      /\ e \in DOMAIN wire' /\ e \in Int /\ wire'[e] = Item(s, Output(seq + 1))
      /\ \A i \in DOMAIN wire' : i \notin DOMAIN wire /\ Mine(i, s)' => i = e
      /\ DOMAIN wire' \subseteq Int
  <2>1. /\ Len(wire) \in Nat /\ DOMAIN wire = 1 .. Len(wire) /\ DOMAIN wire' \subseteq Int
        /\ \A i \in DOMAIN wire : i \in DOMAIN wire' /\ wire'[i] = wire[i]
        /\ k \in Nat \ {0} /\ e \in DOMAIN wire' /\ wire'[e] = items[k]
    BY <1>1, <1>21 DEF Grown
  <2>2. \A i \in DOMAIN wire : i < e /\ i \in Int
    BY <1>21, <2>1
  <2>3. ASSUME NEW i \in DOMAIN wire', i \notin DOMAIN wire, Mine(i, s)' PROVE i = e
    <3>1. i - Len(wire) \in DOMAIN items /\ wire'[i] = items[i - Len(wire)]
      BY <1>1, <2>3 DEF Grown, Mine
    <3>2. items[k].s = s
      BY <1>3 DEF Item
    <3>3. i - Len(wire) = k
      BY <1>1, <2>3, <3>1, <3>2 DEF Mine
    <3>. QED  BY <1>21, <2>1, <3>3
  <2>. QED  BY <1>3, <2>1, <2>2, <2>3
<1>5. Numbers(e, s)' /\ ~ Begins(e, s)' /\ wire'[e].item.n = seq + 1
  BY <1>4 DEF Numbers, Begins, Mine, Item, Output
<1>6. ASSUME NEW i \in DOMAIN wire
      PROVE  /\ Numbers(i, s)' <=> Numbers(i, s)
             /\ Begins(i, s)' <=> Begins(i, s)
             /\ Moves(i, s)' <=> Moves(i, s)
  BY <1>4 DEF Numbers, Begins, Moves, Mine
<1>7. \A i \in DOMAIN wire' : (Numbers(i, s)' \/ Begins(i, s)' \/ Moves(i, s)') => i = e \/ i \in DOMAIN wire
  BY <1>4 DEF Numbers, Begins, Moves
<1>8. ASSUME NEW i \in DOMAIN wire', NEW j \in DOMAIN wire', Begins(i, s)', Moves(j, s)' PROVE i <= j
  <2>1. i \in DOMAIN wire /\ Begins(i, s) /\ wire'[i] = wire[i] /\ (j = e \/ j \in DOMAIN wire)
    BY <1>4, <1>5, <1>6, <1>7, <1>8
  <2>. QED  BY <1>4, <1>6, <1>8, <2>1 DEF Fed
<1>9. ASSUME NEW i \in DOMAIN wire', Begins(i, s)' PROVE flows'[s].start = None
  BY <1>5, <1>6, <1>7, <1>9 DEF Fed
<1>10. PICK p \in (0 - 1) .. seq : Place(s, p) /\ Left(s) = p + 1 .. seq
  BY DEF Fed
<1>11. \A n : n \in Left(s)' <=> n \in Left(s) \/ n = seq + 1
  <2>1. \A n : n \in Left(s)' <=> \E i \in DOMAIN wire' : Numbers(i, s)' /\ n = wire'[i].item.n
    <3>1. Left(s)' = {wire'[i].item.n : i \in {j \in DOMAIN wire' : Numbers(j, s)'}}
      BY DEF Left
    <3>. QED  BY <3>1
  <2>2. \A n : n \in Left(s) <=> \E i \in DOMAIN wire : Numbers(i, s) /\ n = wire[i].item.n
    BY DEF Left
  <2>. QED  BY <1>4, <1>5, <1>6, <1>7, <2>1, <2>2
<1>12. p \in (0 - 1) .. seq' /\ Left(s)' = p + 1 .. seq'
  <2>1. \A n : n \in p + 1 .. seq + 1 <=> n \in p + 1 .. seq \/ n = seq + 1
    BY <1>2
  <2>2. \A n : n \in Left(s)' <=> n \in p + 1 .. seq'
    BY <1>2, <1>10, <1>11, <2>1
  <2>3. p \in (0 - 1) .. seq'
    BY <1>2
  <2>4. Left(s)' \subseteq p + 1 .. seq' /\ p + 1 .. seq' \subseteq Left(s)'
    BY <2>2
  <2>. QED  BY <2>3, <2>4
<1>13. Place(s, p)'
  <2>1. CASE flows[s].start # None
    <3>1. First(s)' = First(s) /\ Sent(s)' = Sent(s)
      BY DEF First, Sent, Told
    <3>. QED  BY <1>10, <2>1, <3>1 DEF Place
  <2>2. CASE flows[s].start = None
    <3>1. PICK i \in DOMAIN wire :
             /\ Begins(i, s)
             /\ p = IF wire[i].item.k = "snapshot" THEN wire[i].item.n - 1 ELSE wire[i].item.n
      BY <1>10, <2>2 DEF Place
    <3>2. i \in DOMAIN wire' /\ wire'[i] = wire[i] /\ Begins(i, s)'
      BY <1>4, <1>6, <3>1
    <3>. QED  BY <2>2, <3>1, <3>2 DEF Place
  <2>. QED  BY <2>1, <2>2
<1>14. ASSUME NEW i \in DOMAIN wire', NEW j \in DOMAIN wire', i < j, Numbers(i, s)', Numbers(j, s)'
       PROVE  wire'[i].item.n < wire'[j].item.n
  <2>1. i \in DOMAIN wire
    BY <1>4, <1>7, <1>14
  <2>2. wire'[i] = wire[i] /\ Numbers(i, s)
    BY <1>4, <1>6, <1>14, <2>1
  <2>3. CASE j \in DOMAIN wire
    BY <1>4, <1>6, <1>14, <2>1, <2>2, <2>3 DEF Fed
  <2>4. CASE j = e
    <3>1. wire[i].item.n \in Left(s)
      BY <2>1, <2>2 DEF Left
    <3>2. wire[i].item.n < seq + 1
      BY <1>2, <1>10, <3>1
    <3>. QED  BY <1>5, <2>2, <2>4, <3>2
  <2>. QED  BY <1>7, <1>14, <2>3, <2>4
<1>15. s \in viewers'
  BY <1>2 DEF Fed
<1>16. \E q \in (0 - 1) .. seq' : Place(s, q)' /\ Left(s)' = q + 1 .. seq'
  BY <1>12, <1>13
<1>. QED  BY <1>8, <1>9, <1>14, <1>15, <1>16 DEF Fed

\* What is on its way of a stream that has just begun: its first frame at one place, m that move it
\* on, and perhaps who controls the terminal.
BegunAt(s, b, m, w, after) ==
    /\ DOMAIN wire' \subseteq Int /\ \A i \in b .. b + m + w - 1 : i \in DOMAIN wire'
    /\ \A i \in DOMAIN wire' : Mine(i, s)' => i \in b .. b + m + w - 1
    /\ \A i \in DOMAIN wire' : wire'[i].f = "answer" => i \in DOMAIN wire \/ i > b + m + w - 1
    /\ protocol >= ResumeProtocol => w = 1
    /\ w = 1 => wire'[b + m] = Item(s, [k |-> "control", who |-> control.who])
    /\ \/ m = 1 /\ wire'[b] = Item(s, [k |-> "snapshot", n |-> seq])
       \/ /\ after \in 0 .. seq /\ m = seq - after + 1
          /\ wire'[b] = Item(s, [k |-> "resumed", n |-> after])
          /\ \A i \in b + 1 .. b + m - 1 : wire'[i] = Item(s, Output(after + i - b))

\* The daemon that serves a watch begins its stream so.
LEMMA BegunIs ==
    ASSUME IInv, BeginInv, Beginning, NEW s, s = Head(asked).op.s
    PROVE  /\ s \in Streams /\ s \in viewers' /\ Fresh(s)
           /\ UNCHANGED <<flows, told, watchers, seq, control, protocol>>
           /\ \E b \in Nat \ {0}, m \in Nat \ {0}, w \in {0, 1}, after \in Int : BegunAt(s, b, m, w, after)
<1>1. /\ Watches(asked[1], s) /\ s \in Streams /\ asked[1] = Head(asked)
      /\ \E items \in Beginnings(s, Head(asked).op.after) :
            Serving(items, Done) /\ items \in Seq(ItemFrames) /\ Grown(items)
  BY BeginningSays
<1>2. PICK items \in Beginnings(s, Head(asked).op.after) :
            Serving(items, Done) /\ items \in Seq(ItemFrames) /\ Grown(items)
  BY <1>1
<1>3. Shape /\ Done \in Answers /\ seq \in Nat
  BY BoundsAssumption DEF IInv, Shape, Answers
<1>4. /\ 1 \in DOMAIN asked /\ Head(asked) \in Requests
      /\ \A i \in DOMAIN wire' : wire'[i].f = "answer" /\ i \notin DOMAIN wire =>
            \A j \in DOMAIN items : Len(wire) + j < i
  BY <1>2, <1>3, ServedGrown
<1>5. Head(asked).op.after \in Int /\ s \in Nat
  BY <1>1, <1>4 DEF Watches, Requests, Ops
<1>6. PICK after \in Int : after = Head(asked).op.after
  BY <1>5
<1>7. items \in Beginnings(s, after)
  BY <1>2, <1>6
<1>8. PICK m \in Nat \ {0}, w \in {0, 1} :
              /\ DOMAIN items = 1 .. m + w /\ (protocol >= ResumeProtocol => w = 1)
              /\ w = 1 => items[m + 1] = Item(s, [k |-> "control", who |-> control.who])
              /\ \/ m = 1 /\ items[1] = Item(s, [k |-> "snapshot", n |-> seq])
                 \/ /\ m = seq - after + 1 /\ after \in 0 .. seq
                    /\ items[1] = Item(s, [k |-> "resumed", n |-> after])
                    /\ \A i \in 2 .. m : items[i] = Item(s, Output(after + i - 1))
  BY <1>3, <1>5, <1>7, BeginningsHave, SMTT(30)
<1>9. Fresh(s)
  BY <1>1, <1>4 DEF BeginInv, Served
<1>10. /\ Len(wire) \in Nat /\ DOMAIN wire = 1 .. Len(wire) /\ DOMAIN wire' \subseteq Int
       /\ \A i \in DOMAIN wire : i \in DOMAIN wire' /\ wire'[i] = wire[i]
       /\ \A j \in DOMAIN items : Len(wire) + j \in DOMAIN wire' /\ wire'[Len(wire) + j] = items[j]
       /\ \A i \in DOMAIN wire' : i \notin DOMAIN wire =>
             wire'[i].f = "answer" \/ (i - Len(wire) \in DOMAIN items /\ wire'[i] = items[i - Len(wire)])
  BY <1>2 DEF Grown
<1>11. PICK b \in Nat \ {0} : b = Len(wire) + 1
  BY <1>10
<1>12. \A i \in b .. b + m + w - 1 : i \in DOMAIN wire' /\ wire'[i] = items[i - b + 1]
  <2>1. ASSUME NEW i \in b .. b + m + w - 1
        PROVE  i - b + 1 \in DOMAIN items /\ Len(wire) + (i - b + 1) = i
    BY <1>8, <1>10, <1>11
  <2>2. ASSUME NEW i \in b .. b + m + w - 1
        PROVE  i \in DOMAIN wire' /\ wire'[i] = items[i - b + 1]
    BY <1>10, <2>1
  <2>. QED  BY <2>2
<1>13. ASSUME NEW i \in DOMAIN wire', Mine(i, s)' PROVE i \in b .. b + m + w - 1
  <2>1. i \notin DOMAIN wire
    BY <1>9, <1>10, <1>13 DEF Fresh, Mine
  <2>2. i - Len(wire) \in DOMAIN items
    BY <1>10, <1>13, <2>1 DEF Mine
  <2>. QED  BY <1>8, <1>10, <1>11, <2>2
<1>14. ASSUME NEW i \in DOMAIN wire', wire'[i].f = "answer", i \notin DOMAIN wire PROVE i > b + m + w - 1
  <2>1. m + w \in DOMAIN items /\ Len(wire) + (m + w) = b + m + w - 1
    BY <1>8, <1>10, <1>11
  <2>. QED  BY <1>4, <1>14, <2>1
<1>15. w = 1 => wire'[b + m] = Item(s, [k |-> "control", who |-> control.who])
  <2>1. w = 1 => b + m \in b .. b + m + w - 1 /\ (b + m) - b + 1 = m + 1
    BY <1>8, <1>11
  <2>. QED  BY <1>8, <1>12, <2>1
<1>16. wire'[b] = items[1]
  <2>1. b \in b .. b + m + w - 1 /\ b - b + 1 = 1
    BY <1>8, <1>11
  <2>. QED  BY <1>12, <2>1
<1>17. ASSUME \A i \in 2 .. m : items[i] = Item(s, Output(after + i - 1)), NEW i \in b + 1 .. b + m - 1
       PROVE  wire'[i] = Item(s, Output(after + i - b))
  <2>1. /\ i \in b .. b + m + w - 1 /\ i - b + 1 \in 2 .. m /\ after + (i - b + 1) - 1 = after + i - b
    BY <1>8, <1>11
  <2>. QED  BY <1>12, <1>17, <2>1
<1>18. BegunAt(s, b, m, w, after)
  BY <1>8, <1>10, <1>12, <1>13, <1>14, <1>15, <1>16, <1>17 DEF BegunAt
<1>19. s \in viewers' /\ UNCHANGED <<flows, told, watchers, seq, control, protocol>>
  BY DEF Beginning, Serving, Still
<1>. QED  BY <1>1, <1>9, <1>18, <1>19

\* One that begins.
LEMMA FedBeginning ==
    ASSUME IInv, BeginInv, Beginning, NEW s, s = Head(asked).op.s
    PROVE  Fed(s)'
<1>1. /\ s \in viewers' /\ Fresh(s) /\ flows' = flows /\ seq' = seq
      /\ \E b \in Nat \ {0}, m \in Nat \ {0}, w \in {0, 1}, after \in Int : BegunAt(s, b, m, w, after)
  BY BegunIs
<1>2. PICK b \in Nat \ {0}, m \in Nat \ {0}, w \in {0, 1}, after \in Int : BegunAt(s, b, m, w, after)
  BY <1>1
<1>3. seq \in Nat /\ flows'[s].start = None
  BY <1>1, BoundsAssumption DEF IInv, Shape, Fresh
<1>4. /\ DOMAIN wire' \subseteq Int /\ \A i \in b .. b + m + w - 1 : i \in DOMAIN wire'
      /\ \A i \in DOMAIN wire' : Mine(i, s)' => i \in b .. b + m + w - 1
      /\ w = 1 => wire'[b + m] = Item(s, [k |-> "control", who |-> control.who])
  BY <1>2 DEF BegunAt
<1>5. \/ m = 1 /\ wire'[b] = Item(s, [k |-> "snapshot", n |-> seq])
      \/ /\ after \in 0 .. seq /\ m = seq - after + 1
         /\ wire'[b] = Item(s, [k |-> "resumed", n |-> after])
         /\ \A i \in b + 1 .. b + m - 1 : wire'[i] = Item(s, Output(after + i - b))
  BY <1>2 DEF BegunAt
<1>6. ASSUME NEW i \in DOMAIN wire', Moves(i, s)' PROVE i \in b .. b + m - 1
  <2>1. i \in b .. b + m + w - 1
    BY <1>4, <1>6 DEF Moves
  <2>2. w = 1 => i # b + m
    BY <1>4, <1>6 DEF Moves, Item
  <2>. QED  BY <2>1, <2>2
<1>7. b \in DOMAIN wire' /\ b \in b .. b + m - 1 /\ Begins(b, s)'
  <2>1. b \in b .. b + m + w - 1 /\ b \in b .. b + m - 1
    OBVIOUS
  <2>2. b \in DOMAIN wire'
    BY <1>4, <2>1
  <2>. QED  BY <1>5, <2>1, <2>2 DEF Begins, Mine, Item
<1>8. \A i \in DOMAIN wire' : (Begins(i, s)' => Moves(i, s)') /\ (Numbers(i, s)' => Moves(i, s)')
  BY DEF Begins, Numbers, Moves
<1>9. ASSUME NEW i \in DOMAIN wire', Begins(i, s)' PROVE i = b
  <2>1. i \in b .. b + m - 1
    BY <1>6, <1>8, <1>9
  <2>2. ASSUME i # b PROVE FALSE
    <3>1. i \in b + 1 .. b + m - 1
      BY <2>1, <2>2
    <3>2. wire'[i] = Item(s, Output(after + i - b))
      BY <1>5, <3>1
    <3>. QED  BY <1>9, <3>2 DEF Begins, Item, Output
  <2>. QED  BY <2>2
<1>10. ASSUME NEW i \in DOMAIN wire', NEW j \in DOMAIN wire', Begins(i, s)', Moves(j, s)' PROVE i <= j
  <2>1. i = b /\ j \in b .. b + m - 1
    BY <1>6, <1>9, <1>10
  <2>. QED  BY <2>1
<1>11. CASE m = 1 /\ wire'[b] = Item(s, [k |-> "snapshot", n |-> seq])
  <2>1. \A i \in DOMAIN wire' : Numbers(i, s)' => i = b
    <3>1. \A i \in b .. b + m - 1 : i = b
      BY <1>11
    <3>. QED  BY <1>6, <1>8, <3>1
  <2>2. Numbers(b, s)' /\ wire'[b].item.n = seq /\ wire'[b].item.k = "snapshot"
    BY <1>11 DEF Numbers, Mine, Item
  <2>3. Left(s)' = {seq}
    BY <1>7, <2>1, <2>2 DEF Left
  <2>4. PICK p \in (0 - 1) .. seq' : p = seq - 1
    BY <1>1, <1>3
  <2>5. Left(s)' = p + 1 .. seq'
    <3>1. p + 1 = seq /\ seq .. seq = {seq}
      BY <1>3, <2>4
    <3>. QED  BY <1>1, <2>3, <3>1
  <2>6. Place(s, p)'
    BY <1>3, <1>7, <2>2, <2>4 DEF Place
  <2>7. \A i, j \in DOMAIN wire' : i < j /\ Numbers(i, s)' /\ Numbers(j, s)' => wire'[i].item.n < wire'[j].item.n
    BY <1>4, <2>1
  <2>. QED  BY <1>1, <1>3, <1>10, <2>5, <2>6, <2>7 DEF Fed
<1>12. CASE /\ after \in 0 .. seq /\ m = seq - after + 1
            /\ wire'[b] = Item(s, [k |-> "resumed", n |-> after])
            /\ \A i \in b + 1 .. b + m - 1 : wire'[i] = Item(s, Output(after + i - b))
  <2>1. ASSUME NEW i \in DOMAIN wire', Numbers(i, s)'
        PROVE  i \in b + 1 .. b + m - 1 /\ wire'[i].item.n = after + i - b
    <3>1. i \in b .. b + m - 1
      BY <1>6, <1>8, <2>1
    <3>2. i # b
      BY <1>12, <2>1 DEF Numbers, Item
    <3>3. i \in b + 1 .. b + m - 1
      BY <3>1, <3>2
    <3>4. wire'[i] = Item(s, Output(after + i - b))
      BY <1>12, <3>3
    <3>5. Item(s, Output(after + i - b)).item.n = after + i - b
      BY DEF Item, Output
    <3>. QED  BY <3>3, <3>4, <3>5
  <2>2. ASSUME NEW i \in b + 1 .. b + m - 1
        PROVE  i \in DOMAIN wire' /\ Numbers(i, s)' /\ wire'[i].item.n = after + i - b
    <3>1. i \in b .. b + m + w - 1
      OBVIOUS
    <3>2. i \in DOMAIN wire'
      BY <1>4, <3>1
    <3>3. wire'[i] = Item(s, Output(after + i - b))
      BY <1>12
    <3>4. /\ Item(s, Output(after + i - b)).f = "item" /\ Item(s, Output(after + i - b)).s = s
          /\ Item(s, Output(after + i - b)).item.n = after + i - b /\ Item(s, Output(after + i - b)).item.k = "out"
      BY DEF Item, Output
    <3>5. wire'[i].f = "item" /\ wire'[i].s = s /\ wire'[i].item.n = after + i - b /\ wire'[i].item.k = "out"
      BY <3>3, <3>4
    <3>. QED  BY <3>2, <3>5 DEF Numbers, Mine
  <2>3. \A n : n \in Left(s)' <=> \E i \in DOMAIN wire' : Numbers(i, s)' /\ n = wire'[i].item.n
    <3>1. Left(s)' = {wire'[i].item.n : i \in {j \in DOMAIN wire' : Numbers(j, s)'}}
      BY DEF Left
    <3>. QED  BY <3>1
  <2>4. ASSUME NEW i \in b + 1 .. b + m - 1 PROVE after + i - b \in after + 1 .. seq
    BY <1>3, <1>12
  <2>5. ASSUME NEW n \in after + 1 .. seq PROVE n - after + b \in b + 1 .. b + m - 1 /\ after + (n - after + b) - b = n
    BY <1>3, <1>12
  <2>6. Left(s)' \subseteq after + 1 .. seq
    BY <2>1, <2>3, <2>4
  <2>7. after + 1 .. seq \subseteq Left(s)'
    BY <2>2, <2>3, <2>5
  <2>8. after \in (0 - 1) .. seq' /\ Left(s)' = after + 1 .. seq'
    <3>1. Left(s)' = after + 1 .. seq
      BY <2>6, <2>7
    <3>2. after \in (0 - 1) .. seq
      BY <1>3, <1>12
    <3>. QED  BY <1>1, <3>1, <3>2
  <2>9. wire'[b].item.n = after /\ wire'[b].item.k # "snapshot"
    BY <1>12 DEF Item
  <2>10. Place(s, after)'
    BY <1>3, <1>7, <2>9 DEF Place
  <2>11. ASSUME NEW i \in DOMAIN wire', NEW j \in DOMAIN wire', i < j, Numbers(i, s)', Numbers(j, s)'
         PROVE  wire'[i].item.n < wire'[j].item.n
    <3>1. /\ wire'[i].item.n = after + i - b /\ wire'[j].item.n = after + j - b
      BY <2>1, <2>11
    <3>. QED  BY <1>4, <2>11, <3>1
  <2>. QED  BY <1>1, <1>3, <1>10, <2>8, <2>10, <2>11 DEF Fed
<1>. QED  BY <1>5, <1>11, <1>12

\* Each step.
LEMMA FedNext == ASSUME IInv, [Next]_vars, BeginInv, SinksInv, FedInv, ReadyInv PROVE FedInv'
<1>1. SinkStep /\ Shape
  BY SinkSteps DEF IInv
<1>2. SUFFICES ASSUME NEW s \in watchers', Served(s)' PROVE Fed(s)'
  BY DEF FedInv
<1>3. CASE s \notin Streams
  <2>1. PICK x \in Channels : Opening(x) /\ s = Len(flows) + 1
    <3>1. IInv'
      BY InvariantNext
    <3>2. s \in Streams'
      BY <3>1 DEF IInv, Shape
    <3>. QED  BY <1>1, <1>3, <3>2, TouchesOne DEF Touches
  <2>2. PICK after \in Int : Asks(x, [o |-> "watch", s |-> s, after |-> after])
    BY <2>1 DEF Opening
  <2>3. \E i \in DOMAIN asked' : asked'[i].op.o = "watch" /\ asked'[i].op.s = s
    <3>. DEFINE r == [by |-> x, id |-> called[x] + 1, op |-> [o |-> "watch", s |-> s, after |-> after]]
    <3>1. asked' = Append(asked, r) /\ asked \in Seq(Requests)
      BY <1>1, <2>2 DEF Asks, Shape
    <3>2. r.op.o = "watch" /\ r.op.s = s
      OBVIOUS
    <3>. HIDE DEF r
    <3>3. asked'[Len(asked) + 1] = r /\ Len(asked) + 1 \in DOMAIN asked'
      BY <3>1
    <3>. QED  BY <3>2, <3>3
  <2>. QED  BY <1>2, <2>3 DEF Served, Watches
<1>4. CASE s \in Streams /\ ~ Served(s)
  <2>1. Beginning /\ Head(asked).op.s = s
    BY <1>1, <1>2, <1>4, ServedStays
  <2>. QED  BY <2>1, FedBeginning
<1>5. CASE s \in Streams /\ Served(s)
  <2>1. s \in watchers /\ Fed(s)
    BY <1>1, <1>2, <1>5, WatchersOld DEF FedInv
  <2>2. CASE Feeding /\ s = Head(wire).s
    BY <1>2, <2>2, FedFeeding
  <2>3. ASSUME NEW x \in Channels, s = work[x], NEW who, Replying(x, who) PROVE Fed(s)'
    BY <1>2, <2>1, <2>3, FedReplying
  <2>4. ASSUME NEW x \in Channels, s = work[x], Parting(x) PROVE FALSE
    BY <2>1, <2>4 DEF Parting, ReadyInv
  <2>5. ASSUME NEW x \in Channels, s = Len(flows) + 1, Opening(x) PROVE FALSE
    BY <1>1, <1>5, <2>5, OfIs
  <2>6. CASE ~ Touches(s)
    <3>1. flows'[s] = flows[s] /\ told'[s] = told[s]
      BY <1>1, <1>5, <2>6, TouchesOne
    <3>2. CASE Printing
      BY <2>1, <3>1, <3>2, FedPrinting
    <3>3. CASE ~ Printing
      <4>1. SameMoves(s) /\ seq' = seq /\ s \in viewers'
        BY <1>5, <2>1, <2>6, <3>3, TrafficKept DEF Touches, Fed
      <4>2. First(s)' = First(s) /\ Sent(s)' = Sent(s)
        BY <3>1 DEF First, Sent, Told
      <4>3. \A p \in (0 - 1) .. seq : flows[s].start # None /\ Place(s, p) => Place(s, p)'
        BY <3>1, <4>2 DEF Place
      <4>. QED  BY <2>1, <3>1, <4>1, <4>3, FedKept
    <3>. QED  BY <3>2, <3>3
  <2>. QED  BY <1>5, <2>2, <2>3, <2>4, <2>5, <2>6 DEF Touches
<1>. QED  BY <1>3, <1>4, <1>5

---------------------------------------------------------------------------
\* Who controls the terminal, as a sink knows it, is kept by every step

\* A stream that has a sink and was asked for had both before, or begins.
LEMMA ServedOld ==
    ASSUME IInv, [Next]_vars, NEW s \in watchers', Served(s)'
    PROVE  /\ s \in Streams
           /\ (Beginning /\ Head(asked).op.s = s) \/ (s \in watchers /\ Served(s))
<1>1. SinkStep /\ Shape
  BY SinkSteps DEF IInv
<1>2. s \in Streams'
  <2>1. IInv'
    BY InvariantNext
  <2>. QED  BY <2>1 DEF IInv, Shape
<1>3. ASSUME s \notin Streams PROVE FALSE
  <2>1. PICK x \in Channels : Opening(x) /\ s = Len(flows) + 1
    BY <1>1, <1>2, <1>3, TouchesOne DEF Touches
  <2>2. PICK after \in Int : Asks(x, [o |-> "watch", s |-> s, after |-> after])
    BY <2>1 DEF Opening
  <2>3. \E i \in DOMAIN asked' : asked'[i].op.o = "watch" /\ asked'[i].op.s = s
    <3>. DEFINE r == [by |-> x, id |-> called[x] + 1, op |-> [o |-> "watch", s |-> s, after |-> after]]
    <3>1. asked' = Append(asked, r) /\ asked \in Seq(Requests)
      BY <1>1, <2>2 DEF Asks, Shape
    <3>2. r.op.o = "watch" /\ r.op.s = s
      OBVIOUS
    <3>. HIDE DEF r
    <3>3. asked'[Len(asked) + 1] = r /\ Len(asked) + 1 \in DOMAIN asked'
      BY <3>1
    <3>. QED  BY <3>2, <3>3
  <2>. QED  BY <2>3 DEF Served, Watches
<1>. QED  BY <1>1, <1>3, ServedStays, WatchersOld

\* What names it stays as it was.
LEMMA NamedKept ==
    ASSUME NEW s, SameNames(s), control'.who = control.who, Named(s), Knows(s) => Knows(s)'
    PROVE  Named(s)'
<1>1. PICK d \in {0, 1} :
        /\ DOMAIN wire \subseteq Int /\ DOMAIN wire' \subseteq Int
        /\ \A i \in DOMAIN wire' : Names(i, s)' => i + d \in DOMAIN wire /\ wire'[i] = wire[i + d]
        /\ \A i \in DOMAIN wire : Names(i, s) => i - d \in DOMAIN wire' /\ wire'[i - d] = wire[i]
  BY DEF SameNames
<1>2. ASSUME NEW i \in DOMAIN wire', Names(i, s)'
      PROVE  i + d \in DOMAIN wire /\ wire'[i] = wire[i + d] /\ Names(i + d, s)
  BY <1>1, <1>2 DEF Names, Mine
<1>3. ASSUME NEW i \in DOMAIN wire, Names(i, s)
      PROVE  i - d \in DOMAIN wire' /\ wire'[i - d] = wire[i] /\ Names(i - d, s)'
  BY <1>1, <1>3 DEF Names, Mine
<1>4. ASSUME NEW i \in DOMAIN wire', Names(i, s)', \A j \in DOMAIN wire' : Names(j, s)' => j <= i
      PROVE  wire'[i].item.who = control'.who
  <2>1. i + d \in DOMAIN wire /\ wire'[i] = wire[i + d] /\ Names(i + d, s)
    BY <1>2, <1>4
  <2>2. ASSUME NEW j \in DOMAIN wire, Names(j, s) PROVE j <= i + d
    <3>1. j - d \in DOMAIN wire' /\ j - d <= i
      BY <1>3, <1>4, <2>2
    <3>. QED  BY <1>1, <3>1
  <2>. QED  BY <2>1, <2>2 DEF Named
<1>5. ASSUME \A i \in DOMAIN wire' : ~ Names(i, s)' PROVE Knows(s)'
  <2>1. \A i \in DOMAIN wire : ~ Names(i, s)
    BY <1>3, <1>5
  <2>. QED  BY <2>1 DEF Named
<1>. QED  BY <1>4, <1>5 DEF Named

\* A sink that knows nothing new.
LEMMA KnowsSame ==
    ASSUME NEW s, Knows(s), control'.who = control.who, flows'[s].replied = flows[s].replied,
           flows'[s].controller = flows[s].controller, Told(s, "control")' = Told(s, "control"),
           \A i \in Told(s, "control") : told'[s][i] = told[s][i]
    PROVE  Knows(s)'
  BY DEF Knows

\* One that is told, last of all, who does control it.
LEMMA KnowsSaid ==
    ASSUME Shape, NEW s \in Streams, NEW w \in Words, told'[s] = Append(told[s], w), w[1] = "control",
           w[2] = control'.who, flows'[s].replied
    PROVE  Knows(s)'
<1>1. /\ Len(told[s]) \in Nat /\ DOMAIN told[s] = 1 .. Len(told[s])
      /\ told'[s][Len(told[s]) + 1] = w
  BY ToldAppend
<1>2. Told(s, "control")' = Told(s, "control") \cup {Len(told[s]) + 1}
  BY <1>1, AppendIs DEF Shape, Streams, Told
<1>3. ASSUME NEW i \in Told(s, "control")', \A j \in Told(s, "control")' : j <= i
      PROVE  i = Len(told[s]) + 1
  <2>1. Len(told[s]) + 1 <= i
    BY <1>2, <1>3
  <2>2. i \in Told(s, "control") => i <= Len(told[s]) /\ i \in Nat
    BY <1>1 DEF Told
  <2>. QED  BY <1>1, <1>2, <1>3, <2>1, <2>2
<1>. QED  BY <1>1, <1>3 DEF Knows

\* A sink that is fed.
LEMMA NamedFeeding ==
    ASSUME IInv, [Next]_vars, BeginInv, SinksInv, FedInv, Feeding, NEW s, s = Head(wire).s, s \in watchers', Named(s),
           NEW item, item = Head(wire).item
    PROVE  Named(s)'
<1>1. /\ Taking /\ s \in Streams /\ s \in watchers /\ Mine(1, s) /\ wire[1].item = item /\ item \in Items
      /\ \/ Resumed(s, item) \/ Shown(s, item) \/ Noted(s, item) \/ HeldBack(s, item)
         \/ SaidOn(s, item) \/ PassedOn(s, item) \/ Overrun(s, item)
  BY FeedingIs
<1>2. Shape /\ control' = control /\ flows[s] \in Flows
  BY <1>1, SMTT(30) DEF IInv, Shape, Streams, Feeding, Standing
<1>3. ASSUME item.k # "control", Knows(s) => Knows(s)' PROVE Named(s)'
  <2>1. SameNames(s)
    BY <1>1, <1>3, SameTaken DEF Names
  <2>. QED  BY <1>2, <1>3, <2>1, NamedKept
<1>4. ASSUME item.k = "control", item.who = control.who => Knows(s)' PROVE Named(s)'
  <2>1. /\ 1 \in DOMAIN wire /\ DOMAIN wire \subseteq Nat \ {0} /\ DOMAIN wire' \subseteq Nat \ {0}
        /\ \A i \in DOMAIN wire' : i + 1 \in DOMAIN wire /\ wire'[i] = wire[i + 1]
        /\ \A i \in DOMAIN wire : i # 1 => i - 1 \in DOMAIN wire' /\ wire'[i - 1] = wire[i]
    BY <1>1 DEF Taking
  <2>2. ASSUME NEW i \in DOMAIN wire, i # 1, Names(i, s) PROVE i - 1 \in DOMAIN wire' /\ Names(i - 1, s)'
    BY <2>1, <2>2 DEF Names, Mine
  <2>3. ASSUME NEW i \in DOMAIN wire', Names(i, s)', \A j \in DOMAIN wire' : Names(j, s)' => j <= i
        PROVE  wire'[i].item.who = control'.who
    <3>1. i + 1 \in DOMAIN wire /\ wire'[i] = wire[i + 1] /\ Names(i + 1, s)
      BY <2>1, <2>3 DEF Names, Mine
    <3>2. ASSUME NEW j \in DOMAIN wire, Names(j, s) PROVE j <= i + 1
      <4>1. CASE j = 1
        BY <2>1, <4>1
      <4>2. CASE j # 1
        <5>1. j - 1 \in DOMAIN wire' /\ j - 1 <= i
          BY <2>2, <2>3, <3>2, <4>2
        <5>. QED  BY <2>1, <5>1
      <4>. QED  BY <4>1, <4>2
    <3>. QED  BY <1>2, <3>1, <3>2 DEF Named
  <2>4. ASSUME \A i \in DOMAIN wire' : ~ Names(i, s)' PROVE Knows(s)'
    <3>1. Names(1, s)
      BY <1>1, <1>4 DEF Names
    <3>2. \A j \in DOMAIN wire : Names(j, s) => j <= 1
      BY <2>1, <2>2, <2>4
    <3>3. item.who = control.who
      BY <1>1, <2>1, <3>1, <3>2 DEF Named
    <3>. QED  BY <1>4, <3>3
  <2>. QED  BY <2>3, <2>4 DEF Named
<1>5. ASSUME told[s] = <<>>, told'[s] = <<>> PROVE Told(s, "control") = {} /\ Told(s, "control")' = {}
  BY <1>5 DEF Told
<1>6. ASSUME Resumed(s, item) \/ Shown(s, item) \/ HeldBack(s, item) PROVE Named(s)'
  <2>1. /\ told[s] = <<>> /\ told'[s] = <<>> /\ item.k # "control" /\ flows'[s].replied = FALSE
        /\ flows'[s].controller = flows[s].controller
    BY <1>6 DEF Resumed, Shown, HeldBack, FlowIs
  <2>2. ~ flows[s].replied
    BY <1>1, <2>1 DEF SinksInv, Sunk
  <2>3. Knows(s) => Knows(s)'
    BY <1>2, <2>1, <2>2 DEF Knows
  <2>. QED  BY <1>3, <2>1, <2>3
<1>7. CASE Noted(s, item)
  <2>1. item.k = "control" /\ flows'[s].replied = FALSE /\ flows'[s].controller = item.who
    BY <1>7 DEF Noted, FlowIs
  <2>2. item.who = control.who => Knows(s)'
    BY <1>2, <2>1 DEF Knows
  <2>. QED  BY <1>4, <2>1, <2>2
<1>8. CASE SaidOn(s, item)
  <2>. DEFINE w == <<"control", item.who>>
  <2>1. /\ item.k = "control" /\ flows'[s].replied /\ told'[s] = Append(told[s], w)
        /\ w \in Words /\ w[1] = "control" /\ w[2] = item.who
    BY <1>1, <1>8 DEF SaidOn, Items, Outputs, Words
  <2>. HIDE DEF w
  <2>2. w[2] = control'.who => Knows(s)'
    BY <1>1, <1>2, <2>1, KnowsSaid
  <2>4. item.who = control.who => Knows(s)'
    BY <1>2, <2>1, <2>2
  <2>. QED  BY <1>4, <2>1, <2>4
<1>9. CASE PassedOn(s, item)
  <2>. DEFINE w == <<"out", item.n>>
  <2>1. /\ item.k = "out" /\ flows'[s] = flows[s] /\ told'[s] = Append(told[s], w)
        /\ w \in Words /\ w[1] = "out"
    BY <1>1, <1>9 DEF PassedOn, Items, Outputs, Words
  <2>. HIDE DEF w
  <2>2. /\ DOMAIN told[s] = 1 .. Len(told[s])
        /\ \A i \in 1 .. Len(told[s]) : told'[s][i] = told[s][i]
        /\ Told(s, "control")' = Told(s, "control")
    BY <1>1, <1>2, <2>1, ToldAppend
  <2>3. \A i \in Told(s, "control") : told'[s][i] = told[s][i]
    BY <2>2 DEF Told
  <2>4. Knows(s) => Knows(s)'
    BY <1>2, <2>1, <2>2, <2>3, KnowsSame
  <2>5. item.k # "control"
    BY <2>1
  <2>. QED  BY <1>3, <2>4, <2>5
<1>10. CASE Overrun(s, item)
  BY <1>10 DEF Overrun
<1>. QED  BY <1>1, <1>6, <1>7, <1>8, <1>9, <1>10

\* One that begins.
LEMMA NamedBeginning ==
    ASSUME IInv, BeginInv, Beginning, NEW s, s = Head(asked).op.s, protocol >= ResumeProtocol
    PROVE  Named(s)'
<1>1. /\ control' = control
      /\ \E b \in Nat \ {0}, m \in Nat \ {0}, w \in {0, 1}, after \in Int : BegunAt(s, b, m, w, after)
  BY BegunIs
<1>2. PICK b \in Nat \ {0}, m \in Nat \ {0}, w \in {0, 1}, after \in Int : BegunAt(s, b, m, w, after)
  BY <1>1
<1>3. /\ \A i \in b .. b + m + w - 1 : i \in DOMAIN wire'
      /\ \A i \in DOMAIN wire' : Mine(i, s)' => i \in b .. b + m + w - 1
      /\ w = 1 /\ wire'[b + m] = Item(s, [k |-> "control", who |-> control.who])
  BY <1>2 DEF BegunAt
<1>4. \/ m = 1 /\ wire'[b] = Item(s, [k |-> "snapshot", n |-> seq])
      \/ /\ wire'[b] = Item(s, [k |-> "resumed", n |-> after])
         /\ \A i \in b + 1 .. b + m - 1 : wire'[i] = Item(s, Output(after + i - b))
  BY <1>2 DEF BegunAt
<1>5. b + m \in DOMAIN wire' /\ Names(b + m, s)' /\ wire'[b + m].item.who = control'.who
  <2>1. b + m \in b .. b + m + w - 1
    BY <1>3
  <2>2. b + m \in DOMAIN wire'
    BY <1>3, <2>1
  <2>. QED  BY <1>1, <1>3, <2>2 DEF Names, Mine, Item
<1>6. ASSUME NEW i \in DOMAIN wire', Names(i, s)' PROVE i = b + m
  <2>1. i \in b .. b + m
    <3>1. i \in b .. b + m + 1 - 1
      BY <1>3, <1>6 DEF Names
    <3>. QED  BY <3>1
  <2>2. i # b
    BY <1>4, <1>6 DEF Names, Item
  <2>3. ASSUME i \in b + 1 .. b + m - 1 PROVE FALSE
    <3>1. m # 1
      BY <2>3
    <3>2. wire'[i] = Item(s, Output(after + i - b))
      BY <1>4, <2>3, <3>1
    <3>3. Item(s, Output(after + i - b)).item.k = "out"
      BY DEF Item, Output
    <3>. QED  BY <1>6, <3>2, <3>3 DEF Names
  <2>. QED  BY <2>1, <2>2, <2>3
<1>. QED  BY <1>5, <1>6 DEF Named

\* One whose reply goes.
LEMMA NamedReplying ==
    ASSUME IInv, [Next]_vars, SinksInv, ReadyInv, NEW x \in Channels, NEW who, Replying(x, who), NEW s, s = work[x],
           Named(s), protocol >= ResumeProtocol
    PROVE  Named(s)'
<1>1. /\ ~ flows[s].replied
      /\ FlowIs(s, flows[s].start, flows[s].from, <<>>, TRUE, flows[s].controller, s \notin watchers')
  BY ReplyingIs
<1>2. Told(s, "control")' = {2} /\ told'[s][2] = <<"control", who>>
  BY ReplyWhole
<1>3. wire' = wire /\ control' = control /\ Shape
  BY DEF Replying, Standing, Asks, IInv
<1>4. who = flows[s].controller
  BY DEF Replying, ReadyInv
<1>5. flows'[s].replied = TRUE
  BY <1>1 DEF FlowIs
<1>6. Knows(s) => Knows(s)'
  BY <1>1, <1>2, <1>3, <1>4, <1>5 DEF Knows
<1>7. SameNames(s)
  BY <1>3, SameWire
<1>. QED  BY <1>3, <1>6, <1>7, NamedKept

\* One that is told who controls the terminal now.
LEMMA NamedTold ==
    ASSUME IInv, [Next]_vars, Granting \/ Announcing, control.who # control'.who, protocol >= ResumeProtocol,
           NEW s \in viewers
    PROVE  Named(s)'
<1>. DEFINE items == Announced(control, control')
<1>1. /\ items \in Seq(ItemFrames)
      /\ \A j \in DOMAIN items : items[j].item = [k |-> "control", who |-> control'.who]
      /\ \E j \in DOMAIN items : items[j].s = s
      /\ wire' = wire \o items => Grown(items)
  BY SaidTo
<1>2. Shape
  BY DEF IInv
<1>. HIDE DEF items
<1>3. Grown(items)
  <2>1. CASE Announcing
    BY <1>1, <2>1 DEF Announcing, items
  <2>2. CASE Granting
    <3>1. PICK a \in Answers : Serving(items, a)
      BY <2>2 DEF Granting, items
    <3>. QED  BY <1>1, <1>2, <3>1, ServedGrown
  <2>. QED  BY <2>1, <2>2
<1>4. PICK k \in DOMAIN items : items[k].s = s
  BY <1>1
<1>5. Len(wire) + k \in Int
  BY <1>3 DEF Grown
<1>6. PICK e \in Int : e = Len(wire) + k
  BY <1>5
<1>7. /\ Len(wire) \in Nat /\ DOMAIN wire = 1 .. Len(wire) /\ DOMAIN wire' \subseteq Int
      /\ k \in Nat \ {0} /\ e \in DOMAIN wire' /\ wire'[e] = items[k]
      /\ \A i \in DOMAIN wire' : i \notin DOMAIN wire =>
            wire'[i].f = "answer" \/ (i - Len(wire) \in DOMAIN items /\ wire'[i] = items[i - Len(wire)])
  BY <1>3, <1>6 DEF Grown
<1>8. items[k] \in ItemFrames
  BY <1>1
<1>9. Names(e, s)'
  BY <1>1, <1>4, <1>7, <1>8 DEF Names, Mine, ItemFrames
<1>10. ASSUME NEW i \in DOMAIN wire', Names(i, s)', \A j \in DOMAIN wire' : Names(j, s)' => j <= i
       PROVE  wire'[i].item.who = control'.who
  <2>1. e <= i
    BY <1>7, <1>9, <1>10
  <2>2. i \notin DOMAIN wire
    BY <1>6, <1>7, <2>1
  <2>3. i - Len(wire) \in DOMAIN items /\ wire'[i] = items[i - Len(wire)]
    BY <1>7, <1>10, <2>2 DEF Names, Mine
  <2>4. wire'[i].item = [k |-> "control", who |-> control'.who]
    BY <1>1, <2>3
  <2>. QED  BY <2>4
<1>. QED  BY <1>7, <1>9, <1>10 DEF Named

\* Each step.
LEMMA NamedNext == ASSUME IInv, [Next]_vars, BeginInv, SinksInv, FedInv, NamedInv, ReadyInv PROVE NamedInv'
<1>1. SinkStep /\ Shape
  BY SinkSteps DEF IInv
<1>2. protocol' = protocol
  BY <1>1 DEF SinkStep, Feeding, Passing, Beginning, Ending, Granting, Serving, Printing, Announcing, Opening, Replying,
              Wondering, Leaving, Parting, Abandoning, Otherwise, Standing
<1>3. SUFFICES ASSUME protocol >= ResumeProtocol, NEW s \in watchers', Served(s)' PROVE Named(s)'
  BY <1>2 DEF NamedInv
<1>4. s \in Streams /\ ((Beginning /\ Head(asked).op.s = s) \/ (s \in watchers /\ Served(s)))
  BY <1>3, ServedOld
<1>5. CASE Beginning /\ Head(asked).op.s = s
  BY <1>3, <1>5, NamedBeginning
<1>6. CASE s \in watchers /\ Served(s)
  <2>1. Named(s) /\ s \in viewers /\ s \in Streams
    BY <1>1, <1>3, <1>6 DEF NamedInv, FedInv, Fed, Shape
  <2>2. CASE Feeding /\ s = Head(wire).s
    BY <1>3, <2>1, <2>2, NamedFeeding
  <2>3. ASSUME NEW x \in Channels, s = work[x], NEW who, Replying(x, who) PROVE Named(s)'
    BY <1>3, <2>1, <2>3, NamedReplying
  <2>4. ASSUME NEW x \in Channels, s = work[x], Parting(x) PROVE FALSE
    BY <1>6, <2>4 DEF Parting, ReadyInv
  <2>5. ASSUME NEW x \in Channels, s = Len(flows) + 1, Opening(x) PROVE FALSE
    BY <1>1, <2>1, <2>5, OfIs
  <2>6. CASE ~ Touches(s)
    <3>1. flows'[s] = flows[s] /\ told'[s] = told[s]
      BY <1>1, <2>1, <2>6, TouchesOne
    <3>2. CASE (Granting \/ Announcing) /\ control.who # control'.who
      BY <1>3, <2>1, <3>2, NamedTold
    <3>3. CASE ~ ((Granting \/ Announcing) /\ control.who # control'.who)
      <4>1. SameNames(s) /\ control'.who = control.who
        BY <1>6, <2>1, <2>6, <3>3, TrafficKept DEF Touches
      <4>2. Knows(s) => Knows(s)'
        BY <3>1, <4>1 DEF Knows, Told
      <4>. QED  BY <2>1, <4>1, <4>2, NamedKept
    <3>. QED  BY <3>2, <3>3
  <2>. QED  BY <2>2, <2>3, <2>4, <2>5, <2>6 DEF Touches
<1>. QED  BY <1>4, <1>5, <1>6

---------------------------------------------------------------------------
\* That who waits for a stream has it, and is answered when it has begun, is kept by every step

\* Where a thread that waits for a stream, or leaves one, was before.
LEMMA WaitingIs ==
    ASSUME IInv, [Next]_vars, NEW x \in Channels, at'[x] \in {"watching", "asking", "detaching"}
    PROVE  \/ Opening(x) /\ at'[x] = "watching" /\ work'[x] = Len(flows) + 1 /\ answer'[x] = NoAnswer
           \/ Wondering(x) /\ at'[x] = "asking" /\ work'[x] = work[x]
           \/ at'[x] = "detaching" /\ \E s \in Streams : Leaving(x, s) /\ work'[x] = s
           \/ /\ at'[x] = at[x] /\ work'[x] = work[x]
              /\ at[x] = "watching" =>
                    /\ called'[x] = called[x]
                    /\ answer'[x] = answer[x] \/ (Passing /\ IsAnswer(1) /\ Newest(wire[1]) /\ wire[1].by = x)
<1>1. SinkStep /\ Shape /\ WaitsInv' /\ answer \in [Channels -> Answers] /\ called \in [Channels -> Nat]
  BY SinkSteps, InvariantNext DEF IInv, Shape
<1>. DEFINE Kept4 == /\ at'[x] = at[x] /\ work'[x] = work[x]
                     /\ at[x] = "watching" =>
                           /\ called'[x] = called[x]
                           /\ answer'[x] = answer[x] \/ (Passing /\ IsAnswer(1) /\ Newest(wire[1]) /\ wire[1].by = x)
<1>2. CASE Passing
  <2>1. Head(wire) = wire[1]
    BY <1>1, <1>2, TakenOff DEF Passing, Taking
  <2>2. answer'[x] = answer[x] \/ (IsAnswer(1) /\ Newest(wire[1]) /\ wire[1].by = x)
    BY <1>1, <1>2, <2>1 DEF Passing, IsAnswer
  <2>. QED  BY <1>2, <2>2 DEF Passing, Resting
<1>3. CASE Feeding \/ Beginning \/ Ending \/ Granting \/ Printing \/ Announcing
           \/ (Still /\ Standing /\ Resting /\ UNCHANGED <<asked, wire, pending, answer>>)
  <2>1. Resting /\ answer' = answer
    BY <1>3 DEF Feeding, Beginning, Ending, Granting, Serving, Printing, Announcing
  <2>. QED  BY <2>1 DEF Resting
<1>4. ASSUME NEW y \in Channels, y # x, NEW to, NEW a, NEW w, NEW ws, NEW ls, Thread(y, to, a, w, ws, ls),
             called' = called \/ \E op : Asks(y, op)
      PROVE  Kept4
  <2>1. called'[x] = called[x]
    BY <1>1, <1>4 DEF Asks
  <2>. QED  BY <1>4, <2>1 DEF Thread
<1>5. ASSUME NEW y \in Channels, y # x,
             Opening(y) \/ (\E who : Replying(y, who)) \/ Wondering(y) \/ (\E s \in Streams : Leaving(y, s))
             \/ Parting(y) \/ Abandoning(y)
      PROVE  Kept4
  <2>1. CASE Opening(y) \/ Wondering(y) \/ (\E who : Replying(y, who))
    BY <1>4, <1>5, <2>1 DEF Opening, Wondering, Replying, Stays
  <2>2. CASE (\E s \in Streams : Leaving(y, s)) \/ Parting(y) \/ Abandoning(y)
    BY <1>4, <1>5, <2>2 DEF Leaving, Parting, Abandoning, Stays, NoAsk
  <2>. QED  BY <1>5, <2>1, <2>2
<1>6. ASSUME NEW y \in Channels, y # x, Otherwise(y) PROVE Kept4
  <2>1. \E to \in Steps : \E a, w, ls : Thread(y, to, a, w, watched[y], ls)
    BY <1>6 DEF Otherwise
  <2>2. called' = called \/ \E op : Asks(y, op)
    BY <1>6 DEF Otherwise
  <2>. QED  BY <1>4, <1>6, <2>1, <2>2
<1>. HIDE DEF Kept4
<1>7. CASE Opening(x)
  <2>1. at'[x] = "watching" /\ work'[x] = Len(flows) + 1 /\ x \in pending'
    BY <1>7 DEF Opening, Thread, Asks
  <2>. QED  BY <1>1, <1>7, <2>1 DEF WaitsInv
<1>8. CASE Wondering(x)
  <2>1. at'[x] = "asking" /\ work'[x] = work[x]
    BY <1>8 DEF Wondering, Stays, Thread
  <2>. QED  BY <1>8, <2>1
<1>9. ASSUME NEW s \in Streams, Leaving(x, s) PROVE at'[x] = "detaching" /\ work'[x] = s
  <2>1. \/ at'[x] = "detaching" /\ work'[x] = s
        \/ at'[x] = "lettingGo"
    BY <1>9 DEF Leaving, Thread
  <2>. QED  BY <2>1
<1>10. ASSUME (\E who : Replying(x, who)) \/ Parting(x) \/ Abandoning(x) PROVE FALSE
  <2>1. at'[x] \in {"idle", "dropping"}
    BY <1>10 DEF Replying, Parting, Abandoning, Stays, Thread
  <2>. QED  BY <2>1
<1>11. CASE Otherwise(x)
  <2>1. PICK to \in Steps : \E a, w, ls :
            /\ Thread(x, to, a, w, watched[x], ls)
            /\ \/ to \notin {"watching", "asking", "detaching"}
               \/ to \in {"asking", "detaching"} /\ to = at[x] /\ w = work[x] /\ asked' = asked
    BY <1>11 DEF Otherwise
  <2>2. at'[x] = to /\ (to \in {"asking", "detaching"} => to = at[x] /\ work'[x] = work[x])
    BY <2>1 DEF Thread
  <2>. QED  BY <2>1, <2>2
<1>12. (\E y \in Channels : y # x /\ (Opening(y) \/ (\E who : Replying(y, who)) \/ Wondering(y)
            \/ (\E s \in Streams : Leaving(y, s)) \/ Parting(y) \/ Abandoning(y) \/ Otherwise(y))) => Kept4
  BY <1>5, <1>6
<1>. QED  BY <1>1, <1>2, <1>3, <1>7, <1>8, <1>9, <1>10, <1>11, <1>12 DEF SinkStep, Kept4

\* What a sink has stays: that its stream was served, has begun, and who controls the terminal, and that
\* the device was told something.
LEMMA ReadyStays ==
    ASSUME IInv, [Next]_vars, BeginInv, SinksInv, FedInv, ReadyInv, NEW s \in Streams
    PROVE  /\ Served(s) => Served(s)'
           /\ flows[s].start # None => flows'[s].start # None
           /\ flows[s].controller # None => flows'[s].controller # None
           /\ told[s] # <<>> => told'[s] # <<>>
           /\ protocol' = protocol
<1>1. SinkStep /\ Shape
  BY SinkSteps DEF IInv
<1>2. protocol' = protocol
  BY <1>1 DEF SinkStep, Feeding, Passing, Beginning, Ending, Granting, Serving, Printing, Announcing, Opening, Replying,
              Wondering, Leaving, Parting, Abandoning, Otherwise, Standing
<1>3. Served(s) => Served(s)'
  <2>1. Len(flows) + 1 \notin Streams
    BY <1>1, OfIs
  <2>2. ASSUME NEW op, op.o = "watch" => op.s # s, NEW n, NEW c, NEW k,
               asked'[n] = [by |-> c, id |-> k, op |-> op],
               \A i \in DOMAIN asked : i \in DOMAIN asked' /\ asked'[i] = asked[i],
               \A i \in DOMAIN asked' : i \in DOMAIN asked \/ i = n, Served(s)
        PROVE  Served(s)'
    BY <2>2 DEF Served, Watches
  <2>3. CASE asked' = asked \/ \A i \in DOMAIN asked' : asked'[i] = asked[i + 1] /\ i + 1 \in DOMAIN asked
    BY <2>3 DEF Served
  <2>4. ASSUME NEW x \in Channels, NEW op \in Ops,
               asked'[Len(asked) + 1] = [by |-> x, id |-> called[x] + 1, op |-> op],
               \A i \in DOMAIN asked : i \in DOMAIN asked' /\ asked'[i] = asked[i],
               \A i \in DOMAIN asked' : i \in DOMAIN asked \/ i = Len(asked) + 1,
               op.o = "watch" => op.s = Len(flows) + 1
        PROVE  Served(s) => Served(s)'
    BY <2>1, <2>2, <2>4
  <2>. QED  BY <1>1, <2>3, <2>4, AsksOne
<1>4. CASE ~ Touches(s)
  BY <1>1, <1>2, <1>3, <1>4, TouchesOne
<1>5. CASE Feeding /\ s = Head(wire).s
  <2>1. PICK item \in Items :
           \/ Resumed(s, item) \/ Shown(s, item) \/ Noted(s, item) \/ HeldBack(s, item)
           \/ SaidOn(s, item) \/ PassedOn(s, item) \/ Overrun(s, item)
    BY <1>5, FeedingIs
  <2>2. flows[s].start # None => flows'[s].start # None
    BY <2>1 DEF Resumed, Shown, Noted, HeldBack, SaidOn, PassedOn, Overrun, FlowIs, None
  <2>3. flows[s].controller # None => flows'[s].controller # None
    <3>1. item.k = "control" => item.who # None
      BY <2>1, NamesAssumption DEF Items, Outputs, Controllers, None
    <3>. QED  BY <2>1, <3>1 DEF Resumed, Shown, Noted, HeldBack, SaidOn, PassedOn, Overrun, FlowIs
  <2>4. told[s] # <<>> => told'[s] # <<>>
    <3>1. CASE Resumed(s, item) \/ Shown(s, item) \/ Noted(s, item) \/ HeldBack(s, item)
      BY <3>1 DEF Resumed, Shown, Noted, HeldBack
    <3>2. CASE SaidOn(s, item) \/ PassedOn(s, item) \/ Overrun(s, item)
      <4>1. \E w \in Words : told'[s] = Append(told[s], w)
        <5>1. item.k = "control" => <<"control", item.who>> \in Words
          BY DEF Items, Outputs, Words
        <5>2. item.k = "out" => <<"out", item.n>> \in Words
          BY DEF Items, Outputs, Words
        <5>3. <<"over", 0>> \in Words
          BY DEF Words
        <5>. QED  BY <3>2, <5>1, <5>2, <5>3 DEF SaidOn, PassedOn, Overrun
      <4>2. PICK w \in Words : told'[s] = Append(told[s], w)
        BY <4>1
      <4>. QED  BY <1>1, <4>2, ToldAppend
    <3>. QED  BY <2>1, <3>1, <3>2
  <2>. QED  BY <1>2, <1>3, <2>2, <2>3, <2>4
<1>6. ASSUME NEW x \in Channels, s = work[x], Parting(x)
      PROVE  flows'[s] = flows[s] /\ told'[s] # <<>>
  <2>1. <<"done", 0>> \in Words
    BY DEF Words
  <2>2. told \in Seq(Seq(Words)) /\ s \in DOMAIN told
    BY <1>1 DEF Shape, Streams
  <2>3. told'[s] = Append(told[s], <<"done", 0>>) /\ flows' = flows
    BY <1>6, <2>2 DEF Parting
  <2>. QED  BY <1>1, <2>1, <2>3, ToldAppend
<1>7. ASSUME NEW x \in Channels, s = work[x], NEW who, Replying(x, who)
      PROVE  flows'[s].start = flows[s].start /\ flows'[s].controller = flows[s].controller /\ told'[s] # <<>>
  BY <1>7, ReplyingIs, ReplyWhole, ZenonT(60) DEF FlowIs
<1>8. ASSUME NEW x \in Channels, s = Len(flows) + 1, Opening(x) PROVE FALSE
  BY <1>1, <1>8, OfIs
<1>. QED  BY <1>2, <1>3, <1>4, <1>5, <1>6, <1>7, <1>8 DEF Touches

\* A channel only comes to watch a stream it replied of.
LEMMA WatchedIs ==
    ASSUME IInv, SinkStep, NEW x \in Channels, NEW s \in watched'[x]
    PROVE  s \in watched[x] \/ \E who : Replying(x, who) /\ s = work[x]
<1>1. CASE Feeding \/ Passing \/ Beginning \/ Ending \/ Granting \/ Printing \/ Announcing \/ Resting
  BY <1>1 DEF Feeding, Passing, Beginning, Ending, Granting, Serving, Printing, Announcing, Resting
<1>2. ASSUME NEW y \in Channels,
             Opening(y) \/ Wondering(y) \/ (\E z \in Streams : Leaving(y, z)) \/ Parting(y) \/ Abandoning(y)
      PROVE  watched'[x] \subseteq watched[x]
  BY <1>2 DEF Opening, Wondering, Leaving, Parting, Abandoning, Stays, Thread
<1>3. ASSUME NEW y \in Channels, Otherwise(y) PROVE watched'[x] \subseteq watched[x]
  <2>1. \E to \in Steps : \E a, w, ls : Thread(y, to, a, w, watched[y], ls)
    BY <1>3 DEF Otherwise
  <2>. QED  BY <2>1 DEF Thread
<1>4. ASSUME NEW y \in Channels, NEW who, Replying(y, who)
      PROVE  watched'[x] \subseteq watched[x] \/ (x = y /\ watched'[x] \subseteq watched[x] \cup {work[x]})
  BY <1>4 DEF Replying, Thread
<1>. QED  BY <1>1, <1>2, <1>3, <1>4 DEF SinkStep

\* A stream that is waited for keeps its sink, which is told nothing.
LEMMA SinkWaited ==
    ASSUME IInv, [Next]_vars, BeginInv, SinksInv, FedInv, ReadyInv, NEW x \in Channels,
           at[x] \in {"watching", "asking"}, at'[x] \in {"watching", "asking"}, NEW s, s = work[x]
    PROVE  s \in watchers' /\ told'[s] = <<>>
<1>1. SinkStep /\ Shape /\ WorkOurs /\ OrderInv
  BY SinkSteps DEF IInv, StreamsInv
<1>2. s \in Streams /\ Of(s) = x /\ s \in watchers /\ told[s] = <<>> /\ ~ flows[s].replied
  BY <1>1 DEF WorkOurs, ReadyInv, SinksInv, Sunk
<1>3. ASSUME NEW y \in Channels, at[y] \in {"watching", "asking", "detaching"}, work[y] = s PROVE y = x
  BY <1>1, <1>2, <1>3 DEF WorkOurs
<1>4. ASSUME (\E who : Replying(x, who)) \/ Parting(x) \/ Abandoning(x) PROVE FALSE
  <2>1. at'[x] \in {"idle", "dropping"}
    BY <1>4 DEF Replying, Parting, Abandoning, Stays, Thread
  <2>. QED  BY <2>1
<1>5. ASSUME NEW y \in Channels, (\E who : Replying(y, who)) \/ Parting(y) \/ Abandoning(y) PROVE work[y] # s
  <2>1. at[y] \in {"watching", "asking", "detaching"}
    BY <1>5 DEF Replying, Parting, Abandoning
  <2>. QED  BY <1>3, <1>4, <1>5, <2>1
<1>6. CASE Feeding /\ s = Head(wire).s
  <2>1. \E item : Resumed(s, item) \/ Shown(s, item) \/ Noted(s, item) \/ HeldBack(s, item)
                  \/ SaidOn(s, item) \/ PassedOn(s, item) \/ Overrun(s, item)
    BY <1>6, FeedingIs
  <2>. QED  BY <1>2, <2>1 DEF Resumed, Shown, Noted, HeldBack, SaidOn, PassedOn, Overrun
<1>7. CASE ~ (Feeding /\ s = Head(wire).s)
  <2>1. ~ Touches(s)
    BY <1>1, <1>2, <1>5, <1>7, OfIs DEF Touches
  <2>2. told'[s] = <<>>
    BY <1>1, <1>2, <2>1, TouchesOne
  <2>3. CASE Feeding
    <3>1. watchers \ {Head(wire).s} \subseteq watchers'
      <4>1. watchers' \in {watchers, watchers \ {Head(wire).s}}
        BY <2>3 DEF Feeding
      <4>. QED  BY <4>1
    <3>2. s # Head(wire).s
      BY <1>7, <2>3
    <3>. QED  BY <1>2, <2>2, <3>1, <3>2
  <2>4. CASE Passing \/ Beginning \/ Ending \/ Granting \/ Printing \/ Announcing \/ Still
    BY <1>2, <2>4 DEF Passing, Beginning, Ending, Granting, Serving, Printing, Announcing, Still
  <2>5. ASSUME NEW y \in Channels, Opening(y) \/ Wondering(y) \/ Parting(y) \/ Otherwise(y) PROVE s \in watchers'
    BY <1>2, <2>5 DEF Opening, Wondering, Parting, Otherwise, Still
  <2>6. ASSUME NEW y \in Channels, (\E who : Replying(y, who)) \/ Abandoning(y) PROVE s \in watchers'
    <3>1. watchers \ {work[y]} \subseteq watchers'
      BY <2>6 DEF Replying, Abandoning
    <3>. QED  BY <1>2, <1>5, <2>6, <3>1
  <2>7. ASSUME NEW y \in Channels, NEW z \in Streams, Leaving(y, z) PROVE s \in watchers'
    <3>1. told[z] # <<>> /\ watchers' = watchers \ {z}
      BY <2>7 DEF Leaving, ReadyInv
    <3>. QED  BY <1>2, <3>1
  <2>. QED  BY <1>1, <2>2, <2>3, <2>4, <2>5, <2>6, <2>7 DEF SinkStep
<1>. QED  BY <1>6, <1>7

\* What a thread has of its stream.
ReadyAt(x) ==
    /\ at[x] \in {"watching", "asking"} => work[x] \in watchers /\ told[work[x]] = <<>>
    /\ at[x] = "watching" /\ answer[x] # NoAnswer => Ready(work[x])
    /\ at[x] = "asking" => Ready(work[x]) /\ ~ (protocol >= ResumeProtocol)
    /\ at[x] = "detaching" => work[x] \notin watchers /\ told[work[x]] # <<>>
    /\ \A s \in watched[x] : told[s] # <<>>

\* It stays so for every channel.
LEMMA ReadyThread ==
    ASSUME IInv, [Next]_vars, BeginInv, SinksInv, FedInv, ReadyInv, NEW x \in Channels
    PROVE  ReadyAt(x)'
<1>1. SinkStep /\ Shape /\ WorkOurs /\ OrderInv
  BY SinkSteps DEF IInv, StreamsInv
<1>2. ReadyAt(x)
  BY DEF ReadyInv, ReadyAt
<1>3. protocol' = protocol /\ \A s \in Streams : (Ready(s) => Ready(s)') /\ (told[s] # <<>> => told'[s] # <<>>)
  <2>1. ASSUME NEW s \in Streams
        PROVE  /\ Served(s) => Served(s)'
               /\ flows[s].start # None => flows'[s].start # None
               /\ flows[s].controller # None => flows'[s].controller # None
               /\ told[s] # <<>> => told'[s] # <<>>
    BY ReadyStays
  <2>2. protocol' = protocol
    BY <1>1 DEF SinkStep, Feeding, Passing, Beginning, Ending, Granting, Serving, Printing, Announcing, Opening, Replying,
                Wondering, Leaving, Parting, Abandoning, Otherwise, Standing
  <2>. QED  BY <2>1, <2>2 DEF Ready
<1>4. ASSUME NEW s \in watched'[x] PROVE told'[s] # <<>>
  <2>1. CASE s \in watched[x]
    BY <1>1, <1>2, <1>3, <2>1 DEF OrderInv, ReadyAt
  <2>2. ASSUME NEW who, Replying(x, who), s = work[x] PROVE told'[s] # <<>>
    BY <2>2, ReplyWhole
  <2>. QED  BY <1>1, <2>1, <2>2, WatchedIs
<1>5. CASE at'[x] \notin {"watching", "asking", "detaching"}
  BY <1>4, <1>5 DEF ReadyAt
<1>6. CASE Opening(x) /\ at'[x] = "watching" /\ work'[x] = Len(flows) + 1 /\ answer'[x] = NoAnswer
  <2>1. told'[Len(flows) + 1] = <<>> /\ Len(flows) + 1 \in watchers'
    BY <1>1, <1>6, OpenedIs DEF Opening
  <2>. QED  BY <1>4, <1>6, <2>1 DEF ReadyAt
<1>7. CASE Wondering(x) /\ at'[x] = "asking" /\ work'[x] = work[x]
  <2>1. at[x] = "watching" /\ answer[x] # NoAnswer /\ flows[work[x]].controller = None /\ work[x] \in Streams
    BY <1>1, <1>7 DEF Wondering, Answered, WorkOurs
  <2>2. Ready(work[x]) /\ ~ (protocol >= ResumeProtocol)
    BY <1>2, <2>1 DEF ReadyAt, Ready
  <2>3. Ready(work[x])'
    <3>1. PICK s \in Streams : s = work[x]
      BY <2>1
    <3>2. Ready(s)'
      BY <1>3, <2>2, <3>1
    <3>. QED  BY <1>7, <3>1, <3>2
  <2>4. work[x] \in watchers' /\ told'[work[x]] = <<>>
    BY <1>7, <2>1, SinkWaited
  <2>. QED  BY <1>3, <1>4, <1>7, <2>2, <2>3, <2>4 DEF ReadyAt
<1>8. ASSUME NEW s \in Streams, Leaving(x, s), work'[x] = s, at'[x] = "detaching" PROVE ReadyAt(x)'
  <2>1. s \notin watchers' /\ told[s] # <<>>
    BY <1>2, <1>8 DEF Leaving, ReadyAt
  <2>2. told'[s] # <<>>
    BY <1>3, <2>1
  <2>. QED  BY <1>4, <1>8, <2>1, <2>2 DEF ReadyAt
<1>9. CASE /\ at'[x] = at[x] /\ work'[x] = work[x] /\ at[x] \in {"watching", "asking", "detaching"}
           /\ at[x] = "watching" =>
                 answer'[x] = answer[x] \/ (Passing /\ IsAnswer(1) /\ Newest(wire[1]) /\ wire[1].by = x)
  <2>1. PICK s \in Streams : s = work[x]
    BY <1>1, <1>9 DEF WorkOurs
  <2>2. at[x] \in {"watching", "asking"} => s \in watchers' /\ told'[s] = <<>>
    BY <1>9, <2>1, SinkWaited
  <2>3. at[x] = "detaching" => s \notin watchers' /\ told'[s] # <<>>
    BY <1>1, <1>2, <1>3, <2>1, WatchersOld DEF ReadyAt
  <2>4. at[x] = "asking" => Ready(s)' /\ ~ (protocol' >= ResumeProtocol)
    BY <1>2, <1>3, <2>1 DEF ReadyAt
  <2>5. ASSUME at[x] = "watching", answer'[x] # NoAnswer PROVE Ready(s)
    <3>1. CASE answer'[x] = answer[x]
      BY <1>2, <2>1, <2>5, <3>1 DEF ReadyAt
    <3>2. CASE Passing /\ IsAnswer(1) /\ Newest(wire[1]) /\ wire[1].by = x
      <4>1. 1 \in DOMAIN wire /\ DOMAIN wire \subseteq Nat \ {0}
        BY <1>1, <3>2, TakenOff DEF Passing, Taking
      <4>2. \A j \in DOMAIN wire : ~ (j < 1)
        BY <4>1
      <4>. QED  BY <2>1, <2>5, <3>2, <4>1, <4>2 DEF ReadyInv, Ready, BegunBy
    <3>. QED  BY <1>9, <2>5, <3>1, <3>2
  <2>6. at[x] = "watching" /\ answer'[x] # NoAnswer => Ready(s)'
    BY <1>3, <2>5
  <2>7. s = work'[x]
    BY <1>9, <2>1
  <2>. QED  BY <1>4, <1>9, <2>2, <2>3, <2>4, <2>6, <2>7 DEF ReadyAt
<1>. QED  BY <1>5, <1>6, <1>7, <1>8, <1>9, WaitingIs

\* What a channel asked last it asked before, unless it asks now.
LEMMA NewestOld ==
    ASSUME IInv, [Next]_vars, NEW r, r.by \in Channels, r.id \in Nat, r.id <= called[r.by], Newest(r)'
    PROVE  Newest(r) /\ at'[r.by] = at[r.by] /\ work'[r.by] = work[r.by]
<1>1. Shape /\ WaitsInv /\ CallsInv /\ WorkOurs /\ OrderInv
  BY DEF IInv, StreamsInv
<1>2. ASSUME NEW x \in Channels, ThreadStep(x)
      PROVE  Newest(r) /\ at'[r.by] = at[r.by] /\ work'[r.by] = work[r.by]
  BY <1>1, <1>2, NewestStays
<1>3. ASSUME pending' \subseteq pending, called' = called, at' = at, \A y \in Channels : work'[y] = work[y]
      PROVE  Newest(r) /\ at'[r.by] = at[r.by] /\ work'[r.by] = work[r.by]
  BY <1>3 DEF Newest
<1>4. CASE Answering
  <2>1. \E items, a : Tells(items, a)
    BY <1>4 DEF Answering
  <2>. QED  BY <1>3, <2>1 DEF Tells
<1>5. CASE Speaks
  BY <1>3, <1>5 DEF Speaks, Says
<1>6. CASE Reads
  BY <1>3, <1>6 DEF Reads
<1>7. CASE Elsewhere
  BY <1>3, <1>7 DEF Elsewhere, NoAsk
<1>. QED  BY <1>1, <1>2, <1>4, <1>5, <1>6, <1>7, NextIs

\* A request, and an answer, belong to a channel that made as many.
LEMMA CallIs ==
    ASSUME Shape, CallsInv
    PROVE  /\ \A i \in DOMAIN asked :
                 asked[i].by \in Channels /\ asked[i].id \in Nat /\ asked[i].id <= called[asked[i].by]
           /\ \A i \in DOMAIN wire : IsAnswer(i) =>
                 wire[i].by \in Channels /\ wire[i].id \in Nat /\ wire[i].id <= called[wire[i].by]
<1>1. \A i \in DOMAIN asked : asked[i] \in Requests
  BY DEF Shape
<1>2. \A i \in DOMAIN wire : wire[i] \in Frames
  BY DEF Shape
<1>3. \A i \in DOMAIN asked : asked[i].by \in Channels /\ asked[i].id \in Nat
  BY <1>1 DEF Requests
<1>4. \A i \in DOMAIN wire : IsAnswer(i) => wire[i].by \in Channels /\ wire[i].id \in Nat
  BY <1>2 DEF Frames, AnswerFrames, ItemFrames, IsAnswer
<1>. QED  BY <1>3, <1>4 DEF CallsInv

\* Who waits for a stream has asked for it.
LEMMA ReadyAsked ==
    ASSUME IInv, [Next]_vars, ReadyInv, NEW i \in DOMAIN asked', Newest(asked[i])', at'[asked'[i].by] = "watching"
    PROVE  Watches(asked'[i], work'[asked'[i].by])
<1>1. SinkStep /\ Shape /\ CallsInv
  BY SinkSteps DEF IInv
<1>2. ASSUME NEW j \in DOMAIN asked, asked'[i] = asked[j] PROVE Watches(asked'[i], work'[asked'[i].by])
  <2>1. PICK r : r = asked[j]
    OBVIOUS
  <2>2. /\ r.by \in Channels /\ r.id \in Nat /\ r.id <= called[r.by] /\ at'[r.by] = "watching"
        /\ Newest(r)'
    <3>1. r.by \in Channels /\ r.id \in Nat /\ r.id <= called[r.by]
      BY <1>1, <2>1, CallIs
    <3>2. r = asked'[i]
      BY <1>2, <2>1
    <3>. QED  BY <3>1, <3>2 DEF Newest
  <2>3. Newest(r) /\ at'[r.by] = at[r.by] /\ work'[r.by] = work[r.by]
    BY <2>2, NewestOld
  <2>4. Watches(r, work[r.by])
    BY <2>1, <2>2, <2>3 DEF ReadyInv
  <2>. QED  BY <1>2, <2>1, <2>3, <2>4
<1>3. ASSUME NEW x \in Channels, NEW op \in Ops, Asks(x, op),
             asked'[i] = [by |-> x, id |-> called[x] + 1, op |-> op],
             op.o = "watch" => Opening(x) /\ op.s = Len(flows) + 1
      PROVE  Watches(asked'[i], work'[asked'[i].by])
  <2>1. at'[x] = "watching" /\ called'[x] = called[x] + 1 /\ called[x] \in Nat
    BY <1>1, <1>3, AsksThen DEF Shape
  <2>2. CASE Opening(x)
    <3>1. PICK after \in Int : Asks(x, [o |-> "watch", s |-> Len(flows) + 1, after |-> after])
      BY <2>2 DEF Opening
    <3>2. op = [o |-> "watch", s |-> Len(flows) + 1, after |-> after]
      <4>. DEFINE r1 == [by |-> x, id |-> called[x] + 1, op |-> op]
                  wop == [o |-> "watch", s |-> Len(flows) + 1, after |-> after]
                  r2 == [by |-> x, id |-> called[x] + 1, op |-> wop]
      <4>1. wop \in Ops
        <5>1. Len(flows) + 1 \in Nat
          BY <1>1, OfIs
        <5>. QED  BY <5>1 DEF Ops
      <4>2. r1.op = op /\ r2.op = wop
        OBVIOUS
      <4>. HIDE DEF wop
      <4>3. asked'[Len(asked) + 1] = r1 /\ asked'[Len(asked) + 1] = r2
        BY <1>1, <1>3, <3>1, <4>1, AsksThen DEF wop
      <4>. HIDE DEF r1, r2
      <4>. QED  BY <4>2, <4>3 DEF wop
    <3>3. work'[x] = Len(flows) + 1
      BY <2>2 DEF Opening, Thread
    <3>. QED  BY <1>3, <3>2, <3>3 DEF Watches
  <2>3. CASE ~ Opening(x)
    <3>1. called'[x] = called[x]
      BY <2>1, <2>3, WaitingIs
    <3>. QED  BY <2>1, <3>1
  <2>. QED  BY <2>2, <2>3
<1>. QED  BY <1>1, <1>2, <1>3, AsksOne

\* The beginning that an answer follows is at the sink when it is off the wire.
LEMMA BegunTaken ==
    ASSUME IInv, [Next]_vars, BeginInv, SinksInv, FedInv, ReadyInv, Taking, Feeding \/ Passing,
           NEW i \in DOMAIN wire', NEW s \in watchers, told[s] = <<>>, BegunBy(i + 1, s)
    PROVE  BegunBy(i, s)'
<1>1. s \in Streams
  BY DEF IInv, Shape
<1>2. /\ Served(s)' /\ protocol' = protocol
      /\ flows[s].start # None => flows'[s].start # None
      /\ flows[s].controller # None => flows'[s].controller # None
  BY <1>1, ReadyStays DEF BegunBy
<1>3. /\ 1 \in DOMAIN wire /\ Head(wire) = wire[1]
      /\ DOMAIN wire \subseteq Nat \ {0} /\ DOMAIN wire' \subseteq Nat \ {0}
      /\ \A j \in DOMAIN wire : j # 1 => j - 1 \in DOMAIN wire' /\ wire'[j - 1] = wire[j]
  BY DEF Taking
<1>4. ASSUME Mine(1, s) PROVE Feeding /\ s = Head(wire).s
  <2>1. ~ Passing
    BY <1>3, <1>4 DEF Mine, Passing
  <2>. QED  BY <1>3, <1>4, <2>1 DEF Mine
<1>5. ASSUME Mine(1, s)
      PROVE  /\ Begins(1, s) => flows'[s].start # None
             /\ Names(1, s) => flows'[s].controller # None
  <2>1. PICK item \in Items :
           /\ wire[1].item = item
           /\ \/ Resumed(s, item) \/ Shown(s, item) \/ Noted(s, item) \/ HeldBack(s, item)
              \/ SaidOn(s, item) \/ PassedOn(s, item) \/ Overrun(s, item)
    BY <1>4, <1>5, FeedingIs
  <2>2. ~ flows[s].replied
    BY <1>1 DEF SinksInv, Sunk
  <2>3. item.k = "control" => item.who # None
    BY NamesAssumption DEF Items, Outputs, Controllers, None
  <2>4. Begins(1, s) => item.k \in {"snapshot", "resumed"}
    BY <2>1 DEF Begins
  <2>5. Names(1, s) => item.k = "control"
    BY <2>1 DEF Names
  <2>6. CASE Resumed(s, item) \/ Shown(s, item) \/ HeldBack(s, item)
    BY <2>4, <2>5, <2>6 DEF Resumed, Shown, HeldBack, FlowIs, None
  <2>7. CASE Noted(s, item)
    BY <2>3, <2>4, <2>7 DEF Noted, FlowIs
  <2>8. ~ (SaidOn(s, item) \/ PassedOn(s, item) \/ Overrun(s, item))
    BY <2>2 DEF SaidOn, PassedOn, Overrun
  <2>. QED  BY <2>1, <2>6, <2>7, <2>8
<1>6. ASSUME NEW j \in DOMAIN wire, j < i + 1, j # 1, Mine(j, s)
      PROVE  /\ j - 1 \in DOMAIN wire' /\ j - 1 < i
             /\ Begins(j, s) => Begins(j - 1, s)'
             /\ Names(j, s) => Names(j - 1, s)'
  <2>1. j - 1 \in DOMAIN wire' /\ j - 1 < i /\ wire'[j - 1] = wire[j]
    BY <1>3, <1>6
  <2>. QED  BY <2>1 DEF Begins, Names, Mine
<1>7. flows'[s].start # None \/ \E j \in DOMAIN wire' : j < i /\ Begins(j, s)'
  <2>1. SUFFICES ASSUME NEW j \in DOMAIN wire, j < i + 1, Begins(j, s)
                 PROVE  flows'[s].start # None \/ \E k \in DOMAIN wire' : k < i /\ Begins(k, s)'
    BY <1>2 DEF BegunBy
  <2>2. Mine(j, s)
    BY <2>1 DEF Begins
  <2>. QED  BY <1>5, <1>6, <2>1, <2>2
<1>8. ASSUME protocol >= ResumeProtocol
      PROVE  flows'[s].controller # None \/ \E j \in DOMAIN wire' : j < i /\ Names(j, s)'
  <2>1. SUFFICES ASSUME NEW j \in DOMAIN wire, j < i + 1, Names(j, s)
                 PROVE  flows'[s].controller # None \/ \E k \in DOMAIN wire' : k < i /\ Names(k, s)'
    BY <1>2, <1>8 DEF BegunBy
  <2>2. Mine(j, s)
    BY <2>1 DEF Names
  <2>. QED  BY <1>5, <1>6, <2>1, <2>2
<1>. QED  BY <1>2, <1>7, <1>8 DEF BegunBy

\* It stays before it.
LEMMA BegunKept ==
    ASSUME IInv, [Next]_vars, BeginInv, SinksInv, FedInv, ReadyInv, NEW i, NEW s \in Streams, BegunBy(i, s),
           \A j \in DOMAIN wire : j \in DOMAIN wire' /\ wire'[j] = wire[j]
    PROVE  BegunBy(i, s)'
<1>1. /\ Served(s)' /\ protocol' = protocol
      /\ flows[s].start # None => flows'[s].start # None
      /\ flows[s].controller # None => flows'[s].controller # None
  BY ReadyStays DEF BegunBy
<1>2. \A j \in DOMAIN wire : j \in DOMAIN wire' /\ (Begins(j, s) => Begins(j, s)') /\ (Names(j, s) => Names(j, s)')
  BY DEF Begins, Names, Mine
<1>. QED  BY <1>1, <1>2 DEF BegunBy

\* An answer that just came follows it.
LEMMA BegunNow ==
    ASSUME IInv, [Next]_vars, BeginInv, Beginning, NEW s, s = Head(asked).op.s,
           NEW i \in DOMAIN wire', i \notin DOMAIN wire, wire'[i].f = "answer"
    PROVE  BegunBy(i, s)'
<1>1. /\ s \in Streams /\ protocol' = protocol
      /\ \E b \in Nat \ {0}, m \in Nat \ {0}, w \in {0, 1}, after \in Int : BegunAt(s, b, m, w, after)
  BY BegunIs
<1>2. PICK b \in Nat \ {0}, m \in Nat \ {0}, w \in {0, 1}, after \in Int : BegunAt(s, b, m, w, after)
  BY <1>1
<1>3. i > b + m + w - 1 /\ DOMAIN wire' \subseteq Int /\ \A j \in b .. b + m + w - 1 : j \in DOMAIN wire'
  BY <1>2 DEF BegunAt
<1>4. b \in DOMAIN wire' /\ b < i
  <2>1. b \in b .. b + m + w - 1 /\ b < i
    BY <1>3
  <2>. QED  BY <1>3, <2>1
<1>5. Begins(b, s)'
  <2>1. wire'[b] = Item(s, [k |-> "snapshot", n |-> seq]) \/ wire'[b] = Item(s, [k |-> "resumed", n |-> after])
    BY <1>2 DEF BegunAt
  <2>. QED  BY <2>1 DEF Begins, Mine, Item
<1>6. ASSUME protocol >= ResumeProtocol PROVE b + m \in DOMAIN wire' /\ b + m < i /\ Names(b + m, s)'
  <2>1. w = 1 /\ wire'[b + m] = Item(s, [k |-> "control", who |-> control.who])
    BY <1>2, <1>6 DEF BegunAt
  <2>2. b + m \in b .. b + m + w - 1 /\ b + m < i
    BY <1>3, <2>1
  <2>3. b + m \in DOMAIN wire'
    BY <1>3, <2>2
  <2>. QED  BY <2>1, <2>2, <2>3 DEF Names, Mine, Item
<1>7. Served(s)'
  <2>1. Watches(asked[1], s) /\ asked # <<>> /\ asked' = Tail(asked)
    BY BeginningSays DEF Beginning, Serving
  <2>2. asked \in Seq(Requests)
    BY DEF IInv, Shape
  <2>3. 1 \in DOMAIN asked /\ DOMAIN asked' \subseteq Nat \ {0}
        /\ \A j \in DOMAIN asked' : asked'[j] = asked[j + 1] /\ j + 1 \in DOMAIN asked
    BY <2>1, <2>2, TailIs
  <2>4. ASSUME NEW j \in DOMAIN asked', Watches(asked'[j], s) PROVE FALSE
    <3>1. j + 1 \in DOMAIN asked /\ Watches(asked[j + 1], s) /\ j + 1 # 1
      BY <2>3, <2>4
    <3>. QED  BY <1>1, <2>1, <2>3, <3>1 DEF BeginInv
  <2>. QED  BY <2>4 DEF Served
<1>. QED  BY <1>1, <1>4, <1>5, <1>6, <1>7 DEF BegunBy

\* The first frame goes, or all stay; an answer that comes is to the request that was served.
LEMMA WireSteps ==
    ASSUME IInv, [Next]_vars
    PROVE  \/ Taking /\ (Feeding \/ Passing)
           \/ /\ \A j \in DOMAIN wire : j \in DOMAIN wire' /\ wire'[j] = wire[j]
              /\ \A i \in DOMAIN wire' : i \notin DOMAIN wire /\ wire'[i].f = "answer" =>
                    /\ wire'[i].by = asked[1].by /\ wire'[i].id = asked[1].id
                    /\ 1 \in DOMAIN asked /\ asked[1] = Head(asked) /\ asked[1].by \in Channels
                    /\ Beginning \/ asked[1].op.o # "watch"
                    /\ UNCHANGED <<pending, called, at, work>>
<1>0. Shape /\ SinkStep
  BY SinkSteps DEF IInv
<1>. DEFINE Stayed == \A j \in DOMAIN wire : j \in DOMAIN wire' /\ wire'[j] = wire[j]
            To(i) == /\ wire'[i].by = asked[1].by /\ wire'[i].id = asked[1].id
                     /\ 1 \in DOMAIN asked /\ asked[1] = Head(asked) /\ asked[1].by \in Channels
                     /\ Beginning \/ asked[1].op.o # "watch"
                     /\ UNCHANGED <<pending, called, at, work>>
            Fine == Stayed /\ \A i \in DOMAIN wire' : i \notin DOMAIN wire /\ wire'[i].f = "answer" => To(i)
<1>1. CASE Feeding \/ Passing
  BY <1>0, <1>1, TakenOff DEF Feeding, Passing
<1>2. ASSUME NEW items \in Seq(ItemFrames), NEW a \in Answers, Serving(items, a),
             Beginning \/ Head(asked).op.o # "watch"
      PROVE  Fine
  <2>1. /\ Grown(items) /\ asked[1] = Head(asked) /\ 1 \in DOMAIN asked /\ Head(asked) \in Requests
        /\ \A i \in DOMAIN wire' : wire'[i].f = "answer" /\ i \notin DOMAIN wire =>
              wire'[i] = [f |-> "answer", by |-> Head(asked).by, id |-> Head(asked).id, a |-> a]
    BY <1>0, <1>2, ServedGrown
  <2>2. Stayed
    BY <2>1 DEF Grown
  <2>3. UNCHANGED <<pending, called, at, work>>
    BY <1>2 DEF Serving, Resting
  <2>4. asked[1].by \in Channels
    BY <2>1 DEF Requests
  <2>5. ASSUME NEW i \in DOMAIN wire', i \notin DOMAIN wire, wire'[i].f = "answer" PROVE To(i)
    <3>1. wire'[i] = [f |-> "answer", by |-> Head(asked).by, id |-> Head(asked).id, a |-> a]
      BY <2>1, <2>5
    <3>2. wire'[i].by = Head(asked).by /\ wire'[i].id = Head(asked).id
      BY <3>1
    <3>. QED  BY <1>2, <2>1, <2>3, <2>4, <3>2
  <2>. QED  BY <2>2, <2>5
<1>3. CASE Beginning
  <2>1. PICK items \in Seq(ItemFrames) : Serving(items, Done)
    BY <1>3, BeginningSays
  <2>. QED  BY <1>2, <1>3, <2>1 DEF Answers
<1>4. CASE Ending
  <2>1. Serving(<<>>, Done) /\ <<>> \in Seq(ItemFrames) /\ Head(asked).op.o # "watch"
    BY <1>4 DEF Ending
  <2>. QED  BY <1>2, <2>1 DEF Answers
<1>5. CASE Granting
  <2>1. PICK items \in Seq(ItemFrames), a \in Answers : Serving(items, a)
    BY <1>5, SaidTo DEF Granting
  <2>2. Head(asked).op.o # "watch"
    BY <1>5 DEF Granting
  <2>. QED  BY <1>2, <2>1, <2>2
<1>6. ASSUME NEW items \in Seq(ItemFrames), wire' = wire \o items PROVE Fine
  <2>1. Grown(items)
    BY <1>0, <1>6, SaidGrown
  <2>2. Stayed
    BY <2>1 DEF Grown
  <2>3. ASSUME NEW i \in DOMAIN wire', i \notin DOMAIN wire PROVE wire'[i].f # "answer"
    <3>1. wire \in Seq(Frames) /\ items \in Seq(Frames)
      BY <1>0 DEF Shape, Frames
    <3>2. i - Len(wire) \in 1 .. Len(items) /\ wire'[i] = items[i - Len(wire)]
      BY <1>6, <2>3, <3>1, ConcatIs
    <3>3. items[i - Len(wire)] \in ItemFrames
      BY <3>2
    <3>. QED  BY <3>2, <3>3 DEF ItemFrames
  <2>. QED  BY <2>2, <2>3
<1>7. CASE Printing \/ Announcing
  BY <1>6, <1>7, SaidTo DEF Printing, Announcing
<1>8. ASSUME wire' = wire PROVE Fine
  BY <1>8
<1>9. \/ Feeding \/ Passing \/ Beginning \/ Ending \/ Granting \/ Announcing \/ Printing \/ wire' = wire
  BY <1>0 DEF SinkStep, Opening, Replying, Wondering, Leaving, Parting, Abandoning, Otherwise, Asks, NoAsk
<1>. QED  BY <1>1, <1>3, <1>4, <1>5, <1>7, <1>8, <1>9

\* Who waits for a stream is answered after its beginning.
LEMMA ReadyAnswered ==
    ASSUME IInv, [Next]_vars, BeginInv, SinksInv, FedInv, ReadyInv, NEW i \in DOMAIN wire', IsAnswer(i)',
           Newest(wire[i])', NEW x, x = wire'[i].by, at'[x] = "watching", NEW s, s = work'[x]
    PROVE  BegunBy(i, s)'
<1>0. Shape /\ SinkStep /\ CallsInv /\ WorkOurs
  BY SinkSteps DEF IInv, StreamsInv
<1>1. ASSUME NEW j \in DOMAIN wire, wire'[i] = wire[j]
      PROVE  BegunBy(j, s) /\ s \in watchers /\ told[s] = <<>>
  <2>1. PICK r : r = wire[j]
    OBVIOUS
  <2>2. IsAnswer(j) /\ r.by = x /\ r.by \in Channels /\ r.id \in Nat /\ r.id <= called[r.by]
    BY <1>0, <1>1, <2>1, CallIs DEF IsAnswer
  <2>3. Newest(r)'
    <3>1. r = wire'[i]
      BY <1>1, <2>1
    <3>. QED  BY <3>1 DEF Newest
  <2>4. Newest(r) /\ at'[r.by] = at[r.by] /\ work'[r.by] = work[r.by]
    BY <2>2, <2>3, NewestOld
  <2>5. at[x] = "watching" /\ s = work[x] /\ Newest(wire[j]) /\ wire[j].by = x
    BY <2>1, <2>2, <2>4
  <2>. QED  BY <2>2, <2>5 DEF ReadyInv
<1>2. CASE Taking /\ (Feeding \/ Passing)
  <2>1. i + 1 \in DOMAIN wire /\ wire'[i] = wire[i + 1]
    BY <1>2 DEF Taking
  <2>2. BegunBy(i + 1, s) /\ s \in watchers /\ told[s] = <<>>
    BY <1>1, <2>1
  <2>. QED  BY <1>2, <2>2, BegunTaken
<1>3. CASE i \in DOMAIN wire /\ \A j \in DOMAIN wire : j \in DOMAIN wire' /\ wire'[j] = wire[j]
  <2>1. BegunBy(i, s) /\ s \in Streams
    BY <1>0, <1>1, <1>3 DEF Shape
  <2>. QED  BY <1>3, <2>1, BegunKept
<1>4. CASE /\ i \notin DOMAIN wire /\ wire'[i].by = asked[1].by /\ wire'[i].id = asked[1].id
           /\ 1 \in DOMAIN asked /\ asked[1] = Head(asked) /\ asked[1].by \in Channels
           /\ Beginning \/ asked[1].op.o # "watch"
           /\ UNCHANGED <<pending, called, at, work>>
  <2>1. Newest(asked[1]) /\ at[asked[1].by] = "watching" /\ s = work[asked[1].by]
    BY <1>4 DEF Newest
  <2>2. Watches(asked[1], s)
    BY <1>4, <2>1 DEF ReadyInv
  <2>3. Beginning /\ s = Head(asked).op.s
    BY <1>4, <2>2 DEF Watches
  <2>. QED  BY <1>4, <2>3, BegunNow DEF IsAnswer
<1>. QED  BY <1>2, <1>3, <1>4, WireSteps DEF IsAnswer

\* Each step.
LEMMA ReadyNext == ASSUME IInv, [Next]_vars, BeginInv, SinksInv, FedInv, ReadyInv PROVE ReadyInv'
<1>1. \A x \in Channels : ReadyAt(x)'
  BY ReadyThread
<1>2. ASSUME NEW i \in DOMAIN asked', Newest(asked[i])', at'[asked'[i].by] = "watching"
      PROVE  Watches(asked[i], work[asked[i].by])'
  BY <1>2, ReadyAsked DEF Watches
<1>3. ASSUME NEW i \in DOMAIN wire', IsAnswer(i)', Newest(wire[i])', at'[wire'[i].by] = "watching"
      PROVE  BegunBy(i, work[wire[i].by])'
  <2>1. PICK x, s : x = wire'[i].by /\ s = work'[x]
    OBVIOUS
  <2>2. BegunBy(i, s)'
    BY <1>3, <2>1, ReadyAnswered
  <2>. QED  BY <2>1, <2>2
<1>. QED  BY <1>1, <1>2, <1>3 DEF ReadyInv, ReadyAt

---------------------------------------------------------------------------
\* What was recorded

\* A set of natural numbers has a least element.
LEMMA LeastIs == ASSUME NEW T \in SUBSET Nat, T # {} PROVE \E x \in T : \A y \in T : x <= y
<1>. DEFINE R == OpToRel(<, Nat)
<1>1. \A x, y \in Nat : x < y => <<x, y>> \in R
  BY Zenon DEF OpToRel
<1>2. IsWellFoundedOn(R, Nat)
  BY NatLessThanWellFounded
<1>. HIDE DEF R
<1>3. PICK x \in T : \A y \in T : ~ (<<y, x>> \in R)
  BY <1>2, WFMin
<1>4. \A y \in T : ~ (y < x)
  BY <1>1, <1>3
<1>. QED  BY <1>4

\* A sequence lists a set in order; the numbers of a set below a bound.
Ordered(S, q) == q \in [1 .. Cardinality(S) -> S] /\ \A i, j \in DOMAIN q : i < j => q[i] < q[j]

Under(S, k) == {n \in S : n < k}

\* What is in the set of those below a bound.
LEMMA UnderIs == ASSUME NEW S, NEW k, NEW n PROVE n \in Under(S, k) <=> n \in S /\ n < k
  BY DEF Under

\* The numbers of a set below a bound can be put in order.
LEMMA OrderedIs ==
    ASSUME NEW S \in SUBSET Nat, NEW b \in Nat, \A n \in S : n < b
    PROVE  IsFiniteSet(S) /\ \E q : Ordered(S, q)
<1>. DEFINE T == {k \in Nat : k <= b /\ ~ \E q : Ordered(Under(S, k), q)}
<1>1. \A k \in Nat : IsFiniteSet(Under(S, k)) /\ Cardinality(Under(S, k)) \in Nat
  <2>1. SUFFICES ASSUME NEW k \in Nat PROVE IsFiniteSet(Under(S, k)) /\ Cardinality(Under(S, k)) \in Nat
    OBVIOUS
  <2>2. IsFiniteSet(0 .. k) /\ Under(S, k) \in SUBSET (0 .. k)
    <3>1. \A n \in Under(S, k) : n \in 0 .. k
      <4>1. \A n \in S : n < k => n \in 0 .. k
        OBVIOUS
      <4>. QED  BY <4>1 DEF Under
    <3>. QED  BY <3>1, FS_Interval
  <2>3. IsFiniteSet(Under(S, k))
    BY <2>2, FS_Subset
  <2>. QED  BY <2>3, FS_CardinalityType
<1>2. 0 \notin T
  <2>1. Under(S, 0) = {}
    <3>1. \A n \in S : ~ (n < 0)
      OBVIOUS
    <3>. QED  BY <3>1 DEF Under
  <2>2. Cardinality(Under(S, 0)) = 0
    BY <2>1, FS_EmptySet
  <2>3. Ordered(Under(S, 0), <<>>)
    <3>1. 1 .. 0 = {} /\ DOMAIN <<>> = {} /\ <<>> \in [{} -> {}]
      OBVIOUS
    <3>. QED  BY <2>1, <2>2, <3>1 DEF Ordered
  <2>. QED  BY <2>3
<1>3. ASSUME NEW k \in Nat, NEW q, Ordered(Under(S, k), q) PROVE \E r : Ordered(Under(S, k + 1), r)
  <2>1. CASE k \notin S
    <3>1. Under(S, k + 1) = Under(S, k)
      <4>1. ASSUME NEW n PROVE n \in Under(S, k + 1) <=> n \in Under(S, k)
        <5>1. n \in S => (n < k + 1 <=> n < k)
          BY <2>1
        <5>. QED  BY <5>1, UnderIs
      <4>. QED  BY <4>1
    <3>. QED  BY <1>3, <3>1
  <2>2. CASE k \in S
    <3>1. Under(S, k + 1) = Under(S, k) \cup {k} /\ k \notin Under(S, k)
      <4>1. ASSUME NEW n PROVE n \in Under(S, k + 1) <=> n \in Under(S, k) \/ n = k
        <5>1. n \in S => (n < k + 1 <=> n < k \/ n = k)
          OBVIOUS
        <5>. QED  BY <2>2, <5>1, UnderIs
      <4>2. k \notin Under(S, k)
        BY DEF Under
      <4>. QED  BY <4>1, <4>2
    <3>. DEFINE B == Under(S, k)
                c == Cardinality(B)
                C == Under(S, k + 1)
                r == [i \in 1 .. c + 1 |-> IF i = c + 1 THEN k ELSE q[i]]
    <3>2. Cardinality(C) = c + 1 /\ c \in Nat
      BY <1>1, <3>1, FS_AddElement
    <3>3. B \subseteq C /\ k \in C /\ \A n \in B : n < k /\ n \in Nat
      BY <3>1 DEF Under
    <3>4. DOMAIN q = 1 .. c /\ (\A i \in 1 .. c : q[i] \in B) /\ \A i, j \in 1 .. c : i < j => q[i] < q[j]
      BY <1>3 DEF Ordered
    <3>. HIDE DEF B, c, C
    <3>5. \A i \in 1 .. c + 1 : i # c + 1 => i \in 1 .. c
      BY <3>2
    <3>6. r \in [1 .. c + 1 -> C]
      BY <3>3, <3>4, <3>5
    <3>7. ASSUME NEW i \in 1 .. c + 1, NEW j \in 1 .. c + 1, i < j PROVE r[i] < r[j]
      <4>1. i \in 1 .. c
        BY <3>2, <3>7
      <4>2. i # c + 1
        BY <3>2, <4>1
      <4>3. CASE j = c + 1
        BY <3>3, <3>4, <4>1, <4>2, <4>3
      <4>4. CASE j # c + 1
        BY <3>4, <3>5, <3>7, <4>1, <4>2, <4>4
      <4>. QED  BY <4>3, <4>4
    <3>. QED  BY <3>2, <3>6, <3>7 DEF Ordered, C
  <2>. QED  BY <2>1, <2>2
<1>4. T = {}
  <2>1. SUFFICES ASSUME T # {} PROVE FALSE
    OBVIOUS
  <2>2. PICK k \in T : \A y \in T : k <= y
    BY <2>1, LeastIs
  <2>3. k \in Nat /\ k # 0 /\ k <= b
    BY <1>2, <2>2
  <2>4. k - 1 \in Nat /\ k - 1 \notin T /\ k - 1 <= b /\ (k - 1) + 1 = k
    <3>1. k - 1 \in Nat /\ ~ (k <= k - 1) /\ k - 1 <= b /\ (k - 1) + 1 = k
      BY <2>3
    <3>. HIDE DEF T
    <3>. QED  BY <2>2, <3>1
  <2>5. PICK q : Ordered(Under(S, k - 1), q)
    BY <2>4
  <2>6. \E r : Ordered(Under(S, (k - 1) + 1), r)
    BY <1>3, <2>4, <2>5
  <2>. QED  BY <2>2, <2>4, <2>6
<1>5. Under(S, b) = S
  BY DEF Under
<1>. QED  BY <1>1, <1>4, <1>5

\* What is on show of a log after one place, up to another.
OnShow(l, from, to) == {n \in from + 1 .. to : l[n] = "shown"}

\* A sequence lists what is on show of a log in order.
Lists(l, t, from, to) ==
    /\ t \in Seq(Nat)
    /\ \A i, j \in DOMAIN t : i < j => t[i] < t[j]
    /\ {t[i] : i \in DOMAIN t} = OnShow(l, from, to)

\* A list has what is on show, and nothing else.
LEMMA ListsIs ==
    ASSUME NEW l, NEW t, NEW from, NEW to
    PROVE  Lists(l, t, from, to) <=>
               /\ t \in Seq(Nat)
               /\ \A i, j \in DOMAIN t : i < j => t[i] < t[j]
               /\ \A i \in DOMAIN t : t[i] \in OnShow(l, from, to)
               /\ \A n \in OnShow(l, from, to) : \E i \in DOMAIN t : n = t[i]
<1>1. {t[i] : i \in DOMAIN t} = OnShow(l, from, to) <=>
          /\ \A i \in DOMAIN t : t[i] \in OnShow(l, from, to)
          /\ \A n \in OnShow(l, from, to) : \E i \in DOMAIN t : n = t[i]
  <2>. DEFINE W == OnShow(l, from, to)
  <2>. HIDE DEF W
  <2>1. {t[i] : i \in DOMAIN t} = W <=> /\ \A i \in DOMAIN t : t[i] \in W
                                        /\ \A n \in W : \E i \in DOMAIN t : n = t[i]
    OBVIOUS
  <2>. QED  BY <2>1 DEF W
<1>. QED  BY <1>1 DEF Lists

\* Nothing is on show between a place and itself.
LEMMA ListsNone == ASSUME NEW l, NEW from \in Nat PROVE Lists(l, <<>>, from, from)
<1>1. \A n : n \notin OnShow(l, from, from)
  <2>1. from + 1 .. from = {}
    OBVIOUS
  <2>. QED  BY <2>1 DEF OnShow
<1>2. <<>> \in Seq(Nat) /\ \A i : i \notin DOMAIN <<>>
  OBVIOUS
<1>. QED  BY <1>1, <1>2, ListsIs

\* What is recorded from one place to another lists what is on show of the log there.
LEMMA RecordedLists == ASSUME NEW from \in Nat, NEW to \in Nat PROVE Lists(log, Recorded(from, to), from, to)
<1>. SUFFICES ASSUME NEW r, r = Recorded(from, to), NEW shown, shown = OnShow(log, from, to)
              PROVE  Lists(log, r, from, to)
  OBVIOUS
<1>1. shown \in SUBSET Nat /\ to + 1 \in Nat /\ \A n \in shown : n < to + 1
  BY DEF OnShow
<1>2. IsFiniteSet(shown) /\ \E q : Ordered(shown, q)
  BY <1>1, OrderedIs
<1>3. Ordered(shown, r)
  <2>1. r = CHOOSE q \in [1 .. Cardinality(shown) -> shown] : \A i, j \in DOMAIN q : i < j => q[i] < q[j]
    BY DEF Recorded, OnShow
  <2>2. \E q \in [1 .. Cardinality(shown) -> shown] : \A i, j \in DOMAIN q : i < j => q[i] < q[j]
    BY <1>2 DEF Ordered
  <2>. QED  BY <2>1, <2>2 DEF Ordered
<1>. DEFINE c == Cardinality(shown)
<1>4. c \in Nat
  BY <1>2, FS_CardinalityType
<1>5. r \in [1 .. c -> shown] /\ \A i, j \in 1 .. c : i < j => r[i] < r[j]
  BY <1>3 DEF Ordered
<1>6. r \in Injection(1 .. c, shown)
  <2>1. ASSUME NEW i \in 1 .. c, NEW j \in 1 .. c, r[i] = r[j] PROVE i = j
    <3>1. r[i] \in Nat /\ r[j] \in Nat
      BY <1>1, <1>5
    <3>2. i < j \/ j < i \/ i = j
      BY <1>4
    <3>. QED  BY <1>5, <2>1, <3>1, <3>2
  <2>. QED  BY <1>5, <2>1 DEF Injection, IsInjective
<1>7. Cardinality(1 .. c) = c
  BY <1>4, FS_Interval
<1>. HIDE DEF c
<1>8. r \in Surjection(1 .. c, shown)
  BY <1>2, <1>6, <1>7, FS_Injection DEF c
<1>9. \A n \in shown : \E i \in 1 .. c : n = r[i]
  BY <1>8 DEF Surjection
<1>10. r \in Seq(Nat) /\ Len(r) = c /\ DOMAIN r = 1 .. c
  <2>1. r \in [1 .. c -> Nat]
    BY <1>1, <1>5
  <2>. QED  BY <1>4, <2>1
<1>. QED  BY <1>5, <1>9, <1>10, ListsIs, SMTT(30)

\* A list up to a place and one from there on are one list.
LEMMA ListsOn ==
    ASSUME NEW l, NEW t, NEW u, NEW from \in Nat, NEW mid \in Nat, NEW to \in Nat, from <= mid, mid <= to,
           Lists(l, t, from, mid), Lists(l, u, mid, to)
    PROVE  Lists(l, t \o u, from, to)
<1>1. /\ t \in Seq(Nat) /\ (\A i, j \in DOMAIN t : i < j => t[i] < t[j])
      /\ (\A i \in DOMAIN t : t[i] \in OnShow(l, from, mid))
      /\ \A n \in OnShow(l, from, mid) : \E i \in DOMAIN t : n = t[i]
  BY ListsIs
<1>2. /\ u \in Seq(Nat) /\ (\A i, j \in DOMAIN u : i < j => u[i] < u[j])
      /\ (\A i \in DOMAIN u : u[i] \in OnShow(l, mid, to))
      /\ \A n \in OnShow(l, mid, to) : \E i \in DOMAIN u : n = u[i]
  BY ListsIs
<1>3. /\ \A n : n \in OnShow(l, from, to) <=> n \in OnShow(l, from, mid) \/ n \in OnShow(l, mid, to)
      /\ \A n \in OnShow(l, from, mid) : n \in Nat /\ n <= mid
      /\ \A n \in OnShow(l, mid, to) : n \in Nat /\ mid < n
  BY DEF OnShow
<1>. DEFINE q == t \o u
<1>4. /\ q \in Seq(Nat) /\ Len(t) \in Nat /\ Len(u) \in Nat /\ DOMAIN t = 1 .. Len(t) /\ DOMAIN u = 1 .. Len(u)
      /\ DOMAIN q = 1 .. Len(t) + Len(u)
      /\ \A i \in 1 .. Len(t) : q[i] = t[i]
      /\ \A i \in 1 .. Len(u) : q[Len(t) + i] = u[i]
      /\ \A i \in DOMAIN q : i \notin DOMAIN t => i - Len(t) \in 1 .. Len(u) /\ q[i] = u[i - Len(t)]
  BY <1>1, <1>2, ConcatIs
<1>. HIDE DEF q
<1>. DEFINE c == Len(t)
            e == Len(u)
<1>5. /\ c \in Nat /\ e \in Nat /\ DOMAIN t = 1 .. c /\ DOMAIN u = 1 .. e /\ DOMAIN q = 1 .. c + e
      /\ (\A i \in 1 .. c : q[i] = t[i])
      /\ \A i \in 1 .. e : q[c + i] = u[i]
  BY <1>4
<1>6. \A i \in DOMAIN q : i \notin 1 .. c => i - c \in 1 .. e /\ q[i] = u[i - c]
  BY <1>4
<1>. HIDE DEF c, e
<1>7. \A i \in DOMAIN q : \/ i \in DOMAIN t /\ q[i] = t[i]
                          \/ i \notin DOMAIN t /\ i - c \in DOMAIN u /\ q[i] = u[i - c]
  BY <1>5, <1>6
<1>8. \A i \in DOMAIN q : q[i] \in OnShow(l, from, to)
  BY <1>1, <1>2, <1>3, <1>7
<1>9. ASSUME NEW n \in OnShow(l, from, to) PROVE \E i \in DOMAIN q : n = q[i]
  <2>1. CASE n \in OnShow(l, from, mid)
    <3>1. PICK i \in DOMAIN t : n = t[i]
      BY <1>1, <2>1
    <3>2. i \in DOMAIN q /\ q[i] = t[i]
      BY <1>5
    <3>. QED  BY <3>1, <3>2
  <2>2. CASE n \in OnShow(l, mid, to)
    <3>1. PICK i \in DOMAIN u : n = u[i]
      BY <1>2, <2>2
    <3>2. c + i \in DOMAIN q /\ q[c + i] = u[i]
      BY <1>5
    <3>. QED  BY <3>1, <3>2
  <2>. QED  BY <1>3, <1>9, <2>1, <2>2
<1>10. ASSUME NEW i \in DOMAIN q, NEW j \in DOMAIN q, i < j PROVE q[i] < q[j]
  <2>0. i \in Nat /\ j \in Nat
    BY <1>5
  <2>1. CASE i \in DOMAIN t /\ j \in DOMAIN t
    BY <1>1, <1>7, <1>10, <2>1
  <2>2. CASE i \in DOMAIN t /\ j \notin DOMAIN t
    <3>1. q[i] = t[i] /\ t[i] \in Nat /\ t[i] <= mid
      BY <1>1, <1>3, <1>7, <2>2
    <3>2. q[j] = u[j - c] /\ u[j - c] \in Nat /\ mid < u[j - c]
      BY <1>2, <1>3, <1>7, <2>2
    <3>. QED  BY <3>1, <3>2
  <2>3. CASE i \notin DOMAIN t /\ j \in DOMAIN t
    BY <1>5, <1>10, <2>0, <2>3
  <2>4. CASE i \notin DOMAIN t /\ j \notin DOMAIN t
    <3>1. q[i] = u[i - c] /\ q[j] = u[j - c] /\ i - c \in DOMAIN u /\ j - c \in DOMAIN u
      BY <1>7, <2>4
    <3>2. i - c < j - c
      BY <1>5, <1>10, <2>0
    <3>. QED  BY <1>2, <3>1, <3>2
  <2>. QED  BY <2>1, <2>2, <2>3, <2>4
<1>11. Lists(l, q, from, to)
  BY <1>4, <1>8, <1>9, <1>10, ListsIs
<1>. QED  BY <1>11 DEF q

\* A list of what is on show stays one as the log grows.
LEMMA ListsKept ==
    ASSUME NEW l, NEW l1, NEW t, NEW from \in Nat, NEW to \in Nat, \A n \in from + 1 .. to : l1[n] = l[n],
           Lists(l, t, from, to)
    PROVE  Lists(l1, t, from, to)
<1>1. OnShow(l1, from, to) = OnShow(l, from, to)
  BY DEF OnShow
<1>. QED  BY <1>1 DEF Lists

\* What a device was sent lists what is on show from where it begins.
Covered(l, b, to) ==
    /\ b \in Seq(Nat) /\ b # <<>> /\ to \in Head(b) .. Len(l)
    /\ Lists(l, Tail(b), Head(b), to)

\* The rest of two sequences joined is the rest of the first, joined with the second.
LEMMA TailOfJoined ==
    ASSUME NEW b \in Seq(Nat), b # <<>>, NEW r \in Seq(Nat)
    PROVE  b \o r \in Seq(Nat) /\ b \o r # <<>> /\ Head(b \o r) = Head(b) /\ Tail(b \o r) = Tail(b) \o r
<1>. DEFINE q == b \o r
            t == Tail(b)
            u == Tail(q)
            v == t \o r
<1>0. \A f \in Seq(Nat) : \A g \in Seq(Nat) :
           /\ f \o g \in Seq(Nat) /\ Len(f \o g) = Len(f) + Len(g)
           /\ DOMAIN f = 1 .. Len(f) /\ DOMAIN (f \o g) = 1 .. Len(f) + Len(g)
           /\ \A i \in 1 .. Len(f) : (f \o g)[i] = f[i]
           /\ \A i \in 1 .. Len(g) : (f \o g)[Len(f) + i] = g[i]
  BY ConcatIs, SMTT(30)
<1>1. /\ t \in Seq(Nat) /\ Len(t) = Len(b) - 1 /\ Len(b) \in Nat \ {0} /\ Head(b) = b[1]
      /\ \A i \in DOMAIN t : t[i] = b[i + 1] /\ i + 1 \in DOMAIN b
  BY TailIs
<1>2. /\ q \in Seq(Nat) /\ Len(q) = Len(b) + Len(r) /\ Len(r) \in Nat /\ DOMAIN b = 1 .. Len(b)
      /\ \A i \in 1 .. Len(b) : q[i] = b[i]
      /\ \A i \in 1 .. Len(r) : q[Len(b) + i] = r[i]
  BY ConcatIs
<1>. HIDE DEF q
<1>3. q # <<>>
  <2>1. Len(q) # 0
    BY <1>1, <1>2
  <2>. QED  BY <2>1
<1>4. /\ u \in Seq(Nat) /\ Len(u) = Len(q) - 1 /\ Head(q) = q[1] /\ DOMAIN u = 1 .. Len(q) - 1
      /\ \A i \in DOMAIN u : u[i] = q[i + 1]
  BY <1>2, <1>3, TailIs
<1>. HIDE DEF t, u
<1>5. /\ v \in Seq(Nat) /\ Len(v) = Len(t) + Len(r) /\ DOMAIN t = 1 .. Len(t) /\ DOMAIN v = 1 .. Len(t) + Len(r)
      /\ \A i \in 1 .. Len(t) : v[i] = t[i]
      /\ \A i \in 1 .. Len(r) : v[Len(t) + i] = r[i]
  BY <1>0, <1>1, Zenon
<1>. HIDE DEF v
<1>6. DOMAIN u = DOMAIN v /\ Len(u) = Len(v)
  BY <1>1, <1>2, <1>4, <1>5
<1>. DEFINE m == Len(b)
            n == Len(r)
<1>7. /\ m \in Nat \ {0} /\ n \in Nat /\ DOMAIN u = 1 .. (m - 1) + n /\ Len(t) = m - 1
  BY <1>1, <1>2, <1>4
<1>8. ASSUME NEW i \in DOMAIN u PROVE u[i] = v[i]
  <2>1. i \in 1 .. m - 1 \/ (i - (m - 1) \in 1 .. n /\ i + 1 = m + (i - (m - 1)) /\ (m - 1) + (i - (m - 1)) = i)
    <3>. HIDE DEF m, n
    <3>. QED  BY <1>7
  <2>2. u[i] = q[i + 1]
    BY <1>4
  <2>3. CASE i \in 1 .. m - 1
    <3>1. i + 1 \in 1 .. m
      <4>. HIDE DEF m, n
      <4>. QED  BY <1>7, <2>3
    <3>2. v[i] = t[i] /\ t[i] = b[i + 1]
      BY <1>1, <1>5, <2>3
    <3>. QED  BY <1>2, <2>2, <3>1, <3>2
  <2>4. CASE i - (m - 1) \in 1 .. n /\ i + 1 = m + (i - (m - 1)) /\ (m - 1) + (i - (m - 1)) = i
    <3>. DEFINE k == i - (m - 1)
    <3>1. k \in 1 .. Len(r) /\ i + 1 = Len(b) + k /\ Len(t) + k = i
      BY <1>7, <2>4
    <3>. HIDE DEF k
    <3>2. q[i + 1] = r[k]
      BY <1>2, <3>1
    <3>3. v[i] = r[k]
      BY <1>5, <3>1
    <3>. QED  BY <2>2, <3>2, <3>3
  <2>. QED  BY <2>1, <2>3, <2>4
<1>9. u = v
  BY <1>4, <1>5, <1>6, <1>8, SeqEqual
<1>10. Head(q) = Head(b)
  <2>1. 1 \in 1 .. Len(b)
    BY <1>1
  <2>. QED  BY <1>1, <1>2, <1>4, <2>1
<1>. QED  BY <1>2, <1>3, <1>9, <1>10 DEF q, t, u, v

\* Who begins to follow was sent nothing yet, but where that is.
LEMMA CoveredStart == ASSUME NEW l, Len(l) \in Nat, NEW from \in 0 .. Len(l) PROVE Covered(l, <<from>>, from)
<1>1. from \in Nat /\ from \in from .. Len(l)
  OBVIOUS
<1>2. <<from>> \in Seq(Nat) /\ <<from>> # <<>> /\ Head(<<from>>) = from /\ Tail(<<from>>) = <<>>
  BY <1>1
<1>3. Lists(l, <<>>, from, from)
  BY <1>1, ListsNone
<1>. QED  BY <1>1, <1>2, <1>3 DEF Covered

\* What was sent, with what is on show from there on, covers the log up to there.
LEMMA CoveredOn ==
    ASSUME NEW l, Len(l) \in Nat, NEW b, NEW from, Covered(l, b, from), NEW to \in Nat, from <= to, to <= Len(l),
           NEW r, Lists(l, r, from, to)
    PROVE  Covered(l, b \o r, to)
<1>1. b \in Seq(Nat) /\ b # <<>> /\ from \in Head(b) .. Len(l) /\ Lists(l, Tail(b), Head(b), from)
  BY DEF Covered
<1>2. r \in Seq(Nat)
  BY DEF Lists
<1>3. Head(b) \in Nat
  BY <1>1, TailIs
<1>4. b \o r \in Seq(Nat) /\ b \o r # <<>> /\ Head(b \o r) = Head(b) /\ Tail(b \o r) = Tail(b) \o r
  BY <1>1, <1>2, TailOfJoined
<1>5. from \in Nat /\ Head(b) <= from /\ to \in Head(b) .. Len(l)
  BY <1>1, <1>3
<1>6. Lists(l, Tail(b) \o r, Head(b), to)
  BY <1>1, <1>3, <1>5, ListsOn
<1>. QED  BY <1>4, <1>5, <1>6 DEF Covered

\* A stretch of which nothing is on show is passed over.
LEMMA CoveredOver ==
    ASSUME NEW l, Len(l) \in Nat, NEW b, NEW from, Covered(l, b, from), NEW to \in Nat, from <= to, to <= Len(l),
           Lists(l, <<>>, from, to)
    PROVE  Covered(l, b, to)
<1>1. Covered(l, b \o <<>>, to)
  BY CoveredOn
<1>2. b \in Seq(Nat)
  BY DEF Covered
<1>3. b \o <<>> = b
  BY <1>2
<1>. QED  BY <1>1, <1>3

\* What covers the log up to a place does as the log grows.
LEMMA CoveredKept ==
    ASSUME NEW l, NEW kind \in {"shown", "other"}, l \in Seq({"shown", "other"}), NEW b, NEW to, Covered(l, b, to)
    PROVE  Covered(Append(l, kind), b, to)
<1>. DEFINE l1 == Append(l, kind)
<1>1. /\ Len(l1) = Len(l) + 1 /\ Len(l) \in Nat
      /\ \A i \in 1 .. Len(l) : l1[i] = l[i]
  BY AppendIs
<1>. HIDE DEF l1
<1>2. b \in Seq(Nat) /\ b # <<>> /\ to \in Head(b) .. Len(l) /\ Lists(l, Tail(b), Head(b), to)
  BY DEF Covered
<1>3. Head(b) \in Nat
  BY <1>2, TailIs
<1>4. to \in Nat /\ to \in Head(b) .. Len(l1)
  BY <1>1, <1>2, <1>3
<1>5. \A n \in Head(b) + 1 .. to : l1[n] = l[n]
  <2>1. \A n \in Head(b) + 1 .. to : n \in 1 .. Len(l)
    BY <1>1, <1>2, <1>3
  <2>. QED  BY <1>1, <2>1
<1>6. Lists(l1, Tail(b), Head(b), to)
  BY <1>2, <1>3, <1>4, <1>5, ListsKept
<1>7. Covered(l1, b, to)
  BY <1>2, <1>4, <1>6 DEF Covered
<1>. QED  BY <1>7 DEF l1

\* What a channel's device was sent covers the log from where it began: up to where the channel
\* follows it, or, when it follows nothing any more, up to some place.
ActivityInv ==
    /\ Maps(batches)
    /\ \A x \in Channels :
          /\ following[x] # Nowhere => Covered(log, batches[x], following[x])
          /\ batches[x] # <<>> => \E to \in Nat : Covered(log, batches[x], to)

\* Every step keeps what the devices were sent of the activity they follow.
LEMMA ActivityNext == ASSUME RecordInv, ActivityInv, [Next]_vars PROVE ActivityInv'
<1>. USE DEF visit, ipc, daemon, connector, device, Steady, Around, Takes, Hear
<1>0. /\ log \in Seq({"shown", "other"}) /\ Len(log) \in Nat /\ DOMAIN following = Channels
      /\ \A x \in Channels : following[x] \in {Nowhere} \cup 0 .. Len(log)
  BY DEF RecordInv, Maps
<1>1. ASSUME UNCHANGED <<log, following, batches>> PROVE ActivityInv'
  BY <1>1 DEF ActivityInv
<1>2. ASSUME NEW x \in Channels, NEW n, NEW b, following' = [following EXCEPT ![x] = n],
             batches' = [batches EXCEPT ![x] = b], UNCHANGED log,
             Covered(log, b, n) \/ (n = Nowhere /\ b = batches[x]), n \in {Nowhere} \cup Nat
      PROVE  ActivityInv'
  <2>1. Maps(batches)' /\ DOMAIN batches = Channels
    BY <1>2, MapsExcept DEF ActivityInv, Maps
  <2>2. ASSUME NEW y \in Channels, y # x PROVE following'[y] = following[y] /\ batches'[y] = batches[y]
    BY <1>2, <2>2
  <2>3. following'[x] = n /\ batches'[x] = b
    BY <1>0, <1>2, <2>1
  <2>4. n # Nowhere => Covered(log, b, n)
    BY <1>2
  <2>5. b # <<>> => \E to \in Nat : Covered(log, b, to)
    <3>1. CASE n = Nowhere /\ b = batches[x]
      BY <3>1 DEF ActivityInv
    <3>2. CASE Covered(log, b, n)
      <4>1. b \in Seq(Nat) /\ b # <<>> /\ n \in Head(b) .. Len(log)
        BY <3>2 DEF Covered
      <4>2. Head(b) \in Nat
        BY <4>1, TailIs
      <4>3. n \in Nat
        BY <4>1, <4>2
      <4>. QED  BY <3>2, <4>3
    <3>. QED  BY <1>2, <3>1, <3>2
  <2>. QED  BY <1>2, <2>1, <2>2, <2>3, <2>4, <2>5 DEF ActivityInv
<1>3. ASSUME NEW x \in Channels, following' = [following EXCEPT ![x] = Nowhere], UNCHANGED <<log, batches>>
      PROVE  ActivityInv'
  <2>1. batches' = [batches EXCEPT ![x] = batches[x]]
    BY <1>3 DEF ActivityInv, Maps
  <2>. QED  BY <1>2, <1>3, <2>1
<1>4. CASE Read \/ Serve \/ Prints \/ LocalTypes \/ RunsOut \/ UNCHANGED vars \/ \E x \in Channels : Write(x)
  <2>1. UNCHANGED <<log, following, batches>>
    <3>1. CASE Read
      BY <3>1 DEF Read, HandOver, Feed
    <3>. QED  BY <1>4, <3>1 DEF Serve, Prints, LocalTypes, RunsOut, Quiet, ServeWatch, ServeDetach,
                     ServeController, ServeAcquire, ServeUse, ServeRelease, Respond, Write, vars
  <2>. QED  BY <1>1, <2>1
<1>5. CASE \/ RecheckAll \/ Lose \/ Join \/ Reconnect \/ (\E d \in Holders : Revoke(d))
           \/ (\E x \in Channels : Shut(x) \/ Open(x) \/ Recheck(x))
  <2>1. UNCHANGED <<log, following, batches>>
    BY <1>5 DEF RecheckAll, Lose, Join, Reconnect, Revoke, Shut, Open, Recheck
  <2>. QED  BY <1>1, <2>1
<1>6. ASSUME NEW kind \in {"shown", "other"}, Record(kind) PROVE ActivityInv'
  <2>1. UNCHANGED <<following, batches>> /\ log' = Append(log, kind)
    BY <1>6 DEF Record
  <2>2. ASSUME NEW b, NEW to, Covered(log, b, to) PROVE Covered(log', b, to)
    BY <1>0, <2>1, <2>2, CoveredKept
  <2>. QED  BY <2>1, <2>2 DEF ActivityInv
<1>7. ASSUME NEW x \in Channels, NEW from \in 0 .. Len(log), NEW to \in 0 .. Len(log), from <= to, NEW before,
             Covered(log, before, from), SendRecorded(x, from, to, before), UNCHANGED log
      PROVE  ActivityInv'
  <2>. DEFINE r == Recorded(from, to)
  <2>1. Lists(log, r, from, to)
    BY <1>0, RecordedLists
  <2>. HIDE DEF r
  <2>2. \/ /\ following' = [following EXCEPT ![x] = to] /\ batches' = [batches EXCEPT ![x] = before \o r]
        \/ /\ r = <<>>
           /\ following' = [following EXCEPT ![x] = to] /\ batches' = [batches EXCEPT ![x] = before]
        \/ /\ following' = [following EXCEPT ![x] = from] /\ batches' = [batches EXCEPT ![x] = before]
    BY <1>7 DEF SendRecorded, r
  <2>3. from \in Nat /\ to \in Nat /\ to <= Len(log)
    BY <1>0
  <2>4. Covered(log, before \o r, to)
    BY <1>0, <1>7, <2>1, <2>3, CoveredOn
  <2>5. r = <<>> => Covered(log, before, to)
    BY <1>0, <1>7, <2>1, <2>3, CoveredOver
  <2>6. CASE following' = [following EXCEPT ![x] = to] /\ batches' = [batches EXCEPT ![x] = before \o r]
    BY <1>2, <1>7, <2>3, <2>4, <2>6
  <2>7. CASE r = <<>> /\ following' = [following EXCEPT ![x] = to] /\ batches' = [batches EXCEPT ![x] = before]
    BY <1>2, <1>7, <2>3, <2>5, <2>7
  <2>8. CASE following' = [following EXCEPT ![x] = from] /\ batches' = [batches EXCEPT ![x] = before]
    BY <1>2, <1>7, <2>3, <2>8
  <2>. QED  BY <2>2, <2>6, <2>7, <2>8
<1>8. ASSUME NEW x \in Channels, NEW to \in 1 .. Len(log), following[x] # Nowhere, to > following[x], Poll(x, to)
      PROVE  ActivityInv'
  <2>1. UNCHANGED log /\ SendRecorded(x, following[x], to, batches[x])
    BY <1>8 DEF Poll
  <2>2. following[x] \in 0 .. Len(log) /\ to \in 0 .. Len(log) /\ following[x] <= to
    BY <1>0, <1>8
  <2>3. Covered(log, batches[x], following[x])
    BY <1>8 DEF ActivityInv
  <2>. QED  BY <1>7, <2>1, <2>2, <2>3
<1>9. ASSUME NEW x \in Channels, Request(x) PROVE ActivityInv'
  <2>1. ASSUME NEW from \in Starts, NEW to \in from .. Len(log), Subscribe(x, from, to) PROVE ActivityInv'
    <3>1. from \in 0 .. Len(log) /\ to \in 0 .. Len(log) /\ from <= to
      BY <1>0, <2>1 DEF Starts
    <3>2. UNCHANGED log /\ SendRecorded(x, from, to, <<from>>)
      BY <2>1 DEF Subscribe
    <3>3. Covered(log, <<from>>, from)
      BY <1>0, <3>1, CoveredStart
    <3>. QED  BY <1>7, <3>1, <3>2, <3>3
  <2>2. CASE Unsubscribe(x)
    BY <1>3, <2>2 DEF Unsubscribe
  <2>3. CASE \/ RefuseRequest(x) \/ (\E after : Attach(x, after)) \/ (\E s \in Streams : Detach(x, s))
             \/ (\E t \in BOOLEAN : Acquire(x, t)) \/ (\E ref \in leases[x] : Use(x, ref) \/ GiveBack(x, ref))
    <3>1. UNCHANGED <<log, following, batches>>
      BY <2>3 DEF RefuseRequest, Attach, Detach, Acquire, Use, GiveBack
    <3>. QED  BY <1>1, <3>1
  <2>. QED  BY <1>9, <2>1, <2>2, <2>3 DEF Request
<1>10. ASSUME NEW x \in Channels, BeginClose(x) \/ FollowingEnds(x) PROVE ActivityInv'
  <2>1. UNCHANGED <<log, batches>>
    BY <1>10 DEF BeginClose, FollowingEnds
  <2>2. following' = [following EXCEPT ![x] = Nowhere]
    BY <1>10 DEF BeginClose, FollowingEnds
  <2>. QED  BY <1>3, <2>1, <2>2
<1>11. ASSUME NEW x \in Channels,
              Hears(x) \/ Enter(x) \/ Greet(x) \/ Ends(x) \/ LetsGo(x) \/ GivesUpAsking(x) \/ GivesUpWaiting(x)
       PROVE  ActivityInv'
  <2>1. UNCHANGED <<log, following, batches>>
    BY <1>11 DEF Hears, Attached, ToldWho, Detached, TakesLease, Used, Finished, Reply, Enter, Greet, Ends, LetsGo,
                 LetGoOfStream, LetGoOfLease, HasLetGo, GivesUpAsking, GivesUpWaiting, GivesUp
  <2>. QED  BY <1>1, <2>1
<1>. QED  BY <1>4, <1>5, <1>6, <1>8, <1>9, <1>10, <1>11 DEF Next, Visit

---------------------------------------------------------------------------
\* What a device is sent has no gap and no repeat

SentInv == BeginInv /\ SinksInv /\ FedInv /\ NamedInv /\ ReadyInv /\ ActivityInv

\* What covers the log has no gap and no repeat.
LEMMA ActivityIs == ASSUME ActivityInv PROVE ActivityWhole
<1>. SUFFICES ASSUME NEW c \in Channels, batches[c] # <<>>
              PROVE  \E to \in Head(batches[c]) .. Len(log) :
                        /\ following[c] # Nowhere => to = following[c]
                        /\ \A i, j \in DOMAIN Tail(batches[c]) : i < j => Tail(batches[c])[i] < Tail(batches[c])[j]
                        /\ {Tail(batches[c])[i] : i \in DOMAIN Tail(batches[c])}
                               = {n \in Head(batches[c]) + 1 .. to : log[n] = "shown"}
  BY DEF ActivityWhole
<1>1. PICK to : Covered(log, batches[c], to) /\ (following[c] # Nowhere => to = following[c])
  BY DEF ActivityInv
<1>2. to \in Head(batches[c]) .. Len(log) /\ Lists(log, Tail(batches[c]), Head(batches[c]), to)
  BY <1>1 DEF Covered
<1>. QED  BY <1>1, <1>2 DEF Lists, OnShow

\* What was queued for a device, and what is on its way after that, is what its terminal printed.
LEMMA UpToDateIs ==
    ASSUME IInv, BeginInv, SinksInv, FedInv, NamedInv, NEW s \in Streams, told[s] # <<>>, s \in watchers, s \in viewers
    PROVE  UpToDate(s)
<1>1. Served(s)
  BY DEF BeginInv, Fresh
<1>2. Fed(s) /\ flows[s].replied /\ flows[s].start # None
  BY <1>1 DEF FedInv, SinksInv, Sunk
<1>3. \A i \in DOMAIN wire : ~ Begins(i, s)
  BY <1>2 DEF Fed
<1>4. \A i \in DOMAIN wire : Numbers(i, s) <=> i \in Coming(s, "out")
  BY <1>3 DEF Numbers, Begins, Coming, Mine
<1>5. Left(s) = Due(s)
  <2>1. {j \in DOMAIN wire : Numbers(j, s)} = Coming(s, "out")
    BY <1>4 DEF Coming
  <2>. QED  BY <2>1 DEF Left, Due
<1>6. seq \in Nat /\ First(s) \in Int
  <2>1. flows[s] \in Flows /\ seq \in Nat
    BY BoundsAssumption DEF IInv, Shape, Streams
  <2>. QED  BY <2>1 DEF First, Flows
<1>7. PICK p \in (0 - 1) .. seq : p >= First(s) - 1 /\ Sent(s) = First(s) .. p /\ Due(s) = p + 1 .. seq
  BY <1>2, <1>5 DEF Fed, Place
<1>8. Sent(s) \cup Due(s) = First(s) .. seq
  <2>1. First(s) .. p \cup p + 1 .. seq = First(s) .. seq
    BY <1>6, <1>7
  <2>. QED  BY <1>7, <2>1
<1>9. \A n \in Sent(s) : \A m \in Due(s) : n < m
  BY <1>6, <1>7
<1>10. \A i, j \in Coming(s, "out") : i < j => wire[i].item.n < wire[j].item.n
  <2>1. \A i, j \in DOMAIN wire : i < j /\ Numbers(i, s) /\ Numbers(j, s) => wire[i].item.n < wire[j].item.n
    BY <1>2 DEF Fed
  <2>2. Coming(s, "out") \subseteq DOMAIN wire
    BY DEF Coming
  <2>. QED  BY <1>4, <2>1, <2>2
<1>11. ASSUME protocol >= ResumeProtocol, Coming(s, "control") = {}, NEW i \in Told(s, "control"),
              \A j \in Told(s, "control") : j <= i
       PROVE  told[s][i][2] = Controller(control)
  <2>1. Named(s)
    BY <1>1, <1>11 DEF NamedInv
  <2>2. \A k \in DOMAIN wire : ~ Names(k, s)
    BY <1>11 DEF Coming, Names, Mine
  <2>3. told[s][i][2] = control.who
    BY <1>2, <1>11, <2>1, <2>2 DEF Named, Knows
  <2>4. Controller(control) = control.who
    BY ControlIs DEF IInv
  <2>. QED  BY <2>3, <2>4
<1>. QED  BY <1>8, <1>9, <1>10, <1>11 DEF UpToDate

\* Nothing is sent at the start.
LEMMA SentInit == ASSUME Init PROVE SentInv
<1>1. DOMAIN wire = {} /\ DOMAIN asked = {} /\ Streams = {} /\ watchers = {}
  <2>1. DOMAIN <<>> = {} /\ 1 .. Len(<<>>) = {}
    OBVIOUS
  <2>. QED  BY <2>1 DEF Init, Streams
<1>2. BeginInv /\ SinksInv /\ FedInv /\ NamedInv
  BY <1>1 DEF BeginInv, SinksInv, FedInv, NamedInv
<1>3. ReadyInv
  <2>1. \A x \in Channels : at[x] = "unopened" /\ watched[x] = {}
    BY DEF Init
  <2>. QED  BY <1>1, <2>1 DEF ReadyInv
<1>4. ActivityInv
  BY DEF Init, ActivityInv, Maps
<1>. QED  BY <1>2, <1>3, <1>4 DEF SentInv

\* Whatever was held back, refused, given up or passed over: what a device is sent of a terminal
\* and of the activity it follows has no gap and no repeat.
THEOREM SentWholeHolds == Spec => []SentWhole
<1>1. IInv /\ SentInv /\ [Next]_vars => SentInv'
  <2>. SUFFICES ASSUME IInv, SentInv, [Next]_vars PROVE SentInv'
    OBVIOUS
  <2>1. BeginInv /\ SinksInv /\ FedInv /\ NamedInv /\ ReadyInv /\ ActivityInv /\ RecordInv
    BY DEF SentInv, IInv
  <2>2. BeginInv'
    BY <2>1, BeginNext
  <2>3. SinksInv'
    BY <2>1, SunkNext
  <2>4. FedInv'
    BY <2>1, FedNext
  <2>5. NamedInv'
    BY <2>1, NamedNext
  <2>6. ReadyInv'
    BY <2>1, ReadyNext
  <2>7. ActivityInv'
    BY <2>1, ActivityNext
  <2>. QED  BY <2>2, <2>3, <2>4, <2>5, <2>6, <2>7 DEF SentInv
<1>2. Init => SentInv
  BY SentInit
<1>3. IInv /\ SentInv => SentWhole
  <2>. SUFFICES ASSUME IInv, SentInv PROVE SentWhole
    OBVIOUS
  <2>1. ASSUME NEW s \in Streams PROVE Whole(s)
    BY DEF SentInv, SinksInv, Sunk
  <2>2. ASSUME NEW s \in Streams PROVE UpToDate(s)
    <3>1. CASE told[s] # <<>> /\ s \in watchers /\ s \in viewers
      BY <3>1, UpToDateIs DEF SentInv
    <3>2. CASE ~ (told[s] # <<>> /\ s \in watchers /\ s \in viewers)
      BY <3>2 DEF UpToDate
    <3>. QED  BY <3>1, <3>2
  <2>3. ActivityWhole
    BY ActivityIs DEF SentInv
  <2>. QED  BY <2>1, <2>2, <2>3 DEF SentWhole
<1>. QED  BY <1>1, <1>2, <1>3, ChannelInductive, PTL DEF Spec
=============================================================================
