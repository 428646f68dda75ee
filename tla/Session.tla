------------------------------ MODULE Session ------------------------------
(***************************************************************************)
(* One PTY session and everyone around it                                  *)
(* (crates/pty-host/src/session.rs).                                       *)
(*                                                                         *)
(* The threads of a session: the program, which prints; the reader and the *)
(* waiter, which send what it printed and its end to the pump's channel;   *)
(* the pump, which delivers to the viewers; and the callers of the API.    *)
(* What viewers see and who controls the session live under the view lock, *)
(* the PTY's writer under the io lock.  A step of the model is one stretch *)
(* of code under one of the locks, so everything that can happen between   *)
(* an unlock and the next lock can happen here too.                        *)
(*                                                                         *)
(* Time is kept as what is left of each wait: a Tick takes one from every  *)
(* timer.                                                                  *)
(***************************************************************************)
EXTENDS Control, Replay

CONSTANTS
    Terminals,       \* viewers that are terminals: they answer queries
    Watchers,        \* numbered viewers
    Locals,          \* callers at this computer: the app, `ys attach`
    LocalData,       \* what they send: "keys", "reply", "focus", "pointer"
    Automations,     \* callers that type for the app itself: workflows
    InitSize,        \* the size in the launch plan
    ResizeMayFail,   \* whether resizing the PTY itself can fail
    QuietAfter, DrainQuiet, ReplyWindow,
    PumpKeepsUp,     \* whether the pump takes its steps before the clock moves on
    Asks,            \* the kinds of query the program may print
    MayEnd,          \* whether the program may end
    MayOutlive,      \* whether a grandchild may outlive it and hold its terminal open
    MaxPrinted, MaxGeneration, MaxInput, MaxAttachments, MaxSeq

ASSUME SessionAssumption ==
    /\ InitSize \in Sizes
    /\ Terminals \cap Watchers = {}
    /\ {QuietAfter, DrainQuiet, ReplyWindow} \subseteq Nat \ {0}
    /\ {MaxPrinted, MaxGeneration, MaxInput, MaxAttachments, MaxSeq} \subseteq Nat
    /\ Asks \subseteq {"cursor", "other"}
    /\ LocalData \subseteq {"keys", "reply", "focus", "pointer"}
    /\ {ResizeMayFail, MayEnd, MayOutlive, PumpKeepsUp} \subseteq BOOLEAN

VARIABLES
    \* View
    control, announced, size, localSize, seq, terminal, replay,
    sinks, nextAttachment, answers, busy, state,
    \* the write side, and the calls that were let through but have not written yet
    ioOpen, pending,
    \* the pump, its channel, and the program behind it
    pump, inbox, pty, child, outlived, printed, readerDone,
    \* what the viewers have: their attachment and their screens
    attached, screen, shown,
    \* histories: leases handed out, input written, queries put to someone, events
    granted, written, asked, event

viewVars == <<control, announced, size, localSize, seq, terminal, replay,
              sinks, nextAttachment, answers, busy, state>>
ioVars == <<ioOpen, pending>>
programVars == <<pty, child, outlived, printed, readerDone>>
clientVars == <<attached, screen, shown>>
histories == <<granted, written, asked, event>>
vars == <<viewVars, ioVars, pump, inbox, programVars, clientVars, histories>>

Viewers == Terminals \cup Watchers
Callers == Locals \cup Automations \cup Holders

Idle == [step |-> "idle"]
Typing == [step |-> "typing"]
Writing == [step |-> "write"]
WritingInput(lease, n) == [step |-> "input", lease |-> lease, n |-> n]
Calls == {Idle, Typing, Writing} \cup [step: {"input"}, lease: LeaseRefs, n: Nat]

Chunks == [n: Nat, ask: {"text", "cursor", "other"}]
Msgs == [m: {"output"}, chunk: Chunks] \cup [m: {"eof", "exited", "wake"}]
Wake == [m |-> "wake"]

(***************************************************************************)
(* Viewers.  A sink whose connection is gone returns false when it is next *)
(* called, and is dropped then.  The sinks are a set: their ids keep the   *)
(* order they attached in.                                                 *)
(***************************************************************************)

Open(s) == attached[s.viewer] = s.id
IsWatcher(s) == s.viewer \in Watchers
Attached(v) == \E s \in sinks : s.viewer = v /\ Open(s)

\* What is left of the sinks when every numbered one has been sent something
AfterTelling == {s \in sinks : IsWatcher(s) => Open(s)}

\* A terminal draws output with text in it; a resize is not sent to it
Draws(item) == item.kind = "output" /\ item.text # {}

(***************************************************************************)
(* Session::controlling, with View::announce, Session::apply_size and the  *)
(* wake-up: control becomes c and the terminal's size s, numbered viewers  *)
(* are told of what changed, and the pump is woken if the hold now lapses  *)
(* sooner.  Everything a call under the view lock does but attaching.      *)
(***************************************************************************)

Controlling(c, s) ==
    LET now     == Lapse(c)
        resized == s # size
        told    == now.who # announced
    IN  /\ control' = now
        /\ announced' = now.who
        /\ size' = s
        /\ seq' = IF resized THEN seq + 1 ELSE seq
        /\ terminal' = IF resized THEN Append(terminal, Resized(s)) ELSE terminal
        /\ replay' = IF resized /\ replay.on THEN Push(replay, Resized(s)) ELSE replay
        /\ sinks' = IF resized \/ told THEN AfterTelling ELSE sinks
        /\ screen' = [w \in Watchers |->
                        IF Attached(w)
                        THEN [screen[w] EXCEPT
                                !.items = IF resized THEN Append(@, Resized(s)) ELSE @,
                                !.seq = IF resized THEN seq + 1 ELSE @,
                                !.size = IF resized THEN s ELSE @,
                                !.control = IF told THEN now.who ELSE @]
                        ELSE screen[w]]
        /\ inbox' = IF LapsesSooner(control, now) THEN Append(inbox, Wake) ELSE inbox

\* The size the terminal has once apply_size(s) returned: the PTY may refuse it
SizesAfterApplying(s) == IF ResizeMayFail /\ ioOpen THEN {s, size} ELSE {s}

\* What a call that goes through Controlling leaves alone, but for pending and granted
UnchangedByCalls ==
    UNCHANGED <<nextAttachment, answers, busy, state, ioOpen, pump, programVars,
                attached, shown, written, asked, event>>

(***************************************************************************)
(* Calls under the view lock.  A call that types is let through here and   *)
(* writes later, under the io lock (Write).                                *)
(***************************************************************************)

\* The lease with number i of those handed out, as its holder names it in a call
LeaseRef(i) == [id |-> i, generation |-> granted[i].generation]

\* Session::attach: the snapshot and the registration are one step
AttachTerminal(t) ==
    /\ attached[t] = 0
    /\ nextAttachment <= MaxAttachments
    /\ nextAttachment' = nextAttachment + 1
    /\ sinks' = sinks \cup {[id |-> nextAttachment, viewer |-> t]}
    /\ attached' = [attached EXCEPT ![t] = nextAttachment]
    /\ shown' = [shown EXCEPT ![t] = terminal]
    /\ UNCHANGED <<control, announced, size, localSize, seq, terminal, replay, answers,
                   busy, state, ioVars, pump, inbox, programVars, screen, histories>>

\* Session::attach_numbered: a viewer that shows everything up to some item asks for what
\* follows it, and gets that, if it is still kept, or a snapshot
AttachWatcher(w, resume) ==
    LET r       == IF replay.on THEN replay ELSE NewReplay(seq, size)
        after   == screen[w].seq
        resumed == resume /\ Resumable(r, after)
        since   == ItemsSince(r, after)
        now     == Lapse(control)
        told    == now.who # announced
    IN  /\ attached[w] = 0
        /\ nextAttachment <= MaxAttachments
        /\ nextAttachment' = nextAttachment + 1
        /\ replay' = r
        /\ control' = now
        /\ announced' = now.who
        /\ sinks' = (IF told THEN AfterTelling ELSE sinks)
                      \cup {[id |-> nextAttachment, viewer |-> w]}
        /\ attached' = [attached EXCEPT ![w] = nextAttachment]
        /\ screen' = [x \in Watchers |->
              CASE x = w /\ resumed ->
                     [items   |-> screen[w].items \o since,
                      seq     |-> after + Len(since),
                      size    |-> SizeAfter(since, SizeSince(r, after)),
                      control |-> now.who,
                      exited  |-> state = "exited",
                      from    |-> after]
                [] x = w /\ ~ resumed ->
                     [items   |-> terminal,
                      seq     |-> seq,
                      size    |-> size,
                      control |-> now.who,
                      exited  |-> state = "exited",
                      from    |-> seq]
                [] x # w /\ told /\ Attached(x) -> [screen[x] EXCEPT !.control = now.who]
                [] OTHER -> screen[x]]
        /\ UNCHANGED <<size, localSize, seq, terminal, answers, busy, state, ioVars, pump,
                       inbox, programVars, shown, histories>>

\* (mutant) detaching one viewer drops the ones that attached later too
DetachLater(v) ==
    /\ attached[v] # 0
    /\ sinks' = {s \in sinks : s.id < attached[v]}
    /\ attached' = [attached EXCEPT ![v] = 0]
    /\ UNCHANGED <<control, announced, size, localSize, seq, terminal, replay,
                   nextAttachment, answers, busy, state, ioVars, pump, inbox, programVars,
                   screen, shown, histories>>

\* Session::detach
Detach(v) ==
    /\ attached[v] # 0
    /\ sinks' = {s \in sinks : s.id # attached[v]}
    /\ attached' = [attached EXCEPT ![v] = 0]
    /\ UNCHANGED <<control, announced, size, localSize, seq, terminal, replay,
                   nextAttachment, answers, busy, state, ioVars, pump, inbox, programVars,
                   screen, shown, histories>>

\* A viewer's connection is lost, and with it what was on the way to it: a numbered viewer is
\* left with what it had after some item since its attachment began.
Drop(v) ==
    /\ attached[v] # 0
    /\ attached' = [attached EXCEPT ![v] = 0]
    /\ IF v \in Watchers
       THEN \E k \in screen[v].from .. screen[v].seq :
              screen' = [screen EXCEPT ![v].items = SubSeq(@, 1, k),
                                       ![v].seq = k,
                                       ![v].size = SizeAfter(SubSeq(screen[v].items, 1, k), InitSize)]
       ELSE UNCHANGED screen
    /\ UNCHANGED <<viewVars, ioVars, pump, inbox, programVars, shown, histories>>

\* Session::local_write, as far as its first look under the view lock.  Where the pointer and
\* the focus are is not typing: it is written without taking control.  Neither is an answer to
\* a query that a terminal was shown just now.
LocalWrite(p, data) ==
    /\ pending[p] = Idle
    /\ \/ /\ data \in {"focus", "pointer"}
          /\ control' = Lapse(control)
          /\ pending' = [pending EXCEPT ![p] = Writing]
       \/ /\ data = "reply" /\ answers > 0
          /\ pending' = [pending EXCEPT ![p] = Writing]
          /\ UNCHANGED control
       \/ /\ data = "keys" \/ (data = "reply" /\ answers = 0)
          /\ pending' = [pending EXCEPT ![p] = Typing]
          /\ UNCHANGED control
    /\ UNCHANGED <<announced, size, localSize, seq, terminal, replay, sinks, nextAttachment,
                   answers, busy, state, ioOpen, pump, inbox, programVars, clientVars, histories>>

\* (mutant) control is taken, the size stays the lease's
TakeLocalControlKeepingSize(p) ==
    /\ pending[p] \in {Idle, Typing}
    /\ control.generation < MaxGeneration \/ Controller(control) = "local"
    /\ Controlling(LocalInput(control), size)
    /\ pending' = [pending EXCEPT ![p] = Writing]
    /\ UNCHANGED <<localSize, granted>>
    /\ UnchangedByCalls

\* Session::take_local_control, on behalf of local_write or of local_paste.  An error from the
\* PTY's resize ends the call before it writes.
TakeLocalControl(p) ==
    /\ pending[p] \in {Idle, Typing}
    /\ control.generation < MaxGeneration \/ Controller(control) = "local"
    /\ \E s \in SizesAfterApplying(localSize) :
          /\ Controlling(LocalInput(control), s)
          /\ pending' = [pending EXCEPT ![p] = IF s = localSize THEN Writing ELSE Idle]
    /\ UNCHANGED <<localSize, granted>>
    /\ UnchangedByCalls

\* Session::unattended: refused while a lease is in force
Unattended(p) ==
    /\ pending[p] = Idle
    /\ Controlling(control, size)
    /\ pending' = [pending EXCEPT ![p] = IF Leased(control) THEN Idle ELSE Writing]
    /\ UNCHANGED <<localSize, granted>>
    /\ UnchangedByCalls

\* Session::resize: the size of this computer's view, kept while a lease is in force
Resize(s) ==
    /\ s # localSize
    /\ seq < MaxSeq
    /\ localSize' = s
    /\ \E z \in IF Leased(control) THEN {size} ELSE SizesAfterApplying(s) : Controlling(control, z)
    /\ UNCHANGED <<pending, granted>>
    /\ UnchangedByCalls

\* Session::controller
AskController ==
    /\ Controlling(control, size)
    /\ UNCHANGED <<localSize, pending, granted>>
    /\ UnchangedByCalls

\* Session::acquire; refused once the session has exited
Acquire(h, takeOver) ==
    /\ pending[h] = Idle
    /\ control.generation < MaxGeneration
    /\ IF state = "exited" \/ ~ MayAcquire(control, h, takeOver)
       THEN /\ Controlling(control, size)
            /\ UNCHANGED granted
       ELSE /\ Controlling(Acquired(control, h, Len(granted) + 1), size)
            /\ granted' = Append(granted, [generation |-> Lapse(control).generation + 1,
                                           holder |-> h])
    /\ UNCHANGED <<localSize, pending>>
    /\ UnchangedByCalls

\* Session::renew
RenewLease(h, i) ==
    /\ pending[h] = Idle
    /\ granted[i].holder = h
    /\ Controlling(Renew(control, LeaseRef(i)), size)
    /\ UNCHANGED <<localSize, pending, granted>>
    /\ UnchangedByCalls

\* Session::release: the person here gets their size back
ReleaseLease(h, i) ==
    /\ pending[h] = Idle
    /\ granted[i].holder = h
    /\ \E s \in IF Check(control, LeaseRef(i)) THEN SizesAfterApplying(localSize) ELSE {size} :
          Controlling(Release(control, LeaseRef(i)), s)
    /\ UNCHANGED <<localSize, pending, granted>>
    /\ UnchangedByCalls

\* Session::input: input number n under a lease, let through if it is the next one
LeaseInput(h, i, n) ==
    /\ pending[h] = Idle
    /\ granted[i].holder = h
    /\ Controlling(Input(control, LeaseRef(i), n), size)
    /\ pending' = [pending EXCEPT ![h] =
                      IF Delivery(control, LeaseRef(i), n) = "fresh"
                      THEN WritingInput(LeaseRef(i), n) ELSE Idle]
    /\ UNCHANGED <<localSize, granted>>
    /\ UnchangedByCalls

\* Session::resize_leased
ResizeLeased(h, i, s) ==
    /\ pending[h] = Idle
    /\ granted[i].holder = h
    /\ seq < MaxSeq
    /\ \E z \in IF Check(control, LeaseRef(i)) THEN SizesAfterApplying(s) ELSE {size} :
          Controlling(control, z)
    /\ UNCHANGED <<localSize, pending, granted>>
    /\ UnchangedByCalls

\* Session::write, under the io lock: fails when the writer is gone
Write(p) ==
    /\ pending[p].step \in {"write", "input"}
    /\ pending' = [pending EXCEPT ![p] = Idle]
    /\ written' = IF ioOpen /\ pending[p].step = "input"
                  THEN Append(written, [lease |-> pending[p].lease, n |-> pending[p].n])
                  ELSE written
    /\ UNCHANGED <<viewVars, ioOpen, pump, inbox, programVars, clientVars, granted, asked, event>>

(***************************************************************************)
(* The program, the reader and the waiter.                                 *)
(***************************************************************************)

\* The program prints, or a grandchild that outlived it and still holds the terminal open
PrintChunk(ask) ==
    /\ Len(printed) < MaxPrinted
    /\ child = "running" \/ outlived
    /\ printed' = Append(printed, [ask |-> ask, own |-> child = "running"])
    /\ pty' = Append(pty, [n |-> Len(printed) + 1, ask |-> ask])
    /\ UNCHANGED <<viewVars, ioVars, pump, inbox, child, outlived, readerDone, clientVars, histories>>

\* The program ends, by itself or killed
ChildEnds ==
    /\ MayEnd
    /\ child = "running"
    /\ child' = "ended"
    /\ outlived' \in {FALSE, MayOutlive}
    /\ UNCHANGED <<viewVars, ioVars, pump, inbox, pty, printed, readerDone, clientVars, histories>>

\* The grandchild lets go of the terminal
GrandchildEnds ==
    /\ outlived
    /\ outlived' = FALSE
    /\ UNCHANGED <<viewVars, ioVars, pump, inbox, pty, child, printed, readerDone,
                   clientVars, histories>>

\* The waiter thread
WaiterStep ==
    /\ child = "ended"
    /\ child' = "reaped"
    /\ inbox' = Append(inbox, [m |-> "exited"])
    /\ UNCHANGED <<viewVars, ioVars, pump, pty, outlived, printed, readerDone,
                   clientVars, histories>>

\* read_loop: everything that was printed, in order, then end-of-file
ReaderStep ==
    /\ ~ readerDone
    /\ \/ /\ pty # <<>>
          /\ inbox' = Append(inbox, [m |-> "output", chunk |-> Head(pty)])
          /\ pty' = Tail(pty)
          /\ UNCHANGED readerDone
       \/ /\ pty = <<>> /\ child # "running" /\ ~ outlived
          /\ inbox' = Append(inbox, [m |-> "eof"])
          /\ readerDone' = TRUE
          /\ UNCHANGED pty
    /\ UNCHANGED <<viewVars, ioVars, pump, child, outlived, printed, clientVars, histories>>

(***************************************************************************)
(* The pump.                                                               *)
(***************************************************************************)

\* (mutants) the pump closes as soon as the program is gone; waits for end-of-file however long
\* it takes; has no timer for the end of a burst
PumpTopHasty ==
    /\ pump.pc = "top"
    /\ pump' = IF pump.exit THEN [pump EXCEPT !.pc = "close"]
               ELSE [pump EXCEPT !.pc = "wait", !.for = "message", !.left = 0]
    /\ UNCHANGED <<viewVars, ioVars, inbox, programVars, clientVars, histories>>

PumpTopPatient ==
    /\ pump.pc = "top"
    /\ pump' = IF pump.eof /\ pump.exit THEN [pump EXCEPT !.pc = "close"]
               ELSE [pump EXCEPT !.pc = "wait", !.for = "message", !.left = 0]
    /\ UNCHANGED <<viewVars, ioVars, inbox, programVars, clientVars, histories>>

\* The top of the loop: what to wait for, and for how long
PumpTop ==
    /\ pump.pc = "top"
    /\ pump' =
         CASE pump.eof /\ pump.exit   -> [pump EXCEPT !.pc = "close"]
           [] ~ pump.eof /\ pump.exit -> [pump EXCEPT !.pc = "wait", !.for = "drain", !.left = DrainQuiet]
           [] ~ pump.exit /\ pump.burst ->
                [pump EXCEPT !.pc = "wait", !.for = "quiet", !.left = QuietAfter]
           [] ~ pump.exit /\ ~ pump.burst /\ control.who # "nobody" ->
                [pump EXCEPT !.pc = "wait", !.for = "lapse", !.left = control.left]
           [] OTHER -> [pump EXCEPT !.pc = "wait", !.for = "message", !.left = 0]
    /\ UNCHANGED <<viewVars, ioVars, inbox, programVars, clientVars, histories>>

\* A message, and what else turns up within the batch window
PumpReceive ==
    /\ pump.pc = "wait"
    /\ \E k \in 1 .. Len(inbox) :
         LET got   == SubSeq(inbox, 1, k)
             Got(m) == {i \in 1 .. k : got[i].m = m}
             batch == {got[i].chunk : i \in Got("output")}
         IN  /\ inbox' = SubSeq(inbox, k + 1, Len(inbox))
             /\ pump' = [pump EXCEPT
                  !.eof = @ \/ Got("eof") # {},
                  !.exit = @ \/ Got("exited") # {},
                  !.batch = batch,
                  !.pc = CASE batch = {}               -> "top"
                           [] batch # {} /\ pump.burst -> "deliver"
                           [] OTHER                    -> "busy"]
    /\ UNCHANGED <<viewVars, ioVars, programVars, clientVars, histories>>

TimedOut(for) == pump.pc = "wait" /\ pump.for = for /\ pump.left = 0 /\ inbox = <<>>

\* The output stopped
PumpQuiet ==
    /\ TimedOut("quiet")
    /\ pump' = [pump EXCEPT !.pc = "top", !.burst = FALSE]
    /\ busy' = FALSE
    /\ event' = "quiet"
    /\ UNCHANGED <<control, announced, size, localSize, seq, terminal, replay, sinks,
                   nextAttachment, answers, state, ioVars, inbox, programVars, clientVars,
                   granted, written, asked>>

\* A hold ran out: say so
PumpLapse ==
    /\ TimedOut("lapse")
    /\ pump' = [pump EXCEPT !.pc = "top"]
    /\ Controlling(control, size)
    /\ UNCHANGED <<localSize, nextAttachment, answers, busy, state, ioVars, programVars,
                   attached, shown, histories>>

\* The program is gone and its terminal has gone quiet
PumpDrained ==
    /\ TimedOut("drain")
    /\ pump' = [pump EXCEPT !.pc = "close"]
    /\ UNCHANGED <<viewVars, ioVars, inbox, programVars, clientVars, histories>>

\* A burst of output begins
PumpBusy ==
    /\ pump.pc = "busy"
    /\ pump' = [pump EXCEPT !.pc = "deliver", !.burst = TRUE]
    /\ busy' = TRUE
    /\ event' = "busy"
    /\ UNCHANGED <<control, announced, size, localSize, seq, terminal, replay, sinks,
                   nextAttachment, answers, state, ioVars, inbox, programVars, clientVars,
                   granted, written, asked>>

\* (mutant) every terminal answers
ResponderEach(c) == {s \in sinks : ~ Leased(c) /\ s.viewer \in Terminals}

\* View::responder, as the set of it: the terminal attached last answers queries, unless a
\* lease is in force
Responder(c) ==
    {s \in sinks :
        /\ ~ Leased(c)
        /\ s.viewer \in Terminals
        /\ \A r \in sinks : r.viewer \in Terminals => r.id <= s.id}

\* Session::deliver: the whole batch to the responder, and without its queries to the others
PumpDeliver ==
    LET now       == Lapse(control)
        responder == Responder(control)
        item      == Output({c.n : c \in {x \in pump.batch : x.ask = "text"}})
        queries   == {c \in pump.batch : c.ask # "text"}
        cursor    == {c.n : c \in {x \in pump.batch : x.ask = "cursor"}}
        replies   == IF responder = {} THEN cursor ELSE {}
        told      == now.who # announced
    IN  /\ pump.pc = "deliver"
        /\ pump' = [pump EXCEPT !.pc = IF replies = {} THEN "top" ELSE "reply",
                                !.batch = {}, !.replies = replies]
        /\ control' = now
        /\ announced' = now.who
        /\ seq' = seq + 1
        /\ terminal' = Append(terminal, item)
        /\ replay' = IF replay.on THEN Push(replay, item) ELSE replay
        /\ sinks' = {s \in sinks :
                       Open(s) \/ (~ IsWatcher(s) /\ ~ Draws(item) /\ s \notin responder)}
        /\ screen' = [w \in Watchers |->
                        IF Attached(w)
                        THEN [screen[w] EXCEPT !.items = Append(@, item),
                                               !.seq = seq + 1,
                                               !.control = IF told THEN now.who ELSE @]
                        ELSE screen[w]]
        /\ shown' = [t \in Terminals |->
                        IF Attached(t) /\ Draws(item) THEN Append(shown[t], item) ELSE shown[t]]
        /\ asked' = asked \cup [n: {q.n : q \in queries}, to: {s.id : s \in responder}]
        /\ answers' = IF responder # {} /\ queries # {} THEN ReplyWindow ELSE answers
        /\ UNCHANGED <<size, localSize, nextAttachment, busy, state, ioVars, inbox,
                       programVars, attached, granted, written, event>>

\* The host answers where the cursor is itself, when no terminal was shown the query
PumpReply ==
    /\ pump.pc = "reply"
    /\ pump' = [pump EXCEPT !.pc = "top", !.replies = {}]
    /\ asked' = asked \cup {[n |-> n, to |-> 0] : n \in pump.replies}
    /\ UNCHANGED <<viewVars, ioVars, inbox, programVars, clientVars, granted, written, event>>

\* The end of the pump: the write side goes first, then viewers are told, then the host's client
PumpClose ==
    /\ pump.pc = "close"
    /\ pump' = [pump EXCEPT !.pc = "exit"]
    /\ ioOpen' = FALSE
    /\ UNCHANGED <<viewVars, pending, inbox, programVars, clientVars, histories>>

PumpExit ==
    /\ pump.pc = "exit"
    /\ pump' = [pump EXCEPT !.pc = "event"]
    /\ busy' = FALSE
    /\ state' = "exited"
    /\ sinks' = AfterTelling
    /\ screen' = [w \in Watchers |->
                    IF Attached(w) THEN [screen[w] EXCEPT !.exited = TRUE] ELSE screen[w]]
    /\ UNCHANGED <<control, announced, size, localSize, seq, terminal, replay, nextAttachment,
                   answers, ioVars, inbox, programVars, attached, shown, histories>>

PumpEvent ==
    /\ pump.pc = "event"
    /\ pump' = [pump EXCEPT !.pc = "done"]
    /\ event' = "exited"
    /\ UNCHANGED <<viewVars, ioVars, inbox, programVars, clientVars, granted, written, asked>>

(***************************************************************************)
(* Time.  A tick is far longer than the reader takes to pass on what the   *)
(* terminal holds: EXIT_DRAIN_QUIET rests on that.                         *)
(***************************************************************************)

Less(left) == IF left = 0 THEN 0 ELSE left - 1

PumpWaits ==
    \/ pump.pc = "done"
    \/ /\ pump.pc = "wait" /\ inbox = <<>>
       /\ pump.for = "message" \/ pump.left > 0

Tick ==
    /\ pty = <<>> \/ readerDone
    /\ PumpKeepsUp => PumpWaits
    /\ control' = Aged(control)
    /\ answers' = Less(answers)
    /\ pump' = [pump EXCEPT !.left = Less(@)]
    /\ UNCHANGED <<announced, size, localSize, seq, terminal, replay, sinks, nextAttachment,
                   busy, state, ioVars, inbox, programVars, clientVars, histories>>

(***************************************************************************)
(* The specification.                                                      *)
(***************************************************************************)

NoScreen == [items |-> <<>>, seq |-> 0, size |-> InitSize, control |-> "nobody",
             exited |-> FALSE, from |-> 0]

\* Session::spawn
Init ==
    /\ control = NewControl /\ announced = "nobody"
    /\ size = InitSize /\ localSize = InitSize
    /\ seq = 0 /\ terminal = <<>>
    /\ replay = [on |-> FALSE, base |-> 0, baseSize |-> InitSize, items |-> <<>>]
    /\ sinks = {} /\ nextAttachment = 1
    /\ answers = 0 /\ busy = FALSE /\ state = "running"
    /\ ioOpen = TRUE /\ pending = [p \in Callers |-> Idle]
    /\ pump = [pc |-> "top", for |-> "message", left |-> 0, eof |-> FALSE, exit |-> FALSE,
               batch |-> {}, replies |-> {}, burst |-> FALSE]
    /\ inbox = <<>> /\ pty = <<>>
    /\ child = "running" /\ outlived = FALSE /\ printed = <<>> /\ readerDone = FALSE
    /\ attached = [v \in Viewers |-> 0]
    /\ screen = [w \in Watchers |-> NoScreen]
    /\ shown = [t \in Terminals |-> <<>>]
    /\ granted = <<>> /\ written = <<>> /\ asked = {} /\ event = "none"

LocalStep ==
    \/ \E p \in Locals : TakeLocalControl(p) \/ \E data \in LocalData : LocalWrite(p, data)
    \/ \E p \in Automations : Unattended(p)
    \/ \E s \in Sizes : Resize(s)
    \/ AskController

LeaseStep ==
    \E h \in Holders :
        \/ \E takeOver \in BOOLEAN : Acquire(h, takeOver)
        \/ \E i \in DOMAIN granted :
              \/ RenewLease(h, i)
              \/ ReleaseLease(h, i)
              \/ \E n \in 1 .. MaxInput : LeaseInput(h, i, n)
              \/ \E s \in Sizes : ResizeLeased(h, i, s)

ViewerStep ==
    \/ \E t \in Terminals : AttachTerminal(t)
    \/ \E w \in Watchers, resume \in BOOLEAN : AttachWatcher(w, resume)
    \/ \E v \in Viewers : Detach(v) \/ Drop(v)

ProgramStep == (\E ask \in Asks \cup {"text"} : PrintChunk(ask)) \/ ChildEnds \/ GrandchildEnds

PumpStep ==
    \/ PumpTop \/ PumpReceive \/ PumpQuiet \/ PumpLapse \/ PumpDrained
    \/ PumpBusy \/ PumpDeliver \/ PumpReply
    \/ PumpClose \/ PumpExit \/ PumpEvent

WriteStep == \E p \in Callers : Write(p)

Next ==
    \/ LocalStep \/ LeaseStep \/ ViewerStep \/ WriteStep
    \/ ProgramStep \/ WaiterStep \/ ReaderStep \/ PumpStep
    \/ Tick

Spec == Init /\ [][Next]_vars

\* The session's own threads run, and time passes.  Nothing is assumed of callers, viewers and
\* the program.
Fairness == WF_vars(PumpStep) /\ WF_vars(ReaderStep) /\ WF_vars(WaiterStep) /\ WF_vars(Tick)

FairSpec == Spec /\ Fairness

(***************************************************************************)
(* Properties.                                                             *)
(***************************************************************************)

Screens == [items: Seq(Items), seq: Nat, size: Sizes, control: Controllers,
            exited: BOOLEAN, from: Nat]

\* Every variable has its type.
TypeOK ==
    /\ control \in ControlStates /\ announced \in Controllers
    /\ size \in Sizes /\ localSize \in Sizes
    /\ seq \in Nat /\ terminal \in Seq(Items) /\ replay \in Replays
    /\ sinks \in SUBSET [id: Nat \ {0}, viewer: Viewers] /\ nextAttachment \in Nat \ {0}
    /\ answers \in Nat /\ busy \in BOOLEAN /\ state \in {"running", "exited"}
    /\ ioOpen \in BOOLEAN /\ pending \in [Callers -> Calls]
    /\ pump \in [pc: {"top", "wait", "busy", "deliver", "reply", "close", "exit", "event", "done"},
                 for: {"message", "lapse", "quiet", "drain"}, left: Nat, eof: BOOLEAN,
                 exit: BOOLEAN, batch: SUBSET Chunks, replies: SUBSET Nat, burst: BOOLEAN]
    /\ inbox \in Seq(Msgs) /\ pty \in Seq(Chunks)
    /\ child \in {"running", "ended", "reaped"} /\ outlived \in BOOLEAN
    /\ printed \in Seq([ask: {"text", "cursor", "other"}, own: BOOLEAN]) /\ readerDone \in BOOLEAN
    /\ attached \in [Viewers -> Nat]
    /\ screen \in [Watchers -> Screens] /\ shown \in [Terminals -> Seq(Items)]
    /\ granted \in Seq([generation: Nat, holder: Holders])
    /\ written \in Seq([lease: LeaseRefs, n: Nat])
    /\ asked \in SUBSET [n: Nat, to: Nat]
    /\ event \in {"none", "busy", "quiet", "exited"}

\* Whether a viewer's screen shows exactly the stream up to the item it has reached, at the size
\* the stream has there
UpToDate(shows, stream) ==
    /\ shows.seq <= Len(stream)
    /\ shows.items = SubSeq(stream, 1, shows.seq)
    /\ shows.size = SizeAfter(shows.items, InitSize)

\* A numbered viewer shows exactly the stream up to the item it has reached, at the size the
\* stream has there, however often it was cut off and resumed or started afresh; attached, it
\* has reached the end, and knows who controls the session as last announced and whether it ended.
WatcherExact ==
    \A w \in Watchers :
        /\ UpToDate(screen[w], terminal)
        /\ attached[w] # 0 =>
              /\ screen[w].seq = seq
              /\ screen[w].control = announced
              /\ screen[w].exited = (state = "exited")

\* What WatcherExact rests on: the session counts the items of the stream, keeps the size they
\* leave the terminal at, has the end of the stream in its replay, and has each attached viewer
\* among its sinks, under an id no other sink has.
StreamInv ==
    /\ seq = Len(terminal)
    /\ size = SizeAfter(terminal, InitSize)
    /\ replay.on => Tracks(replay, terminal, InitSize)
    /\ \A s \in sinks : s.id < nextAttachment
    /\ \A s, t \in sinks : s.id = t.id => s = t
    /\ \A v \in Viewers : attached[v] # 0 => [id |-> attached[v], viewer |-> v] \in sinks

\* What a terminal draws of a stream, in its order.
DrawnOf(s) ==
    LET drawn[n \in 0 .. Len(s)] ==
            IF n = 0 THEN <<>>
            ELSE IF Draws(s[n]) THEN Append(drawn[n - 1], s[n]) ELSE drawn[n - 1]
    IN  drawn[Len(s)]

\* An attached terminal has drawn every piece of output exactly once, from the snapshot or from
\* the stream.
TerminalExact ==
    \A t \in Terminals : attached[t] # 0 => DrawnOf(shown[t]) = DrawnOf(terminal)

\* No query is put to two answerers, and a query for the cursor that was delivered is put to one:
\* a program left without that answer may wait for it forever.
OneAnswerer ==
    /\ \A a, b \in asked : a.n = b.n => a = b
    /\ \A n \in pump.replies : \A a \in asked : a.n # n
    /\ pump.pc \in {"top", "wait"} /\ inbox = <<>> /\ pty = <<>> =>
          \A n \in DOMAIN printed : printed[n].ask = "cursor" => \E a \in asked : a.n = n

\* Under each lease the inputs written to the program are 1, 2, 3 ... without a gap or a repeat,
\* whatever is sent again or out of turn.
InputsInOrder ==
    \A i \in DOMAIN written :
        LET Earlier(n) == \E j \in 1 .. i - 1 : written[j] = [lease |-> written[i].lease, n |-> n] IN
        \A n \in 1 .. written[i].n : Earlier(n) <=> n # written[i].n

\* While the person at this computer is in control, the terminal has the size they asked for.
LocalOwnsSize == Controller(control) = "local" => size = localSize

\* Whether lease i is the one in force, told apart from what the code looks at
InForce(i) ==
    /\ control.who = granted[i].holder
    /\ control.id = i
    /\ control.left > 0

\* A lease that is no longer in force never is again: not by a late renewal, nor by the release
\* or the end of the one that replaced it.
LostLeaseStaysLost == [][\A i \in DOMAIN granted : ~ InForce(i) => ~ InForce(i)']_vars

\* Once the session has exited, everything the program itself printed is on its terminal, even
\* when a grandchild keeps the terminal open and end-of-file never comes.
ProgramOutputComplete ==
    LET Drawn(n) == \E i \in DOMAIN terminal :
                       terminal[i].kind = "output" /\ n \in terminal[i].text
    IN  state = "exited" =>
          \A n \in DOMAIN printed : printed[n].own /\ printed[n].ask = "text" => Drawn(n)

\* While the session runs, viewers are told of every change of control, a lapse included.
LapseAnnounced == (announced # Controller(control)) ~> (announced = Controller(control) \/ state = "exited")

\* The end of the program is always reported, a grandchild or not.
ExitReported == (child = "ended") ~> (event = "exited")
=============================================================================
