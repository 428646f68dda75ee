------------------------------- MODULE Links -------------------------------
(***************************************************************************)
(* The links of one host to the relay (crates/server/src/relay.rs), which  *)
(* runs as several instances that share records.  A host whose network     *)
(* changed connects again while its old link still looks alive, and to     *)
(* whichever instance the proxy picks: the records name the link it is on, *)
(* the instances signal each other, and each checks in rounds what the     *)
(* signals may have missed.                                                *)
(*                                                                         *)
(* Modelled: serve_socket for a host, and the task of each instance that   *)
(* looks at where its links are.  What the links carry is in Relay, whose  *)
(* proofs extend both: the names here are those Relay does not use.        *)
(***************************************************************************)
EXTENDS Naturals

CONSTANTS
    Instances,
    Connects,   \* the times the host connects, numbered
    MaxCrashes  \* bound: how often an instance goes away

ASSUME LinksAssumption == Connects \subseteq Nat \ {0} /\ MaxCrashes \in Nat

NoConnect == 0
NoInstance == "no instance"
Open == "open"     \* not closing: there is no reason yet

VARIABLES
    place,      \* the records: the link the host is noted to be on
    holds,      \* the hub of an instance: the link of the host it holds
    pc,         \* a link's task: where it is,
    at,         \*                on which instance,
    close,      \*                and why the link closes
    looks,      \* the task of an instance that checks: what it does, and the link it looks at
    crashes,
    latest      \* history: the link noted last

linksVars == <<place, holds, pc, at, close, looks, crashes, latest>>

Resting == [pc |-> "idle", link |-> NoConnect]

LinksInit ==
    /\ place = NoConnect
    /\ holds = [i \in Instances |-> NoConnect]
    /\ pc = [l \in Connects |-> "new"]
    /\ at = [l \in Connects |-> NoInstance]
    /\ close = [l \in Connects |-> Open]
    /\ looks = [i \in Instances |-> Resting]
    /\ crashes = 0
    /\ latest = NoConnect

Goes(l, where) == pc' = [pc EXCEPT ![l] = where]

\* Links whose tasks are over: nothing is left of them.
AreOver(ls) ==
    /\ pc' = [l \in Connects |-> IF l \in ls THEN "over" ELSE pc[l]]
    /\ at' = [l \in Connects |-> IF l \in ls THEN NoInstance ELSE at[l]]
    /\ close' = [l \in Connects |-> IF l \in ls THEN "gone" ELSE close[l]]

\* Outbox::close: the first reason stands
ClosingFor(l, reason) == [close EXCEPT ![l] = IF @ = Open THEN reason ELSE @]

---------------------------------------------------------------------------
\* serve_socket, for a host

Connect(l, i) ==
    /\ pc[l] = "new" /\ \A k \in Connects : k < l => pc[k] # "new"
    /\ Goes(l, "noting") /\ at' = [at EXCEPT ![l] = i]
    /\ UNCHANGED <<place, holds, close, looks, crashes, latest>>

\* It is noted before it is let in, or is not let in.
Note(l) ==
    /\ pc[l] = "noting"
    /\ \/ Goes(l, "attaching") /\ place' = l /\ latest' = l /\ UNCHANGED <<at, close>>
       \/ AreOver({l}) /\ UNCHANGED <<place, latest>>
    /\ UNCHANGED <<holds, looks, crashes>>

\* (mutant) the earlier link is forgotten, not closed
Alongside(earlier) == close

\* attach_host: an earlier link here is closed
Instead(earlier) == IF earlier = NoConnect THEN close ELSE ClosingFor(earlier, "replaced")

\* attach_host; the signal of it comes to the instances sooner or later, or is missed
AttachHost(l) ==
    /\ pc[l] = "attaching"
    /\ Goes(l, "up")
    /\ holds' = [holds EXCEPT ![at[l]] = l]
    /\ close' = Instead(holds[at[l]])
    /\ UNCHANGED <<place, at, looks, crashes, latest>>

\* pump: the host closed it, says nothing for too long, or takes nothing any more
Ends(l) ==
    /\ pc[l] = "up" /\ Goes(l, "leaving")
    /\ UNCHANGED <<place, holds, at, close, looks, crashes, latest>>

\* detach_host
DetachHost(l) ==
    /\ pc[l] = "leaving" /\ Goes(l, "forgetting")
    /\ holds' = [holds EXCEPT ![at[l]] = IF @ = l THEN NoConnect ELSE @]
    /\ UNCHANGED <<place, at, close, looks, crashes, latest>>

\* (mutant) whichever link is noted
DropAny(l) == NoConnect

\* drop_link, unless a later link took its place
Dropped(l) == IF place = l THEN NoConnect ELSE place

\* drop_link, which the records may refuse
Forget(l) ==
    /\ pc[l] = "forgetting" /\ AreOver({l})
    /\ place' \in {Dropped(l), place}
    /\ UNCHANGED <<holds, looks, crashes, latest>>

---------------------------------------------------------------------------
\* The task that checks: start_rechecks.

Turns(i, what) == looks' = [looks EXCEPT ![i] = what]

\* keep_places, in each round, takes the links there are before it reads the records.
CheckRound(i) ==
    /\ looks[i].pc = "idle"
    /\ Turns(i, [pc |-> "keep", link |-> holds[i]])
    /\ UNCHANGED <<place, holds, pc, at, close, crashes, latest>>

\* keep_place, at the signal that a link was attached, does too.
HearLinked(i) ==
    /\ looks[i].pc = "idle" /\ \E l \in Connects : pc[l] \in {"up", "leaving", "forgetting", "over"}
    /\ Turns(i, [pc |-> "place", link |-> holds[i]])
    /\ UNCHANGED <<place, holds, pc, at, close, crashes, latest>>

\* (mutant) a place that is gone displaces nothing
NamedOther(i) == looks[i].link # NoConnect /\ place \notin {NoConnect, looks[i].link}

\* The records name another link than that one, or none any more.
Displaced(i) == looks[i].link # NoConnect /\ place # looks[i].link

\* keep_places; or the records cannot be read, and the next round looks again
Keep(i) ==
    /\ looks[i].pc = "keep"
    /\ close' = IF Displaced(i) THEN ClosingFor(looks[i].link, "replaced") ELSE close
    /\ Turns(i, Resting)
    /\ UNCHANGED <<place, holds, pc, at, crashes, latest>>

\* keep_place
KeepPlace(i) ==
    /\ looks[i].pc = "place"
    /\ close' = IF Displaced(i) /\ holds[i] = looks[i].link
                THEN ClosingFor(looks[i].link, "replaced") ELSE close
    /\ Turns(i, Resting)
    /\ UNCHANGED <<place, holds, pc, at, crashes, latest>>

---------------------------------------------------------------------------
\* An instance goes away, and what it noted stays.
Crash(i) ==
    /\ crashes < MaxCrashes /\ crashes' = crashes + 1
    /\ AreOver({l \in Connects : at[l] = i})
    /\ holds' = [holds EXCEPT ![i] = NoConnect]
    /\ Turns(i, Resting)
    /\ UNCHANGED <<place, latest>>

ConnectSteps(l) ==
    \/ \E i \in Instances : Connect(l, i)
    \/ Note(l) \/ AttachHost(l) \/ Ends(l) \/ DetachHost(l) \/ Forget(l)

LookSteps(i) == CheckRound(i) \/ HearLinked(i) \/ Keep(i) \/ KeepPlace(i)

LinksNext ==
    \/ \E l \in Connects : ConnectSteps(l)
    \/ \E i \in Instances : LookSteps(i) \/ Crash(i)

LinksSpec == LinksInit /\ [][LinksNext]_linksVars

\* Rounds come, and what was begun is carried on; what is to close has so long to take it, and
\* then is closed.
LinksFairness ==
    /\ \A i \in Instances : WF_linksVars(CheckRound(i)) /\ WF_linksVars(Keep(i) \/ KeepPlace(i))
    /\ \A l \in Connects : WF_linksVars(close[l] # Open /\ Ends(l))

LinksFairSpec == LinksSpec /\ LinksFairness

(***************************************************************************)
(* Properties.                                                             *)
(***************************************************************************)

LinksTypeOK ==
    /\ place \in Connects \cup {NoConnect}
    /\ holds \in [Instances -> Connects \cup {NoConnect}]
    /\ pc \in [Connects -> {"new", "noting", "attaching", "up", "leaving", "forgetting", "over"}]
    /\ at \in [Connects -> Instances \cup {NoInstance}]
    /\ close \in [Connects -> {Open, "replaced", "gone"}]
    /\ looks \in [Instances -> [pc : {"idle", "keep", "place"}, link : Connects \cup {NoConnect}]]
    /\ crashes \in 0 .. MaxCrashes
    /\ latest \in Connects \cup {NoConnect}

Up(l) == pc[l] = "up" /\ close[l] = Open

\* What an instance holds is one link, and a link that is up is the one its instance holds: only
\* it hears what devices, revocations and pairings say.
Held ==
    /\ \A i \in Instances : holds[i] # NoConnect => at[holds[i]] = i
    /\ \A l \in Connects : Up(l) => holds[at[l]] = l

\* Of several links of the host, whichever instances hold them, all but one close, though signals
\* are missed (relay.rs:24-26, docs/design/27-remote-r2.md:664-666).
OneLink == []<>(\A l, k \in Connects : Up(l) /\ Up(k) => l = k)

\* A link is found displaced only by one that was noted later, however late the signal of an
\* earlier one comes, and though earlier ones are forgotten meanwhile (relay.rs:933-934,
\* docs/design/27-remote-r2.md:767-768).
NewestStays ==
    [][\A i \in Instances : looks[i].pc \in {"keep", "place"} /\ looks'[i] = Resting =>
          \A l \in Connects : Up(l) /\ close'[l] = "replaced" => latest # l]_linksVars
=============================================================================
