------------------------------- MODULE Replay -------------------------------
(***************************************************************************)
(* The last stretch of a session's numbered stream, kept so that a viewer  *)
(* which lost its connection can carry on from the last item it saw        *)
(* (crates/pty-host/src/replay.rs).                                        *)
(*                                                                         *)
(* An item of the stream is a batch of output or a resize.  A batch is the *)
(* set of the chunks of text in it, each named by its place in what the    *)
(* program printed; how many there are stands for how many bytes.          *)
(* A replay is a record                                                    *)
(*   on        whether the session keeps one yet (the code's Option)       *)
(*   base      the number of the item just before the first one kept       *)
(*   baseSize  the size of the terminal after that item                    *)
(*   items     every item after base                                       *)
(***************************************************************************)
EXTENDS Naturals, Sequences, FiniteSets, FiniteSetsExt

CONSTANTS
    Sizes,          \* the sizes a terminal may have
    ReplayBudget,   \* REPLAY_BYTES
    ResizeCost      \* what a kept resize counts as

ASSUME ReplayAssumption == ReplayBudget \in Nat /\ ResizeCost \in Nat

Output(text) == [kind |-> "output", text |-> text]
Resized(size) == [kind |-> "resized", size |-> size]

Items == [kind: {"output"}, text: SUBSET Nat] \cup [kind: {"resized"}, size: Sizes]

Replays == [on: BOOLEAN, base: Nat, baseSize: Sizes, items: Seq(Items)]

NewReplay(seq, size) == [on |-> TRUE, base |-> seq, baseSize |-> size, items |-> <<>>]

Cost(item) == IF item.kind = "output" THEN Cardinality(item.text) ELSE ResizeCost

\* The size a terminal of the given size is left at by the items
SizeAfter(items, size) ==
    LET resizes == {i \in DOMAIN items : items[i].kind = "resized"} IN
    IF resizes = {} THEN size ELSE items[Max(resizes)].size

\* What the items after the first k count as
CostAfter(items, k) == MapThenSumSet(LAMBDA i : Cost(items[i]), k + 1 .. Len(items))

\* How many of the oldest items go: the fewest that leave the rest within the budget
Evicted(items) ==
    Min({k \in 0 .. Len(items) : k = Len(items) \/ CostAfter(items, k) <= ReplayBudget})

\* (mutant) the size before the first item kept is not brought up to date on eviction
PushForgettingSize(r, item) ==
    LET all  == Append(r.items, item)
        gone == Evicted(all)
    IN [on |-> r.on, base |-> r.base + gone, baseSize |-> r.baseSize,
        items |-> SubSeq(all, gone + 1, Len(all))]

\* The item after the last one kept is kept too, at the cost of the oldest
Push(r, item) ==
    LET all  == Append(r.items, item)
        gone == Evicted(all)
    IN [on |-> r.on,
        base |-> r.base + gone,
        baseSize |-> SizeAfter(SubSeq(all, 1, gone), r.baseSize),
        items |-> SubSeq(all, gone + 1, Len(all))]

\* Whether every item after item number after is still kept
Resumable(r, after) == after >= r.base /\ after - r.base <= Len(r.items)

\* The size after item number after, and the items since
SizeSince(r, after) == SizeAfter(SubSeq(r.items, 1, after - r.base), r.baseSize)
ItemsSince(r, after) == SubSeq(r.items, after - r.base + 1, Len(r.items))

\* The replay r holds the end of the stream s, whose terminal began at size z.
Tracks(r, s, z) ==
    /\ r.base + Len(r.items) = Len(s)
    /\ r.items = SubSeq(s, r.base + 1, Len(s))
    /\ r.baseSize = SizeAfter(SubSeq(s, 1, r.base), z)
=============================================================================
