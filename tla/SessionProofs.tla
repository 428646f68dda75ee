--------------------------- MODULE SessionProofs ---------------------------
(***************************************************************************)
(* Theorems about a session, for any number of callers, viewers and sizes, *)
(* and any of the bounds.  First, what the operators of Control and Replay *)
(* return, for every control state and every stream: the facts the proofs  *)
(* about a session cite.                                                   *)
(***************************************************************************)
EXTENDS Session, TLAPS, SequenceTheorems, WellFoundedInduction

\* The library's order on the natural numbers is the usual one.
LEMMA LessThanRel ==
    \A x, y \in Nat : x < y => <<x, y>> \in OpToRel(<, Nat)
BY Zenon DEF OpToRel

\* A non-empty set of natural numbers has a least element, and Min is it.
LEMMA MinIsLeast ==
    ASSUME NEW S \in SUBSET Nat, S # {}
    PROVE  Min(S) \in S /\ \A y \in S : Min(S) <= y
<1> DEFINE Smaller == OpToRel(<, Nat)
<1>1. \A x, y \in Nat : x < y => <<x, y>> \in Smaller
  BY LessThanRel
<1>2. IsWellFoundedOn(Smaller, Nat)
  BY NatLessThanWellFounded
<1> HIDE DEF Smaller
<1>3. PICK x \in S : \A y \in S : ~ (<<y, x>> \in Smaller)
  BY <1>2, WFMin
<1>4. \A y \in S : ~ (y < x)
  BY <1>1, <1>3
<1>5. \A y \in S : x <= y
  BY <1>4
<1>. QED  BY <1>5 DEF Min

\* A non-empty set of natural numbers with a bound has a greatest element, and Max is it.
LEMMA MaxIsGreatest ==
    ASSUME NEW S \in SUBSET Nat, S # {}, NEW n \in Nat, \A y \in S : y <= n
    PROVE  Max(S) \in S /\ \A y \in S : Max(S) >= y
<1> DEFINE D == {n - y : y \in S}
<1>1. D \in SUBSET Nat /\ D # {}
  OBVIOUS
<1>2. Min(D) \in D /\ \A d \in D : Min(D) <= d
  BY <1>1, MinIsLeast
<1>3. PICK x \in S : Min(D) = n - x
  BY <1>2
<1>4. \A y \in S : x >= y
  BY <1>2, <1>3
<1>. QED  BY <1>4 DEF Max

\* Control::lapse and what is built on it keep the control state well-formed.
LEMMA ControlTypes ==
    ASSUME NEW c \in ControlStates
    PROVE  /\ Lapse(c) \in ControlStates
           /\ Lapse(Lapse(c)) = Lapse(c)
           /\ GivenUp(c) \in ControlStates
           /\ LocalInput(c) \in ControlStates
           /\ Aged(c) \in ControlStates
           /\ \A h \in Holders, id \in Nat : Acquired(c, h, id) \in ControlStates
           /\ \A ref : Renew(c, ref) \in ControlStates /\ Release(c, ref) \in ControlStates
           /\ \A ref : \A n \in Nat : Input(c, ref, n) \in ControlStates
           /\ Controller(c) \in Controllers
<1> USE DEF ControlStates, Controllers, NewControl, GivenUp, Lapse
<1>1. GivenUp(c) \in ControlStates /\ Lapse(c) \in ControlStates /\ Lapse(Lapse(c)) = Lapse(c)
  OBVIOUS
<1>2. LocalInput(c) \in ControlStates /\ Aged(c) \in ControlStates
  BY HoldsAssumption DEF LocalInput, Aged
<1>3. \A h \in Holders, id \in Nat : Acquired(c, h, id) \in ControlStates
  BY HoldsAssumption DEF Acquired
<1>4. \A ref : Renew(c, ref) \in ControlStates /\ Release(c, ref) \in ControlStates
  BY HoldsAssumption DEF Renew, Release
<1>5. \A ref : \A n \in Nat : Input(c, ref, n) \in ControlStates
  BY DEF Input
<1>6. Controller(c) \in Controllers
  BY DEF Controller
<1>. QED  BY <1>1, <1>2, <1>3, <1>4, <1>5, <1>6
\* A stream leaves a terminal at one of the sizes.
LEMMA SizeAfterType ==
    ASSUME NEW items \in Seq(Items), NEW z \in Sizes
    PROVE  SizeAfter(items, z) \in Sizes
<1> DEFINE R == {i \in DOMAIN items : items[i].kind = "resized"}
<1>1. CASE R = {}
  BY <1>1 DEF SizeAfter
<1>2. CASE R # {}
  <2>1. R \in SUBSET Nat /\ Len(items) \in Nat /\ \A y \in R : y <= Len(items)
    OBVIOUS
  <2>2. Max(R) \in R
    <3> HIDE DEF R
    <3>. QED  BY <1>2, <2>1, MaxIsGreatest
  <2>3. items[Max(R)] \in Items /\ items[Max(R)].kind = "resized"
    BY <2>2
  <2>4. items[Max(R)].size \in Sizes
    BY <2>3 DEF Items
  <2>. QED  BY <1>2, <2>4 DEF SizeAfter
<1>. QED  BY <1>1, <1>2

\* The terminal's size after a stream and one more item: the item's own, if it is a resize.
LEMMA SizeAfterAppend ==
    ASSUME NEW items \in Seq(Items), NEW z, NEW x \in Items
    PROVE  SizeAfter(Append(items, x), z) =
              IF x.kind = "resized" THEN x.size ELSE SizeAfter(items, z)
<1> DEFINE R(s) == {i \in DOMAIN s : s[i].kind = "resized"}
           n == Len(items)
           all == Append(items, x)
<1>1. /\ n \in Nat /\ Len(all) = n + 1 /\ DOMAIN all = 1 .. n + 1 /\ DOMAIN items = 1 .. n
      /\ all[n + 1] = x /\ \A i \in 1 .. n : all[i] = items[i]
  OBVIOUS
<1> HIDE DEF n, all
<1>2. CASE x.kind = "resized"
  <2>1. n + 1 \in R(all) /\ R(all) \in SUBSET Nat /\ \A y \in R(all) : y <= n + 1
    BY <1>1, <1>2
  <2>2. Max(R(all)) = n + 1
    <3> HIDE DEF R
    <3>1. Max(R(all)) \in R(all) /\ Max(R(all)) >= n + 1
      BY <2>1, <1>1, MaxIsGreatest
    <3>2. Max(R(all)) \in Nat /\ Max(R(all)) <= n + 1
      BY <3>1, <2>1
    <3>. QED  BY <3>1, <3>2, <1>1
  <2>. QED  BY <1>1, <1>2, <2>1, <2>2 DEF SizeAfter, all
<1>3. CASE x.kind # "resized"
  <2>1. R(all) = R(items)
    BY <1>1, <1>3
  <2>2. CASE R(items) = {}
    BY <1>3, <2>1, <2>2 DEF SizeAfter, all
  <2>3. CASE R(items) # {}
    <3>1. R(items) \in SUBSET Nat /\ \A y \in R(items) : y <= n
      BY <1>1
    <3>2. Max(R(items)) \in R(items)
      BY <3>1, <2>3, <1>1, MaxIsGreatest
    <3>3. all[Max(R(items))] = items[Max(R(items))]
      BY <3>2, <1>1
    <3>. QED  BY <1>3, <2>1, <2>3, <3>3 DEF SizeAfter, all
  <2>. QED  BY <2>2, <2>3
<1>. QED  BY <1>2, <1>3
\* The terminal's size after two stretches of a stream is that of the second from the first.
LEMMA SizeAfterConcat ==
    ASSUME NEW s \in Seq(Items), NEW t \in Seq(Items), NEW z
    PROVE  SizeAfter(s \o t, z) = SizeAfter(t, SizeAfter(s, z))
<1> DEFINE R(q) == {i \in DOMAIN q : q[i].kind = "resized"}
           m == Len(s)
           n == Len(t)
           all == s \o t
<1>1. /\ m \in Nat /\ n \in Nat
      /\ DOMAIN s = 1 .. m /\ DOMAIN t = 1 .. n /\ DOMAIN all = 1 .. m + n
      /\ \A i \in 1 .. m : all[i] = s[i]
      /\ \A i \in 1 .. n : all[m + i] = t[i]
  OBVIOUS
<1> HIDE DEF m, n, all
<1>2. /\ R(s) \in SUBSET Nat /\ \A y \in R(s) : y <= m
      /\ R(t) \in SUBSET Nat /\ \A y \in R(t) : y <= n
      /\ R(all) \in SUBSET Nat /\ \A y \in R(all) : y <= m + n
  BY <1>1
<1>3. CASE R(t) = {}
  <2>1. R(all) = R(s)
    <3>1. ASSUME NEW i \in R(all) PROVE i \in R(s)
      <4>1. CASE i <= m
        BY <1>1, <4>1
      <4>2. CASE i > m
        <5>1. i - m \in 1 .. n /\ all[m + (i - m)] = t[i - m] /\ m + (i - m) = i
          BY <1>1, <4>2
        <5>2. i - m \in R(t)
          BY <5>1, <1>1
        <5>. QED  BY <5>2, <1>3
      <4>. QED  BY <1>2, <4>1, <4>2, <1>1
    <3>2. ASSUME NEW i \in R(s) PROVE i \in R(all)
      BY <1>1
    <3>. QED  BY <3>1, <3>2
  <2>2. CASE R(s) = {}
    BY <1>3, <2>1, <2>2 DEF SizeAfter, all
  <2>3. CASE R(s) # {}
    <3>1. Max(R(s)) \in R(s)
      <4> HIDE DEF R
      <4>. QED  BY <1>1, <1>2, <2>3, MaxIsGreatest
    <3>2. all[Max(R(s))] = s[Max(R(s))]
      BY <3>1, <1>1
    <3>. QED  BY <1>3, <2>1, <2>3, <3>2 DEF SizeAfter, all
  <2>. QED  BY <2>2, <2>3
<1>4. CASE R(t) # {}
  <2>1. Max(R(t)) \in R(t) /\ \A y \in R(t) : Max(R(t)) >= y
    <3> HIDE DEF R
    <3>. QED  BY <1>1, <1>2, <1>4, MaxIsGreatest
  <2>2. m + Max(R(t)) \in R(all) /\ all[m + Max(R(t))] = t[Max(R(t))]
    BY <1>1, <2>1
  <2>3. ASSUME NEW i \in R(all) PROVE i <= m + Max(R(t))
    <3>1. CASE i <= m
      BY <1>1, <1>2, <2>1, <3>1
    <3>2. CASE i > m
      <4>1. i - m \in 1 .. n /\ all[m + (i - m)] = t[i - m] /\ m + (i - m) = i
        BY <1>1, <3>2
      <4>2. i - m \in R(t)
        BY <4>1, <1>1
      <4>3. Max(R(t)) \in Nat
        BY <1>2, <2>1
      <4> HIDE DEF R
      <4>. QED  BY <4>2, <4>3, <2>1, <1>1, <1>2
    <3>. QED  BY <1>1, <1>2, <3>1, <3>2
  <2>4. Max(R(all)) = m + Max(R(t))
    <3>1. R(all) # {} /\ m + n \in Nat
      BY <2>2, <1>1
    <3> HIDE DEF R
    <3>2. Max(R(all)) \in R(all) /\ \A y \in R(all) : Max(R(all)) >= y
      BY <3>1, <1>2, MaxIsGreatest
    <3>3. Max(R(all)) \in Nat /\ m + Max(R(t)) \in Nat
      BY <3>2, <2>1, <1>2, <1>1
    <3>. QED  BY <2>2, <2>3, <3>2, <3>3
  <2>. QED  BY <1>4, <2>2, <2>4 DEF SizeAfter, all
<1>. QED  BY <1>3, <1>4

\* Replay::push never keeps fewer than none of the items, nor evicts more than all.
LEMMA EvictedType ==
    ASSUME NEW items \in Seq(Items)
    PROVE  Evicted(items) \in 0 .. Len(items)
<1> DEFINE K == {k \in 0 .. Len(items) : k = Len(items) \/ CostAfter(items, k) <= ReplayBudget}
<1>1. K \in SUBSET Nat /\ Len(items) \in K /\ K \subseteq 0 .. Len(items)
  OBVIOUS
<1>2. Evicted(items) = Min(K)
  BY DEF Evicted
<1> HIDE DEF K
<1>. QED  BY <1>1, <1>2, MinIsLeast
\* Replay::push returns a replay, kept or not as before.
LEMMA PushType ==
    ASSUME NEW r \in Replays, NEW x \in Items
    PROVE  Push(r, x) \in Replays /\ Push(r, x).on = r.on
<1> DEFINE all == Append(r.items, x)
           gone == Evicted(all)
<1>1. r.items \in Seq(Items) /\ r.base \in Nat /\ r.baseSize \in Sizes /\ r.on \in BOOLEAN
  BY DEF Replays
<1>2. all \in Seq(Items)
  BY <1>1
<1>3. Push(r, x) = [on |-> r.on, base |-> r.base + gone,
                    baseSize |-> SizeAfter(SubSeq(all, 1, gone), r.baseSize),
                    items |-> SubSeq(all, gone + 1, Len(all))]
  BY DEF Push
<1> HIDE DEF all
<1>4. gone \in 0 .. Len(all) /\ Len(all) \in Nat
  BY <1>2, EvictedType
<1> HIDE DEF gone
<1>5. SubSeq(all, 1, gone) \in Seq(Items) /\ SubSeq(all, gone + 1, Len(all)) \in Seq(Items)
  BY <1>2, <1>4
<1>6. SizeAfter(SubSeq(all, 1, gone), r.baseSize) \in Sizes
  BY <1>1, <1>5, SizeAfterType
<1>. QED  BY <1>1, <1>3, <1>4, <1>5, <1>6 DEF Replays

\* Replay::new holds the end of the stream it is started on: nothing of it yet.
LEMMA NewReplayTracks ==
    ASSUME NEW s \in Seq(Items), NEW z \in Sizes
    PROVE  /\ NewReplay(Len(s), SizeAfter(s, z)) \in Replays
           /\ Tracks(NewReplay(Len(s), SizeAfter(s, z)), s, z)
<1>1. SubSeq(s, 1, Len(s)) = s /\ SubSeq(s, Len(s) + 1, Len(s)) = <<>> /\ Len(s) \in Nat
  BY SubSeqFull, SubSeqEmpty
<1>2. SizeAfter(s, z) \in Sizes
  BY SizeAfterType
<1> DEFINE r == NewReplay(Len(s), SizeAfter(s, z))
<1>3. r \in Replays
  BY <1>1, <1>2 DEF NewReplay, Replays
<1>4. r.base = Len(s) /\ r.items = <<>> /\ r.baseSize = SizeAfter(s, z) /\ Len(r.items) = 0
  BY DEF NewReplay
<1> HIDE DEF r
<1>5. r.base + Len(r.items) = Len(s)
  BY <1>1, <1>4
<1>6. r.items = SubSeq(s, r.base + 1, Len(s)) /\ r.baseSize = SizeAfter(SubSeq(s, 1, r.base), z)
  BY <1>1, <1>4
<1>7. Tracks(r, s, z)
  BY <1>5, <1>6 DEF Tracks
<1>. QED  BY <1>3, <1>7 DEF r

\* A stretch of a stretch of a sequence is a stretch of the sequence.
LEMMA StretchOfStretch ==
    ASSUME NEW S, NEW s \in Seq(S), NEW b \in 0 .. Len(s), NEW e \in b .. Len(s),
           NEW i \in 0 .. e - b, NEW j \in i .. e - b
    PROVE  SubSeq(SubSeq(s, b + 1, e), i + 1, j) = SubSeq(s, b + i + 1, b + j)
<1> DEFINE t == SubSeq(s, b + 1, e)
           u == SubSeq(t, i + 1, j)
           v == SubSeq(s, b + i + 1, b + j)
<1>1. t \in Seq(S) /\ Len(t) = e - b /\ \A k \in 1 .. e - b : t[k] = s[b + k]
  OBVIOUS
<1>2. v \in Seq(S) /\ Len(v) = j - i /\ \A k \in 1 .. j - i : v[k] = s[b + i + k]
  OBVIOUS
<1> HIDE DEF t, v
<1>3. u \in Seq(S) /\ Len(u) = j - i /\ \A k \in 1 .. j - i : u[k] = t[i + k]
  <2>1. /\ i + 1 \in 1 .. Len(t) + 1 /\ j \in (i + 1) - 1 .. Len(t)
        /\ j - (i + 1) + 1 = j - i /\ \A k \in 1 .. j - i : (i + 1) + k - 1 = i + k
    BY <1>1
  <2>2. /\ u \in Seq(S) /\ Len(u) = j - (i + 1) + 1
        /\ \A k \in 1 .. j - (i + 1) + 1 : u[k] = t[(i + 1) + k - 1]
    BY <1>1, <2>1, SubSeqProperties
  <2>. QED  BY <2>1, <2>2
<1> HIDE DEF u
<1>4. ASSUME NEW k \in 1 .. j - i PROVE u[k] = v[k]
  <2>1. i + k \in 1 .. e - b /\ b + (i + k) = b + i + k
    OBVIOUS
  <2>. QED  BY <1>1, <1>2, <1>3, <2>1
<1>5. u = v
  BY <1>2, <1>3, <1>4, SeqEqual
<1>. QED  BY <1>5 DEF t, u, v

\* What stretches of a sequence become when one element is appended to it.
LEMMA StretchOfAppend ==
    ASSUME NEW S, NEW s \in Seq(S), NEW x \in S, NEW b \in 0 .. Len(s)
    PROVE  /\ SubSeq(Append(s, x), 1, b) = SubSeq(s, 1, b)
           /\ SubSeq(Append(s, x), b + 1, Len(s) + 1) = Append(SubSeq(s, b + 1, Len(s)), x)
<1> DEFINE n == Len(s)
           l == Append(s, x)
           p == SubSeq(s, 1, b)
           q == SubSeq(l, 1, b)
           t == SubSeq(s, b + 1, n)
           u == Append(t, x)
           v == SubSeq(l, b + 1, n + 1)
<1>1. n \in Nat /\ b \in 0 .. n
  OBVIOUS
<1>2. /\ l \in Seq(S) /\ Len(l) = n + 1
      /\ \A k \in 1 .. n : l[k] = s[k]
      /\ l[n + 1] = x
  OBVIOUS
<1>3. p \in Seq(S) /\ Len(p) = b /\ \A k \in 1 .. b : p[k] = s[k]
  OBVIOUS
<1>4. t \in Seq(S) /\ Len(t) = n - b /\ \A k \in 1 .. n - b : t[k] = s[b + k]
  OBVIOUS
<1> HIDE DEF l, t, n, p
<1>5. q \in Seq(S) /\ Len(q) = b /\ \A k \in 1 .. b : q[k] = l[k]
  BY <1>1, <1>2
<1>6. v \in Seq(S) /\ Len(v) = n - b + 1 /\ \A k \in 1 .. n - b + 1 : v[k] = l[b + k]
  BY <1>1, <1>2
<1>7. /\ u \in Seq(S) /\ Len(u) = n - b + 1
      /\ \A k \in 1 .. n - b : u[k] = t[k]
      /\ u[n - b + 1] = x
  BY <1>1, <1>4
<1> HIDE DEF q, u, v
<1>8. q = p
  <2>1. \A k \in 1 .. b : q[k] = p[k]
    BY <1>1, <1>2, <1>3, <1>5
  <2>. QED  BY <1>3, <1>5, <2>1, SeqEqual
<1>9. v = u
  <2>1. ASSUME NEW k \in 1 .. n - b + 1 PROVE v[k] = u[k]
    <3>1. CASE k = n - b + 1
      <4>1. b + k = n + 1
        BY <1>1, <3>1
      <4>. QED  BY <1>2, <1>6, <1>7, <3>1, <4>1
    <3>2. CASE k \in 1 .. n - b
      <4>1. b + k \in 1 .. n
        BY <1>1, <3>2
      <4>. QED  BY <1>2, <1>4, <1>6, <1>7, <3>2, <4>1
    <3>. QED  BY <1>1, <3>1, <3>2
  <2>. QED  BY <1>6, <1>7, <2>1, SeqEqual
<1>. QED  BY <1>8, <1>9 DEF l, n, p, q, t, u, v

\* Replay::push: a replay that holds the end of a stream holds the end of the longer one, however
\* much it evicts.
LEMMA PushTracks ==
    ASSUME NEW s \in Seq(Items), NEW z \in Sizes, NEW x \in Items,
           NEW r \in Replays, Tracks(r, s, z)
    PROVE  /\ Push(r, x) \in Replays
           /\ Push(r, x).on = r.on
           /\ Tracks(Push(r, x), Append(s, x), z)
<1> DEFINE n == Len(s)
           b == r.base
           items == r.items
           longer == Append(s, x)
           all == Append(items, x)
           gone == Evicted(all)
           kept == SubSeq(all, gone + 1, Len(all))
           lost == SubSeq(all, 1, gone)
<1>1. /\ n \in Nat /\ b \in Nat /\ items \in Seq(Items) /\ r.baseSize \in Sizes /\ r.on \in BOOLEAN
      /\ b + Len(items) = n
      /\ items = SubSeq(s, b + 1, n)
      /\ r.baseSize = SizeAfter(SubSeq(s, 1, b), z)
  BY DEF Replays, Tracks
<1>2. b \in 0 .. n /\ Len(items) = n - b
  BY <1>1
<1>3. longer \in Seq(Items) /\ Len(longer) = n + 1
  OBVIOUS
<1>4. /\ SubSeq(longer, 1, b) = SubSeq(s, 1, b)
      /\ SubSeq(longer, b + 1, n + 1) = Append(SubSeq(s, b + 1, n), x)
  BY <1>2, StretchOfAppend
<1>5. all \in Seq(Items) /\ Len(all) = n + 1 - b /\ all = SubSeq(longer, b + 1, n + 1)
  <2>1. all \in Seq(Items) /\ Len(all) = Len(items) + 1
    BY <1>1
  <2>2. Len(items) + 1 = n + 1 - b
    BY <1>1, <1>2
  <2> HIDE DEF n, b, items, longer
  <2>. QED  BY <1>1, <1>4, <2>1, <2>2
<1>6. gone \in 0 .. n + 1 - b
  BY <1>5, EvictedType
<1>7. Push(r, x) = [on |-> r.on, base |-> b + gone, baseSize |-> SizeAfter(lost, r.baseSize),
                    items |-> kept]
  BY DEF Push
<1> HIDE DEF n, b, items, longer, all, gone
<1>8. kept \in Seq(Items) /\ Len(kept) = n + 1 - b - gone /\ lost \in Seq(Items)
  BY <1>1, <1>2, <1>5, <1>6
<1>9. kept = SubSeq(longer, b + gone + 1, n + 1) /\ lost = SubSeq(longer, b + 1, b + gone)
  <2> DEFINE e == n + 1
             j == n + 1 - b
  <2>1. b \in 0 .. Len(longer) /\ e \in b .. Len(longer) /\ gone \in 0 .. e - b /\ j \in gone .. e - b
    BY <1>1, <1>2, <1>3, <1>6
  <2>2. 0 \in 0 .. e - b /\ gone \in 0 .. e - b /\ b + j = e /\ b + 0 + 1 = b + 1 /\ 0 + 1 = 1
    BY <1>1, <1>2, <1>3, <1>6
  <2>3. Len(all) = j /\ all = SubSeq(longer, b + 1, e)
    BY <1>5
  <2> HIDE DEF e, j
  <2>4. SubSeq(SubSeq(longer, b + 1, e), gone + 1, j) = SubSeq(longer, b + gone + 1, b + j)
    BY <1>3, <2>1, StretchOfStretch
  <2>5. SubSeq(SubSeq(longer, b + 1, e), 0 + 1, gone) = SubSeq(longer, b + 0 + 1, b + gone)
    BY <1>3, <2>1, <2>2, StretchOfStretch
  <2>6. kept = SubSeq(longer, b + gone + 1, e)
    BY <2>2, <2>3, <2>4
  <2>7. lost = SubSeq(longer, b + 1, b + gone)
    BY <2>2, <2>3, <2>5
  <2>. QED  BY <2>6, <2>7 DEF e
<1>10. SizeAfter(lost, r.baseSize) = SizeAfter(SubSeq(longer, 1, b + gone), z)
  <2>1. 1 \in 1 .. Len(longer) + 1 /\ b \in 1 - 1 .. Len(longer) /\ b + gone \in b .. Len(longer)
    BY <1>1, <1>2, <1>3, <1>6
  <2>2. SubSeq(longer, 1, b) \o SubSeq(longer, b + 1, b + gone) = SubSeq(longer, 1, b + gone)
    BY <1>3, <2>1, ConcatAdjacentSubSeq
  <2>3. SubSeq(longer, 1, b) \in Seq(Items)
    BY <1>3, <2>1
  <2>4. SizeAfter(SubSeq(longer, 1, b) \o lost, z) = SizeAfter(lost, SizeAfter(SubSeq(longer, 1, b), z))
    BY <1>8, <2>3, SizeAfterConcat
  <2>. QED  BY <1>1, <1>4, <1>9, <2>2, <2>4
<1>11. SizeAfter(lost, r.baseSize) \in Sizes
  BY <1>1, <1>8, SizeAfterType
<1>12. b + gone \in Nat /\ b + gone + (n + 1 - b - gone) = n + 1
  BY <1>1, <1>2, <1>6
<1> HIDE DEF kept, lost
<1>13. Push(r, x) \in Replays /\ Push(r, x).on = r.on
  BY <1>1, <1>7, <1>8, <1>11, <1>12 DEF Replays
<1>14. Tracks(Push(r, x), longer, z)
  <2>1. /\ Push(r, x).base = b + gone /\ Push(r, x).items = kept
        /\ Push(r, x).baseSize = SizeAfter(SubSeq(longer, 1, b + gone), z)
    BY <1>7, <1>10
  <2>2. b + gone + Len(kept) = Len(longer)
    BY <1>3, <1>8, <1>12
  <2>. QED  BY <1>3, <1>9, <2>1, <2>2 DEF Tracks
<1>. QED  BY <1>13, <1>14 DEF longer

---------------------------------------------------------------------------

USE DEF viewVars, ioVars, programVars, clientVars, histories, vars

\* Output and resizes are items of the stream.
LEMMA ItemTypes ==
    /\ \A s \in Sizes : Resized(s) \in Items /\ Resized(s).kind = "resized" /\ Resized(s).size = s
    /\ \A t \in SUBSET Nat : Output(t) \in Items /\ Output(t).kind = "output"
BY DEF Resized, Output, Items

\* A sequence of a set's elements with one more appended is such a sequence.
LEMMA AppendType ==
    ASSUME NEW S, NEW q \in Seq(S), NEW x \in S
    PROVE  Append(q, x) \in Seq(S)
OBVIOUS

\* What a sequence of a set's elements is made of.
LEMMA ElementType ==
    ASSUME NEW S, NEW q \in Seq(S)
    PROVE  /\ Len(q) \in Nat /\ DOMAIN q = 1 .. Len(q)
           /\ \A i \in 1 .. Len(q) : q[i] \in S
OBVIOUS

\* A call through Session::controlling keeps the types of all it touches.
LEMMA ControllingType ==
    ASSUME TypeOK, NEW c \in ControlStates, NEW s \in Sizes, Controlling(c, s)
    PROVE  /\ control' \in ControlStates /\ announced' \in Controllers
           /\ size' \in Sizes /\ seq' \in Nat /\ terminal' \in Seq(Items) /\ replay' \in Replays
           /\ sinks' \in SUBSET [id: Nat \ {0}, viewer: Viewers]
           /\ screen' \in [Watchers -> Screens] /\ inbox' \in Seq(Msgs)
<1> DEFINE now == Lapse(c)
<1>1. now \in ControlStates
  BY ControlTypes
<1>2. now.who \in Controllers
  BY <1>1 DEF ControlStates
<1>3. Resized(s) \in Items
  BY ItemTypes
<1>4. Wake \in Msgs
  BY DEF Wake, Msgs
<1>5. seq + 1 \in Nat
  BY DEF TypeOK
<1>6. Push(replay, Resized(s)) \in Replays
  BY <1>3, PushType DEF TypeOK
<1>7. Append(terminal, Resized(s)) \in Seq(Items) /\ Append(inbox, Wake) \in Seq(Msgs)
  BY <1>3, <1>4, AppendType DEF TypeOK
<1> DEFINE told == now.who # announced
           resized == s # size
           longer == Append(terminal, Resized(s))
           woken == Append(inbox, Wake)
<1>8. control' = now /\ announced' = now.who /\ size' = s
  BY DEF Controlling
<1>9. seq' = IF resized THEN seq + 1 ELSE seq
  BY DEF Controlling
<1>10. terminal' = IF resized THEN longer ELSE terminal
  BY DEF Controlling
<1>11. replay' \in {Push(replay, Resized(s)), replay}
  BY DEF Controlling
<1>12. sinks' \in {AfterTelling, sinks}
  BY DEF Controlling
<1>13. inbox' \in {woken, inbox}
  BY DEF Controlling
<1>14. ASSUME NEW w \in Watchers PROVE screen'[w] \in Screens
  <2>1. screen[w] \in Screens
    BY DEF TypeOK
  <2>2. Append(screen[w].items, Resized(s)) \in Seq(Items)
    BY <2>1, <1>3, AppendType DEF Screens
  <2> HIDE DEF now, longer, woken
  <2>3. \/ screen'[w] = screen[w]
        \/ screen'[w] = [screen[w] EXCEPT
                !.items = IF resized THEN Append(@, Resized(s)) ELSE @,
                !.seq = IF resized THEN seq + 1 ELSE @,
                !.size = IF resized THEN s ELSE @,
                !.control = IF told THEN now.who ELSE @]
    BY DEF Controlling, now
  <2>. QED  BY <2>1, <2>2, <2>3, <1>2, <1>5 DEF Screens
<1> HIDE DEF now, longer, woken
<1>15. screen' = [w \in Watchers |-> screen'[w]]
  BY DEF Controlling
<1>16. AfterTelling \in SUBSET [id: Nat \ {0}, viewer: Viewers]
  BY DEF AfterTelling, TypeOK
<1>17. terminal' \in Seq(Items)
  BY <1>7, <1>10 DEF TypeOK, longer
<1>18. inbox' \in Seq(Msgs)
  BY <1>7, <1>13 DEF TypeOK, woken
<1>19. screen' \in [Watchers -> Screens]
  BY <1>14, <1>15
<1>20. replay' \in Replays
  BY <1>6, <1>11 DEF TypeOK
<1>21. seq' \in Nat
  BY <1>5, <1>9 DEF TypeOK
<1>22. sinks' \in SUBSET [id: Nat \ {0}, viewer: Viewers]
  BY <1>12, <1>16 DEF TypeOK
<1>. QED  BY <1>1, <1>2, <1>8, <1>17, <1>18, <1>19, <1>20, <1>21, <1>22

\* What is left of TypeOK when a call has gone through Session::controlling.
LEMMA CallType ==
    ASSUME TypeOK, NEW c \in ControlStates, NEW s \in Sizes, Controlling(c, s),
           UnchangedByCalls, localSize' \in Sizes, pending' \in [Callers -> Calls],
           granted' \in Seq([generation: Nat, holder: Holders])
    PROVE  TypeOK'
<1>1. /\ control' \in ControlStates /\ announced' \in Controllers
      /\ size' \in Sizes /\ seq' \in Nat /\ terminal' \in Seq(Items) /\ replay' \in Replays
      /\ sinks' \in SUBSET [id: Nat \ {0}, viewer: Viewers]
      /\ screen' \in [Watchers -> Screens] /\ inbox' \in Seq(Msgs)
  BY ControllingType
<1>. QED  BY <1>1 DEF TypeOK, UnchangedByCalls

\* The size a call leaves the terminal at is one of the sizes.
LEMMA SizesAfterApplyingType ==
    ASSUME TypeOK, NEW s \in Sizes
    PROVE  SizesAfterApplying(s) \subseteq Sizes
BY DEF SizesAfterApplying, TypeOK

\* A caller's next call is one.
LEMMA PendingType ==
    ASSUME TypeOK, NEW p \in Callers, NEW x \in Calls, pending' = [pending EXCEPT ![p] = x]
    PROVE  pending' \in [Callers -> Calls]
BY DEF TypeOK

\* The calls a caller may be in the middle of.
LEMMA CallTypes ==
    /\ Idle \in Calls /\ Typing \in Calls /\ Writing \in Calls
    /\ \A l \in LeaseRefs, n \in Nat : WritingInput(l, n) \in Calls
<1>1. Idle \in Calls /\ Typing \in Calls /\ Writing \in Calls
  BY DEF Calls
<1>2. ASSUME NEW l \in LeaseRefs, NEW n \in Nat PROVE WritingInput(l, n) \in Calls
  <2>1. WritingInput(l, n) \in [step: {"input"}, lease: LeaseRefs, n: Nat]
    BY DEF WritingInput
  <2>. QED  BY <2>1 DEF Calls
<1>. QED  BY <1>1, <1>2

\* A lease is named as its holder was told.
LEMMA LeaseRefType ==
    ASSUME TypeOK, NEW i \in DOMAIN granted
    PROVE  LeaseRef(i) \in LeaseRefs /\ granted[i] \in [generation: Nat, holder: Holders] /\ i \in 1 .. Len(granted)
<1>1. granted \in Seq([generation: Nat, holder: Holders])
  BY DEF TypeOK
<1>2. i \in 1 .. Len(granted) /\ granted[i] \in [generation: Nat, holder: Holders] /\ Len(granted) \in Nat
  BY <1>1, ElementType
<1>. QED  BY <1>2 DEF LeaseRef, LeaseRefs

\* The calls made at this computer keep the types.
LEMMA LocalType == ASSUME TypeOK, LocalStep PROVE TypeOK'
<1> USE CallTypes
<1>0. control \in ControlStates /\ localSize \in Sizes /\ size \in Sizes
  BY DEF TypeOK
<1>1. ASSUME NEW p \in Locals, TakeLocalControl(p) PROVE TypeOK'
  <2>1. PICK s \in SizesAfterApplying(localSize) :
          /\ Controlling(LocalInput(control), s)
          /\ pending' = [pending EXCEPT ![p] = IF s = localSize THEN Writing ELSE Idle]
    BY <1>1 DEF TakeLocalControl
  <2>2. s \in Sizes
    BY <1>0, SizesAfterApplyingType
  <2>3. LocalInput(control) \in ControlStates
    BY <1>0, ControlTypes
  <2>4. p \in Callers
    BY DEF Callers
  <2>5. pending' \in [Callers -> Calls]
    BY <2>1, <2>4, PendingType
  <2>. QED  BY <1>1, <2>1, <2>2, <2>3, <2>5, CallType DEF TakeLocalControl, TypeOK
<1>2. ASSUME NEW p \in Locals, NEW data \in LocalData, LocalWrite(p, data) PROVE TypeOK'
  <2>1. control' \in ControlStates
    BY <1>0, <1>2, ControlTypes DEF LocalWrite
  <2>2. p \in Callers
    BY DEF Callers
  <2>3. pending' \in [Callers -> Calls]
    BY <1>2, <2>2, PendingType DEF LocalWrite
  <2>. QED  BY <1>2, <2>1, <2>3 DEF LocalWrite, TypeOK
<1>3. ASSUME NEW p \in Automations, Unattended(p) PROVE TypeOK'
  <2>1. p \in Callers
    BY DEF Callers
  <2>2. pending' \in [Callers -> Calls]
    BY <1>3, <2>1, PendingType DEF Unattended
  <2>. QED  BY <1>0, <1>3, <2>2, CallType DEF Unattended, TypeOK
<1>4. ASSUME NEW s \in Sizes, Resize(s) PROVE TypeOK'
  <2>1. PICK z \in IF Leased(control) THEN {size} ELSE SizesAfterApplying(s) : Controlling(control, z)
    BY <1>4 DEF Resize
  <2>2. z \in Sizes
    BY <1>0, <2>1, SizesAfterApplyingType
  <2>. QED  BY <1>0, <1>4, <2>1, <2>2, CallType DEF Resize, TypeOK
<1>5. ASSUME AskController PROVE TypeOK'
  BY <1>0, <1>5, CallType DEF AskController, TypeOK
<1>. QED  BY <1>1, <1>2, <1>3, <1>4, <1>5 DEF LocalStep

\* The calls made under a lease, or for one, keep the types.
LEMMA LeaseType == ASSUME TypeOK, LeaseStep PROVE TypeOK'
<1> USE CallTypes
<1>0. control \in ControlStates /\ localSize \in Sizes /\ size \in Sizes
  BY DEF TypeOK
<1>1. PICK h \in Holders :
        \/ \E takeOver \in BOOLEAN : Acquire(h, takeOver)
        \/ \E i \in DOMAIN granted :
              \/ RenewLease(h, i)
              \/ ReleaseLease(h, i)
              \/ \E n \in 1 .. MaxInput : LeaseInput(h, i, n)
              \/ \E s \in Sizes : ResizeLeased(h, i, s)
  BY DEF LeaseStep
<1>2. h \in Callers
  BY DEF Callers
<1>3. ASSUME NEW takeOver \in BOOLEAN, Acquire(h, takeOver) PROVE TypeOK'
  <2>1. CASE state = "exited" \/ ~ MayAcquire(control, h, takeOver)
    BY <1>0, <1>3, <2>1, CallType DEF Acquire, TypeOK
  <2>2. CASE ~ (state = "exited" \/ ~ MayAcquire(control, h, takeOver))
    <3> DEFINE id == Len(granted) + 1
               lease == [generation |-> Lapse(control).generation + 1, holder |-> h]
    <3>1. id \in Nat
      <4>1. granted \in Seq([generation: Nat, holder: Holders])
        BY DEF TypeOK
      <4>. QED  BY <4>1, ElementType
    <3>2. lease \in [generation: Nat, holder: Holders]
      <4>1. Lapse(control) \in ControlStates
        BY <1>0, ControlTypes
      <4>2. Lapse(control).generation + 1 \in Nat
        BY <4>1 DEF ControlStates
      <4>. QED  BY <4>2
    <3>3. Controlling(Acquired(control, h, id), size) /\ granted' = Append(granted, lease)
      BY <1>3, <2>2 DEF Acquire
    <3>4. UnchangedByCalls /\ localSize' = localSize /\ pending' = pending
      BY <1>3 DEF Acquire
    <3> HIDE DEF id, lease
    <3>5. Acquired(control, h, id) \in ControlStates
      BY <1>0, <3>1, ControlTypes
    <3>6. granted' \in Seq([generation: Nat, holder: Holders])
      BY <3>2, <3>3, AppendType DEF TypeOK
    <3>7. localSize' \in Sizes /\ pending' \in [Callers -> Calls]
      BY <3>4 DEF TypeOK
    <3>. QED  BY <1>0, <3>3, <3>4, <3>5, <3>6, <3>7, CallType
  <2>. QED  BY <2>1, <2>2
<1>4. ASSUME NEW i \in DOMAIN granted, RenewLease(h, i) PROVE TypeOK'
  <2>1. Renew(control, LeaseRef(i)) \in ControlStates
    BY <1>0, ControlTypes
  <2>. QED  BY <1>0, <1>4, <2>1, CallType DEF RenewLease, TypeOK
<1>5. ASSUME NEW i \in DOMAIN granted, ReleaseLease(h, i) PROVE TypeOK'
  <2>1. Release(control, LeaseRef(i)) \in ControlStates
    BY <1>0, ControlTypes
  <2>2. PICK s \in IF Check(control, LeaseRef(i)) THEN SizesAfterApplying(localSize) ELSE {size} :
          Controlling(Release(control, LeaseRef(i)), s)
    BY <1>5 DEF ReleaseLease
  <2>3. s \in Sizes
    BY <1>0, <2>2, SizesAfterApplyingType
  <2>. QED  BY <1>5, <2>1, <2>2, <2>3, CallType DEF ReleaseLease, TypeOK
<1>6. ASSUME NEW i \in DOMAIN granted, NEW n \in 1 .. MaxInput, LeaseInput(h, i, n) PROVE TypeOK'
  <2>1. n \in Nat /\ LeaseRef(i) \in LeaseRefs
    <3>1. MaxInput \in Nat
      BY SessionAssumption
    <3>. QED  BY <3>1, LeaseRefType
  <2>2. Input(control, LeaseRef(i), n) \in ControlStates
    BY <1>0, <2>1, ControlTypes
  <2>3. WritingInput(LeaseRef(i), n) \in Calls
    BY <2>1
  <2>4. pending' \in [Callers -> Calls]
    BY <1>2, <1>6, <2>3, PendingType DEF LeaseInput
  <2>. QED  BY <1>0, <1>6, <2>2, <2>4, CallType DEF LeaseInput, TypeOK
<1>7. ASSUME NEW i \in DOMAIN granted, NEW s \in Sizes, ResizeLeased(h, i, s) PROVE TypeOK'
  <2>1. PICK z \in IF Check(control, LeaseRef(i)) THEN SizesAfterApplying(s) ELSE {size} :
          Controlling(control, z)
    BY <1>7 DEF ResizeLeased
  <2>2. z \in Sizes
    BY <1>0, <2>1, SizesAfterApplyingType
  <2>. QED  BY <1>0, <1>7, <2>1, <2>2, CallType DEF ResizeLeased, TypeOK
<1>. QED  BY <1>1, <1>3, <1>4, <1>5, <1>6, <1>7

\* Viewers coming and going keeps the types.
LEMMA ViewerType ==
    ASSUME TypeOK, ViewerStep, WatcherExact
    PROVE  TypeOK'
<1>0. /\ control \in ControlStates /\ size \in Sizes /\ seq \in Nat /\ terminal \in Seq(Items)
      /\ replay \in Replays /\ nextAttachment \in Nat \ {0} /\ attached \in [Viewers -> Nat]
      /\ screen \in [Watchers -> Screens] /\ shown \in [Terminals -> Seq(Items)]
      /\ sinks \in SUBSET [id: Nat \ {0}, viewer: Viewers]
  BY DEF TypeOK
<1>1. ASSUME NEW v \in Viewers
      PROVE  /\ [id |-> nextAttachment, viewer |-> v] \in [id: Nat \ {0}, viewer: Viewers]
             /\ nextAttachment + 1 \in Nat \ {0}
             /\ [attached EXCEPT ![v] = nextAttachment] \in [Viewers -> Nat]
             /\ [attached EXCEPT ![v] = 0] \in [Viewers -> Nat]
  BY <1>0
<1>2. ASSUME NEW t \in Terminals, AttachTerminal(t) PROVE TypeOK'
  <2>1. t \in Viewers
    BY DEF Viewers
  <2>2. shown' \in [Terminals -> Seq(Items)]
    BY <1>0, <1>2 DEF AttachTerminal
  <2>3. /\ sinks' = sinks \cup {[id |-> nextAttachment, viewer |-> t]}
        /\ nextAttachment' = nextAttachment + 1
        /\ attached' = [attached EXCEPT ![t] = nextAttachment]
    BY <1>2 DEF AttachTerminal
  <2>4. sinks' \in SUBSET [id: Nat \ {0}, viewer: Viewers]
    BY <1>0, <1>1, <2>1, <2>3
  <2>5. nextAttachment' \in Nat \ {0} /\ attached' \in [Viewers -> Nat]
    BY <1>1, <2>1, <2>3
  <2>. QED  BY <1>2, <2>2, <2>4, <2>5 DEF AttachTerminal, TypeOK
<1>3. ASSUME NEW w \in Watchers, NEW resume \in BOOLEAN, AttachWatcher(w, resume) PROVE TypeOK'
  <2> DEFINE r == IF replay.on THEN replay ELSE NewReplay(seq, size)
             after == screen[w].seq
             resumed == resume /\ Resumable(r, after)
             since == ItemsSince(r, after)
             now == Lapse(control)
             told == now.who # announced
             carriedOn == [items   |-> screen[w].items \o since,
                      seq     |-> after + Len(since),
                      size    |-> SizeAfter(since, SizeSince(r, after)),
                      control |-> now.who,
                      exited  |-> state = "exited",
                      from    |-> after]
             afresh == [items   |-> terminal,
                      seq     |-> seq,
                      size    |-> size,
                      control |-> now.who,
                      exited  |-> state = "exited",
                      from    |-> seq]
  <2>1. w \in Viewers
    BY DEF Viewers
  <2>2. r \in Replays
    <3>1. NewReplay(seq, size) \in Replays
      BY <1>0 DEF NewReplay, Replays
    <3>. QED  BY <1>0, <3>1
  <2>3. now \in ControlStates
    BY <1>0, ControlTypes
  <2>4. now.who \in Controllers
    BY <2>3 DEF ControlStates
  <2>5. /\ control' = now /\ announced' = now.who /\ replay' = r
        /\ nextAttachment' = nextAttachment + 1
        /\ attached' = [attached EXCEPT ![w] = nextAttachment]
        /\ sinks' \subseteq sinks \cup {[id |-> nextAttachment, viewer |-> w]}
    BY <1>3 DEF AttachWatcher, AfterTelling
  <2>6. sinks' \in SUBSET [id: Nat \ {0}, viewer: Viewers]
    BY <1>0, <1>1, <2>1, <2>5
  <2>7. nextAttachment' \in Nat \ {0} /\ attached' \in [Viewers -> Nat]
    BY <1>1, <2>1, <2>5
  <2>8. ASSUME NEW x \in Watchers
        PROVE  \/ screen'[x] = screen[x]
               \/ screen'[x] = [screen[x] EXCEPT !.control = now.who]
               \/ x = w /\ resumed /\ screen'[x] = carriedOn
               \/ screen'[x] = afresh
    BY <1>3 DEF AttachWatcher
  <2>9. screen' = [x \in Watchers |-> screen'[x]]
    BY <1>3 DEF AttachWatcher
  <2>10. screen[w] \in Screens /\ after \in Nat /\ screen[w].items \in Seq(Items)
    BY <1>0 DEF Screens
  <2>11. afresh \in Screens
    BY <1>0, <2>4 DEF Screens
  <2> HIDE DEF r, now
  <2>12. resumed => carriedOn \in Screens
    <3> SUFFICES ASSUME resumed PROVE carriedOn \in Screens
      OBVIOUS
    <3>1. r.items \in Seq(Items) /\ r.base \in Nat /\ r.baseSize \in Sizes
      BY <2>2 DEF Replays
    <3> DEFINE n == Len(r.items)
               k == after - r.base
    <3>2. n \in Nat /\ k \in 0 .. n
      BY <2>10, <3>1 DEF Resumable
    <3>3. since = SubSeq(r.items, k + 1, n) /\ SizeSince(r, after) = SizeAfter(SubSeq(r.items, 1, k), r.baseSize)
      BY DEF ItemsSince, SizeSince
    <3> HIDE DEF n, k, after
    <3>4. SubSeq(r.items, k + 1, n) \in Seq(Items) /\ SubSeq(r.items, 1, k) \in Seq(Items)
      BY <3>1, <3>2 DEF n
    <3>5. since \in Seq(Items) /\ SizeSince(r, after) \in Sizes
      BY <3>1, <3>3, <3>4, SizeAfterType
    <3> HIDE DEF since
    <3>6. SizeAfter(since, SizeSince(r, after)) \in Sizes
      BY <3>5, SizeAfterType
    <3>7. screen[w].items \o since \in Seq(Items) /\ after + Len(since) \in Nat
      BY <2>10, <3>5
    <3>. QED  BY <2>4, <2>10, <3>6, <3>7 DEF Screens
  <2> HIDE DEF carriedOn, afresh, resumed, since, after
  <2>13. ASSUME NEW x \in Watchers PROVE screen'[x] \in Screens
    <3>1. screen[x] \in Screens
      BY <1>0
    <3>2. [screen[x] EXCEPT !.control = now.who] \in Screens
      BY <2>4, <3>1 DEF Screens
    <3>. QED  BY <2>8, <2>11, <2>12, <3>1, <3>2
  <2>14. screen' \in [Watchers -> Screens]
    BY <2>9, <2>13
  <2>15. UNCHANGED <<size, localSize, seq, terminal, answers, busy, state, ioVars, pump,
                     inbox, programVars, shown, histories>>
    BY <1>3 DEF AttachWatcher
  <2>16. control' \in ControlStates /\ announced' \in Controllers /\ replay' \in Replays
    BY <2>2, <2>3, <2>4, <2>5
  <2>. QED  BY <2>6, <2>7, <2>14, <2>15, <2>16 DEF TypeOK
<1>4. ASSUME NEW v \in Viewers, Detach(v) PROVE TypeOK'
  <2>1. sinks' \subseteq sinks /\ attached' = [attached EXCEPT ![v] = 0]
    BY <1>4 DEF Detach
  <2>2. sinks' \in SUBSET [id: Nat \ {0}, viewer: Viewers] /\ attached' \in [Viewers -> Nat]
    BY <1>0, <1>1, <2>1
  <2>. QED  BY <1>4, <2>2 DEF Detach, TypeOK
<1>5. ASSUME NEW v \in Viewers, Drop(v) PROVE TypeOK'
  <2>1. attached' \in [Viewers -> Nat]
    BY <1>1, <1>5 DEF Drop
  <2>2. screen' \in [Watchers -> Screens]
    <3>1. CASE v \in Watchers
      <4>1. screen[v] \in Screens
        BY <1>0, <3>1
      <4>2. screen[v].items \in Seq(Items) /\ screen[v].from \in Nat /\ screen[v].seq \in Nat
        BY <4>1 DEF Screens
      <4>3. PICK k \in screen[v].from .. screen[v].seq :
              screen' = [screen EXCEPT ![v].items = SubSeq(@, 1, k),
                                       ![v].seq = k,
                                       ![v].size = SizeAfter(SubSeq(screen[v].items, 1, k), InitSize)]
        BY <1>5, <3>1 DEF Drop
      <4> DEFINE head == SubSeq(screen[v].items, 1, k)
      <4>4. k \in Nat
        BY <4>2
      <4>5. head \in Seq(Items)
        <5>1. screen[v].seq <= Len(terminal) /\ screen[v].items = SubSeq(terminal, 1, screen[v].seq)
          BY <3>1 DEF WatcherExact, UpToDate
        <5>2. Len(screen[v].items) = screen[v].seq
          BY <1>0, <4>2, <5>1
        <5>3. k <= Len(screen[v].items)
          BY <4>2, <5>2
        <5>. QED  BY <4>2, <4>4, <5>3
      <4>6. screen' = [screen EXCEPT ![v] = [screen[v] EXCEPT !.items = head, !.seq = k,
                                                  !.size = SizeAfter(head, InitSize)]]
        BY <1>0, <3>1, <4>3
      <4> HIDE DEF head
      <4>7. SizeAfter(head, InitSize) \in Sizes
        BY <4>5, SessionAssumption, SizeAfterType
      <4>8. [screen[v] EXCEPT !.items = head, !.seq = k, !.size = SizeAfter(head, InitSize)] \in Screens
        BY <4>1, <4>4, <4>5, <4>7 DEF Screens
      <4>. QED  BY <1>0, <3>1, <4>6, <4>8
    <3>2. CASE v \notin Watchers
      BY <1>0, <1>5, <3>2 DEF Drop
    <3>. QED  BY <3>1, <3>2
  <2>3. UNCHANGED <<viewVars, ioVars, pump, inbox, programVars, shown, histories>>
    BY <1>5 DEF Drop
  <2>. QED  BY <2>1, <2>2, <2>3 DEF TypeOK
<1>. QED  BY <1>2, <1>3, <1>4, <1>5 DEF ViewerStep

\* Writing what was let through keeps the types.
LEMMA WriteType == ASSUME TypeOK, WriteStep PROVE TypeOK'
<1>1. PICK p \in Callers : Write(p)
  BY DEF WriteStep
<1>2. pending[p] \in Calls
  BY DEF TypeOK
<1>3. pending' \in [Callers -> Calls]
  BY <1>1, CallTypes, PendingType DEF Write
<1>4. written' \in Seq([lease: LeaseRefs, n: Nat])
  <2>1. CASE pending[p].step = "input"
    <3>1. pending[p].lease \in LeaseRefs /\ pending[p].n \in Nat
      BY <1>2, <2>1 DEF Calls, Idle, Typing, Writing
    <3>2. [lease |-> pending[p].lease, n |-> pending[p].n] \in [lease: LeaseRefs, n: Nat]
      BY <3>1
    <3>3. written' \in {written, Append(written, [lease |-> pending[p].lease, n |-> pending[p].n])}
      BY <1>1 DEF Write
    <3>4. Append(written, [lease |-> pending[p].lease, n |-> pending[p].n]) \in Seq([lease: LeaseRefs, n: Nat])
      BY <3>2, AppendType DEF TypeOK
    <3>. QED  BY <3>3, <3>4 DEF TypeOK
  <2>2. CASE pending[p].step # "input"
    BY <1>1, <2>2 DEF Write, TypeOK
  <2>. QED  BY <2>1, <2>2
<1>5. UNCHANGED <<viewVars, ioOpen, pump, inbox, programVars, clientVars, granted, asked, event>>
  BY <1>1 DEF Write
<1>. QED  BY <1>3, <1>4, <1>5 DEF TypeOK

\* What the program, the waiter and the reader do keeps the types.
LEMMA ProgramType == ASSUME TypeOK, ProgramStep \/ WaiterStep \/ ReaderStep PROVE TypeOK'
<1>0. /\ printed \in Seq([ask: {"text", "cursor", "other"}, own: BOOLEAN])
      /\ pty \in Seq(Chunks) /\ inbox \in Seq(Msgs)
  BY DEF TypeOK
<1>1. ASSUME NEW ask \in Asks \cup {"text"}, PrintChunk(ask) PROVE TypeOK'
  <2>1. ask \in {"text", "cursor", "other"}
    BY SessionAssumption
  <2>2. Len(printed) + 1 \in Nat
    BY <1>0, ElementType
  <2>3. [ask |-> ask, own |-> child = "running"] \in [ask: {"text", "cursor", "other"}, own: BOOLEAN]
    BY <2>1
  <2>4. [n |-> Len(printed) + 1, ask |-> ask] \in Chunks
    BY <2>1, <2>2 DEF Chunks
  <2>5. /\ printed' = Append(printed, [ask |-> ask, own |-> child = "running"])
        /\ pty' = Append(pty, [n |-> Len(printed) + 1, ask |-> ask])
        /\ UNCHANGED <<viewVars, ioVars, pump, inbox, child, outlived, readerDone, clientVars, histories>>
    BY <1>1 DEF PrintChunk
  <2>6. printed' \in Seq([ask: {"text", "cursor", "other"}, own: BOOLEAN])
    BY <1>0, <2>3, <2>5, AppendType
  <2>7. pty' \in Seq(Chunks)
    BY <1>0, <2>4, <2>5, AppendType
  <2>8. UNCHANGED <<viewVars, ioVars, pump, inbox, child, outlived, readerDone, clientVars, histories>>
    BY <2>5
  <2>. QED  BY <2>6, <2>7, <2>8 DEF TypeOK
<1>2. CASE ChildEnds
  <2>1. /\ child' = "ended"
        /\ UNCHANGED <<viewVars, ioVars, pump, inbox, pty, printed, readerDone, clientVars, histories>>
    BY <1>2 DEF ChildEnds
  <2>2. outlived' \in BOOLEAN
    BY <1>2, SessionAssumption DEF ChildEnds
  <2>. QED  BY <2>1, <2>2 DEF TypeOK
<1>3. CASE GrandchildEnds
  <2>1. /\ outlived' = FALSE
        /\ UNCHANGED <<viewVars, ioVars, pump, inbox, pty, child, printed, readerDone, clientVars, histories>>
    BY <1>3 DEF GrandchildEnds
  <2>2. /\ outlived' \in BOOLEAN
        /\ UNCHANGED <<viewVars, ioVars, pump, inbox, pty, child, printed, readerDone, clientVars, histories>>
    BY <2>1
  <2>. QED  BY <2>2 DEF TypeOK
<1>4. CASE WaiterStep
  <2>1. [m |-> "exited"] \in Msgs
    BY DEF Msgs
  <2>2. /\ child' = "reaped" /\ inbox' = Append(inbox, [m |-> "exited"])
        /\ UNCHANGED <<viewVars, ioVars, pump, pty, outlived, printed, readerDone, clientVars, histories>>
    BY <1>4 DEF WaiterStep
  <2>3. inbox' \in Seq(Msgs)
    BY <1>0, <2>1, <2>2, AppendType
  <2>. QED  BY <2>2, <2>3 DEF TypeOK
<1>5. CASE ReaderStep
  <2>1. UNCHANGED <<viewVars, ioVars, pump, child, outlived, printed, clientVars, histories>>
    BY <1>5 DEF ReaderStep
  <2>2. CASE /\ pty # <<>>
             /\ inbox' = Append(inbox, [m |-> "output", chunk |-> Head(pty)])
             /\ pty' = Tail(pty)
             /\ UNCHANGED readerDone
    <3>1. Head(pty) \in Chunks /\ Tail(pty) \in Seq(Chunks)
      BY <1>0, <2>2
    <3>2. [m |-> "output", chunk |-> Head(pty)] \in [m: {"output"}, chunk: Chunks]
      BY <3>1
    <3>3. [m |-> "output", chunk |-> Head(pty)] \in Msgs
      BY <3>2 DEF Msgs
    <3>4. inbox' \in Seq(Msgs)
      BY <1>0, <2>2, <3>3, AppendType
    <3>. QED  BY <2>1, <2>2, <3>1, <3>4 DEF TypeOK
  <2>3. CASE /\ inbox' = Append(inbox, [m |-> "eof"])
             /\ readerDone' = TRUE
             /\ UNCHANGED pty
    <3>1. [m |-> "eof"] \in Msgs
      BY DEF Msgs
    <3>2. inbox' \in Seq(Msgs)
      BY <1>0, <2>3, <3>1, AppendType
    <3>. QED  BY <2>1, <2>3, <3>2 DEF TypeOK
  <2>. QED  BY <1>5, <2>2, <2>3 DEF ReaderStep
<1>. QED  BY <1>1, <1>2, <1>3, <1>4, <1>5 DEF ProgramStep

\* The pump's states
Pumps == [pc: {"top", "wait", "busy", "deliver", "reply", "close", "exit", "event", "done"},
          for: {"message", "lapse", "quiet", "drain"}, left: Nat, eof: BOOLEAN,
          exit: BOOLEAN, batch: SUBSET Chunks, replies: SUBSET Nat, burst: BOOLEAN]

\* What the pump does with its channel and its timers keeps the types.
LEMMA PumpWaitsType ==
    ASSUME TypeOK, PumpTop \/ PumpReceive \/ PumpQuiet \/ PumpLapse \/ PumpDrained
    PROVE  TypeOK'
<1>0. /\ pump \in Pumps /\ control \in ControlStates /\ size \in Sizes /\ inbox \in Seq(Msgs)
      /\ control.left \in Nat
  BY DEF TypeOK, Pumps, ControlStates
<1>1. CASE PumpTop
  <2>1. QuietAfter \in Nat /\ DrainQuiet \in Nat
    BY SessionAssumption
  <2>2. UNCHANGED <<viewVars, ioVars, inbox, programVars, clientVars, histories>>
    BY <1>1 DEF PumpTop
  <2>3. pump' \in {[pump EXCEPT !.pc = "close"],
                   [pump EXCEPT !.pc = "wait", !.for = "drain", !.left = DrainQuiet],
                   [pump EXCEPT !.pc = "wait", !.for = "quiet", !.left = QuietAfter],
                   [pump EXCEPT !.pc = "wait", !.for = "lapse", !.left = control.left],
                   [pump EXCEPT !.pc = "wait", !.for = "message", !.left = 0]}
    BY <1>1 DEF PumpTop
  <2>4. pump' \in Pumps
    <3>1. [pump EXCEPT !.pc = "close"] \in Pumps
      BY <1>0 DEF Pumps
    <3>2. \A for \in {"message", "lapse", "quiet", "drain"}, left \in Nat :
            [pump EXCEPT !.pc = "wait", !.for = for, !.left = left] \in Pumps
      BY <1>0 DEF Pumps
    <3>3. /\ [pump EXCEPT !.pc = "wait", !.for = "drain", !.left = DrainQuiet] \in Pumps
          /\ [pump EXCEPT !.pc = "wait", !.for = "quiet", !.left = QuietAfter] \in Pumps
          /\ [pump EXCEPT !.pc = "wait", !.for = "lapse", !.left = control.left] \in Pumps
          /\ [pump EXCEPT !.pc = "wait", !.for = "message", !.left = 0] \in Pumps
      BY <1>0, <2>1, <3>2
    <3>. QED  BY <2>3, <3>1, <3>3
  <2>. QED  BY <2>2, <2>4 DEF TypeOK, Pumps
<1>2. CASE PumpReceive
  <2>1. PICK k \in 1 .. Len(inbox) :
         LET got   == SubSeq(inbox, 1, k)
             Got(m) == {i \in 1 .. k : got[i].m = m}
             batch == {got[i].chunk : i \in Got("output")}
         IN  /\ inbox' = SubSeq(inbox, k + 1, Len(inbox))
             /\ pump' = [pump EXCEPT
                  !.eof = @ \/ Got("eof") # {},
                  !.exit = @ \/ Got("exited") # {},
                  !.batch = batch,
                  !.pc = CASE batch = {}               -> "top"
                           [] batch # {} /\ pump.burst -> "deliver"
                           [] OTHER                    -> "busy"]
    BY <1>2 DEF PumpReceive
  <2> DEFINE got == SubSeq(inbox, 1, k)
             Got(m) == {i \in 1 .. k : got[i].m = m}
             batch == {got[i].chunk : i \in Got("output")}
             pc == CASE batch = {}               -> "top"
                     [] batch # {} /\ pump.burst -> "deliver"
                     [] OTHER                    -> "busy"
             eof == pump.eof \/ Got("eof") # {}
             exit == pump.exit \/ Got("exited") # {}
  <2>2. UNCHANGED <<viewVars, ioVars, programVars, clientVars, histories>>
    BY <1>2 DEF PumpReceive
  <2>3. inbox' = SubSeq(inbox, k + 1, Len(inbox))
    BY <2>1
  <2>4. pump' = [pump EXCEPT !.eof = eof, !.exit = exit, !.batch = batch, !.pc = pc]
    BY <2>1
  <2>5. k \in 1 .. Len(inbox) /\ Len(inbox) \in Nat
    BY <1>0, ElementType
  <2>6. got \in Seq(Msgs) /\ Len(got) = k
    BY <1>0, <2>5
  <2> HIDE DEF got
  <2>7. \A i \in 1 .. k : got[i] \in Msgs
    BY <2>5, <2>6, ElementType
  <2>8. batch \in SUBSET Chunks
    BY <2>7 DEF Msgs
  <2>9. inbox' \in Seq(Msgs)
    BY <1>0, <2>3, <2>5
  <2>10. eof \in BOOLEAN /\ exit \in BOOLEAN
    BY <1>0 DEF Pumps
  <2>11. pc \in {"top", "deliver", "busy"}
    OBVIOUS
  <2> HIDE DEF batch, pc, eof, exit, Got
  <2>12. pump' \in Pumps
    BY <1>0, <2>4, <2>8, <2>10, <2>11 DEF Pumps
  <2>. QED  BY <2>2, <2>9, <2>12 DEF TypeOK, Pumps
<1>3. CASE PumpQuiet
  <2>1. /\ pump' = [pump EXCEPT !.pc = "top", !.burst = FALSE]
        /\ busy' = FALSE /\ event' = "quiet"
        /\ UNCHANGED <<control, announced, size, localSize, seq, terminal, replay, sinks,
                       nextAttachment, answers, state, ioVars, inbox, programVars, clientVars,
                       granted, written, asked>>
    BY <1>3 DEF PumpQuiet
  <2>2. pump' \in Pumps
    BY <1>0, <2>1 DEF Pumps
  <2>. QED  BY <2>1, <2>2 DEF TypeOK, Pumps
<1>4. CASE PumpLapse
  <2>1. /\ pump' = [pump EXCEPT !.pc = "top"]
        /\ Controlling(control, size)
        /\ UNCHANGED <<localSize, nextAttachment, answers, busy, state, ioVars, programVars,
                       attached, shown, histories>>
    BY <1>4 DEF PumpLapse
  <2>2. pump' \in Pumps
    BY <1>0, <2>1 DEF Pumps
  <2>3. /\ control' \in ControlStates /\ announced' \in Controllers
        /\ size' \in Sizes /\ seq' \in Nat /\ terminal' \in Seq(Items) /\ replay' \in Replays
        /\ sinks' \in SUBSET [id: Nat \ {0}, viewer: Viewers]
        /\ screen' \in [Watchers -> Screens] /\ inbox' \in Seq(Msgs)
    BY <1>0, <2>1, ControllingType
  <2>. QED  BY <2>1, <2>2, <2>3 DEF TypeOK, Pumps
<1>5. CASE PumpDrained
  <2>1. /\ pump' = [pump EXCEPT !.pc = "close"]
        /\ UNCHANGED <<viewVars, ioVars, inbox, programVars, clientVars, histories>>
    BY <1>5 DEF PumpDrained
  <2>2. pump' \in Pumps
    BY <1>0, <2>1 DEF Pumps
  <2>. QED  BY <2>1, <2>2 DEF TypeOK, Pumps
<1>. QED  BY <1>1, <1>2, <1>3, <1>4, <1>5

\* A batch delivered keeps the types.
LEMMA DeliverType == ASSUME TypeOK, PumpDeliver PROVE TypeOK'
<1>0. /\ pump \in Pumps /\ control \in ControlStates /\ seq \in Nat /\ terminal \in Seq(Items)
      /\ replay \in Replays /\ pump.batch \in SUBSET Chunks /\ screen \in [Watchers -> Screens]
      /\ shown \in [Terminals -> Seq(Items)] /\ answers \in Nat /\ asked \in SUBSET [n: Nat, to: Nat]
      /\ sinks \in SUBSET [id: Nat \ {0}, viewer: Viewers]
  BY DEF TypeOK, Pumps
<1> DEFINE now       == Lapse(control)
           responder == Responder(control)
           text      == {c.n : c \in {x \in pump.batch : x.ask = "text"}}
           item      == Output(text)
           queries   == {c \in pump.batch : c.ask # "text"}
           cursor    == {c.n : c \in {x \in pump.batch : x.ask = "cursor"}}
           replies   == IF responder = {} THEN cursor ELSE {}
           told      == now.who # announced
<1>1. text \in SUBSET Nat /\ cursor \in SUBSET Nat /\ \A q \in queries : q.n \in Nat
  BY <1>0 DEF Chunks
<1>2. item \in Items
  BY <1>1, ItemTypes
<1>3. now \in ControlStates /\ now.who \in Controllers
  <2>1. now \in ControlStates
    BY <1>0, ControlTypes
  <2>. QED  BY <2>1 DEF ControlStates
<1>4. pump' = [pump EXCEPT !.pc = IF replies = {} THEN "top" ELSE "reply", !.batch = {}, !.replies = replies]
  BY DEF PumpDeliver
<1>5. /\ control' = now /\ announced' = now.who /\ seq' = seq + 1
      /\ terminal' = Append(terminal, item)
      /\ replay' \in {replay, Push(replay, item)}
  BY DEF PumpDeliver
<1>6. sinks' \subseteq sinks
  BY DEF PumpDeliver
<1>7. /\ screen' = [w \in Watchers |-> screen'[w]]
      /\ \A w \in Watchers :
            screen'[w] \in {screen[w], [screen[w] EXCEPT !.items = Append(@, item),
                                               !.seq = seq + 1,
                                               !.control = IF told THEN now.who ELSE @]}
  BY DEF PumpDeliver
<1>8. /\ shown' = [t \in Terminals |-> shown'[t]]
      /\ \A t \in Terminals : shown'[t] \in {shown[t], Append(shown[t], item)}
  BY DEF PumpDeliver
<1>9. /\ asked' = asked \cup [n: {q.n : q \in queries}, to: {s.id : s \in responder}]
      /\ answers' \in {answers, ReplyWindow}
  BY DEF PumpDeliver
<1>10. UNCHANGED <<size, localSize, nextAttachment, busy, state, ioVars, inbox,
                   programVars, attached, granted, written, event>>
  BY DEF PumpDeliver
<1>11. responder \subseteq sinks
  BY DEF Responder
<1> HIDE DEF now, responder, text, item, queries, cursor
<1>12. pump' \in Pumps
  <2>1. replies \in SUBSET Nat
    BY <1>1
  <2> HIDE DEF replies
  <2>. QED  BY <1>0, <1>4, <2>1 DEF Pumps
<1>13. terminal' \in Seq(Items) /\ replay' \in Replays
  <2>1. Push(replay, item) \in Replays
    BY <1>0, <1>2, PushType
  <2>2. Append(terminal, item) \in Seq(Items)
    BY <1>0, <1>2, AppendType
  <2>. QED  BY <1>0, <1>5, <2>1, <2>2
<1>14. screen' \in [Watchers -> Screens]
  <2>1. ASSUME NEW w \in Watchers PROVE screen'[w] \in Screens
    <3>1. screen[w] \in Screens /\ screen[w].items \in Seq(Items)
      BY <1>0 DEF Screens
    <3>2. Append(screen[w].items, item) \in Seq(Items) /\ seq + 1 \in Nat
      BY <1>0, <1>2, <3>1, AppendType
    <3>3. [screen[w] EXCEPT !.items = Append(@, item), !.seq = seq + 1,
                            !.control = IF told THEN now.who ELSE @] \in Screens
      BY <1>3, <3>1, <3>2 DEF Screens
    <3>. QED  BY <1>7, <3>1, <3>3
  <2>. QED  BY <1>7, <2>1
<1>15. shown' \in [Terminals -> Seq(Items)]
  <2>1. ASSUME NEW t \in Terminals PROVE shown'[t] \in Seq(Items)
    <3>1. shown[t] \in Seq(Items)
      BY <1>0
    <3>2. Append(shown[t], item) \in Seq(Items)
      BY <1>2, <3>1, AppendType
    <3>. QED  BY <1>8, <3>1, <3>2
  <2>. QED  BY <1>8, <2>1
<1>16. asked' \in SUBSET [n: Nat, to: Nat]
  <2>1. \A s \in responder : s.id \in Nat
    BY <1>0, <1>11
  <2>. QED  BY <1>0, <1>1, <1>9, <2>1
<1>17. answers' \in Nat
  BY <1>0, <1>9, SessionAssumption
<1>18. sinks' \in SUBSET [id: Nat \ {0}, viewer: Viewers]
  BY <1>0, <1>6
<1>19. control' \in ControlStates /\ announced' \in Controllers /\ seq' \in Nat
  BY <1>0, <1>3, <1>5
<1>. QED  BY <1>10, <1>12, <1>13, <1>14, <1>15, <1>16, <1>17, <1>18, <1>19 DEF TypeOK, Pumps

\* The pump's other steps and the clock keep the types.
LEMMA PumpType == ASSUME TypeOK, PumpStep \/ Tick PROVE TypeOK'
<1>0. pump \in Pumps /\ sinks \in SUBSET [id: Nat \ {0}, viewer: Viewers]
  BY DEF TypeOK, Pumps
<1>1. CASE PumpBusy
  <2>1. /\ pump' = [pump EXCEPT !.pc = "deliver", !.burst = TRUE]
        /\ busy' = TRUE /\ event' = "busy"
        /\ UNCHANGED <<control, announced, size, localSize, seq, terminal, replay, sinks,
                       nextAttachment, answers, state, ioVars, inbox, programVars, clientVars,
                       granted, written, asked>>
    BY <1>1 DEF PumpBusy
  <2>2. pump' \in Pumps
    BY <1>0, <2>1 DEF Pumps
  <2>. QED  BY <2>1, <2>2 DEF TypeOK, Pumps
<1>2. CASE PumpReply
  <2>1. /\ pump' = [pump EXCEPT !.pc = "top", !.replies = {}]
        /\ asked' = asked \cup {[n |-> n, to |-> 0] : n \in pump.replies}
        /\ UNCHANGED <<viewVars, ioVars, inbox, programVars, clientVars, granted, written, event>>
    BY <1>2 DEF PumpReply
  <2>2. pump' \in Pumps
    BY <1>0, <2>1 DEF Pumps
  <2>3. pump.replies \in SUBSET Nat
    BY <1>0 DEF Pumps
  <2>4. asked' \in SUBSET [n: Nat, to: Nat]
    BY <2>1, <2>3 DEF TypeOK
  <2>. QED  BY <2>1, <2>2, <2>4 DEF TypeOK, Pumps
<1>3. CASE PumpClose
  <2>1. /\ pump' = [pump EXCEPT !.pc = "exit"] /\ ioOpen' = FALSE
        /\ UNCHANGED <<viewVars, pending, inbox, programVars, clientVars, histories>>
    BY <1>3 DEF PumpClose
  <2>2. pump' \in Pumps
    BY <1>0, <2>1 DEF Pumps
  <2>. QED  BY <2>1, <2>2 DEF TypeOK, Pumps
<1>4. CASE PumpExit
  <2>1. /\ pump' = [pump EXCEPT !.pc = "event"]
        /\ busy' = FALSE /\ state' = "exited" /\ sinks' = AfterTelling
        /\ screen' = [w \in Watchers |->
                        IF Attached(w) THEN [screen[w] EXCEPT !.exited = TRUE] ELSE screen[w]]
        /\ UNCHANGED <<control, announced, size, localSize, seq, terminal, replay, nextAttachment,
                       answers, ioVars, inbox, programVars, attached, shown, histories>>
    BY <1>4 DEF PumpExit
  <2>2. pump' \in Pumps
    BY <1>0, <2>1 DEF Pumps
  <2>3. sinks' \in SUBSET [id: Nat \ {0}, viewer: Viewers]
    BY <1>0, <2>1 DEF AfterTelling
  <2>4. screen' \in [Watchers -> Screens]
    BY <2>1 DEF TypeOK, Screens
  <2>. QED  BY <2>1, <2>2, <2>3, <2>4 DEF TypeOK, Pumps
<1>5. CASE PumpEvent
  <2>1. /\ pump' = [pump EXCEPT !.pc = "done"] /\ event' = "exited"
        /\ UNCHANGED <<viewVars, ioVars, inbox, programVars, clientVars, granted, written, asked>>
    BY <1>5 DEF PumpEvent
  <2>2. pump' \in Pumps
    BY <1>0, <2>1 DEF Pumps
  <2>. QED  BY <2>1, <2>2 DEF TypeOK, Pumps
<1>6. CASE Tick
  <2>1. /\ control' = Aged(control) /\ answers' = Less(answers)
        /\ pump' = [pump EXCEPT !.left = Less(@)]
        /\ UNCHANGED <<announced, size, localSize, seq, terminal, replay, sinks, nextAttachment,
                       busy, state, ioVars, inbox, programVars, clientVars, histories>>
    BY <1>6 DEF Tick
  <2>2. \A n \in Nat : Less(n) \in Nat
    BY DEF Less
  <2>3. pump' \in Pumps
    BY <1>0, <2>1, <2>2 DEF Pumps
  <2>4. control' \in ControlStates /\ answers' \in Nat
    BY <2>1, <2>2, ControlTypes DEF TypeOK
  <2>. QED  BY <2>1, <2>3, <2>4 DEF TypeOK, Pumps
<1>. QED  BY <1>1, <1>2, <1>3, <1>4, <1>5, <1>6, PumpWaitsType, DeliverType DEF PumpStep

\* Where a session starts is well-typed.
LEMMA InitType == ASSUME Init PROVE TypeOK
<1>1. control \in ControlStates /\ announced \in Controllers
  BY DEF Init, NewControl, ControlStates, Controllers
<1>2. pump \in Pumps
  BY DEF Init, Pumps
<1>3. replay \in Replays
  BY SessionAssumption DEF Init, NewReplay, Replays
<1>4. screen \in [Watchers -> Screens]
  BY SessionAssumption DEF Init, NoScreen, Screens, Controllers
<1>5. pending \in [Callers -> Calls]
  BY CallTypes DEF Init
<1>6. size \in Sizes /\ localSize \in Sizes /\ seq \in Nat /\ answers \in Nat /\ nextAttachment \in Nat \ {0}
  BY SessionAssumption DEF Init
<1>7. /\ busy \in BOOLEAN /\ ioOpen \in BOOLEAN /\ outlived \in BOOLEAN /\ readerDone \in BOOLEAN
      /\ state \in {"running", "exited"} /\ child \in {"running", "ended", "reaped"}
      /\ event \in {"none", "busy", "quiet", "exited"}
  BY Zenon DEF Init
<1>8. \A S : <<>> \in Seq(S)
  OBVIOUS
<1>9. /\ terminal = <<>> /\ inbox = <<>> /\ pty = <<>> /\ printed = <<>> /\ granted = <<>> /\ written = <<>>
      /\ sinks = {} /\ asked = {}
  BY Zenon DEF Init
<1>10. attached \in [Viewers -> Nat] /\ shown \in [Terminals -> Seq(Items)]
  BY <1>8 DEF Init
<1>11. /\ terminal \in Seq(Items) /\ inbox \in Seq(Msgs) /\ pty \in Seq(Chunks)
       /\ printed \in Seq([ask: {"text", "cursor", "other"}, own: BOOLEAN])
       /\ granted \in Seq([generation: Nat, holder: Holders])
       /\ written \in Seq([lease: LeaseRefs, n: Nat])
       /\ sinks \in SUBSET [id: Nat \ {0}, viewer: Viewers] /\ asked \in SUBSET [n: Nat, to: Nat]
  BY <1>8, <1>9
<1>. QED  BY <1>1, <1>2, <1>3, <1>4, <1>5, <1>6, <1>7, <1>10, <1>11 DEF TypeOK, Pumps

(***************************************************************************)
(* The stream: what numbered viewers show.                                 *)
(***************************************************************************)

\* One more item on the stream: what the session keeps of the stream stays right.
LEMMA StreamGrows ==
    ASSUME TypeOK, StreamInv, NEW x \in Items,
           terminal' = Append(terminal, x), seq' = seq + 1,
           size' = (IF x.kind = "resized" THEN x.size ELSE size),
           replay' = (IF replay.on THEN Push(replay, x) ELSE replay)
    PROVE  /\ seq' = Len(terminal')
           /\ size' = SizeAfter(terminal', InitSize)
           /\ replay'.on => Tracks(replay', terminal', InitSize)
<1>1. terminal \in Seq(Items) /\ replay \in Replays /\ InitSize \in Sizes
  BY SessionAssumption DEF TypeOK
<1>2. seq = Len(terminal) /\ size = SizeAfter(terminal, InitSize)
  BY DEF StreamInv
<1>3. Len(Append(terminal, x)) = Len(terminal) + 1
  BY <1>1
<1>4. SizeAfter(Append(terminal, x), InitSize) = IF x.kind = "resized" THEN x.size ELSE SizeAfter(terminal, InitSize)
  BY <1>1, SizeAfterAppend
<1>5. replay.on => Push(replay, x).on = replay.on /\ Tracks(Push(replay, x), Append(terminal, x), InitSize)
  <2> SUFFICES ASSUME replay.on
               PROVE  Push(replay, x).on = replay.on /\ Tracks(Push(replay, x), Append(terminal, x), InitSize)
    OBVIOUS
  <2>1. Tracks(replay, terminal, InitSize)
    BY DEF StreamInv
  <2>. QED  BY <1>1, <2>1, PushTracks
<1>6. replay'.on => Tracks(replay', Append(terminal, x), InitSize)
  BY <1>5
<1>. QED  BY <1>2, <1>3, <1>4, <1>6

\* One more item on the stream: a screen that has it, and one that has not, are both up to date.
LEMMA ScreenGrows ==
    ASSUME NEW s \in Seq(Items), NEW x \in Items, NEW a \in Screens, UpToDate(a, s)
    PROVE  /\ UpToDate(a, Append(s, x))
           /\ \A b \in Screens :
                 /\ a.seq = Len(s)
                 /\ b.items = Append(a.items, x) /\ b.seq = a.seq + 1
                 /\ b.size = (IF x.kind = "resized" THEN x.size ELSE a.size)
                 => UpToDate(b, Append(s, x))
<1>1. /\ a.seq \in Nat /\ a.items \in Seq(Items) /\ Len(s) \in Nat /\ a.seq <= Len(s)
      /\ a.items = SubSeq(s, 1, a.seq) /\ a.size = SizeAfter(a.items, InitSize)
  BY DEF Screens, UpToDate
<1>2. Append(s, x) \in Seq(Items) /\ Len(Append(s, x)) = Len(s) + 1
  OBVIOUS
<1>3. a.seq \in 0 .. Len(s)
  BY <1>1
<1>4. SubSeq(Append(s, x), 1, a.seq) = SubSeq(s, 1, a.seq)
  BY <1>3, StretchOfAppend
<1>5. UpToDate(a, Append(s, x))
  BY <1>1, <1>2, <1>4 DEF UpToDate
<1>6. ASSUME NEW b \in Screens, a.seq = Len(s),
             b.items = Append(a.items, x), b.seq = a.seq + 1,
             b.size = (IF x.kind = "resized" THEN x.size ELSE a.size)
      PROVE  UpToDate(b, Append(s, x))
  <2>1. a.items = s
    BY <1>1, <1>6, SubSeqFull
  <2>2. SubSeq(Append(s, x), 1, Len(s) + 1) = Append(s, x)
    BY <1>2, SubSeqFull
  <2>3. b.items = SubSeq(Append(s, x), 1, b.seq)
    BY <1>6, <2>1, <2>2
  <2>4. SizeAfter(b.items, InitSize) = IF x.kind = "resized" THEN x.size ELSE SizeAfter(a.items, InitSize)
    <3>1. a.items \in Seq(Items)
      BY <1>1
    <3>2. SizeAfter(Append(a.items, x), InitSize) =
            IF x.kind = "resized" THEN x.size ELSE SizeAfter(a.items, InitSize)
      BY <3>1, SizeAfterAppend
    <3>. QED  BY <1>6, <3>2
  <2>. QED  BY <1>1, <1>2, <1>6, <2>3, <2>4 DEF UpToDate
<1>. QED  BY <1>5, <1>6

\* Under StreamInv an attached viewer is among the sinks, and the other way round.
LEMMA AttachedIs ==
    ASSUME TypeOK, StreamInv, NEW v \in Viewers
    PROVE  Attached(v) <=> attached[v] # 0
<1>1. \A s \in sinks : s \in [id: Nat \ {0}, viewer: Viewers]
  BY DEF TypeOK
<1>2. ASSUME Attached(v) PROVE attached[v] # 0
  BY <1>1, <1>2 DEF Attached, Open
<1>3. ASSUME attached[v] # 0 PROVE Attached(v)
  <2>1. [id |-> attached[v], viewer |-> v] \in sinks
    BY <1>3 DEF StreamInv
  <2>. QED  BY <2>1 DEF Attached, Open
<1>. QED  BY <1>2, <1>3

\* Dropping sinks whose viewers are gone leaves every attached viewer its sink.
LEMMA SinksStay ==
    ASSUME TypeOK, StreamInv, UNCHANGED <<attached, nextAttachment>>, sinks' \subseteq sinks,
           \A s \in sinks : Open(s) => s \in sinks'
    PROVE  /\ \A s \in sinks' : s.id < nextAttachment'
           /\ \A s, t \in sinks' : s.id = t.id => s = t
           /\ \A v \in Viewers : attached'[v] # 0 => [id |-> attached'[v], viewer |-> v] \in sinks'
BY DEF StreamInv, Open

\* A call through Session::controlling keeps the stream and the screens right.
LEMMA ControllingExact ==
    ASSUME TypeOK, TypeOK', StreamInv, WatcherExact, NEW c \in ControlStates, NEW s \in Sizes,
           Controlling(c, s), UNCHANGED <<attached, nextAttachment, state>>
    PROVE  StreamInv' /\ WatcherExact'
<1> DEFINE now == Lapse(c)
           x == Resized(s)
           told == now.who # announced
<1>0. x \in Items /\ x.kind = "resized" /\ x.size = s
  BY ItemTypes
<1>1. terminal \in Seq(Items) /\ screen \in [Watchers -> Screens] /\ screen' \in [Watchers -> Screens]
  BY DEF TypeOK
<1>2. seq = Len(terminal) /\ size = SizeAfter(terminal, InitSize) /\ (replay.on => Tracks(replay, terminal, InitSize))
  BY DEF StreamInv
<1>3. announced' = now.who /\ size' = s /\ sinks' \in {AfterTelling, sinks}
  BY DEF Controlling
<1>4. /\ \A v \in sinks' : v.id < nextAttachment'
      /\ \A v, t \in sinks' : v.id = t.id => v = t
      /\ \A v \in Viewers : attached'[v] # 0 => [id |-> attached'[v], viewer |-> v] \in sinks'
  <2>1. sinks' \subseteq sinks /\ \A v \in sinks : Open(v) => v \in sinks'
    BY <1>3 DEF AfterTelling
  <2>. QED  BY <2>1, SinksStay
<1>5. \A w \in Watchers : w \in Viewers /\ (Attached(w) <=> attached[w] # 0)
  BY AttachedIs DEF Viewers
<1> HIDE DEF now, x
<1>6. CASE s # size
  <2>1. /\ terminal' = Append(terminal, x) /\ seq' = seq + 1
        /\ replay' = IF replay.on THEN Push(replay, x) ELSE replay
    BY <1>6 DEF Controlling, x
  <2>2. /\ seq' = Len(terminal') /\ size' = SizeAfter(terminal', InitSize)
        /\ replay'.on => Tracks(replay', terminal', InitSize)
    BY <1>0, <1>3, <2>1, StreamGrows
  <2>3. StreamInv'
    BY <1>4, <2>2 DEF StreamInv
  <2>4. ASSUME NEW w \in Watchers
        PROVE  /\ UpToDate(screen[w], terminal)'
               /\ attached'[w] # 0 => /\ screen'[w].seq = seq'
                                      /\ screen'[w].control = announced'
                                      /\ screen'[w].exited = (state' = "exited")
    <3> DEFINE a == screen[w]
               b == screen'[w]
    <3>1. a \in Screens /\ b \in Screens /\ UpToDate(a, terminal)
      BY <1>1 DEF WatcherExact
    <3>2. CASE attached[w] # 0
      <4>1. /\ b.items = Append(a.items, x) /\ b.seq = seq + 1 /\ b.size = s
            /\ b.control = (IF told THEN now.who ELSE a.control) /\ b.exited = a.exited
        <5>1. b = [a EXCEPT !.items = Append(@, x), !.seq = seq + 1, !.size = s,
                            !.control = IF told THEN now.who ELSE @]
          BY <1>5, <1>6, <3>2 DEF Controlling, x, now
        <5> HIDE DEF a, b
        <5>. QED  BY <3>1, <5>1 DEF Screens
      <4>2. a.seq = seq /\ a.control = announced /\ a.exited = (state = "exited")
        BY <3>2 DEF WatcherExact
      <4> HIDE DEF a, b
      <4>3. UpToDate(b, Append(terminal, x))
        BY <1>0, <1>1, <1>2, <3>1, <4>1, <4>2, ScreenGrows
      <4>. QED  BY <1>3, <2>1, <4>1, <4>2, <4>3 DEF UpToDate, a, b
    <3>3. CASE attached[w] = 0
      <4>1. b = a
        BY <1>5, <3>3 DEF Controlling
      <4> HIDE DEF a, b
      <4>2. UpToDate(a, Append(terminal, x))
        BY <1>0, <1>1, <3>1, ScreenGrows
      <4>. QED  BY <2>1, <3>3, <4>1, <4>2 DEF UpToDate, a, b
    <3>. QED  BY <3>2, <3>3
  <2>. QED  BY <2>3, <2>4 DEF WatcherExact
<1>7. CASE s = size
  <2>1. terminal' = terminal /\ seq' = seq /\ replay' = replay /\ size' = size
    BY <1>3, <1>7 DEF Controlling
  <2>2. StreamInv'
    BY <1>2, <1>4, <2>1 DEF StreamInv
  <2>3. ASSUME NEW w \in Watchers
        PROVE  /\ UpToDate(screen[w], terminal)'
               /\ attached'[w] # 0 => /\ screen'[w].seq = seq'
                                      /\ screen'[w].control = announced'
                                      /\ screen'[w].exited = (state' = "exited")
    <3> DEFINE a == screen[w]
               b == screen'[w]
    <3>1. a \in Screens /\ UpToDate(a, terminal)
      BY <1>1 DEF WatcherExact
    <3>2. attached[w] # 0 => a.seq = seq /\ a.control = announced /\ a.exited = (state = "exited")
      BY DEF WatcherExact
    <3>3. /\ b.items = a.items /\ b.seq = a.seq /\ b.size = a.size /\ b.exited = a.exited
          /\ b.control = (IF attached[w] # 0 /\ told THEN now.who ELSE a.control)
      <4>1. b = IF attached[w] # 0 THEN [a EXCEPT !.items = @, !.seq = @, !.size = @,
                                            !.control = IF told THEN now.who ELSE @]
                ELSE a
        BY <1>5, <1>7 DEF Controlling, now
      <4> HIDE DEF a, b
      <4>. QED  BY <3>1, <4>1 DEF Screens
    <3> HIDE DEF a, b
    <3>. QED  BY <1>3, <2>1, <3>1, <3>2, <3>3 DEF UpToDate, a, b
  <2>. QED  BY <2>2, <2>3 DEF WatcherExact
<1>. QED  BY <1>6, <1>7

\* A batch delivered keeps the stream and the screens right.
LEMMA DeliverExact ==
    ASSUME TypeOK, TypeOK', StreamInv, WatcherExact, PumpDeliver
    PROVE  StreamInv' /\ WatcherExact'
<1> DEFINE now == Lapse(control)
           x == Output({c.n : c \in {y \in pump.batch : y.ask = "text"}})
           told == now.who # announced
<1>0. x \in Items /\ x.kind = "output"
  <2>1. pump.batch \in SUBSET Chunks
    BY DEF TypeOK
  <2>2. {c.n : c \in {y \in pump.batch : y.ask = "text"}} \in SUBSET Nat
    BY <2>1 DEF Chunks
  <2>. QED  BY <2>2, ItemTypes
<1>1. terminal \in Seq(Items) /\ screen \in [Watchers -> Screens] /\ screen' \in [Watchers -> Screens]
  BY DEF TypeOK
<1>2. seq = Len(terminal)
  BY DEF StreamInv
<1>3. /\ announced' = now.who /\ size' = size /\ terminal' = Append(terminal, x) /\ seq' = seq + 1
      /\ replay' = IF replay.on THEN Push(replay, x) ELSE replay
      /\ UNCHANGED <<attached, nextAttachment, state>>
  BY DEF PumpDeliver
<1>4. sinks' \subseteq sinks /\ \A v \in sinks : Open(v) => v \in sinks'
  BY DEF PumpDeliver
<1>5. \A w \in Watchers : w \in Viewers /\ (Attached(w) <=> attached[w] # 0)
  BY AttachedIs DEF Viewers
<1>6. ASSUME NEW w \in Watchers
      PROVE  screen'[w] = IF Attached(w) THEN [screen[w] EXCEPT !.items = Append(@, x), !.seq = seq + 1,
                                                    !.control = IF told THEN now.who ELSE @]
                          ELSE screen[w]
  BY DEF PumpDeliver
<1> HIDE DEF now, x
<1>7. /\ seq' = Len(terminal') /\ size' = SizeAfter(terminal', InitSize)
      /\ replay'.on => Tracks(replay', terminal', InitSize)
  BY <1>0, <1>3, StreamGrows
<1>8. StreamInv'
  BY <1>3, <1>4, <1>7, SinksStay DEF StreamInv
<1>9. ASSUME NEW w \in Watchers
      PROVE  /\ UpToDate(screen[w], terminal)'
             /\ attached'[w] # 0 => /\ screen'[w].seq = seq'
                                    /\ screen'[w].control = announced'
                                    /\ screen'[w].exited = (state' = "exited")
  <2> DEFINE a == screen[w]
             b == screen'[w]
  <2>1. a \in Screens /\ b \in Screens /\ UpToDate(a, terminal)
    BY <1>1 DEF WatcherExact
  <2>2. CASE attached[w] # 0
    <3>1. /\ b.items = Append(a.items, x) /\ b.seq = seq + 1 /\ b.size = a.size
          /\ b.control = (IF told THEN now.who ELSE a.control) /\ b.exited = a.exited
      <4>1. b = [a EXCEPT !.items = Append(@, x), !.seq = seq + 1, !.control = IF told THEN now.who ELSE @]
        BY <1>5, <1>6, <2>2
      <4> HIDE DEF a, b
      <4>. QED  BY <2>1, <4>1 DEF Screens
    <3>2. a.seq = seq /\ a.control = announced /\ a.exited = (state = "exited")
      BY <2>2 DEF WatcherExact
    <3> HIDE DEF a, b
    <3>3. UpToDate(b, Append(terminal, x))
      BY <1>0, <1>1, <1>2, <2>1, <3>1, <3>2, ScreenGrows
    <3>. QED  BY <1>3, <3>1, <3>2, <3>3 DEF UpToDate, a, b
  <2>3. CASE attached[w] = 0
    <3>1. b = a
      BY <1>5, <1>6, <2>3
    <3> HIDE DEF a, b
    <3>2. UpToDate(a, Append(terminal, x))
      BY <1>0, <1>1, <2>1, ScreenGrows
    <3>. QED  BY <1>3, <2>3, <3>1, <3>2 DEF UpToDate, a, b
  <2>. QED  BY <2>2, <2>3
<1>. QED  BY <1>8, <1>9 DEF WatcherExact

\* A viewer that resumes gets exactly what it lacks: the stream up to where it was, and the
\* items since, are the whole stream.
LEMMA ResumeExact ==
    ASSUME NEW s \in Seq(Items), NEW r \in Replays, Tracks(r, s, InitSize),
           NEW a \in Screens, UpToDate(a, s), Resumable(r, a.seq)
    PROVE  /\ a.items \o ItemsSince(r, a.seq) = s
           /\ a.seq + Len(ItemsSince(r, a.seq)) = Len(s)
           /\ SizeAfter(ItemsSince(r, a.seq), SizeSince(r, a.seq)) = SizeAfter(s, InitSize)
<1> DEFINE n == Len(s)
           b == r.base
           k == a.seq - b
           since == SubSeq(r.items, k + 1, Len(r.items))
           before == SubSeq(r.items, 1, k)
<1>1. /\ n \in Nat /\ b \in Nat /\ r.items \in Seq(Items) /\ b + Len(r.items) = n
      /\ r.items = SubSeq(s, b + 1, n) /\ r.baseSize = SizeAfter(SubSeq(s, 1, b), InitSize)
      /\ r.baseSize \in Sizes
  BY DEF Replays, Tracks
<1>2. a.seq \in Nat /\ a.seq <= n /\ a.items = SubSeq(s, 1, a.seq)
  BY DEF Screens, UpToDate
<1>3. a.seq >= b /\ a.seq - b <= Len(r.items)
  BY DEF Resumable
<1>4. ItemsSince(r, a.seq) = since /\ SizeSince(r, a.seq) = SizeAfter(before, r.baseSize)
  BY DEF ItemsSince, SizeSince
<1>5. Len(r.items) = n - b
  BY <1>1
<1> HIDE DEF n, b, k
<1>6. /\ b \in 0 .. n /\ k \in 0 .. n - b /\ n - b \in k .. n - b /\ b + k = a.seq /\ b + (n - b) = n
      /\ 0 \in 0 .. n - b /\ b + 0 + 1 = b + 1 /\ 0 + 1 = 1 /\ n \in b .. n
  BY <1>1, <1>2, <1>3, <1>5 DEF k
<1>7. since = SubSeq(s, a.seq + 1, n)
  <2> DEFINE j == n - b
  <2>1. b \in 0 .. Len(s) /\ n \in b .. Len(s) /\ k \in 0 .. n - b /\ j \in k .. n - b
    BY <1>6 DEF n
  <2>2. b + j = n /\ Len(r.items) = j
    BY <1>5, <1>6
  <2> HIDE DEF j
  <2>3. SubSeq(SubSeq(s, b + 1, n), k + 1, j) = SubSeq(s, b + k + 1, b + j)
    BY <2>1, StretchOfStretch
  <2>. QED  BY <1>1, <1>6, <2>2, <2>3
<1>8. before = SubSeq(s, b + 1, a.seq)
  <2>1. SubSeq(SubSeq(s, b + 1, n), 0 + 1, k) = SubSeq(s, b + 0 + 1, b + k)
    BY <1>6, StretchOfStretch DEF n
  <2>. QED  BY <1>1, <1>6, <2>1
<1>9. before \in Seq(Items) /\ since \in Seq(Items) /\ Len(since) = n - a.seq
  <2>1. /\ b + 1 \in 1 .. n + 1 /\ a.seq \in (b + 1) - 1 .. n
        /\ a.seq + 1 \in 1 .. n + 1 /\ n \in (a.seq + 1) - 1 .. n
    BY <1>1, <1>2, <1>3
  <2>2. SubSeq(s, b + 1, a.seq) \in Seq(Items)
    BY <2>1, SubSeqProperties DEF n
  <2>3. /\ SubSeq(s, a.seq + 1, n) \in Seq(Items)
        /\ Len(SubSeq(s, a.seq + 1, n)) = IF a.seq + 1 <= n THEN n - (a.seq + 1) + 1 ELSE 0
    BY <2>1, SubSeqProperties DEF n
  <2>4. (IF a.seq + 1 <= n THEN n - (a.seq + 1) + 1 ELSE 0) = n - a.seq
    BY <1>1, <1>2
  <2>. QED  BY <1>7, <1>8, <2>2, <2>3, <2>4
<1> HIDE DEF since, before
<1>10. SubSeq(s, 1, a.seq) \o SubSeq(s, a.seq + 1, n) = s
  <2>1. 1 \in 1 .. n + 1 /\ a.seq \in 1 - 1 .. n /\ n \in a.seq .. n
    BY <1>1, <1>2
  <2>2. SubSeq(s, 1, a.seq) \o SubSeq(s, a.seq + 1, n) = SubSeq(s, 1, n)
    BY <2>1, ConcatAdjacentSubSeq DEF n
  <2>. QED  BY <2>2, SubSeqFull DEF n
<1>11. SubSeq(s, 1, b) \o SubSeq(s, b + 1, a.seq) = SubSeq(s, 1, a.seq)
  <2>1. 1 \in 1 .. n + 1 /\ b \in 1 - 1 .. n /\ a.seq \in b .. n
    BY <1>1, <1>2, <1>3, <1>6
  <2>. QED  BY <2>1, ConcatAdjacentSubSeq DEF n
<1>12. SubSeq(s, 1, b) \in Seq(Items) /\ SubSeq(s, 1, a.seq) \in Seq(Items)
  <2>1. 1 \in 1 .. n + 1 /\ b \in 1 - 1 .. n /\ a.seq \in 1 - 1 .. n
    BY <1>1, <1>2, <1>6
  <2>. QED  BY <2>1, SubSeqProperties DEF n
<1>13. SizeAfter(before, r.baseSize) = SizeAfter(SubSeq(s, 1, a.seq), InitSize)
  <2>1. SizeAfter(SubSeq(s, 1, b) \o before, InitSize) = SizeAfter(before, SizeAfter(SubSeq(s, 1, b), InitSize))
    BY <1>9, <1>12, SizeAfterConcat
  <2>. QED  BY <1>1, <1>8, <1>11, <2>1
<1>14. SizeAfter(since, SizeAfter(before, r.baseSize)) = SizeAfter(s, InitSize)
  <2>1. SizeAfter(SubSeq(s, 1, a.seq) \o since, InitSize) = SizeAfter(since, SizeAfter(SubSeq(s, 1, a.seq), InitSize))
    BY <1>9, <1>12, SizeAfterConcat
  <2>. QED  BY <1>7, <1>10, <1>13, <2>1
<1>15. a.items \o since = s
  BY <1>2, <1>7, <1>10
<1>16. a.seq + Len(since) = n
  BY <1>1, <1>2, <1>9
<1>. QED  BY <1>4, <1>14, <1>15, <1>16 DEF n

\* Viewers coming and going keeps the stream and the screens right.
LEMMA ViewerExact ==
    ASSUME TypeOK, TypeOK', StreamInv, WatcherExact, ViewerStep
    PROVE  StreamInv' /\ WatcherExact'
<1>0. /\ terminal \in Seq(Items) /\ screen \in [Watchers -> Screens] /\ screen' \in [Watchers -> Screens]
      /\ attached \in [Viewers -> Nat] /\ nextAttachment \in Nat \ {0}
      /\ \A s \in sinks : s \in [id: Nat \ {0}, viewer: Viewers] /\ s.id < nextAttachment
  BY DEF TypeOK, StreamInv
<1>1. /\ \A s, t \in sinks : s.id = t.id => s = t
      /\ \A v \in Viewers : attached[v] # 0 => [id |-> attached[v], viewer |-> v] \in sinks
  BY DEF StreamInv
<1>2. ASSUME NEW v \in Viewers, attached[v] = 0, nextAttachment' = nextAttachment + 1,
             sinks' \subseteq sinks \cup {[id |-> nextAttachment, viewer |-> v]},
             [id |-> nextAttachment, viewer |-> v] \in sinks',
             \A s \in sinks : Open(s) => s \in sinks',
             attached' = [attached EXCEPT ![v] = nextAttachment]
      PROVE  /\ \A s \in sinks' : s.id < nextAttachment'
             /\ \A s, t \in sinks' : s.id = t.id => s = t
             /\ \A u \in Viewers : attached'[u] # 0 => [id |-> attached'[u], viewer |-> u] \in sinks'
  <2>1. \A s \in sinks' : s.id < nextAttachment'
    BY <1>0, <1>2
  <2>2. \A s, t \in sinks' : s.id = t.id => s = t
    BY <1>0, <1>1, <1>2
  <2>3. ASSUME NEW u \in Viewers, attached'[u] # 0 PROVE [id |-> attached'[u], viewer |-> u] \in sinks'
    <3>1. CASE u = v
      BY <1>0, <1>2, <3>1
    <3>2. CASE u # v
      <4>1. attached'[u] = attached[u] /\ [id |-> attached[u], viewer |-> u] \in sinks
        BY <1>0, <1>1, <1>2, <2>3, <3>2
      <4>2. Open([id |-> attached[u], viewer |-> u])
        BY DEF Open
      <4>. QED  BY <1>2, <4>1, <4>2
    <3>. QED  BY <3>1, <3>2
  <2>. QED  BY <2>1, <2>2, <2>3
<1>3. ASSUME NEW t \in Terminals, AttachTerminal(t) PROVE StreamInv' /\ WatcherExact'
  <2>1. t \in Viewers
    BY DEF Viewers
  <2>2. /\ attached[t] = 0 /\ nextAttachment' = nextAttachment + 1
        /\ sinks' = sinks \cup {[id |-> nextAttachment, viewer |-> t]}
        /\ attached' = [attached EXCEPT ![t] = nextAttachment]
        /\ UNCHANGED <<terminal, seq, size, replay, screen, announced, state>>
    BY <1>3 DEF AttachTerminal
  <2>3. /\ \A s \in sinks' : s.id < nextAttachment'
        /\ \A s, u \in sinks' : s.id = u.id => s = u
        /\ \A u \in Viewers : attached'[u] # 0 => [id |-> attached'[u], viewer |-> u] \in sinks'
    BY <1>2, <2>1, <2>2
  <2>4. StreamInv'
    BY <2>2, <2>3 DEF StreamInv
  <2>5. \A w \in Watchers : attached'[w] = attached[w]
    BY <1>0, <2>2, SessionAssumption DEF Viewers
  <2>6. WatcherExact'
    BY <2>2, <2>5 DEF WatcherExact, UpToDate
  <2>. QED  BY <2>4, <2>6
<1>4. ASSUME NEW w \in Watchers, NEW resume \in BOOLEAN, AttachWatcher(w, resume)
      PROVE  StreamInv' /\ WatcherExact'
  <2> DEFINE r == IF replay.on THEN replay ELSE NewReplay(seq, size)
             after == screen[w].seq
             resumed == resume /\ Resumable(r, after)
             since == ItemsSince(r, after)
             now == Lapse(control)
             told == now.who # announced
             carriedOn == [items   |-> screen[w].items \o since,
                      seq     |-> after + Len(since),
                      size    |-> SizeAfter(since, SizeSince(r, after)),
                      control |-> now.who,
                      exited  |-> state = "exited",
                      from    |-> after]
             afresh == [items   |-> terminal,
                      seq     |-> seq,
                      size    |-> size,
                      control |-> now.who,
                      exited  |-> state = "exited",
                      from    |-> seq]
  <2>1. w \in Viewers
    BY DEF Viewers
  <2>2. /\ attached[w] = 0 /\ nextAttachment' = nextAttachment + 1 /\ replay' = r
        /\ attached' = [attached EXCEPT ![w] = nextAttachment] /\ announced' = now.who
        /\ UNCHANGED <<terminal, seq, size, state>>
    BY <1>4 DEF AttachWatcher
  <2>3. /\ sinks' \subseteq sinks \cup {[id |-> nextAttachment, viewer |-> w]}
        /\ [id |-> nextAttachment, viewer |-> w] \in sinks'
        /\ \A s \in sinks : Open(s) => s \in sinks'
    BY <1>4 DEF AttachWatcher, AfterTelling
  <2>4. /\ \A s \in sinks' : s.id < nextAttachment'
        /\ \A s, u \in sinks' : s.id = u.id => s = u
        /\ \A u \in Viewers : attached'[u] # 0 => [id |-> attached'[u], viewer |-> u] \in sinks'
    BY <1>2, <2>1, <2>2, <2>3
  <2>5. r \in Replays /\ Tracks(r, terminal, InitSize)
    <3>1. seq = Len(terminal) /\ size = SizeAfter(terminal, InitSize)
      BY DEF StreamInv
    <3>2. NewReplay(seq, size) \in Replays /\ Tracks(NewReplay(seq, size), terminal, InitSize)
      BY <1>0, <3>1, SessionAssumption, NewReplayTracks
    <3>3. replay \in Replays /\ (replay.on => Tracks(replay, terminal, InitSize))
      BY DEF StreamInv, TypeOK
    <3>. QED  BY <3>2, <3>3
  <2>6. ASSUME NEW x \in Watchers
        PROVE  /\ x = w /\ resumed => screen'[x] = carriedOn
               /\ x = w /\ ~ resumed => screen'[x] = afresh
               /\ x # w /\ told /\ Attached(x) => screen'[x] = [screen[x] EXCEPT !.control = now.who]
               /\ x # w /\ ~ (told /\ Attached(x)) => screen'[x] = screen[x]
    BY <1>4 DEF AttachWatcher
  <2> HIDE DEF r, now
  <2>7. StreamInv'
    BY <2>2, <2>4, <2>5 DEF StreamInv
  <2>8. /\ carriedOn.items = screen[w].items \o since /\ carriedOn.seq = after + Len(since)
        /\ carriedOn.size = SizeAfter(since, SizeSince(r, after))
        /\ carriedOn.control = now.who /\ carriedOn.exited = (state = "exited")
    OBVIOUS
  <2>9. /\ afresh.items = terminal /\ afresh.seq = seq /\ afresh.size = size
        /\ afresh.control = now.who /\ afresh.exited = (state = "exited")
    OBVIOUS
  <2>10. screen[w] \in Screens /\ UpToDate(screen[w], terminal)
    BY <1>0 DEF WatcherExact
  <2>11. resumed => /\ screen[w].items \o since = terminal
                    /\ after + Len(since) = Len(terminal)
                    /\ SizeAfter(since, SizeSince(r, after)) = SizeAfter(terminal, InitSize)
    BY <1>0, <2>5, <2>10, ResumeExact
  <2>12. seq = Len(terminal) /\ size = SizeAfter(terminal, InitSize) /\ SubSeq(terminal, 1, Len(terminal)) = terminal
         /\ Len(terminal) \in Nat
    BY <1>0, SubSeqFull DEF StreamInv
  <2> HIDE DEF carriedOn, afresh, resumed, since, after
  <2>13. resumed => carriedOn.seq = seq /\ UpToDate(carriedOn, terminal)
    <3> SUFFICES ASSUME resumed PROVE carriedOn.seq = seq /\ UpToDate(carriedOn, terminal)
      OBVIOUS
    <3>1. carriedOn.items = terminal /\ carriedOn.seq = Len(terminal) /\ carriedOn.size = SizeAfter(terminal, InitSize)
      BY <2>8, <2>11
    <3>. QED  BY <2>12, <3>1 DEF UpToDate
  <2>14. afresh.seq = seq /\ UpToDate(afresh, terminal)
    BY <2>9, <2>12 DEF UpToDate
  <2>15. ASSUME NEW x \in Watchers
         PROVE  /\ UpToDate(screen[x], terminal)'
                /\ attached'[x] # 0 => /\ screen'[x].seq = seq'
                                       /\ screen'[x].control = announced'
                                       /\ screen'[x].exited = (state' = "exited")
    <3>1. CASE x = w /\ resumed
      BY <2>2, <2>6, <2>8, <2>13, <3>1 DEF UpToDate
    <3>2. CASE x = w /\ ~ resumed
      BY <2>2, <2>6, <2>9, <2>14, <3>2 DEF UpToDate
    <3>3. CASE x # w
      <4> DEFINE a == screen[x]
                 b == screen'[x]
      <4>1. a \in Screens /\ UpToDate(a, terminal)
            /\ (attached[x] # 0 => a.seq = seq /\ a.control = announced /\ a.exited = (state = "exited"))
        BY <1>0 DEF WatcherExact
      <4>2. (Attached(x) <=> attached[x] # 0) /\ attached'[x] = attached[x]
        BY <1>0, <2>2, <3>3, AttachedIs DEF Viewers
      <4>3. b = (IF told /\ Attached(x) THEN [a EXCEPT !.control = now.who] ELSE a)
        BY <2>6, <3>3
      <4> HIDE DEF a, b
      <4>4. /\ b.items = a.items /\ b.seq = a.seq /\ b.size = a.size /\ b.exited = a.exited
            /\ b.control = (IF told /\ Attached(x) THEN now.who ELSE a.control)
        BY <4>1, <4>3 DEF Screens
      <4>. QED  BY <2>2, <4>1, <4>2, <4>4 DEF UpToDate, a, b
    <3>. QED  BY <3>1, <3>2, <3>3
  <2>. QED  BY <2>7, <2>15 DEF WatcherExact
<1>5. ASSUME NEW v \in Viewers, Detach(v) PROVE StreamInv' /\ WatcherExact'
  <2>1. /\ sinks' = {s \in sinks : s.id # attached[v]}
        /\ attached' = [attached EXCEPT ![v] = 0]
        /\ UNCHANGED <<nextAttachment, terminal, seq, size, replay, screen, announced, state>>
    BY <1>5 DEF Detach
  <2>2. ASSUME NEW u \in Viewers, attached'[u] # 0 PROVE [id |-> attached'[u], viewer |-> u] \in sinks'
    <3>1. u # v /\ attached'[u] = attached[u] /\ [id |-> attached[u], viewer |-> u] \in sinks
      BY <1>0, <1>1, <2>1, <2>2
    <3>2. attached[u] # attached[v]
      <4> SUFFICES ASSUME attached[u] = attached[v] PROVE FALSE
        OBVIOUS
      <4>1. [id |-> attached[v], viewer |-> v] \in sinks
        BY <1>1, <2>1, <2>2, <3>1
      <4>2. [id |-> attached[v], viewer |-> v] = [id |-> attached[u], viewer |-> u]
        BY <1>1, <3>1, <4>1
      <4>. QED  BY <3>1, <4>2
    <3>. QED  BY <2>1, <3>1, <3>2
  <2>3. StreamInv'
    BY <1>0, <1>1, <2>1, <2>2 DEF StreamInv
  <2>4. \A w \in Watchers : attached'[w] # 0 => attached'[w] = attached[w]
    BY <1>0, <2>1 DEF Viewers
  <2>5. WatcherExact'
    BY <2>1, <2>4 DEF WatcherExact, UpToDate
  <2>. QED  BY <2>3, <2>5
<1>6. ASSUME NEW v \in Viewers, Drop(v) PROVE StreamInv' /\ WatcherExact'
  <2>1. /\ attached' = [attached EXCEPT ![v] = 0]
        /\ UNCHANGED <<sinks, nextAttachment, terminal, seq, size, replay, announced, state>>
    BY <1>6 DEF Drop
  <2>2. \A u \in Viewers : attached'[u] # 0 => attached'[u] = attached[u]
    BY <1>0, <2>1
  <2>3. StreamInv'
    BY <2>1, <2>2 DEF StreamInv
  <2>4. \A w \in Watchers : w \in Viewers
    BY DEF Viewers
  <2>5. CASE v \notin Watchers
    <3>1. screen' = screen
      BY <1>6, <2>5 DEF Drop
    <3>. QED  BY <2>1, <2>2, <2>3, <2>4, <3>1 DEF WatcherExact, UpToDate
  <2>6. CASE v \in Watchers
    <3> DEFINE a == screen[v]
    <3>1. a \in Screens /\ UpToDate(a, terminal)
      BY <1>0, <2>6 DEF WatcherExact
    <3>2. a.items \in Seq(Items) /\ a.from \in Nat /\ a.seq \in Nat
      BY <3>1 DEF Screens
    <3>3. PICK k \in a.from .. a.seq :
            screen' = [screen EXCEPT ![v].items = SubSeq(@, 1, k),
                                     ![v].seq = k,
                                     ![v].size = SizeAfter(SubSeq(screen[v].items, 1, k), InitSize)]
      BY <1>6, <2>6 DEF Drop
    <3> DEFINE head == SubSeq(a.items, 1, k)
               b == screen'[v]
    <3>4. b = [a EXCEPT !.items = head, !.seq = k, !.size = SizeAfter(head, InitSize)]
      BY <1>0, <2>6, <3>3
    <3>5. \A w \in Watchers : w # v => screen'[w] = screen[w]
      BY <1>0, <3>3
    <3>6. attached'[v] = 0
      BY <1>0, <2>1
    <3>7. k \in Nat /\ k <= a.seq
      BY <3>2
    <3> HIDE DEF a, b, head
    <3>8. b.items = head /\ b.seq = k /\ b.size = SizeAfter(head, InitSize)
      BY <3>1, <3>4 DEF Screens
    <3>9. a.seq <= Len(terminal) /\ a.items = SubSeq(terminal, 1, a.seq) /\ Len(terminal) \in Nat
      BY <1>0, <3>1 DEF UpToDate
    <3>10. head = SubSeq(terminal, 1, k)
      <4>1. /\ 0 \in 0 .. Len(terminal) /\ a.seq \in 0 .. Len(terminal)
            /\ 0 \in 0 .. a.seq - 0 /\ k \in 0 .. a.seq - 0
        BY <3>2, <3>7, <3>9
      <4>2. SubSeq(SubSeq(terminal, 0 + 1, a.seq), 0 + 1, k) = SubSeq(terminal, 0 + 0 + 1, 0 + k)
        BY <1>0, <4>1, StretchOfStretch
      <4>3. 0 + 1 = 1 /\ 0 + 0 + 1 = 1 /\ 0 + k = k
        BY <3>7
      <4>. QED  BY <3>9, <4>2, <4>3 DEF head
    <3>11. UpToDate(b, terminal)
      BY <3>2, <3>7, <3>8, <3>9, <3>10 DEF UpToDate
    <3>12. ASSUME NEW w \in Watchers
           PROVE  /\ UpToDate(screen[w], terminal)'
                  /\ attached'[w] # 0 => /\ screen'[w].seq = seq'
                                         /\ screen'[w].control = announced'
                                         /\ screen'[w].exited = (state' = "exited")
      <4>1. CASE w = v
        BY <2>1, <3>6, <3>11, <4>1 DEF UpToDate, b
      <4>2. CASE w # v
        BY <2>1, <2>2, <2>4, <3>5, <4>2 DEF WatcherExact, UpToDate
      <4>. QED  BY <4>1, <4>2
    <3>. QED  BY <2>3, <3>12 DEF WatcherExact
  <2>. QED  BY <2>5, <2>6
<1>. QED  BY <1>3, <1>4, <1>5, <1>6 DEF ViewerStep

\* Every step keeps the types, the stream and the screens right.
LEMMA ExactStep ==
    ASSUME TypeOK, StreamInv, WatcherExact, [Next]_vars
    PROVE  TypeOK' /\ StreamInv' /\ WatcherExact'
<1>0. control \in ControlStates /\ localSize \in Sizes /\ size \in Sizes
  BY DEF TypeOK
<1>1. ASSUME TypeOK', NEW c \in ControlStates, NEW s \in Sizes, Controlling(c, s), UnchangedByCalls
      PROVE  StreamInv' /\ WatcherExact'
  BY <1>1, ControllingExact DEF UnchangedByCalls
<1>2. ASSUME UNCHANGED <<terminal, seq, size, replay, sinks, nextAttachment, attached, screen, announced, state>>
      PROVE  StreamInv' /\ WatcherExact'
  BY <1>2 DEF StreamInv, WatcherExact, UpToDate
<1>3. CASE LocalStep
  <2>0. TypeOK'
    BY <1>3, LocalType
  <2>1. ASSUME NEW p \in Locals, TakeLocalControl(p) PROVE StreamInv' /\ WatcherExact'
    <3>1. PICK s \in SizesAfterApplying(localSize) : Controlling(LocalInput(control), s)
      BY <2>1 DEF TakeLocalControl
    <3>2. s \in Sizes /\ LocalInput(control) \in ControlStates /\ UnchangedByCalls
      BY <1>0, <2>1, SizesAfterApplyingType, ControlTypes DEF TakeLocalControl
    <3>. QED  BY <1>1, <2>0, <3>1, <3>2
  <2>2. ASSUME NEW p \in Locals, NEW data \in LocalData, LocalWrite(p, data) PROVE StreamInv' /\ WatcherExact'
    BY <1>2, <2>2 DEF LocalWrite
  <2>3. ASSUME NEW p \in Automations, Unattended(p) PROVE StreamInv' /\ WatcherExact'
    BY <1>0, <1>1, <2>0, <2>3 DEF Unattended
  <2>4. ASSUME NEW s \in Sizes, Resize(s) PROVE StreamInv' /\ WatcherExact'
    <3>1. PICK z \in IF Leased(control) THEN {size} ELSE SizesAfterApplying(s) : Controlling(control, z)
      BY <2>4 DEF Resize
    <3>2. z \in Sizes /\ UnchangedByCalls
      BY <1>0, <2>4, <3>1, SizesAfterApplyingType DEF Resize
    <3>. QED  BY <1>0, <1>1, <2>0, <3>1, <3>2
  <2>5. ASSUME AskController PROVE StreamInv' /\ WatcherExact'
    BY <1>0, <1>1, <2>0, <2>5 DEF AskController
  <2>. QED  BY <1>3, <2>0, <2>1, <2>2, <2>3, <2>4, <2>5 DEF LocalStep
<1>4. CASE LeaseStep
  <2>0. TypeOK'
    BY <1>4, LeaseType
  <2>1. PICK h \in Holders :
        \/ \E takeOver \in BOOLEAN : Acquire(h, takeOver)
        \/ \E i \in DOMAIN granted :
              \/ RenewLease(h, i)
              \/ ReleaseLease(h, i)
              \/ \E n \in 1 .. MaxInput : LeaseInput(h, i, n)
              \/ \E s \in Sizes : ResizeLeased(h, i, s)
    BY <1>4 DEF LeaseStep
  <2>2. ASSUME NEW takeOver \in BOOLEAN, Acquire(h, takeOver) PROVE StreamInv' /\ WatcherExact'
    <3>1. Controlling(control, size) \/ Controlling(Acquired(control, h, Len(granted) + 1), size)
      BY <2>2 DEF Acquire
    <3>2. Len(granted) + 1 \in Nat
      <4>1. granted \in Seq([generation: Nat, holder: Holders])
        BY DEF TypeOK
      <4>. QED  BY <4>1, ElementType
    <3>3. Acquired(control, h, Len(granted) + 1) \in ControlStates /\ UnchangedByCalls
      BY <1>0, <2>2, <3>2, ControlTypes DEF Acquire
    <3>. QED  BY <1>0, <1>1, <2>0, <3>1, <3>3
  <2>3. ASSUME NEW i \in DOMAIN granted, RenewLease(h, i) PROVE StreamInv' /\ WatcherExact'
    <3>1. Renew(control, LeaseRef(i)) \in ControlStates
      BY <1>0, ControlTypes
    <3>. QED  BY <1>0, <1>1, <2>0, <2>3, <3>1 DEF RenewLease
  <2>4. ASSUME NEW i \in DOMAIN granted, ReleaseLease(h, i) PROVE StreamInv' /\ WatcherExact'
    <3>1. Release(control, LeaseRef(i)) \in ControlStates
      BY <1>0, ControlTypes
    <3>2. PICK s \in IF Check(control, LeaseRef(i)) THEN SizesAfterApplying(localSize) ELSE {size} :
            Controlling(Release(control, LeaseRef(i)), s)
      BY <2>4 DEF ReleaseLease
    <3>3. s \in Sizes /\ UnchangedByCalls
      BY <1>0, <2>4, <3>2, SizesAfterApplyingType DEF ReleaseLease
    <3>. QED  BY <1>1, <2>0, <3>1, <3>2, <3>3
  <2>5. ASSUME NEW i \in DOMAIN granted, NEW n \in 1 .. MaxInput, LeaseInput(h, i, n)
        PROVE  StreamInv' /\ WatcherExact'
    <3>1. MaxInput \in Nat
      BY SessionAssumption
    <3>2. n \in Nat
      BY <3>1
    <3>3. Input(control, LeaseRef(i), n) \in ControlStates
      BY <1>0, <3>2, ControlTypes
    <3>. QED  BY <1>0, <1>1, <2>0, <2>5, <3>3 DEF LeaseInput
  <2>6. ASSUME NEW i \in DOMAIN granted, NEW s \in Sizes, ResizeLeased(h, i, s) PROVE StreamInv' /\ WatcherExact'
    <3>1. PICK z \in IF Check(control, LeaseRef(i)) THEN SizesAfterApplying(s) ELSE {size} :
            Controlling(control, z)
      BY <2>6 DEF ResizeLeased
    <3>2. z \in Sizes /\ UnchangedByCalls
      BY <1>0, <2>6, <3>1, SizesAfterApplyingType DEF ResizeLeased
    <3>. QED  BY <1>0, <1>1, <2>0, <3>1, <3>2
  <2>. QED  BY <2>0, <2>1, <2>2, <2>3, <2>4, <2>5, <2>6
<1>5. CASE ViewerStep
  BY <1>5, ViewerType, ViewerExact
<1>6. CASE WriteStep
  <2>1. PICK p \in Callers : Write(p)
    BY <1>6 DEF WriteStep
  <2>. QED  BY <1>2, <1>6, <2>1, WriteType DEF Write
<1>7. CASE ProgramStep \/ WaiterStep \/ ReaderStep
  <2>1. UNCHANGED <<terminal, seq, size, replay, sinks, nextAttachment, attached, screen, announced, state>>
    BY <1>7 DEF ProgramStep, WaiterStep, ReaderStep, PrintChunk, ChildEnds, GrandchildEnds
  <2>. QED  BY <1>2, <1>7, <2>1, ProgramType
<1>8. CASE PumpStep \/ Tick
  <2>0. TypeOK'
    BY <1>8, PumpType
  <2>1. CASE PumpDeliver
    BY <2>0, <2>1, DeliverExact
  <2>2. CASE PumpLapse
    BY <1>0, <2>0, <2>2, ControllingExact DEF PumpLapse
  <2>3. CASE PumpExit
    <3>1. /\ state' = "exited" /\ sinks' = AfterTelling
          /\ screen' = [w \in Watchers |->
                         IF Attached(w) THEN [screen[w] EXCEPT !.exited = TRUE] ELSE screen[w]]
          /\ UNCHANGED <<terminal, seq, size, replay, nextAttachment, attached, announced>>
      BY <2>3 DEF PumpExit
    <3>2. sinks' \subseteq sinks /\ \A s \in sinks : Open(s) => s \in sinks'
      BY <3>1 DEF AfterTelling
    <3>3. StreamInv'
      BY <3>1, <3>2, SinksStay DEF StreamInv
    <3>4. ASSUME NEW w \in Watchers
          PROVE  /\ UpToDate(screen[w], terminal)'
                 /\ attached'[w] # 0 => /\ screen'[w].seq = seq'
                                        /\ screen'[w].control = announced'
                                        /\ screen'[w].exited = (state' = "exited")
      <4> DEFINE a == screen[w]
                 b == screen'[w]
      <4>1. a \in Screens /\ UpToDate(a, terminal)
            /\ (attached[w] # 0 => a.seq = seq /\ a.control = announced)
        BY DEF WatcherExact, TypeOK
      <4>2. Attached(w) <=> attached[w] # 0
        BY AttachedIs DEF Viewers
      <4>3. b = (IF Attached(w) THEN [a EXCEPT !.exited = TRUE] ELSE a)
        BY <3>1
      <4> HIDE DEF a, b
      <4>4. /\ b.items = a.items /\ b.seq = a.seq /\ b.size = a.size /\ b.control = a.control
            /\ (attached[w] # 0 => b.exited = TRUE)
        BY <4>1, <4>2, <4>3 DEF Screens
      <4>5. attached'[w] # 0 => b.exited = (state' = "exited")
        BY <3>1, <4>4
      <4>. QED  BY <3>1, <4>1, <4>4, <4>5 DEF UpToDate, a, b
    <3>. QED  BY <2>0, <3>3, <3>4 DEF WatcherExact
  <2>4. CASE PumpTop \/ PumpReceive \/ PumpQuiet \/ PumpDrained \/ PumpBusy \/ PumpReply \/ PumpClose
             \/ PumpEvent \/ Tick
    <3>1. UNCHANGED <<terminal, seq, size, replay, sinks, nextAttachment, attached, screen, announced, state>>
      BY <2>4 DEF PumpTop, PumpReceive, PumpQuiet, PumpDrained, PumpBusy, PumpReply, PumpClose, PumpEvent, Tick
    <3>. QED  BY <1>2, <2>0, <3>1
  <2>. QED  BY <1>8, <2>0, <2>1, <2>2, <2>3, <2>4 DEF PumpStep
<1>9. CASE UNCHANGED vars
  BY <1>2, <1>9 DEF TypeOK
<1>. QED  BY <1>3, <1>4, <1>5, <1>6, <1>7, <1>8, <1>9 DEF Next

\* Where a session starts, every numbered viewer is up to date.
LEMMA InitExact == ASSUME Init PROVE StreamInv /\ WatcherExact
<1>1. TypeOK
  BY InitType
<1>2. /\ seq = 0 /\ terminal = <<>> /\ size = InitSize /\ sinks = {} /\ replay.on = FALSE
      /\ attached = [v \in Viewers |-> 0] /\ screen = [w \in Watchers |-> NoScreen]
  BY DEF Init
<1>3. Len(<<>>) = 0 /\ SizeAfter(<<>>, InitSize) = InitSize /\ SubSeq(<<>>, 1, 0) = <<>>
  BY DEF SizeAfter
<1>4. StreamInv
  BY <1>2, <1>3 DEF StreamInv
<1>5. \A w \in Watchers : screen[w] = NoScreen /\ attached[w] = 0
  BY <1>2 DEF Viewers
<1>6. UpToDate(NoScreen, <<>>)
  BY <1>3 DEF UpToDate, NoScreen
<1>. QED  BY <1>2, <1>4, <1>5, <1>6 DEF WatcherExact

\* Every variable of a session always has its type, and with it everything WatcherExact rests on.
THEOREM Exactness == Spec => [](TypeOK /\ StreamInv /\ WatcherExact)
<1>1. Init => TypeOK /\ StreamInv /\ WatcherExact
  BY InitType, InitExact
<1>2. TypeOK /\ StreamInv /\ WatcherExact /\ [Next]_vars => (TypeOK /\ StreamInv /\ WatcherExact)'
  BY ExactStep
<1>. QED  BY <1>1, <1>2, PTL DEF Spec

\* Every variable of a session always has its type.
THEOREM TypesHold == Spec => []TypeOK
BY Exactness, PTL

\* A numbered viewer always shows exactly the stream up to the item it has reached, whatever
\* was evicted from the replay, cut off, resumed or started afresh (Session::attach_numbered,
\* Session::deliver, Replay::push, Replay::since).
THEOREM ViewersExact == Spec => []WatcherExact
BY Exactness, PTL

(***************************************************************************)
(* Leases: one that is lost stays lost.                                    *)
(***************************************************************************)

\* Whether a lease that is in force in control state d was in force in c
Continues(c, d) ==
    d.who \in Holders /\ d.left > 0 => c.who = d.who /\ c.id = d.id /\ c.left > 0

\* No method of Control but acquire puts a lease in force that was not.
LEMMA MethodsContinue ==
    ASSUME NEW c \in ControlStates
    PROVE  /\ Continues(c, c) /\ Continues(c, Lapse(c)) /\ Continues(c, Aged(c))
           /\ Continues(c, Lapse(LocalInput(c)))
           /\ \A ref : Continues(c, Lapse(Renew(c, ref))) /\ Continues(c, Lapse(Release(c, ref)))
           /\ \A ref : \A n \in Nat : Continues(c, Lapse(Input(c, ref, n)))
<1>0. Lapse(c) \in ControlStates /\ "nobody" \notin Holders /\ "local" \notin Holders
  BY ControlTypes, HoldersAssumption
<1>1. Continues(c, c) /\ Continues(c, Lapse(c)) /\ Continues(c, Aged(c))
  BY <1>0 DEF Continues, Lapse, GivenUp, Aged, ControlStates
<1>2. Continues(c, Lapse(LocalInput(c)))
  BY <1>0 DEF Continues, Lapse, LocalInput, GivenUp
<1>3. ASSUME NEW ref PROVE Continues(c, Lapse(Renew(c, ref))) /\ Continues(c, Lapse(Release(c, ref)))
  <2>1. CASE Check(c, ref)
    <3>1. c.who \in Holders /\ c.left # 0 /\ Lapse(c) = c
      BY <1>0, <2>1 DEF Check, Leased, Controller, Lapse, GivenUp
    <3>2. Renew(c, ref) = [c EXCEPT !.left = LeaseTtl] /\ Release(c, ref) = GivenUp(c)
      BY <2>1, <3>1 DEF Renew, Release
    <3>3. Continues(c, Lapse(Release(c, ref)))
      BY <1>0, <3>2 DEF Continues, Lapse, GivenUp
    <3>4. Continues(c, Lapse(Renew(c, ref)))
      <4>1. [c EXCEPT !.left = LeaseTtl].who = c.who /\ [c EXCEPT !.left = LeaseTtl].id = c.id
            /\ [c EXCEPT !.left = LeaseTtl].left = LeaseTtl
        BY DEF ControlStates
      <4>2. c.left > 0 /\ LeaseTtl # 0
        BY <3>1, HoldsAssumption DEF ControlStates
      <4>. QED  BY <3>2, <4>1, <4>2 DEF Continues, Lapse
    <3>. QED  BY <3>3, <3>4
  <2>2. CASE ~ Check(c, ref)
    <3>1. Renew(c, ref) = Lapse(c) /\ Release(c, ref) = Lapse(c) /\ Lapse(Lapse(c)) = Lapse(c)
      BY <2>2, ControlTypes DEF Renew, Release
    <3>. QED  BY <1>1, <3>1
  <2>. QED  BY <2>1, <2>2
<1>4. ASSUME NEW ref, NEW n \in Nat PROVE Continues(c, Lapse(Input(c, ref, n)))
  <2> DEFINE l == Lapse(c)
             d == Input(c, ref, n)
  <2>1. l \in ControlStates /\ d \in {l, [l EXCEPT !.input = n]}
    BY <1>0 DEF Input
  <2>2. d.who = l.who /\ d.left = l.left /\ d.id = l.id
    BY <2>1 DEF ControlStates
  <2>3. Lapse(l) = l
    BY ControlTypes
  <2> HIDE DEF l, d
  <2>4. Continues(l, Lapse(d))
    BY <1>0, <2>1, <2>2, <2>3 DEF Continues, Lapse, GivenUp, ControlStates
  <2>5. Continues(c, l)
    BY <1>1 DEF l
  <2>. QED  BY <2>1, <2>4, <2>5 DEF Continues, d
<1>. QED  BY <1>1, <1>2, <1>3, <1>4

\* Every step of a session continues the lease in force, ends it, or hands out a fresh one.
LEMMA ControlContinues ==
    ASSUME TypeOK, [Next]_vars
    PROVE  \/ Continues(control, control') /\ granted' = granted
           \/ /\ control' = Lapse(Acquired(control, control'.who, Len(granted) + 1))
              /\ \E g : granted' = Append(granted, g)
<1>0. control \in ControlStates
  BY DEF TypeOK
<1>1. ASSUME control' = control, granted' = granted
      PROVE  Continues(control, control') /\ granted' = granted
  BY <1>0, <1>1, MethodsContinue
<1>2. CASE LocalStep
  <2>1. ASSUME NEW p \in Locals, TakeLocalControl(p) PROVE Continues(control, control') /\ granted' = granted
    <3>1. control' = Lapse(LocalInput(control)) /\ granted' = granted
      BY <2>1 DEF TakeLocalControl, Controlling
    <3>. QED  BY <1>0, <3>1, MethodsContinue
  <2>2. ASSUME NEW p \in Locals, NEW data \in LocalData, LocalWrite(p, data)
        PROVE  Continues(control, control') /\ granted' = granted
    BY <1>0, <2>2, MethodsContinue DEF LocalWrite
  <2>3. ASSUME control' = Lapse(control), granted' = granted
        PROVE  Continues(control, control') /\ granted' = granted
    BY <1>0, <2>3, MethodsContinue
  <2>4. ASSUME NEW p \in Automations, Unattended(p) PROVE Continues(control, control') /\ granted' = granted
    BY <2>3, <2>4 DEF Unattended, Controlling
  <2>5. ASSUME NEW s \in Sizes, Resize(s) PROVE Continues(control, control') /\ granted' = granted
    BY <2>3, <2>5 DEF Resize, Controlling
  <2>6. ASSUME AskController PROVE Continues(control, control') /\ granted' = granted
    BY <2>3, <2>6 DEF AskController, Controlling
  <2>. QED  BY <1>2, <2>1, <2>2, <2>4, <2>5, <2>6 DEF LocalStep
<1>3. CASE LeaseStep
  <2>1. PICK h \in Holders :
        \/ \E takeOver \in BOOLEAN : Acquire(h, takeOver)
        \/ \E i \in DOMAIN granted :
              \/ RenewLease(h, i)
              \/ ReleaseLease(h, i)
              \/ \E n \in 1 .. MaxInput : LeaseInput(h, i, n)
              \/ \E s \in Sizes : ResizeLeased(h, i, s)
    BY <1>3 DEF LeaseStep
  <2>2. ASSUME NEW takeOver \in BOOLEAN, Acquire(h, takeOver)
        PROVE  \/ Continues(control, control') /\ granted' = granted
               \/ /\ control' = Lapse(Acquired(control, control'.who, Len(granted) + 1))
                  /\ \E g : granted' = Append(granted, g)
    <3>1. CASE state = "exited" \/ ~ MayAcquire(control, h, takeOver)
      <4>1. control' = Lapse(control) /\ granted' = granted
        BY <2>2, <3>1 DEF Acquire, Controlling
      <4>. QED  BY <1>0, <4>1, MethodsContinue
    <3>2. CASE ~ (state = "exited" \/ ~ MayAcquire(control, h, takeOver))
      <4> DEFINE a == Acquired(control, h, Len(granted) + 1)
      <4>1. control' = Lapse(a) /\ \E g : granted' = Append(granted, g)
        BY <2>2, <3>2 DEF Acquire, Controlling
      <4>2. a.who = h /\ a.left = LeaseTtl
        BY DEF Acquired
      <4> HIDE DEF a
      <4>3. Lapse(a) = a
        BY <4>2, HoldsAssumption DEF Lapse
      <4>. QED  BY <4>1, <4>2, <4>3 DEF a
    <3>. QED  BY <3>1, <3>2
  <2>3. ASSUME NEW i \in DOMAIN granted, RenewLease(h, i) PROVE Continues(control, control') /\ granted' = granted
    <3>1. control' = Lapse(Renew(control, LeaseRef(i))) /\ granted' = granted
      BY <2>3 DEF RenewLease, Controlling
    <3>. QED  BY <1>0, <3>1, MethodsContinue
  <2>4. ASSUME NEW i \in DOMAIN granted, ReleaseLease(h, i) PROVE Continues(control, control') /\ granted' = granted
    <3>1. control' = Lapse(Release(control, LeaseRef(i))) /\ granted' = granted
      BY <2>4 DEF ReleaseLease, Controlling
    <3>. QED  BY <1>0, <3>1, MethodsContinue
  <2>5. ASSUME NEW i \in DOMAIN granted, NEW n \in 1 .. MaxInput, LeaseInput(h, i, n)
        PROVE  Continues(control, control') /\ granted' = granted
    <3>1. MaxInput \in Nat
      BY SessionAssumption
    <3>2. n \in Nat
      BY <3>1
    <3>3. control' = Lapse(Input(control, LeaseRef(i), n)) /\ granted' = granted
      BY <2>5 DEF LeaseInput, Controlling
    <3>. QED  BY <1>0, <3>2, <3>3, MethodsContinue
  <2>6. ASSUME NEW i \in DOMAIN granted, NEW s \in Sizes, ResizeLeased(h, i, s)
        PROVE  Continues(control, control') /\ granted' = granted
    <3>1. control' = Lapse(control) /\ granted' = granted
      BY <2>6 DEF ResizeLeased, Controlling
    <3>. QED  BY <1>0, <3>1, MethodsContinue
  <2>. QED  BY <2>1, <2>2, <2>3, <2>4, <2>5, <2>6
<1>4. CASE ViewerStep
  <2>1. granted' = granted /\ (control' = control \/ control' = Lapse(control))
    BY <1>4 DEF ViewerStep, AttachTerminal, AttachWatcher, Detach, Drop
  <2>. QED  BY <1>0, <2>1, MethodsContinue
<1>5. CASE WriteStep \/ ProgramStep \/ WaiterStep \/ ReaderStep
  <2>1. control' = control /\ granted' = granted
    BY <1>5 DEF WriteStep, Write, ProgramStep, WaiterStep, ReaderStep, PrintChunk, ChildEnds, GrandchildEnds
  <2>. QED  BY <1>1, <2>1
<1>6. CASE PumpStep
  <2>1. granted' = granted /\ (control' = control \/ control' = Lapse(control))
    <3>1. CASE PumpDeliver
      BY <3>1 DEF PumpDeliver
    <3>2. CASE PumpLapse
      BY <3>2 DEF PumpLapse, Controlling
    <3>3. CASE PumpTop \/ PumpReceive \/ PumpQuiet \/ PumpDrained \/ PumpBusy \/ PumpReply \/ PumpClose
               \/ PumpExit \/ PumpEvent
      BY <3>3 DEF PumpTop, PumpReceive, PumpQuiet, PumpDrained, PumpBusy, PumpReply, PumpClose,
                  PumpExit, PumpEvent
    <3>. QED  BY <1>6, <3>1, <3>2, <3>3 DEF PumpStep
  <2>. QED  BY <1>0, <2>1, MethodsContinue
<1>7. CASE Tick
  <2>1. control' = Aged(control) /\ granted' = granted
    BY <1>7 DEF Tick
  <2>. QED  BY <1>0, <2>1, MethodsContinue
<1>8. CASE UNCHANGED vars
  BY <1>1, <1>8
<1>. QED  BY <1>2, <1>3, <1>4, <1>5, <1>6, <1>7, <1>8 DEF Next

\* No step brings back a lease that is no longer in force.
LEMMA LostStaysLostStep ==
    ASSUME TypeOK, [Next]_vars, NEW i \in DOMAIN granted, InForce(i)'
    PROVE  InForce(i)
<1>1. granted \in Seq([generation: Nat, holder: Holders])
  BY DEF TypeOK
<1>2. i \in 1 .. Len(granted) /\ granted[i].holder \in Holders /\ Len(granted) \in Nat
  <2>1. i \in 1 .. Len(granted) /\ granted[i] \in [generation: Nat, holder: Holders] /\ Len(granted) \in Nat
    BY <1>1, ElementType
  <2>. QED  BY <2>1
<1>3. control'.who = granted'[i].holder /\ control'.id = i /\ control'.left > 0
  BY DEF InForce
<1>4. CASE Continues(control, control') /\ granted' = granted
  BY <1>2, <1>3, <1>4 DEF Continues, InForce
<1>5. CASE /\ control' = Lapse(Acquired(control, control'.who, Len(granted) + 1))
           /\ \E g : granted' = Append(granted, g)
  <2> DEFINE a == Acquired(control, control'.who, Len(granted) + 1)
  <2>1. a.id = Len(granted) + 1
    BY DEF Acquired
  <2>2. control' = Lapse(a)
    BY <1>5
  <2> HIDE DEF a
  <2>3. control'.id \in {Len(granted) + 1, 0}
    BY <2>1, <2>2 DEF Lapse, GivenUp
  <2>. QED  BY <1>2, <1>3, <2>3
<1>. QED  BY <1>4, <1>5, ControlContinues

\* A lease that is no longer in force never is again, whatever calls, lapses and take-overs come
\* (control.rs: every hand-over bumps the generation and drops the lease's id).
THEOREM LeasesStayLost == Spec => LostLeaseStaysLost
<1>1. TypeOK /\ [Next]_vars => [\A i \in DOMAIN granted : ~ InForce(i) => ~ InForce(i)']_vars
  BY LostStaysLostStep
<1>. QED  BY <1>1, TypesHold, PTL DEF Spec, LostLeaseStaysLost

(***************************************************************************)
(* Input under leases: written in order, without a gap or a repeat.        *)
(***************************************************************************)

\* The numbers of the inputs that were written under a lease.
Under(ws, l) == {ws[j].n : j \in {k \in DOMAIN ws : ws[k].lease = l}}

\* How the i-th lease that was handed out is called.
Called(g, i) == [id |-> i, generation |-> g[i].generation]

\* The leases g that were handed out, the control state c, the calls that were let through and the inputs
\* that were written go together.
InputsFit(g, c, calls, ws) ==
    \* An input that was let through is under a lease of its caller, and all before it are written.
    /\ \A p \in Callers : calls[p].step = "input" =>
          \E i \in DOMAIN g :
             /\ g[i].holder = p /\ calls[p].lease = Called(g, i)
             /\ calls[p].n > 0 /\ Under(ws, Called(g, i)) = 1 .. calls[p].n - 1
    \* Under the lease that control knows of, all inputs it has counted are written, or all but the
    \* one its holder is about to write.
    /\ c.who \in Holders =>
          /\ c.id \in DOMAIN g
          /\ g[c.id] = [generation |-> c.generation, holder |-> c.who]
          /\ IF calls[c.who].step = "input" /\ calls[c.who].lease = Called(g, c.id)
             THEN calls[c.who].n = c.input
             ELSE Under(ws, Called(g, c.id)) = 1 .. c.input
    /\ \A j \in DOMAIN ws : \E i \in DOMAIN g : ws[j].lease = Called(g, i)

\* They do for as long as the write side is open.
InputInv == ioOpen => InputsFit(granted, control, pending, written)

\* Whether a lease that control knows of in d is the one it knew of in c, with as many inputs.
SameLease(c, d) ==
    d.who \in Holders => c.who = d.who /\ c.id = d.id /\ c.generation = d.generation /\ c.input = d.input

\* No method of Control but acquire and input brings a lease or an input to it.
LEMMA MethodsKeepLease ==
    ASSUME NEW c \in ControlStates
    PROVE  /\ SameLease(c, c) /\ SameLease(c, Lapse(c)) /\ SameLease(c, Aged(c))
           /\ SameLease(c, Lapse(LocalInput(c)))
           /\ \A ref : SameLease(c, Lapse(Renew(c, ref))) /\ SameLease(c, Lapse(Release(c, ref)))
           /\ \A ref, n : Delivery(c, ref, n) # "fresh" => SameLease(c, Lapse(Input(c, ref, n)))
<1>0. /\ Lapse(c) \in ControlStates /\ "nobody" \notin Holders /\ "local" \notin Holders
      /\ Lapse(Lapse(c)) = Lapse(c)
  BY ControlTypes, HoldersAssumption
<1>1. SameLease(c, c) /\ SameLease(c, Lapse(c)) /\ SameLease(c, Aged(c))
  BY <1>0 DEF SameLease, Lapse, GivenUp, Aged, ControlStates
<1>2. SameLease(c, Lapse(LocalInput(c)))
  BY <1>0 DEF SameLease, Lapse, LocalInput, GivenUp
<1>3. ASSUME NEW ref PROVE SameLease(c, Lapse(Renew(c, ref))) /\ SameLease(c, Lapse(Release(c, ref)))
  <2>1. CASE Check(c, ref)
    <3>1. Lapse(c) = c
      BY <1>0, <2>1 DEF Check, Leased, Controller, Lapse, GivenUp
    <3>2. Renew(c, ref) = [c EXCEPT !.left = LeaseTtl] /\ Release(c, ref) = GivenUp(c)
      BY <2>1, <3>1 DEF Renew, Release
    <3>3. SameLease(c, Lapse(Release(c, ref)))
      BY <1>0, <3>2 DEF SameLease, Lapse, GivenUp
    <3>. DEFINE d == [c EXCEPT !.left = LeaseTtl]
    <3>4. d.who = c.who /\ d.id = c.id /\ d.left = LeaseTtl /\ d.generation = c.generation /\ d.input = c.input
      BY DEF ControlStates
    <3>. HIDE DEF d
    <3>5. Lapse(d) = d
      BY <3>4, HoldsAssumption DEF Lapse
    <3>. QED  BY <3>2, <3>3, <3>4, <3>5 DEF SameLease, d
  <2>2. CASE ~ Check(c, ref)
    <3>1. Renew(c, ref) = Lapse(c) /\ Release(c, ref) = Lapse(c)
      BY <2>2 DEF Renew, Release
    <3>. QED  BY <1>0, <1>1, <3>1
  <2>. QED  BY <2>1, <2>2
<1>4. ASSUME NEW ref, NEW n, Delivery(c, ref, n) # "fresh" PROVE SameLease(c, Lapse(Input(c, ref, n)))
  BY <1>0, <1>1, <1>4 DEF Input
<1>. QED  BY <1>1, <1>2, <1>3, <1>4

\* The input that is let through is the next one under the lease in force.
LEMMA FreshInput ==
    ASSUME NEW c \in ControlStates, NEW ref, NEW n \in Nat, Delivery(c, ref, n) = "fresh"
    PROVE  /\ c.who \in Holders /\ c.id = ref.id /\ c.generation = ref.generation /\ n = c.input + 1
           /\ Lapse(Input(c, ref, n)) = [c EXCEPT !.input = n]
<1>0. "nobody" \notin Holders /\ "local" \notin Holders
  BY HoldersAssumption
<1>1. Check(c, ref)
  BY DEF Delivery
<1>2. Lapse(c) = c /\ c.who \in Holders /\ c.left # 0 /\ c.id = ref.id /\ c.generation = ref.generation
  BY <1>0, <1>1 DEF Check, Leased, Controller, Lapse, GivenUp
<1>3. ~ (n <= c.input) /\ ~ (n > c.input + 1)
  BY <1>1, <1>2 DEF Delivery
<1>4. n = c.input + 1
  BY <1>3 DEF ControlStates
<1>. DEFINE d == [c EXCEPT !.input = n]
<1>5. Input(c, ref, n) = d
  BY <1>2 DEF Input
<1>6. d.left = c.left
  BY DEF ControlStates
<1>. HIDE DEF d
<1>7. Lapse(d) = d
  BY <1>2, <1>6 DEF Lapse
<1>. QED  BY <1>2, <1>4, <1>5, <1>7 DEF d

\* What a step does to leases and to input under them: nothing; or it ends the lease that control
\* knows of or the write side; or it hands out a lease, lets the next input through, or writes one.
LEMMA InputSteps ==
    ASSUME TypeOK, [Next]_vars
    PROVE  \/ /\ written' = written /\ granted' = granted /\ SameLease(control, control')
              /\ ioOpen' = ioOpen \/ ioOpen' = FALSE
              /\ \A p \in Callers : pending'[p] = pending[p]
                                    \/ (pending[p].step # "input" /\ pending'[p].step # "input")
           \/ /\ \E h \in Holders : LET g == [generation |-> control'.generation, holder |-> h] IN
                    /\ granted' = Append(granted, g) /\ control'.who = h /\ control'.input = 0
                    /\ control'.id = Len(granted) + 1
              /\ UNCHANGED <<written, ioOpen, pending>>
           \/ \E h \in Holders, i \in DOMAIN granted, n \in 1 .. MaxInput :
                    /\ pending[h].step # "input" /\ granted[i].holder = h
                    /\ Delivery(control, LeaseRef(i), n) = "fresh"
                    /\ control' = Lapse(Input(control, LeaseRef(i), n))
                    /\ pending' = [pending EXCEPT ![h] = WritingInput(LeaseRef(i), n)]
                    /\ UNCHANGED <<written, ioOpen, granted>>
           \/ \E p \in Callers :
                    /\ pending[p].step = "input" /\ pending' = [pending EXCEPT ![p] = Idle]
                    /\ written' = IF ioOpen THEN Append(written, [lease |-> pending[p].lease, n |-> pending[p].n])
                                  ELSE written
                    /\ UNCHANGED <<granted, control, ioOpen>>
<1>. DEFINE Nothing == /\ written' = written /\ granted' = granted /\ SameLease(control, control')
                       /\ ioOpen' = ioOpen \/ ioOpen' = FALSE
                       /\ \A p \in Callers : pending'[p] = pending[p]
                                             \/ (pending[p].step # "input" /\ pending'[p].step # "input")
<1>0. control \in ControlStates /\ pending \in [Callers -> Calls] /\ Locals \subseteq Callers
      /\ Automations \subseteq Callers /\ Holders \subseteq Callers
  BY DEF TypeOK, Callers
<1>1. ASSUME UNCHANGED <<written, granted, ioOpen, pending>>, control' = control \/ control' = Lapse(control)
             \/ control' = Aged(control)
      PROVE  Nothing
  <2>1. SameLease(control, control) /\ SameLease(control, Lapse(control)) /\ SameLease(control, Aged(control))
    BY <1>0, MethodsKeepLease
  <2>2. SameLease(control, control')
    BY <1>1, <2>1
  <2>. QED  BY <1>1, <2>2
\* A call of somebody whose call is no input, which becomes none.
<1>2. ASSUME UNCHANGED <<written, granted, ioOpen>>, SameLease(control, control'),
             NEW p \in Callers, pending[p].step # "input", NEW x, x.step # "input",
             pending' = [pending EXCEPT ![p] = x]
      PROVE  Nothing
  <2>1. \A q \in Callers : pending'[q] = IF q = p THEN x ELSE pending[q]
    BY <1>0, <1>2
  <2>2. ASSUME NEW q \in Callers
        PROVE  pending'[q] = pending[q] \/ (pending[q].step # "input" /\ pending'[q].step # "input")
    <3>1. CASE q = p
      <4>1. pending'[p] = x
        BY <2>1
      <4>. QED  BY <1>2, <3>1, <4>1
    <3>2. CASE q # p
      BY <2>1, <3>2
    <3>. QED  BY <3>1, <3>2
  <2>. QED  BY <1>2, <2>2
<1>3. Idle.step = "idle" /\ Typing.step = "typing" /\ Writing.step = "write"
  BY DEF Idle, Typing, Writing
<1>4. CASE LocalStep
  <2>1. ASSUME NEW p \in Locals, TakeLocalControl(p) PROVE Nothing
    <3>1. control' = Lapse(LocalInput(control))
      BY <2>1 DEF TakeLocalControl, Controlling
    <3>2. SameLease(control, control')
      BY <1>0, <3>1, MethodsKeepLease
    <3>3. pending[p].step # "input" /\ UNCHANGED <<written, granted, ioOpen>>
          /\ \E x \in {Idle, Writing} : pending' = [pending EXCEPT ![p] = x]
      BY <1>3, <2>1 DEF TakeLocalControl, UnchangedByCalls
    <3>. QED  BY <1>0, <1>2, <1>3, <3>2, <3>3
  <2>2. ASSUME NEW p \in Locals, NEW data \in LocalData, LocalWrite(p, data) PROVE Nothing
    <3>1. pending[p].step # "input" /\ UNCHANGED <<written, granted, ioOpen>>
          /\ \E x \in {Typing, Writing} : pending' = [pending EXCEPT ![p] = x]
          /\ (control' = control \/ control' = Lapse(control))
      BY <1>3, <2>2 DEF LocalWrite
    <3>2. SameLease(control, control')
      BY <1>0, <3>1, MethodsKeepLease
    <3>. QED  BY <1>0, <1>2, <1>3, <3>1, <3>2
  <2>3. ASSUME NEW p \in Automations, Unattended(p) PROVE Nothing
    <3>1. pending[p].step # "input" /\ UNCHANGED <<written, granted, ioOpen>> /\ control' = Lapse(control)
          /\ \E x \in {Idle, Writing} : pending' = [pending EXCEPT ![p] = x]
      BY <1>3, <2>3 DEF Unattended, Controlling, UnchangedByCalls
    <3>2. SameLease(control, control')
      BY <1>0, <3>1, MethodsKeepLease
    <3>. QED  BY <1>0, <1>2, <1>3, <3>1, <3>2
  <2>4. ASSUME NEW s \in Sizes, Resize(s) PROVE Nothing
    BY <1>1, <2>4 DEF Resize, Controlling, UnchangedByCalls
  <2>5. ASSUME AskController PROVE Nothing
    BY <1>1, <2>5 DEF AskController, Controlling, UnchangedByCalls
  <2>. QED  BY <1>4, <2>1, <2>2, <2>3, <2>4, <2>5 DEF LocalStep
<1>5. CASE LeaseStep
  <2>1. PICK h \in Holders :
        \/ \E takeOver \in BOOLEAN : Acquire(h, takeOver)
        \/ \E i \in DOMAIN granted :
              \/ RenewLease(h, i)
              \/ ReleaseLease(h, i)
              \/ \E n \in 1 .. MaxInput : LeaseInput(h, i, n)
              \/ \E s \in Sizes : ResizeLeased(h, i, s)
    BY <1>5 DEF LeaseStep
  <2>2. ASSUME NEW takeOver \in BOOLEAN, Acquire(h, takeOver)
        PROVE  \/ Nothing
               \/ /\ LET g == [generation |-> control'.generation, holder |-> h] IN
                        /\ granted' = Append(granted, g) /\ control'.who = h /\ control'.input = 0
                        /\ control'.id = Len(granted) + 1
                  /\ UNCHANGED <<written, ioOpen, pending>>
    <3>1. CASE state = "exited" \/ ~ MayAcquire(control, h, takeOver)
      BY <1>1, <2>2, <3>1 DEF Acquire, Controlling, UnchangedByCalls
    <3>2. CASE ~ (state = "exited" \/ ~ MayAcquire(control, h, takeOver))
      <4> DEFINE a == Acquired(control, h, Len(granted) + 1)
      <4>1. /\ control' = Lapse(a) /\ UNCHANGED <<written, ioOpen, pending>>
            /\ granted' = Append(granted, [generation |-> Lapse(control).generation + 1, holder |-> h])
        BY <2>2, <3>2 DEF Acquire, Controlling, UnchangedByCalls
      <4>2. /\ a.who = h /\ a.left = LeaseTtl /\ a.input = 0 /\ a.id = Len(granted) + 1
            /\ a.generation = Lapse(control).generation + 1
        BY DEF Acquired
      <4> HIDE DEF a
      <4>3. Lapse(a) = a
        BY <4>2, HoldsAssumption DEF Lapse
      <4>. QED  BY <4>1, <4>2, <4>3
    <3>. QED  BY <3>1, <3>2
  <2>3. ASSUME NEW i \in DOMAIN granted, RenewLease(h, i) \/ ReleaseLease(h, i) PROVE Nothing
    <3>1. UNCHANGED <<written, granted, ioOpen, pending>>
          /\ (control' = Lapse(Renew(control, LeaseRef(i))) \/ control' = Lapse(Release(control, LeaseRef(i))))
      BY <2>3 DEF RenewLease, ReleaseLease, Controlling, UnchangedByCalls
    <3>2. \A ref : SameLease(control, Lapse(Renew(control, ref))) /\ SameLease(control, Lapse(Release(control, ref)))
      BY <1>0, MethodsKeepLease
    <3>3. SameLease(control, control')
      BY <3>1, <3>2
    <3>. QED  BY <3>1, <3>3
  <2>4. ASSUME NEW i \in DOMAIN granted, NEW s \in Sizes, ResizeLeased(h, i, s) PROVE Nothing
    BY <1>1, <2>4 DEF ResizeLeased, Controlling, UnchangedByCalls
  <2>5. ASSUME NEW i \in DOMAIN granted, NEW n \in 1 .. MaxInput, LeaseInput(h, i, n)
        PROVE  \/ Nothing
               \/ /\ pending[h].step # "input" /\ granted[i].holder = h
                  /\ Delivery(control, LeaseRef(i), n) = "fresh"
                  /\ control' = Lapse(Input(control, LeaseRef(i), n))
                  /\ pending' = [pending EXCEPT ![h] = WritingInput(LeaseRef(i), n)]
                  /\ UNCHANGED <<written, ioOpen, granted>>
    <3>1. /\ pending[h].step # "input" /\ granted[i].holder = h
          /\ control' = Lapse(Input(control, LeaseRef(i), n))
          /\ pending' = [pending EXCEPT ![h] = IF Delivery(control, LeaseRef(i), n) = "fresh"
                                               THEN WritingInput(LeaseRef(i), n) ELSE Idle]
          /\ UNCHANGED <<written, ioOpen, granted>>
      BY <1>3, <2>5 DEF LeaseInput, Controlling, UnchangedByCalls
    <3>2. CASE Delivery(control, LeaseRef(i), n) = "fresh"
      BY <3>1, <3>2
    <3>3. CASE Delivery(control, LeaseRef(i), n) # "fresh"
      <4>1. SameLease(control, control')
        BY <1>0, <3>1, <3>3, MethodsKeepLease
      <4>2. pending' = [pending EXCEPT ![h] = Idle]
        BY <3>1, <3>3
      <4>. QED  BY <1>0, <1>2, <1>3, <3>1, <4>1, <4>2
    <3>. QED  BY <3>2, <3>3
  <2>. QED  BY <2>1, <2>2, <2>3, <2>4, <2>5
<1>6. CASE ViewerStep
  <2>1. UNCHANGED <<written, granted, ioOpen, pending>> /\ (control' = control \/ control' = Lapse(control))
    BY <1>6 DEF ViewerStep, AttachTerminal, AttachWatcher, Detach, Drop
  <2>. QED  BY <1>1, <2>1
<1>7. CASE WriteStep
  <2>1. PICK p \in Callers : Write(p)
    BY <1>7 DEF WriteStep
  <2>2. UNCHANGED <<granted, control, ioOpen>> /\ pending' = [pending EXCEPT ![p] = Idle]
    BY <2>1 DEF Write
  <2>3. CASE pending[p].step = "input"
    BY <2>1, <2>2, <2>3 DEF Write
  <2>4. CASE pending[p].step # "input"
    <3>1. written' = written /\ SameLease(control, control')
      BY <1>0, <2>1, <2>2, <2>4, MethodsKeepLease DEF Write
    <3>. QED  BY <1>2, <1>3, <2>2, <2>4, <3>1
  <2>. QED  BY <2>3, <2>4
<1>8. CASE ProgramStep \/ WaiterStep \/ ReaderStep
  <2>1. UNCHANGED <<written, granted, ioOpen, pending, control>>
    BY <1>8 DEF ProgramStep, WaiterStep, ReaderStep, PrintChunk, ChildEnds, GrandchildEnds
  <2>. QED  BY <1>1, <2>1
<1>9. CASE PumpStep
  <2>1. CASE PumpDeliver
    BY <1>1, <2>1 DEF PumpDeliver
  <2>2. CASE PumpLapse
    BY <1>1, <2>2 DEF PumpLapse, Controlling
  <2>3. CASE PumpTop \/ PumpReceive \/ PumpQuiet \/ PumpDrained \/ PumpBusy \/ PumpReply \/ PumpExit \/ PumpEvent
    <3>1. UNCHANGED <<written, granted, ioOpen, pending, control>>
      BY <2>3 DEF PumpTop, PumpReceive, PumpQuiet, PumpDrained, PumpBusy, PumpReply, PumpExit, PumpEvent
    <3>. QED  BY <1>1, <3>1
  <2>4. CASE PumpClose
    <3>1. UNCHANGED <<written, granted, pending, control>> /\ ioOpen' = FALSE
      BY <2>4 DEF PumpClose
    <3>2. SameLease(control, control)
      BY <1>0, MethodsKeepLease
    <3>. QED  BY <3>1, <3>2
  <2>. QED  BY <1>9, <2>1, <2>2, <2>3, <2>4 DEF PumpStep
<1>10. CASE Tick \/ UNCHANGED vars
  BY <1>1, <1>10 DEF Tick
<1>. QED  BY <1>4, <1>5, <1>6, <1>7, <1>8, <1>9, <1>10 DEF Next

\* No two leases are called the same.
LEMMA CalledIs ==
    ASSUME NEW g, NEW i, NEW j, Called(g, i) = Called(g, j)
    PROVE  i = j
<1>1. Called(g, i).id = i /\ Called(g, j).id = j
  BY DEF Called
<1>. QED  BY <1>1

\* A call or a lapse that lets no input through and hands out no lease.
LEMMA FitsOn ==
    ASSUME NEW g, NEW c, NEW calls, NEW ws, InputsFit(g, c, calls, ws),
           NEW d, SameLease(c, d), NEW next, Holders \subseteq Callers,
           \A p \in Callers : next[p] = calls[p] \/ (calls[p].step # "input" /\ next[p].step # "input")
    PROVE  InputsFit(g, d, next, ws)
<1>1. ASSUME NEW p \in Callers, next[p].step = "input" PROVE next[p] = calls[p] /\ calls[p].step = "input"
  BY <1>1
<1>2. \A p \in Callers : next[p].step = "input" =>
          \E i \in DOMAIN g :
             /\ g[i].holder = p /\ next[p].lease = Called(g, i)
             /\ next[p].n > 0 /\ Under(ws, Called(g, i)) = 1 .. next[p].n - 1
  BY <1>1 DEF InputsFit
<1>3. ASSUME d.who \in Holders
      PROVE  /\ d.id \in DOMAIN g
             /\ g[d.id] = [generation |-> d.generation, holder |-> d.who]
             /\ IF next[d.who].step = "input" /\ next[d.who].lease = Called(g, d.id)
                THEN next[d.who].n = d.input
                ELSE Under(ws, Called(g, d.id)) = 1 .. d.input
  <2>1. c.who = d.who /\ c.id = d.id /\ c.generation = d.generation /\ c.input = d.input
    BY <1>3 DEF SameLease
  <2>2. /\ d.id \in DOMAIN g
        /\ g[d.id] = [generation |-> d.generation, holder |-> d.who]
        /\ IF calls[d.who].step = "input" /\ calls[d.who].lease = Called(g, d.id)
           THEN calls[d.who].n = d.input
           ELSE Under(ws, Called(g, d.id)) = 1 .. d.input
    BY <1>3, <2>1 DEF InputsFit
  <2>3. next[d.who] = calls[d.who] \/ (calls[d.who].step # "input" /\ next[d.who].step # "input")
    BY <1>3
  <2>. QED  BY <2>2, <2>3
<1>. QED  BY <1>2, <1>3 DEF InputsFit

\* A lease is handed out.
LEMMA FitsAcquired ==
    ASSUME NEW S, NEW g \in Seq(S), NEW c, NEW calls, NEW ws, InputsFit(g, c, calls, ws),
           NEW d, d.who \in Holders, d.input = 0, d.id = Len(g) + 1, Holders \subseteq Callers,
           NEW new \in S, new = [generation |-> d.generation, holder |-> d.who]
    PROVE  InputsFit(Append(g, new), d, calls, ws)
<1>. DEFINE h == Append(g, new)
<1>1. /\ Len(g) \in Nat /\ DOMAIN g = 1 .. Len(g) /\ DOMAIN h = 1 .. Len(g) + 1
      /\ \A i \in DOMAIN g : i \in DOMAIN h /\ h[i] = g[i]
      /\ h[Len(g) + 1] = new
  OBVIOUS
<1>. HIDE DEF h
<1>2. \A i \in DOMAIN g : Called(h, i) = Called(g, i)
  BY <1>1 DEF Called
<1>3. ASSUME NEW p \in Callers, calls[p].step = "input"
      PROVE  \E i \in DOMAIN h :
                /\ h[i].holder = p /\ calls[p].lease = Called(h, i)
                /\ calls[p].n > 0 /\ Under(ws, Called(h, i)) = 1 .. calls[p].n - 1
  <2>1. PICK i \in DOMAIN g :
                /\ g[i].holder = p /\ calls[p].lease = Called(g, i)
                /\ calls[p].n > 0 /\ Under(ws, Called(g, i)) = 1 .. calls[p].n - 1
    BY <1>3 DEF InputsFit
  <2>. QED  BY <1>1, <1>2, <2>1
<1>4. \A j \in DOMAIN ws : \E i \in DOMAIN g : ws[j].lease = Called(h, i)
  BY <1>2 DEF InputsFit
<1>5. ASSUME NEW i \in DOMAIN g PROVE Called(h, i) # Called(h, d.id)
  BY <1>1, CalledIs
<1>6. Under(ws, Called(h, d.id)) = {}
  BY <1>4, <1>5 DEF Under
<1>7. calls[d.who].step = "input" => calls[d.who].lease # Called(h, d.id)
  <2>. SUFFICES ASSUME calls[d.who].step = "input" PROVE calls[d.who].lease # Called(h, d.id)
    OBVIOUS
  <2>1. PICK i \in DOMAIN g : calls[d.who].lease = Called(g, i)
    BY DEF InputsFit
  <2>. QED  BY <1>2, <1>5, <2>1
<1>8. d.id \in DOMAIN h /\ h[d.id] = [generation |-> d.generation, holder |-> d.who]
  BY <1>1
<1>9. \A j \in DOMAIN ws : \E i \in DOMAIN h : ws[j].lease = Called(h, i)
  BY <1>1, <1>4
<1>10. Under(ws, Called(h, d.id)) = 1 .. d.input
  BY <1>6
<1>11. InputsFit(h, d, calls, ws)
  BY <1>3, <1>7, <1>8, <1>9, <1>10 DEF InputsFit
<1>. QED  BY <1>11 DEF h

\* The next input under the lease in force is let through.
LEMMA FitsInput ==
    ASSUME NEW g, NEW c \in ControlStates, NEW calls \in [Callers -> Calls], NEW ws, InputsFit(g, c, calls, ws),
           NEW i \in DOMAIN g, NEW n \in Nat, Delivery(c, Called(g, i), n) = "fresh",
           NEW h, h = g[i].holder, calls[h].step # "input", Holders \subseteq Callers
    PROVE  InputsFit(g, Lapse(Input(c, Called(g, i), n)), [calls EXCEPT ![h] = WritingInput(Called(g, i), n)], ws)
<1>. DEFINE l == Called(g, i)
            next == [calls EXCEPT ![h] = WritingInput(l, n)]
            d == [c EXCEPT !.input = n]
<1>1. /\ c.who \in Holders /\ c.id = l.id /\ c.generation = l.generation /\ n = c.input + 1
      /\ Lapse(Input(c, l, n)) = d
  BY FreshInput
<1>2. d.who = c.who /\ d.id = c.id /\ d.generation = c.generation /\ d.input = n
  BY DEF ControlStates
<1>3. l.id = i /\ WritingInput(l, n).step = "input" /\ WritingInput(l, n).lease = l /\ WritingInput(l, n).n = n
  BY DEF Called, WritingInput
<1>4. /\ c.id = i /\ i \in DOMAIN g /\ g[i] = [generation |-> c.generation, holder |-> c.who] /\ h = c.who
  BY <1>1, <1>3 DEF InputsFit
<1>5. h \in Callers /\ next[h] = WritingInput(l, n) /\ \A p \in Callers : p # h => next[p] = calls[p]
  BY <1>1, <1>4
<1>6. Under(ws, l) = 1 .. c.input
  BY <1>1, <1>4 DEF InputsFit
<1>7. n > 0 /\ n - 1 = c.input
  BY <1>1 DEF ControlStates
<1>. HIDE DEF l, next, d
<1>8. ASSUME NEW p \in Callers, next[p].step = "input"
      PROVE  \E j \in DOMAIN g :
                /\ g[j].holder = p /\ next[p].lease = Called(g, j)
                /\ next[p].n > 0 /\ Under(ws, Called(g, j)) = 1 .. next[p].n - 1
  <2>1. CASE p = h
    <3>1. next[p].lease = Called(g, i) /\ next[p].n = n /\ Called(g, i) = l
      BY <1>3, <1>5, <2>1 DEF l
    <3>. QED  BY <1>4, <1>6, <1>7, <2>1, <3>1
  <2>2. CASE p # h
    BY <1>5, <1>8, <2>2 DEF InputsFit
  <2>. QED  BY <2>1, <2>2
<1>9. /\ d.who \in Holders /\ d.id \in DOMAIN g /\ g[d.id] = [generation |-> d.generation, holder |-> d.who]
      /\ next[d.who].n = d.input /\ next[d.who].step = "input" /\ next[d.who].lease = Called(g, d.id)
  BY <1>1, <1>2, <1>3, <1>4, <1>5 DEF l
<1>10. \A j \in DOMAIN ws : \E k \in DOMAIN g : ws[j].lease = Called(g, k)
  BY DEF InputsFit
<1>11. InputsFit(g, d, next, ws)
  BY <1>8, <1>9, <1>10 DEF InputsFit
<1>. QED  BY <1>1, <1>11 DEF l, next

\* An input is written.
LEMMA FitsWritten ==
    ASSUME NEW g, NEW c \in ControlStates, NEW calls \in [Callers -> Calls], NEW S, NEW ws \in Seq(S),
           InputsFit(g, c, calls, ws), NEW p \in Callers, calls[p].step = "input",
           NEW e \in S, e.lease = calls[p].lease, e.n = calls[p].n, Holders \subseteq Callers,
           calls[p].n \in Nat
    PROVE  InputsFit(g, c, [calls EXCEPT ![p] = Idle], Append(ws, e))
<1>. DEFINE next == [calls EXCEPT ![p] = Idle]
            all == Append(ws, e)
<1>1. PICK i \in DOMAIN g :
             /\ g[i].holder = p /\ calls[p].lease = Called(g, i)
             /\ calls[p].n > 0 /\ Under(ws, Called(g, i)) = 1 .. calls[p].n - 1
  BY DEF InputsFit
<1>2. next[p].step # "input" /\ \A q \in Callers : q # p => next[q] = calls[q]
  BY DEF Idle
<1>4. /\ Len(ws) \in Nat /\ DOMAIN all = 1 .. Len(ws) + 1 /\ DOMAIN ws = 1 .. Len(ws)
      /\ \A j \in 1 .. Len(ws) : all[j] = ws[j]
      /\ all[Len(ws) + 1] = e
  OBVIOUS
<1>5. e.lease = Called(g, i) /\ e.n = calls[p].n
  BY <1>1
<1>. HIDE DEF next, all
<1>3. ASSUME NEW l PROVE Under(all, l) = IF e.lease = l THEN Under(ws, l) \cup {e.n} ELSE Under(ws, l)
  <2>1. ASSUME NEW n \in Under(all, l) PROVE n \in (IF e.lease = l THEN Under(ws, l) \cup {e.n} ELSE Under(ws, l))
    <3>1. PICK j \in DOMAIN all : all[j].lease = l /\ n = all[j].n
      BY <2>1 DEF Under
    <3>. QED  BY <1>4, <3>1 DEF Under
  <2>2. ASSUME NEW n \in Under(ws, l) PROVE n \in Under(all, l)
    <3>1. PICK j \in DOMAIN ws : ws[j].lease = l /\ n = ws[j].n
      BY <2>2 DEF Under
    <3>2. j \in DOMAIN all /\ all[j] = ws[j]
      BY <1>4, <3>1
    <3>. QED  BY <3>1, <3>2 DEF Under
  <2>3. ASSUME e.lease = l PROVE e.n \in Under(all, l)
    <3>1. Len(ws) + 1 \in DOMAIN all
      BY <1>4
    <3>. QED  BY <1>4, <2>3, <3>1 DEF Under
  <2>. QED  BY <2>1, <2>2, <2>3
<1>6. ASSUME NEW q \in Callers, next[q].step = "input"
      PROVE  \E j \in DOMAIN g :
                /\ g[j].holder = q /\ next[q].lease = Called(g, j)
                /\ next[q].n > 0 /\ Under(all, Called(g, j)) = 1 .. next[q].n - 1
  <2>1. q # p /\ next[q] = calls[q]
    BY <1>2, <1>6
  <2>2. PICK j \in DOMAIN g :
                /\ g[j].holder = q /\ calls[q].lease = Called(g, j)
                /\ calls[q].n > 0 /\ Under(ws, Called(g, j)) = 1 .. calls[q].n - 1
    BY <1>6, <2>1 DEF InputsFit
  <2>3. Called(g, j) # Called(g, i)
    BY <1>1, <2>1, <2>2, CalledIs
  <2>4. Under(all, Called(g, j)) = Under(ws, Called(g, j))
    BY <1>3, <1>5, <2>3
  <2>. QED  BY <2>1, <2>2, <2>4
<1>7. ASSUME c.who \in Holders
      PROVE  /\ c.id \in DOMAIN g
             /\ g[c.id] = [generation |-> c.generation, holder |-> c.who]
             /\ IF next[c.who].step = "input" /\ next[c.who].lease = Called(g, c.id)
                THEN next[c.who].n = c.input
                ELSE Under(all, Called(g, c.id)) = 1 .. c.input
  <2>1. /\ c.id \in DOMAIN g
        /\ g[c.id] = [generation |-> c.generation, holder |-> c.who]
        /\ IF calls[c.who].step = "input" /\ calls[c.who].lease = Called(g, c.id)
           THEN calls[c.who].n = c.input
           ELSE Under(ws, Called(g, c.id)) = 1 .. c.input
    BY <1>7 DEF InputsFit
  <2>2. CASE c.id = i
    <3>1. c.who = p
      BY <1>1, <2>1, <2>2
    <3>2. calls[p].n = c.input
      BY <1>1, <2>1, <2>2, <3>1
    <3>3. Under(all, Called(g, i)) = (1 .. c.input - 1) \cup {c.input}
      BY <1>1, <1>3, <1>5, <3>2
    <3>4. c.input \in Nat /\ c.input > 0
      BY <1>1, <3>2
    <3>5. (1 .. c.input - 1) \cup {c.input} = 1 .. c.input
      BY <3>4
    <3>. QED  BY <1>2, <2>1, <2>2, <3>1, <3>3, <3>5
  <2>3. CASE c.id # i
    <3>1. Called(g, c.id) # Called(g, i)
      BY <2>3, CalledIs
    <3>2. Under(all, Called(g, c.id)) = Under(ws, Called(g, c.id))
      BY <1>3, <1>5, <3>1
    <3>3. CASE c.who = p
      BY <1>1, <1>2, <2>1, <3>1, <3>2, <3>3
    <3>4. CASE c.who # p
      <4>1. c.who \in Callers /\ next[c.who] = calls[c.who]
        BY <1>2, <1>7, <3>4
      <4>. QED  BY <2>1, <3>2, <4>1
    <3>. QED  BY <3>3, <3>4
  <2>. QED  BY <2>2, <2>3
<1>8. ASSUME NEW j \in DOMAIN all PROVE \E k \in DOMAIN g : all[j].lease = Called(g, k)
  <2>1. CASE j = Len(ws) + 1
    BY <1>1, <1>4, <1>5, <2>1
  <2>2. CASE j # Len(ws) + 1
    <3>1. j \in DOMAIN ws /\ all[j] = ws[j]
      BY <1>4, <2>2
    <3>. QED  BY <3>1 DEF InputsFit
  <2>. QED  BY <2>1, <2>2
<1>9. InputsFit(g, c, next, all)
  BY <1>6, <1>7, <1>8 DEF InputsFit
<1>. QED  BY <1>9 DEF next, all


\* Every step keeps leases, calls and what is written together.
LEMMA InputStep ==
    ASSUME TypeOK, TypeOK', InputInv, [Next]_vars
    PROVE  InputInv'
<1>0. /\ control \in ControlStates /\ pending \in [Callers -> Calls] /\ Holders \subseteq Callers
      /\ granted \in Seq([generation: Nat, holder: Holders])
      /\ written \in Seq([lease: LeaseRefs, n: Nat]) /\ ioOpen \in BOOLEAN
      /\ granted' \in Seq([generation: Nat, holder: Holders])
  BY DEF TypeOK, Callers
<1>. SUFFICES ASSUME ioOpen' PROVE InputsFit(granted', control', pending', written')
  BY DEF InputInv
<1>1. CASE /\ written' = written /\ granted' = granted /\ SameLease(control, control')
           /\ ioOpen' = ioOpen \/ ioOpen' = FALSE
           /\ \A p \in Callers : pending'[p] = pending[p]
                                 \/ (pending[p].step # "input" /\ pending'[p].step # "input")
  <2>1. ioOpen
    BY <1>0, <1>1, Zenon
  <2>2. InputsFit(granted, control, pending, written)
    BY <2>1 DEF InputInv
  <2>3. PICK d, next : d = control' /\ next = pending'
    OBVIOUS
  <2>4. SameLease(control, d)
        /\ \A p \in Callers : next[p] = pending[p] \/ (pending[p].step # "input" /\ next[p].step # "input")
    BY <1>1, <2>3
  <2>5. InputsFit(granted, d, next, written)
    BY <1>0, <2>2, <2>4, FitsOn
  <2>. QED  BY <1>1, <2>3, <2>5
<1>2. ASSUME NEW h \in Holders,
             granted' = Append(granted, [generation |-> control'.generation, holder |-> h]),
             control'.who = h, control'.input = 0, control'.id = Len(granted) + 1,
             UNCHANGED <<written, ioOpen, pending>>
      PROVE  InputsFit(granted', control', pending', written')
  <2>1. InputsFit(granted, control, pending, written)
    BY <1>2 DEF InputInv
  <2>2. PICK d : d = control'
    OBVIOUS
  <2>3. control' \in ControlStates
    BY DEF TypeOK
  <2>4. PICK new : new = [generation |-> d.generation, holder |-> d.who]
    OBVIOUS
  <2>5. d.who = h /\ d.input = 0 /\ d.id = Len(granted) + 1 /\ d.generation \in Nat
    BY <1>2, <2>2, <2>3 DEF ControlStates
  <2>6. new \in [generation: Nat, holder: Holders]
    BY <2>4, <2>5
  <2>7. InputsFit(Append(granted, new), d, pending, written)
    BY <1>0, <2>1, <2>4, <2>5, <2>6, FitsAcquired
  <2>8. granted' = Append(granted, new)
    BY <1>2, <2>2, <2>4
  <2>. QED  BY <1>2, <2>2, <2>7, <2>8
<1>3. ASSUME NEW h \in Holders, NEW i \in DOMAIN granted, NEW n \in 1 .. MaxInput,
             pending[h].step # "input", granted[i].holder = h,
             Delivery(control, LeaseRef(i), n) = "fresh",
             control' = Lapse(Input(control, LeaseRef(i), n)),
             pending' = [pending EXCEPT ![h] = WritingInput(LeaseRef(i), n)],
             UNCHANGED <<written, ioOpen, granted>>
      PROVE  InputsFit(granted', control', pending', written')
  <2>1. InputsFit(granted, control, pending, written)
    BY <1>3 DEF InputInv
  <2>2. LeaseRef(i) = Called(granted, i)
    BY DEF LeaseRef, Called
  <2>3. n \in Nat /\ Delivery(control, Called(granted, i), n) = "fresh"
    BY <1>3, <2>2, SessionAssumption
  <2>4. InputsFit(granted, Lapse(Input(control, Called(granted, i), n)),
                  [pending EXCEPT ![h] = WritingInput(Called(granted, i), n)], written)
    BY <1>0, <1>3, <2>1, <2>3, FitsInput
  <2>. QED  BY <1>3, <2>2, <2>4
<1>4. ASSUME NEW p \in Callers, pending[p].step = "input", pending' = [pending EXCEPT ![p] = Idle],
             written' = IF ioOpen THEN Append(written, [lease |-> pending[p].lease, n |-> pending[p].n])
                        ELSE written,
             UNCHANGED <<granted, control, ioOpen>>
      PROVE  InputsFit(granted', control', pending', written')
  <2>1. ioOpen
    BY <1>4
  <2>2. InputsFit(granted, control, pending, written)
    BY <2>1 DEF InputInv
  <2>3. PICK e : e = [lease |-> pending[p].lease, n |-> pending[p].n]
    OBVIOUS
  <2>4. pending[p].lease \in LeaseRefs /\ pending[p].n \in Nat
    BY <1>0, <1>4 DEF Calls, Idle, Typing, Writing
  <2>5. e \in [lease: LeaseRefs, n: Nat] /\ e.lease = pending[p].lease /\ e.n = pending[p].n
    BY <2>3, <2>4
  <2>6. InputsFit(granted, control, [pending EXCEPT ![p] = Idle], Append(written, e))
    BY <1>0, <1>4, <2>2, <2>4, <2>5, FitsWritten
  <2>7. written' = Append(written, e)
    BY <1>4, <2>1, <2>3
  <2>. QED  BY <1>4, <2>6, <2>7
<1>. QED  BY <1>1, <1>2, <1>3, <1>4, InputSteps

\* The inputs ws under each lease are 1, 2, 3 ...
InOrder(ws) ==
    \A i \in DOMAIN ws : \A n \in 1 .. ws[i].n :
        (\E j \in 1 .. i - 1 : ws[j] = [lease |-> ws[i].lease, n |-> n]) <=> n # ws[i].n

\* One more input, the next one under its lease, leaves them in order.
LEMMA OrderAppend ==
    ASSUME NEW ws \in Seq([lease: LeaseRefs, n: Nat]), NEW e \in [lease: LeaseRefs, n: Nat],
           NEW all, all = Append(ws, e), Under(ws, e.lease) = 1 .. e.n - 1,
           InOrder(ws)
    PROVE  InOrder(all)
<1>1. /\ Len(ws) \in Nat /\ DOMAIN ws = 1 .. Len(ws) /\ DOMAIN all = 1 .. Len(ws) + 1
      /\ \A j \in 1 .. Len(ws) : all[j] = ws[j]
      /\ all[Len(ws) + 1] = e
  OBVIOUS
<1>5. \A j \in 1 .. Len(ws) : ws[j] \in [lease: LeaseRefs, n: Nat]
  BY ElementType
<1>2. ASSUME NEW i \in 1 .. Len(ws), NEW n \in 1 .. ws[i].n
      PROVE  (\E j \in 1 .. i - 1 : all[j] = [lease |-> ws[i].lease, n |-> n]) <=> n # ws[i].n
  <2>1. \A j \in 1 .. i - 1 : all[j] = ws[j]
    BY <1>1
  <2>2. (\E j \in 1 .. i - 1 : ws[j] = [lease |-> ws[i].lease, n |-> n]) <=> n # ws[i].n
    BY <1>1 DEF InOrder
  <2>. QED  BY <2>1, <2>2
<1>3. ASSUME NEW n \in 1 .. e.n
      PROVE  (\E j \in 1 .. Len(ws) : all[j] = [lease |-> e.lease, n |-> n]) <=> n # e.n
  <2>1. e.n \in Nat /\ n \in Nat
    OBVIOUS
  <2>2. n \in Under(ws, e.lease) <=> n # e.n
    BY <2>1
  <2>3. n \in Under(ws, e.lease) <=> \E j \in 1 .. Len(ws) : ws[j].lease = e.lease /\ ws[j].n = n
    <3>1. ASSUME n \in Under(ws, e.lease) PROVE \E j \in 1 .. Len(ws) : ws[j].lease = e.lease /\ ws[j].n = n
      <4>1. PICK j \in DOMAIN ws : ws[j].lease = e.lease /\ n = ws[j].n
        BY <3>1 DEF Under
      <4>. QED  BY <1>1, <4>1
    <3>2. ASSUME NEW j \in DOMAIN ws, ws[j].lease = e.lease, ws[j].n = n PROVE n \in Under(ws, e.lease)
      BY <3>2 DEF Under
    <3>. QED  BY <1>1, <3>1, <3>2
  <2>4. ASSUME NEW j \in 1 .. Len(ws)
        PROVE  (ws[j].lease = e.lease /\ ws[j].n = n) <=> all[j] = [lease |-> e.lease, n |-> n]
    <3>1. all[j] = ws[j] /\ ws[j] \in [lease: LeaseRefs, n: Nat]
      BY <1>1, <1>5
    <3>2. ws[j] = [lease |-> ws[j].lease, n |-> ws[j].n]
      BY <3>1
    <3>. QED  BY <3>1, <3>2
  <2>. QED  BY <2>2, <2>3, <2>4
<1>4. ASSUME NEW i \in DOMAIN all
      PROVE  \A n \in 1 .. all[i].n :
                (\E j \in 1 .. i - 1 : all[j] = [lease |-> all[i].lease, n |-> n]) <=> n # all[i].n
  <2>1. CASE i = Len(ws) + 1
    <3>1. all[i] = e /\ i - 1 = Len(ws)
      BY <1>1, <2>1
    <3>. QED  BY <1>3, <3>1
  <2>2. CASE i # Len(ws) + 1
    <3>1. i \in 1 .. Len(ws) /\ all[i] = ws[i]
      BY <1>1, <2>2
    <3>. QED  BY <1>2, <3>1
  <2>. QED  BY <2>1, <2>2
<1>. QED  BY <1>4 DEF InOrder

\* Every step keeps the inputs in order.
LEMMA OrderStep ==
    ASSUME TypeOK, InputInv, InputsInOrder, [Next]_vars
    PROVE  InputsInOrder'
<1>1. CASE UNCHANGED written
  BY <1>1 DEF InputsInOrder
<1>2. ASSUME ioOpen, NEW p \in Callers, pending[p].step = "input",
             written' = Append(written, [lease |-> pending[p].lease, n |-> pending[p].n])
      PROVE  InputsInOrder'
  <2>1. written \in Seq([lease: LeaseRefs, n: Nat]) /\ pending \in [Callers -> Calls]
    BY DEF TypeOK
  <2>2. PICK e : e = [lease |-> pending[p].lease, n |-> pending[p].n]
    OBVIOUS
  <2>3. pending[p].lease \in LeaseRefs /\ pending[p].n \in Nat
    BY <1>2, <2>1 DEF Calls, Idle, Typing, Writing
  <2>4. e \in [lease: LeaseRefs, n: Nat]
    BY <2>2, <2>3
  <2>5. Under(written, e.lease) = 1 .. e.n - 1
    <3>1. InputsFit(granted, control, pending, written)
      BY <1>2 DEF InputInv
    <3>2. PICK i \in DOMAIN granted : pending[p].lease = Called(granted, i)
                /\ Under(written, Called(granted, i)) = 1 .. pending[p].n - 1
      BY <1>2, <3>1 DEF InputsFit
    <3>. QED  BY <2>2, <3>2
  <2>6. InOrder(written)
    BY DEF InputsInOrder, InOrder
  <2>7. PICK all : all = Append(written, e)
    OBVIOUS
  <2>8. InOrder(all)
    BY <2>1, <2>4, <2>5, <2>6, <2>7, OrderAppend
  <2>9. written' = all
    BY <1>2, <2>2, <2>7
  <2>. QED  BY <2>8, <2>9 DEF InputsInOrder, InOrder
<1>. QED  BY <1>1, <1>2, InputSteps

\* InputsInOrder: the inputs a holder sends under its lease reach the program in order, each once,
\* for any number of leases and inputs.  An input is counted under the view lock and written under
\* the io lock; what is between is the call its holder is in.
THEOREM InputsOrdered == Spec => []InputsInOrder
<1>1. Init => InputInv /\ InputsInOrder
  <2>. SUFFICES ASSUME Init PROVE InputInv /\ InputsInOrder
    OBVIOUS
  <2>1. granted = <<>> /\ written = <<>> /\ control.who = "nobody" /\ \A p \in Callers : pending[p].step = "idle"
    BY DEF Init, NewControl, Idle
  <2>2. InputsFit(granted, control, pending, written)
    BY <2>1, HoldersAssumption DEF InputsFit
  <2>. QED  BY <2>1, <2>2 DEF InputInv, InputsInOrder
<1>2. TypeOK /\ TypeOK' /\ InputInv /\ InputsInOrder /\ [Next]_vars => InputInv' /\ InputsInOrder'
  BY InputStep, OrderStep
<1>. QED  BY <1>1, <1>2, TypesHold, PTL DEF Spec

(***************************************************************************)
(* The size while the person at this computer is in control.               *)
(***************************************************************************)

\* Whether the person here is in control in d only if they are in c.
LocalOnlyIf(d, c) == Controller(d) = "local" => Controller(c) = "local"

\* Only what is typed here gives control to the person here: no other method does, nor time.
LEMMA MethodsKeepLocal ==
    ASSUME NEW c \in ControlStates
    PROVE  /\ LocalOnlyIf(c, c) /\ LocalOnlyIf(Lapse(c), c) /\ LocalOnlyIf(Aged(c), c)
           /\ \A ref : /\ LocalOnlyIf(Lapse(Renew(c, ref)), c) /\ LocalOnlyIf(Lapse(Release(c, ref)), c)
                       /\ \A n : LocalOnlyIf(Lapse(Input(c, ref, n)), c)
           /\ \A h \in Holders : \A i : Controller(Lapse(Acquired(c, h, i))) # "local"
<1>0. /\ Lapse(Lapse(c)) = Lapse(c) /\ "nobody" \notin Holders /\ "local" \notin Holders
  BY ControlTypes, HoldersAssumption
<1>1. LocalOnlyIf(c, c) /\ LocalOnlyIf(Lapse(c), c)
  BY <1>0 DEF LocalOnlyIf, Controller
<1>2. LocalOnlyIf(Aged(c), c)
  <2>1. /\ Aged(c).who = c.who /\ (c.left = 0 => Aged(c).left = 0)
    BY DEF Aged, ControlStates
  <2>. QED  BY <2>1 DEF LocalOnlyIf, Controller, Lapse, GivenUp
<1>3. ASSUME NEW d, d.who = Lapse(c).who PROVE LocalOnlyIf(Lapse(d), c)
  BY <1>3 DEF LocalOnlyIf, Controller, Lapse, GivenUp
<1>4. ASSUME NEW d, d.who \in Holders \/ d.who = "nobody" PROVE Controller(Lapse(d)) # "local"
  BY <1>0, <1>4 DEF Controller, Lapse, GivenUp
<1>5. Lapse(c) \in ControlStates
  BY ControlTypes
<1>6. ASSUME NEW ref PROVE LocalOnlyIf(Lapse(Renew(c, ref)), c)
  <2>1. Renew(c, ref).who = Lapse(c).who
    BY <1>5 DEF Renew, ControlStates
  <2>. QED  BY <1>3, <2>1
<1>7. ASSUME NEW ref, NEW n PROVE LocalOnlyIf(Lapse(Input(c, ref, n)), c)
  <2>1. Input(c, ref, n).who = Lapse(c).who
    BY <1>5 DEF Input, ControlStates
  <2>. QED  BY <1>3, <2>1
<1>8. ASSUME NEW ref PROVE LocalOnlyIf(Lapse(Release(c, ref)), c)
  <2>1. CASE Check(c, ref)
    <3>1. Release(c, ref).who = "nobody"
      BY <2>1 DEF Release, GivenUp
    <3>. QED  BY <1>4, <3>1 DEF LocalOnlyIf
  <2>2. CASE ~ Check(c, ref)
    BY <1>3, <2>2 DEF Release
  <2>. QED  BY <2>1, <2>2
<1>9. ASSUME NEW h \in Holders, NEW i PROVE Controller(Lapse(Acquired(c, h, i))) # "local"
  <2>1. Acquired(c, h, i).who = h
    BY DEF Acquired
  <2>. QED  BY <1>4, <2>1
<1>. QED  BY <1>1, <1>2, <1>6, <1>7, <1>8, <1>9

\* Every step leaves the person in control with the size they asked for.
LEMMA SizeStep ==
    ASSUME TypeOK, LocalOwnsSize, [Next]_vars, ResizeMayFail = FALSE
    PROVE  LocalOwnsSize'
<1>0. control \in ControlStates
  BY DEF TypeOK
<1>1. ASSUME UNCHANGED <<size, localSize>>, LocalOnlyIf(control', control) PROVE LocalOwnsSize'
  BY <1>1 DEF LocalOwnsSize, LocalOnlyIf
<1>2. ASSUME NEW d, NEW s, Controlling(d, s) PROVE control' = Lapse(d) /\ size' = s
  BY <1>2 DEF Controlling
<1>3. ASSUME NEW s PROVE SizesAfterApplying(s) = {s}
  BY DEF SizesAfterApplying
<1>4. ASSUME Leased(control) PROVE Controller(Lapse(control)) # "local" /\ Controller(control) # "local"
  BY <1>0, <1>4, ControlTypes, HoldersAssumption DEF Leased, Controller
<1>5. LocalOnlyIf(control, control) /\ LocalOnlyIf(Lapse(control), control) /\ LocalOnlyIf(Aged(control), control)
  BY <1>0, MethodsKeepLocal
<1>6. ASSUME UNCHANGED <<size, localSize>>, control' = control \/ control' = Lapse(control) \/ control' = Aged(control)
      PROVE  LocalOwnsSize'
  <2>1. LocalOnlyIf(control', control)
    BY <1>5, <1>6
  <2>. QED  BY <1>1, <1>6, <2>1
<1>7. CASE LocalStep
  <2>1. ASSUME NEW p \in Locals, TakeLocalControl(p) PROVE LocalOwnsSize'
    <3>1. size' = localSize /\ localSize' = localSize
      BY <1>2, <1>3, <2>1 DEF TakeLocalControl
    <3>. QED  BY <3>1 DEF LocalOwnsSize
  <2>2. ASSUME NEW p \in Locals, NEW data \in LocalData, LocalWrite(p, data) PROVE LocalOwnsSize'
    <3>1. UNCHANGED <<size, localSize>> /\ (control' = control \/ control' = Lapse(control))
      BY <2>2 DEF LocalWrite
    <3>. QED  BY <1>6, <3>1
  <2>3. ASSUME NEW p \in Automations, Unattended(p) PROVE LocalOwnsSize'
    BY <1>2, <1>6, <2>3 DEF Unattended
  <2>4. ASSUME NEW s \in Sizes, Resize(s) PROVE LocalOwnsSize'
    <3>1. CASE Leased(control)
      <4>1. control' = Lapse(control)
        BY <1>2, <2>4, <3>1 DEF Resize
      <4>. QED  BY <1>4, <3>1, <4>1 DEF LocalOwnsSize
    <3>2. CASE ~ Leased(control)
      <4>1. size' = s /\ localSize' = s
        BY <1>2, <1>3, <2>4, <3>2 DEF Resize
      <4>. QED  BY <4>1 DEF LocalOwnsSize
    <3>. QED  BY <3>1, <3>2
  <2>5. ASSUME AskController PROVE LocalOwnsSize'
    BY <1>2, <1>6, <2>5 DEF AskController
  <2>. QED  BY <1>7, <2>1, <2>2, <2>3, <2>4, <2>5 DEF LocalStep
<1>8. CASE LeaseStep
  <2>1. PICK h \in Holders :
        \/ \E takeOver \in BOOLEAN : Acquire(h, takeOver)
        \/ \E i \in DOMAIN granted :
              \/ RenewLease(h, i)
              \/ ReleaseLease(h, i)
              \/ \E n \in 1 .. MaxInput : LeaseInput(h, i, n)
              \/ \E s \in Sizes : ResizeLeased(h, i, s)
    BY <1>8 DEF LeaseStep
  <2>2. ASSUME NEW takeOver \in BOOLEAN, Acquire(h, takeOver) PROVE LocalOwnsSize'
    <3>1. UNCHANGED <<size, localSize>>
          /\ (control' = Lapse(control) \/ control' = Lapse(Acquired(control, h, Len(granted) + 1)))
      BY <1>2, <2>2 DEF Acquire
    <3>2. Controller(Lapse(Acquired(control, h, Len(granted) + 1))) # "local"
      BY <1>0, MethodsKeepLocal
    <3>3. CASE control' = Lapse(control)
      BY <1>6, <3>1, <3>3
    <3>4. CASE control' = Lapse(Acquired(control, h, Len(granted) + 1))
      BY <3>2, <3>4 DEF LocalOwnsSize
    <3>. QED  BY <3>1, <3>3, <3>4
  <2>3. ASSUME NEW i \in DOMAIN granted, RenewLease(h, i) PROVE LocalOwnsSize'
    <3>1. control' = Lapse(Renew(control, LeaseRef(i))) /\ UNCHANGED <<size, localSize>>
      BY <1>2, <2>3 DEF RenewLease
    <3>2. LocalOnlyIf(control', control)
      BY <1>0, <3>1, MethodsKeepLocal
    <3>. QED  BY <1>1, <3>1, <3>2
  <2>4. ASSUME NEW i \in DOMAIN granted, ReleaseLease(h, i) PROVE LocalOwnsSize'
    <3>1. control' = Lapse(Release(control, LeaseRef(i))) /\ UNCHANGED localSize
      BY <1>2, <2>4 DEF ReleaseLease
    <3>2. CASE Check(control, LeaseRef(i))
      <4>1. size' = localSize
        BY <1>2, <1>3, <2>4, <3>2 DEF ReleaseLease
      <4>. QED  BY <3>1, <4>1 DEF LocalOwnsSize
    <3>3. CASE ~ Check(control, LeaseRef(i))
      <4>1. UNCHANGED size
        BY <1>2, <2>4, <3>3 DEF ReleaseLease
      <4>2. LocalOnlyIf(control', control)
        BY <1>0, <3>1, MethodsKeepLocal
      <4>. QED  BY <1>1, <3>1, <4>1, <4>2
    <3>. QED  BY <3>2, <3>3
  <2>5. ASSUME NEW i \in DOMAIN granted, NEW n \in 1 .. MaxInput, LeaseInput(h, i, n) PROVE LocalOwnsSize'
    <3>1. control' = Lapse(Input(control, LeaseRef(i), n)) /\ UNCHANGED <<size, localSize>>
      BY <1>2, <2>5 DEF LeaseInput
    <3>2. LocalOnlyIf(control', control)
      BY <1>0, <3>1, MethodsKeepLocal
    <3>. QED  BY <1>1, <3>1, <3>2
  <2>6. ASSUME NEW i \in DOMAIN granted, NEW s \in Sizes, ResizeLeased(h, i, s) PROVE LocalOwnsSize'
    <3>1. control' = Lapse(control) /\ UNCHANGED localSize
      BY <1>2, <2>6 DEF ResizeLeased
    <3>2. CASE Check(control, LeaseRef(i))
      <4>1. Leased(control)
        BY <3>2 DEF Check
      <4>. QED  BY <1>4, <3>1, <4>1 DEF LocalOwnsSize
    <3>3. CASE ~ Check(control, LeaseRef(i))
      <4>1. UNCHANGED size
        BY <1>2, <2>6, <3>3 DEF ResizeLeased
      <4>. QED  BY <1>6, <3>1, <4>1
    <3>. QED  BY <3>2, <3>3
  <2>. QED  BY <2>1, <2>2, <2>3, <2>4, <2>5, <2>6
<1>9. CASE ViewerStep
  <2>1. UNCHANGED <<size, localSize>> /\ (control' = control \/ control' = Lapse(control))
    BY <1>9 DEF ViewerStep, AttachTerminal, AttachWatcher, Detach, Drop
  <2>. QED  BY <1>6, <2>1
<1>10. CASE WriteStep \/ ProgramStep \/ WaiterStep \/ ReaderStep \/ Tick \/ UNCHANGED vars
  <2>1. UNCHANGED <<size, localSize>> /\ (control' = control \/ control' = Aged(control))
    BY <1>10 DEF WriteStep, Write, ProgramStep, WaiterStep, ReaderStep, PrintChunk, ChildEnds, GrandchildEnds, Tick
  <2>. QED  BY <1>6, <2>1
<1>11. CASE PumpStep
  <2>1. UNCHANGED <<size, localSize>> /\ (control' = control \/ control' = Lapse(control))
    BY <1>2, <1>11 DEF PumpStep, PumpTop, PumpReceive, PumpQuiet, PumpLapse, PumpDrained, PumpBusy, PumpDeliver,
                       PumpReply, PumpClose, PumpExit, PumpEvent
  <2>. QED  BY <1>6, <2>1
<1>. QED  BY <1>7, <1>8, <1>9, <1>10, <1>11 DEF Next

\* LocalOwnsSize: while the person at this computer is in control, the terminal has the size they
\* asked for, where the PTY takes every size it is given.
THEOREM LocalSize ==
    ASSUME ResizeMayFail = FALSE
    PROVE  Spec => []LocalOwnsSize
<1>1. Init => LocalOwnsSize
  BY DEF Init, LocalOwnsSize
<1>2. TypeOK /\ LocalOwnsSize /\ [Next]_vars => LocalOwnsSize'
  BY SizeStep
<1>. QED  BY <1>1, <1>2, TypesHold, PTL DEF Spec

(***************************************************************************)
(* What the program prints: on its way, asked about, drawn.                *)
(***************************************************************************)

\* The numbers of the chunks in the channel, in a batch, asked about, and drawn.
InChannel(box) == {box[i].chunk.n : i \in {k \in DOMAIN box : box[k].m = "output"}}
NumbersOf(chunks) == {c.n : c \in chunks}
AskedAbout(as) == {a.n : a \in as}
DrawnIn(stream) == UNION {stream[i].text : i \in {k \in DOMAIN stream : stream[k].kind = "output"}}

\* A chunk is what was printed with its number, among the first p.
IsPrinted(c, pr, p) == c.n \in 1 .. p /\ c.ask = pr[c.n].ask

\* What the reader passed on of pr, when pt is what it has not read yet.
Passed(pr, pt) == Len(pr) - Len(pt)

\* What is not read yet is the end of what was printed.
ReadFits(pr, pt) ==
    /\ Passed(pr, pt) \in Nat
    /\ \A i \in DOMAIN pt : pt[i].n = Passed(pr, pt) + i /\ IsPrinted(pt[i], pr, Len(pr))

\* In the channel and in the batch is, once each, what was printed.
ChannelFits(pr, p, box, batch) ==
    /\ \A i \in DOMAIN box : box[i].m = "output" => IsPrinted(box[i].chunk, pr, p)
    /\ \A i, j \in DOMAIN box : box[i].m = "output" /\ box[j].m = "output" /\ i # j
                                => box[i].chunk.n # box[j].chunk.n
    /\ \A c \in batch : IsPrinted(c, pr, p) /\ c.n \notin InChannel(box)

\* Whatever is no longer waiting has been put to one answerer, if it was a query for the cursor, or
\* will be answered by the host; or was drawn, if it was text.
AskedFits(pr, p, waiting, replies, as, drawn) ==
    /\ AskedAbout(as) \cup replies \subseteq (1 .. p) \ waiting
    /\ AskedAbout(as) \cap replies = {}
    /\ \A a, b \in as : a.n = b.n => a = b
    /\ \A n \in 1 .. p : pr[n].ask = "cursor" => n \in waiting \cup replies \cup AskedAbout(as)
    /\ \A n \in 1 .. p : pr[n].ask = "text" => n \in waiting \cup drawn

\* What was printed is not read yet, in the channel, in the batch, or dealt with.
FlowInv ==
    /\ ReadFits(printed, pty)
    /\ ChannelFits(printed, Passed(printed, pty), inbox, pump.batch)
    /\ AskedFits(printed, Passed(printed, pty), InChannel(inbox) \cup NumbersOf(pump.batch), pump.replies,
                 asked, DrawnIn(terminal))
    /\ pump.batch # {} => pump.pc \in {"busy", "deliver"}
    /\ pump.replies # {} => pump.pc = "reply"

\* What the program itself printed as text, once it is gone.
OwnText(pr) == {n \in DOMAIN pr : pr[n].own /\ pr[n].ask = "text"}

\* The end: what the pump knows of it is true; nothing follows the end of the output; once a tick has
\* passed in the drain wait all of the program's own output was read, and once it is over, drawn.
EndInv ==
    /\ pump.exit \/ (\E i \in DOMAIN inbox : inbox[i].m = "exited") => child = "reaped"
    /\ pump.eof \/ (\E i \in DOMAIN inbox : inbox[i].m = "eof") => readerDone
    /\ readerDone => pty = <<>> /\ child # "running" /\ ~ outlived
    /\ pump.eof => InChannel(inbox) = {}
    /\ \A i, j \in DOMAIN inbox : inbox[i].m = "eof" /\ inbox[j].m = "output" => j < i
    /\ pump.pc = "wait" /\ pump.for = "drain" =>
          pump.exit /\ (pump.left < DrainQuiet => \A i \in DOMAIN pty : pty[i].n \notin OwnText(printed))
    /\ pump.pc \in {"close", "exit", "event", "done"} => child = "reaped" /\ OwnText(printed) \subseteq DrawnIn(terminal)
    /\ state = "exited" => pump.pc \in {"event", "done"}

\* What is not among the calls to the session, its channel's messages but output, and the screens.
Aside ==
    /\ UNCHANGED <<printed, pty, pump, asked, child, outlived, readerDone, state>>
    /\ inbox' = inbox \/ inbox' = Append(inbox, Wake)
    /\ terminal' = terminal \/ \E s \in Sizes : terminal' = Append(terminal, Resized(s))

\* A call through Session::controlling is aside from what is printed.
LEMMA ControllingAside ==
    ASSUME TypeOK, NEW c, NEW s \in Sizes, Controlling(c, s),
           UNCHANGED <<printed, pty, pump, asked, child, outlived, readerDone, state>>
    PROVE  Aside
<1>1. inbox' = inbox \/ inbox' = Append(inbox, Wake)
  BY DEF Controlling
<1>2. terminal' = terminal \/ terminal' = Append(terminal, Resized(s))
  BY DEF Controlling
<1>. QED  BY <1>1, <1>2 DEF Aside

\* So is every call, and everything viewers do.
LEMMA CallsAside ==
    ASSUME TypeOK, LocalStep \/ LeaseStep \/ ViewerStep \/ WriteStep \/ UNCHANGED vars
    PROVE  Aside
<1>0. size \in Sizes /\ localSize \in Sizes
  BY DEF TypeOK
<1>1. CASE ViewerStep \/ WriteStep \/ UNCHANGED vars
  BY <1>1 DEF ViewerStep, AttachTerminal, AttachWatcher, Detach, Drop, WriteStep, Write, Aside
<1>2. CASE LocalStep
  <2>1. ASSUME NEW p \in Locals, NEW data \in LocalData, LocalWrite(p, data) PROVE Aside
    BY <2>1 DEF LocalWrite, Aside
  <2>2. ASSUME NEW p \in Locals, TakeLocalControl(p) PROVE Aside
    <3>1. PICK s \in SizesAfterApplying(localSize) : Controlling(LocalInput(control), s)
      BY <2>2 DEF TakeLocalControl
    <3>2. s \in Sizes
      BY <1>0, SizesAfterApplyingType
    <3>. QED  BY <2>2, <3>1, <3>2, ControllingAside DEF TakeLocalControl, UnchangedByCalls
  <2>3. ASSUME NEW p \in Automations, Unattended(p) PROVE Aside
    BY <1>0, <2>3, ControllingAside DEF Unattended, UnchangedByCalls
  <2>4. ASSUME NEW s \in Sizes, Resize(s) PROVE Aside
    <3>1. PICK z \in IF Leased(control) THEN {size} ELSE SizesAfterApplying(s) : Controlling(control, z)
      BY <2>4 DEF Resize
    <3>2. z \in Sizes
      BY <1>0, SizesAfterApplyingType
    <3>. QED  BY <2>4, <3>1, <3>2, ControllingAside DEF Resize, UnchangedByCalls
  <2>5. ASSUME AskController PROVE Aside
    BY <1>0, <2>5, ControllingAside DEF AskController, UnchangedByCalls
  <2>. QED  BY <1>2, <2>1, <2>2, <2>3, <2>4, <2>5 DEF LocalStep
<1>3. CASE LeaseStep
  <2>1. PICK h \in Holders :
        \/ \E takeOver \in BOOLEAN : Acquire(h, takeOver)
        \/ \E i \in DOMAIN granted :
              \/ RenewLease(h, i)
              \/ ReleaseLease(h, i)
              \/ \E n \in 1 .. MaxInput : LeaseInput(h, i, n)
              \/ \E s \in Sizes : ResizeLeased(h, i, s)
    BY <1>3 DEF LeaseStep
  <2>2. ASSUME NEW takeOver \in BOOLEAN, Acquire(h, takeOver) PROVE Aside
    <3>1. \E c : Controlling(c, size)
      BY <2>2 DEF Acquire
    <3>. QED  BY <1>0, <2>2, <3>1, ControllingAside DEF Acquire, UnchangedByCalls
  <2>3. ASSUME NEW i \in DOMAIN granted, RenewLease(h, i) PROVE Aside
    BY <1>0, <2>3, ControllingAside DEF RenewLease, UnchangedByCalls
  <2>4. ASSUME NEW i \in DOMAIN granted, ReleaseLease(h, i) PROVE Aside
    <3>1. PICK s \in IF Check(control, LeaseRef(i)) THEN SizesAfterApplying(localSize) ELSE {size} :
                 Controlling(Release(control, LeaseRef(i)), s)
      BY <2>4 DEF ReleaseLease
    <3>2. s \in Sizes
      BY <1>0, SizesAfterApplyingType
    <3>. QED  BY <2>4, <3>1, <3>2, ControllingAside DEF ReleaseLease, UnchangedByCalls
  <2>5. ASSUME NEW i \in DOMAIN granted, NEW n \in 1 .. MaxInput, LeaseInput(h, i, n) PROVE Aside
    BY <1>0, <2>5, ControllingAside DEF LeaseInput, UnchangedByCalls
  <2>6. ASSUME NEW i \in DOMAIN granted, NEW s \in Sizes, ResizeLeased(h, i, s) PROVE Aside
    <3>1. PICK z \in IF Check(control, LeaseRef(i)) THEN SizesAfterApplying(s) ELSE {size} : Controlling(control, z)
      BY <2>6 DEF ResizeLeased
    <3>2. z \in Sizes
      BY <1>0, SizesAfterApplyingType
    <3>. QED  BY <2>6, <3>1, <3>2, ControllingAside DEF ResizeLeased, UnchangedByCalls
  <2>. QED  BY <2>1, <2>2, <2>3, <2>4, <2>5, <2>6
<1>. QED  BY <1>1, <1>2, <1>3

Prints == [ask: {"text", "cursor", "other"}, own: BOOLEAN]

\* One more message in the channel.
LEMMA ChannelAppend ==
    ASSUME NEW box \in Seq(Msgs), NEW m \in Msgs
    PROVE  InChannel(Append(box, m)) =
              IF m.m = "output" THEN InChannel(box) \cup {m.chunk.n} ELSE InChannel(box)
<1>. DEFINE all == Append(box, m)
<1>1. /\ Len(box) \in Nat /\ DOMAIN box = 1 .. Len(box) /\ DOMAIN all = 1 .. Len(box) + 1
      /\ \A i \in 1 .. Len(box) : all[i] = box[i]
      /\ all[Len(box) + 1] = m
  OBVIOUS
<1>. HIDE DEF all
<1>2. ASSUME NEW n \in InChannel(all)
      PROVE  n \in IF m.m = "output" THEN InChannel(box) \cup {m.chunk.n} ELSE InChannel(box)
  <2>1. PICK i \in DOMAIN all : all[i].m = "output" /\ n = all[i].chunk.n
    BY <1>2 DEF InChannel
  <2>. QED  BY <1>1, <2>1 DEF InChannel
<1>3. ASSUME NEW n \in InChannel(box) PROVE n \in InChannel(all)
  <2>1. PICK i \in DOMAIN box : box[i].m = "output" /\ n = box[i].chunk.n
    BY <1>3 DEF InChannel
  <2>2. i \in DOMAIN all /\ all[i] = box[i]
    BY <1>1, <2>1
  <2>. QED  BY <2>1, <2>2 DEF InChannel
<1>4. ASSUME m.m = "output" PROVE m.chunk.n \in InChannel(all)
  <2>1. Len(box) + 1 \in DOMAIN all
    BY <1>1
  <2>. QED  BY <1>1, <1>4, <2>1 DEF InChannel
<1>. QED  BY <1>2, <1>3, <1>4 DEF all

\* One more item on the stream.
LEMMA DrawnAppend ==
    ASSUME NEW stream \in Seq(Items), NEW x \in Items
    PROVE  DrawnIn(Append(stream, x)) =
              IF x.kind = "output" THEN DrawnIn(stream) \cup x.text ELSE DrawnIn(stream)
<1>. DEFINE all == Append(stream, x)
<1>1. /\ Len(stream) \in Nat /\ DOMAIN stream = 1 .. Len(stream) /\ DOMAIN all = 1 .. Len(stream) + 1
      /\ \A i \in 1 .. Len(stream) : all[i] = stream[i]
      /\ all[Len(stream) + 1] = x
  OBVIOUS
<1>. HIDE DEF all
<1>2. ASSUME NEW n \in DrawnIn(all)
      PROVE  n \in IF x.kind = "output" THEN DrawnIn(stream) \cup x.text ELSE DrawnIn(stream)
  <2>1. PICK i \in DOMAIN all : all[i].kind = "output" /\ n \in all[i].text
    BY <1>2 DEF DrawnIn
  <2>. QED  BY <1>1, <2>1 DEF DrawnIn
<1>3. ASSUME NEW n \in DrawnIn(stream) PROVE n \in DrawnIn(all)
  <2>1. PICK i \in DOMAIN stream : stream[i].kind = "output" /\ n \in stream[i].text
    BY <1>3 DEF DrawnIn
  <2>2. i \in DOMAIN all /\ all[i] = stream[i]
    BY <1>1, <2>1
  <2>. QED  BY <2>1, <2>2 DEF DrawnIn
<1>4. ASSUME x.kind = "output", NEW n \in x.text PROVE n \in DrawnIn(all)
  <2>1. Len(stream) + 1 \in DOMAIN all
    BY <1>1
  <2>. QED  BY <1>1, <1>4, <2>1 DEF DrawnIn
<1>. QED  BY <1>2, <1>3, <1>4 DEF all

\* The program prints one more chunk: it is the last that is not read yet,
LEMMA ReadPrints ==
    ASSUME NEW pr \in Seq(Prints), NEW pt \in Seq(Chunks), NEW x \in Prints, NEW c \in Chunks,
           c.n = Len(pr) + 1, c.ask = x.ask, ReadFits(pr, pt)
    PROVE  /\ Passed(Append(pr, x), Append(pt, c)) = Passed(pr, pt)
           /\ ReadFits(Append(pr, x), Append(pt, c))
<1>. DEFINE more == Append(pr, x)
            rest == Append(pt, c)
            p == Passed(pr, pt)
<1>1. /\ Len(pr) \in Nat /\ Len(pt) \in Nat /\ Len(more) = Len(pr) + 1 /\ Len(rest) = Len(pt) + 1
      /\ DOMAIN pt = 1 .. Len(pt) /\ DOMAIN rest = 1 .. Len(pt) + 1
      /\ \A i \in 1 .. Len(pr) : more[i] = pr[i]
      /\ \A i \in 1 .. Len(pt) : rest[i] = pt[i]
      /\ more[Len(pr) + 1] = x /\ rest[Len(pt) + 1] = c
  OBVIOUS
<1>. HIDE DEF more, rest
<1>2. p \in Nat /\ p = Len(pr) - Len(pt) /\ Passed(more, rest) = p /\ p <= Len(pr)
  BY <1>1 DEF ReadFits, Passed
<1>3. ReadFits(more, rest)
  <2>1. ASSUME NEW i \in 1 .. Len(pt) PROVE rest[i].n = p + i /\ IsPrinted(rest[i], more, Len(more))
    <3>1. rest[i] = pt[i] /\ pt[i].n = p + i /\ IsPrinted(pt[i], pr, Len(pr))
      BY <1>1, <1>2 DEF ReadFits
    <3>. QED  BY <1>1, <3>1 DEF IsPrinted
  <2>2. c.n = p + (Len(pt) + 1) /\ IsPrinted(c, more, Len(more))
    BY <1>1, <1>2 DEF IsPrinted
  <2>3. ASSUME NEW i \in DOMAIN rest PROVE rest[i].n = p + i /\ IsPrinted(rest[i], more, Len(more))
    <3>1. CASE i = Len(pt) + 1
      BY <1>1, <2>2, <3>1
    <3>2. CASE i # Len(pt) + 1
      BY <1>1, <2>1, <3>2
    <3>. QED  BY <3>1, <3>2
  <2>. QED  BY <1>2, <2>3 DEF ReadFits
<1>. QED  BY <1>2, <1>3 DEF more, rest

\* and what was printed before it stays what it was.
LEMMA FlowPrints ==
    ASSUME NEW pr \in Seq(Prints), NEW x \in Prints, NEW p \in Nat, p <= Len(pr), NEW box, NEW batch,
           NEW waiting, NEW replies, NEW as, NEW drawn,
           ChannelFits(pr, p, box, batch), AskedFits(pr, p, waiting, replies, as, drawn)
    PROVE  /\ ChannelFits(Append(pr, x), p, box, batch)
           /\ AskedFits(Append(pr, x), p, waiting, replies, as, drawn)
<1>. DEFINE more == Append(pr, x)
<1>1. \A n \in 1 .. p : more[n] = pr[n]
  OBVIOUS
<1>. HIDE DEF more
<1>2. \A d : IsPrinted(d, pr, p) => IsPrinted(d, more, p)
  BY <1>1 DEF IsPrinted
<1>3. ChannelFits(more, p, box, batch)
  BY <1>2 DEF ChannelFits
<1>4. AskedFits(more, p, waiting, replies, as, drawn)
  BY <1>1 DEF AskedFits
<1>. QED  BY <1>3, <1>4 DEF more

\* The reader passes the next chunk on: the rest is not read yet,
LEMMA ReadPasses ==
    ASSUME NEW pr \in Seq(Prints), NEW pt \in Seq(Chunks), pt # <<>>, ReadFits(pr, pt)
    PROVE  /\ Passed(pr, Tail(pt)) = Passed(pr, pt) + 1 /\ ReadFits(pr, Tail(pt))
           /\ Head(pt).n = Passed(pr, pt) + 1 /\ Head(pt).ask = pr[Passed(pr, pt) + 1].ask
<1>. DEFINE rest == Tail(pt)
            p == Passed(pr, pt)
<1>1. /\ Len(pr) \in Nat /\ Len(pt) \in Nat /\ Len(pt) > 0 /\ Len(rest) = Len(pt) - 1
      /\ DOMAIN pt = 1 .. Len(pt) /\ DOMAIN rest = 1 .. Len(pt) - 1
      /\ \A i \in 1 .. Len(pt) - 1 : rest[i] = pt[i + 1]
      /\ Head(pt) = pt[1]
  OBVIOUS
<1>. HIDE DEF rest
<1>2. p \in Nat /\ p = Len(pr) - Len(pt) /\ Passed(pr, rest) = p + 1
  BY <1>1 DEF ReadFits, Passed
<1>3. Head(pt).n = p + 1 /\ Head(pt).ask = pr[p + 1].ask
  <2>1. 1 \in DOMAIN pt
    BY <1>1
  <2>2. pt[1].n = p + 1 /\ IsPrinted(pt[1], pr, Len(pr))
    BY <2>1 DEF ReadFits
  <2>. QED  BY <1>1, <2>2 DEF IsPrinted
<1>4. ReadFits(pr, rest)
  <2>1. ASSUME NEW i \in DOMAIN rest PROVE rest[i].n = (p + 1) + i /\ IsPrinted(rest[i], pr, Len(pr))
    <3>0. i \in 1 .. Len(pt) - 1 /\ p \in Nat
      BY <1>1, <1>2
    <3>1. i + 1 \in DOMAIN pt /\ rest[i] = pt[i + 1] /\ p + (i + 1) = (p + 1) + i
      BY <1>1, <3>0
    <3>2. pt[i + 1].n = p + (i + 1) /\ IsPrinted(pt[i + 1], pr, Len(pr))
      BY <3>1 DEF ReadFits
    <3>. QED  BY <3>1, <3>2
  <2>2. p + 1 \in Nat
    BY <1>2
  <2>. QED  BY <1>2, <2>1, <2>2 DEF ReadFits
<1>. QED  BY <1>2, <1>3, <1>4 DEF rest

\* and it is in the channel, the last one passed on.
LEMMA FlowReads ==
    ASSUME NEW pr, NEW p \in Nat, NEW box \in Seq(Msgs), NEW batch, NEW waiting, NEW replies, NEW as, NEW drawn,
           NEW m \in Msgs, m.m = "output", m.chunk.n = p + 1, m.chunk.ask = pr[p + 1].ask,
           ChannelFits(pr, p, box, batch), AskedFits(pr, p, waiting, replies, as, drawn)
    PROVE  /\ ChannelFits(pr, p + 1, Append(box, m), batch)
           /\ AskedFits(pr, p + 1, waiting \cup {p + 1}, replies, as, drawn)
<1>. DEFINE more == Append(box, m)
<1>5. \A c : IsPrinted(c, pr, p) => IsPrinted(c, pr, p + 1) /\ c.n # p + 1
  BY DEF IsPrinted
<1>6. /\ Len(box) \in Nat /\ DOMAIN box = 1 .. Len(box) /\ DOMAIN more = 1 .. Len(box) + 1
      /\ \A i \in 1 .. Len(box) : more[i] = box[i]
      /\ more[Len(box) + 1] = m
  OBVIOUS
<1>9. InChannel(more) = InChannel(box) \cup {p + 1}
  BY ChannelAppend
<1>. HIDE DEF more
<1>7. ChannelFits(pr, p + 1, more, batch)
  <2>1. ASSUME NEW i \in DOMAIN more, more[i].m = "output" PROVE IsPrinted(more[i].chunk, pr, p + 1)
    <3>1. CASE i = Len(box) + 1
      BY <1>6, <3>1 DEF IsPrinted
    <3>2. CASE i # Len(box) + 1
      <4>1. i \in DOMAIN box /\ more[i] = box[i]
        BY <1>6, <3>2
      <4>. QED  BY <1>5, <2>1, <4>1 DEF ChannelFits
    <3>. QED  BY <3>1, <3>2
  <2>2. ASSUME NEW i \in DOMAIN more, NEW j \in DOMAIN more, more[i].m = "output", more[j].m = "output", i # j
        PROVE  more[i].chunk.n # more[j].chunk.n
    <3>1. \A k \in DOMAIN box : box[k].m = "output" => box[k].chunk.n # p + 1
      BY <1>5 DEF ChannelFits
    <3>2. CASE i = Len(box) + 1
      <4>1. j \in DOMAIN box /\ more[j] = box[j]
        BY <1>6, <2>2, <3>2
      <4>. QED  BY <1>6, <2>2, <3>1, <3>2, <4>1
    <3>3. CASE j = Len(box) + 1
      <4>1. i \in DOMAIN box /\ more[i] = box[i]
        BY <1>6, <2>2, <3>3
      <4>. QED  BY <1>6, <2>2, <3>1, <3>3, <4>1
    <3>4. CASE i # Len(box) + 1 /\ j # Len(box) + 1
      <4>1. i \in DOMAIN box /\ more[i] = box[i] /\ j \in DOMAIN box /\ more[j] = box[j]
        BY <1>6, <3>4
      <4>. QED  BY <2>2, <4>1 DEF ChannelFits
    <3>. QED  BY <3>2, <3>3, <3>4
  <2>4. \A c \in batch : IsPrinted(c, pr, p + 1) /\ c.n \notin InChannel(more)
    BY <1>5, <1>9 DEF ChannelFits
  <2>. QED  BY <2>1, <2>2, <2>4 DEF ChannelFits
<1>8. AskedFits(pr, p + 1, waiting \cup {p + 1}, replies, as, drawn)
  <2>1. \A n \in 1 .. p + 1 : n \in 1 .. p \/ n = p + 1
    OBVIOUS
  <2>2. 1 .. p \subseteq 1 .. p + 1 /\ p + 1 \notin 1 .. p
    OBVIOUS
  <2>. QED  BY <2>1, <2>2 DEF AskedFits
<1>. QED  BY <1>7, <1>8 DEF more

\* A message that is no output.
LEMMA FlowTold ==
    ASSUME NEW pr, NEW p, NEW box \in Seq(Msgs), NEW batch, NEW m \in Msgs, m.m # "output",
           ChannelFits(pr, p, box, batch)
    PROVE  ChannelFits(pr, p, Append(box, m), batch) /\ InChannel(Append(box, m)) = InChannel(box)
<1>. DEFINE more == Append(box, m)
<1>1. /\ Len(box) \in Nat /\ DOMAIN box = 1 .. Len(box) /\ DOMAIN more = 1 .. Len(box) + 1
      /\ \A i \in 1 .. Len(box) : more[i] = box[i]
      /\ more[Len(box) + 1] = m
  OBVIOUS
<1>2. InChannel(more) = InChannel(box)
  BY ChannelAppend
<1>. HIDE DEF more
<1>3. ASSUME NEW i \in DOMAIN more, more[i].m = "output" PROVE i \in DOMAIN box /\ more[i] = box[i]
  BY <1>1, <1>3
<1>4. ChannelFits(pr, p, more, batch)
  BY <1>2, <1>3 DEF ChannelFits
<1>. QED  BY <1>2, <1>4 DEF more

\* The chunks among the first k messages.
FirstOutput(box, k) == {box[i].chunk : i \in {j \in 1 .. k : box[j].m = "output"}}

\* The pump takes the first messages of the channel.
LEMMA FlowReceives ==
    ASSUME NEW pr, NEW p, NEW box \in Seq(Msgs), NEW k \in 1 .. Len(box), ChannelFits(pr, p, box, {})
    PROVE  /\ ChannelFits(pr, p, SubSeq(box, k + 1, Len(box)), FirstOutput(box, k))
           /\ InChannel(SubSeq(box, k + 1, Len(box))) \cup NumbersOf(FirstOutput(box, k)) = InChannel(box)
<1>. DEFINE batch == FirstOutput(box, k)
            rest == SubSeq(box, k + 1, Len(box))
<1>1. /\ Len(box) \in Nat /\ k \in Nat /\ k <= Len(box) /\ DOMAIN box = 1 .. Len(box)
      /\ DOMAIN rest = 1 .. Len(box) - k
      /\ \A i \in 1 .. Len(box) - k : rest[i] = box[k + i]
  OBVIOUS
<1>2. \A c \in batch : \E i \in 1 .. k : i \in DOMAIN box /\ box[i].m = "output" /\ c = box[i].chunk
  BY <1>1 DEF FirstOutput
<1>3. \A i \in 1 .. k : box[i].m = "output" => box[i].chunk \in batch
  BY DEF FirstOutput
<1>. HIDE DEF rest, batch
<1>4. \A i \in DOMAIN rest : k + i \in DOMAIN box /\ rest[i] = box[k + i] /\ k + i > k
  BY <1>1
<1>5. \A i \in DOMAIN rest : rest[i].m = "output" => IsPrinted(rest[i].chunk, pr, p)
  BY <1>4 DEF ChannelFits
<1>6. ASSUME NEW i \in DOMAIN rest, NEW j \in DOMAIN rest, rest[i].m = "output", rest[j].m = "output", i # j
      PROVE  rest[i].chunk.n # rest[j].chunk.n
  <2>1. k + i # k + j
    BY <1>1, <1>6
  <2>. QED  BY <1>4, <1>6, <2>1 DEF ChannelFits
<1>7. ASSUME NEW c \in batch PROVE IsPrinted(c, pr, p) /\ c.n \notin InChannel(rest)
  <2>1. PICK i \in 1 .. k : i \in DOMAIN box /\ box[i].m = "output" /\ c = box[i].chunk
    BY <1>2
  <2>2. ASSUME c.n \in InChannel(rest) PROVE FALSE
    <3>1. PICK j \in DOMAIN rest : rest[j].m = "output" /\ rest[j].chunk.n = c.n
      BY <2>2 DEF InChannel
    <3>2. k + j # i
      BY <1>1, <1>4
    <3>. QED  BY <1>4, <2>1, <3>1, <3>2 DEF ChannelFits
  <2>. QED  BY <2>1, <2>2 DEF ChannelFits
<1>8. ASSUME NEW n \in InChannel(box) PROVE n \in InChannel(rest) \cup NumbersOf(batch)
  <2>1. PICK i \in DOMAIN box : box[i].m = "output" /\ n = box[i].chunk.n
    BY <1>8 DEF InChannel
  <2>2. CASE i <= k
    BY <1>1, <1>3, <2>1, <2>2 DEF NumbersOf
  <2>3. CASE i > k
    <3>1. i - k \in DOMAIN rest /\ rest[i - k] = box[i]
      BY <1>1, <2>3
    <3>. QED  BY <2>1, <3>1 DEF InChannel
  <2>4. i <= k \/ i > k
    BY <1>1, <2>1
  <2>. QED  BY <2>2, <2>3, <2>4
<1>9. ASSUME NEW n \in InChannel(rest) PROVE n \in InChannel(box)
  <2>1. PICK i \in DOMAIN rest : rest[i].m = "output" /\ n = rest[i].chunk.n
    BY <1>9 DEF InChannel
  <2>. QED  BY <1>4, <2>1 DEF InChannel
<1>10. ASSUME NEW n \in NumbersOf(batch) PROVE n \in InChannel(box)
  <2>1. PICK c \in batch : n = c.n
    BY <1>10 DEF NumbersOf
  <2>2. PICK i \in 1 .. k : i \in DOMAIN box /\ box[i].m = "output" /\ c = box[i].chunk
    BY <1>2
  <2>. QED  BY <2>1, <2>2 DEF InChannel
<1>. QED  BY <1>5, <1>6, <1>7, <1>8, <1>9, <1>10 DEF ChannelFits, rest, batch

\* The batch is delivered: its text is drawn, its queries are put to the answerers, who are one at
\* most, or are the host's to answer.
LEMMA FlowDelivers ==
    ASSUME NEW pr, NEW p, NEW box, NEW batch, NEW as, NEW drawn, NEW to, \A a, b \in to : a = b,
           NEW queries, queries = {c.n : c \in {d \in batch : d.ask # "text"}},
           NEW cursor, cursor = {c.n : c \in {d \in batch : d.ask = "cursor"}},
           NEW replies, replies = IF to = {} THEN cursor ELSE {},
           NEW text, text = {c.n : c \in {d \in batch : d.ask = "text"}},
           ChannelFits(pr, p, box, batch), AskedFits(pr, p, InChannel(box) \cup NumbersOf(batch), {}, as, drawn)
    PROVE  AskedFits(pr, p, InChannel(box), replies, as \cup [n: queries, to: to], drawn \cup text)
<1>. DEFINE new == [n: queries, to: to]
            all == as \cup new
<1>1. AskedAbout(all) = AskedAbout(as) \cup AskedAbout(new)
  BY DEF AskedAbout
<1>2. \A a \in new : a.n \in queries /\ a.to \in to /\ a = [n |-> a.n, to |-> a.to]
  OBVIOUS
<1>3. ASSUME NEW n \in queries, NEW t \in to PROVE n \in AskedAbout(new)
  <2>1. [n |-> n, to |-> t] \in new /\ [n |-> n, to |-> t].n = n
    OBVIOUS
  <2>. QED  BY <2>1 DEF AskedAbout
<1>4. AskedAbout(new) \subseteq queries
  BY <1>2 DEF AskedAbout
<1>5. \A n \in queries \cup cursor \cup text : n \in NumbersOf(batch)
  BY DEF NumbersOf
<1>6. ASSUME NEW n \in NumbersOf(batch) PROVE n \in 1 .. p /\ n \notin InChannel(box) /\ n \notin AskedAbout(as)
  <2>1. PICK c \in batch : n = c.n
    BY <1>6 DEF NumbersOf
  <2>. QED  BY <1>6, <2>1 DEF ChannelFits, IsPrinted, AskedFits
<1>7. ASSUME NEW n \in NumbersOf(batch)
      PROVE  (pr[n].ask = "cursor" => n \in queries /\ n \in cursor) /\ (pr[n].ask = "text" => n \in text)
  <2>1. PICK c \in batch : n = c.n
    BY <1>7 DEF NumbersOf
  <2>2. c.ask = pr[n].ask
    BY <2>1 DEF ChannelFits, IsPrinted
  <2>. QED  BY <2>1, <2>2
<1>8. replies \subseteq cursor /\ cursor \subseteq queries
  OBVIOUS
<1>9. replies # {} => new = {}
  BY <1>2
<1>10. ASSUME NEW a \in new, NEW b \in new, a.n = b.n PROVE a = b
  BY <1>2, <1>10
<1>. HIDE DEF new
<1>11. AskedAbout(all) \cup replies \subseteq (1 .. p) \ InChannel(box)
  <2>1. AskedAbout(as) \subseteq (1 .. p) \ InChannel(box)
    BY DEF AskedFits
  <2>2. AskedAbout(new) \cup replies \subseteq (1 .. p) \ InChannel(box)
    BY <1>4, <1>5, <1>6, <1>8
  <2>. QED  BY <1>1, <2>1, <2>2
<1>12. AskedAbout(all) \cap replies = {}
  <2>1. AskedAbout(as) \cap replies = {}
    BY <1>5, <1>6, <1>8
  <2>2. replies # {} => AskedAbout(new) = {}
    BY <1>9 DEF AskedAbout
  <2>. QED  BY <1>1, <2>1, <2>2
<1>13. ASSUME NEW a \in all, NEW b \in all, a.n = b.n PROVE a = b
  <2>1. \A x \in as, y \in new : x.n # y.n
    <3>1. \A x \in as : x.n \in AskedAbout(as)
      BY DEF AskedAbout
    <3>. QED  BY <1>2, <1>5, <1>6, <3>1 DEF new
  <2>. QED  BY <1>10, <1>13, <2>1 DEF AskedFits
<1>14. ASSUME NEW n \in 1 .. p, pr[n].ask = "cursor" PROVE n \in InChannel(box) \cup replies \cup AskedAbout(all)
  <2>1. CASE n \in NumbersOf(batch)
    <3>1. n \in queries /\ n \in cursor
      BY <1>7, <1>14, <2>1
    <3>2. CASE to = {}
      BY <3>1, <3>2
    <3>3. CASE to # {}
      BY <1>1, <1>3, <3>1, <3>3
    <3>. QED  BY <3>2, <3>3
  <2>2. CASE n \notin NumbersOf(batch)
    BY <1>1, <1>14, <2>2 DEF AskedFits
  <2>. QED  BY <2>1, <2>2
<1>15. ASSUME NEW n \in 1 .. p, pr[n].ask = "text" PROVE n \in InChannel(box) \cup (drawn \cup text)
  BY <1>7, <1>15 DEF AskedFits
<1>. QED  BY <1>11, <1>12, <1>13, <1>14, <1>15 DEF AskedFits, new

\* The host answers.
LEMMA FlowReplies ==
    ASSUME NEW pr, NEW p, NEW waiting, NEW replies, NEW as, NEW drawn, AskedFits(pr, p, waiting, replies, as, drawn)
    PROVE  AskedFits(pr, p, waiting, {}, as \cup {[n |-> n, to |-> 0] : n \in replies}, drawn)
<1>. DEFINE new == {[n |-> n, to |-> 0] : n \in replies}
            all == as \cup new
<1>1. AskedAbout(all) = AskedAbout(as) \cup replies
  <2>1. AskedAbout(new) = replies
    <3>1. ASSUME NEW n \in replies PROVE n \in AskedAbout(new)
      <4>1. [n |-> n, to |-> 0] \in new /\ [n |-> n, to |-> 0].n = n
        OBVIOUS
      <4>. QED  BY <4>1 DEF AskedAbout
    <3>2. \A a \in new : a.n \in replies
      OBVIOUS
    <3>. QED  BY <3>1, <3>2 DEF AskedAbout
  <2>2. AskedAbout(all) = AskedAbout(as) \cup AskedAbout(new)
    BY DEF AskedAbout
  <2>. QED  BY <2>1, <2>2
<1>2. ASSUME NEW a \in all, NEW b \in all, a.n = b.n PROVE a = b
  <2>1. \A x \in new : x.n \in replies /\ x = [n |-> x.n, to |-> 0]
    OBVIOUS
  <2>2. \A x \in as : x.n \in AskedAbout(as)
    BY DEF AskedAbout
  <2>. HIDE DEF new
  <2>3. \A x \in as, y \in new : x.n # y.n
    BY <2>1, <2>2 DEF AskedFits
  <2>4. CASE a \in as /\ b \in as
    BY <1>2, <2>4 DEF AskedFits
  <2>5. CASE a \in new /\ b \in new
    BY <1>2, <2>1, <2>5
  <2>. QED  BY <1>2, <2>3, <2>4, <2>5
<1>. HIDE DEF all
<1>. QED  BY <1>1, <1>2 DEF AskedFits, all

\* What holds of what is printed after a step that prints, reads and delivers nothing.
LEMMA FlowQuiet ==
    ASSUME TypeOK, FlowInv, UNCHANGED <<printed, pty, asked>>, pump'.batch = pump.batch, pump'.replies = pump.replies,
           inbox' = inbox \/ \E m \in Msgs : m.m # "output" /\ inbox' = Append(inbox, m),
           DrawnIn(terminal) \subseteq DrawnIn(terminal'),
           pump.batch # {} => pump'.pc \in {"busy", "deliver"}, pump.replies # {} => pump'.pc = "reply"
    PROVE  FlowInv'
<1>0. inbox \in Seq(Msgs)
  BY DEF TypeOK
<1>1. /\ ChannelFits(printed, Passed(printed, pty), inbox', pump.batch)
      /\ InChannel(inbox') = InChannel(inbox)
  <2>1. PICK box : box = inbox'
    OBVIOUS
  <2>2. ChannelFits(printed, Passed(printed, pty), inbox, pump.batch)
    BY DEF FlowInv
  <2>3. CASE inbox' = inbox
    BY <2>2, <2>3
  <2>4. ASSUME NEW m \in Msgs, m.m # "output", inbox' = Append(inbox, m)
        PROVE  /\ ChannelFits(printed, Passed(printed, pty), box, pump.batch)
               /\ InChannel(box) = InChannel(inbox)
    <3>1. ChannelFits(printed, Passed(printed, pty), Append(inbox, m), pump.batch)
          /\ InChannel(Append(inbox, m)) = InChannel(inbox)
      BY <1>0, <2>2, <2>4, FlowTold, SMTT(60)
    <3>. QED  BY <2>1, <2>4, <3>1
  <2>. QED  BY <2>1, <2>3, <2>4
<1>2. AskedFits(printed, Passed(printed, pty), InChannel(inbox) \cup NumbersOf(pump.batch), pump.replies,
                asked, DrawnIn(terminal'))
  BY DEF FlowInv, AskedFits
<1>3. ReadFits(printed, pty)
  BY DEF FlowInv
<1>. QED  BY <1>1, <1>2, <1>3 DEF FlowInv

\* Every step keeps track of what is printed.
LEMMA FlowStep ==
    ASSUME TypeOK, StreamInv, FlowInv, [Next]_vars
    PROVE  FlowInv'
<1>0. /\ printed \in Seq(Prints) /\ pty \in Seq(Chunks) /\ inbox \in Seq(Msgs) /\ terminal \in Seq(Items)
      /\ pump.batch \in SUBSET Chunks /\ printed \in Seq([ask: {"text", "cursor", "other"}, own: BOOLEAN])
  BY DEF TypeOK, Prints
<1>p. /\ pump.pc \in {"top", "wait", "busy", "deliver", "reply", "close", "exit", "event", "done"}
      /\ DOMAIN pump = {"pc", "for", "left", "eof", "exit", "batch", "replies", "burst"}
  BY DEF TypeOK
<1>1. CASE Aside
  <2>1. inbox' = inbox \/ \E m \in Msgs : m.m # "output" /\ inbox' = Append(inbox, m)
    <3>1. Wake \in Msgs /\ Wake.m # "output"
      BY DEF Wake, Msgs
    <3>. QED  BY <1>1, <3>1 DEF Aside
  <2>2. DrawnIn(terminal) \subseteq DrawnIn(terminal')
    <3>1. ASSUME NEW s \in Sizes, terminal' = Append(terminal, Resized(s)) PROVE DrawnIn(terminal) \subseteq DrawnIn(terminal')
      <4>1. Resized(s) \in Items /\ Resized(s).kind = "resized"
        BY DEF Resized, Items
      <4>2. DrawnIn(Append(terminal, Resized(s))) = DrawnIn(terminal)
        BY <1>0, <4>1, DrawnAppend
      <4>. QED  BY <3>1, <4>2
    <3>. QED  BY <1>1, <3>1 DEF Aside
  <2>3. UNCHANGED <<printed, pty, asked, pump>>
    BY <1>1 DEF Aside
  <2>4. /\ pump.batch # {} => pump.pc \in {"busy", "deliver"}
        /\ pump.replies # {} => pump.pc = "reply"
    BY DEF FlowInv
  <2>. QED  BY <2>1, <2>2, <2>3, <2>4, FlowQuiet
\* Steps of the pump that only move it, and those of the threads that send no output.
<1>2. ASSUME UNCHANGED <<printed, pty, asked>>, pump'.batch = pump.batch, pump'.replies = pump.replies,
             inbox' = inbox \/ \E m \in Msgs : m.m # "output" /\ inbox' = Append(inbox, m), terminal' = terminal,
             pump.batch # {} => pump'.pc \in {"busy", "deliver"}, pump.replies # {} => pump'.pc = "reply"
      PROVE  FlowInv'
  BY <1>2, FlowQuiet
<1>3. /\ pump.batch # {} => pump.pc \in {"busy", "deliver"}
      /\ pump.replies # {} => pump.pc = "reply"
  BY DEF FlowInv
<1>4. CASE ProgramStep
  <2>1. ASSUME NEW ask \in Asks \cup {"text"}, PrintChunk(ask) PROVE FlowInv'
    <3>1. PICK x : x = [ask |-> ask, own |-> child = "running"]
      OBVIOUS
    <3>2. PICK c : c = [n |-> Len(printed) + 1, ask |-> ask]
      OBVIOUS
    <3>3. PICK p : p = Passed(printed, pty)
      OBVIOUS
    <3>5. printed' = Append(printed, x) /\ pty' = Append(pty, c) /\ UNCHANGED <<pump, inbox, asked, terminal>>
      BY <2>1, <3>1, <3>2 DEF PrintChunk
    <3>6. ask \in {"text", "cursor", "other"}
      BY SessionAssumption
    <3>7. x \in Prints /\ x.ask = ask
      BY <3>1, <3>6 DEF Prints
    <3>8. c \in Chunks /\ c.n = Len(printed) + 1 /\ c.ask = x.ask
      BY <1>0, <3>2, <3>6, <3>7 DEF Chunks
    <3>9. PICK waiting, drawn : waiting = InChannel(inbox) \cup NumbersOf(pump.batch) /\ drawn = DrawnIn(terminal)
      OBVIOUS
    <3>10. ReadFits(printed, pty) /\ ChannelFits(printed, p, inbox, pump.batch)
           /\ AskedFits(printed, p, waiting, pump.replies, asked, drawn)
      BY <3>3, <3>9 DEF FlowInv
    <3>11. Passed(Append(printed, x), Append(pty, c)) = p /\ ReadFits(Append(printed, x), Append(pty, c))
      BY <1>0, <3>3, <3>7, <3>8, <3>10, ReadPrints
    <3>12. p \in Nat /\ p <= Len(printed)
      <4>1. Len(pty) \in Nat /\ Len(printed) \in Nat
        BY <1>0
      <4>. QED  BY <3>3, <3>10, <4>1 DEF ReadFits, Passed
    <3>13. ChannelFits(Append(printed, x), p, inbox, pump.batch)
           /\ AskedFits(Append(printed, x), p, waiting, pump.replies, asked, drawn)
      BY <1>0, <3>7, <3>10, <3>12, FlowPrints
    <3>. QED  BY <1>3, <3>5, <3>9, <3>11, <3>13 DEF FlowInv
  <2>2. CASE ChildEnds \/ GrandchildEnds
    <3>1. UNCHANGED <<printed, pty, asked, pump, inbox, terminal>>
      BY <2>2 DEF ChildEnds, GrandchildEnds
    <3>. QED  BY <1>2, <1>3, <3>1
  <2>. QED  BY <1>4, <2>1, <2>2 DEF ProgramStep
<1>5. CASE WaiterStep
  <2>1. [m |-> "exited"] \in Msgs /\ [m |-> "exited"].m # "output"
    BY DEF Msgs
  <2>2. UNCHANGED <<printed, pty, asked, pump, terminal>> /\ inbox' = Append(inbox, [m |-> "exited"])
    BY <1>5 DEF WaiterStep
  <2>. QED  BY <1>2, <1>3, <2>1, <2>2
<1>6. CASE ReaderStep
  <2>1. CASE inbox' = Append(inbox, [m |-> "eof"]) /\ UNCHANGED pty
    <3>1. [m |-> "eof"] \in Msgs /\ [m |-> "eof"].m # "output"
      BY DEF Msgs
    <3>2. UNCHANGED <<printed, pty, asked, pump, terminal>>
      BY <1>6, <2>1 DEF ReaderStep
    <3>. QED  BY <1>2, <1>3, <2>1, <3>1, <3>2
  <2>2. CASE pty # <<>> /\ inbox' = Append(inbox, [m |-> "output", chunk |-> Head(pty)]) /\ pty' = Tail(pty)
    <3>1. PICK m : m = [m |-> "output", chunk |-> Head(pty)]
      OBVIOUS
    <3>2. PICK p : p = Passed(printed, pty)
      OBVIOUS
    <3>4. UNCHANGED <<printed, asked, pump, terminal>> /\ inbox' = Append(inbox, m) /\ pty' = Tail(pty)
      BY <1>6, <2>2, <3>1 DEF ReaderStep
    <3>5. Head(pty) \in Chunks
      BY <1>0, <2>2
    <3>6. m \in Msgs /\ m.m = "output" /\ m.chunk = Head(pty)
      BY <3>1, <3>5 DEF Msgs
    <3>7. PICK waiting, drawn : waiting = InChannel(inbox) \cup NumbersOf(pump.batch) /\ drawn = DrawnIn(terminal)
      OBVIOUS
    <3>8. ReadFits(printed, pty) /\ ChannelFits(printed, p, inbox, pump.batch)
          /\ AskedFits(printed, p, waiting, pump.replies, asked, drawn)
      BY <3>2, <3>7 DEF FlowInv
    <3>9. /\ Passed(printed, Tail(pty)) = p + 1 /\ m.chunk.n = p + 1 /\ m.chunk.ask = printed[p + 1].ask
          /\ ReadFits(printed, Tail(pty)) /\ p \in Nat
      BY <1>0, <2>2, <3>2, <3>6, <3>8, ReadPasses DEF ReadFits
    <3>12. ChannelFits(printed, p + 1, Append(inbox, m), pump.batch)
           /\ AskedFits(printed, p + 1, waiting \cup {p + 1}, pump.replies, asked, drawn)
      BY <1>0, <3>6, <3>8, <3>9, FlowReads
    <3>10. InChannel(Append(inbox, m)) = InChannel(inbox) \cup {m.chunk.n}
      BY <1>0, <3>6, ChannelAppend
    <3>11. InChannel(Append(inbox, m)) \cup NumbersOf(pump.batch) = waiting \cup {p + 1}
      BY <3>7, <3>9, <3>10
    <3>. QED  BY <1>3, <3>4, <3>7, <3>9, <3>11, <3>12 DEF FlowInv
  <2>. QED  BY <1>6, <2>1, <2>2 DEF ReaderStep
<1>7. CASE PumpReceive
  <2>1. PICK k \in 1 .. Len(inbox) :
           LET got   == SubSeq(inbox, 1, k)
               batch == {got[i].chunk : i \in {j \in 1 .. k : got[j].m = "output"}}
           IN  /\ inbox' = SubSeq(inbox, k + 1, Len(inbox))
               /\ pump'.batch = batch /\ pump'.replies = pump.replies
               /\ batch # {} => pump'.pc \in {"busy", "deliver"}
    BY <1>p, <1>7 DEF PumpReceive
  <2>2. pump.pc = "wait" /\ UNCHANGED <<printed, pty, asked, terminal>>
    BY <1>7 DEF PumpReceive
  <2>3. pump.batch = {} /\ pump.replies = {}
    BY <1>3, <2>2
  <2>. DEFINE rest == SubSeq(inbox, k + 1, Len(inbox))
  <2>4. PICK batch : batch = FirstOutput(inbox, k)
    OBVIOUS
  <2>11. batch = {SubSeq(inbox, 1, k)[i].chunk : i \in {j \in 1 .. k : SubSeq(inbox, 1, k)[j].m = "output"}}
    <3>1. \A i \in 1 .. k : SubSeq(inbox, 1, k)[i] = inbox[i]
      BY <1>0
    <3>. QED  BY <2>4, <3>1 DEF FirstOutput
  <2>5. PICK p : p = Passed(printed, pty)
    OBVIOUS
  <2>6. ChannelFits(printed, p, inbox, {})
    BY <2>3, <2>5 DEF FlowInv
  <2>7. ChannelFits(printed, p, rest, batch) /\ InChannel(rest) \cup NumbersOf(batch) = InChannel(inbox)
    BY <1>0, <2>4, <2>6, FlowReceives
  <2>8. InChannel(inbox) \cup NumbersOf(pump.batch) = InChannel(inbox)
    BY <2>3 DEF NumbersOf
  <2>9. ReadFits(printed, pty) /\ AskedFits(printed, p, InChannel(inbox), pump.replies, asked, DrawnIn(terminal))
    BY <2>5, <2>8 DEF FlowInv
  <2>10. inbox' = rest /\ pump'.batch = batch /\ pump'.replies = pump.replies
         /\ (batch # {} => pump'.pc \in {"busy", "deliver"})
    BY <2>1, <2>11
  <2>. QED  BY <2>2, <2>3, <2>5, <2>7, <2>9, <2>10 DEF FlowInv
<1>8. CASE PumpDeliver
  <2>. DEFINE text == {c.n : c \in {x \in pump.batch : x.ask = "text"}}
              queries == {c.n : c \in {x \in pump.batch : x.ask # "text"}}
              cursor == {c.n : c \in {x \in pump.batch : x.ask = "cursor"}}
              to == {s.id : s \in Responder(control)}
              replies == IF to = {} THEN cursor ELSE {}
  <2>1. Responder(control) = {} <=> to = {}
    OBVIOUS
  <2>2. /\ pump.pc = "deliver" /\ UNCHANGED <<printed, pty, inbox>>
        /\ terminal' = Append(terminal, Output(text))
        /\ asked' = asked \cup [n: queries, to: to]
    BY <1>8 DEF PumpDeliver
  <2>3. /\ pump'.batch = {} /\ pump'.replies = replies /\ (replies # {} => pump'.pc = "reply")
    BY <1>p, <1>8, <2>1 DEF PumpDeliver
  <2>4. \A a, b \in to : a = b
    <3>1. ASSUME NEW s \in Responder(control), NEW r \in Responder(control) PROVE s.id = r.id
      <4>1. s.id <= r.id /\ r.id <= s.id
        BY DEF Responder
      <4>2. s.id \in Nat /\ r.id \in Nat
        BY DEF Responder, TypeOK
      <4>. QED  BY <4>1, <4>2
    <3>. QED  BY <3>1
  <2>5. DrawnIn(terminal') = DrawnIn(terminal) \cup text
    <3>1. text \in SUBSET Nat
      BY <1>0 DEF Chunks
    <3>2. Output(text) \in Items /\ Output(text).kind = "output" /\ Output(text).text = text
      BY <3>1 DEF Output, Items
    <3>. QED  BY <1>0, <2>2, <3>2, DrawnAppend
  <2>6. PICK p : p = Passed(printed, pty)
    OBVIOUS
  <2>7. pump.replies = {}
    BY <1>3, <2>2
  <2>8. ChannelFits(printed, p, inbox, pump.batch)
        /\ AskedFits(printed, p, InChannel(inbox) \cup NumbersOf(pump.batch), {}, asked, DrawnIn(terminal))
    BY <2>6, <2>7 DEF FlowInv
  <2>9. PICK t, q, c, u, r : t = text /\ q = queries /\ c = cursor /\ u = to /\ r = replies
    OBVIOUS
  <2>10. AskedFits(printed, p, InChannel(inbox), r, asked \cup [n: q, to: u], DrawnIn(terminal) \cup t)
    <3>1. \A a, b \in u : a = b
      BY <2>4, <2>9
    <3>2. r = IF u = {} THEN c ELSE {}
      BY <2>9
    <3>. QED  BY <2>8, <2>9, <3>1, <3>2, FlowDelivers
  <2>11. AskedFits(printed, p, InChannel(inbox), replies, asked', DrawnIn(terminal'))
    BY <2>2, <2>5, <2>9, <2>10
  <2>12. ChannelFits(printed, p, inbox, {})
    BY <2>8 DEF ChannelFits
  <2>13. InChannel(inbox) \cup NumbersOf({}) = InChannel(inbox)
    BY DEF NumbersOf
  <2>14. ReadFits(printed, pty)
    BY DEF FlowInv
  <2>. HIDE DEF replies
  <2>. QED  BY <2>2, <2>3, <2>6, <2>11, <2>12, <2>13, <2>14 DEF FlowInv
<1>9. CASE PumpReply
  <2>1. /\ pump.pc = "reply" /\ UNCHANGED <<printed, pty, inbox, terminal>>
        /\ asked' = asked \cup {[n |-> n, to |-> 0] : n \in pump.replies}
    BY <1>9 DEF PumpReply
  <2>2. pump'.batch = pump.batch /\ pump'.replies = {}
    BY <1>p, <1>9 DEF PumpReply
  <2>3. pump.batch = {}
    BY <1>3, <2>1
  <2>4. PICK p, waiting, drawn, replies : p = Passed(printed, pty) /\ waiting = InChannel(inbox) \cup NumbersOf(pump.batch)
                                         /\ drawn = DrawnIn(terminal) /\ replies = pump.replies
    OBVIOUS
  <2>5. AskedFits(printed, p, waiting, replies, asked, drawn)
    BY <2>4 DEF FlowInv
  <2>6. AskedFits(printed, p, waiting, {}, asked \cup {[n |-> n, to |-> 0] : n \in replies}, drawn)
    BY <2>5, FlowReplies
  <2>7. ReadFits(printed, pty) /\ ChannelFits(printed, p, inbox, pump.batch)
    BY <2>4 DEF FlowInv
  <2>8. asked' = asked \cup {[n |-> n, to |-> 0] : n \in replies}
    BY <2>1, <2>4
  <2>. QED  BY <2>1, <2>2, <2>3, <2>4, <2>6, <2>7, <2>8 DEF FlowInv
<1>10. CASE PumpTop \/ PumpQuiet \/ PumpDrained \/ PumpBusy \/ PumpClose \/ PumpExit \/ PumpEvent
  <2>1. /\ UNCHANGED <<printed, pty, asked, inbox, terminal>>
    BY <1>10 DEF PumpTop, PumpQuiet, PumpDrained, PumpBusy, PumpClose, PumpExit, PumpEvent
  <2>2. pump'.batch = pump.batch /\ pump'.replies = pump.replies
    BY <1>p, <1>10 DEF PumpTop, PumpQuiet, PumpDrained, PumpBusy, PumpClose, PumpExit, PumpEvent
  <2>3. pump.pc # "reply" /\ (pump.pc = "busy" => pump'.pc = "deliver") /\ pump.pc # "deliver"
    BY <1>p, <1>10 DEF PumpTop, PumpQuiet, PumpDrained, PumpBusy, PumpClose, PumpExit, PumpEvent, TimedOut
  <2>4. (pump.batch # {} => pump'.pc \in {"busy", "deliver"}) /\ (pump.replies # {} => pump'.pc = "reply")
    BY <1>3, <2>3
  <2>. QED  BY <1>2, <2>1, <2>2, <2>4
<1>11. CASE PumpLapse
  <2>1. PICK m : m = Wake
    OBVIOUS
  <2>2. UNCHANGED <<printed, pty, asked>> /\ terminal' = terminal /\ (inbox' = inbox \/ inbox' = Append(inbox, m))
    BY <1>11, <2>1 DEF PumpLapse, Controlling
  <2>3. m \in Msgs /\ m.m # "output"
    BY <2>1 DEF Wake, Msgs
  <2>4. pump'.batch = pump.batch /\ pump'.replies = pump.replies /\ pump.pc = "wait"
    BY <1>p, <1>11 DEF PumpLapse, TimedOut
  <2>5. pump.batch = {} /\ pump.replies = {}
    BY <1>3, <2>4
  <2>. QED  BY <1>2, <2>2, <2>3, <2>4, <2>5
<1>12. CASE Tick
  <2>1. UNCHANGED <<printed, pty, asked, inbox, terminal>>
    BY <1>12 DEF Tick
  <2>2. pump'.batch = pump.batch /\ pump'.replies = pump.replies /\ pump'.pc = pump.pc
    BY <1>p, <1>12 DEF Tick
  <2>. QED  BY <1>2, <1>3, <2>1, <2>2
<1>13. CASE LocalStep \/ LeaseStep \/ ViewerStep \/ WriteStep \/ UNCHANGED vars
  BY <1>1, <1>13, CallsAside
<1>. QED  BY <1>4, <1>5, <1>6, <1>7, <1>8, <1>9, <1>10, <1>11, <1>12, <1>13 DEF Next, PumpStep

\* Of the messages only that there is one of a kind, and their order, matter here.
Sent(box, kind) == \E i \in DOMAIN box : box[i].m = kind

\* Nothing follows the end of the output.
EofLast(box) == \A i, j \in DOMAIN box : box[i].m = "eof" /\ box[j].m = "output" => j < i

\* One more message.
LEMMA SentAppend ==
    ASSUME NEW box \in Seq(Msgs), NEW m \in Msgs
    PROVE  /\ \A kind : Sent(Append(box, m), kind) <=> Sent(box, kind) \/ m.m = kind
           /\ EofLast(box) /\ (m.m = "output" => ~ Sent(box, "eof")) => EofLast(Append(box, m))
           /\ InChannel(box) # {} <=> Sent(box, "output")
<1>. DEFINE more == Append(box, m)
<1>1. /\ Len(box) \in Nat /\ DOMAIN box = 1 .. Len(box) /\ DOMAIN more = 1 .. Len(box) + 1
      /\ \A i \in 1 .. Len(box) : more[i] = box[i]
      /\ more[Len(box) + 1] = m
  OBVIOUS
<1>. HIDE DEF more
<1>2. ASSUME NEW kind PROVE Sent(more, kind) <=> Sent(box, kind) \/ m.m = kind
  <2>1. ASSUME Sent(more, kind) PROVE Sent(box, kind) \/ m.m = kind
    BY <1>1, <2>1 DEF Sent
  <2>2. ASSUME Sent(box, kind) PROVE Sent(more, kind)
    BY <1>1, <2>2 DEF Sent
  <2>3. ASSUME m.m = kind PROVE Sent(more, kind)
    <3>1. Len(box) + 1 \in DOMAIN more
      BY <1>1
    <3>. QED  BY <1>1, <2>3, <3>1 DEF Sent
  <2>. QED  BY <2>1, <2>2, <2>3
<1>3. ASSUME EofLast(box), m.m = "output" => ~ Sent(box, "eof") PROVE EofLast(more)
  <2>. SUFFICES ASSUME NEW i \in DOMAIN more, NEW j \in DOMAIN more, more[i].m = "eof", more[j].m = "output"
                PROVE  j < i
    BY DEF EofLast
  <2>1. CASE i = Len(box) + 1
    <3>1. j # i
      OBVIOUS
    <3>. QED  BY <1>1, <2>1, <3>1
  <2>2. CASE i # Len(box) + 1
    <3>1. i \in DOMAIN box /\ more[i] = box[i]
      BY <1>1, <2>2
    <3>2. m.m # "output"
      BY <1>3, <3>1 DEF Sent
    <3>3. j \in DOMAIN box /\ more[j] = box[j]
      BY <1>1, <3>2
    <3>. QED  BY <1>3, <3>1, <3>3 DEF EofLast
  <2>. QED  BY <2>1, <2>2
<1>4. InChannel(box) # {} <=> Sent(box, "output")
  BY DEF InChannel, Sent
<1>. QED  BY <1>2, <1>3, <1>4 DEF more

\* The first k messages are taken out.
LEMMA SentReceived ==
    ASSUME NEW box \in Seq(Msgs), NEW k \in 1 .. Len(box), EofLast(box)
    PROVE  LET rest == SubSeq(box, k + 1, Len(box)) IN
           /\ EofLast(rest)
           /\ \A kind : Sent(rest, kind) => Sent(box, kind)
           /\ (\E i \in 1 .. k : box[i].m = "eof") => ~ Sent(rest, "output")
<1>. DEFINE rest == SubSeq(box, k + 1, Len(box))
<1>1. /\ Len(box) \in Nat /\ k \in Nat /\ DOMAIN box = 1 .. Len(box) /\ DOMAIN rest = 1 .. Len(box) - k
      /\ \A i \in 1 .. Len(box) - k : rest[i] = box[k + i]
  OBVIOUS
<1>. HIDE DEF rest
<1>2. \A i \in DOMAIN rest : i \in Nat /\ i > 0 /\ k + i \in DOMAIN box /\ rest[i] = box[k + i]
  BY <1>1
<1>3. EofLast(rest)
  <2>. SUFFICES ASSUME NEW i \in DOMAIN rest, NEW j \in DOMAIN rest, rest[i].m = "eof", rest[j].m = "output"
                PROVE  j < i
    BY DEF EofLast
  <2>1. k + j < k + i
    BY <1>2 DEF EofLast
  <2>. QED  BY <1>1, <1>2, <2>1
<1>4. \A kind : Sent(rest, kind) => Sent(box, kind)
  BY <1>2 DEF Sent
<1>5. ASSUME NEW i \in 1 .. k, box[i].m = "eof", NEW j \in DOMAIN rest, rest[j].m = "output" PROVE FALSE
  <2>1. i \in DOMAIN box
    BY <1>1
  <2>2. k + j < i
    BY <1>2, <1>5, <2>1 DEF EofLast
  <2>. QED  BY <1>1, <1>2, <2>2
<1>. QED  BY <1>3, <1>4, <1>5 DEF rest, Sent

\* EndInv, in these terms.
EndFits(box, c, done, p) ==
    /\ p.exit \/ Sent(box, "exited") => c = "reaped"
    /\ p.eof \/ Sent(box, "eof") => done = TRUE
    /\ p.eof => ~ Sent(box, "output")
    /\ EofLast(box)

\* EndInv says of the state what EndFits says of the parts the steps change.
LEMMA EndIs ==
    ASSUME TypeOK
    PROVE  EndInv <=>
              /\ EndFits(inbox, child, readerDone, pump)
              /\ readerDone => pty = <<>> /\ child # "running" /\ ~ outlived
              /\ pump.pc = "wait" /\ pump.for = "drain" =>
                    pump.exit /\ (pump.left < DrainQuiet => \A i \in DOMAIN pty : pty[i].n \notin OwnText(printed))
              /\ pump.pc \in {"close", "exit", "event", "done"} =>
                    child = "reaped" /\ OwnText(printed) \subseteq DrawnIn(terminal)
              /\ state = "exited" => pump.pc \in {"event", "done"}
<1>1. InChannel(inbox) = {} <=> ~ Sent(inbox, "output")
  BY DEF InChannel, Sent
<1>2. readerDone \in BOOLEAN
  BY DEF TypeOK
<1>. QED  BY <1>1, <1>2 DEF EndInv, EndFits, Sent, EofLast

\* One more message that is true.
LEMMA EndTold ==
    ASSUME NEW box \in Seq(Msgs), NEW m \in Msgs, NEW c, NEW done, NEW p, EndFits(box, c, done, p),
           NEW d, c = "reaped" => d = "reaped", NEW doneNow, done = TRUE => doneNow = TRUE,
           m.m = "exited" => d = "reaped", m.m = "eof" => doneNow = TRUE, m.m = "output" => done # TRUE
    PROVE  EndFits(Append(box, m), d, doneNow, p)
<1>. DEFINE more == Append(box, m)
<1>1. /\ \A kind : Sent(more, kind) <=> Sent(box, kind) \/ m.m = kind
      /\ EofLast(box) /\ (m.m = "output" => ~ Sent(box, "eof")) => EofLast(more)
  BY SentAppend
<1>. HIDE DEF more
<1>2. EndFits(more, d, doneNow, p)
  BY <1>1 DEF EndFits
<1>. QED  BY <1>2 DEF more

\* What the program itself printed as text grows only by a chunk that it prints itself.
LEMMA OwnAppend ==
    ASSUME NEW pr \in Seq(Prints), NEW x \in Prints
    PROVE  /\ ~ x.own => OwnText(Append(pr, x)) = OwnText(pr)
           /\ Len(pr) + 1 \notin OwnText(pr)
<1>. DEFINE more == Append(pr, x)
<1>1. /\ Len(pr) \in Nat /\ DOMAIN pr = 1 .. Len(pr) /\ DOMAIN more = 1 .. Len(pr) + 1
      /\ \A i \in 1 .. Len(pr) : more[i] = pr[i]
      /\ more[Len(pr) + 1] = x
  OBVIOUS
<1>. HIDE DEF more
<1>2. ~ x.own => OwnText(more) = OwnText(pr)
  BY <1>1 DEF OwnText
<1>3. Len(pr) + 1 \notin OwnText(pr)
  BY <1>1 DEF OwnText
<1>. QED  BY <1>2, <1>3 DEF more

\* With nothing on its way that the program printed itself, all of that is drawn.
LEMMA AllDrawn ==
    ASSUME TypeOK, FlowInv, pump.pc \in {"top", "wait"}, ~ Sent(inbox, "output"),
           \A i \in DOMAIN pty : pty[i].n \notin OwnText(printed)
    PROVE  OwnText(printed) \subseteq DrawnIn(terminal)
<1>1. printed \in Seq(Prints) /\ Len(printed) \in Nat /\ DOMAIN printed = 1 .. Len(printed)
      /\ Len(pty) \in Nat /\ DOMAIN pty = 1 .. Len(pty)
  BY ElementType DEF TypeOK, Prints
<1>2. pump.batch = {} /\ InChannel(inbox) = {}
  BY DEF FlowInv, InChannel, Sent
<1>3. PICK p : p = Passed(printed, pty)
  OBVIOUS
<1>4. p \in Nat /\ p = Len(printed) - Len(pty) /\ \A i \in DOMAIN pty : pty[i].n = p + i
  BY <1>3 DEF FlowInv, ReadFits, Passed
<1>5. \A n \in 1 .. p : printed[n].ask = "text" => n \in DrawnIn(terminal)
  <2>1. InChannel(inbox) \cup NumbersOf(pump.batch) = {}
    BY <1>2 DEF NumbersOf
  <2>. QED  BY <1>3, <2>1 DEF FlowInv, AskedFits
<1>6. ASSUME NEW n \in OwnText(printed) PROVE n \in DrawnIn(terminal)
  <2>1. n \in 1 .. Len(printed) /\ printed[n].ask = "text"
    BY <1>1 DEF OwnText
  <2>2. CASE n <= p
    BY <1>4, <1>5, <2>1, <2>2
  <2>3. CASE ~ (n <= p)
    <3>1. n - p \in DOMAIN pty /\ p + (n - p) = n
      BY <1>1, <1>4, <2>1, <2>3
    <3>. QED  BY <1>4, <3>1
  <2>. QED  BY <2>2, <2>3
<1>. QED  BY <1>6

\* A step that only adds a message that is true, or an item to the stream, or moves the pump to where it
\* may be.
LEMMA EndQuiet ==
    ASSUME TypeOK, EndInv, NEW box, box = inbox', EndFits(box, child, readerDone, pump'),
           UNCHANGED <<printed, pty, child, outlived, readerDone, state>>,
           DrawnIn(terminal) \subseteq DrawnIn(terminal'), inbox' \in Seq(Msgs),
           \/ pump'.pc = pump.pc /\ pump'.for = pump.for /\ pump'.left = pump.left /\ pump'.exit = pump.exit
           \/ state # "exited" /\ pump'.pc \in {"top", "busy", "deliver", "reply"}
    PROVE  EndInv'
<1>0. inbox \in Seq(Msgs)
  BY DEF TypeOK
<1>1. /\ readerDone => pty = <<>> /\ child # "running" /\ ~ outlived
      /\ pump.pc = "wait" /\ pump.for = "drain" =>
            pump.exit /\ (pump.left < DrainQuiet => \A i \in DOMAIN pty : pty[i].n \notin OwnText(printed))
      /\ pump.pc \in {"close", "exit", "event", "done"} =>
            child = "reaped" /\ OwnText(printed) \subseteq DrawnIn(terminal)
      /\ state = "exited" => pump.pc \in {"event", "done"}
  BY EndIs
<1>2. EndFits(inbox', child', readerDone', pump')
  OBVIOUS
<1>3. /\ (readerDone => pty = <<>> /\ child # "running" /\ ~ outlived)'
      /\ (pump.pc = "wait" /\ pump.for = "drain" =>
            pump.exit /\ (pump.left < DrainQuiet => \A i \in DOMAIN pty : pty[i].n \notin OwnText(printed)))'
      /\ (pump.pc \in {"close", "exit", "event", "done"} =>
            child = "reaped" /\ OwnText(printed) \subseteq DrawnIn(terminal))'
      /\ (state = "exited" => pump.pc \in {"event", "done"})'
  BY <1>1
<1>. QED  BY <1>2, <1>3 DEF EndInv, EndFits, Sent, EofLast, InChannel

\* Every step keeps what is known of the end true.
LEMMA EndStep ==
    ASSUME TypeOK, TypeOK', FlowInv, EndInv, [Next]_vars
    PROVE  EndInv'
<1>0. /\ printed \in Seq(Prints) /\ pty \in Seq(Chunks) /\ inbox \in Seq(Msgs) /\ terminal \in Seq(Items)
      /\ inbox' \in Seq(Msgs) /\ DrainQuiet \in Nat /\ DrainQuiet > 0 /\ pump.left \in Nat
  <2>1. DrainQuiet \in Nat \ {0}
    BY SessionAssumption
  <2>2. printed \in Seq(Prints)
    BY DEF TypeOK, Prints
  <2>. QED  BY <2>1, <2>2 DEF TypeOK
<1>p. /\ pump.pc \in {"top", "wait", "busy", "deliver", "reply", "close", "exit", "event", "done"}
      /\ DOMAIN pump = {"pc", "for", "left", "eof", "exit", "batch", "replies", "burst"}
  BY DEF TypeOK
<1>e. /\ EndFits(inbox, child, readerDone, pump)
      /\ readerDone => pty = <<>> /\ child # "running" /\ ~ outlived
      /\ pump.pc = "wait" /\ pump.for = "drain" =>
            pump.exit /\ (pump.left < DrainQuiet => \A i \in DOMAIN pty : pty[i].n \notin OwnText(printed))
      /\ pump.pc \in {"close", "exit", "event", "done"} =>
            child = "reaped" /\ OwnText(printed) \subseteq DrawnIn(terminal)
      /\ state = "exited" => pump.pc \in {"event", "done"}
  BY EndIs
<1>m. /\ Wake \in Msgs /\ Wake.m = "wake" /\ [m |-> "exited"] \in Msgs /\ [m |-> "eof"] \in Msgs
  BY DEF Wake, Msgs
<1>w. EndFits(Append(inbox, Wake), child, readerDone, pump)
  BY <1>0, <1>e, <1>m, EndTold
<1>1. CASE Aside
  <2>1. DrawnIn(terminal) \subseteq DrawnIn(terminal')
    <3>1. ASSUME NEW s \in Sizes, terminal' = Append(terminal, Resized(s)) PROVE DrawnIn(terminal) \subseteq DrawnIn(terminal')
      <4>1. Resized(s) \in Items /\ Resized(s).kind = "resized"
        BY DEF Resized, Items
      <4>2. DrawnIn(Append(terminal, Resized(s))) = DrawnIn(terminal)
        BY <1>0, <4>1, DrawnAppend
      <4>. QED  BY <3>1, <4>2
    <3>. QED  BY <1>1, <3>1 DEF Aside
  <2>2. EndFits(inbox', child, readerDone, pump)
    BY <1>1, <1>e, <1>w DEF Aside
  <2>3. UNCHANGED <<printed, pty, child, outlived, readerDone, state, pump>>
    BY <1>1 DEF Aside
  <2>. QED  BY <1>0, <2>1, <2>2, <2>3, EndQuiet
\* Moves of the pump, one by one, with the channel as it is.
<1>2. ASSUME UNCHANGED <<printed, pty, child, outlived, readerDone, inbox, terminal>>,
             pump'.eof = pump.eof, pump'.exit = pump.exit,
             pump'.pc = "wait" /\ pump'.for = "drain" =>
                pump'.exit /\ (pump'.left < DrainQuiet => \A i \in DOMAIN pty : pty[i].n \notin OwnText(printed)),
             pump'.pc \in {"close", "exit", "event", "done"} =>
                child = "reaped" /\ OwnText(printed) \subseteq DrawnIn(terminal),
             state' = "exited" => pump'.pc \in {"event", "done"}
      PROVE  EndInv'
  <2>1. /\ UNCHANGED inbox /\ EndFits(inbox', child', readerDone', pump')
    BY <1>2, <1>e DEF EndFits
  <2>2. /\ (readerDone => pty = <<>> /\ child # "running" /\ ~ outlived)'
        /\ (pump.pc = "wait" /\ pump.for = "drain" =>
              pump.exit /\ (pump.left < DrainQuiet => \A i \in DOMAIN pty : pty[i].n \notin OwnText(printed)))'
        /\ (pump.pc \in {"close", "exit", "event", "done"} =>
              child = "reaped" /\ OwnText(printed) \subseteq DrawnIn(terminal))'
        /\ (state = "exited" => pump.pc \in {"event", "done"})'
    BY <1>2, <1>e
  <2>. QED  BY <2>1, <2>2 DEF EndInv, EndFits, Sent, EofLast, InChannel
\* The threads, with the pump where it is.
<1>3. ASSUME UNCHANGED <<pump, state, terminal>>, EndFits(inbox', child', readerDone', pump),
             child = "reaped" => child' = "reaped" /\ OwnText(printed') = OwnText(printed)
                                 /\ ((\A i \in DOMAIN pty : pty[i].n \notin OwnText(printed))
                                     => \A i \in DOMAIN pty' : pty'[i].n \notin OwnText(printed)),
             readerDone' => pty' = <<>> /\ child' # "running" /\ ~ outlived'
      PROVE  EndInv'
  <2>1. pump.exit => child = "reaped"
    BY <1>e DEF EndFits
  <2>2. /\ (pump.pc = "wait" /\ pump.for = "drain" =>
              pump.exit /\ (pump.left < DrainQuiet => \A i \in DOMAIN pty : pty[i].n \notin OwnText(printed)))'
        /\ (pump.pc \in {"close", "exit", "event", "done"} =>
              child = "reaped" /\ OwnText(printed) \subseteq DrawnIn(terminal))'
        /\ (state = "exited" => pump.pc \in {"event", "done"})'
    BY <1>3, <1>e, <2>1
  <2>. QED  BY <1>3, <2>2 DEF EndInv, EndFits, Sent, EofLast, InChannel
<1>4. ASSUME NEW ask \in Asks \cup {"text"}, PrintChunk(ask) PROVE EndInv'
  <2>1. PICK x : x = [ask |-> ask, own |-> child = "running"]
    OBVIOUS
  <2>2. PICK c : c = [n |-> Len(printed) + 1, ask |-> ask]
    OBVIOUS
  <2>3. printed' = Append(printed, x) /\ pty' = Append(pty, c)
        /\ UNCHANGED <<pump, inbox, terminal, child, outlived, readerDone, state>>
        /\ (child = "running" \/ outlived)
    BY <1>4, <2>1, <2>2 DEF PrintChunk
  <2>4. x \in Prints /\ (child = "reaped" => ~ x.own)
    BY <2>1, SessionAssumption DEF Prints
  <2>5. ~ readerDone
    BY <1>e, <2>3
  <2>6. /\ child = "reaped" => OwnText(printed') = OwnText(printed)
        /\ c.n \notin OwnText(printed)
    BY <1>0, <2>2, <2>3, <2>4, OwnAppend
  <2>7. \A i \in DOMAIN pty' : (i \in DOMAIN pty /\ pty'[i] = pty[i]) \/ pty'[i] = c
    BY <1>0, <2>3
  <2>. QED  BY <1>3, <1>e, <2>3, <2>5, <2>6, <2>7
<1>5. CASE ChildEnds
  <2>1. /\ child = "running" /\ child' = "ended" /\ UNCHANGED <<printed, pty, pump, inbox, terminal, readerDone, state>>
    BY <1>5 DEF ChildEnds
  <2>2. ~ readerDone
    BY <1>e, <2>1
  <2>3. EndFits(inbox', child', readerDone', pump)
    BY <1>e, <2>1 DEF EndFits
  <2>. QED  BY <1>3, <2>1, <2>2, <2>3
<1>6. CASE GrandchildEnds
  BY <1>3, <1>6, <1>e DEF GrandchildEnds
<1>7. CASE WaiterStep
  <2>1. /\ child = "ended" /\ child' = "reaped" /\ inbox' = Append(inbox, [m |-> "exited"])
        /\ UNCHANGED <<printed, pty, pump, terminal, readerDone, outlived, state>>
    BY <1>7 DEF WaiterStep
  <2>2. EndFits(Append(inbox, [m |-> "exited"]), "reaped", readerDone, pump)
    BY <1>0, <1>e, <1>m, EndTold
  <2>3. EndFits(inbox', child', readerDone', pump)
    BY <2>1, <2>2
  <2>. QED  BY <1>3, <1>e, <2>1, <2>3
<1>8. CASE ReaderStep
  <2>1. ~ readerDone /\ UNCHANGED <<printed, pump, terminal, child, outlived, state>>
    BY <1>8 DEF ReaderStep
  <2>2. CASE pty # <<>> /\ inbox' = Append(inbox, [m |-> "output", chunk |-> Head(pty)]) /\ pty' = Tail(pty)
             /\ UNCHANGED readerDone
    <3>1. PICK m : m = [m |-> "output", chunk |-> Head(pty)]
      OBVIOUS
    <3>2. Head(pty) \in Chunks
      BY <1>0, <2>2
    <3>3. m \in Msgs /\ m.m = "output"
      BY <3>1, <3>2 DEF Msgs
    <3>7. readerDone # TRUE /\ m.m # "exited" /\ m.m # "eof"
      BY <2>1, <3>3
    <3>8. EndFits(inbox, child, readerDone, pump)
      BY <1>e
    <3>4. EndFits(Append(inbox, m), child, readerDone, pump)
      <4>1. /\ \A kind : Sent(Append(inbox, m), kind) <=> Sent(inbox, kind) \/ m.m = kind
            /\ EofLast(inbox) /\ (m.m = "output" => ~ Sent(inbox, "eof")) => EofLast(Append(inbox, m))
        BY <1>0, <3>3, SentAppend
      <4>. QED  BY <3>7, <3>8, <4>1 DEF EndFits
    <3>5. EndFits(inbox', child', readerDone', pump)
      BY <2>1, <2>2, <3>1, <3>4
    <3>6. \A i \in DOMAIN pty' : i + 1 \in DOMAIN pty /\ pty'[i] = pty[i + 1]
      BY <1>0, <2>2
    <3>. QED  BY <1>3, <2>1, <2>2, <3>5, <3>6
  <2>3. CASE pty = <<>> /\ child # "running" /\ ~ outlived /\ inbox' = Append(inbox, [m |-> "eof"])
             /\ readerDone' = TRUE /\ UNCHANGED pty
    <3>1. EndFits(Append(inbox, [m |-> "eof"]), child, TRUE, pump)
      BY <1>0, <1>e, <1>m, EndTold
    <3>2. EndFits(inbox', child', readerDone', pump)
      BY <2>1, <2>3, <3>1
    <3>. QED  BY <1>3, <2>1, <2>3, <3>2
  <2>. QED  BY <1>8, <2>2, <2>3 DEF ReaderStep
<1>9. CASE PumpTop
  <2>1. /\ pump.pc = "top" /\ UNCHANGED <<printed, pty, child, outlived, readerDone, inbox, terminal, state>>
        /\ pump'.eof = pump.eof /\ pump'.exit = pump.exit
        /\ pump'.pc \in {"wait", "close"}
        /\ (pump'.pc = "close" => pump.eof /\ pump.exit)
        /\ (pump'.pc = "wait" /\ pump'.for = "drain" => pump.exit /\ pump'.left = DrainQuiet)
    BY <1>9, <1>p DEF PumpTop
  <2>2. ASSUME pump'.pc = "close" PROVE child = "reaped" /\ OwnText(printed) \subseteq DrawnIn(terminal)
    <3>1. child = "reaped" /\ readerDone /\ ~ Sent(inbox, "output")
      BY <1>e, <2>1, <2>2 DEF EndFits
    <3>2. \A i \in DOMAIN pty : FALSE
      BY <1>0, <1>e, <3>1
    <3>3. OwnText(printed) \subseteq DrawnIn(terminal)
      BY <2>1, <3>1, <3>2, AllDrawn
    <3>. QED  BY <3>1, <3>3
  <2>. QED  BY <1>2, <1>0, <1>e, <2>1, <2>2
<1>10. CASE PumpReceive
  <2>1. PICK k \in 1 .. Len(inbox) :
           LET got == SubSeq(inbox, 1, k) IN
           /\ inbox' = SubSeq(inbox, k + 1, Len(inbox))
           /\ pump'.eof = (pump.eof \/ {i \in 1 .. k : got[i].m = "eof"} # {})
           /\ pump'.exit = (pump.exit \/ {i \in 1 .. k : got[i].m = "exited"} # {})
           /\ pump'.pc \in {"top", "busy", "deliver"}
    BY <1>p, <1>10 DEF PumpReceive
  <2>2. pump.pc = "wait" /\ UNCHANGED <<printed, pty, child, outlived, readerDone, terminal, state>>
    BY <1>10 DEF PumpReceive
  <2>3. \A i \in 1 .. k : i \in DOMAIN inbox /\ SubSeq(inbox, 1, k)[i] = inbox[i]
    BY <1>0
  <2>4. /\ pump'.eof => pump.eof \/ \E i \in 1 .. k : inbox[i].m = "eof"
        /\ pump'.exit => pump.exit \/ \E i \in 1 .. k : inbox[i].m = "exited"
    BY <2>1, <2>3
  <2>5. /\ pump'.eof => pump.eof \/ Sent(inbox, "eof")
        /\ pump'.exit => pump.exit \/ Sent(inbox, "exited")
    BY <2>3, <2>4 DEF Sent
  <2>6. PICK rest : rest = SubSeq(inbox, k + 1, Len(inbox))
    OBVIOUS
  <2>7. /\ EofLast(rest)
        /\ \A kind : Sent(rest, kind) => Sent(inbox, kind)
        /\ (\E i \in 1 .. k : inbox[i].m = "eof") => ~ Sent(rest, "output")
    <3>1. EofLast(inbox)
      BY <1>e DEF EndFits
    <3>. QED  BY <1>0, <2>6, <3>1, SentReceived
  <2>8. EndFits(rest, child, readerDone, pump')
    BY <1>e, <2>4, <2>5, <2>7 DEF EndFits
  <2>9. state # "exited"
    BY <1>e, <2>2
  <2>. QED  BY <1>0, <2>1, <2>2, <2>6, <2>8, <2>9, EndQuiet
<1>11. CASE PumpQuiet \/ PumpBusy \/ PumpReply
  <2>1. /\ UNCHANGED <<printed, pty, child, outlived, readerDone, inbox, terminal, state>>
        /\ pump'.eof = pump.eof /\ pump'.exit = pump.exit /\ pump'.pc \in {"top", "deliver"}
        /\ pump.pc \notin {"event", "done"}
    BY <1>11, <1>p DEF PumpQuiet, PumpBusy, PumpReply, TimedOut
  <2>. QED  BY <1>2, <1>e, <2>1
<1>12. CASE PumpLapse
  <2>1. /\ UNCHANGED <<printed, pty, child, outlived, readerDone, terminal, state>>
        /\ (inbox' = inbox \/ inbox' = Append(inbox, Wake))
        /\ pump'.eof = pump.eof /\ pump'.exit = pump.exit /\ pump'.pc = "top" /\ pump.pc = "wait"
    BY <1>12, <1>p DEF PumpLapse, Controlling, TimedOut
  <2>2. EndFits(inbox', child, readerDone, pump')
    BY <1>e, <1>w, <2>1 DEF EndFits
  <2>3. state # "exited"
    BY <1>e, <2>1
  <2>. QED  BY <1>0, <2>1, <2>2, <2>3, EndQuiet
<1>13. CASE PumpDrained
  <2>1. /\ UNCHANGED <<printed, pty, child, outlived, readerDone, inbox, terminal, state>>
        /\ pump'.eof = pump.eof /\ pump'.exit = pump.exit /\ pump'.pc = "close"
        /\ pump.pc = "wait" /\ pump.for = "drain" /\ pump.left = 0 /\ inbox = <<>>
    BY <1>13, <1>p DEF PumpDrained, TimedOut
  <2>2. \A i \in DOMAIN pty : pty[i].n \notin OwnText(printed)
    BY <1>0, <1>e, <2>1
  <2>3. ~ Sent(inbox, "output")
    BY <2>1 DEF Sent
  <2>4. OwnText(printed) \subseteq DrawnIn(terminal)
    BY <2>1, <2>2, <2>3, AllDrawn
  <2>5. child = "reaped"
    BY <1>e, <2>1 DEF EndFits
  <2>. QED  BY <1>2, <1>e, <2>1, <2>4, <2>5
<1>14. CASE PumpDeliver
  <2>. DEFINE text == {c.n : c \in {x \in pump.batch : x.ask = "text"}}
  <2>1. /\ UNCHANGED <<printed, pty, child, outlived, readerDone, inbox, state>>
        /\ pump'.eof = pump.eof /\ pump'.exit = pump.exit /\ pump'.pc \in {"top", "reply"} /\ pump.pc = "deliver"
    BY <1>14, <1>p DEF PumpDeliver
  <2>2. DrawnIn(terminal) \subseteq DrawnIn(terminal')
    <3>0. pump.batch \in SUBSET Chunks
      BY DEF TypeOK
    <3>1. text \in SUBSET Nat
      BY <3>0 DEF Chunks
    <3>2. Output(text) \in Items /\ Output(text).kind = "output" /\ Output(text).text = text
      BY <3>1 DEF Output, Items
    <3>3. terminal' = Append(terminal, Output(text))
      BY <1>14 DEF PumpDeliver
    <3>4. PICK x : x = Output(text)
      OBVIOUS
    <3>5. DrawnIn(Append(terminal, x)) = DrawnIn(terminal) \cup x.text
      BY <1>0, <3>2, <3>4, DrawnAppend
    <3>. QED  BY <3>3, <3>4, <3>5
  <2>3. EndFits(inbox', child, readerDone, pump')
    BY <1>e, <2>1 DEF EndFits
  <2>4. state # "exited"
    BY <1>e, <2>1
  <2>. QED  BY <1>0, <2>1, <2>2, <2>3, <2>4, EndQuiet
<1>15. CASE PumpClose \/ PumpExit \/ PumpEvent
  <2>1. /\ UNCHANGED <<printed, pty, child, outlived, readerDone, inbox, terminal>>
        /\ pump'.eof = pump.eof /\ pump'.exit = pump.exit
        /\ pump'.pc \in {"exit", "event", "done"} /\ pump.pc \in {"close", "exit", "event"}
        /\ (state' = "exited" => pump'.pc \in {"event", "done"} \/ state = "exited")
        /\ (pump.pc \in {"event"} => pump'.pc = "done") /\ (pump.pc = "exit" => pump'.pc = "event")
    BY <1>15, <1>p DEF PumpClose, PumpExit, PumpEvent
  <2>. QED  BY <1>2, <1>e, <2>1
<1>16. CASE Tick
  <2>1. /\ UNCHANGED <<printed, pty, child, outlived, readerDone, inbox, terminal, state>>
        /\ pump'.eof = pump.eof /\ pump'.exit = pump.exit /\ pump'.pc = pump.pc /\ pump'.for = pump.for
        /\ (pty = <<>> \/ readerDone)
    BY <1>16, <1>p DEF Tick
  <2>2. \A i \in DOMAIN pty : FALSE
    BY <1>0, <1>e, <2>1
  <2>. QED  BY <1>2, <1>e, <2>1, <2>2
<1>17. CASE LocalStep \/ LeaseStep \/ ViewerStep \/ WriteStep \/ UNCHANGED vars
  BY <1>1, <1>17, CallsAside
<1>. QED  BY <1>4, <1>5, <1>6, <1>7, <1>8, <1>9, <1>10, <1>11, <1>12, <1>13, <1>14, <1>15, <1>16, <1>17
          DEF Next, ProgramStep, PumpStep

\* FlowInv and EndInv at the start.
LEMMA FlowInit == ASSUME Init PROVE FlowInv /\ EndInv
<1>1. /\ printed = <<>> /\ pty = <<>> /\ inbox = <<>> /\ terminal = <<>> /\ asked = {}
      /\ pump.batch = {} /\ pump.replies = {} /\ pump.pc = "top" /\ ~ pump.eof /\ ~ pump.exit
      /\ ~ readerDone /\ state = "running"
  BY DEF Init
<1>2. Passed(printed, pty) = 0
  BY <1>1 DEF Passed
<1>3. InChannel(inbox) = {} /\ NumbersOf(pump.batch) = {} /\ AskedAbout(asked) = {}
  BY <1>1 DEF InChannel, NumbersOf, AskedAbout
<1>4. ReadFits(printed, pty)
  BY <1>1, <1>2 DEF ReadFits
<1>5. ChannelFits(printed, 0, inbox, pump.batch)
  BY <1>1 DEF ChannelFits
<1>6. AskedFits(printed, 0, {}, pump.replies, asked, DrawnIn(terminal))
  BY <1>1, <1>3 DEF AskedFits
<1>7. FlowInv
  BY <1>1, <1>2, <1>3, <1>4, <1>5, <1>6 DEF FlowInv
<1>8. EndInv
  BY <1>1 DEF EndInv, InChannel
<1>. QED  BY <1>7, <1>8

\* Where everything the program prints is, in every state.
LEMMA FlowAlways == Spec => [](TypeOK /\ StreamInv /\ FlowInv /\ EndInv)
<1>1. Init => FlowInv /\ EndInv
  BY FlowInit
<1>2. TypeOK /\ TypeOK' /\ StreamInv /\ FlowInv /\ EndInv /\ [Next]_vars => FlowInv' /\ EndInv'
  BY FlowStep, EndStep
<1>. QED  BY <1>1, <1>2, Exactness, PTL DEF Spec

\* OneAnswerer: no query the program prints is put to two answerers, and one for the cursor is put to
\* one, however terminals come and go and leases begin and end.
THEOREM OneAnswer == Spec => []OneAnswerer
<1>1. TypeOK /\ FlowInv => OneAnswerer
  <2>. SUFFICES ASSUME TypeOK, FlowInv PROVE OneAnswerer
    OBVIOUS
  <2>0. Len(printed) \in Nat /\ DOMAIN printed = 1 .. Len(printed)
    BY DEF TypeOK
  <2>1. PICK p : p = Passed(printed, pty)
    OBVIOUS
  <2>2. AskedFits(printed, p, InChannel(inbox) \cup NumbersOf(pump.batch), pump.replies, asked, DrawnIn(terminal))
    BY <2>1 DEF FlowInv
  <2>3. \A a, b \in asked : a.n = b.n => a = b
    BY <2>2 DEF AskedFits
  <2>4. \A a \in asked : a.n \in AskedAbout(asked)
    BY DEF AskedAbout
  <2>5. \A n \in pump.replies : \A a \in asked : a.n # n
    BY <2>2, <2>4 DEF AskedFits
  <2>6. ASSUME pump.pc \in {"top", "wait"}, inbox = <<>>, pty = <<>>, NEW n \in DOMAIN printed, printed[n].ask = "cursor"
        PROVE  \E a \in asked : a.n = n
    <3>1. pump.batch = {} /\ pump.replies = {}
      BY <2>6 DEF FlowInv
    <3>2. InChannel(inbox) = {} /\ NumbersOf(pump.batch) = {}
      BY <2>6, <3>1 DEF InChannel, NumbersOf
    <3>3. p = Len(printed)
      BY <2>0, <2>1, <2>6 DEF Passed
    <3>4. n \in AskedAbout(asked)
      BY <2>0, <2>2, <2>6, <3>1, <3>2, <3>3 DEF AskedFits
    <3>. QED  BY <3>4 DEF AskedAbout
  <2>. QED  BY <2>3, <2>5, <2>6 DEF OneAnswerer
<1>. QED  BY <1>1, FlowAlways, PTL

\* ProgramOutputComplete: whatever the program itself printed is on the terminal once the session has
\* exited, by end-of-file or by the drain wait.
THEOREM OutputComplete == Spec => []ProgramOutputComplete
<1>1. EndInv => ProgramOutputComplete
  <2>. SUFFICES ASSUME EndInv, state = "exited", NEW n \in DOMAIN printed, printed[n].own, printed[n].ask = "text"
                PROVE  \E i \in DOMAIN terminal : terminal[i].kind = "output" /\ n \in terminal[i].text
    BY DEF ProgramOutputComplete
  <2>1. OwnText(printed) \subseteq DrawnIn(terminal)
    BY DEF EndInv
  <2>2. n \in DrawnIn(terminal)
    BY <2>1 DEF OwnText
  <2>. QED  BY <2>2 DEF DrawnIn
<1>. QED  BY <1>1, FlowAlways, PTL

(***************************************************************************)
(* Terminals: what is drawn of a stream, and of one with an item more.     *)
(***************************************************************************)

\* Whether f says of each beginning of s what is drawn of it.
DrawnBy(f, s) ==
    f = [n \in 0 .. Len(s) |->
            IF n = 0 THEN <<>>
            ELSE IF Draws(s[n]) THEN Append(f[n - 1], s[n]) ELSE f[n - 1]]

\* The same, as far as its n-th item.
DrawnUpTo(f, s, n) ==
    /\ f[0] = <<>>
    /\ \A k \in 1 .. n : f[k] = IF Draws(s[k]) THEN Append(f[k - 1], s[k]) ELSE f[k - 1]

\* There is such a function as far as any item: otherwise there would be a first it does not reach.
LEMMA DrawnReaches ==
    ASSUME NEW s, NEW n \in Nat
    PROVE  \E f : DrawnUpTo(f, s, n)
<1>. DEFINE S == {k \in Nat : ~ \E f : DrawnUpTo(f, s, k)}
<1>. SUFFICES ASSUME S # {} PROVE FALSE
  OBVIOUS
<1>1. S \in SUBSET Nat
  OBVIOUS
<1>2. PICK m \in S : \A k \in S : m <= k
  <2>. HIDE DEF S
  <2>. QED  BY <1>1, MinIsLeast
<1>3. m # 0
  <2>1. DrawnUpTo([k \in {0} |-> <<>>], s, 0)
    BY DEF DrawnUpTo
  <2>. QED  BY <2>1
<1>4. m - 1 \in Nat /\ m - 1 \notin S
  <2>. QED  BY <1>1, <1>2, <1>3
<1>5. PICK f : DrawnUpTo(f, s, m - 1)
  BY <1>4
<1>. DEFINE g == [k \in 0 .. m |-> IF k = m THEN IF Draws(s[m]) THEN Append(f[m - 1], s[m]) ELSE f[m - 1]
                                   ELSE f[k]]
<1>6. g[0] = <<>>
  BY <1>3, <1>5 DEF DrawnUpTo
<1>7. ASSUME NEW k \in 1 .. m
      PROVE  g[k] = IF Draws(s[k]) THEN Append(g[k - 1], s[k]) ELSE g[k - 1]
  <2>1. k - 1 \in 0 .. m /\ k - 1 # m /\ g[k - 1] = f[k - 1]
    BY <1>4
  <2>2. CASE k = m
    <3>1. g[k] = IF Draws(s[m]) THEN Append(f[m - 1], s[m]) ELSE f[m - 1]
      BY <1>4, <2>2
    <3>. HIDE DEF g
    <3>. QED  BY <2>1, <2>2, <3>1
  <2>3. CASE k # m
    <3>1. k \in 1 .. m - 1 /\ g[k] = f[k]
      BY <1>4, <2>3
    <3>2. f[k] = IF Draws(s[k]) THEN Append(f[k - 1], s[k]) ELSE f[k - 1]
      BY <1>5, <3>1 DEF DrawnUpTo
    <3>. HIDE DEF g
    <3>. QED  BY <2>1, <3>1, <3>2
  <2>. QED  BY <2>2, <2>3
<1>8. DrawnUpTo(g, s, m)
  <2>. HIDE DEF g
  <2>. QED  BY <1>6, <1>7 DEF DrawnUpTo
<1>. HIDE DEF g
<1>. QED  BY <1>2, <1>8

\* Two such functions agree as far as both go: otherwise there would be a first place they do not.
LEMMA DrawnAgree ==
    ASSUME NEW s, NEW n \in Nat, NEW f, NEW g, DrawnUpTo(f, s, n), DrawnUpTo(g, s, n)
    PROVE  f[n] = g[n]
<1>. DEFINE S == {k \in 0 .. n : f[k] # g[k]}
<1>1. S = {}
  <2>. SUFFICES ASSUME S # {} PROVE FALSE
    OBVIOUS
  <2>1. S \in SUBSET Nat
    OBVIOUS
  <2>2. PICK m \in S : \A k \in S : m <= k
    <3>. HIDE DEF S
    <3>. QED  BY <2>1, MinIsLeast
  <2>3. m # 0
    BY <2>2 DEF DrawnUpTo
  <2>4. m \in 1 .. n /\ m - 1 \in 0 .. n /\ ~ (m <= m - 1)
    BY <2>3
  <2>5. f[m - 1] = g[m - 1]
    BY <2>2, <2>4
  <2>6. /\ f[m] = IF Draws(s[m]) THEN Append(f[m - 1], s[m]) ELSE f[m - 1]
        /\ g[m] = IF Draws(s[m]) THEN Append(g[m - 1], s[m]) ELSE g[m - 1]
    BY <2>4 DEF DrawnUpTo
  <2>. QED  BY <2>5, <2>6
<1>2. n \in 0 .. n
  OBVIOUS
<1>. QED  BY <1>1, <1>2

\* DrawnOf is what such a function says of the whole stream.
LEMMA DrawnIs ==
    ASSUME NEW s, Len(s) \in Nat, NEW g, DrawnUpTo(g, s, Len(s))
    PROVE  DrawnOf(s) = g[Len(s)]
<1>. DEFINE Step(h, n) == IF n = 0 THEN <<>>
                          ELSE IF Draws(s[n]) THEN Append(h[n - 1], s[n]) ELSE h[n - 1]
            f == [n \in 0 .. Len(s) |-> g[n]]
<1>1. DrawnBy(f, s)
  <2>1. ASSUME NEW n \in 0 .. Len(s) PROVE f[n] = Step(f, n)
    <3>1. CASE n = 0
      BY <3>1 DEF DrawnUpTo
    <3>2. CASE n # 0
      <4>1. n \in 1 .. Len(s) /\ n - 1 \in 0 .. Len(s)
        BY <3>2
      <4>2. f[n] = g[n] /\ f[n - 1] = g[n - 1]
        BY <4>1
      <4>3. g[n] = IF Draws(s[n]) THEN Append(g[n - 1], s[n]) ELSE g[n - 1]
        BY <4>1 DEF DrawnUpTo
      <4>. HIDE DEF f
      <4>. QED  BY <3>2, <4>2, <4>3
    <3>. QED  BY <3>1, <3>2
  <2>2. f = [n \in 0 .. Len(s) |-> f[n]]
    OBVIOUS
  <2>3. f = [n \in 0 .. Len(s) |-> Step(f, n)]
    <3>. HIDE DEF f, Step
    <3>. QED  BY <2>1, <2>2
  <2>. HIDE DEF f
  <2>. QED  BY <2>3 DEF DrawnBy
<1>. HIDE DEF f
<1>. DEFINE h == CHOOSE h : DrawnBy(h, s)
<1>2. DrawnBy(h, s)
  BY <1>1
<1>3. DrawnOf(s) = h[Len(s)]
  BY DEF DrawnOf, DrawnBy
<1>. HIDE DEF h
<1>4. DrawnUpTo(h, s, Len(s))
  <2>1. ASSUME NEW n \in 0 .. Len(s) PROVE h[n] = Step(h, n)
    BY <1>2 DEF DrawnBy
  <2>2. h[0] = <<>>
    <3>1. 0 \in 0 .. Len(s)
      OBVIOUS
    <3>. QED  BY <2>1, <3>1
  <2>3. ASSUME NEW k \in 1 .. Len(s)
        PROVE  h[k] = IF Draws(s[k]) THEN Append(h[k - 1], s[k]) ELSE h[k - 1]
    <3>1. k \in 0 .. Len(s) /\ k # 0
      OBVIOUS
    <3>. QED  BY <2>1, <3>1
  <2>. QED  BY <2>2, <2>3 DEF DrawnUpTo
<1>. QED  BY <1>3, <1>4, DrawnAgree

\* What is drawn of a stream with an item more: that item last, if it is drawn.
LEMMA DrawnOfAppend ==
    ASSUME NEW s \in Seq(Items), NEW x \in Items
    PROVE  DrawnOf(Append(s, x)) = IF Draws(x) THEN Append(DrawnOf(s), x) ELSE DrawnOf(s)
<1>. DEFINE all == Append(s, x)
<1>1. /\ Len(s) \in Nat /\ Len(all) = Len(s) + 1 /\ all[Len(s) + 1] = x
      /\ \A k \in 1 .. Len(s) : all[k] = s[k]
  OBVIOUS
<1>. HIDE DEF all
<1>2. PICK f : DrawnUpTo(f, all, Len(s) + 1)
  <2>1. Len(s) + 1 \in Nat
    BY <1>1
  <2>. QED  BY <2>1, DrawnReaches
<1>3. DrawnUpTo(f, s, Len(s))
  BY <1>1, <1>2 DEF DrawnUpTo
<1>4. DrawnOf(all) = f[Len(s) + 1] /\ DrawnOf(s) = f[Len(s)]
  BY <1>1, <1>2, <1>3, DrawnIs
<1>5. Len(s) + 1 \in 1 .. Len(s) + 1 /\ (Len(s) + 1) - 1 = Len(s)
  BY <1>1
<1>6. f[Len(s) + 1] = IF Draws(x) THEN Append(f[Len(s)], x) ELSE f[Len(s)]
  BY <1>1, <1>2, <1>5 DEF DrawnUpTo
<1>. QED  BY <1>4, <1>6 DEF all

\* A resize is not drawn.
LEMMA ResizeNotDrawn ==
    ASSUME NEW s \in Seq(Items), NEW z \in Sizes
    PROVE  DrawnOf(Append(s, Resized(z))) = DrawnOf(s)
BY DrawnOfAppend, ItemTypes DEF Draws

\* What viewers and the pump do keeps every attached terminal exact.
LEMMA TerminalStep ==
    ASSUME TypeOK, StreamInv, TerminalExact, [Next]_vars
    PROVE  TerminalExact'
<1>0. terminal \in Seq(Items) /\ shown \in [Terminals -> Seq(Items)] /\ attached \in [Viewers -> Nat]
      /\ Terminals \subseteq Viewers
  BY DEF TypeOK, Viewers
<1>1. ASSUME UNCHANGED shown, \A t \in Terminals : attached'[t] # 0 => attached[t] # 0,
             terminal' = terminal \/ \E z \in Sizes : terminal' = Append(terminal, Resized(z))
      PROVE  TerminalExact'
  <2>1. DrawnOf(terminal') = DrawnOf(terminal)
    BY <1>0, <1>1, ResizeNotDrawn
  <2>. QED  BY <1>1, <2>1 DEF TerminalExact
<1>2. CASE LocalStep \/ LeaseStep \/ WriteStep
  <2>1. UNCHANGED <<attached, shown>>
    <3>1. CASE LocalStep
      BY <3>1 DEF LocalStep, TakeLocalControl, LocalWrite, Unattended, Resize, AskController,
         UnchangedByCalls, clientVars
    <3>2. CASE LeaseStep
      <4>1. ASSUME NEW h \in Holders, NEW takeOver \in BOOLEAN, Acquire(h, takeOver)
            PROVE  UNCHANGED <<attached, shown>>
        BY <4>1 DEF Acquire, UnchangedByCalls
      <4>2. ASSUME NEW h \in Holders, NEW i \in DOMAIN granted, RenewLease(h, i) \/ ReleaseLease(h, i)
            PROVE  UNCHANGED <<attached, shown>>
        BY <4>2 DEF RenewLease, ReleaseLease, UnchangedByCalls
      <4>3. ASSUME NEW h \in Holders, NEW i \in DOMAIN granted, NEW n, LeaseInput(h, i, n)
            PROVE  UNCHANGED <<attached, shown>>
        BY <4>3 DEF LeaseInput, UnchangedByCalls
      <4>4. ASSUME NEW h \in Holders, NEW i \in DOMAIN granted, NEW z, ResizeLeased(h, i, z)
            PROVE  UNCHANGED <<attached, shown>>
        BY <4>4 DEF ResizeLeased, UnchangedByCalls
      <4>. QED  BY <3>2, <4>1, <4>2, <4>3, <4>4 DEF LeaseStep
    <3>3. CASE WriteStep
      BY <3>3 DEF WriteStep, Write, clientVars
    <3>. QED  BY <1>2, <3>1, <3>2, <3>3
  <2>2. terminal' = terminal \/ \E z \in Sizes : terminal' = Append(terminal, Resized(z))
    BY <1>2, CallsAside DEF Aside
  <2>. QED  BY <1>1, <2>1, <2>2
<1>3. CASE ViewerStep
  <2>1. ASSUME NEW t \in Terminals, AttachTerminal(t) PROVE TerminalExact'
    <3>1. /\ UNCHANGED terminal /\ shown' = [shown EXCEPT ![t] = terminal]
          /\ attached' = [attached EXCEPT ![t] = nextAttachment]
      BY <2>1 DEF AttachTerminal
    <3>. QED  BY <1>0, <3>1 DEF TerminalExact
  <2>2. ASSUME NEW w \in Watchers, NEW resume \in BOOLEAN, AttachWatcher(w, resume) PROVE TerminalExact'
    <3>1. UNCHANGED <<terminal, shown>> /\ attached' = [attached EXCEPT ![w] = nextAttachment] /\ w \notin Terminals
      BY <2>2, SessionAssumption DEF AttachWatcher
    <3>. QED  BY <1>0, <3>1 DEF TerminalExact
  <2>3. ASSUME NEW v \in Viewers, Detach(v) \/ Drop(v) PROVE TerminalExact'
    <3>1. UNCHANGED <<terminal, shown>> /\ attached' = [attached EXCEPT ![v] = 0]
      BY <2>3 DEF Detach, Drop, viewVars
    <3>. QED  BY <1>0, <3>1 DEF TerminalExact
  <2>. QED  BY <1>3, <2>1, <2>2, <2>3 DEF ViewerStep
<1>4. CASE PumpDeliver
  <2>. DEFINE item == Output({c.n : c \in {x \in pump.batch : x.ask = "text"}})
  <2>1. item \in Items
    <3>1. {c.n : c \in {x \in pump.batch : x.ask = "text"}} \in SUBSET Nat
      BY DEF TypeOK, Pumps, Chunks
    <3>. QED  BY <3>1, ItemTypes
  <2>2. /\ terminal' = Append(terminal, item) /\ UNCHANGED attached
        /\ shown' = [t \in Terminals |->
                        IF Attached(t) /\ Draws(item) THEN Append(shown[t], item) ELSE shown[t]]
    BY <1>4 DEF PumpDeliver, clientVars
  <2>. HIDE DEF item
  <2>3. ASSUME NEW t \in Terminals, attached'[t] # 0 PROVE DrawnOf(shown'[t]) = DrawnOf(terminal')
    <3>1. DrawnOf(shown[t]) = DrawnOf(terminal) /\ Attached(t) /\ shown[t] \in Seq(Items)
      BY <1>0, <2>2, <2>3, AttachedIs DEF TerminalExact
    <3>2. DrawnOf(terminal') = IF Draws(item) THEN Append(DrawnOf(terminal), item) ELSE DrawnOf(terminal)
      BY <1>0, <2>1, <2>2, DrawnOfAppend
    <3>3. CASE Draws(item)
      <4>1. shown'[t] = Append(shown[t], item)
        BY <2>2, <3>1, <3>3
      <4>2. DrawnOf(Append(shown[t], item)) = Append(DrawnOf(shown[t]), item)
        BY <2>1, <3>1, <3>3, DrawnOfAppend
      <4>. QED  BY <3>1, <3>2, <3>3, <4>1, <4>2
    <3>4. CASE ~ Draws(item)
      BY <2>2, <3>1, <3>2, <3>4
    <3>. QED  BY <3>3, <3>4
  <2>. QED  BY <2>3 DEF TerminalExact
<1>5. CASE PumpLapse
  <2>1. UNCHANGED <<attached, shown>>
    BY <1>5 DEF PumpLapse
  <2>2. terminal' = terminal \/ terminal' = Append(terminal, Resized(size))
    BY <1>5 DEF PumpLapse, Controlling
  <2>3. size \in Sizes
    BY DEF TypeOK
  <2>. QED  BY <1>1, <2>1, <2>2, <2>3
<1>6. CASE ProgramStep \/ WaiterStep \/ ReaderStep \/ UNCHANGED vars
  <2>1. CASE ProgramStep \/ WaiterStep \/ ReaderStep
    BY <1>1, <2>1 DEF ProgramStep, WaiterStep, ReaderStep, PrintChunk, ChildEnds, GrandchildEnds, clientVars, viewVars
  <2>2. CASE UNCHANGED vars
    BY <1>1, <2>2 DEF vars, clientVars, viewVars
  <2>. QED  BY <1>6, <2>1, <2>2
<1>7. CASE \/ PumpTop \/ PumpReceive \/ PumpQuiet \/ PumpDrained \/ PumpBusy \/ PumpReply \/ PumpClose
           \/ PumpExit \/ PumpEvent \/ Tick
  <2>1. CASE PumpTop \/ PumpReceive \/ PumpQuiet \/ PumpDrained \/ PumpBusy
    BY <1>1, <2>1 DEF PumpTop, PumpReceive, PumpQuiet, PumpDrained, PumpBusy, clientVars, viewVars
  <2>2. CASE PumpReply \/ PumpClose \/ PumpExit \/ PumpEvent \/ Tick
    BY <1>1, <2>2 DEF PumpReply, PumpClose, PumpExit, PumpEvent, Tick, clientVars, viewVars
  <2>. QED  BY <1>7, <2>1, <2>2
<1>. QED  BY <1>2, <1>3, <1>4, <1>5, <1>6, <1>7 DEF Next, PumpStep

\* TerminalExact: whatever is printed, resized, detached, lost and attached again, an attached terminal has
\* drawn all output once, in its order (Session::attach, Session::deliver).
THEOREM TerminalsExact == Spec => []TerminalExact
<1>1. Init => TerminalExact
  BY DEF Init, TerminalExact, Viewers
<1>2. TypeOK /\ StreamInv /\ TerminalExact /\ [Next]_vars => TerminalExact'
  BY TerminalStep
<1>. QED  BY <1>1, <1>2, Exactness, PTL DEF Spec
=============================================================================
