------------------------------ MODULE Control ------------------------------
(***************************************************************************)
(* Who may type into a session, and for how long                           *)
(* (crates/pty-host/src/control.rs).                                       *)
(*                                                                         *)
(* The control state of a session is a record                              *)
(*   generation  bumped whenever control changes hands                     *)
(*   who         "nobody", "local" (the person at the computer), or the    *)
(*               name of the holder of a lease                             *)
(*   id          the lease's id; 0 when there is no lease                  *)
(*   left        how long the hold still lasts.  The code keeps the time   *)
(*               of the last local input, or of the lease's expiry, and    *)
(*               compares it with the clock; the model keeps the distance. *)
(*   input       the last input number accepted under the lease            *)
(*                                                                         *)
(* Every method of Control is an operator from the state before to the     *)
(* state after.  Each one first lets a hold that ran out lapse: a hold     *)
(* lapses lazily, when somebody next looks.                                *)
(***************************************************************************)
EXTENDS Naturals

CONSTANTS
    Holders,     \* the names devices ask with
    LocalHold,   \* how long local control lasts after the last local input
    LeaseTtl     \* how long a lease lasts without renewal

ASSUME HoldersAssumption == Holders \cap {"nobody", "local"} = {}
ASSUME HoldsAssumption == LocalHold \in Nat \ {0} /\ LeaseTtl \in Nat \ {0}

\* Controller: what numbered viewers are told
Controllers == {"nobody", "local"} \cup Holders

ControlStates == [generation: Nat, who: Controllers, id: Nat, left: Nat, input: Nat]

\* LeaseRef
LeaseRefs == [id: Nat, generation: Nat]

NewControl == [generation |-> 0, who |-> "nobody", id |-> 0, left |-> 0, input |-> 0]

\* Control given up, by release or by lapse
GivenUp(c) ==
    [generation |-> c.generation + 1, who |-> "nobody", id |-> 0, left |-> 0, input |-> 0]

Lapse(c) == IF c.who # "nobody" /\ c.left = 0 THEN GivenUp(c) ELSE c

Controller(c) == Lapse(c).who

Leased(c) == Controller(c) \in Holders

\* Something was typed at this computer: it takes control, whoever held it
LocalInput(c) ==
    LET l == Lapse(c) IN
    [generation |-> IF l.who = "local" THEN l.generation ELSE l.generation + 1,
     who |-> "local", id |-> 0, left |-> LocalHold, input |-> 0]

\* Never from the person at the computer; from another holder only by take-over.
MayAcquire(c, h, takeOver) ==
    /\ Controller(c) # "local"
    /\ Controller(c) \in {"nobody", h} \/ takeOver

\* The lease handed out, under the fresh id.  The same holder asking again gets a new one.
Acquired(c, h, id) ==
    [generation |-> Lapse(c).generation + 1, who |-> h, id |-> id,
     left |-> LeaseTtl, input |-> 0]

\* Whether ref names the lease in force
Check(c, ref) ==
    /\ Leased(c)
    /\ Lapse(c).id = ref.id
    /\ Lapse(c).generation = ref.generation

\* (mutant) a renewal that does not look first whether the hold ran out
RenewLapsed(c, ref) ==
    IF c.who \in Holders /\ c.id = ref.id /\ c.generation = ref.generation
    THEN [c EXCEPT !.left = LeaseTtl] ELSE Lapse(c)

Renew(c, ref) == IF Check(c, ref) THEN [Lapse(c) EXCEPT !.left = LeaseTtl] ELSE Lapse(c)

Release(c, ref) == IF Check(c, ref) THEN GivenUp(Lapse(c)) ELSE Lapse(c)

\* (mutant) input accepted although some before it is missing
DeliverySkipping(c, ref, n) ==
    IF Check(c, ref) THEN (IF n <= Lapse(c).input THEN "repeat" ELSE "fresh") ELSE "lost"

\* What the lease makes of input number n
Delivery(c, ref, n) ==
    CASE ~ Check(c, ref)        -> "lost"
      [] n <= Lapse(c).input    -> "repeat"
      [] n > Lapse(c).input + 1 -> "outOfOrder"
      [] OTHER                  -> "fresh"

Input(c, ref, n) ==
    IF Delivery(c, ref, n) = "fresh" THEN [Lapse(c) EXCEPT !.input = n] ELSE Lapse(c)

\* (mutant) the pump is never woken for a hold that ends sooner
LapsesSoonerNever(c, d) == FALSE

\* Whether the hold of d ends sooner than that of c, for whoever waits for it to end
LapsesSooner(c, d) ==
    /\ d.who # "nobody"
    /\ c.who = "nobody" \/ d.left < c.left

\* Time passes
Aged(c) == [c EXCEPT !.left = IF @ = 0 THEN 0 ELSE @ - 1]
=============================================================================
