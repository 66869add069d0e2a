------------------------- MODULE RouteHealthProofs --------------------------
(***************************************************************************)
(* Proofs about RouteHealth, for any routes, attempts, cooldowns and number  *)
(* of lease identifiers.                                                    *)
(*                                                                         *)
(* The generation is the fence: every change to a gate advances it, so a     *)
(* probe whose generation still stands has seen no failure and finds the     *)
(* gate's cooldown over (Fenced).  Together with ProbeOwned, which ties each  *)
(* claim to the attempt that owns it, this is inductive.                    *)
(***************************************************************************)
EXTENDS RouteHealth, TLAPS

AttemptState ==
  [route : Route \union {NoRoute}, trusted : BOOLEAN, lease : 0 .. Leases,
   claims : UNION {[D -> Nat] : D \in SUBSET Gate}]

\* The part of the type that the argument needs.
Typed ==
  /\ now \in Nat /\ lastLease \in Nat /\ sound \in BOOLEAN
  /\ gate \in [Gate -> GateState]
  /\ att \in [Attempt -> AttemptState]

\* Only an attempt in flight has claims.
IdleClaimsNothing ==
  \A a \in Attempt : att[a].route = NoRoute => DOMAIN att[a].claims = {}

\* A claimed gate whose generation stands is past its cooldown and unblamed.
Fenced ==
  \A g \in Gate : gate[g].lease # 0 =>
    /\ gate[g].claimed <= gate[g].gen
    /\ gate[g].gen = gate[g].claimed => gate[g].open <= now /\ g \notin blamed

\* The inductive invariant.
IInv == Typed /\ IdleClaimsNothing /\ ProbeOwned /\ Fenced

-----------------------------------------------------------------------------
\* A gate's fields, and what each operation on one gate does to them.
LEMMA GateFields ==
  ASSUME NEW x \in GateState
  PROVE  /\ x.open \in Nat /\ x.gen \in Nat /\ x.claimed \in Nat
         /\ x.lease \in 0 .. Leases
  BY DEF GateState

LEMMA GateFreed ==
  ASSUME NEW x \in GateState
  PROVE  LET y == [x EXCEPT !.lease = 0, !.claimed = 0]
         IN  /\ y \in GateState
             /\ y.open = x.open /\ y.gen = x.gen /\ y.lease = 0
<1>1. 0 \in 0 .. Leases
  BY HealthAssumption
<1>2. [x EXCEPT !.lease = 0, !.claimed = 0] \in GateState
  BY <1>1 DEF GateState
<1> QED  BY <1>2 DEF GateState

LEMMA GateClosed ==
  ASSUME NEW n \in Nat
  PROVE  LET y == [open |-> Closed, gen |-> n, lease |-> 0, claimed |-> 0]
         IN  y \in GateState /\ y.lease = 0
  BY HealthAssumption DEF GateState, Closed

LEMMA GateMoved ==
  ASSUME NEW x \in GateState, NEW u \in Nat
  PROVE  LET y == [x EXCEPT !.gen = @ + 1, !.open = u]
         IN  /\ y \in GateState
             /\ y.open = u /\ y.gen = x.gen + 1
             /\ y.lease = x.lease /\ y.claimed = x.claimed
<1>1. x.gen + 1 \in Nat
  BY DEF GateState
<1>2. [x EXCEPT !.gen = @ + 1, !.open = u] = [x EXCEPT !.gen = x.gen + 1, !.open = u]
  BY DEF GateState
<1>3. [x EXCEPT !.gen = x.gen + 1, !.open = u] \in GateState
  BY <1>1 DEF GateState
<1> QED  BY <1>1, <1>2, <1>3 DEF GateState

LEMMA GateClaimed ==
  ASSUME NEW x \in GateState, NEW n \in 1 .. Leases
  PROVE  /\ Claimed(x, n) \in GateState
         /\ Claimed(x, n).open = x.open /\ Claimed(x, n).gen = x.gen + 1
         /\ Claimed(x, n).lease = n /\ Claimed(x, n).claimed = x.gen + 1
<1>1. x.gen + 1 \in Nat /\ n \in 0 .. Leases
  BY DEF GateState
<1>2. Claimed(x, n) = [x EXCEPT !.gen = x.gen + 1, !.lease = n, !.claimed = x.gen + 1]
  BY DEF GateState, Claimed
<1>3. Claimed(x, n) \in GateState
  BY <1>1, <1>2 DEF GateState
<1> QED  BY <1>2 , <1>3 DEF GateState

\* A lease identifier is never 0.
LEMMA LeaseIsPositive ==
  ASSUME Typed, NEW n \in NextLease
  PROVE  n \in 1 .. Leases
<1>1. PICK d \in 1 .. Leases : n = ((lastLease + d - 1) % Leases) + 1
  BY DEF NextLease
<1>2. lastLease + d - 1 \in Nat /\ Leases \in Nat \ {0}
  BY HealthAssumption DEF Typed
<1>3. (lastLease + d - 1) % Leases \in 0 .. Leases - 1
  BY <1>2
<1> QED  BY <1>1, <1>2, <1>3

\* The attempt that ends, seen from its gates: it owned them, and nobody else.
LEMMA EndingOwner ==
  ASSUME IInv, NEW a \in Attempt, NEW g \in Gate, Probing(a, g)
  PROVE  /\ Matches(gate[g], att[a].lease, att[a].claims[g]) /\ gate[g].lease # 0
         /\ \A b \in Attempt : Probing(b, g) => b = a
  BY DEF IInv, ProbeOwned

\* How the gates may look when attempt a has ended: a's gates are free, the
\* others keep their claim, no generation goes back, and a gate that failed or
\* whose cooldown grew has moved on.
Ended(a, new) ==
  \A g \in Gate :
    /\ new[g] \in GateState
    /\ Probing(a, g) => new[g].lease = 0
    /\ ~Probing(a, g) => /\ new[g].lease = gate[g].lease
                         /\ new[g].claimed = gate[g].claimed
                         /\ new[g].gen >= gate[g].gen
                         /\ new[g].gen = gate[g].gen => new[g].open = gate[g].open

\* An attempt that ends so leaves the invariant standing.
LEMMA EndIInv ==
  ASSUME IInv, NEW a \in Attempt, Ended(a, gate'), gate' \in [Gate -> GateState],
         att' = [att EXCEPT ![a] = NoAttempt], UNCHANGED <<now, lastLease, sound>>,
         \A g \in blamed' \ blamed : gate'[g].gen > gate[g].gen
  PROVE  IInv'
<1>0. NoAttempt \in AttemptState /\ DOMAIN NoAttempt.claims = {}
      /\ NoAttempt.route = NoRoute
  <2>1. [g \in {} |-> 0] \in [{} -> Nat] /\ {} \in SUBSET Gate
    OBVIOUS
  <2>2. [g \in {} |-> 0] \in UNION {[D -> Nat] : D \in SUBSET Gate}
    BY <2>1
  <2> QED  BY <2>2, HealthAssumption DEF NoAttempt, NoClaims, AttemptState
<1>1. Typed'
  BY <1>0 DEF IInv, Typed
<1>2. att'[a] = NoAttempt /\ \A b \in Attempt : b # a => att'[b] = att[b]
  BY DEF IInv, Typed
<1>3. IdleClaimsNothing'
  BY <1>0, <1>2 DEF IInv, IdleClaimsNothing
<1>4. \A b \in Attempt, g \in Gate :
        Probing(b, g)' <=> b # a /\ Probing(b, g)
  BY <1>0, <1>2 DEF Probing
<1>5. ProbeOwned'
  <2> SUFFICES ASSUME NEW g \in Gate
               PROVE  /\ gate'[g].lease # 0 <=> \E b \in Attempt : Probing(b, g)'
                      /\ \A b, c \in Attempt : Probing(b, g)' /\ Probing(c, g)' => b = c
                      /\ \A b \in Attempt : Probing(b, g)' =>
                           Matches(gate'[g], att'[b].lease, att'[b].claims[g])
    BY DEF ProbeOwned
  <2>1. CASE Probing(a, g)
    BY <1>4, <2>1, EndingOwner DEF Ended
  <2>2. CASE ~Probing(a, g)
    <3>1. gate'[g].lease = gate[g].lease /\ gate'[g].claimed = gate[g].claimed
      BY <2>2 DEF Ended
    <3>2. \A b \in Attempt : Probing(b, g)' <=> Probing(b, g)
      BY <1>4, <2>2
    <3> QED
      BY <1>2, <2>2, <3>1, <3>2 DEF IInv, ProbeOwned, Matches
  <2> QED  BY <2>1, <2>2
<1>6. Fenced'
  <2> SUFFICES ASSUME NEW g \in Gate, gate'[g].lease # 0
               PROVE  /\ gate'[g].claimed <= gate'[g].gen
                      /\ gate'[g].gen = gate'[g].claimed =>
                           gate'[g].open <= now' /\ g \notin blamed'
    BY DEF Fenced
  <2>1. gate[g] \in GateState /\ gate'[g] \in GateState
    BY DEF IInv, Typed
  <2>2. ~Probing(a, g)
    BY DEF Ended
  <2>3. /\ gate[g].lease # 0 /\ gate'[g].claimed = gate[g].claimed
        /\ gate'[g].gen >= gate[g].gen
        /\ gate'[g].gen = gate[g].gen => gate'[g].open = gate[g].open
    BY <2>2 DEF Ended
  <2>4. /\ gate[g].claimed <= gate[g].gen
        /\ gate[g].gen = gate[g].claimed => gate[g].open <= now /\ g \notin blamed
    BY <2>3 DEF IInv, Fenced
  <2>5. gate'[g].claimed <= gate'[g].gen
    BY <2>1, <2>3, <2>4 DEF GateState
  <2>6. ASSUME gate'[g].gen = gate'[g].claimed
        PROVE  gate'[g].gen = gate[g].gen /\ gate[g].gen = gate[g].claimed
    BY <2>1, <2>3, <2>4, <2>6 DEF GateState
  <2> QED  BY <2>1, <2>3, <2>4, <2>5, <2>6 DEF GateState
<1> QED  BY <1>1, <1>3, <1>5, <1>6 DEF IInv

\* A failure's effect on its own gate, and the release of the lease after it.
LEMMA FailureEnded ==
  ASSUME IInv, NEW a \in Attempt, NEW h \in Gate, NEW x \in GateState,
         x.lease = gate[h].lease, x.claimed = gate[h].claimed, x.gen = gate[h].gen + 1,
         gate' = Resolve([gate EXCEPT ![h] = x], a, Released)
  PROVE  /\ Ended(a, gate') /\ gate' \in [Gate -> GateState]
         /\ gate'[h].gen > gate[h].gen
         /\ \A g \in Gate : gate'[g].open = IF g = h THEN x.open ELSE gate[g].open
<1> DEFINE f == [gate EXCEPT ![h] = x]
<1>1. f \in [Gate -> GateState] /\ f[h] = x /\ \A g \in Gate : g # h => f[g] = gate[g]
  BY DEF IInv, Typed
<1>2. \A g \in Gate : gate'[g] =
        IF Probing(a, g) THEN Released(f[g], att[a].lease, att[a].claims[g]) ELSE f[g]
  BY DEF Resolve, Probing
<1>3. ASSUME NEW g \in Gate, Probing(a, g)
      PROVE  gate'[g] = [f[g] EXCEPT !.lease = 0, !.claimed = 0]
  <2>1. Matches(f[g], att[a].lease, att[a].claims[g])
    BY <1>1, <1>3, EndingOwner DEF Matches
  <2> QED  BY <1>2, <1>3, <2>1 DEF Released
<1>4. ASSUME NEW g \in Gate
      PROVE  /\ gate'[g] \in GateState /\ gate'[g].open = f[g].open
             /\ gate'[g].gen = f[g].gen
             /\ Probing(a, g) => gate'[g].lease = 0
             /\ ~Probing(a, g) => gate'[g] = f[g]
  <2>1. f[g] \in GateState
    BY <1>1
  <2> HIDE DEF f
  <2> QED  BY <1>2, <1>3, <2>1, GateFreed
<1>5. gate' \in [Gate -> GateState]
  BY <1>4 DEF Resolve
<1>6. \A g \in Gate : gate[g].gen \in Nat
  BY DEF IInv, Typed, GateState
<1>7. \A g \in Gate : /\ f[g].lease = gate[g].lease /\ f[g].claimed = gate[g].claimed
                      /\ f[g].gen >= gate[g].gen
                      /\ f[g].gen = gate[g].gen => f[g].open = gate[g].open
  BY <1>1, <1>6
<1>8. f[h].gen > gate[h].gen
      /\ \A g \in Gate : f[g].open = IF g = h THEN x.open ELSE gate[g].open
  BY <1>1, <1>6
<1> HIDE DEF f
<1>9. Ended(a, gate')
  BY <1>4, <1>7 DEF Ended
<1> QED  BY <1>4, <1>5, <1>8, <1>9

\* What completing an attempt does to its gates.
LEMMA SuccessEnded ==
  ASSUME IInv, NEW a \in Attempt, Complete(a)
  PROVE  /\ Ended(a, gate') /\ gate' \in [Gate -> GateState]
         /\ \A g \in Gate :
              \/ gate'[g].open = gate[g].open
              \/ gate[g].lease # 0 /\ gate[g].gen = gate[g].claimed
<1> DEFINE r == att[a].route
<1> DEFINE f == Resolve(gate, a, Healed)
<1>0. r \in Route /\ Health(r) \in Gate
  BY DEF Complete, IInv, Typed, AttemptState, Health, Gate
<1>1. \A g \in Gate : f[g] =
        IF Probing(a, g) THEN Healed(gate[g], att[a].lease, att[a].claims[g]) ELSE gate[g]
  BY DEF Resolve, Probing
<1>2. ASSUME NEW g \in Gate
      PROVE  /\ f[g] \in GateState
             /\ Probing(a, g) => f[g].lease = 0
             /\ ~Probing(a, g) => f[g] = gate[g]
             /\ f[g].open = gate[g].open \/ (gate[g].lease # 0 /\ gate[g].gen = gate[g].claimed)
  <2>1. gate[g] \in GateState
    BY DEF IInv, Typed
  <2>2. CASE ~Probing(a, g)
    BY <1>1, <2>1, <2>2
  <2>3. CASE Probing(a, g)
    <3>1. Matches(gate[g], att[a].lease, att[a].claims[g]) /\ gate[g].lease # 0
      BY <2>3, EndingOwner
    <3>2. CASE gate[g].gen = att[a].claims[g]
      <4>1. f[g] = [open |-> Closed, gen |-> gate[g].gen + 1, lease |-> 0, claimed |-> 0]
        BY <1>1, <2>3, <3>1, <3>2 DEF Healed
      <4>2. gate[g].gen + 1 \in Nat
        BY <2>1, GateFields
      <4>3. f[g] \in GateState /\ f[g].lease = 0
        BY <4>1, <4>2, GateClosed
      <4> QED  BY <2>3, <3>1, <3>2, <4>3 DEF Matches
    <3>3. CASE gate[g].gen # att[a].claims[g]
      <4>1. f[g] = [gate[g] EXCEPT !.lease = 0, !.claimed = 0]
        BY <1>1, <2>3, <3>1, <3>3 DEF Healed, Released
      <4> QED  BY <2>1, <2>3, <4>1, GateFreed
    <3> QED  BY <3>2, <3>3
  <2> QED  BY <2>2, <2>3
<1>3. f \in [Gate -> GateState]
  BY <1>2 DEF Resolve
<1>4. gate' = f \/ gate' = [f EXCEPT ![Health(r)].gen = @ + 1]
  BY DEF Complete, Success
<1>5. ASSUME NEW g \in Gate
      PROVE  /\ gate'[g] \in GateState /\ gate'[g].open = f[g].open
             /\ gate'[g].lease = f[g].lease /\ gate'[g].claimed = f[g].claimed
             /\ gate'[g].gen = f[g].gen \/ gate'[g].gen = f[g].gen + 1
  BY <1>0, <1>2, <1>3, <1>4 DEF GateState
<1>6. gate' \in [Gate -> GateState]
  BY <1>0, <1>3, <1>4 DEF GateState
<1>7. \A g \in Gate : gate[g].gen \in Nat
  BY DEF IInv, Typed, GateState
<1>8. Ended(a, gate')
  BY <1>2, <1>5, <1>7 DEF Ended
<1> QED  BY <1>2, <1>5, <1>6, <1>8

\* An attempt that says nothing about the provider.
LEMMA NeutralEnded ==
  ASSUME IInv, NEW a \in Attempt, Neutral(a)
  PROVE  /\ Ended(a, gate') /\ gate' \in [Gate -> GateState]
         /\ \A g \in Gate : gate'[g].open = gate[g].open
<1>1. \A g \in Gate : gate'[g] =
        IF Probing(a, g) THEN Released(gate[g], att[a].lease, att[a].claims[g]) ELSE gate[g]
  BY DEF Neutral, Resolve, Probing
<1>2. ASSUME NEW g \in Gate, Probing(a, g)
      PROVE  gate'[g] = [gate[g] EXCEPT !.lease = 0, !.claimed = 0]
  BY <1>1, <1>2, EndingOwner DEF Released
<1>3. ASSUME NEW g \in Gate
      PROVE  /\ gate'[g] \in GateState /\ gate'[g].open = gate[g].open
             /\ gate'[g].gen = gate[g].gen
             /\ Probing(a, g) => gate'[g].lease = 0
             /\ ~Probing(a, g) => gate'[g] = gate[g]
  <2>1. gate[g] \in GateState
    BY DEF IInv, Typed
  <2> QED  BY <1>1, <1>2, <2>1, GateFreed
<1>4. gate' \in [Gate -> GateState]
  BY <1>3 DEF Neutral, Resolve
<1>5. \A g \in Gate : gate[g].gen \in Nat
  BY DEF IInv, Typed, GateState
<1> QED  BY <1>3, <1>4, <1>5 DEF Ended

\* Failures advance the generation of the gate they are about.
LEMMA FailureStep ==
  ASSUME IInv, NEW a \in Attempt,
         RouteFailure(a) \/ \E hint \in Hint : CapacityRejected(a, hint)
  PROVE  IInv' /\ \A g \in Gate : gate'[g].open >= gate[g].open
<1>0. att[a].route \in Route /\ Health(att[a].route) \in Gate
      /\ Capacity(att[a].route) \in Gate /\ now \in Nat
  BY DEF RouteFailure, CapacityRejected, Failing, IInv, Typed, AttemptState, Health,
     Capacity, Gate
<1>1. PICK h \in Gate, x \in GateState :
        /\ x.lease = gate[h].lease /\ x.claimed = gate[h].claimed
        /\ x.gen = gate[h].gen + 1 /\ x.open >= gate[h].open
        /\ gate' = Resolve([gate EXCEPT ![h] = x], a, Released)
        /\ blamed' = blamed \union {h}
  <2>1. ASSUME NEW y \in GateState, NEW until \in Nat
        PROVE  /\ Reopened(y, until) \in GateState
               /\ Reopened(y, until).lease = y.lease
               /\ Reopened(y, until).claimed = y.claimed
               /\ Reopened(y, until).gen = y.gen + 1
               /\ Reopened(y, until).open >= y.open
    <3>1. y.open \in Nat /\ y.gen \in Nat
      BY GateFields
    <3>2. Later(y.open, until) \in Nat /\ Later(y.open, until) >= y.open
      BY <3>1 DEF Later
    <3> QED  BY <3>2, GateMoved DEF Reopened
  <2>2. ASSUME NEW y \in GateState
        PROVE  /\ [y EXCEPT !.gen = @ + 1] \in GateState
               /\ [y EXCEPT !.gen = @ + 1].lease = y.lease
               /\ [y EXCEPT !.gen = @ + 1].claimed = y.claimed
               /\ [y EXCEPT !.gen = @ + 1].gen = y.gen + 1
               /\ [y EXCEPT !.gen = @ + 1].open >= y.open
    BY <2>2 DEF GateState
  <2>3. \A g \in Gate : gate[g] \in GateState
    BY DEF IInv, Typed
  <2>4. CASE RouteFailure(a)
    <3> DEFINE h == Health(att[a].route)
    <3>1. now + Cooldown \in Nat
      BY <1>0, HealthAssumption
    <3>2. PICK x : /\ \/ x = Reopened(gate[h], now + Cooldown)
                      \/ x = [gate[h] EXCEPT !.gen = @ + 1]
                   /\ gate' = Resolve([gate EXCEPT ![h] = x], a, Released)
                   /\ blamed' = blamed \union {h}
      BY <2>4 DEF RouteFailure
    <3> QED  BY <1>0, <2>1, <2>2, <2>3, <3>1, <3>2
  <2>5. ASSUME NEW hint \in Hint, CapacityRejected(a, hint)
        PROVE  \E h \in Gate, x \in GateState :
                 /\ x.lease = gate[h].lease /\ x.claimed = gate[h].claimed
                 /\ x.gen = gate[h].gen + 1 /\ x.open >= gate[h].open
                 /\ gate' = Resolve([gate EXCEPT ![h] = x], a, Released)
                 /\ blamed' = blamed \union {h}
    <3> DEFINE c == Capacity(att[a].route)
    <3> DEFINE until == now + Clip(hint)
    <3>1. until \in Nat
      BY <1>0, HealthAssumption DEF Clip, Later
    <3>2. /\ gate' = Resolve([gate EXCEPT ![c] = Reopened(gate[c], until)], a, Released)
          /\ blamed' = blamed \union {c}
      BY <1>0, <2>5 DEF CapacityRejected, IInv, Typed
    <3> HIDE DEF until
    <3> QED  BY <1>0, <2>1, <2>3, <3>1, <3>2
  <2> QED  BY <2>4, <2>5
<1>2. /\ Ended(a, gate') /\ gate' \in [Gate -> GateState]
      /\ gate'[h].gen > gate[h].gen
      /\ \A g \in Gate : gate'[g].open = IF g = h THEN x.open ELSE gate[g].open
  BY <1>1, FailureEnded
<1>3. att' = [att EXCEPT ![a] = NoAttempt] /\ UNCHANGED <<now, lastLease, sound>>
  BY DEF RouteFailure, CapacityRejected, Failing
<1>4. \A g \in blamed' \ blamed : gate'[g].gen > gate[g].gen
  BY <1>1, <1>2
<1>5. IInv'
  BY <1>2, <1>3, <1>4, EndIInv
<1>6. \A g \in Gate : gate'[g].open >= gate[g].open
  <2>1. \A g \in Gate : gate[g].open \in Nat
    BY GateFields DEF IInv, Typed
  <2>2. x.open >= gate[h].open
    BY <1>1
  <2>3. \A g \in Gate : gate'[g].open = IF g = h THEN x.open ELSE gate[g].open
    BY <1>2
  <2> QED  BY ONLY <2>1, <2>2, <2>3
<1> QED  BY <1>5, <1>6

\* Starting an attempt: the gates it claims were free and past their cooldown.
LEMMA StartIInv ==
  ASSUME IInv, NEW a \in Attempt, NEW r \in Route, Start(a, r)
  PROVE  IInv' /\ \A g \in Gate : gate'[g].open = gate[g].open
<1> DEFINE due == {g \in {Health(r), Capacity(r)} : gate[g].open # Closed}
<1>0. due \subseteq Gate /\ DOMAIN att[a].claims = {}
      /\ \A g \in due : gate[g].lease = 0 /\ gate[g].open <= now
  BY DEF Start, Admits, Health, Capacity, Gate, IInv, IdleClaimsNothing
<1>1. CASE due = {}
  <2> DEFINE new == [route |-> r, trusted |-> sound, lease |-> 0, claims |-> NoClaims]
  <2>1. att' = [att EXCEPT ![a] = new]
        /\ UNCHANGED <<gate, lastLease, blamed, now, sound>>
    BY <1>1 DEF Start
  <2>2. new \in AttemptState /\ DOMAIN new.claims = {}
    <3>1. [g \in {} |-> 0] \in [{} -> Nat] /\ {} \in SUBSET Gate
      OBVIOUS
    <3>2. [g \in {} |-> 0] \in UNION {[D -> Nat] : D \in SUBSET Gate}
      BY <3>1
    <3>3. 0 \in 0 .. Leases /\ sound \in BOOLEAN
      BY HealthAssumption DEF IInv, Typed
    <3> QED  BY <3>2, <3>3 DEF AttemptState, NoClaims
  <2> HIDE DEF new
  <2>3. Typed'
    BY <2>1, <2>2 DEF IInv, Typed
  <2>4. att'[a] = new /\ \A b \in Attempt : b # a => att'[b] = att[b]
    BY <2>1 DEF IInv, Typed
  <2>5. IdleClaimsNothing'
    BY <2>2, <2>4 DEF IInv, IdleClaimsNothing
  <2>6. \A b \in Attempt, g \in Gate : Probing(b, g)' <=> Probing(b, g)
    BY <1>0, <2>2, <2>4 DEF Probing
  <2>7. ProbeOwned'
    <3>1. \A b \in Attempt, g \in Gate : Probing(b, g) => att'[b] = att[b]
      BY <1>0, <2>4 DEF Probing
    <3> QED  BY <2>1, <2>6, <3>1 DEF IInv, ProbeOwned, Matches
  <2>8. Fenced'
    BY <2>1 DEF IInv, Fenced
  <2> QED  BY <2>1, <2>3, <2>5, <2>7, <2>8 DEF IInv
<1>2. CASE due # {}
  <2>1. PICK lease \in NextLease :
          /\ gate' = [g \in Gate |-> IF g \in due THEN Claimed(gate[g], lease) ELSE gate[g]]
          /\ att' = [att EXCEPT ![a] =
                       [route |-> r, trusted |-> sound, lease |-> lease,
                        claims |-> [g \in due |-> gate[g].gen + 1]]]
          /\ lastLease' = lease
    BY <1>2 DEF Start
  <2>2. blamed' = blamed \ due /\ UNCHANGED <<now, sound>>
    BY <1>2 DEF Start
  <2>3. lease \in 1 .. Leases
    BY LeaseIsPositive DEF IInv
  <2> DEFINE new == [route |-> r, trusted |-> sound, lease |-> lease,
                     claims |-> [g \in due |-> gate[g].gen + 1]]
  <2>4. new \in AttemptState
    <3>1. [g \in due |-> gate[g].gen + 1] \in [due -> Nat] /\ due \in SUBSET Gate
      BY <1>0 DEF IInv, Typed, GateState
    <3>2. [g \in due |-> gate[g].gen + 1] \in UNION {[D -> Nat] : D \in SUBSET Gate}
      BY <3>1
    <3>3. lease \in 0 .. Leases /\ sound \in BOOLEAN
      BY <2>3, HealthAssumption DEF IInv, Typed
    <3> QED  BY <3>2, <3>3 DEF AttemptState
  <2>5. /\ att'[a] = new /\ \A b \in Attempt : b # a => att'[b] = att[b]
        /\ att' \in [Attempt -> AttemptState]
    BY <2>1, <2>4 DEF IInv, Typed
  <2>6. \A g \in Gate : gate[g] \in GateState
    BY DEF IInv, Typed
  <2>7. ASSUME NEW g \in due
        PROVE  /\ gate'[g] \in GateState /\ gate'[g].lease = lease
               /\ gate'[g].claimed = gate[g].gen + 1 /\ gate'[g].gen = gate[g].gen + 1
               /\ gate'[g].open = gate[g].open
    <3>1. gate'[g] = Claimed(gate[g], lease) /\ gate[g] \in GateState
      BY <1>0, <2>1, <2>6
    <3> QED  BY <2>3, <3>1, GateClaimed
  <2>8. \A g \in Gate : g \notin due => gate'[g] = gate[g]
    BY <2>1
  <2>9. gate' \in [Gate -> GateState]
    BY <2>1, <2>6, <2>7, <2>8
  <2>10. Typed'
    BY <2>1, <2>2, <2>3, <2>5, <2>9 DEF IInv, Typed
  <2>11. IdleClaimsNothing'
    <3>1. new.route # NoRoute
      BY HealthAssumption
    <3> QED  BY <2>5, <3>1 DEF IInv, IdleClaimsNothing
  <2>12. \A g \in Gate : /\ Probing(a, g)' <=> g \in due
                         /\ ~Probing(a, g)
                         /\ \A b \in Attempt : b # a => (Probing(b, g)' <=> Probing(b, g))
    BY <1>0, <2>5 DEF Probing
  <2>13. ProbeOwned'
    <3> SUFFICES ASSUME NEW g \in Gate
                 PROVE  /\ gate'[g].lease # 0 <=> \E b \in Attempt : Probing(b, g)'
                        /\ \A b, c \in Attempt : Probing(b, g)' /\ Probing(c, g)' => b = c
                        /\ \A b \in Attempt : Probing(b, g)' =>
                             Matches(gate'[g], att'[b].lease, att'[b].claims[g])
      BY DEF ProbeOwned
    <3>1. CASE g \in due
      <4>1. \A b \in Attempt : ~Probing(b, g)
        BY <1>0, <3>1 DEF IInv, ProbeOwned
      <4>2. \A b \in Attempt : Probing(b, g)' <=> b = a
        BY <2>12, <3>1, <4>1
      <4>3. att'[a].lease = lease /\ att'[a].claims[g] = gate[g].gen + 1
        BY <2>5, <3>1
      <4>4. gate'[g].lease = lease /\ lease # 0 /\ gate'[g].claimed = gate[g].gen + 1
        BY <2>3, <2>7, <3>1
      <4> QED  BY <4>2, <4>3, <4>4 DEF Matches
    <3>2. CASE g \notin due
      <4>1. \A b \in Attempt : Probing(b, g)' <=> Probing(b, g)
        BY <2>12, <3>2
      <4>2. \A b \in Attempt : Probing(b, g) => att'[b] = att[b]
        BY <2>5, <2>12
      <4> QED  BY <2>8, <3>2, <4>1, <4>2 DEF IInv, ProbeOwned, Matches
    <3> QED  BY <3>1, <3>2
  <2>14. Fenced'
    <3> SUFFICES ASSUME NEW g \in Gate, gate'[g].lease # 0
                 PROVE  /\ gate'[g].claimed <= gate'[g].gen
                        /\ gate'[g].gen = gate'[g].claimed =>
                             gate'[g].open <= now' /\ g \notin blamed'
      BY DEF Fenced
    <3>1. CASE g \in due
      BY <1>0, <2>2, <2>6, <2>7, <3>1 DEF GateState
    <3>2. CASE g \notin due
      BY <2>2, <2>8, <3>2 DEF IInv, Fenced
    <3> QED  BY <3>1, <3>2
  <2> QED  BY <2>7, <2>8, <2>10, <2>11, <2>13, <2>14 DEF IInv
<1> QED  BY <1>1, <1>2

\* Every step keeps the inductive invariant.
LEMMA NextIInv == IInv /\ [Next]_vars => IInv'
<1> SUFFICES ASSUME IInv, [Next]_vars PROVE IInv'
  OBVIOUS
<1>1. CASE UNCHANGED vars
  BY <1>1 DEF vars, IInv, Typed, IdleClaimsNothing, ProbeOwned, Probing, Matches, Fenced
<1>2. CASE \E a \in Attempt, r \in Route : Start(a, r)
  BY <1>2, StartIInv
<1>3. ASSUME NEW a \in Attempt, Ends(a) PROVE IInv'
  <2>1. CASE Complete(a)
    <3>1. att' = [att EXCEPT ![a] = NoAttempt] /\ UNCHANGED <<now, lastLease, sound, blamed>>
      BY <2>1 DEF Complete
    <3> QED  BY <2>1, <3>1, SuccessEnded, EndIInv
  <2>2. CASE Neutral(a)
    <3>1. att' = [att EXCEPT ![a] = NoAttempt] /\ UNCHANGED <<now, lastLease, sound, blamed>>
      BY <2>2 DEF Neutral
    <3> QED  BY <2>2, <3>1, NeutralEnded, EndIInv
  <2>3. CASE RouteFailure(a) \/ \E hint \in Hint : CapacityRejected(a, hint)
    BY <2>3, FailureStep
  <2> QED  BY <1>3, <2>1, <2>2, <2>3 DEF Ends
<1>4. CASE Tick
  BY <1>4 DEF Tick, IInv, Typed, IdleClaimsNothing, ProbeOwned, Probing, Matches, Fenced,
     GateState
<1>5. CASE Recover
  BY <1>5 DEF Recover, IInv, Typed, IdleClaimsNothing, ProbeOwned, Probing, Matches, Fenced
<1> QED
  BY <1>1, <1>2, <1>3, <1>4, <1>5 DEF Next

\* No gate is open and nothing is in flight at the start.
LEMMA InitIInv == Init => IInv
<1> SUFFICES ASSUME Init PROVE IInv
  OBVIOUS
<1>1. NoAttempt \in AttemptState /\ DOMAIN NoAttempt.claims = {}
  <2>1. [g \in {} |-> 0] \in [{} -> Nat] /\ {} \in SUBSET Gate
    OBVIOUS
  <2>2. [g \in {} |-> 0] \in UNION {[D -> Nat] : D \in SUBSET Gate}
    BY <2>1
  <2> QED  BY <2>2, HealthAssumption DEF NoAttempt, NoClaims, AttemptState
<1>2. Typed
  <2>1. [open |-> Closed, gen |-> 0, lease |-> 0, claimed |-> 0] \in GateState
    BY GateClosed
  <2> QED  BY <1>1, <2>1 DEF Init, Typed
<1> QED
  BY <1>1, <1>2 DEF Init, IInv, IdleClaimsNothing, ProbeOwned, Probing, Fenced

\* The inductive invariant holds throughout.
LEMMA Inductive == Spec => []IInv
  BY InitIInv, NextIInv, PTL DEF Spec

-----------------------------------------------------------------------------
\* No probe herd and no abandoned claim: a gate shows a probe in flight exactly
\* when one attempt in flight owns it.
THEOREM ProbesAreOwned == Spec => []ProbeOwned
<1>1. IInv => ProbeOwned
  BY DEF IInv
<1> QED  BY <1>1, Inductive, PTL

\* A step that lowers a gate's deadline is the success of an unfenced probe.
LEMMA OnlyHealing ==
  ASSUME IInv, Next, NEW g \in Gate
  PROVE  \/ gate'[g].open >= gate[g].open
         \/ gate[g].lease # 0 /\ gate[g].gen = gate[g].claimed
<1>0. gate[g].open \in Nat
  BY DEF IInv, Typed, GateState
<1>1. CASE \E a \in Attempt, r \in Route : Start(a, r)
  BY <1>0, <1>1, StartIInv
<1>2. ASSUME NEW a \in Attempt, Ends(a)
      PROVE  \/ gate'[g].open >= gate[g].open
             \/ gate[g].lease # 0 /\ gate[g].gen = gate[g].claimed
  <2>1. CASE Complete(a)
    BY <1>0, <2>1, SuccessEnded
  <2>2. CASE Neutral(a)
    BY <1>0, <2>2, NeutralEnded
  <2>3. CASE RouteFailure(a) \/ \E hint \in Hint : CapacityRejected(a, hint)
    BY <2>3, FailureStep
  <2> QED  BY <1>2, <2>1, <2>2, <2>3 DEF Ends
<1>3. CASE Tick \/ Recover
  BY <1>0, <1>3 DEF Tick, Recover
<1> QED  BY <1>1, <1>2, <1>3 DEF Next

\* A gate closes only while a probe of it is in flight and only if nothing has
\* failed there since the probe was claimed.
THEOREM OnlyProbesHeal == Spec => OnlyCleanProbeHeals
<1>1. ASSUME IInv, Next
      PROVE  \A g \in Gate : gate[g].open # Closed /\ gate'[g].open = Closed =>
               gate[g].lease # 0 /\ g \notin blamed
  <2> SUFFICES ASSUME NEW g \in Gate, gate[g].open # Closed, gate'[g].open = Closed
               PROVE  gate[g].lease # 0 /\ g \notin blamed
    OBVIOUS
  <2>1. ~(gate'[g].open >= gate[g].open)
    BY <1>1 DEF IInv, Typed, GateState, Closed
  <2>2. gate[g].lease # 0 /\ gate[g].gen = gate[g].claimed
    BY <1>1, <2>1, OnlyHealing
  <2> QED  BY <1>1, <2>2 DEF IInv, Fenced
<1>2. IInv /\ [Next]_vars =>
        [\A g \in Gate : gate[g].open # Closed /\ gate'[g].open = Closed =>
           gate[g].lease # 0 /\ g \notin blamed]_vars
  BY <1>1
<1> QED  BY <1>2, Inductive, PTL DEF Spec, OnlyCleanProbeHeals

\* Within its cooldown a gate neither closes nor has its cooldown shortened.
THEOREM CooldownStands == Spec => CoolsDown
<1>1. ASSUME IInv, Next
      PROVE  \A g \in Gate : now < gate[g].open => gate'[g].open >= gate[g].open
  <2> SUFFICES ASSUME NEW g \in Gate, now < gate[g].open
               PROVE  gate'[g].open >= gate[g].open
    OBVIOUS
  <2>1. gate[g].open \in Nat /\ now \in Nat
    BY <1>1 DEF IInv, Typed, GateState
  <2>2. ~(gate[g].lease # 0 /\ gate[g].gen = gate[g].claimed)
    BY <1>1, <2>1 DEF IInv, Fenced
  <2> QED  BY <1>1, <2>2, OnlyHealing
<1>2. IInv /\ [Next]_vars =>
        [\A g \in Gate : now < gate[g].open => gate'[g].open >= gate[g].open]_vars
  BY <1>1
<1> QED  BY <1>2, Inductive, PTL DEF Spec, CoolsDown

=============================================================================
