----------------------------- MODULE RouteHealth -----------------------------
(***************************************************************************)
(* Circuit breaking for inference routes in the OpenSecret service          *)
(* (inference/health.rs).  Every route has two gates, its own health and its *)
(* provider's capacity.  A gate that has opened stays open for a cooldown;   *)
(* after it, one attempt may claim the gate as a half-open probe, and only   *)
(* the success of that attempt closes it.  Attempts admitted earlier end     *)
(* whenever they end (web/openai.rs AttemptObservationGuard), and what they  *)
(* report is applied to gates that may since have opened, closed or been     *)
(* claimed.                                                                 *)
(*                                                                         *)
(* One mutex guards the state and the clock is read under it, so each        *)
(* operation is one action.                                                 *)
(***************************************************************************)
EXTENDS Naturals, Sequences

CONSTANTS
  Route,
  NoRoute,       \* where an idle attempt is
  Attempt,       \* provider attempts that may be in flight at once
  Window,        \* route_failure_window
  Threshold,     \* route_failures_to_open
  Cooldown,      \* route_open_cooldown
  MinCapacity,   \* minimum_capacity_cooldown
  MaxCapacity,   \* max_capacity_cooldown
  Hint,          \* retry-after hints providers may send; 0 for none
  Leases,        \* probe lease identifiers before the counter wraps
  MaxFailures,   \* bound on failures reported
  MaxDrops,      \* bound on neutral ends
  MaxTime        \* bound on the clock

ASSUME HealthAssumption ==
  /\ Window \in Nat /\ Threshold \in Nat \ {0} /\ Cooldown \in Nat \ {0}
  /\ MinCapacity \in Nat \ {0} /\ MaxCapacity \in Nat /\ MinCapacity <= MaxCapacity
  /\ Hint \subseteq Nat /\ Leases \in Nat \ {0}
  /\ NoRoute \notin Route
  /\ MaxFailures \in Nat /\ MaxDrops \in Nat /\ MaxTime \in Nat

VARIABLES
  now,
  gate,       \* open_until, generation and active_probe of every gate
  fails,      \* failure_times of every route
  lastLease,  \* next_probe_lease_id
  att,        \* attempts in flight, each with the probe lease it owns
  blamed,     \* history: gates that failed since their probe was claimed
  sound,      \* the providers work again: attempts begun from now on succeed
  failures, drops

vars == <<now, gate, fails, lastLease, att, blamed, sound, failures, drops>>

Health(r) == <<r, "health">>
Capacity(r) == <<r, "capacity">>
Gate == Route \X {"health", "capacity"}

\* open_until is None (Closed) or a time, which is never 0; a lease is never 0
\* either, so lease 0 is active_probe None.
Closed == 0
GateState == [open : Nat, gen : Nat, lease : 0 .. Leases, claimed : Nat]

NoClaims == [g \in {} |-> 0]
NoAttempt == [route |-> NoRoute, trusted |-> FALSE, lease |-> 0, claims |-> NoClaims]

TypeOK ==
  /\ now \in 0 .. MaxTime
  /\ gate \in [Gate -> GateState]
  /\ \A g \in Gate : gate[g].open <= MaxTime
  /\ \A r \in Route : /\ fails[r] \in Seq(0 .. now)
                      /\ Len(fails[r]) <= Threshold
  /\ lastLease \in 0 .. Leases
  /\ \A a \in Attempt : /\ att[a].route \in Route \union {NoRoute}
                        /\ att[a].lease \in 0 .. Leases
                        /\ DOMAIN att[a].claims \subseteq Gate
  /\ blamed \subseteq Gate
  /\ sound \in BOOLEAN
  /\ failures \in 0 .. MaxFailures /\ drops \in 0 .. MaxDrops

Init ==
  /\ now = 0
  /\ gate = [g \in Gate |-> [open |-> Closed, gen |-> 0, lease |-> 0, claimed |-> 0]]
  /\ fails = [r \in Route |-> << >>]
  /\ lastLease = 0
  /\ att = [a \in Attempt |-> NoAttempt]
  /\ blamed = {}
  /\ sound = FALSE
  /\ failures = 0 /\ drops = 0

-----------------------------------------------------------------------------
(* One gate. *)

Later(a, b) == IF a < b THEN b ELSE a

\* advance_generation and extend_open_until.
Reopened(x, until) == [x EXCEPT !.gen = @ + 1, !.open = Later(@, until)]

\* active_probe_matches.
Matches(x, lease, n) == x.lease = lease /\ x.claimed = n

\* Mutant: a lease that ends leaves the gate claimed.
ReleasedNever(x, lease, n) == x

\* release_probe_claims.
Released(x, lease, n) ==
  IF Matches(x, lease, n) THEN [x EXCEPT !.lease = 0, !.claimed = 0] ELSE x

\* Mutant: the probe's success closes whatever it finds.
HealedUnfenced(x, lease, n) ==
  IF Matches(x, lease, n)
  THEN [open |-> Closed, gen |-> x.gen + 1, lease |-> 0, claimed |-> 0]
  ELSE x

\* resolve_probe_success: only when nothing has moved the gate since the claim.
Healed(x, lease, n) ==
  IF Matches(x, lease, n) /\ x.gen = n
  THEN [open |-> Closed, gen |-> x.gen + 1, lease |-> 0, claimed |-> 0]
  ELSE Released(x, lease, n)

\* claim_probe_gate.
Claimed(x, lease) ==
  [x EXCEPT !.gen = @ + 1, !.lease = lease, !.claimed = x.gen + 1]

\* What the lease of attempt a does to the gates f when it ends so.
Resolve(f, a, Op(_, _, _)) ==
  LET claims == att[a].claims IN
  [g \in Gate |-> IF g \in DOMAIN claims THEN Op(f[g], att[a].lease, claims[g])
                  ELSE f[g]]

-----------------------------------------------------------------------------
(* Operations. *)

\* next_probe_lease_id: the counter wraps past 0 and skips what is in use.
NextLease ==
  LET after(d) == ((lastLease + d - 1) % Leases) + 1
      unused(d) == \A g \in Gate : gate[g].lease # after(d)
  IN {after(d) : d \in {e \in 1 .. Leases :
                          unused(e) /\ \A c \in 1 .. e - 1 : ~unused(c)}}

\* Neither gate is being probed and neither is within its cooldown.
Admits(r) == \A g \in {Health(r), Capacity(r)} :
  gate[g].lease = 0 /\ gate[g].open <= now

\* try_claim_probe, immediately before every send: an attempt starts when no
\* gate refuses it, and owns every gate whose cooldown has passed.
Start(a, r) ==
  LET due == {g \in {Health(r), Capacity(r)} : gate[g].open # Closed} IN
  /\ att[a].route = NoRoute /\ Admits(r)
  /\ \/ /\ due = {}
        /\ att' = [att EXCEPT ![a] =
                     [route |-> r, trusted |-> sound, lease |-> 0, claims |-> NoClaims]]
        /\ UNCHANGED <<gate, lastLease, blamed>>
     \/ /\ due # {}
        /\ \E lease \in NextLease :
             /\ gate' = [g \in Gate |-> IF g \in due THEN Claimed(gate[g], lease)
                                        ELSE gate[g]]
             /\ att' = [att EXCEPT ![a] =
                          [route |-> r, trusted |-> sound, lease |-> lease,
                           claims |-> [g \in due |-> gate[g].gen + 1]]]
             /\ lastLease' = lease
        /\ blamed' = blamed \ due
  /\ UNCHANGED <<now, fails, sound, failures, drops>>

\* apply_route_success, on the gates f and failure times q that the lease left.
Success(r, f, q) ==
  IF f[Health(r)].open # Closed THEN gate' = f /\ fails' = [fails EXCEPT ![r] = q]
  ELSE /\ gate' = IF q = << >> THEN f ELSE [f EXCEPT ![Health(r)].gen = @ + 1]
       /\ fails' = [fails EXCEPT ![r] = << >>]

\* The attempt completes.
Complete(a) ==
  LET r == att[a].route
      f == Resolve(gate, a, Healed)
      healed == f[Health(r)].open = Closed /\ gate[Health(r)].open # Closed
  IN
  /\ r # NoRoute
  /\ Success(r, f, IF healed THEN << >> ELSE fails[r])
  /\ att' = [att EXCEPT ![a] = NoAttempt]
  /\ UNCHANGED <<now, lastLease, blamed, sound, failures, drops>>

\* A failure ends an attempt that was not begun against a working provider,
\* early enough for its cooldown to end within the bound on the clock.
Failing(a, until) ==
  /\ att[a].route # NoRoute /\ ~att[a].trusted
  /\ failures < MaxFailures /\ failures' = failures + 1
  /\ until <= MaxTime
  /\ att' = [att EXCEPT ![a] = NoAttempt]
  /\ UNCHANGED <<now, lastLease, sound, drops>>

\* The last failures of a route within the window, this one included.
Recent(r) ==
  LET q == Append(SelectSeq(fails[r], LAMBDA t : now - t <= Window), now)
  IN IF Len(q) > Threshold THEN Tail(q) ELSE q

\* apply_route_failure: an open route reopens from now; a closed one opens once
\* enough failures fall within the window. The lease, if any, is released.
RouteFailure(a) ==
  LET r == att[a].route
      h == Health(r)
      wasOpen == gate[h].open # Closed
      opens == wasOpen \/ Len(Recent(r)) >= Threshold
      x == IF opens THEN Reopened(gate[h], now + Cooldown)
           ELSE [gate[h] EXCEPT !.gen = @ + 1]
  IN
  /\ Failing(a, now + Cooldown)
  /\ gate' = Resolve([gate EXCEPT ![h] = x], a, Released)
  /\ fails' = IF wasOpen THEN fails ELSE [fails EXCEPT ![r] = Recent(r)]
  /\ blamed' = blamed \union {h}

\* A retry-after hint, within the policy's limits.
Clip(hint) ==
  LET h == Later(hint, MinCapacity) IN IF h > MaxCapacity THEN MaxCapacity ELSE h

\* 429, 503 or 529: the capacity gate opens, or stays open for longer.
CapacityRejected(a, hint) ==
  LET c == Capacity(att[a].route)
      until == now + Clip(hint)
  IN
  /\ Failing(a, until)
  /\ gate' = Resolve([gate EXCEPT ![c] = Reopened(@, until)], a, Released)
  /\ blamed' = blamed \union {c}
  /\ UNCHANGED fails

\* Mutant: a cancelled attempt keeps its gates.
NeutralKeepsClaims(a) ==
  /\ att[a].route # NoRoute
  /\ drops < MaxDrops /\ drops' = drops + 1
  /\ att' = [att EXCEPT ![a] = NoAttempt]
  /\ UNCHANGED <<now, gate, fails, lastLease, blamed, sound, failures>>

\* A neutral failure, a cancelled attempt, or a lease dropped before the send.
Neutral(a) ==
  /\ att[a].route # NoRoute
  /\ drops < MaxDrops /\ drops' = drops + 1
  /\ gate' = Resolve(gate, a, Released)
  /\ att' = [att EXCEPT ![a] = NoAttempt]
  /\ UNCHANGED <<now, fails, lastLease, blamed, sound, failures>>

Tick ==
  /\ now < MaxTime /\ now' = now + 1
  /\ UNCHANGED <<gate, fails, lastLease, att, blamed, sound, failures, drops>>

\* The environment: from here on providers answer what they are sent.
Recover ==
  /\ ~sound /\ sound' = TRUE
  /\ UNCHANGED <<now, gate, fails, lastLease, att, blamed, failures, drops>>

-----------------------------------------------------------------------------
\* The terminal of an attempt, whatever it is.
Ends(a) ==
  \/ Complete(a) \/ RouteFailure(a) \/ Neutral(a)
  \/ \E hint \in Hint : CapacityRejected(a, hint)

Next ==
  \/ \E a \in Attempt, r \in Route : Start(a, r)
  \/ \E a \in Attempt : Ends(a)
  \/ Tick \/ Recover

Spec == Init /\ [][Next]_vars

\* Time passes, every attempt ends (provider requests carry timeouts, and a
\* guard that is dropped reports), and every route keeps being asked for.
FairSpec ==
  /\ Spec /\ WF_vars(Tick)
  /\ \A a \in Attempt : WF_vars(Ends(a))
  /\ \A r \in Route : WF_vars(\E a \in Attempt : Start(a, r))

-----------------------------------------------------------------------------
(* What circuit breaking promises. *)

Probing(a, g) == g \in DOMAIN att[a].claims

\* "concurrent requests cannot create a probe herd" (health.rs:6), and no gate
\* is left claimed by nobody: a gate shows a probe in flight exactly when one
\* attempt in flight owns it.
ProbeOwned ==
  \A g \in Gate :
    /\ gate[g].lease # 0 <=> \E a \in Attempt : Probing(a, g)
    /\ \A a, b \in Attempt : Probing(a, g) /\ Probing(b, g) => a = b
    /\ \A a \in Attempt : Probing(a, g) =>
         Matches(gate[g], att[a].lease, att[a].claims[g])

\* "only the matching fenced half-open probe may heal it" (health.rs:920): a
\* gate closes only while a probe of it is in flight (the one of ProbeOwned),
\* and only when nothing has failed at the gate since that probe was claimed.
OnlyCleanProbeHeals ==
  [][\A g \in Gate : gate[g].open # Closed /\ gate'[g].open = Closed =>
       gate[g].lease # 0 /\ g \notin blamed]_vars

\* Whoever reports what, a gate within its cooldown neither closes nor has its
\* cooldown shortened.
CoolsDown ==
  [][\A g \in Gate : now < gate[g].open => gate'[g].open >= gate[g].open]_vars

\* Once providers work again, every gate closes and stays so: no order of late failures,
\* probes and cancellations leaves a route shut for good.
Reopens == sound ~> [](\A g \in Gate : gate[g].open = Closed)

=============================================================================
