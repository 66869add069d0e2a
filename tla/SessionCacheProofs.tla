------------------------- MODULE SessionCacheProofs -------------------------
(***************************************************************************)
(* Proofs about SessionCache, for any keys, requests, capacity, lifetime     *)
(* and batch size.                                                          *)
(*                                                                         *)
(* Everything that removes an entry asks HasExternalLease first, so what a    *)
(* request holds stays (HeldIsResident).  That alone is not inductive: a     *)
(* stored value must never be mistaken for an older one a request still      *)
(* holds, which is what the type invariant's serial numbers and Residents     *)
(* say.  Recency follows expiry because no deadline lies further ahead than   *)
(* the one an entry gets when it moves to the front (Deadlines).            *)
(***************************************************************************)
EXTENDS SessionCache, FiniteSetTheorems, TLAPS

\* No deadline is further ahead than one set now, and no sweep uses a time
\* that has not come.
Deadlines == sweep.at <= now /\ \A k \in Key : expires[k] <= now + Ttl

\* The inductive invariant.
IInv ==
  /\ TypeOK /\ IsFiniteSet(resident)
  /\ HeldIsResident /\ ExpiryFollowsRecency /\ Deadlines

-----------------------------------------------------------------------------
\* A key that no request holds can go: every held entry stays.
LEMMA RemoveKeeps ==
  ASSUME IInv, NEW S, S \subseteq {k \in resident : ~HasExternalLease(k)},
         Remove(S)
  PROVE  /\ resident' \subseteq resident /\ order' \subseteq order
         /\ IsFiniteSet(resident') /\ Cardinality(resident') <= Capacity
         /\ order' \subseteq resident' \X resident'
         /\ \A r \in Request : req[r].phase # "idle" => req[r].key \in resident'
<1>1. resident' = resident \ S /\ resident' \in SUBSET resident
  BY DEF Remove
<1>2. IsFiniteSet(resident') /\ Cardinality(resident') <= Cardinality(resident)
      /\ Cardinality(resident') \in Nat /\ Cardinality(resident) \in Nat
  BY <1>1, FS_Subset, FS_CardinalityType DEF IInv
<1>3. Cardinality(resident') <= Capacity
  BY <1>2, SessionCacheAssumption DEF IInv, TypeOK
<1>4. order' \subseteq order /\ order' \subseteq resident' \X resident'
  BY <1>1 DEF Remove
<1>5. ASSUME NEW r \in Request, req[r].phase # "idle" PROVE req[r].key \in resident'
  <2>1. req[r].key \in resident /\ slot[req[r].key] = req[r].slot
    BY <1>5 DEF IInv, HeldIsResident
  <2>2. req[r].phase \in Holding \union {"released"}
    BY <1>5 DEF IInv, TypeOK, Phase, Holding
  <2>3. HasExternalLease(req[r].key)
    BY <2>1, <2>2 DEF HasExternalLease, Shared
  <2> QED  BY <1>1, <2>1, <2>3
<1> QED  BY <1>1, <1>2, <1>3, <1>4, <1>5

\* The same, for a step that removes and leaves values and deadlines alone.
LEMMA RemovalIInv ==
  ASSUME IInv, NEW S, S \subseteq {k \in resident : ~HasExternalLease(k)},
         Remove(S), UNCHANGED <<now, slot, expires, slots, req>>,
         sweep' \in [at : 0 .. MaxTime, todo : SUBSET Key,
                     phase : {"idle", "due", "retiring"}],
         sweep'.at = sweep.at
  PROVE  IInv'
<1>1. /\ resident' \subseteq resident /\ order' \subseteq order
      /\ IsFiniteSet(resident') /\ Cardinality(resident') <= Capacity
      /\ order' \subseteq resident' \X resident'
      /\ \A r \in Request : req[r].phase # "idle" => req[r].key \in resident'
  BY RemoveKeeps
<1>2. TypeOK'
  BY <1>1 DEF IInv, TypeOK
<1>3. HeldIsResident'
  BY <1>1 DEF IInv, HeldIsResident
<1>4. ExpiryFollowsRecency' /\ Deadlines'
  BY <1>1 DEF IInv, ExpiryFollowsRecency, Deadlines
<1> QED  BY <1>1, <1>2, <1>3, <1>4 DEF IInv

\* A request changes phase; if it takes a session, it takes the resident one.
LEMMA RequestIInv ==
  ASSUME IInv, UNCHANGED <<now, cacheVars, sweep>>, NEW r \in Request,
         NEW q \in [phase : Phase \ {"cutoff"}, key : Key \union {NoKey},
                    slot : 0 .. slots],
         req' = [req EXCEPT ![r] = q],
         q.phase # "idle" => q.key \in resident /\ slot[q.key] = q.slot
  PROVE  IInv'
<1>1. req' \in [Request -> [phase : Phase, key : Key \union {NoKey}, slot : 0 .. slots]]
  BY DEF IInv, TypeOK
<1>2. TypeOK'
  BY <1>1 DEF IInv, TypeOK, cacheVars
<1>3. HeldIsResident'
  BY DEF IInv, TypeOK, HeldIsResident, cacheVars
<1>4. ExpiryFollowsRecency' /\ Deadlines' /\ IsFiniteSet(resident')
  BY DEF IInv, ExpiryFollowsRecency, Deadlines, cacheVars
<1> QED  BY <1>2, <1>3, <1>4 DEF IInv

\* What a request that is not idle holds, and that it cannot be spent.
LEMMA HeldIsLive ==
  ASSUME IInv, NEW r \in Request, req[r].phase # "idle"
  PROVE  /\ req[r].key \in resident /\ req[r].key \in Key
         /\ slot[req[r].key] = req[r].slot /\ ~Spent(req[r].key)
         /\ req[r].phase # "cutoff"
<1>1. req[r].key \in resident /\ slot[req[r].key] = req[r].slot
      /\ req[r].phase # "cutoff"
  BY DEF IInv, HeldIsResident
<1>2. req[r].phase \in Holding \union {"released"}
  BY DEF IInv, TypeOK, Phase, Holding
<1>3. HasExternalLease(req[r].key)
  BY <1>1, <1>2 DEF HasExternalLease, Shared
<1> QED  BY <1>1, <1>3 DEF Spent, IInv, TypeOK

\* An entry moved to the front with a deadline from now stays in order.
LEMMA PromoteOrdered ==
  ASSUME IInv, NEW k \in Key, NEW base, base \subseteq order,
         NEW kept, kept \subseteq resident,
         expires' = [expires EXCEPT ![k] = now + Ttl]
  PROVE  \A p \in Promote(base, kept, k) : expires'[p[1]] <= expires'[p[2]]
<1>1. now + Ttl \in Nat /\ expires' \in [Key -> Nat] /\ expires \in [Key -> Nat]
  BY SessionCacheAssumption DEF IInv, TypeOK, Time
<1> SUFFICES ASSUME NEW p \in Promote(base, kept, k)
             PROVE  expires'[p[1]] <= expires'[p[2]]
  OBVIOUS
<1>2. CASE p \in Forget(base, k)
  <2>1. p \in order /\ p[1] # k /\ p[2] # k
    BY <1>2 DEF Forget
  <2>2. p[1] \in Key /\ p[2] \in Key /\ expires[p[1]] <= expires[p[2]]
    BY <2>1 DEF IInv, TypeOK, ExpiryFollowsRecency
  <2> QED  BY <2>1, <2>2
<1>3. CASE p \in (kept \ {k}) \X {k}
  <2>1. p[1] \in Key /\ p[1] # k /\ p[2] = k
    BY <1>3 DEF IInv, TypeOK
  <2>2. expires'[p[1]] = expires[p[1]] /\ expires'[p[2]] = now + Ttl
    BY <1>1, <2>1 DEF IInv, TypeOK
  <2> QED  BY <2>1, <2>2 DEF IInv, Deadlines
<1> QED  BY <1>2, <1>3 DEF Promote

\* A touch by a request that holds a session finds it, and moves it.
LEMMA TouchIInv ==
  ASSUME IInv, NEW r \in Request, req[r].phase # "idle", Touch(r, "serving")
  PROVE  IInv'
<1> DEFINE k == req[r].key
<1>1. k \in resident /\ k \in Key /\ slot[k] = req[r].slot /\ ~Spent(k)
  BY HeldIsLive
<1>2. /\ expires' = [expires EXCEPT ![k] = now + Ttl]
      /\ order' = Promote(order, resident, k)
      /\ req' = [req EXCEPT ![r].phase = "serving"]
      /\ UNCHANGED <<resident, now, slot, slots, sweep>>
  BY <1>1 DEF Touch, Freshen
<1>3. order' \subseteq resident \X resident
  BY <1>1, <1>2 DEF Promote, Forget, IInv, TypeOK
<1>4. expires' \in [Key -> Time]
  BY <1>1, <1>2, SessionCacheAssumption DEF IInv, TypeOK, Time
<1>5. req' \in [Request -> [phase : Phase, key : Key \union {NoKey}, slot : 0 .. slots]]
  BY <1>2 DEF IInv, TypeOK, Phase
<1>6. TypeOK'
  BY <1>2, <1>3, <1>4, <1>5 DEF IInv, TypeOK
<1>7. HeldIsResident'
  BY <1>1, <1>2 DEF IInv, TypeOK, HeldIsResident
<1>8. ExpiryFollowsRecency'
  BY <1>1, <1>2, PromoteOrdered DEF ExpiryFollowsRecency
<1>9. Deadlines'
  BY <1>1, <1>2, SessionCacheAssumption DEF IInv, TypeOK, Deadlines, Time
<1> QED  BY <1>2, <1>6, <1>7, <1>8, <1>9 DEF IInv

\* A new value has a serial number nobody holds, under a key nobody names.
LEMMA StoreIInv ==
  ASSUME IInv, NEW k \in Key, Store(k)
  PROVE  IInv'
<1> DEFINE free == {j \in resident : ~HasExternalLease(j)}
<1>1. /\ k \notin resident /\ slots < MaxSlots
      /\ slots' = slots + 1
      /\ slot' = [slot EXCEPT ![k] = slots + 1]
      /\ expires' = [expires EXCEPT ![k] = now + Ttl]
      /\ UNCHANGED <<now, req, sweep>>
  BY DEF Store
<1>2. PICK gone \in (IF Full THEN {{v} : v \in Victim(free)} ELSE {{}}) :
         /\ resident' = (resident \ gone) \union {k}
         /\ order' = Promote(order \cap ((resident \ gone) \X (resident \ gone)),
                             resident \ gone, k)
  BY DEF Store
<1> DEFINE kept == resident \ gone
<1>3. gone \subseteq free
  BY <1>2 DEF Victim, Oldest
<1>4. IsFiniteSet(resident) /\ Cardinality(resident) \in Nat
      /\ Cardinality(resident) <= Capacity
  BY FS_CardinalityType DEF IInv, TypeOK
<1>5. IsFiniteSet(kept) /\ Cardinality(kept) \in Nat /\ Cardinality(kept) < Capacity
  <2>1. CASE Full
    <3>1. PICK v \in free : gone = {v}
      BY <1>2, <2>1 DEF Victim, Oldest
    <3>2. IsFiniteSet(resident \ {v})
          /\ Cardinality(resident \ {v}) = Cardinality(resident) - 1
      BY <1>4, <3>1, FS_RemoveElement
    <3>3. Cardinality(resident \ {v}) \in Nat
      BY <3>2, FS_CardinalityType
    <3> QED  BY <1>4, <3>1, <3>2, <3>3, SessionCacheAssumption
  <2>2. CASE ~Full
    <3>1. kept = resident
      BY <1>2, <2>2
    <3> QED  BY <1>4, <2>2, <3>1, SessionCacheAssumption DEF Full
  <2> QED  BY <2>1, <2>2
<1>6. IsFiniteSet(resident') /\ Cardinality(resident') <= Capacity
  <2>1. IsFiniteSet(kept \union {k}) /\ Cardinality(kept \union {k}) <= Cardinality(kept) + 1
    <3>1. IsFiniteSet(kept \union {k})
          /\ Cardinality(kept \union {k}) = IF k \in kept THEN Cardinality(kept)
                                            ELSE Cardinality(kept) + 1
      BY ONLY <1>5, FS_AddElement, Zenon
    <3> QED  BY <1>5, <3>1
  <2>2. Cardinality(kept \union {k}) \in Nat
    BY <2>1, FS_CardinalityType
  <2> QED  BY <1>2, <1>5, <2>1, <2>2, SessionCacheAssumption
<1>7. order' \subseteq resident' \X resident'
  BY <1>2 DEF Promote, Forget
<1>8. slots' \in 0 .. MaxSlots /\ slot' \in [Key -> 0 .. slots']
  BY <1>1, SessionCacheAssumption DEF IInv, TypeOK
<1>9. expires' \in [Key -> Time]
  BY <1>1, SessionCacheAssumption DEF IInv, TypeOK, Time
<1>10. req' \in [Request -> [phase : Phase, key : Key \union {NoKey}, slot : 0 .. slots']]
  <2>1. 0 .. slots \subseteq 0 .. slots'
    BY <1>1 DEF IInv, TypeOK
  <2> QED  BY <1>1, <2>1 DEF IInv, TypeOK
<1>11. TypeOK'
  BY <1>1, <1>2, <1>6, <1>7, <1>8, <1>9, <1>10 DEF IInv, TypeOK
<1>12. HeldIsResident'
  <2> SUFFICES ASSUME NEW r \in Request, req[r].phase # "idle"
               PROVE  /\ req[r].key \in resident'
                      /\ slot'[req[r].key] = req[r].slot
                      /\ req[r].phase # "cutoff"
    BY <1>1 DEF HeldIsResident
  <2>1. req[r].key \in resident /\ slot[req[r].key] = req[r].slot
        /\ req[r].phase # "cutoff" /\ req[r].key \in Key
    BY HeldIsLive
  <2>2. req[r].phase \in Holding \union {"released"}
    BY DEF IInv, TypeOK, Phase, Holding
  <2>3. HasExternalLease(req[r].key)
    BY <2>1, <2>2 DEF HasExternalLease, Shared
  <2>4. req[r].key \in kept /\ req[r].key # k
    BY <1>1, <1>3, <2>1, <2>3
  <2> QED  BY <1>1, <1>2, <2>1, <2>4 DEF IInv, TypeOK
<1>13. ExpiryFollowsRecency'
  <2>1. order \cap (kept \X kept) \subseteq order /\ kept \subseteq resident
    OBVIOUS
  <2> QED  BY <1>1, <1>2, <2>1, PromoteOrdered DEF ExpiryFollowsRecency
<1>14. Deadlines'
  BY <1>1, SessionCacheAssumption DEF IInv, TypeOK, Deadlines, Time
<1> QED  BY <1>6, <1>11, <1>12, <1>13, <1>14 DEF IInv

\* Acquiring a lease, or finding the session spent.
LEMMA AcquireIInv ==
  ASSUME IInv, NEW r \in Request, NEW k \in Key, Acquire(r, k)
  PROVE  IInv'
<1>1. CASE Spent(k)
  <2>1. {k} \subseteq {j \in resident : ~HasExternalLease(j)}
    BY <1>1 DEF Spent
  <2> QED  BY <1>1, <2>1, RemovalIInv DEF Acquire, IInv, TypeOK
<1>2. CASE ~Spent(k)
  <2> DEFINE q == [phase |-> "leased", key |-> k, slot |-> slot[k]]
  <2>1. q \in [phase : Phase \ {"cutoff"}, key : Key \union {NoKey}, slot : 0 .. slots]
    BY DEF IInv, TypeOK, Phase
  <2>2. req' = [req EXCEPT ![r] = q] /\ UNCHANGED <<now, cacheVars, sweep>>
    BY <1>2 DEF Acquire, cacheVars
  <2>3. k \in resident
    BY DEF Acquire
  <2> QED  BY <2>1, <2>2, <2>3, RequestIInv
<1> QED  BY <1>1, <1>2

\* A request that holds its session moves on without a touch.
LEMMA PhaseIInv ==
  ASSUME IInv, NEW r \in Request, req[r].phase # "idle",
         NEW p \in {"sealing", "released"}, req' = [req EXCEPT ![r].phase = p],
         UNCHANGED <<now, cacheVars, sweep>>
  PROVE  IInv'
<1>1. req[r].key \in resident /\ slot[req[r].key] = req[r].slot
  BY HeldIsLive
<1> DEFINE q == [req[r] EXCEPT !.phase = p]
<1>2. q \in [phase : Phase \ {"cutoff"}, key : Key \union {NoKey}, slot : 0 .. slots]
  BY DEF IInv, TypeOK, Phase
<1>3. req' = [req EXCEPT ![r] = q] /\ q.key = req[r].key /\ q.slot = req[r].slot
  BY DEF IInv, TypeOK
<1> QED  BY <1>1, <1>2, <1>3, RequestIInv

\* Every step of a request.
LEMMA RequestsIInv ==
  ASSUME IInv, NEW r \in Request,
         \/ Authenticate(r) \/ Reject(r) \/ Seal(r) \/ Sealed(r)
         \/ Release(r) \/ DropArc(r)
  PROVE  IInv'
<1>1. CASE Authenticate(r) \/ Sealed(r)
  BY <1>1, TouchIInv DEF Authenticate, Sealed
<1>2. CASE Reject(r) \/ Release(r)
  BY <1>2, PhaseIInv DEF Reject, Release
<1>3. CASE Seal(r)
  <2>1. req[r].phase # "idle"
    BY <1>3 DEF Seal
  <2>2. req[r].key \in resident /\ ~Spent(req[r].key)
    BY <2>1, HeldIsLive
  <2>3. req' = [req EXCEPT ![r].phase = "sealing"] /\ UNCHANGED <<now, cacheVars, sweep>>
    BY <1>3, <2>2 DEF Seal, cacheVars
  <2> QED  BY <2>1, <2>3, PhaseIInv
<1>4. CASE DropArc(r)
  <2>1. NoReq \in [phase : Phase \ {"cutoff"}, key : Key \union {NoKey}, slot : 0 .. slots]
    BY DEF NoReq, Phase, IInv, TypeOK
  <2>2. NoReq.phase = "idle"
    BY DEF NoReq
  <2> QED  BY <1>4, <2>1, <2>2, RequestIInv DEF DropArc
<1> QED  BY <1>1, <1>2, <1>3, <1>4

\* The maintenance task: what it retires it has revalidated.
LEMMA SweepIInv ==
  ASSUME IInv, SweepDue \/ Snapshot \/ Retire
  PROVE  IInv'
<1>1. CASE SweepDue \/ Snapshot
  <2>1. ExpiredUnleased(sweep.at) \subseteq Key
    BY DEF ExpiredUnleased, Before, IInv, TypeOK
  <2>2. sweep' \in [at : 0 .. MaxTime, todo : SUBSET Key,
                    phase : {"idle", "due", "retiring"}]
    <3>1. CASE SweepDue
      BY <3>1 DEF SweepDue, IInv, TypeOK
    <3>2. CASE Snapshot
      BY <2>1, <3>2 DEF Snapshot, IInv, TypeOK
    <3> QED  BY <1>1, <3>1, <3>2
  <2>3. UNCHANGED <<now, cacheVars, req>> /\ sweep'.at <= now
    <3>1. CASE SweepDue
      BY <3>1, SessionCacheAssumption DEF SweepDue, IInv, TypeOK
    <3>2. CASE Snapshot
      BY <3>2 DEF Snapshot, IInv, TypeOK, Deadlines
    <3> QED  BY <1>1, <3>1, <3>2
  <2>4. TypeOK'
    BY <2>2, <2>3 DEF IInv, TypeOK, cacheVars
  <2> QED
    BY <2>3, <2>4 DEF IInv, HeldIsResident, ExpiryFollowsRecency, Deadlines, cacheVars
<1>2. CASE Retire
  <2>1. PICK batch \in SUBSET sweep.todo :
          /\ Remove({k \in batch : Retirable(k)})
          /\ sweep' = [sweep EXCEPT !.todo = @ \ batch,
                                    !.phase = IF batch = sweep.todo THEN "idle" ELSE @]
    BY <1>2 DEF Retire
  <2>2. {k \in batch : Retirable(k)} \subseteq {k \in resident : ~HasExternalLease(k)}
    BY DEF Retirable
  <2>3. sweep' \in [at : 0 .. MaxTime, todo : SUBSET Key,
                    phase : {"idle", "due", "retiring"}]
        /\ sweep'.at = sweep.at
    BY <2>1 DEF IInv, TypeOK
  <2>4. UNCHANGED <<now, slot, expires, slots, req>>
    BY <1>2 DEF Retire
  <2> QED  BY <2>1, <2>2, <2>3, <2>4, RemovalIInv
<1> QED  BY <1>1, <1>2

\* Every step keeps the inductive invariant.
LEMMA NextIInv == IInv /\ [Next]_vars => IInv'
<1> SUFFICES ASSUME IInv, [Next]_vars PROVE IInv'
  OBVIOUS
<1>1. CASE UNCHANGED vars
  BY <1>1 DEF vars, IInv, TypeOK, HeldIsResident, ExpiryFollowsRecency, Deadlines
<1>2. CASE \E k \in Key : Store(k)
  BY <1>2, StoreIInv
<1>3. CASE \E r \in Request, k \in Key : Acquire(r, k)
  BY <1>3, AcquireIInv
<1>4. CASE \E r \in Request : \/ Authenticate(r) \/ Reject(r) \/ Seal(r) \/ Sealed(r)
                              \/ Release(r) \/ DropArc(r)
  BY <1>4, RequestsIInv
<1>5. CASE SweepDue \/ Snapshot \/ Retire
  BY <1>5, SweepIInv
<1>6. CASE Tick
  <2>1. now' \in 0 .. MaxTime /\ now' = now + 1 /\ UNCHANGED <<cacheVars, req, sweep>>
    BY <1>6, SessionCacheAssumption DEF Tick, IInv, TypeOK
  <2>2. TypeOK'
    BY <2>1 DEF IInv, TypeOK, cacheVars
  <2>3. Deadlines'
    BY <2>1, SessionCacheAssumption DEF IInv, TypeOK, Deadlines, Time, cacheVars
  <2> QED
    BY <2>1, <2>2, <2>3 DEF IInv, HeldIsResident, ExpiryFollowsRecency, cacheVars
<1> QED
  BY <1>1, <1>2, <1>3, <1>4, <1>5, <1>6 DEF Next

\* The empty cache satisfies it.
LEMMA InitIInv == Init => IInv
  BY FS_EmptySet, SessionCacheAssumption
  DEF Init, IInv, TypeOK, HeldIsResident, ExpiryFollowsRecency, Deadlines, NoReq,
      Phase, Time

\* The inductive invariant holds throughout.
LEMMA Inductive == Spec => []IInv
  BY InitIInv, NextIInv, PTL DEF Spec

-----------------------------------------------------------------------------
\* The cache never holds more than its capacity, and has its type.
THEOREM TypeCorrect == Spec => []TypeOK
<1>1. IInv => TypeOK
  BY DEF IInv
<1> QED  BY <1>1, Inductive, PTL

\* In-flight values stay resident until their final lease is dropped: expiry,
\* eviction and the sweep never cut a request off.
THEOREM LeasesHold == Spec => []HeldIsResident
<1>1. IInv => HeldIsResident
  BY DEF IInv
<1> QED  BY <1>1, Inductive, PTL

\* Expired entries form an LRU suffix, which the sweep's early stop relies on.
THEOREM ExpiredAreOldest == Spec => []ExpiryFollowsRecency
<1>1. IInv => ExpiryFollowsRecency
  BY DEF IInv
<1> QED  BY <1>1, Inductive, PTL

\* A live session leaves only a full cache in which every expired one is held.
THEOREM LiveIsEvictedLast == Spec => LiveLeavesLast
<1> DEFINE Last ==
      \A k \in resident \ resident' : Expired(k, now)
        \/ /\ Cardinality(resident) = Capacity
           /\ \A j \in resident : Expired(j, now) => HasExternalLease(j)
<1>1. ASSUME IInv, Next PROVE Last
  <2> SUFFICES ASSUME NEW k \in resident, k \notin resident', ~Expired(k, now)
               PROVE  /\ Cardinality(resident) = Capacity
                      /\ \A j \in resident : Expired(j, now) => HasExternalLease(j)
    OBVIOUS
  <2>0. k \in Key /\ expires[k] \in Int /\ now \in Int /\ sweep.at \in Int
    BY <1>1, SessionCacheAssumption DEF IInv, TypeOK, Time
  <2>1. ~Spent(k)
    BY DEF Spent
  <2>2. ASSUME NEW x \in Key, Store(x)
        PROVE  /\ Cardinality(resident) = Capacity
               /\ \A j \in resident : Expired(j, now) => HasExternalLease(j)
    <3> DEFINE free == {j \in resident : ~HasExternalLease(j)}
    <3>1. PICK gone \in (IF Full THEN {{v} : v \in Victim(free)} ELSE {{}}) :
             resident' = (resident \ gone) \union {x}
      BY <2>2 DEF Store
    <3>2. k \in gone
      BY <3>1
    <3>3. Full /\ k \in Victim(free)
      BY <3>1, <3>2
    <3>4. Cardinality(resident) = Capacity
      <4>1. Cardinality(resident) \in Nat /\ Cardinality(resident) <= Capacity
        BY <1>1, FS_CardinalityType DEF IInv, TypeOK
      <4> QED  BY <3>3, <4>1, SessionCacheAssumption DEF Full
    <3>5. ASSUME NEW j \in resident, Expired(j, now), ~HasExternalLease(j) PROVE FALSE
      <4>1. j # k /\ <<k, j>> \in order
        BY <3>3, <3>5 DEF Victim, Oldest
      <4>2. expires[k] <= expires[j]
        BY <1>1, <4>1 DEF IInv, ExpiryFollowsRecency
      <4>3. j \in Key /\ expires[j] \in Int
        BY <1>1, SessionCacheAssumption DEF IInv, TypeOK, Time
      <4> QED  BY <2>0, <3>5, <4>2, <4>3 DEF Expired
    <3> QED  BY <3>4, <3>5
  <2>3. \A r \in Request, x \in Key : ~Acquire(r, x)
    BY <2>1 DEF Acquire, Remove
  <2>4. ASSUME NEW r \in Request, req[r].phase # "idle", Touch(r, "serving") PROVE FALSE
    BY <1>1, <2>4, HeldIsLive DEF Touch, Freshen
  <2>5. ASSUME NEW r \in Request, Seal(r) PROVE FALSE
    <3>1. req[r].phase # "idle"
      BY <2>5 DEF Seal
    <3> QED  BY <1>1, <2>5, <3>1, HeldIsLive DEF Seal
  <2>6. \A r \in Request : ~(Authenticate(r) \/ Sealed(r))
    BY <2>4 DEF Authenticate, Sealed
  <2>7. \A r \in Request : ~(Reject(r) \/ Release(r) \/ DropArc(r))
    BY DEF Reject, Release, DropArc, cacheVars
  <2>8. ~(SweepDue \/ Snapshot \/ Tick)
    BY DEF SweepDue, Snapshot, Tick, cacheVars
  <2>9. CASE Retire
    <3>1. Expired(k, sweep.at)
      BY <2>9 DEF Retire, Remove, Retirable
    <3>2. Expired(k, now)
      BY <1>1, <2>0, <3>1 DEF IInv, Deadlines, Expired
    <3> QED  BY <3>2
  <2> QED
    BY <1>1, <2>2, <2>3, <2>5, <2>6, <2>7, <2>8, <2>9 DEF Next
<1>2. IInv /\ [Next]_vars =>
        [\A k \in resident \ resident' : Expired(k, now)
           \/ /\ Cardinality(resident) = Capacity
              /\ \A j \in resident : Expired(j, now) => HasExternalLease(j)]_vars
  BY <1>1
<1> QED  BY <1>2, Inductive, PTL DEF Spec, LiveLeavesLast

=============================================================================
