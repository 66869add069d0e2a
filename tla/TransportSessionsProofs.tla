----------------------- MODULE TransportSessionsProofs -----------------------
(***************************************************************************)
(* Proofs about TransportSessions, for any finite sets of sessions and      *)
(* identifiers, any requests, limits and lag.                               *)
(*                                                                         *)
(* Admission is decided by the replay set and counted in ran: Replays ties   *)
(* the two.  The budget is exact because a claim is only ever made on a      *)
(* session that has not been dropped: Owners says that a request past its     *)
(* lookup keeps its session from being dropped.                             *)
(***************************************************************************)
EXTENDS TransportSessions, FiniteSetTheorems, TLAPS

\* A request that owns an Arc names a live session and an identifier.
Owners ==
  \A r \in Request :
    /\ req[r].at # "idle" => req[r].sess \in Session /\ req[r].id \in Id
    /\ Holds(r) => phase[req[r].sess] = "alive"

\* What was admitted is what the replay set remembers.
Replays ==
  \A s \in Session : \A i \in Id : ran[s][i] = IF i \in ids[s] THEN 1 ELSE 0

\* The inductive invariant.
IInv == TypeOK /\ Owners /\ Replays /\ BudgetExact

-----------------------------------------------------------------------------
\* Sets of identifiers and of retained pairs are finite.
LEMMA Finite ==
  ASSUME TypeOK
  PROVE  /\ IsFiniteSet(Retained) /\ Cardinality(Retained) \in Nat
         /\ \A s \in Session : IsFiniteSet(ids[s]) /\ Cardinality(ids[s]) \in Nat
         /\ IsFiniteSet(stored) /\ Cardinality(stored) \in Nat
<1>1. IsFiniteSet(Session \X Id)
  BY TransportAssumption, FS_Product
<1>2. Retained \in SUBSET (Session \X Id)
  BY DEF Retained
<1>3. \A s \in Session : ids[s] \in SUBSET Id
  BY DEF TypeOK
<1>4. stored \in SUBSET Session
  BY DEF TypeOK
<1>5. IsFiniteSet(Retained) /\ Cardinality(Retained) \in Nat
  BY <1>1, <1>2, FS_Subset, FS_CardinalityType
<1>6. \A s \in Session : IsFiniteSet(ids[s]) /\ Cardinality(ids[s]) \in Nat
  BY <1>3, TransportAssumption, FS_Subset, FS_CardinalityType
<1>7. IsFiniteSet(stored) /\ Cardinality(stored) \in Nat
  BY <1>4, TransportAssumption, FS_Subset, FS_CardinalityType
<1> QED  BY <1>5, <1>6, <1>7

\* Removing sessions from the store keeps the store's part of the type.
LEMMA StoreShrinks ==
  ASSUME TypeOK, NEW S, S \subseteq stored
  PROVE  S \subseteq {s \in Session : phase[s] = "alive"} /\ Cardinality(S) <= StoreCap
<1>1. IsFiniteSet(stored) /\ Cardinality(stored) \in Nat
  BY Finite
<1>2. S \in SUBSET stored
  OBVIOUS
<1>3. Cardinality(S) <= Cardinality(stored) /\ Cardinality(S) \in Nat
  BY <1>1, <1>2, FS_Subset, FS_CardinalityType
<1>4. Cardinality(stored) <= StoreCap /\ StoreCap \in Nat
  BY TransportAssumption DEF TypeOK
<1> QED  BY <1>1, <1>3, <1>4 DEF TypeOK

\* Nothing is retained at the start.
LEMMA InitIInv == Init => IInv
<1> SUFFICES ASSUME Init PROVE IInv
  OBVIOUS
<1>1. Retained = {}
  BY DEF Init, Retained
<1>2. BudgetExact
  BY <1>1, FS_EmptySet DEF Init, BudgetExact
<1>3. TypeOK
  <2>1. \A s \in Session : Cardinality(ids[s]) <= SessionCap
    BY FS_EmptySet, TransportAssumption DEF Init
  <2>2. stored = {} /\ Cardinality(stored) <= StoreCap
    BY FS_EmptySet, TransportAssumption DEF Init
  <2> QED
    BY <2>1, <2>2, TransportAssumption DEF Init, TypeOK, NoReq, Phase
<1>4. Owners /\ Replays
  BY DEF Init, Owners, Replays, Holds, NoReq
<1> QED  BY <1>2, <1>3, <1>4 DEF IInv

\* A session is built or stored: no identifier moves.
LEMMA ArrivalIInv ==
  ASSUME IInv, NEW s \in Session, Handshake(s) \/ Insert(s)
  PROVE  IInv'
<1>1. phase' \in [Session -> Phase] /\ phase[s] \in {"none", "built"}
      /\ phase'[s] \in {"built", "alive"}
      /\ \A t \in Session : t # s => phase'[t] = phase[t]
  BY DEF IInv, TypeOK, Handshake, Insert, Phase
<1>2. UNCHANGED <<now, ids, claimed, req, ran>>
  BY DEF Handshake, Insert
<1>3. Retained' = Retained
  BY <1>1, <1>2 DEF Retained
<1>4. stored' \subseteq {t \in Session : phase'[t] = "alive"}
      /\ Cardinality(stored') <= StoreCap
  <2>1. CASE Handshake(s)
    BY <1>1, <2>1 DEF IInv, TypeOK, Handshake
  <2>2. CASE Insert(s) /\ stored' = stored
    BY <1>1, <2>2 DEF IInv, TypeOK, Insert
  <2>3. CASE Insert(s) /\ stored' # stored
    <3>1. stored' = stored \union {s} /\ ~(Cardinality(stored) >= StoreCap)
      BY <2>3 DEF Insert
    <3>2. IsFiniteSet(stored) /\ Cardinality(stored) \in Nat
      BY Finite DEF IInv
    <3>3. Cardinality(stored') = IF s \in stored THEN Cardinality(stored)
                                 ELSE Cardinality(stored) + 1
      BY <3>1, <3>2, FS_AddElement
    <3>4. Cardinality(stored') <= StoreCap
      BY <3>1, <3>2, <3>3, TransportAssumption
    <3>5. phase'[s] = "alive"
      BY <2>3 DEF Insert, IInv, TypeOK
    <3> QED  BY <1>1, <3>1, <3>4, <3>5 DEF IInv, TypeOK
  <2> QED  BY <2>1, <2>2, <2>3
<1>5. expires' \in [Session -> 0 .. MaxTime + Lifetime]
  BY TransportAssumption DEF IInv, TypeOK, Handshake, Insert
<1>6. TypeOK'
  BY <1>1, <1>2, <1>4, <1>5 DEF IInv, TypeOK
<1>7. Owners'
  BY <1>1, <1>2 DEF IInv, Owners, Holds
<1>8. Replays' /\ BudgetExact'
  BY <1>2, <1>3 DEF IInv, Replays, BudgetExact
<1> QED  BY <1>6, <1>7, <1>8 DEF IInv

\* The last owner goes: exactly the session's pairs leave the retained set.
LEMMA ReapIInv ==
  ASSUME IInv, NEW s \in Session, Reap(s)
  PROVE  IInv'
<1> DEFINE Pairs == {s} \X ids[s]
<1>1. phase' \in [Session -> Phase] /\ phase[s] = "alive" /\ phase'[s] = "dropped"
      /\ \A t \in Session : t # s => phase'[t] = phase[t]
  BY DEF IInv, TypeOK, Reap, Phase
<1>2. UNCHANGED <<now, stored, expires, ids, req, ran>>
  BY DEF Reap
<1>3. Retained' = Retained \ Pairs
  BY <1>1, <1>2 DEF Retained
<1>4. Retained \cap Pairs = Pairs
  BY <1>1 DEF Retained, IInv, TypeOK
<1>5. IsFiniteSet(Retained) /\ IsFiniteSet(ids[s]) /\ Cardinality(ids[s]) \in Nat
      /\ Cardinality(Retained) \in Nat
  BY Finite DEF IInv
<1>6. Cardinality(Pairs) = Cardinality(ids[s])
  <2>1. IsFiniteSet({s}) /\ Cardinality({s}) = 1
    BY FS_Singleton
  <2>2. Cardinality({s} \X ids[s]) = Cardinality({s}) * Cardinality(ids[s])
    BY ONLY <1>5, <2>1, FS_Product, Zenon
  <2> QED  BY <1>5, <2>1, <2>2
<1>7. Cardinality(Retained') = Cardinality(Retained) - Cardinality(ids[s])
  <2>1. Cardinality(Retained \ Pairs)
          = Cardinality(Retained) - Cardinality(Retained \cap Pairs)
    BY ONLY <1>5, FS_Difference, Zenon
  <2> QED  BY <1>3, <1>4, <1>6, <2>1
<1>8. IsFiniteSet(Retained') /\ Cardinality(Retained') \in Nat
  BY <1>3, <1>5, FS_Difference, FS_CardinalityType
<1>9. BudgetExact' /\ claimed' \in 0 .. BudgetCap
  BY <1>5, <1>7, <1>8, TransportAssumption DEF IInv, TypeOK, BudgetExact, Reap, Share
<1>10. s \notin stored /\ \A r \in Request : Holds(r) => req[r].sess # s
  BY DEF Reap, Owned
<1>11. TypeOK'
  BY <1>1, <1>2, <1>9, <1>10 DEF IInv, TypeOK
<1>12. Owners'
  BY <1>1, <1>2, <1>10 DEF IInv, Owners, Holds
<1>13. Replays'
  BY <1>2 DEF IInv, Replays
<1> QED  BY <1>9, <1>11, <1>12, <1>13 DEF IInv

\* A lookup ends with the request holding a stored session, or without it.
LEMMA LookupIInv ==
  ASSUME IInv, NEW r \in Request, NEW s \in Session, NEW i \in Id,
         NEW at \in {"reading", "found"},
         Lookup(r, s, [at |-> at, sess |-> s, id |-> i]),
         UNCHANGED <<now, phase, expires, ids, claimed, ran>>
  PROVE  IInv'
<1> DEFINE found == [at |-> at, sess |-> s, id |-> i]
<1>1. stored' \subseteq stored
      /\ \/ s \in stored /\ req' = [req EXCEPT ![r] = found]
         \/ req' = [req EXCEPT ![r] = NoReq]
  BY DEF Lookup
<1>2. TypeOK'
  <2>1. stored' \subseteq {t \in Session : phase[t] = "alive"}
        /\ Cardinality(stored') <= StoreCap
    BY <1>1, StoreShrinks DEF IInv
  <2> QED  BY <1>1, <2>1 DEF IInv, TypeOK, NoReq
<1>3. Owners'
  <2>1. CASE s \in stored /\ req' = [req EXCEPT ![r] = found]
    <3>1. phase[s] = "alive"
      BY <2>1 DEF IInv, TypeOK
    <3> QED  BY <2>1, <3>1 DEF IInv, TypeOK, Owners, Holds
  <2>2. CASE req' = [req EXCEPT ![r] = NoReq]
    BY <2>2 DEF IInv, TypeOK, Owners, Holds, NoReq
  <2> QED  BY <1>1, <2>1, <2>2
<1>4. Retained' = Retained
  BY DEF Retained
<1>5. Replays' /\ BudgetExact'
  BY <1>4 DEF IInv, Replays, BudgetExact
<1> QED  BY <1>2, <1>3, <1>5 DEF IInv

\* A request ends without having been admitted, or after its answer.
LEMMA EndIInv ==
  ASSUME IInv, NEW r \in Request, req' = [req EXCEPT ![r] = NoReq],
         UNCHANGED <<now, phase, stored, expires, ids, claimed, ran>>
  PROVE  IInv'
<1>1. Retained' = Retained
  BY DEF Retained
<1>2. TypeOK' /\ Owners'
  BY DEF IInv, TypeOK, Owners, Holds, NoReq
<1> QED  BY <1>1, <1>2 DEF IInv, Replays, BudgetExact

\* A claim adds one pair to the retained set, and it was not in it.
LEMMA AdmitIInv ==
  ASSUME IInv, NEW r \in Request, Admit(r)
  PROVE  IInv'
<1> DEFINE s == req[r].sess
<1> DEFINE i == req[r].id
<1>1. s \in Session /\ i \in Id /\ phase[s] = "alive" /\ req[r].at = "found"
  BY DEF IInv, Owners, Holds, Admit
<1>2. CASE ~(Fresh(s, i) /\ WithinLimits(s))
  BY <1>2, EndIInv DEF Admit
<1>3. CASE Fresh(s, i) /\ WithinLimits(s)
  <2>1. /\ claimed' = claimed + 1
        /\ ids' = [ids EXCEPT ![s] = @ \union {i}]
        /\ req' = [req EXCEPT ![r].at = "admitted"]
        /\ ran' = [ran EXCEPT ![s][i] = @ + 1]
        /\ UNCHANGED <<now, phase, stored, expires>>
    BY <1>3 DEF Admit
  <2>2. i \notin ids[s] /\ Cardinality(ids[s]) < SessionCap /\ claimed < BudgetCap
    BY <1>3 DEF Fresh, WithinLimits, Share
  <2>3. ids' \in [Session -> SUBSET Id] /\ ids'[s] = ids[s] \union {i}
        /\ \A t \in Session : t # s => ids'[t] = ids[t]
    BY <1>1, <2>1 DEF IInv, TypeOK
  <2>4. IsFiniteSet(ids[s]) /\ Cardinality(ids[s]) \in Nat
        /\ IsFiniteSet(Retained) /\ Cardinality(Retained) \in Nat
    BY <1>1, Finite DEF IInv
  <2>5. Cardinality(ids'[s]) = Cardinality(ids[s]) + 1
    <3>1. Cardinality(ids[s] \union {i}) = Cardinality(ids[s]) + 1
      BY <2>2, <2>4, FS_AddElement
    <3> QED  BY <2>3, <3>1
  <2>6. \A t \in Session : Cardinality(ids'[t]) <= SessionCap
    <3>1. Cardinality(ids'[s]) <= SessionCap
      BY <2>2, <2>4, <2>5, TransportAssumption
    <3>2. \A t \in Session : t # s => Cardinality(ids'[t]) <= SessionCap
      BY <2>3 DEF IInv, TypeOK
    <3> QED  BY <3>1, <3>2
  <2>7. Retained' = Retained \union {<<s, i>>} /\ <<s, i>> \notin Retained
    BY <1>1, <2>1, <2>2, <2>3 DEF Retained
  <2>8. Cardinality(Retained') = Cardinality(Retained) + 1
    BY <2>4, <2>7, FS_AddElement
  <2>9. BudgetExact'
    BY <2>1, <2>4, <2>8 DEF IInv, BudgetExact
  <2>10. ran' \in [Session -> [Id -> Nat]]
         /\ \A t \in Session : \A j \in Id :
              ran'[t][j] = IF t = s /\ j = i THEN ran[t][j] + 1 ELSE ran[t][j]
    BY <1>1, <2>1 DEF IInv, TypeOK
  <2>11. req' \in [Request -> [at : {"idle", "reading", "found", "admitted"},
                      sess : Session \union {None}, id : Id \union {None}]]
    BY <2>1 DEF IInv, TypeOK
  <2>12. TypeOK'
    <3>1. claimed' \in 0 .. BudgetCap
      BY <2>1, <2>2, TransportAssumption DEF IInv, TypeOK
    <3> QED
      BY <2>1, <2>3, <2>6, <2>10, <2>11, <3>1 DEF IInv, TypeOK
  <2>13. Owners'
    BY <1>1, <2>1 DEF IInv, TypeOK, Owners, Holds
  <2>14. Replays'
    BY <1>1, <2>2, <2>3, <2>10 DEF IInv, Replays
  <2> QED  BY <2>9, <2>12, <2>13, <2>14 DEF IInv
<1> QED  BY <1>2, <1>3

\* Every step keeps the inductive invariant.
LEMMA NextIInv == IInv /\ [Next]_vars => IInv'
<1> SUFFICES ASSUME IInv, [Next]_vars PROVE IInv'
  OBVIOUS
<1>1. CASE UNCHANGED vars
  BY <1>1 DEF vars, IInv, TypeOK, Owners, Holds, Replays, BudgetExact, Retained
<1>2. ASSUME NEW s \in Session, Handshake(s) \/ Insert(s) \/ Reap(s) PROVE IInv'
  BY <1>2, ArrivalIInv, ReapIInv
<1>3. ASSUME NEW r \in Request, NEW s \in Session, NEW i \in Id, Begin(r, s, i)
      PROVE  IInv'
  BY <1>3, LookupIInv DEF Begin
<1>4. ASSUME NEW r \in Request, Find(r) PROVE IInv'
  <2>1. req[r].sess \in Session /\ req[r].id \in Id
    BY <1>4 DEF IInv, Owners, Find
  <2>2. [req[r] EXCEPT !.at = "found"]
          = [at |-> "found", sess |-> req[r].sess, id |-> req[r].id]
    BY DEF IInv, TypeOK
  <2> QED  BY <1>4, <2>1, <2>2, LookupIInv DEF Find
<1>5. ASSUME NEW r \in Request, Abandon(r) \/ Refuse(r) \/ Respond(r) PROVE IInv'
  BY <1>5, EndIInv DEF Abandon, Refuse, Respond
<1>6. ASSUME NEW r \in Request, Admit(r) PROVE IInv'
  BY <1>6, AdmitIInv
<1>7. CASE Purge
  <2>1. stored' \subseteq stored
    BY <1>7 DEF Purge
  <2>2. UNCHANGED <<now, phase, expires, ids, claimed, req, ran>>
    BY <1>7 DEF Purge
  <2>3. stored' \subseteq {t \in Session : phase[t] = "alive"}
        /\ Cardinality(stored') <= StoreCap
    BY <2>1, StoreShrinks DEF IInv
  <2>4. TypeOK'
    BY <2>2, <2>3 DEF IInv, TypeOK
  <2>5. Owners' /\ Replays' /\ BudgetExact'
    BY <2>2 DEF IInv, Owners, Holds, Replays, BudgetExact, Retained
  <2> QED  BY <2>4, <2>5 DEF IInv
<1>8. CASE Tick
  <2>1. now' \in 0 .. MaxTime
    BY <1>8, TransportAssumption DEF Tick, IInv, TypeOK
  <2>2. UNCHANGED <<phase, stored, expires, ids, claimed, req, ran>>
    BY <1>8 DEF Tick
  <2>3. TypeOK'
    BY <2>1, <2>2 DEF IInv, TypeOK
  <2>4. Owners' /\ Replays' /\ BudgetExact'
    BY <2>2 DEF IInv, Owners, Holds, Replays, BudgetExact, Retained
  <2> QED  BY <2>3, <2>4 DEF IInv
<1> QED
  BY <1>1, <1>2, <1>3, <1>4, <1>5, <1>6, <1>7, <1>8 DEF Next

\* The inductive invariant holds throughout.
LEMMA Inductive == Spec => []IInv
  BY InitIInv, NextIInv, PTL DEF Spec

-----------------------------------------------------------------------------
\* The limits hold: sessions stored, identifiers per session, identifiers in
\* the process.
THEOREM TypeCorrect == Spec => []TypeOK
<1>1. IInv => TypeOK
  BY DEF IInv
<1> QED  BY <1>1, Inductive, PTL

\* Only exact reuse is rejected, and always: no identifier is admitted twice
\* in a session, however copies of the request interleave with its purge.
THEOREM ReplayRejected == Spec => []AdmittedOnce
<1>1. IInv => AdmittedOnce
  BY DEF IInv, Replays, AdmittedOnce
<1> QED  BY <1>1, Inductive, PTL

\* The process-wide counter is the number of identifiers still retained.
THEOREM BudgetCounts == Spec => []BudgetExact
<1>1. IInv => BudgetExact
  BY DEF IInv
<1> QED  BY <1>1, Inductive, PTL

\* No handshake, lookup or sweep removes a session before its time.
THEOREM LiveStays == Spec => LiveSessionStays
<1> DEFINE Stays == \A s \in stored \ stored' : Expired(s, now)
<1>1. ASSUME IInv, Next PROVE Stays
  <2> SUFFICES ASSUME NEW s \in stored, s \notin stored' PROVE Expired(s, now)
    OBVIOUS
  <2>1. s \in Session /\ expires[s] \in Int /\ now \in Int
    BY <1>1, TransportAssumption DEF IInv, TypeOK
  <2>2. \A t \in Sampled : Expired(s, t) => Expired(s, now)
    BY <2>1 DEF Sampled, Expired
  <2>3. ASSUME NEW r \in Request, NEW x \in Session, NEW f, Lookup(r, x, f)
        PROVE  Expired(s, now)
    BY <2>2, <2>3 DEF Lookup
  <2>4. ASSUME NEW r \in Request, Find(r) PROVE Expired(s, now)
    <3>1. req[r].sess \in Session
      BY <1>1, <2>4 DEF IInv, Owners, Find
    <3> QED  BY <2>3, <2>4, <3>1 DEF Find
  <2>5. ASSUME NEW r \in Request, NEW x \in Session, NEW i \in Id, Begin(r, x, i)
        PROVE  Expired(s, now)
    BY <2>3, <2>5 DEF Begin
  <2>6. CASE Purge
    BY <2>2, <2>6 DEF Purge
  <2>7. ~Tick /\ \A x \in Session : ~(Handshake(x) \/ Insert(x) \/ Reap(x))
    BY DEF Tick, Handshake, Insert, Reap
  <2>8. \A r \in Request : ~(Abandon(r) \/ Admit(r) \/ Refuse(r) \/ Respond(r))
    BY DEF Abandon, Admit, Refuse, Respond
  <2> QED
    BY <1>1, <2>4, <2>5, <2>6, <2>7, <2>8 DEF Next
<1>2. IInv /\ [Next]_vars => [\A s \in stored \ stored' : Expired(s, now)]_vars
  BY <1>1
<1> QED  BY <1>2, Inductive, PTL DEF Spec, LiveSessionStays

=============================================================================
