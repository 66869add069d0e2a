---------------------------- MODULE SessionCache ----------------------------
(***************************************************************************)
(* The cache of encryption sessions of the OpenSecret service               *)
(* (lease_aware_cache.rs) and everyone who uses it: the key exchange that   *)
(* stores a session, the requests that hold a lease on one until their      *)
(* response body is gone (main.rs, web/encryption_middleware.rs), and the   *)
(* maintenance task that retires expired sessions in batches               *)
(* (secret_cache_maintenance.rs).  One mutex serializes the cache; every    *)
(* action below is one hold of it, or one step taken outside it: a lease is  *)
(* dropped outside, first its count and then its Arc.                       *)
(***************************************************************************)
EXTENDS Recency, FiniteSets

CONSTANTS
  Key,         \* session identifiers
  NoKey,       \* what an idle request names
  Request,     \* requests that may be in flight at once
  Capacity,    \* entries the cache holds
  Ttl,         \* idle lifetime of a session
  BatchSize,   \* keys retired under one hold of the mutex
  MaxTime,     \* bound on the clock
  MaxSlots     \* bound on the sessions ever stored

ASSUME SessionCacheAssumption ==
  /\ Capacity \in Nat \ {0} /\ Ttl \in Nat \ {0} /\ BatchSize \in Nat \ {0}
  /\ MaxTime \in Nat /\ MaxSlots \in Nat
  /\ NoKey \notin Key

VARIABLES
  now,        \* the monotonic clock
  resident,   \* the keys in the cache
  order,      \* their recency
  slot,       \* the Arc'd value under each key, by serial number; 0 before any
  expires,    \* expires_at of each key's entry
  slots,      \* values stored so far
  req,        \* each request: how far it is and which value it holds
  sweep       \* the maintenance task: its own `now` and the keys it has left

cacheVars == <<resident, order, slot, expires, slots>>
vars == <<now, resident, order, slot, expires, slots, req, sweep>>

Time == 0 .. MaxTime + Ttl

\* idle, leased and not yet authenticated, authenticated, encrypting a
\* response under a second lease, count dropped but Arc alive, or cut off
\* because its session was not there.
Phase == {"idle", "leased", "serving", "sealing", "released", "cutoff"}
Holding == {"leased", "serving", "sealing", "cutoff"}

NoReq == [phase |-> "idle", key |-> NoKey, slot |-> 0]

TypeOK ==
  /\ now \in 0 .. MaxTime
  /\ resident \subseteq Key /\ Cardinality(resident) <= Capacity
  /\ order \subseteq resident \X resident
  /\ slots \in 0 .. MaxSlots
  /\ slot \in [Key -> 0 .. slots]
  /\ expires \in [Key -> Time]
  /\ req \in [Request -> [phase : Phase, key : Key \union {NoKey}, slot : 0 .. slots]]
  /\ sweep \in [at : 0 .. MaxTime, todo : SUBSET Key,
                phase : {"idle", "due", "retiring"}]

Init ==
  /\ now = 0
  /\ resident = {} /\ order = {} /\ slots = 0
  /\ slot = [k \in Key |-> 0]
  /\ expires = [k \in Key |-> 0]
  /\ req = [r \in Request |-> NoReq]
  /\ sweep = [at |-> 0, todo |-> {}, phase |-> "idle"]

-----------------------------------------------------------------------------
(* The cache. *)

\* Requests whose lease is counted on k's value, and those that still own an Arc.
IsLeased(k) == \E r \in Request : req[r].phase \in Holding /\ req[r].slot = slot[k]

Shared(k) ==
  \E r \in Request : req[r].phase \in Holding \union {"released"}
                     /\ req[r].slot = slot[k]

\* Mutant: only the count is looked at.
HasLeaseCounted(k) == IsLeased(k)

HasExternalLease(k) == IsLeased(k) \/ Shared(k)

Expired(k, t) == expires[k] <= t

\* The entry acquire_at and touch_at drop on sight instead of using.
Spent(k) == k \in resident /\ Expired(k, now) /\ ~HasExternalLease(k)

Remove(S) ==
  /\ resident' = resident \ S
  /\ order' = order \cap ((resident \ S) \X (resident \ S))

\* acquire_request_session: a lease, without touching recency or deadline. An
\* expired session that nobody holds is removed and reported missing.
Acquire(r, k) ==
  /\ req[r].phase = "idle" /\ k \in resident
  /\ IF Spent(k)
     THEN Remove({k}) /\ UNCHANGED req
     ELSE /\ req' = [req EXCEPT ![r] =
                       [phase |-> "leased", key |-> k, slot |-> slot[k]]]
          /\ UNCHANGED <<resident, order>>
  /\ UNCHANGED <<now, slot, expires, slots, sweep>>

\* touch_at: a new deadline, and to the front.
Freshen(k) ==
  /\ expires' = [expires EXCEPT ![k] = now + Ttl]
  /\ order' = Promote(order, resident, k)
  /\ UNCHANGED resident

\* touch, for the request r, which goes to `next` when its session is there.
Touch(r, next) ==
  LET k == req[r].key IN
  /\ IF k \in resident /\ ~Spent(k)
     THEN Freshen(k) /\ req' = [req EXCEPT ![r].phase = next]
     ELSE /\ Remove({k} \cap resident)
          /\ req' = [req EXCEPT ![r].phase = "cutoff"]
          /\ UNCHANGED expires
  /\ UNCHANGED <<now, slot, slots, sweep>>

\* Mutant: at capacity the most recent entry makes room.
VictimNewest(S) == {k \in S : \A j \in S \ {k} : <<j, k>> \in order}

\* The first unleased entry from the least recently used end.
Victim(S) == Oldest(order, S)

\* Mutant: one entry too many is admitted.
FullLate == Cardinality(resident) > Capacity

Full == Cardinality(resident) >= Capacity

\* store_session_state: admit a session under a fresh identifier. At capacity
\* an entry nobody holds makes room; when all are held the exchange fails.
Store(k) ==
  LET free == {j \in resident : ~HasExternalLease(j)} IN
  /\ k \notin resident /\ slots < MaxSlots
  /\ \E gone \in (IF Full THEN {{v} : v \in Victim(free)} ELSE {{}}) :
       LET kept == resident \ gone IN
       /\ resident' = kept \union {k}
       /\ order' = Promote(order \cap (kept \X kept), kept, k)
  /\ slots' = slots + 1
  /\ slot' = [slot EXCEPT ![k] = slots + 1]
  /\ expires' = [expires EXCEPT ![k] = now + Ttl]
  /\ UNCHANGED <<now, req, sweep>>

-----------------------------------------------------------------------------
(* Requests. *)

\* decrypt_session_data, or the touch of a bodyless request.
Authenticate(r) == req[r].phase = "leased" /\ Touch(r, "serving")

\* The ciphertext is invalid: the lease goes, the deadline stays.
Reject(r) ==
  /\ req[r].phase = "leased"
  /\ req' = [req EXCEPT ![r].phase = "released"]
  /\ UNCHANGED <<now, cacheVars, sweep>>

\* encrypt_session_data looks the session up again by its identifier...
Seal(r) ==
  LET k == req[r].key IN
  /\ req[r].phase = "serving"
  /\ IF k \in resident /\ ~Spent(k)
     THEN /\ req' = [req EXCEPT ![r].phase = "sealing"]
          /\ UNCHANGED <<resident, order>>
     ELSE /\ req' = [req EXCEPT ![r].phase = "cutoff"]
          /\ Remove({k} \cap resident)
  /\ UNCHANGED <<now, slot, expires, slots, sweep>>

\* ... and touches it once the response, or one event of it, is encrypted.
Sealed(r) == req[r].phase = "sealing" /\ Touch(r, "serving")

\* The response body ends or the client goes: CacheLease::drop.
Release(r) ==
  /\ req[r].phase \in {"serving", "cutoff"}
  /\ req' = [req EXCEPT ![r].phase = "released"]
  /\ UNCHANGED <<now, cacheVars, sweep>>

\* The Arc of a dropped lease goes after its count.
DropArc(r) ==
  /\ req[r].phase = "released"
  /\ req' = [req EXCEPT ![r] = NoReq]
  /\ UNCHANGED <<now, cacheVars, sweep>>

-----------------------------------------------------------------------------
(* Maintenance. *)

\* The interval fires: `now` is read once for the whole purge.
SweepDue ==
  /\ sweep.phase = "idle"
  /\ sweep' = [at |-> now, todo |-> {}, phase |-> "due"]
  /\ UNCHANGED <<now, cacheVars, req>>

\* Mutant: the scan stops at the first entry it cannot retire.
ExpiredUpToLease(t) ==
  Before(order, resident, LAMBDA k : ~Expired(k, t) \/ HasExternalLease(k))

\* expired_unleased_keys_at: from the old end up to the first live entry.
ExpiredUnleased(t) ==
  {k \in Before(order, resident, LAMBDA j : ~Expired(j, t)) : ~HasExternalLease(k)}

Snapshot ==
  /\ sweep.phase = "due"
  /\ LET keys == ExpiredUnleased(sweep.at) IN
     sweep' = [sweep EXCEPT !.todo = keys,
                            !.phase = IF keys = {} THEN "idle" ELSE "retiring"]
  /\ UNCHANGED <<now, cacheVars, req>>

\* Revalidated under the mutex.
Retirable(k) ==
  k \in resident /\ Expired(k, sweep.at) /\ ~HasExternalLease(k)

\* retire_expired_candidates_at on the next batch, whichever keys it holds.
Retire ==
  /\ sweep.phase = "retiring"
  /\ \E batch \in SUBSET sweep.todo :
       /\ batch # {}
       /\ batch = sweep.todo \/ Cardinality(batch) = BatchSize
       /\ Cardinality(batch) <= BatchSize
       /\ Remove({k \in batch : Retirable(k)})
       /\ sweep' = [sweep EXCEPT !.todo = @ \ batch,
                                 !.phase = IF batch = sweep.todo THEN "idle" ELSE @]
  /\ UNCHANGED <<now, slot, expires, slots, req>>

Tick ==
  /\ now < MaxTime
  /\ now' = now + 1
  /\ UNCHANGED <<cacheVars, req, sweep>>

-----------------------------------------------------------------------------
Next ==
  \/ \E k \in Key : Store(k)
  \/ \E r \in Request, k \in Key : Acquire(r, k)
  \/ \E r \in Request : \/ Authenticate(r) \/ Reject(r) \/ Seal(r) \/ Sealed(r)
                        \/ Release(r) \/ DropArc(r)
  \/ SweepDue \/ Snapshot \/ Retire \/ Tick

Spec == Init /\ [][Next]_vars

\* The maintenance task runs on its interval for as long as the process does.
\* Nothing is assumed of requests: a response may stream forever.
FairSpec == Spec /\ WF_vars(SweepDue) /\ WF_vars(Snapshot) /\ WF_vars(Retire)

-----------------------------------------------------------------------------
(* What the cache promises. *)

\* "in-flight values stay resident until their final request lease is dropped"
\* (lease_aware_cache.rs:88): the value a request holds an Arc of is the one
\* under its key, so no expiry, eviction or sweep cuts a request off.
HeldIsResident ==
  \A r \in Request : req[r].phase # "idle" =>
    /\ req[r].key \in resident
    /\ slot[req[r].key] = req[r].slot
    /\ req[r].phase # "cutoff"

\* "Expired entries therefore form an LRU suffix" (lease_aware_cache.rs:251).
ExpiryFollowsRecency == \A p \in order : expires[p[1]] <= expires[p[2]]

\* A session that has not expired leaves only a full cache, and only when every
\* expired one in it is held and could not have gone instead.
LiveLeavesLast ==
  [][\A k \in resident \ resident' : Expired(k, now)
       \/ /\ Cardinality(resident) = Capacity
          /\ \A j \in resident : Expired(j, now) => HasExternalLease(j)]_vars

\* Every session that has expired with nobody holding it is retired, although
\* other expired sessions may be held forever.
ExpiredIsRetired == \A k \in Key : Spent(k) ~> k \notin resident

=============================================================================
