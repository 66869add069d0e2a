-------------------------- MODULE TransportSessions --------------------------
(***************************************************************************)
(* Sessions of the second transport protocol of the OpenSecret service      *)
(* (transport_v2/session.rs, transport_v2/gateway.rs).  A handshake creates  *)
(* a session with a fixed lifetime.  A request looks its session up, reads   *)
(* its body without holding it, looks it up again, and claims its request    *)
(* identifier in the session's replay set before the application runs.  A    *)
(* process-wide budget counts the identifiers all sessions retain; a         *)
(* session's share is given back when its last reference goes.              *)
(*                                                                         *)
(* The store's mutex, each replay set's mutex and the budget's atomic are    *)
(* held one at a time, and every operation reads the clock before it waits   *)
(* for its mutex: an operation may use a time up to MaxLag old.             *)
(***************************************************************************)
EXTENDS Naturals, FiniteSets

CONSTANTS
  Session,       \* sessions ever created; identifiers are never reused
  Id,            \* request identifiers, chosen by clients
  Request,       \* requests that may be in flight at once
  Lifetime,      \* SESSION_LIFETIME
  StoreCap,      \* MAX_SESSIONS
  SessionCap,    \* MAX_REPLAY_IDS_PER_SESSION
  BudgetCap,     \* MAX_REPLAY_IDS_PROCESS_WIDE
  MaxLag,        \* how long an operation waits for a mutex
  MaxTime,       \* bound on the clock
  None           \* no session, no identifier

ASSUME TransportAssumption ==
  /\ Lifetime \in Nat \ {0}
  /\ StoreCap \in Nat \ {0} /\ SessionCap \in Nat \ {0} /\ BudgetCap \in Nat \ {0}
  /\ MaxLag \in Nat /\ MaxTime \in Nat
  /\ None \notin Session \union Id
  /\ IsFiniteSet(Session) /\ IsFiniteSet(Id)

VARIABLES
  now,
  phase,      \* none, built by its handshake, alive (Arc'd), or dropped
  stored,     \* the sessions the store's map holds
  expires,    \* expires_at
  ids,        \* each session's replay set
  claimed,    \* the budget's counter
  req,        \* each request's progress
  ran         \* history: how often (session, identifier) was admitted

vars == <<now, phase, stored, expires, ids, claimed, req, ran>>

Phase == {"none", "built", "alive", "dropped"}
NoReq == [at |-> "idle", sess |-> None, id |-> None]

TypeOK ==
  /\ now \in 0 .. MaxTime
  /\ phase \in [Session -> Phase]
  /\ stored \subseteq {s \in Session : phase[s] = "alive"}
  /\ Cardinality(stored) <= StoreCap
  /\ expires \in [Session -> 0 .. MaxTime + Lifetime]
  /\ ids \in [Session -> SUBSET Id]
  /\ \A s \in Session : Cardinality(ids[s]) <= SessionCap
  /\ claimed \in 0 .. BudgetCap
  /\ req \in [Request -> [at : {"idle", "reading", "found", "admitted"},
                          sess : Session \union {None}, id : Id \union {None}]]
  /\ ran \in [Session -> [Id -> Nat]]

Init ==
  /\ now = 0
  /\ phase = [s \in Session |-> "none"]
  /\ stored = {}
  /\ expires = [s \in Session |-> 0]
  /\ ids = [s \in Session |-> {}]
  /\ claimed = 0
  /\ req = [r \in Request |-> NoReq]
  /\ ran = [s \in Session |-> [i \in Id |-> 0]]

-----------------------------------------------------------------------------
(* Time and ownership. *)

\* The times an operation that finishes now may have read.
Sampled == {t \in 0 .. now : now - t <= MaxLag}

Expired(s, t) == expires[s] <= t

\* Mutant: the reference of the first lookup is kept while the body arrives.
HoldsWhileReading(r) == req[r].at \in {"reading", "found", "admitted"}

\* The requests that own an Arc of their session.
Holds(r) == req[r].at \in {"found", "admitted"}

Owned(s) == s \in stored \/ \E r \in Request : Holds(r) /\ req[r].sess = s

\* Mutant: a session that had admitted requests returns nothing.
ShareKept(s) == 0

\* What a session's registry has taken from the budget.
Share(s) == Cardinality(ids[s])

\* The last Arc goes: ReplayRegistry::drop returns the session's share.
Reap(s) ==
  /\ phase[s] = "alive" /\ ~Owned(s)
  /\ phase' = [phase EXCEPT ![s] = "dropped"]
  /\ claimed' = claimed - Share(s)
  /\ UNCHANGED <<now, stored, expires, ids, req, ran>>

-----------------------------------------------------------------------------
(* The store. *)

\* create_session: key agreement and attestation are done, the clock starts.
Handshake(s) ==
  /\ phase[s] = "none"
  /\ phase' = [phase EXCEPT ![s] = "built"]
  /\ expires' = [expires EXCEPT ![s] = now + Lifetime]
  /\ UNCHANGED <<now, stored, ids, claimed, req, ran>>

\* insert_at: refused when the session has already expired or the store is
\* full, of expired sessions too; a refused session has no owner left.
Insert(s) ==
  /\ phase[s] = "built"
  /\ phase' = [phase EXCEPT ![s] = "alive"]
  /\ \E t \in Sampled :
       stored' = IF Expired(s, t) \/ Cardinality(stored) >= StoreCap
                 THEN stored ELSE stored \union {s}
  /\ UNCHANGED <<now, expires, ids, claimed, req, ran>>

\* run_maintenance.
Purge ==
  /\ \E t \in Sampled : stored' = {s \in stored : ~Expired(s, t)}
  /\ UNCHANGED <<now, phase, expires, ids, claimed, req, ran>>

\* get_at for r: onto `found` when the session is there and live; an expired
\* session leaves the store, and the request ends without it.
Lookup(r, s, found) ==
  \E t \in Sampled :
    LET live == s \in stored /\ ~Expired(s, t) IN
    /\ stored' = IF live THEN stored ELSE stored \ {s}
    /\ req' = [req EXCEPT ![r] = IF live THEN found ELSE NoReq]

-----------------------------------------------------------------------------
(* Requests. *)

\* dispatch_request, up to the body: unknown sessions are turned away. The
\* reference this lookup returned is dropped.
Begin(r, s, i) ==
  /\ req[r].at = "idle" /\ phase[s] # "none"
  /\ Lookup(r, s, [at |-> "reading", sess |-> s, id |-> i])
  /\ UNCHANGED <<now, phase, expires, ids, claimed, ran>>

\* The body is whole: the lookup that counts.
Find(r) ==
  /\ req[r].at = "reading"
  /\ Lookup(r, req[r].sess, [req[r] EXCEPT !.at = "found"])
  /\ UNCHANGED <<now, phase, expires, ids, claimed, ran>>

\* The body is too large or too short, or the client goes.
Abandon(r) ==
  /\ req[r].at = "reading"
  /\ req' = [req EXCEPT ![r] = NoReq]
  /\ UNCHANGED <<now, phase, stored, expires, ids, claimed, ran>>

\* Mutant: the replay set is consulted only while the session is stored.
FreshStored(s, i) == i \notin ids[s] \/ s \notin stored

Fresh(s, i) == i \notin ids[s]

\* Mutant: the session's limit is off by one.
WithinLimitsLate(s) == Share(s) <= SessionCap /\ claimed < BudgetCap

\* The session's own limit and the process-wide one.
WithinLimits(s) == Share(s) < SessionCap /\ claimed < BudgetCap

\* open_and_admit: the record authenticates, the session is live, and the
\* identifier is claimed: new to the session, within its limit and the budget.
Admit(r) ==
  LET s == req[r].sess
      i == req[r].id
  IN
  /\ req[r].at = "found"
  /\ \E t \in Sampled : ~Expired(s, t)
  /\ IF Fresh(s, i) /\ WithinLimits(s)
     THEN /\ claimed' = claimed + 1
          /\ ids' = [ids EXCEPT ![s] = @ \union {i}]
          /\ req' = [req EXCEPT ![r].at = "admitted"]
          /\ ran' = [ran EXCEPT ![s][i] = @ + 1]
     ELSE /\ req' = [req EXCEPT ![r] = NoReq]
          /\ UNCHANGED <<ids, claimed, ran>>
  /\ UNCHANGED <<now, phase, stored, expires>>

\* open_and_admit fails before the claim: a forged record, an expired session.
Refuse(r) ==
  /\ req[r].at = "found"
  /\ req' = [req EXCEPT ![r] = NoReq]
  /\ UNCHANGED <<now, phase, stored, expires, ids, claimed, ran>>

\* The application has answered, or the client has gone: begin_response keeps
\* the response key and lets the session go before the body streams.
Respond(r) ==
  /\ req[r].at = "admitted"
  /\ req' = [req EXCEPT ![r] = NoReq]
  /\ UNCHANGED <<now, phase, stored, expires, ids, claimed, ran>>

Tick ==
  /\ now < MaxTime
  /\ now' = now + 1
  /\ UNCHANGED <<phase, stored, expires, ids, claimed, req, ran>>

-----------------------------------------------------------------------------
Next ==
  \/ \E s \in Session : Handshake(s) \/ Insert(s) \/ Reap(s)
  \/ \E r \in Request, s \in Session, i \in Id : Begin(r, s, i)
  \/ \E r \in Request : \/ Find(r) \/ Abandon(r) \/ Admit(r) \/ Refuse(r)
                        \/ Respond(r)
  \/ Purge \/ Tick

Spec == Init /\ [][Next]_vars

\* Maintenance runs forever, a thread that drops the last Arc finishes doing
\* so, an insertion and a claim do not block, and a handler answers or its
\* client goes. Nothing is assumed of a body that is being uploaded.
FairSpec ==
  /\ Spec
  /\ WF_vars(Purge)
  /\ \A s \in Session : WF_vars(Insert(s)) /\ WF_vars(Reap(s))
  /\ \A r \in Request : WF_vars(Admit(r) \/ Refuse(r)) /\ WF_vars(Respond(r))

-----------------------------------------------------------------------------
(* What the transport promises. *)

\* "only exact reuse is rejected" (session.rs:106), and always: two copies of a
\* request in flight together, one of them before and one after its session
\* has left the store, are admitted once between them.
AdmittedOnce == \A s \in Session, i \in Id : ran[s][i] <= 1

\* Sessions that still retain identifiers, and the identifiers.
Retained ==
  {c \in Session \X Id : phase[c[1]] # "dropped" /\ c[2] \in ids[c[1]]}

\* "A process-wide count of replay IDs that have actually been retained"
\* (session.rs:28): refused claims, failed insertions, purges and requests that
\* outlive their session leave the counter exact, so it never underflows.
BudgetExact == claimed = Cardinality(Retained)

\* "a live session is never evicted to admit an unauthenticated new handshake"
\* (session.rs:349).
LiveSessionStays == [][\A s \in stored \ stored' : Expired(s, now)]_vars

\* A session that has expired gives its share of the budget back, however many
\* uploads for it never finish.
ExpiredIsReleased ==
  \A s \in Session : (phase[s] # "none" /\ Expired(s, now)) ~> phase[s] = "dropped"

=============================================================================
