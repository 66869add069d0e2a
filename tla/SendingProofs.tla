---------------------------- MODULE SendingProofs ----------------------------
(***************************************************************************)
(* Proofs about SendReceipts, for any set of sends, any number of copies of *)
(* a request and any number of crashes and dropped connections.             *)
(*                                                                         *)
(* That an identity runs at most once is not inductive: Dispatch counts and *)
(* looks at nothing durable.  The strengthening says who may still dispatch. *)
(* A call between its reservation and its result holds the only open claim  *)
(* on its identity's row (Claims), the row is open while it does, and a row *)
(* says how often its identity ran (Rows).                                  *)
(*                                                                         *)
(* The second half is about ChatSends, which composes the screen with it.   *)
(***************************************************************************)
EXTENDS ChatSends, FiniteSetTheorems, TLAPS

\* A call that has reserved its identity and not yet recorded the result.
Claiming == {"reserved", "ranok", "ranerr"}

\* A dead host runs no calls, and only a live one is connected to.
DeadIsQuiet ==
  /\ linked => up
  /\ ~up => \A s \in Send : \A k \in Copy : req[s][k] \in {"none", "gone"}

\* At most one call claims an identity, and only while its row is pending.
Claims ==
  \A s \in Send : \A k \in Copy : req[s][k] \in Claiming =>
    /\ receipt[s] = "pending"
    /\ \A l \in Copy : req[s][l] \in Claiming => l = k
    /\ ran[s] = IF req[s][k] = "reserved" THEN 0 ELSE 1

\* What a row says of the past, and what an answer says of the row.
Rows ==
  \A s \in Send :
    /\ ran[s] <= 1
    /\ receipt[s] = "absent" => ran[s] = 0
    /\ receipt[s] = "ok" => ran[s] = 1
    /\ rpc[s] = "ok" => receipt[s] = "ok"
    /\ \A k \in Copy : req[s][k] = "ok" => receipt[s] = "ok"

\* The inductive invariant.
IInv == TypeOK /\ DeadIsQuiet /\ Claims /\ Rows

-----------------------------------------------------------------------------
\* A call that moves to another phase.
LEMMA Moves ==
  ASSUME NEW s \in Send, NEW k \in Copy, NEW p \in Phase,
         req \in [Send -> [Copy -> Phase]], req' = [req EXCEPT ![s][k] = p]
  PROVE  /\ req' \in [Send -> [Copy -> Phase]]
         /\ \A t \in Send : \A l \in Copy :
              req'[t][l] = IF t = s /\ l = k THEN p ELSE req[t][l]
  OBVIOUS

\* The empty store and the idle client satisfy it.
LEMMA InitIInv == Init => IInv
  BY SendAssumption
  DEF Init, IInv, TypeOK, DeadIsQuiet, Claims, Rows, Claiming, Receipt, Result,
      Phase, Answer, Rpc, Returned, Copy

\* The client's own steps never touch a row or a claim.
LEMMA ClientIInv ==
  ASSUME IInv, NEW s \in Send, Client(s) \/ Submit(s)
  PROVE  IInv'
<1>0. 1 \in Copy
  BY SendAssumption DEF Copy
<1>1. CASE Deliver(s)
  <2>1. TypeOK'
    BY <1>0, <1>1 DEF IInv, TypeOK, Deliver, Phase, Answer, Result, Rpc, Returned
  <2>2. DeadIsQuiet'
    BY <1>0, <1>1 DEF IInv, TypeOK, DeadIsQuiet, Deliver
  <2>3. Claims'
    BY <1>0, <1>1 DEF IInv, TypeOK, Claims, Claiming, Deliver
  <2>4. Rows'
    BY <1>0, <1>1 DEF IInv, TypeOK, Rows, Deliver
  <2> QED  BY <2>1, <2>2, <2>3, <2>4 DEF IInv
<1>2. CASE Recover(s)
  BY <1>2 DEF IInv, TypeOK, DeadIsQuiet, Claims, Claiming, Rows, Recover, Result,
     Rpc, Returned, Answer
<1>3. CASE GiveUp(s)
  BY <1>3 DEF IInv, TypeOK, DeadIsQuiet, Claims, Claiming, Rows, GiveUp, Rpc,
     Returned, Answer
<1>4. CASE Submit(s)
  <2>0. "wire" \in Phase
    BY DEF Phase
  <2>1. TypeOK'
    <3>1. CASE linked
      <4>1. req' \in [Send -> [Copy -> Phase]]
        BY <1>0, <1>4, <2>0, <3>1, Moves DEF IInv, TypeOK, Submit
      <4> QED  BY <1>4, <3>1, <4>1 DEF IInv, TypeOK, Submit, Rpc
    <3>2. CASE ~linked
      BY <1>4, <3>2 DEF IInv, TypeOK, Submit, Rpc, Returned, Answer, Result
    <3> QED  BY <3>1, <3>2
  <2>2. DeadIsQuiet'
    BY <1>0, <1>4 DEF IInv, TypeOK, DeadIsQuiet, Submit
  <2>3. Claims'
    BY <1>0, <1>4 DEF IInv, TypeOK, Claims, Claiming, Submit
  <2>4. Rows'
    BY <1>0, <1>4 DEF IInv, TypeOK, Rows, Submit
  <2> QED  BY <2>1, <2>2, <2>3, <2>4 DEF IInv
<1> QED
  BY <1>1, <1>2, <1>3, <1>4 DEF Client

\* A request on its way: repeated, lost or read.
LEMMA WireIInv ==
  ASSUME IInv, NEW s \in Send, NEW k \in Copy,
         Repeat(s, k) \/ Lose(s, k) \/ Arrive(s, k)
  PROVE  IInv'
<1>1. TypeOK'
  <2>1. {"wire", "gone", "arrived"} \subseteq Phase
    BY DEF Phase
  <2>2. req' \in [Send -> [Copy -> Phase]]
    BY <2>1, Moves DEF IInv, TypeOK, Repeat, Lose, Arrive
  <2> QED  BY <2>2 DEF IInv, TypeOK, Repeat, Lose, Arrive
<1>2. DeadIsQuiet'
  BY DEF IInv, TypeOK, DeadIsQuiet, Repeat, Lose, Arrive
<1>3. Claims'
  BY DEF IInv, TypeOK, Claims, Claiming, Repeat, Lose, Arrive
<1>4. Rows'
  BY DEF IInv, TypeOK, Rows, Repeat, Lose, Arrive
<1> QED  BY <1>1, <1>2, <1>3, <1>4 DEF IInv

\* A call that answers without dispatching: refused, or not the first.
LEMMA RefuseIInv ==
  ASSUME IInv, NEW s \in Send, NEW k \in Copy, Refuse(s, k)
  PROVE  IInv'
<1>1. TypeOK'
  BY DEF IInv, TypeOK, Refuse, Phase, Answer, Result, Receipt
<1>2. DeadIsQuiet'
  BY DEF IInv, TypeOK, DeadIsQuiet, Refuse
<1>3. Claims'
  BY DEF IInv, TypeOK, Claims, Claiming, Refuse
<1>4. Rows'
  BY DEF IInv, TypeOK, Rows, Refuse
<1> QED  BY <1>1, <1>2, <1>3, <1>4 DEF IInv

\* Only an absent row is reserved, so a new claim is the only one.
LEMMA ReserveIInv ==
  ASSUME IInv, NEW s \in Send, NEW k \in Copy, Reserve(s, k)
  PROVE  IInv'
<1>1. TypeOK'
  BY DEF IInv, TypeOK, Reserve, Phase, Answer, Result, Receipt
<1>2. DeadIsQuiet'
  BY DEF IInv, TypeOK, DeadIsQuiet, Reserve
<1>3. Claims'
  <2>1. CASE receipt[s] = "absent"
    BY <2>1 DEF IInv, TypeOK, Claims, Claiming, Rows, Reserve
  <2>2. CASE receipt[s] # "absent"
    BY <2>2 DEF IInv, TypeOK, Claims, Claiming, Reserve, Result
  <2> QED  BY <2>1, <2>2
<1>4. Rows'
  BY DEF IInv, TypeOK, Rows, Reserve, Result
<1> QED  BY <1>1, <1>2, <1>3, <1>4 DEF IInv

\* The claimant dispatches: its row is pending and its identity has not run.
LEMMA DispatchIInv ==
  ASSUME IInv, NEW s \in Send, NEW k \in Copy, Dispatch(s, k)
  PROVE  IInv'
<1>1. PICK r \in Claiming \ {"reserved"} : req' = [req EXCEPT ![s][k] = r]
  BY DEF Dispatch, Claiming
<1>2. receipt[s] = "pending" /\ ran[s] = 0
  BY DEF IInv, Claims, Claiming, Dispatch
<1>3. TypeOK'
  BY <1>1, <1>2 DEF IInv, TypeOK, Dispatch, Phase, Claiming
<1>4. DeadIsQuiet'
  BY <1>1 DEF IInv, TypeOK, DeadIsQuiet, Dispatch, Claiming
<1>5. Claims'
  BY <1>1, <1>2 DEF IInv, TypeOK, Claims, Claiming, Dispatch
<1>6. Rows'
  BY <1>1, <1>2 DEF IInv, TypeOK, Rows, Dispatch, Claiming
<1> QED  BY <1>3, <1>4, <1>5, <1>6 DEF IInv

\* The claim ends: with the result in the row, or with the row left pending.
LEMMA FinishIInv ==
  ASSUME IInv, NEW s \in Send, NEW k \in Copy, Finish(s, k) \/ FinishFails(s, k)
  PROVE  IInv'
<1>1. receipt[s] = "pending" /\ ran[s] = 1
  BY DEF IInv, Claims, Claiming, Finish, FinishFails
<1>2. PICK p \in Answer :
         /\ req' = [req EXCEPT ![s][k] = p]
         /\ receipt' = [receipt EXCEPT ![s] = IF p = "unknown" THEN @ ELSE p]
  <2>1. CASE Finish(s, k)
    <3>1. Outcome(s, k) \in Result
      BY DEF Outcome, Result
    <3>2. req' = [req EXCEPT ![s][k] = Outcome(s, k)]
          /\ receipt' = [receipt EXCEPT ![s] = Outcome(s, k)]
      BY <1>1, <2>1 DEF Finish
    <3> QED  BY <3>1, <3>2 DEF Answer, Result
  <2>2. CASE FinishFails(s, k)
    BY <2>2 DEF FinishFails, Answer, IInv, TypeOK
  <2> QED  BY <2>1, <2>2
<1>3. UNCHANGED <<up, linked, ran, rpc, crashes, drops>>
  BY DEF Finish, FinishFails
<1>4. /\ req' \in [Send -> [Copy -> Phase]]
      /\ \A t \in Send : \A l \in Copy :
           req'[t][l] = IF t = s /\ l = k THEN p ELSE req[t][l]
  BY <1>2, Moves DEF IInv, TypeOK, Phase
<1>5. TypeOK'
  BY <1>2, <1>3, <1>4 DEF IInv, TypeOK, Receipt, Answer
<1>6. DeadIsQuiet'
  <2>1. up
    BY DEF IInv, DeadIsQuiet, Finish, FinishFails
  <2> QED  BY <1>3, <2>1 DEF DeadIsQuiet
<1>7. Claims'
  <2>1. \A l \in Copy : l # k => req[s][l] \notin Claiming
    BY DEF IInv, Claims, Claiming, Finish, FinishFails
  <2>2. p \notin Claiming
    BY DEF Answer, Result, Claiming
  <2> QED
    BY <1>2, <1>3, <1>4, <2>1, <2>2 DEF IInv, TypeOK, Claims
<1>8. Rows'
  <2>1. p = "ok" => receipt'[s] = "ok"
    BY <1>2 DEF IInv, TypeOK
  <2> QED
    BY <1>1, <1>2, <1>3, <1>4, <2>1 DEF IInv, TypeOK, Rows, Answer, Result
<1> QED  BY <1>5, <1>6, <1>7, <1>8 DEF IInv

\* Losing the connection, the host, or coming back. A crash ends every claim
\* before Restart closes the rows they left.
LEMMA FaultIInv ==
  ASSUME IInv, Drop \/ Reconnect \/ Crash \/ Restart
  PROVE  IInv'
<1>1. CASE Drop
  <2>1. TypeOK'
    <3>1. rpc' \in [Send -> Rpc]
      BY <1>1 DEF IInv, TypeOK, Drop, Orphaned, Rpc
    <3>2. drops' \in 0 .. MaxDrops
      BY <1>1, SendAssumption DEF IInv, TypeOK, Drop
    <3> QED  BY <1>1, <3>1, <3>2 DEF IInv, TypeOK, Drop
  <2>2. DeadIsQuiet' /\ Claims'
    BY <1>1 DEF IInv, DeadIsQuiet, Claims, Drop
  <2>3. Rows'
    BY <1>1 DEF IInv, TypeOK, Rows, Drop, Orphaned
  <2> QED  BY <2>1, <2>2, <2>3 DEF IInv
<1>2. CASE Reconnect
  BY <1>2 DEF IInv, TypeOK, DeadIsQuiet, Claims, Claiming, Rows, Reconnect
<1>3. CASE Crash
  <2>1. TypeOK'
    <3>1. rpc' \in [Send -> Rpc]
      BY <1>3 DEF IInv, TypeOK, Crash, Orphaned, Rpc
    <3>2. crashes' \in 0 .. MaxCrashes
      BY <1>3, SendAssumption DEF IInv, TypeOK, Crash
    <3>3. req' \in [Send -> [Copy -> Phase]]
      BY <1>3 DEF Crash, Phase
    <3> QED  BY <1>3, <3>1, <3>2, <3>3 DEF IInv, TypeOK, Crash
  <2>2. \A s \in Send : \A k \in Copy : req'[s][k] \in {"none", "gone"}
    BY <1>3 DEF Crash
  <2>3. DeadIsQuiet' /\ Claims'
    BY <1>3, <2>2 DEF DeadIsQuiet, Claims, Claiming, Crash
  <2>4. Rows'
    BY <1>3, <2>2 DEF IInv, TypeOK, Rows, Crash, Orphaned
  <2> QED  BY <2>1, <2>3, <2>4 DEF IInv
<1>4. CASE Restart
  <2>1. \A s \in Send : \A k \in Copy : req[s][k] \in {"none", "gone"}
    BY <1>4 DEF IInv, DeadIsQuiet, Restart
  <2>2. Claims'
    BY <1>4, <2>1 DEF Claims, Claiming, Restart
  <2>3. TypeOK' /\ DeadIsQuiet' /\ Rows'
    BY <1>4, <2>1 DEF IInv, TypeOK, DeadIsQuiet, Rows, Restart, Receipt
  <2> QED  BY <2>2, <2>3 DEF IInv
<1> QED  BY <1>1, <1>2, <1>3, <1>4

\* Every step keeps the inductive invariant.
LEMMA NextIInv == IInv /\ [Next]_vars => IInv'
<1> SUFFICES ASSUME IInv, [Next]_vars PROVE IInv'
  OBVIOUS
<1>1. CASE UNCHANGED vars
  BY <1>1 DEF IInv, TypeOK, DeadIsQuiet, Claims, Rows, vars
<1>2. CASE \E s \in Send : Client(s) \/ Submit(s)
  BY <1>2, ClientIInv
<1>3. CASE \E s \in Send, k \in Copy : Call(s, k)
  BY <1>3, WireIInv, RefuseIInv, ReserveIInv, DispatchIInv, FinishIInv DEF Call
<1>4. CASE \E s \in Send, k \in Copy : Repeat(s, k) \/ Lose(s, k)
  BY <1>4, WireIInv
<1>5. CASE Drop \/ Reconnect \/ Crash \/ Restart
  BY <1>5, FaultIInv
<1> QED
  BY <1>1, <1>2, <1>3, <1>4, <1>5 DEF Next, Transport

\* The inductive invariant holds throughout.
LEMMA Inductive == Spec => []IInv
  BY InitIInv, NextIInv, PTL DEF Spec

-----------------------------------------------------------------------------
\* The state always has its type.
THEOREM TypeCorrect == Spec => []TypeOK
<1>1. IInv => TypeOK
  BY DEF IInv
<1> QED  BY <1>1, Inductive, PTL

\* Uncertain effects are never replayed: whatever is lost, repeated or cut by
\* a crash, an identity is dispatched to the runtime at most once.
THEOREM NeverReplayed == Spec => []AtMostOnce
<1>1. IInv => AtMostOnce
  BY DEF IInv, Rows, AtMostOnce
<1> QED  BY <1>1, Inductive, PTL

\* A client told "accepted" has had its message dispatched, once.
THEOREM AcceptanceIsReal == Spec => []AcceptedRan
<1>1. IInv => AcceptedRan
  BY DEF IInv, Rows, AcceptedRan
<1> QED  BY <1>1, Inductive, PTL

\* An interrupted or finished receipt never changes and never dispatches again.
THEOREM SettledForGood == Spec => SettledStands
<1> DEFINE Stands ==
      \A s \in Send : receipt[s] \in Result \union {"interrupted"} =>
        receipt'[s] = receipt[s] /\ ran'[s] = ran[s]
<1>1. ASSUME IInv, Next PROVE Stands
  <2> SUFFICES ASSUME NEW t \in Send, receipt[t] \in Result \union {"interrupted"}
               PROVE  receipt'[t] = receipt[t] /\ ran'[t] = ran[t]
    OBVIOUS
  <2>1. \A k \in Copy : req[t][k] \notin Claiming
    BY <1>1 DEF IInv, Claims, Result
  <2>2. ASSUME NEW s \in Send, NEW k \in Copy, Call(s, k)
        PROVE  receipt'[t] = receipt[t] /\ ran'[t] = ran[t]
    <3>1. CASE s = t
      BY <1>1, <2>1, <2>2, <3>1 DEF Call, Arrive, Refuse, Reserve, Dispatch, Finish,
         FinishFails, Claiming, IInv, TypeOK, Result
    <3>2. CASE s # t
      BY <1>1, <2>2, <3>2 DEF Call, Arrive, Refuse, Reserve, Dispatch, Finish,
         FinishFails, IInv, TypeOK
    <3> QED  BY <3>1, <3>2
  <2>3. CASE \E s \in Send : Client(s) \/ Submit(s)
    BY <2>3 DEF Client, Submit, Deliver, Recover, GiveUp
  <2>4. CASE \E s \in Send, k \in Copy : Repeat(s, k) \/ Lose(s, k)
    BY <2>4 DEF Repeat, Lose
  <2>5. CASE Drop \/ Reconnect \/ Crash \/ Restart
    BY <1>1, <2>5 DEF Drop, Reconnect, Crash, Restart, IInv, TypeOK, Result
  <2> QED
    BY <1>1, <2>2, <2>3, <2>4, <2>5 DEF Next, Transport
<1>2. IInv /\ [Next]_vars => [Stands]_vars
  BY <1>1
<1>3. IInv /\ [Next]_vars => [\A s \in Send : receipt[s] \in Result \union {"interrupted"} =>
       receipt'[s] = receipt[s] /\ ran'[s] = ran[s]]_vars
  BY <1>2
<1> QED  BY <1>3, Inductive, PTL DEF Spec, SettledStands

-----------------------------------------------------------------------------
(* The chat screen.  A handler leaves places, outcomes and fences to Settle,  *)
(* so what the screen keeps true is stated of any such three (Screen).        *)

Early == {"new", "uploading", "prepared"}

\* A send that blocks the next one.
InFlight(s, u, o) ==
  u[s] = "admitting" \/ (u[s] = "unresolved" /\ o[s] \in {"none", "pending"})

Alone(u, o) ==
  \A s, t \in Send : InFlight(s, u, o) /\ InFlight(t, u, o) => s = t

\* One conversation has one upload.
OneUpload(u) ==
  \A s, t \in Send :
    u[s] \in {"uploading", "prepared"} /\ u[t] \in {"uploading", "prepared"} => s = t

Types(u, o, f) ==
  /\ u \in [Send -> Early \union {"admitting", "unresolved", "sent", "restored"}]
  /\ o \in [Send -> Seen \union {"none"}]
  /\ f \in [Send -> {"uploading", "cancelled", "handed"}]

Screen(u, o, f) ==
  /\ Types(u, o, f) /\ Alone(u, o) /\ OneUpload(u)
  /\ \A s \in Send :
       /\ u[s] \in Early \/ f[s] = "cancelled" => rpc[s] = "idle"
       /\ u[s] # "admitting" => rpc[s] \in Returned \union {"idle"}
       /\ u[s] \in Early => o[s] = "none"
       /\ u[s] = "restored" => o[s] \in {"missing", "interrupted", "err"}
       /\ u[s] = "sent" \/ o[s] = "ok" => receipt[s] = "ok"

\* A send nobody will dispatch any more, and that was not accepted.
Over(s) == req[s][1] \in {"none", "gone"} /\ receipt[s] # "ok"

\* While the client repeats nothing and no connection was lost under a living
\* host.
Orderly == Copies = 1 /\ drops = 0

Drafts(o) == Orderly => \A s \in Send : o[s] \in {"missing", "err"} => Over(s)

\* A round of queries: what it asks is still open, what it found still stands.
Asked(a, u, o) ==
  /\ a \in [Send -> Seen \union {"no", "todo", "failed"}]
  /\ \A s \in Send :
       /\ a[s] # "no" => u[s] = "unresolved"
       /\ a[s] \in {"todo", "pending"} => o[s] \in {"none", "pending"}
       /\ a[s] = "ok" => receipt[s] = "ok"
       /\ Orderly /\ a[s] \in {"missing", "err"} => Over(s)

\* What the receipts say of a call that was not made, and of one that was made
\* once and has returned.
Untouched ==
  \A s \in Send : rpc[s] = "idle" =>
    receipt[s] = "absent" /\ ran[s] = 0 /\ \A k \in Copy : req[s][k] = "none"

Once ==
  Copies = 1 => \A s \in Send :
    /\ req[s][1] \in {"none", "wire", "arrived"} => receipt[s] = "absent"
    /\ req[s][1] = "err" => receipt[s] # "ok"
    /\ drops = 0 /\ rpc[s] \notin {"idle", "waiting"} =>
         /\ req[s][1] \in {"none", "gone"}
         /\ rpc[s] \in {"err", "safe"} => receipt[s] # "ok"

CInv ==
  /\ IInv /\ Untouched /\ Once
  /\ Screen(ui, outcome, fence) /\ Drafts(outcome) /\ Asked(asked, ui, outcome)
  /\ available \in BOOLEAN
  /\ UploadNotStranded

\* What a step of the transport leaves to the screen: calls stay made, accepted
\* messages stay accepted, and a send that is over stays over.
Still ==
  /\ drops' = 0 => drops = 0
  /\ \A s \in Send :
       /\ rpc'[s] = "idle" <=> rpc[s] = "idle"
       /\ rpc[s] \in Returned => rpc'[s] = rpc[s]
       /\ receipt[s] = "ok" => receipt'[s] = "ok"
       /\ Copies = 1 /\ Over(s) => Over(s)'

\* The client's steps, with its one request answered or dead when it returns.
LEMMA ClientKeeps ==
  ASSUME IInv, Untouched, Once, NEW s \in Send, Client(s)
  PROVE  Untouched' /\ Once' /\ Still
<1>0. 1 \in Copy
  BY SendAssumption DEF Copy
<1> USE DEF IInv, TypeOK, Untouched, Once, Still, Over, Answer, Result, Returned
<1>1. CASE Deliver(s)
  BY <1>0, <1>1 DEF Deliver, Rows
<1>2. CASE Recover(s)
  BY <1>0, <1>2 DEF Recover
<1>3. CASE GiveUp(s)
  BY <1>0, <1>3 DEF GiveUp
<1> QED
  BY <1>1, <1>2, <1>3 DEF Client

\* The host's steps: a message that was accepted was claimed.
LEMMA CallKeeps ==
  ASSUME IInv, Untouched, Once, NEW s \in Send, NEW k \in Copy,
         Call(s, k) \/ Repeat(s, k) \/ Lose(s, k)
  PROVE  Untouched' /\ Once' /\ Still
<1>0. 1 \in Copy /\ (Copies = 1 => k = 1)
  BY SendAssumption DEF Copy
<1> USE DEF IInv, TypeOK, Untouched, Once, Still, Over, Answer, Result, Returned
<1>1. CASE Arrive(s, k)
  BY <1>0, <1>1 DEF Arrive
<1>2. CASE Refuse(s, k)
  BY <1>0, <1>2 DEF Refuse
<1>3. CASE Reserve(s, k)
  BY <1>0, <1>3 DEF Reserve
<1>4. CASE Dispatch(s, k)
  BY <1>0, <1>4 DEF Dispatch
<1>5. CASE Finish(s, k)
  BY <1>0, <1>5 DEF Finish, Outcome
<1>6. CASE FinishFails(s, k)
  BY <1>0, <1>6 DEF FinishFails
<1>7. CASE Repeat(s, k)
  BY <1>0, <1>7 DEF Repeat
<1>8. CASE Lose(s, k)
  BY <1>0, <1>8 DEF Lose
<1> QED
  BY <1>1, <1>2, <1>3, <1>4, <1>5, <1>6, <1>7, <1>8 DEF Call

\* Lost connections, crashes and restarts.
LEMMA FaultKeeps ==
  ASSUME IInv, Untouched, Once, Drop \/ Reconnect \/ Crash \/ Restart
  PROVE  Untouched' /\ Once' /\ Still
<1>0. 1 \in Copy
  BY SendAssumption DEF Copy
<1> USE DEF IInv, TypeOK, Untouched, Once, Still, Over
<1>1. CASE Drop
  BY <1>0, <1>1 DEF Drop, Orphaned, Returned, Answer, Result
<1>2. CASE Reconnect
  BY <1>0, <1>2 DEF Reconnect
<1>3. CASE Crash
  BY <1>0, <1>3 DEF Crash, Orphaned, Returned, Answer, Result
<1>4. CASE Restart
  BY <1>0, <1>4 DEF Restart
<1> QED
  BY <1>1, <1>2, <1>3, <1>4

\* A step of the transport keeps what the screen relies on.
LEMMA TransportKeeps ==
  ASSUME IInv, Untouched, Once, Transport
  PROVE  IInv' /\ Untouched' /\ Once' /\ Still
<1>1. IInv'
  BY NextIInv DEF Next
<1> QED
  BY <1>1, ClientKeeps, CallKeeps, FaultKeeps DEF Transport

\* A first submission: nothing but its own call and request moves.
LEMMA SubmitKeeps ==
  ASSUME IInv, Untouched, Once, NEW p \in Send, Submit(p)
  PROVE  /\ IInv' /\ Untouched' /\ Once'
         /\ UNCHANGED <<receipt, ran, drops>>
         /\ \A s \in Send \ {p} : rpc'[s] = rpc[s] /\ (Over(s) => Over(s)')
<1>0. 1 \in Copy
  BY SendAssumption DEF Copy
<1>1. IInv'
  BY ClientIInv
<1>2. \A s \in Send \ {p} : rpc'[s] = rpc[s] /\ req'[s] = req[s]
  BY DEF Submit, IInv, TypeOK
<1>3. UNCHANGED <<receipt, ran, drops>> /\ rpc'[p] # "idle"
  BY DEF Submit, IInv, TypeOK
<1>4. Untouched'
  BY <1>2, <1>3 DEF Untouched
<1>5. Once'
  <2>1. receipt[p] = "absent" /\ req[p][1] = "none"
    BY <1>0 DEF Submit, Untouched
  <2>2. linked => rpc'[p] = "waiting"
    BY DEF Submit, IInv, TypeOK
  <2>3. ~linked => req'[p][1] = "none"
    BY <2>1 DEF Submit, IInv, TypeOK
  <2> QED
    BY <1>2, <1>3, <2>1, <2>2, <2>3 DEF Once
<1> QED
  BY <1>1, <1>2, <1>3, <1>4, <1>5 DEF Over

-----------------------------------------------------------------------------
\* What dispatch_prepared_uploads may do.
LEMMA SettleCases ==
  ASSUME NEW u, NEW o, NEW f, NEW b, Settle(u, o, f, b)
  PROVE  \/ /\ ui' = u /\ outcome' = o /\ fence' = f /\ UNCHANGED sendVars
            /\ \A p \in Send : u[p] = "prepared" => ~b \/ Blocked(u, o)
         \/ \E p \in Send : \E place \in {"restored", "unresolved"} :
              /\ u[p] = "prepared" /\ f[p] = "cancelled"
              /\ ui' = [u EXCEPT ![p] = place] /\ outcome' = [o EXCEPT ![p] = "err"]
              /\ fence' = f /\ UNCHANGED sendVars
         \/ \E p \in Send :
              /\ u[p] = "prepared" /\ f[p] # "cancelled" /\ ~Blocked(u, o)
              /\ ui' = [u EXCEPT ![p] = "admitting"] /\ outcome' = o
              /\ fence' = [f EXCEPT ![p] = "handed"] /\ Submit(p)
<1> DEFINE ready == {p \in Send :
                  /\ u[p] = "prepared"
                  /\ f[p] = "cancelled" \/ (b /\ ~Blocked(u, o))}
<1>1. CASE /\ ready = {}
           /\ ui' = u /\ outcome' = o /\ fence' = f
           /\ UNCHANGED sendVars
  BY <1>1
<1>2. ASSUME NEW p \in ready, f[p] = "cancelled", fence' = f, UNCHANGED sendVars,
             \E x \in Failed(p, u, o, "err") : ui' = x.u /\ outcome' = x.o
      PROVE  \E place \in {"restored", "unresolved"} :
               ui' = [u EXCEPT ![p] = place] /\ outcome' = [o EXCEPT ![p] = "err"]
  <2>1. PICK x \in Failed(p, u, o, "err") : ui' = x.u /\ outcome' = x.o
    BY <1>2
  <2>2. PICK place \in {"restored", "unresolved"} :
           x = [u |-> [u EXCEPT ![p] = place], o |-> [o EXCEPT ![p] = "err"]]
    BY <2>1 DEF Failed
  <2>3. x.u = [u EXCEPT ![p] = place] /\ x.o = [o EXCEPT ![p] = "err"]
    BY <2>2
  <2> QED
    BY <2>1, <2>3
<1>3. ASSUME NEW p \in ready, f[p] # "cancelled" PROVE u[p] = "prepared" /\ ~Blocked(u, o)
  BY <1>3
<1> QED
  BY <1>1, <1>2, <1>3 DEF Settle

\* It keeps what the handler left true, and strands no upload.
LEMMA SettleKeeps ==
  ASSUME IInv, Untouched, Once,
         NEW u, NEW o, NEW f, NEW b, NEW a,
         Screen(u, o, f), Drafts(o), Asked(a, u, o),
         Settle(u, o, f, b), asked' = a, available' = b, b \in BOOLEAN
  PROVE  CInv'
<1> USE DEF Screen, Types, Drafts, Asked, Early, Orderly, Seen
<1>1. CASE /\ ui' = u /\ outcome' = o /\ fence' = f /\ UNCHANGED sendVars
           /\ \A p \in Send : u[p] = "prepared" => ~b \/ Blocked(u, o)
  <2>1. IInv' /\ Untouched' /\ Once'
    BY <1>1 DEF sendVars, IInv, TypeOK, DeadIsQuiet, Claims, Rows, Untouched, Once
  <2>2. Screen(ui, outcome, fence)'
    BY <1>1 DEF sendVars, Alone, InFlight, OneUpload
  <2>3. Drafts(outcome)' /\ Asked(asked, ui, outcome)'
    BY <1>1 DEF sendVars, Over
  <2>4. UploadNotStranded'
    BY <1>1 DEF UploadNotStranded, Blocked, Awaiting
  <2> QED  BY <2>1, <2>2, <2>3, <2>4 DEF CInv
<1>2. ASSUME NEW p \in Send, NEW place \in {"restored", "unresolved"},
             u[p] = "prepared", f[p] = "cancelled",
             ui' = [u EXCEPT ![p] = place], outcome' = [o EXCEPT ![p] = "err"],
             fence' = f, UNCHANGED sendVars
      PROVE  CInv'
  <2>0. rpc[p] = "idle" /\ o[p] = "none" /\ a[p] = "no" /\ 1 \in Copy
    BY <1>2, SendAssumption DEF Copy
  <2>1. IInv' /\ Untouched' /\ Once'
    BY <1>2 DEF sendVars, IInv, TypeOK, DeadIsQuiet, Claims, Rows, Untouched, Once
  <2>2. Screen(ui, outcome, fence)'
    BY <1>2, <2>0 DEF sendVars, Alone, InFlight, OneUpload
  <2>3. Over(p)
    BY <2>0 DEF Untouched, Over
  <2>4. Drafts(outcome)' /\ Asked(asked, ui, outcome)'
    BY <1>2, <2>0, <2>3 DEF sendVars, Over
  <2>5. UploadNotStranded'
    BY <1>2 DEF UploadNotStranded, OneUpload
  <2> QED  BY <2>1, <2>2, <2>4, <2>5 DEF CInv
<1>3. ASSUME NEW p \in Send, u[p] = "prepared", f[p] # "cancelled", ~Blocked(u, o),
             ui' = [u EXCEPT ![p] = "admitting"], outcome' = o,
             fence' = [f EXCEPT ![p] = "handed"], Submit(p)
      PROVE  CInv'
  <2>0. o[p] = "none" /\ a[p] = "no"
    BY <1>3
  <2>1. /\ IInv' /\ Untouched' /\ Once'
        /\ UNCHANGED <<receipt, ran, drops>>
        /\ \A s \in Send \ {p} : rpc'[s] = rpc[s] /\ (Over(s) => Over(s)')
    BY <1>3, SubmitKeeps
  <2>2. Screen(ui, outcome, fence)'
    <3>1. \A s \in Send : ~InFlight(s, u, o)
      BY <1>3 DEF Blocked, Awaiting, InFlight
    <3>2. Alone(ui, outcome)'
      BY <1>3, <3>1 DEF Alone, InFlight
    <3> QED
      BY <1>3, <2>1, <3>2 DEF OneUpload
  <2>3. Drafts(outcome)' /\ Asked(asked, ui, outcome)'
    BY <1>3, <2>0, <2>1
  <2>4. UploadNotStranded'
    BY <1>3 DEF UploadNotStranded, OneUpload
  <2> QED  BY <2>1, <2>2, <2>3, <2>4 DEF CInv
<1> QED
  BY <1>1, <1>2, <1>3, SettleCases
-----------------------------------------------------------------------------
(* One lemma per handler. *)

\* send_to_session: blocked while another send is in flight.
LEMMA SendKeeps ==
  ASSUME CInv, NEW s \in Send, SendText(s) \/ SendFiles(s)
  PROVE  CInv'
<1> USE DEF CInv, Screen, Types, Drafts, Asked, Early, Orderly
<1>0. \A t \in Send : ~InFlight(t, ui, outcome)
  BY DEF SendText, SendFiles, Blocked, Awaiting, InFlight
<1>1. CASE SendText(s)
  <2>1. /\ IInv' /\ Untouched' /\ Once'
        /\ UNCHANGED <<receipt, ran, drops>>
        /\ \A t \in Send \ {s} : rpc'[t] = rpc[t] /\ (Over(t) => Over(t)')
    BY <1>1, SubmitKeeps DEF SendText
  <2>2. /\ ui' = [ui EXCEPT ![s] = "admitting"] /\ fence' = [fence EXCEPT ![s] = "handed"]
        /\ ui[s] = "new" /\ UNCHANGED <<outcome, asked, available>>
    BY <1>1 DEF SendText
  <2>3. Alone(ui, outcome)' /\ OneUpload(ui)'
    BY <1>0, <2>2 DEF Alone, InFlight, OneUpload
  <2>4. Screen(ui, outcome, fence)'
    BY <2>1, <2>2, <2>3
  <2>5. Drafts(outcome)' /\ Asked(asked, ui, outcome)'
    BY <2>1, <2>2
  <2>6. UploadNotStranded'
    BY <2>2 DEF UploadNotStranded, Blocked
  <2> QED  BY <2>1, <2>2, <2>4, <2>5, <2>6
<1>2. CASE SendFiles(s)
  <2>1. /\ ui' = [ui EXCEPT ![s] = "uploading"] /\ ui[s] = "new"
        /\ \A t \in Send : ui[t] \notin {"uploading", "prepared"}
        /\ UNCHANGED <<up, linked, receipt, req, ran, rpc, crashes, drops,
                       outcome, fence, asked, available>>
    BY <1>2 DEF SendFiles, sendVars
  <2>2. IInv' /\ Untouched' /\ Once'
    BY <2>1 DEF IInv, TypeOK, DeadIsQuiet, Claims, Rows, Untouched, Once
  <2>3. Alone(ui, outcome)' /\ OneUpload(ui)'
    BY <1>0, <2>1 DEF Alone, InFlight, OneUpload
  <2>4. Screen(ui, outcome, fence)'
    BY <2>1, <2>3
  <2>5. Drafts(outcome)' /\ Asked(asked, ui, outcome)'
    BY <2>1 DEF Over
  <2>6. UploadNotStranded'
    BY <2>1 DEF UploadNotStranded
  <2> QED  BY <2>1, <2>2, <2>4, <2>5, <2>6
<1> QED
  BY <1>1, <1>2

\* A finished, failed or cancelled upload.
LEMMA UploadKeeps ==
  ASSUME CInv, NEW s \in Send, UploadDone(s) \/ UploadFails(s) \/ CancelUpload(s)
  PROVE  CInv'
<1>0. IInv /\ Untouched /\ Once /\ available \in BOOLEAN
      /\ Screen(ui, outcome, fence) /\ Drafts(outcome) /\ Asked(asked, ui, outcome)
      /\ asked' = asked /\ available' = available
  BY DEF CInv, UploadDone, UploadFails, CancelUpload, Screen, Types, Drafts, Asked, Early, Orderly, Seen
<1>1. CASE UploadDone(s)
  <2> DEFINE u == [ui EXCEPT ![s] = "prepared"]
  <2>1. ui[s] = "uploading" /\ Settle(u, outcome, fence, available)
    BY <1>1 DEF UploadDone, Screen, Types, Drafts, Asked, Early, Orderly, Seen
  <2>2. Alone(u, outcome) /\ OneUpload(u)
    BY <1>0, <2>1 DEF Alone, InFlight, OneUpload, Screen, Types, Drafts, Asked, Early, Orderly, Seen
  <2>3. Screen(u, outcome, fence) /\ Asked(asked, u, outcome)
    BY <1>0, <2>1, <2>2 DEF Screen, Types, Drafts, Asked, Early, Orderly, Seen
  <2> QED
    BY <1>0, <2>1, <2>3, SettleKeeps
<1>2. CASE UploadFails(s)
  <2>1. PICK x \in Failed(s, ui, outcome, "err") : Settle(x.u, x.o, fence, available)
    BY <1>2 DEF UploadFails
  <2>2. PICK place \in {"restored", "unresolved"} :
           x.u = [ui EXCEPT ![s] = place] /\ x.o = [outcome EXCEPT ![s] = "err"]
    <3>1. PICK place \in {"restored", "unresolved"} :
             x = [u |-> [ui EXCEPT ![s] = place], o |-> [outcome EXCEPT ![s] = "err"]]
      BY DEF Failed
    <3>2. x.u = [ui EXCEPT ![s] = place] /\ x.o = [outcome EXCEPT ![s] = "err"]
      BY <3>1
    <3> QED  BY <3>2
  <2>3. ui[s] = "uploading" /\ 1 \in Copy
    BY <1>2, SendAssumption DEF UploadFails, Copy, Screen, Types, Drafts, Asked, Early, Orderly, Seen
  <2> DEFINE u == x.u
             o == x.o
  <2>4. Alone(u, o) /\ OneUpload(u)
    BY <1>0, <2>2, <2>3 DEF Alone, InFlight, OneUpload, Screen, Types, Drafts, Asked, Early, Orderly, Seen
  <2>5. Over(s) /\ asked[s] = "no"
    BY <1>0, <2>3 DEF Over, Untouched, Screen, Types, Drafts, Asked, Early, Orderly, Seen
  <2>6. Screen(u, o, fence)
    BY <1>0, <2>2, <2>3, <2>4 DEF Screen, Types, Drafts, Asked, Early, Orderly, Seen
  <2>7. Drafts(o) /\ Asked(asked, u, o)
    BY <1>0, <2>2, <2>3, <2>5 DEF Screen, Types, Drafts, Asked, Early, Orderly, Seen
  <2> QED
    BY <1>0, <2>1, <2>6, <2>7, SettleKeeps
<1>3. CASE CancelUpload(s)
  <2> DEFINE f == [fence EXCEPT ![s] = "cancelled"]
  <2>1. ui[s] \in {"uploading", "prepared"} /\ Settle(ui, outcome, f, available)
    BY <1>3 DEF CancelUpload, Screen, Types, Drafts, Asked, Early, Orderly, Seen
  <2>2. Screen(ui, outcome, f)
    BY <1>0, <2>1 DEF Screen, Types, Drafts, Asked, Early, Orderly, Seen
  <2> QED
    BY <1>0, <2>1, <2>2, SettleKeeps
<1> QED
  BY <1>1, <1>2, <1>3 DEF Screen, Types, Drafts, Asked, Early, Orderly, Seen

\* A round asks about sends whose receipts are open, once at a time.
LEMMA RoundKeeps ==
  ASSUME NEW u, NEW o, NEW b, Asked(asked, u, o), Drafts(o),
         Types(u, o, fence), \A s \in Send : o[s] = "ok" => receipt[s] = "ok"
  PROVE  Asked(Round(u, o, b), u, o)
<1>1. CASE Round(u, o, b) = asked
  BY <1>1
<1>2. CASE Round(u, o, b) = [s \in Send |->
          IF u[s] # "unresolved" THEN "no"
          ELSE IF s \in Awaiting(u, o) THEN "todo" ELSE o[s]]
  BY <1>2 DEF Asked, Awaiting, Drafts, Types, Seen
<1> QED
  BY <1>1, <1>2 DEF Round

\* finish_send.
LEMMA FinishKeeps ==
  ASSUME CInv, NEW s \in Send, FinishSend(s)
  PROVE  CInv'
<1>0. /\ IInv /\ Untouched /\ Once /\ available \in BOOLEAN
      /\ Screen(ui, outcome, fence) /\ Drafts(outcome) /\ Asked(asked, ui, outcome)
      /\ ui[s] = "admitting" /\ rpc[s] \in Returned /\ available' = available
  BY DEF CInv, FinishSend, Screen, Types, Drafts, Asked, Early, Orderly, Seen
<1>00. rpc[s] # "idle" /\ asked[s] = "no"
  BY <1>0 DEF Returned, Answer, Result, Screen, Types, Drafts, Asked, Early, Orderly, Seen
<1>1. CASE rpc[s] = "ok"
  <2> DEFINE u == [ui EXCEPT ![s] = "sent"]
  <2>1. Settle(u, outcome, fence, available) /\ asked' = asked
    BY <1>1 DEF FinishSend, Screen, Types, Drafts, Asked, Early, Orderly, Seen
  <2>2. receipt[s] = "ok"
    BY <1>0, <1>1 DEF IInv, Rows, Screen, Types, Drafts, Asked, Early, Orderly, Seen
  <2>3. Alone(u, outcome) /\ OneUpload(u)
    BY <1>0 DEF Alone, InFlight, OneUpload, Screen, Types, Drafts, Asked, Early, Orderly, Seen
  <2>4. Screen(u, outcome, fence) /\ Asked(asked, u, outcome)
    BY <1>0, <1>00, <2>2, <2>3 DEF Screen, Types, Drafts, Asked, Early, Orderly, Seen
  <2> QED
    BY <1>0, <2>1, <2>4, SettleKeeps
<1>2. CASE rpc[s] = "unknown"
  <2> DEFINE u == [ui EXCEPT ![s] = "unresolved"]
  <2>1. Settle(u, outcome, fence, available) /\ asked' = Round(u, outcome, available)
    BY <1>2 DEF FinishSend, Screen, Types, Drafts, Asked, Early, Orderly, Seen
  <2>2. Alone(u, outcome) /\ OneUpload(u)
    BY <1>0 DEF Alone, InFlight, OneUpload, Screen, Types, Drafts, Asked, Early, Orderly, Seen
  <2>3. Screen(u, outcome, fence) /\ Asked(asked, u, outcome)
    BY <1>0, <1>00, <2>2 DEF Screen, Types, Drafts, Asked, Early, Orderly, Seen
  <2>4. Asked(Round(u, outcome, available), u, outcome)
    <3>1. Types(u, outcome, fence) /\ \A t \in Send : outcome[t] = "ok" => receipt[t] = "ok"
      BY <2>3 DEF Screen
    <3> HIDE DEF u
    <3> QED
      BY <1>0, <2>3, <3>1, RoundKeeps
  <2> QED
    BY <1>0, <2>1, <2>3, <2>4, SettleKeeps
<1>3. CASE rpc[s] \in {"err", "safe"}
  <2>1. asked' = asked /\ \E x \in Failed(s, ui, outcome, "err") :
           Settle(x.u, x.o, fence, available)
    BY <1>3 DEF FinishSend, Screen, Types, Drafts, Asked, Early, Orderly, Seen
  <2>2. PICK x \in Failed(s, ui, outcome, "err") : Settle(x.u, x.o, fence, available)
    BY <2>1
  <2>3. PICK place \in {"restored", "unresolved"} :
           x.u = [ui EXCEPT ![s] = place] /\ x.o = [outcome EXCEPT ![s] = "err"]
    <3>1. PICK place \in {"restored", "unresolved"} :
             x = [u |-> [ui EXCEPT ![s] = place], o |-> [outcome EXCEPT ![s] = "err"]]
      BY DEF Failed
    <3>2. x.u = [ui EXCEPT ![s] = place] /\ x.o = [outcome EXCEPT ![s] = "err"]
      BY <3>1
    <3> QED  BY <3>2
  <2> DEFINE u == x.u
             o == x.o
  <2>4. Alone(u, o) /\ OneUpload(u)
    BY <1>0, <2>3 DEF Alone, InFlight, OneUpload, Screen, Types, Drafts, Asked, Early, Orderly, Seen
  <2>5. Screen(u, o, fence)
    BY <1>0, <1>00, <2>3, <2>4 DEF Screen, Types, Drafts, Asked, Early, Orderly, Seen
  <2>6. Orderly => Over(s)
    BY <1>0, <1>3 DEF Once, Over, Screen, Types, Drafts, Asked, Early, Orderly, Seen
  <2>7. Drafts(o) /\ Asked(asked, u, o)
    BY <1>0, <1>00, <2>3, <2>6 DEF Screen, Types, Drafts, Asked, Early, Orderly, Seen
  <2> QED
    BY <1>0, <2>1, <2>2, <2>5, <2>7, SettleKeeps
<1> QED
  BY <1>1, <1>2, <1>3 DEF FinishSend, Screen, Types, Drafts, Asked, Early, Orderly, Seen

\* The queries of a round; a reply is what the receipt says at that moment.
LEMMA AskKeeps ==
  ASSUME CInv, Check \/ \E s \in Send : Ask(s)
  PROVE  CInv'
<1>0. UNCHANGED <<up, linked, receipt, req, ran, rpc, crashes, drops,
                  ui, outcome, fence, available>>
  BY DEF Check, Ask, sendVars
<1>1. /\ IInv' /\ Untouched' /\ Once' /\ Screen(ui, outcome, fence)' /\ Drafts(outcome)'
      /\ UploadNotStranded' /\ available' \in BOOLEAN
  BY <1>0 DEF CInv, IInv, TypeOK, DeadIsQuiet, Claims, Rows, Untouched, Once, Screen, Types,
     Alone, InFlight, OneUpload, Drafts, Orderly, Over, UploadNotStranded, Blocked, Awaiting
<1>2. Asked(asked', ui, outcome)
  <2>1. CASE Check
    BY <2>1, RoundKeeps DEF Check, CInv, Screen
  <2>2. ASSUME NEW s \in Send, Ask(s) PROVE Asked(asked', ui, outcome)
    <3> USE DEF CInv, Asked
    <3>1. CASE asked' = [asked EXCEPT ![s] = "failed"]
      BY <2>2, <3>1 DEF Ask
    <3>2. CASE asked' = [asked EXCEPT ![s] = Lookup(s)]
      <4>1. ui[s] = "unresolved" /\ outcome[s] \in {"none", "pending"}
        BY <2>2 DEF Ask
      <4>2. receipt[s] \in Receipt
        BY DEF IInv, TypeOK
      <4>3. Lookup(s) \in Seen /\ (Lookup(s) = "ok" => receipt[s] = "ok")
        BY <4>2 DEF Lookup, Receipt, Result, Seen
      <4>4. Orderly /\ Lookup(s) \in {"missing", "err"} => Over(s)
        <5>1. Lookup(s) \in {"missing", "err"} => receipt[s] # "ok"
          BY DEF Lookup
        <5>2. CASE rpc[s] = "idle"
          BY <5>1, <5>2, SendAssumption DEF Untouched, Over, Copy
        <5>3. CASE rpc[s] # "idle"
          BY <4>1, <5>1, <5>3 DEF Screen, Returned, Answer, Result, Once, Over, Orderly
        <5> QED  BY <5>2, <5>3
      <4> QED
        BY <3>2, <4>1, <4>3, <4>4
    <3> QED  BY <2>2, <3>1, <3>2 DEF Ask
  <2> QED  BY <2>1, <2>2
<1>3. Asked(asked, ui, outcome)'
  BY <1>0, <1>2 DEF Asked, Orderly, Over
<1> QED
  BY <1>1, <1>3 DEF CInv

\* apply_send_receipt: a round closes sends, it opens none.
LEMMA ApplyKeeps ==
  ASSUME CInv, ApplyRound
  PROVE  CInv'
<1> DEFINE live == {s \in Send : ui[s] = "unresolved" /\ asked[s] \notin {"no", "failed"}}
           over == {s \in live : asked[s] \in {"missing", "interrupted", "err"}}
           o == [s \in Send |-> IF s \in live THEN asked[s] ELSE outcome[s]]
           u(back) == [s \in Send |-> IF s \in back THEN "restored"
                                 ELSE IF s \in live /\ asked[s] = "ok" THEN "sent"
                                 ELSE ui[s]]
<1>0. /\ IInv /\ Untouched /\ Once /\ available \in BOOLEAN
      /\ Screen(ui, outcome, fence) /\ Drafts(outcome) /\ Asked(asked, ui, outcome)
  BY DEF CInv
<1>1. /\ asked' = [s \in Send |-> "no"] /\ available' = available
      /\ \A s \in Send : asked[s] # "todo"
  BY DEF ApplyRound
<1>2. PICK back \in {{}} \union {{s} : s \in over} : Settle(u(back), o, fence, available)
  BY DEF ApplyRound
<1>3. back \subseteq over
  BY <1>2
<1>4. \A s \in Send : InFlight(s, u(back), o) => InFlight(s, ui, outcome)
  BY <1>0, <1>1, <1>3 DEF InFlight, Asked, Seen
<1>5. Alone(u(back), o)
  BY <1>0, <1>4 DEF Alone, Screen
<1>6. OneUpload(u(back))
  BY <1>0, <1>3 DEF OneUpload, Screen
<1>7. Types(u(back), o, fence)
  BY <1>0, <1>1, <1>3 DEF Types, Screen, Asked, Seen, Early
<1>8. Screen(u(back), o, fence)
  BY <1>0, <1>3, <1>5, <1>6, <1>7 DEF Screen, Asked, Early
<1>9. Drafts(o)
  BY <1>0 DEF Drafts, Asked
<1>10. Asked(asked', u(back), o)
  BY <1>1 DEF Asked
<1> HIDE DEF u, o
<1> QED
  BY <1>0, <1>1, <1>2, <1>8, <1>9, <1>10, SettleKeeps

\* The snapshot after a reconnect.
LEMMA RecoveredKeeps ==
  ASSUME CInv, HostRecovered
  PROVE  CInv'
<1>1. /\ Asked(Round(ui, outcome, TRUE), ui, outcome)
      /\ Screen(ui, outcome, fence) /\ Drafts(outcome)
  BY RoundKeeps DEF CInv, Screen
<1> QED
  BY <1>1, SettleKeeps DEF CInv, HostRecovered

\* A step of the host or of the connection.
LEMMA BackgroundKeeps ==
  ASSUME CInv, Background
  PROVE  CInv'
<1>1. IInv' /\ Untouched' /\ Once' /\ Still
  BY TransportKeeps DEF CInv, Background
<1>2. UNCHANGED <<ui, outcome, fence, asked>> /\ available' \in BOOLEAN
      /\ (available' => available)
  BY DEF Background, CInv
<1>3. Screen(ui, outcome, fence)'
  BY <1>1, <1>2 DEF CInv, Screen, Types, Alone, InFlight, OneUpload, Still
<1>4. Drafts(outcome)' /\ Asked(asked, ui, outcome)'
  BY <1>1, <1>2 DEF CInv, Drafts, Asked, Orderly, Still
<1>5. UploadNotStranded'
  BY <1>2 DEF CInv, UploadNotStranded, Blocked, Awaiting
<1> QED
  BY <1>1, <1>2, <1>3, <1>4, <1>5 DEF CInv

\* Every step of the screen and of what is behind it keeps the invariant.
LEMMA NextCInv == CInv /\ [ChatNext]_allVars => CInv'
<1> SUFFICES ASSUME CInv, [ChatNext]_allVars PROVE CInv'
  OBVIOUS
<1>1. CASE UNCHANGED allVars
  <2>1. UNCHANGED <<up, linked, receipt, req, ran, rpc, crashes, drops,
                    ui, outcome, fence, asked, available>>
    BY <1>1 DEF allVars, sendVars, chatVars
  <2> QED
    BY <2>1 DEF CInv, IInv, TypeOK, DeadIsQuiet, Claims, Rows, Untouched, Once, Screen, Types,
       Alone, InFlight, OneUpload, Drafts, Asked, Orderly, Over, UploadNotStranded, Blocked,
       Awaiting
<1>2. CASE ChatNext
  BY <1>2, SendKeeps, UploadKeeps, FinishKeeps, AskKeeps, ApplyKeeps, RecoveredKeeps,
     BackgroundKeeps DEF ChatNext
<1> QED
  BY <1>1, <1>2

\* A new conversation satisfies it.
LEMMA InitCInv == ChatInit => CInv
<1> SUFFICES ASSUME ChatInit PROVE CInv
  OBVIOUS
<1>1. IInv /\ Untouched /\ Once
  BY InitIInv, SendAssumption DEF ChatInit, Init, Untouched, Once, Copy
<1>2. Screen(ui, outcome, fence)
  BY DEF ChatInit, Init, Screen, Types, Alone, InFlight, OneUpload, Early
<1>3. Drafts(outcome) /\ Asked(asked, ui, outcome) /\ UploadNotStranded /\ available \in BOOLEAN
  BY DEF ChatInit, Drafts, Asked, UploadNotStranded
<1> QED
  BY <1>1, <1>2, <1>3 DEF CInv

\* It holds throughout.
LEMMA ChatInductive == ChatSpec => []CInv
  BY InitCInv, NextCInv, PTL DEF ChatSpec

-----------------------------------------------------------------------------
\* "One admission at a time": of any number of sends of a conversation, at most
\* one is being admitted or waits for its receipt (send_to_session,
\* dispatch_prepared_uploads).
THEOREM AdmissionsAreSingle == ChatSpec => []OneAtATime
<1>1. CInv => OneAtATime
  <2> SUFFICES ASSUME CInv PROVE OneAtATime
    OBVIOUS
  <2> DEFINE S == {s \in Send : ui[s] = "admitting"} \union Awaiting(ui, outcome)
  <2>1. \A s, t \in S : s = t
    BY DEF CInv, Screen, Alone, InFlight, Awaiting
  <2>2. CASE S = {}
    BY <2>2, FS_EmptySet DEF OneAtATime
  <2>3. ASSUME NEW s \in S PROVE Cardinality(S) <= 1
    <3>1. S = {s}
      BY <2>1, <2>3
    <3>2. Cardinality({s}) = 1
      BY FS_Singleton
    <3> HIDE DEF S
    <3> QED  BY <3>1, <3>2
  <2> QED  BY <2>2, <2>3 DEF OneAtATime
<1> QED  BY <1>1, ChatInductive, PTL

\* A cancelled upload never sends, however late the cancellation comes
\* (UploadFence).
THEOREM CancellationWins == ChatSpec => []CancelledNeverSends
<1>1. CInv => CancelledNeverSends
  BY SendAssumption DEF CInv, Screen, Untouched, CancelledNeverSends, Copy
<1> QED  BY <1>1, ChatInductive, PTL

\* A finished upload waits only for what is still open
\* (dispatch_prepared_uploads).
THEOREM UploadsMoveOn == ChatSpec => []UploadNotStranded
<1>1. CInv => UploadNotStranded
  BY DEF CInv
<1> QED  BY <1>1, ChatInductive, PTL

\* A message shown as received ran exactly once, whichever of its reply and its
\* receipt said so.
THEOREM ShownIsReal == ChatSpec => []ShownSentRan
<1>1. CInv => ShownSentRan
  BY DEF CInv, Screen, IInv, Rows, ShownSentRan
<1> QED  BY <1>1, ChatInductive, PTL

\* A client that repeats nothing hands back as failed only drafts that were not
\* accepted and will not be, as long as no connection was lost under a living
\* host.
THEOREM DraftsAreUnsent ==
  ASSUME Copies = 1
  PROVE  ChatSpec => []ReturnedDraftUnsent
<1>1. CInv => ReturnedDraftUnsent
  BY DEF CInv, Screen, Drafts, Orderly, Over, ReturnedDraftUnsent
<1> QED  BY <1>1, ChatInductive, PTL

\* The composition is an implementation of SendReceipts: the screen submits each
\* send as a client of the host does, so all that is proved of receipts holds.
THEOREM ChatImplementsReceipts == ChatSpec => Spec
<1>1. ChatInit => Init
  BY DEF ChatInit
<1>2. ASSUME NEW u, NEW o, NEW f, NEW b, Settle(u, o, f, b) PROVE [Next]_vars
  BY <1>2, SettleCases DEF Next, vars, sendVars
<1>3. [ChatNext]_allVars => [Next]_vars
  <2> SUFFICES ASSUME [ChatNext]_allVars PROVE [Next]_vars
    OBVIOUS
  <2>1. CASE UNCHANGED allVars
    BY <2>1 DEF allVars, sendVars, vars
  <2>2. ASSUME NEW s \in Send, SendText(s) PROVE [Next]_vars
    BY <2>2 DEF SendText, Next
  <2>3. ASSUME NEW s \in Send, SendFiles(s) \/ Ask(s) PROVE [Next]_vars
    BY <2>3 DEF SendFiles, Ask, sendVars, vars
  <2>4. ASSUME NEW s \in Send, UploadDone(s) \/ UploadFails(s) \/ CancelUpload(s)
        PROVE  [Next]_vars
    BY <1>2, <2>4 DEF UploadDone, UploadFails, CancelUpload
  <2>5. ASSUME NEW s \in Send, FinishSend(s) PROVE [Next]_vars
    BY <1>2, <2>5 DEF FinishSend
  <2>6. CASE Check
    BY <2>6 DEF Check, sendVars, vars
  <2>7. CASE ApplyRound
    BY <1>2, <2>7 DEF ApplyRound
  <2>8. CASE HostRecovered
    BY <1>2, <2>8 DEF HostRecovered
  <2>9. CASE Background
    BY <2>9 DEF Background, Next
  <2> QED
    BY <2>1, <2>2, <2>3, <2>4, <2>5, <2>6, <2>7, <2>8, <2>9 DEF ChatNext
<1> QED
  BY <1>1, <1>3, PTL DEF ChatSpec, Spec

=============================================================================
