---------------------------- MODULE SendReceipts ----------------------------
(***************************************************************************)
(* Sending a message to a host that may die, over a connection that may    *)
(* drop.  A send carries an identity.  The host commits a reservation of    *)
(* that identity to its store before it dispatches the message to the agent *)
(* runtime, and commits the result after (app/src/host.rs dispatch_receipt, *)
(* app/src/host/receipts.rs, store/records.rs).  A client that loses its    *)
(* connection never repeats the request: it asks for the receipt            *)
(* (host.rs recover_send).                                                  *)
(*                                                                         *)
(* A request that was written before a connection died may still be read    *)
(* by the host, and a call the host has started finishes although nobody    *)
(* waits for it (host.rs serve_client_inner, remote/control.rs serve).      *)
(* Every request may reach the host Copies times: nothing in the wire       *)
(* protocol forbids a client to repeat an identity, and the store is        *)
(* written for it.                                                          *)
(***************************************************************************)
EXTENDS Naturals

CONSTANTS
  Send,         \* send identities, each used by one client for one message
  Copies,       \* how many requests may carry the same identity
  MaxCrashes,   \* bound on host crashes
  MaxDrops      \* bound on connections lost while the host lives

ASSUME SendAssumption ==
  /\ Copies \in Nat \ {0}
  /\ MaxCrashes \in Nat
  /\ MaxDrops \in Nat

VARIABLES
  up,        \* the host process is running with its store open
  linked,    \* the client's own connection to the host is up
  receipt,   \* durable: the send_receipts row of each identity
  req,       \* how far each copy of each request has come
  ran,       \* history: how often an identity was dispatched to the runtime
  rpc,       \* the client's call for each send: call_value and recover_send
  crashes, drops

hostVars == <<receipt, req, ran>>
vars == <<up, linked, receipt, req, ran, rpc, crashes, drops>>

Copy == 1 .. Copies

\* The row of an identity: none, reserved, reserved by a host that has since
\* ended, or finished with the dispatch's result.
Result == {"ok", "err"}
Receipt == {"absent", "pending", "interrupted"} \union Result

\* A request: not sent, in a socket, read by the host, admitted by a new
\* reservation, dispatched, answered, or over.
Answer == Result \union {"unknown"}
Phase == {"none", "wire", "arrived", "reserved", "ranok", "ranerr", "gone"}
           \union Answer

\* The client's call: not made, waiting for the reply, querying the receipt,
\* or returned. "safe" is the host's promise that it did not admit the message.
Returned == Answer \union {"safe"}
Rpc == {"idle", "waiting", "recovering"} \union Returned

TypeOK ==
  /\ up \in BOOLEAN /\ linked \in BOOLEAN
  /\ receipt \in [Send -> Receipt]
  /\ req \in [Send -> [Copy -> Phase]]
  /\ ran \in [Send -> Nat]
  /\ rpc \in [Send -> Rpc]
  /\ crashes \in 0 .. MaxCrashes /\ drops \in 0 .. MaxDrops

Init ==
  /\ up = TRUE /\ linked = TRUE
  /\ receipt = [s \in Send |-> "absent"]
  /\ req = [s \in Send |-> [k \in Copy |-> "none"]]
  /\ ran = [s \in Send |-> 0]
  /\ rpc = [s \in Send |-> "idle"]
  /\ crashes = 0 /\ drops = 0

-----------------------------------------------------------------------------
(* The client. *)

\* call_value: register the pending call and write the request. A call made
\* while the connection is down fails before anything is sent.
Submit(s) ==
  /\ rpc[s] = "idle"
  /\ IF linked
     THEN /\ rpc' = [rpc EXCEPT ![s] = "waiting"]
          /\ req' = [req EXCEPT ![s][1] = "wire"]
     ELSE /\ rpc' = [rpc EXCEPT ![s] = "err"]
          /\ UNCHANGED req
  /\ UNCHANGED <<up, linked, receipt, ran, crashes, drops>>

\* Another request with an identity that was already used.
Repeat(s, k) ==
  /\ rpc[s] # "idle" /\ k # 1 /\ up
  /\ req[s][k] = "none"
  /\ req' = [req EXCEPT ![s][k] = "wire"]
  /\ UNCHANGED <<up, linked, receipt, ran, rpc, crashes, drops>>

\* The reply arrives. "Send outcome unknown" is not an answer: the client
\* turns to the receipt.
Deliver(s) ==
  /\ rpc[s] = "waiting" /\ req[s][1] \in Answer
  /\ rpc' = [rpc EXCEPT ![s] =
               IF req[s][1] = "unknown" THEN "recovering" ELSE req[s][1]]
  /\ req' = [req EXCEPT ![s][1] = "gone"]
  /\ UNCHANGED <<up, linked, receipt, ran, crashes, drops>>

\* Mutant: a reservation counts as acceptance.
RecoverTrusts(s) ==
  /\ rpc[s] = "recovering" /\ up
  /\ rpc' = [rpc EXCEPT ![s] =
               CASE receipt[s] = "absent" -> "safe"
                 [] receipt[s] \in Result -> receipt[s]
                 [] OTHER -> "ok"]
  /\ UNCHANGED <<up, linked, receipt, req, ran, crashes, drops>>

\* recover_send: one query on a connection of its own. A pending or an
\* interrupted receipt is polled again.
Recover(s) ==
  /\ rpc[s] = "recovering" /\ up
  /\ receipt[s] \in Result \union {"absent"}
  /\ rpc' = [rpc EXCEPT ![s] =
               IF receipt[s] = "absent" THEN "safe" ELSE receipt[s]]
  /\ UNCHANGED <<up, linked, receipt, req, ran, crashes, drops>>

\* recover_send: no host, twenty polls or the time budget used up.
GiveUp(s) ==
  /\ rpc[s] = "recovering"
  /\ rpc' = [rpc EXCEPT ![s] = "unknown"]
  /\ UNCHANGED <<up, linked, receipt, req, ran, crashes, drops>>

\* Mutant: calls pending on a dead connection are left waiting.
OrphanedKept == rpc

\* ClientState::disconnect: every pending call loses its reply.
Orphaned == [s \in Send |-> IF rpc[s] = "waiting" THEN "recovering" ELSE rpc[s]]

\* The connection ends and the host does not. What was written stays readable.
Drop ==
  /\ linked /\ drops < MaxDrops
  /\ linked' = FALSE /\ drops' = drops + 1
  /\ rpc' = Orphaned
  /\ UNCHANGED <<up, receipt, req, ran, crashes>>

\* maintain_connection: reconnect, replaying nothing.
Reconnect ==
  /\ up /\ ~linked
  /\ linked' = TRUE
  /\ UNCHANGED <<up, receipt, req, ran, rpc, crashes, drops>>

\* An unread request dies with the connection it was written to.
Lose(s, k) ==
  /\ req[s][k] = "wire" /\ (k = 1 => rpc[s] # "waiting")
  /\ req' = [req EXCEPT ![s][k] = "gone"]
  /\ UNCHANGED <<up, linked, receipt, ran, rpc, crashes, drops>>

-----------------------------------------------------------------------------
(* The host. *)

\* serve_client_inner and serve_request: read the request, start its call.
Arrive(s, k) ==
  /\ up /\ req[s][k] = "wire"
  /\ req' = [req EXCEPT ![s][k] = "arrived"]
  /\ UNCHANGED <<up, linked, receipt, ran, rpc, crashes, drops>>

\* The gate, the account check or the reservation's transaction fails. When a
\* commit fails its row may or may not survive; no error authorizes dispatch.
Refuse(s, k) ==
  /\ req[s][k] = "arrived"
  /\ req' = [req EXCEPT ![s][k] = "err"]
  /\ \/ UNCHANGED receipt
     \/ /\ receipt[s] = "absent"
        /\ receipt' = [receipt EXCEPT ![s] = "pending"]
  /\ UNCHANGED <<up, linked, ran, rpc, crashes, drops>>

\* Mutant: an interrupted reservation is taken over by a new request.
ReserveReplays(s, k) ==
  /\ req[s][k] = "arrived"
  /\ LET free == receipt[s] \in {"absent", "interrupted"} IN
     /\ receipt' = IF free THEN [receipt EXCEPT ![s] = "pending"] ELSE receipt
     /\ req' = [req EXCEPT ![s][k] =
                  IF free THEN "reserved"
                  ELSE IF receipt[s] \in Result THEN receipt[s] ELSE "unknown"]
  /\ UNCHANGED <<up, linked, ran, rpc, crashes, drops>>

\* reserve_send: a new row admits this request; a finished one answers it; any
\* other leaves its outcome unknown.
Reserve(s, k) ==
  /\ req[s][k] = "arrived"
  /\ receipt' = IF receipt[s] = "absent"
                THEN [receipt EXCEPT ![s] = "pending"] ELSE receipt
  /\ req' = [req EXCEPT ![s][k] =
               IF receipt[s] = "absent" THEN "reserved"
               ELSE IF receipt[s] \in Result THEN receipt[s] ELSE "unknown"]
  /\ UNCHANGED <<up, linked, ran, rpc, crashes, drops>>

\* The admitted message goes to the agent runtime, which accepts or fails it.
Dispatch(s, k) ==
  /\ req[s][k] = "reserved"
  /\ ran' = [ran EXCEPT ![s] = @ + 1]
  /\ \E r \in {"ranok", "ranerr"} : req' = [req EXCEPT ![s][k] = r]
  /\ UNCHANGED <<up, linked, receipt, rpc, crashes, drops>>

Outcome(s, k) == IF req[s][k] = "ranok" THEN "ok" ELSE "err"

\* finish_send: a pending row takes the result, an equal result is accepted
\* again, anything else is a conflict and the client hears "unknown".
Finish(s, k) ==
  /\ req[s][k] \in {"ranok", "ranerr"}
  /\ LET r == Outcome(s, k) IN
     /\ receipt' = IF receipt[s] = "pending"
                   THEN [receipt EXCEPT ![s] = r] ELSE receipt
     /\ req' = [req EXCEPT ![s][k] =
                  IF receipt[s] \in {"pending", r} THEN r ELSE "unknown"]
  /\ UNCHANGED <<up, linked, ran, rpc, crashes, drops>>

\* finish_admitted_send: the completion cannot be saved.
FinishFails(s, k) ==
  /\ req[s][k] \in {"ranok", "ranerr"}
  /\ req' = [req EXCEPT ![s][k] = "unknown"]
  /\ UNCHANGED <<up, linked, receipt, ran, rpc, crashes, drops>>

\* The host ends: calls, connections and unread requests with it.
Crash ==
  /\ up /\ crashes < MaxCrashes
  /\ up' = FALSE /\ linked' = FALSE /\ crashes' = crashes + 1
  /\ req' = [s \in Send |-> [k \in Copy |->
               IF req[s][k] = "none" THEN "none" ELSE "gone"]]
  /\ rpc' = Orphaned
  /\ UNCHANGED <<receipt, ran, drops>>

\* Mutant: a restart clears the reservations that were left open.
RestartClears ==
  /\ ~up /\ up' = TRUE
  /\ receipt' = [s \in Send |->
                   IF receipt[s] = "pending" THEN "absent" ELSE receipt[s]]
  /\ UNCHANGED <<linked, req, ran, rpc, crashes, drops>>

\* install_connections runs mark_interrupted_receipts before the store opens.
Restart ==
  /\ ~up /\ up' = TRUE
  /\ receipt' = [s \in Send |->
                   IF receipt[s] = "pending" THEN "interrupted" ELSE receipt[s]]
  /\ UNCHANGED <<linked, req, ran, rpc, crashes, drops>>

-----------------------------------------------------------------------------
Call(s, k) ==
  \/ Arrive(s, k) \/ Refuse(s, k) \/ Reserve(s, k)
  \/ Dispatch(s, k) \/ Finish(s, k) \/ FinishFails(s, k)

Client(s) == Deliver(s) \/ Recover(s) \/ GiveUp(s)

\* Everything but the submission, which belongs to whoever uses the client.
Transport ==
  \/ \E s \in Send : Client(s)
  \/ \E s \in Send, k \in Copy : Call(s, k) \/ Repeat(s, k) \/ Lose(s, k)
  \/ Drop \/ Reconnect \/ Crash \/ Restart

Next == Transport \/ \E s \in Send : Submit(s)

Spec == Init /\ [][Next]_vars

\* A started call and a client's query run on tasks nothing cancels while
\* their process lives; a request that stays in a socket is read or lost.
Fairness ==
  /\ \A s \in Send, k \in Copy :
       /\ WF_vars(Arrive(s, k) \/ Lose(s, k))
       /\ WF_vars(Refuse(s, k) \/ Reserve(s, k))
       /\ WF_vars(Dispatch(s, k))
       /\ WF_vars(Finish(s, k) \/ FinishFails(s, k))
  /\ \A s \in Send : WF_vars(Deliver(s)) /\ WF_vars(Recover(s) \/ GiveUp(s))

FairSpec == Spec /\ Fairness

-----------------------------------------------------------------------------
(* What receipts are for. *)

\* "uncertain effects are never replayed" (receipts.rs:2): whatever is lost,
\* repeated or cut by a crash, an identity reaches the runtime at most once.
AtMostOnce == \A s \in Send : ran[s] <= 1

\* A client that is told its message was accepted has had it dispatched, and
\* only a finished receipt says so.
AcceptedRan == \A s \in Send : rpc[s] = "ok" => ran[s] = 1 /\ receipt[s] = "ok"

\* "never authorize replay of this send identity" (records.rs:118): from the
\* moment a receipt is interrupted or finished, its identity is not dispatched
\* again and the receipt does not change.
SettledStands ==
  [][\A s \in Send : receipt[s] \in Result \union {"interrupted"} =>
       receipt'[s] = receipt[s] /\ ran'[s] = ran[s]]_vars

\* A call of the client always returns: a reply, a receipt, or "unknown".
CallReturns == \A s \in Send : rpc[s] = "waiting" ~> rpc[s] \in Returned

\* "The host did not admit this message. It is safe to send again."
\* (host.rs:3515): a message reported so has not run and never will.
SafeToSendAgain == \A s \in Send : rpc[s] = "safe" => ran[s] = 0

=============================================================================
