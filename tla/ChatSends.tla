------------------------------ MODULE ChatSends ------------------------------
(***************************************************************************)
(* The chat screen's side of a send, composed with SendReceipts: one        *)
(* conversation whose messages may carry files.  Files are uploaded first;   *)
(* the prompt is handed off afterwards, when no other send of the            *)
(* conversation is being admitted or waiting for its receipt                 *)
(* (app/src/ui/chat/{mod,sending,uploads}.rs).                               *)
(*                                                                         *)
(* Every handler that can unblock a prepared upload ends by dispatching it    *)
(* (dispatch_prepared_uploads): that call is part of each action below.       *)
(***************************************************************************)
EXTENDS SendReceipts, FiniteSets

VARIABLES
  ui,        \* where the screen keeps each send
  outcome,   \* the receipt an unresolved send last saw
  fence,     \* UploadFence: cancelling and handing off compete for it
  asked,     \* check_unresolved_sends in progress: the answer per send
  available  \* the screen believes its host connection

chatVars == <<ui, outcome, fence, asked, available>>
sendVars == <<up, linked, receipt, req, ran, rpc, crashes, drops>>
allVars == <<sendVars, chatVars>>

Seen == {"pending", "missing", "interrupted", "ok", "err"}

ChatTypeOK ==
  /\ ui \in [Send -> {"new", "uploading", "prepared", "admitting",
                      "unresolved", "sent", "restored"}]
  /\ outcome \in [Send -> Seen \union {"none"}]
  /\ fence \in [Send -> {"uploading", "cancelled", "handed"}]
  /\ asked \in [Send -> Seen \union {"no", "todo", "failed"}]
  /\ available \in BOOLEAN

ChatInit ==
  /\ Init
  /\ ui = [s \in Send |-> "new"]
  /\ outcome = [s \in Send |-> "none"]
  /\ fence = [s \in Send |-> "uploading"]
  /\ asked = [s \in Send |-> "no"]
  /\ available = TRUE

\* UnresolvedSend::awaiting_receipt.
Awaiting(u, o) ==
  {s \in Send : u[s] = "unresolved" /\ o[s] \in {"none", "pending"}}

\* Mutant: only a send being admitted blocks the next.
BlockedByAdmission(u, o) == \E s \in Send : u[s] = "admitting"

\* One admission at a time: a send is blocked by one being admitted and by one
\* whose receipt is not known.
Blocked(u, o) ==
  \/ \E s \in Send : u[s] = "admitting"
  \/ Awaiting(u, o) # {}

\* A send known not to have been accepted: its draft goes back to an empty
\* composer of the selected task, or is retained with its outcome.
Failed(s, u, o, seen) ==
  { [u |-> [u EXCEPT ![s] = place], o |-> [o EXCEPT ![s] = seen]] :
      place \in {"restored", "unresolved"} }

\* Mutant: a prepared send is handed off without taking the fence.
SettleUnfenced(u, o, f, believed) ==
  LET ready == {p \in Send : u[p] = "prepared" /\ believed /\ ~Blocked(u, o)} IN
  \/ /\ ready = {}
     /\ ui' = u /\ outcome' = o /\ fence' = f
     /\ UNCHANGED sendVars
  \/ \E p \in ready :
       /\ ui' = [u EXCEPT ![p] = "admitting"] /\ outcome' = o
       /\ fence' = f
       /\ Submit(p)

\* dispatch_prepared_uploads at the end of a handler that left u, o and f: an
\* upload that lost its fence fails, an unblocked one is handed off.
Settle(u, o, f, believed) ==
  LET ready == {p \in Send :
                  /\ u[p] = "prepared"
                  /\ f[p] = "cancelled" \/ (believed /\ ~Blocked(u, o))} IN
  \/ /\ ready = {}
     /\ ui' = u /\ outcome' = o /\ fence' = f
     /\ UNCHANGED sendVars
  \/ \E p \in ready :
       \/ /\ f[p] = "cancelled"
          /\ \E x \in Failed(p, u, o, "err") : ui' = x.u /\ outcome' = x.o
          /\ fence' = f
          /\ UNCHANGED sendVars
       \/ /\ f[p] # "cancelled"
          /\ ui' = [u EXCEPT ![p] = "admitting"] /\ outcome' = o
          /\ fence' = [f EXCEPT ![p] = "handed"]
          /\ Submit(p)

-----------------------------------------------------------------------------
(* Sending. *)

\* send_to_session without files: handed off at once.
SendText(s) ==
  /\ ui[s] = "new" /\ ~Blocked(ui, outcome)
  /\ ui' = [ui EXCEPT ![s] = "admitting"]
  /\ fence' = [fence EXCEPT ![s] = "handed"]
  /\ Submit(s)
  /\ UNCHANGED <<outcome, asked, available>>

\* send_to_session with files: one upload of the conversation at a time.
SendFiles(s) ==
  /\ ui[s] = "new" /\ ~Blocked(ui, outcome)
  /\ \A t \in Send : ui[t] \notin {"uploading", "prepared"}
  /\ ui' = [ui EXCEPT ![s] = "uploading"]
  /\ UNCHANGED <<sendVars, outcome, fence, asked, available>>

\* commit_attachments succeeded. A cancellation it did not see is found when
\* the prepared send tries to take the fence.
UploadDone(s) ==
  /\ ui[s] = "uploading"
  /\ Settle([ui EXCEPT ![s] = "prepared"], outcome, fence, available)
  /\ UNCHANGED <<asked, available>>

\* commit_attachments failed or saw the cancellation: nothing was sent.
UploadFails(s) ==
  /\ ui[s] = "uploading"
  /\ \E x \in Failed(s, ui, outcome, "err") : Settle(x.u, x.o, fence, available)
  /\ UNCHANGED <<asked, available>>

\* cancel_attachment_send: takes the fence unless the send was handed off.
CancelUpload(s) ==
  /\ ui[s] \in {"uploading", "prepared"} /\ fence[s] = "uploading"
  /\ Settle(ui, outcome, [fence EXCEPT ![s] = "cancelled"], available)
  /\ UNCHANGED <<asked, available>>

-----------------------------------------------------------------------------
(* Results. *)

\* check_unresolved_sends: one round at a time, one query for every send whose
\* receipt is open; settled ones are applied again.
Round(u, o, believed) ==
  IF (\E s \in Send : asked[s] # "no") \/ ~believed THEN asked
  ELSE [s \in Send |->
          IF u[s] # "unresolved" THEN "no"
          ELSE IF s \in Awaiting(u, o) THEN "todo" ELSE o[s]]

\* Mutants: an uncertain send is shown as received, or as failed.
FinishSendHopeful(s) ==
  /\ ui[s] = "admitting" /\ rpc[s] \in Returned
  /\ Settle([ui EXCEPT ![s] = IF rpc[s] \in {"ok", "unknown"} THEN "sent" ELSE "restored"],
            outcome, fence, available)
  /\ UNCHANGED <<asked, available>>

FinishSendFails(s) ==
  /\ ui[s] = "admitting" /\ rpc[s] \in Returned
  /\ Settle([ui EXCEPT ![s] = IF rpc[s] = "ok" THEN "sent" ELSE "restored"],
            outcome, fence, available)
  /\ UNCHANGED <<asked, available>>

\* finish_send: the call of an admitted send returned.
FinishSend(s) ==
  /\ ui[s] = "admitting" /\ rpc[s] \in Returned
  /\ \/ /\ rpc[s] = "ok"
        /\ Settle([ui EXCEPT ![s] = "sent"], outcome, fence, available)
        /\ UNCHANGED asked
     \/ /\ rpc[s] = "unknown"
        /\ LET u == [ui EXCEPT ![s] = "unresolved"] IN
           /\ Settle(u, outcome, fence, available)
           /\ asked' = Round(u, outcome, available)
     \/ /\ rpc[s] \in {"err", "safe"}
        /\ \E x \in Failed(s, ui, outcome, "err") :
             Settle(x.u, x.o, fence, available)
        /\ UNCHANGED asked
  /\ UNCHANGED available

\* Selecting a task, or trying to send while one is unresolved, starts a round.
Check ==
  /\ \E s \in Send : ui[s] = "unresolved"
  /\ asked' = Round(ui, outcome, available)
  /\ UNCHANGED <<sendVars, ui, outcome, fence, available>>

\* send_outcome: what the host's store says of this identity now, or nothing.
Lookup(s) == IF receipt[s] = "absent" THEN "missing" ELSE receipt[s]

Ask(s) ==
  /\ asked[s] = "todo"
  /\ \/ up /\ asked' = [asked EXCEPT ![s] = Lookup(s)]
     \/ asked' = [asked EXCEPT ![s] = "failed"]
  /\ UNCHANGED <<sendVars, ui, outcome, fence, available>>

\* apply_send_receipt for the whole round. The composer takes one draft back.
ApplyRound ==
  /\ \E s \in Send : asked[s] # "no"
  /\ \A s \in Send : asked[s] # "todo"
  /\ LET live == {s \in Send : ui[s] = "unresolved"
                               /\ asked[s] \notin {"no", "failed"}}
         over == {s \in live : asked[s] \in {"missing", "interrupted", "err"}}
     IN \E back \in {{}} \union {{s} : s \in over} :
          Settle([s \in Send |-> IF s \in back THEN "restored"
                                 ELSE IF s \in live /\ asked[s] = "ok" THEN "sent"
                                 ELSE ui[s]],
                 [s \in Send |-> IF s \in live THEN asked[s] ELSE outcome[s]],
                 fence, available)
  /\ asked' = [s \in Send |-> "no"]
  /\ UNCHANGED available

\* Mutant: uploads that waited for the connection are not resumed.
HostRecoveredOnly ==
  /\ linked /\ ~available /\ available' = TRUE
  /\ asked' = Round(ui, outcome, TRUE)
  /\ UNCHANGED <<sendVars, ui, outcome, fence>>

\* The recovery snapshot after a reconnect: check receipts, resume uploads.
HostRecovered ==
  /\ linked /\ ~available /\ available' = TRUE
  /\ asked' = Round(ui, outcome, TRUE)
  /\ Settle(ui, outcome, fence, TRUE)

\* A step of the host or the transport; losing the connection is noticed.
Background ==
  /\ Transport
  /\ available' = (available /\ (linked => linked'))
  /\ UNCHANGED <<ui, outcome, fence, asked>>

ChatNext ==
  \/ \E s \in Send :
       \/ SendText(s) \/ SendFiles(s) \/ UploadDone(s) \/ UploadFails(s)
       \/ CancelUpload(s) \/ FinishSend(s) \/ Ask(s)
  \/ Check \/ ApplyRound \/ HostRecovered \/ Background

ChatSpec == ChatInit /\ [][ChatNext]_allVars

-----------------------------------------------------------------------------
\* "One admission at a time" (mod.rs:4989): a conversation never has two sends
\* being admitted or waiting for a receipt, whatever uploads finish meanwhile.
OneAtATime ==
  Cardinality({s \in Send : ui[s] = "admitting"} \union Awaiting(ui, outcome)) <= 1

\* "a cancelled upload never sends" (uploads.rs:2): its request never leaves,
\* although the cancellation may come when the bytes are already stored.
CancelledNeverSends ==
  \A s \in Send : fence[s] = "cancelled" => req[s][1] = "none" /\ ran[s] = 0

\* A finished upload is not stranded: while it waits, something it must wait
\* for is still open.
UploadNotStranded ==
  \A s \in Send : ui[s] = "prepared" => ~available \/ Blocked(ui, outcome)

\* A draft handed back as failed was not accepted and will not be: repeating it
\* sends it once. (An interrupted one is handed back with a warning instead; and
\* a connection lost while the host lives breaks this, see SafeToSendAgain.)
ReturnedDraftUnsent ==
  drops = 0 => \A s \in Send :
    ui[s] = "restored" /\ outcome[s] # "interrupted" =>
      /\ receipt[s] # "ok"
      /\ req[s][1] \notin {"wire", "arrived", "reserved", "ranok"}

\* A message shown as received ran exactly once.
ShownSentRan == \A s \in Send : ui[s] = "sent" => ran[s] = 1

=============================================================================
