------------------------------- MODULE KeySlots -------------------------------
(***************************************************************************)
(* The two copies of the password slot of an encrypted store, keys.json    *)
(* and keys.backup.json, and the operations that write them: reconciliation*)
(* at every load, unlocking, the KDF upgrade of an unlock, and changing    *)
(* the password.  A write renames a synchronized temporary file over the   *)
(* name and then synchronizes the directory; the process may die between   *)
(* the two, either may fail, and a power failure may bring back, name by   *)
(* name, any slot replaced since the last successful synchronization.      *)
(*                                                                         *)
(* Every slot wraps the same database key, so a slot is what password      *)
(* opens it.  Operations hold the lifecycle gate: one runs at a time.      *)
(***************************************************************************)
EXTENDS Naturals

CONSTANTS
    Slots,               \* wrapped keys; each creation draws a fresh one
    Passwords,
    PwOf,                \* the password that opens a slot
    NoSlot,              \* a missing or unreadable file
    MaxFaults            \* bound: crashes, power losses, I/O errors, damage

ASSUME SlotsAssumption ==
    /\ PwOf \in [Slots -> Passwords]
    /\ NoSlot \notin Slots
    /\ MaxFaults \in Nat

VARIABLES
    files,               \* what the two names hold
    stale,               \* what else a power failure may leave there
    host,                \* "down", "locked" or "open"
    op,                  \* the running operation
    pc,                  \* its next step
    at,                  \* the file being reconciled or written
    pair,                \* KeyFilePair: primary, previous
    pending,             \* reconciliation_pending, or a pending outcome
    unsynced,            \* primary_sync_pending of write_with
    used,                \* used_previous_password
    offered,             \* the password presented
    want,                \* the slot being written
    known,               \* history: the passwords the user has reason to keep
    prior,               \* history: known before the running change
    revoked,             \* history: passwords replaced without a warning
    clean,               \* history: the last reply reported nothing pending
    faults

diskVars == <<files, stale>>
jobVars  == <<op, pc, at, pair, pending, unsynced, used, offered, want>>
userVars == <<known, prior, revoked, clean>>
vars == <<files, stale, host, op, pc, at, pair, pending, unsynced, used,
          offered, want, known, prior, revoked, clean, faults>>

Files == {"primary", "backup"}

Maybe == Slots \cup {NoSlot}

Ops == {"none", "load", "unlock", "open", "raise", "change"}

PCs == {"idle", "load", "rec", "recsync", "auth", "check", "write", "writesync", "reply"}

TypeOK ==
    /\ files \in [Files -> Maybe]
    /\ stale \in [Files -> SUBSET Maybe]
    /\ host \in {"down", "locked", "open"}
    /\ op \in Ops
    /\ pc \in PCs
    /\ at \in Files
    /\ pair \in [primary : Maybe, previous : Maybe]
    /\ pending \in BOOLEAN
    /\ unsynced \in BOOLEAN
    /\ used \in BOOLEAN
    /\ offered \in Passwords
    /\ want \in Slots
    /\ known \subseteq Passwords
    /\ prior \subseteq Passwords
    /\ revoked \subseteq Passwords
    /\ clean \in BOOLEAN
    /\ faults \in Nat

(* The export swap that encrypted the store installed one slot, twice. *)
Init ==
    \E s \in Slots :
        /\ files = [f \in Files |-> s]
        /\ stale = [f \in Files |-> {}]
        /\ host = "down"
        /\ op = "none" /\ pc = "idle" /\ at = "primary"
        /\ pair = [primary |-> NoSlot, previous |-> NoSlot]
        /\ pending = FALSE /\ unsynced = FALSE /\ used = FALSE
        /\ offered = PwOf[s] /\ want = s
        /\ known = {PwOf[s]} /\ prior = {PwOf[s]} /\ revoked = {}
        /\ clean = TRUE
        /\ faults = 0

-----------------------------------------------------------------------------
OnDisk(f) == {files[f]} \cup stale[f]

(* A slot that was never written: its salt and nonce are random. *)
Fresh(s) == s # want /\ \A f \in Files : s \notin OnDisk(f)

(* replace_key_file, then sync_directory of the parent. *)
Rename(f, s) ==
    /\ files' = [files EXCEPT ![f] = s]
    /\ stale' = [stale EXCEPT ![f] = @ \cup {files[f]}]

Synchronize ==
    /\ stale' = [f \in Files |-> {}]
    /\ UNCHANGED files

Fault == faults < MaxFaults /\ faults' = faults + 1

-----------------------------------------------------------------------------
(* KeyFilePair::load.  A file that cannot be read counts as damaged.        *)

Pair(p, b) ==
    IF p # NoSlot
      THEN [primary |-> p, previous |-> IF b = p THEN NoSlot ELSE b]
      ELSE [primary |-> b, previous |-> NoSlot]

Load ==
    /\ pc = "load"
    /\ files["primary"] # NoSlot \/ files["backup"] # NoSlot
    /\ pair' = Pair(files["primary"], files["backup"])
    /\ pending' = TRUE
    /\ pc' = "rec" /\ at' = "primary"
    /\ UNCHANGED <<files, stale, host, op, unsynced, used, offered, want, known,
                   prior, revoked, clean, faults>>

(* A read error makes one good file count as damaged. *)
LoadReadFault ==
    /\ pc = "load" /\ Fault
    /\ \E f \in Files :
          /\ files[f] # NoSlot
          /\ pair' = [primary |-> files[f], previous |-> NoSlot]
    /\ pending' = TRUE
    /\ pc' = "rec" /\ at' = "primary"
    /\ UNCHANGED <<files, stale, host, op, unsynced, used, offered, want, known,
                   prior, revoked, clean>>

(* The operation returns an error; a failed change leaves the user with     *)
(* the passwords held before.                                               *)
Fail ==
    /\ pc' = "idle" /\ op' = "none"
    /\ host' = IF host = "down" THEN "locked" ELSE host
    /\ known' = IF op = "change" THEN prior ELSE known
    /\ UNCHANGED <<at, pair, pending, unsynced, used, offered, want, prior, revoked, clean>>

LoadDamaged ==
    /\ pc = "load" /\ \A f \in Files : files[f] = NoSlot
    /\ Fail /\ UNCHANGED <<files, stale, faults>>

-----------------------------------------------------------------------------
(* KeyFilePair::reconcile: first keys.json, then keys.backup.json, is made  *)
(* to hold the primary slot; the first failure leaves it pending.           *)

Reconciled ==
    pc' = CASE op = "load"   -> "idle"
            [] op = "unlock" -> "auth"
            [] op = "change" -> "check"
            [] OTHER         -> "reply"

AfterReconcile ==
    /\ Reconciled
    /\ op' = IF op = "load" THEN "none" ELSE op
    /\ host' = IF host = "down" THEN "locked" ELSE host

NextFile ==
    \/ /\ at = "primary" /\ at' = "backup"
       /\ pc' = "rec" /\ UNCHANGED <<pair, pending, op, host>>
    \/ /\ at = "backup" /\ UNCHANGED at
       /\ pair' = [pair EXCEPT !.previous = NoSlot]
       /\ pending' = FALSE
       /\ AfterReconcile

ReconcileSame ==
    /\ pc = "rec" /\ files[at] = pair.primary
    /\ NextFile
    /\ UNCHANGED <<files, stale, unsynced, used, offered, want, known, prior,
                   revoked, clean, faults>>

ReconcileWrite ==
    /\ pc = "rec" /\ files[at] # pair.primary
    /\ Rename(at, pair.primary)
    /\ pc' = "recsync"
    /\ UNCHANGED <<host, op, at, pair, pending, unsynced, used, offered, want,
                   known, prior, revoked, clean, faults>>

ReconcileSync ==
    /\ pc = "recsync"
    /\ Synchronize /\ NextFile
    /\ UNCHANGED <<unsynced, used, offered, want, known, prior, revoked, clean, faults>>

(* Mutant: the failure is swallowed. *)
ReconcileFaultSilent ==
    /\ \/ pc = "rec" /\ files[at] # pair.primary
       \/ pc = "recsync"
    /\ Fault /\ AfterReconcile
    /\ pending' = FALSE
    /\ UNCHANGED <<files, stale, at, pair, unsynced, used, offered, want,
                   known, prior, revoked, clean>>

(* The write failed before its rename, or the synchronization after it. *)
ReconcileFault ==
    /\ \/ pc = "rec" /\ files[at] # pair.primary
       \/ pc = "recsync"
    /\ Fault /\ AfterReconcile
    /\ UNCHANGED <<files, stale, at, pair, pending, unsynced, used, offered, want,
                   known, prior, revoked, clean>>

-----------------------------------------------------------------------------
(* KeyFilePair::authenticate, then a second reconciliation. *)

Opens(s, p) == s # NoSlot /\ PwOf[s] = p

Authenticate ==
    /\ pc = "auth"
    /\ \/ Opens(pair.primary, offered) /\ used' = FALSE
       \/ /\ ~Opens(pair.primary, offered)
          /\ Opens(pair.previous, offered) /\ used' = TRUE
    /\ op' = "open" /\ pc' = "rec" /\ at' = "primary" /\ pending' = TRUE
    /\ UNCHANGED <<files, stale, host, pair, unsynced, offered, want, known, prior,
                   revoked, clean, faults>>

WrongPassword ==
    /\ \/ pc = "auth" /\ ~Opens(pair.previous, offered)
       \/ pc = "check"
    /\ ~Opens(pair.primary, offered)
    /\ Fail /\ UNCHANGED <<files, stale, faults>>

(* unlock_store once the connections are open: a slot below the calibrated  *)
(* KDF cost is written anew for the same password, or the notice returns.   *)
Raise ==
    /\ pc = "reply" /\ op = "open" /\ ~used
    /\ \E s \in Slots : Fresh(s) /\ PwOf[s] = offered /\ want' = s
    /\ op' = "raise" /\ pc' = "write" /\ at' = "primary"
    /\ unsynced' = FALSE /\ clean' = FALSE
    /\ UNCHANGED <<files, stale, host, pair, pending, used, offered, known, prior,
                   revoked, faults>>

ReplyUnlock ==
    /\ pc = "reply" /\ op \in {"open", "raise"}
    /\ host' = "open" /\ op' = "none" /\ pc' = "idle"
    /\ clean' = ~pending
    /\ UNCHANGED <<files, stale, at, pair, pending, unsynced, used, offered, want,
                   known, prior, revoked, faults>>

-----------------------------------------------------------------------------
(* change_store_password_choice without re-encryption: only the primary     *)
(* slot authorizes it; write_with installs the new slot in both files.      *)

CheckCurrent ==
    /\ pc = "check" /\ Opens(pair.primary, offered)
    /\ pc' = "write" /\ at' = "primary"
    /\ pending' = FALSE /\ unsynced' = FALSE /\ clean' = FALSE
    /\ UNCHANGED <<files, stale, host, op, pair, used, offered, want, known, prior,
                   revoked, faults>>

Write ==
    /\ pc = "write"
    /\ Rename(at, want)
    /\ pc' = "writesync"
    /\ UNCHANGED <<host, op, at, pair, pending, unsynced, used, offered, want,
                   known, prior, revoked, clean, faults>>

(* The rest of write_with once a file's write has returned. *)
Written ==
    /\ at' = "backup"
    /\ pc' = IF at = "primary" THEN "write" ELSE "reply"

WriteSync ==
    /\ pc = "writesync"
    /\ Synchronize /\ Written
    /\ UNCHANGED <<host, op, pair, pending, unsynced, used, offered, want, known,
                   prior, revoked, clean, faults>>

(* SynchronizationPending: the slot is installed, perhaps not durably. *)
WriteSyncFault ==
    /\ pc = "writesync" /\ Fault /\ Written
    /\ unsynced' = (unsynced \/ at = "primary")
    /\ pending' = (pending \/ at = "backup")
    /\ UNCHANGED <<files, stale, host, op, pair, used, offered, want, known, prior,
                   revoked, clean>>

(* Mutant: a backup that could not be written is not reported. *)
WriteFaultSilent ==
    /\ pc = "write" /\ Fault
    /\ \/ /\ at = "primary" /\ op = "change" /\ Fail
       \/ /\ at = "backup" \/ op = "raise"
          /\ pc' = "reply"
          /\ UNCHANGED <<host, op, at, pair, pending, unsynced, used, offered, want, known,
                         prior, revoked, clean>>
    /\ UNCHANGED <<files, stale>>

(* An error before the rename: of the primary it fails the operation (an    *)
(* upgrade is merely pending), of the backup it is pending.                 *)
WriteFault ==
    /\ pc = "write" /\ Fault
    /\ \/ /\ at = "primary" /\ op = "change" /\ Fail
       \/ /\ at = "backup" \/ op = "raise"
          /\ pending' = TRUE /\ pc' = "reply"
          /\ UNCHANGED <<host, op, at, pair, unsynced, used, offered, want, known,
                         prior, revoked, clean>>
    /\ UNCHANGED <<files, stale>>

(* Mutant: the user is told to forget the old password in any case. *)
ReplyChangeForgets ==
    /\ pc = "reply" /\ op = "change"
    /\ op' = "none" /\ pc' = "idle"
    /\ clean' = ~pending
    /\ known' = {PwOf[want]}
    /\ UNCHANGED revoked
    /\ UNCHANGED <<files, stale, host, at, pair, pending, unsynced, used, offered,
                   want, prior, faults>>

(* PasswordChangeResult: with backup_pending (alone, or together with       *)
(* synchronization_pending) the user is told to keep both passwords.        *)
ReplyChange ==
    /\ pc = "reply" /\ op = "change"
    /\ op' = "none" /\ pc' = "idle"
    /\ clean' = ~pending
    /\ IF pending
         THEN UNCHANGED <<known, revoked>>
         ELSE /\ known' = {PwOf[want]}
              /\ revoked' = (revoked \cup known) \ {PwOf[want]}
    /\ UNCHANGED <<files, stale, host, at, pair, pending, unsynced, used, offered,
                   want, prior, faults>>

-----------------------------------------------------------------------------
(* Requests. *)

Begin(o, p) ==
    /\ pc = "idle" /\ pc' = "load" /\ op' = o /\ offered' = p
    /\ UNCHANGED <<files, stale, host, at, pair, pending, unsynced, used, clean, faults>>

(* initialize_recovered and validate_unlock_slot. *)
Reconcile ==
    /\ host \in {"down", "locked"}
    /\ Begin("load", offered)
    /\ UNCHANGED <<want, known, prior, revoked>>

Unlock(p) ==
    /\ host = "locked"
    /\ Begin("unlock", p)
    /\ UNCHANGED <<want, known, prior, revoked>>

(* The user keeps both passwords from the request to its reply. *)
Change(p, s) ==
    /\ host = "open" /\ Fresh(s)
    /\ Begin("change", p)
    /\ want' = s
    /\ prior' = known
    /\ known' = known \cup {PwOf[s]}
    /\ revoked' = revoked \ {PwOf[s]}

-----------------------------------------------------------------------------
(* The environment. *)

Down == host' = "down" /\ op' = "none" /\ pc' = "idle"

Stopped == UNCHANGED <<at, pair, pending, unsynced, used, offered, want, known, prior,
                       revoked>>

Quit ==
    /\ host # "down" /\ pc = "idle" /\ Down
    /\ Stopped /\ UNCHANGED <<files, stale, clean, faults>>

Crash ==
    /\ pc # "idle" /\ Fault /\ Down
    /\ Stopped /\ UNCHANGED <<files, stale, clean>>

PowerLoss ==
    /\ Fault /\ Down
    /\ files' \in [Files -> Maybe]
    /\ \A f \in Files : files'[f] \in OnDisk(f)
    /\ stale' = [f \in Files |-> {}]
    /\ clean' = FALSE
    /\ Stopped

(* The medium loses one of the two files. *)
Damage(f) ==
    /\ pc = "idle" /\ Fault
    /\ files' = [files EXCEPT ![f] = NoSlot]
    /\ clean' = FALSE
    /\ UNCHANGED <<stale, host, op, pc>> /\ Stopped

Next ==
    \/ Load \/ LoadReadFault \/ LoadDamaged
    \/ ReconcileSame \/ ReconcileWrite \/ ReconcileSync \/ ReconcileFault
    \/ Authenticate \/ WrongPassword \/ Raise \/ ReplyUnlock
    \/ CheckCurrent \/ Write \/ WriteSync \/ WriteSyncFault \/ WriteFault \/ ReplyChange
    \/ Reconcile
    \/ \E p \in Passwords : Unlock(p) \/ \E s \in Slots : Change(p, s)
    \/ Quit \/ Crash \/ PowerLoss \/ \E f \in Files : Damage(f)

Spec == Init /\ [][Next]_vars

-----------------------------------------------------------------------------
(* The slot the next load will take as primary: keys.json when it can be    *)
(* read, else the backup.                                                   *)
Effective(d) == IF d["primary"] # NoSlot THEN d["primary"] ELSE d["backup"]

Possible == {d \in [Files -> Maybe] : \A f \in Files : d[f] \in OnDisk(f)}

(* Whatever writes failed, and whatever a crash or a power failure leaves   *)
(* of the two files, the slot that unlocks the store is one whose password  *)
(* the user was given reason to keep.                                       *)
NeverLockedOut ==
    \A d \in Possible :
        Effective(d) # NoSlot => PwOf[Effective(d)] \in known

(* A password replaced by a change that reported nothing pending opens no   *)
(* slot that is, or after a power failure may again be, on disk: neither    *)
(* the backup nor an old in-memory pair brings it back.                     *)
RevokedNeverUnlocks ==
    \A f \in Files : \A s \in OnDisk(f) :
        s # NoSlot => PwOf[s] \notin revoked

(* A reply without a pending flag means that both files hold one slot, so   *)
(* either can be lost.                                                      *)
CleanReplyMatches ==
    clean /\ pc = "idle" =>
        files["primary"] = files["backup"] /\ files["primary"] # NoSlot

(* "Keep both passwords when directory synchronization could not confirm    *)
(* which name survives a power failure" (keys.rs 908): after a reply that   *)
(* reports nothing pending, no power failure brings another password back.  *)
CleanReplyIsDurable ==
    clean /\ pc = "idle" =>
        \A d \in Possible : PwOf[Effective(d)] = PwOf[Effective(files)]
=============================================================================
