----------------------------- MODULE Attachments -----------------------------
(* The attachments of one task: a metadata row in SQLite, a private         *)
(* directory on disk, and between them no common transaction.               *)
(* store/attachments.rs, attachment_cleanup.rs, gc.rs.                      *)
(*                                                                          *)
(* An operation is the client's name for one upload. Requests of clients    *)
(* and the maintenance worker run concurrently; a step is one transaction,  *)
(* one look at the lease table, or one file-system effect. Every upload has *)
(* one byte. A directory is what is in it; synced is what a power failure   *)
(* cannot take away.                                                        *)
EXTENDS Naturals, FiniteSets

CONSTANTS
    Op,         \* operations of clients
    Client,     \* requests being served at the same time
    Worker,     \* the maintenance worker
    None,       \* no row, no holder
    Ttl,        \* STAGING_TTL_MS
    MaxBytes,   \* MAX_PENDING_BYTES
    MaxFiles,   \* MAX_PENDING_FILES
    MaxTombs,   \* MAX_CANCELLATION_TOMBSTONES
    MaxRows,    \* bound: rows ever inserted
    MaxCalls,   \* bound: requests clients make
    MaxFaults,  \* bound: crashes and failed file-system steps
    MaxTime     \* bound: the clock

VARIABLES
    task,       \* "active", "deleted" (deleted_ms set) or "gone"
    rows,       \* file_attachments, by operation
    born,       \* public ids drawn so far
    disk,       \* the directory of a public id
    synced,     \* what of it is durable
    held,       \* AttachmentLocks::held
    th,         \* what each request and the worker are doing
    now, calls, faults

vars == <<task, rows, born, disk, synced, held, th, now, calls, faults>>

Thread == Client \cup {Worker}
Id == 1..MaxRows
Row == [id : Id, state : {"uploading", "ready", "cancelled"}, bound : BOOLEAN,
        size : {0, 1}, stamp : 0..MaxTime]

ASSUME AttachmentsAssumption ==
    /\ Worker \notin Client /\ None \notin Op \cup Client \cup {Worker} /\ None \notin Row
    /\ {Ttl, MaxBytes, MaxFiles, MaxTombs, MaxRows, MaxCalls, MaxFaults, MaxTime} \subseteq Nat

Idle == [at |-> "idle"]
Running == [at : {"begin", "open", "write", "publish", "sync", "finish",
                  "collect", "clean", "unlinked", "drop", "bind"},
            op : Op, id : 0..MaxRows, deleting : BOOLEAN]

Init ==
    /\ task = "active" /\ rows = [o \in Op |-> None] /\ born = 0
    /\ disk = [i \in Id |-> {}] /\ synced = [i \in Id |-> {}]
    /\ held = [o \in Op |-> None]
    /\ th = [t \in Thread |-> Idle]
    /\ now = 0 /\ calls = 0 /\ faults = 0

------------------------------------------------------------------------------
Exists(o) == rows[o] # None
Expired(o) == rows[o].stamp + Ttl < now
(* The bytes of all staged rows, those cancelled and not yet reclaimed too. *)
Charged == Cardinality({o \in Op : Exists(o) /\ ~rows[o].bound /\ rows[o].size = 1})
Pending == {o \in Op : Exists(o) /\ ~rows[o].bound /\ rows[o].state # "cancelled"}
Tombs == {o \in Op : Exists(o) /\ rows[o].state = "cancelled"}
\* Mutant: an upload is admitted when the bytes before it fit.
FitsLate ==
    /\ Cardinality(Pending) < MaxFiles /\ Charged <= MaxBytes
    /\ Cardinality(Tombs) < MaxTombs /\ born < MaxRows
Fits ==
    /\ Cardinality(Pending) < MaxFiles /\ Charged + 1 <= MaxBytes
    /\ Cardinality(Tombs) < MaxTombs /\ born < MaxRows

Collectable(o) ==
    Exists(o) /\ ~rows[o].bound /\ (Expired(o) \/ (rows[o].state = "cancelled" /\ rows[o].size > 0))

(* verify_upload_row in a transaction that also requires the active task.   *)
\* Mutant: the row has to be there, in whatever state.
VerifiedLoosely(o, i) == task = "active" /\ Exists(o) /\ rows[o].id = i
Verified(o, i) == task = "active" /\ Exists(o) /\ rows[o].id = i /\ rows[o].state = "uploading"

(* Returning from a call: the lease, when this thread has it, is dropped.   *)
Leave(t) ==
    /\ th' = [th EXCEPT ![t] = Idle]
    /\ held' = [o \in Op |-> IF held[o] = t THEN None ELSE held[o]]
Goto(t, at) == th' = [th EXCEPT ![t].at = at] /\ UNCHANGED held
Enter(t, at, o, i, d) == th' = [th EXCEPT ![t] = [at |-> at, op |-> o, id |-> i, deleting |-> d]]
Acquire(t, o) == held[o] = None /\ held' = [held EXCEPT ![o] = t]
At(t, at) == th[t].at = at
Disk == <<disk, synced>>
Data == <<task, rows, born>>
Bounds == <<now, calls, faults>>
Fault == faults < MaxFaults /\ faults' = faults + 1 /\ UNCHANGED <<now, calls>>

(* A request arrives at a free server.                                      *)
Called(t) ==
    /\ t \in Client /\ At(t, "idle") /\ calls < MaxCalls
    /\ calls' = calls + 1 /\ UNCHANGED <<now, faults>>

------------------------------------------------------------------------------
(* begin_attachment_upload: the lease first, then one durable transaction,  *)
(* then the file system.                                                    *)
Begin(t, o) ==
    /\ Called(t) /\ Acquire(t, o)
    /\ Enter(t, "begin", o, 0, FALSE)
    /\ UNCHANGED <<Data, Disk>>

NewRow(state, size) ==
    [id |-> born + 1, state |-> state, bound |-> FALSE, size |-> size, stamp |-> now]

BeginRow(t) ==
    LET o == th[t].op IN
    /\ At(t, "begin")
    /\ \/ /\ \/ task # "active"
             \/ ~Exists(o) /\ ~Fits
             \/ Exists(o) /\ rows[o].state \in {"cancelled", "ready"}
          /\ Leave(t) /\ UNCHANGED <<rows, born>>
       \/ /\ task = "active" /\ Exists(o) /\ rows[o].state = "uploading"
          /\ th' = [th EXCEPT ![t].at = "open", ![t].id = rows[o].id]
          /\ UNCHANGED <<rows, born, held>>
       \/ /\ task = "active" /\ ~Exists(o) /\ Fits
          /\ rows' = [rows EXCEPT ![o] = NewRow("uploading", 1)] /\ born' = born + 1
          /\ th' = [th EXCEPT ![t].at = "open", ![t].id = born + 1]
          /\ UNCHANGED held
    /\ UNCHANGED <<task, Disk, Bounds>>

(* A published file of an earlier attempt is verified and synchronized; a   *)
(* partial one is thrown away.                                              *)
OpenFile(t) ==
    LET i == th[t].id IN
    /\ At(t, "open")
    /\ \/ /\ "file" \in disk[i]
          /\ synced' = [synced EXCEPT ![i] = disk[i]]
          /\ Goto(t, "finish") /\ UNCHANGED disk
       \/ /\ "file" \notin disk[i]
          /\ disk' = [disk EXCEPT ![i] = {"part"}]
          /\ Goto(t, "write") /\ UNCHANGED synced
    /\ UNCHANGED <<Data, Bounds>>

(* The last byte arrived: prepare and publish check the row one after the   *)
(* other, and have no effect before the second check.                       *)
Prepare(t) ==
    /\ At(t, "write")
    /\ IF Verified(th[t].op, th[t].id) THEN Goto(t, "publish") ELSE Leave(t)
    /\ UNCHANGED <<Data, Disk, Bounds>>

(* The sender stalls, disconnects or loses its authority, or the flag of    *)
(* its lease is seen: a cancellation or cancel_attachment_writers set it.   *)
\* Mutant: a lease stays behind when an upload is abandoned.
UploadEndsHolding(t) ==
    /\ At(t, "write")
    /\ th' = [th EXCEPT ![t] = Idle]
    /\ UNCHANGED <<Data, Disk, held, Bounds>>
UploadEnds(t) ==
    /\ At(t, "write")
    /\ Leave(t)
    /\ UNCHANGED <<Data, Disk, Bounds>>

PublishFile(t) ==
    LET i == th[t].id IN
    /\ At(t, "publish")
    /\ IF "file" \in disk[i] THEN Leave(t) /\ UNCHANGED disk
       ELSE disk' = [disk EXCEPT ![i] = {"file"}] /\ Goto(t, "sync")
    /\ UNCHANGED <<Data, synced, Bounds>>

SyncFile(t) ==
    LET i == th[t].id IN
    /\ At(t, "sync")
    /\ synced' = [synced EXCEPT ![i] = disk[i]]
    /\ Goto(t, "finish")
    /\ UNCHANGED <<Data, disk, Bounds>>

FinishMetadata(t) ==
    LET o == th[t].op IN
    /\ At(t, "finish")
    /\ rows' = IF Verified(o, th[t].id)
               THEN [rows EXCEPT ![o].state = "ready", ![o].stamp = now] ELSE rows
    /\ Leave(t)
    /\ UNCHANGED <<task, born, Disk, Bounds>>

------------------------------------------------------------------------------
(* cancel_attachment_upload: durable first, without the lease, then one try *)
(* at reclaiming the bytes.                                                 *)
Cancel(t, o) ==
    /\ Called(t) /\ task = "active"
    /\ \/ /\ Exists(o) /\ ~rows[o].bound
          /\ rows' = [rows EXCEPT ![o].state = "cancelled", ![o].stamp = now]
          /\ Enter(t, "collect", o, rows[o].id, FALSE)
          /\ UNCHANGED born
       \/ /\ ~Exists(o) /\ Cardinality(Tombs) < MaxTombs /\ born < MaxRows
          /\ rows' = [rows EXCEPT ![o] = NewRow("cancelled", 0)] /\ born' = born + 1
          /\ UNCHANGED th
    /\ UNCHANGED <<task, Disk, held>>

------------------------------------------------------------------------------
(* collect_unbound_attachments_step and collect_task_attachments_step       *)
(* choose a row; its cursor only decides whose turn it is.                  *)
Sweep(o) ==
    /\ At(Worker, "idle")
    /\ \/ task = "active" /\ Collectable(o) /\ Enter(Worker, "collect", o, rows[o].id, FALSE)
       \/ task = "deleted" /\ Exists(o) /\ Enter(Worker, "collect", o, rows[o].id, TRUE)
    /\ UNCHANGED <<Data, Disk, held, Bounds>>

(* collect_attachment_file: with the lease, the row is looked at again.     *)
\* Mutant: the candidate is not looked at again under the lease.
StillBlind(t) == Exists(th[t].op) /\ rows[th[t].op].id = th[t].id
StillCollectable(t) ==
    LET o == th[t].op IN
    /\ Exists(o) /\ rows[o].id = th[t].id
    /\ IF th[t].deleting THEN task = "deleted" ELSE task = "active" /\ Collectable(o)

Collect(t) ==
    LET o == th[t].op IN
    /\ At(t, "collect")
    /\ \/ /\ held[o] = None /\ StillCollectable(t)
          /\ Acquire(t, o) /\ th' = [th EXCEPT ![t].at = "clean"]
       \/ /\ held[o] # None \/ ~StillCollectable(t)
          /\ th' = [th EXCEPT ![t] = Idle] /\ UNCHANGED held
    /\ UNCHANGED <<Data, Disk, Bounds>>

(* collect_owned_attachment_tree_step unlinks, then synchronizes.           *)
Clean(t) ==
    /\ At(t, "clean")
    /\ disk' = [disk EXCEPT ![th[t].id] = {}]
    /\ Goto(t, "unlinked")
    /\ UNCHANGED <<Data, synced, Bounds>>

\* Mutant: the directory is not synchronized before its row goes.
CleanUnsynced(t) ==
    /\ At(t, "unlinked") /\ Goto(t, "drop")
    /\ UNCHANGED <<Data, Disk, Bounds>>
CleanSync(t) ==
    LET i == th[t].id IN
    /\ At(t, "unlinked")
    /\ synced' = [synced EXCEPT ![i] = disk[i]]
    /\ Goto(t, "drop")
    /\ UNCHANGED <<Data, disk, Bounds>>

(* The bytes are gone: a recent cancellation keeps its name, without bytes. *)
DropRow(t) ==
    LET o == th[t].op IN
    /\ At(t, "drop")
    /\ rows' = IF task # (IF th[t].deleting THEN "deleted" ELSE "active") THEN rows
               ELSE IF ~th[t].deleting /\ rows[o].state = "cancelled" /\ ~Expired(o)
               THEN [rows EXCEPT ![o].size = 0]
               ELSE [rows EXCEPT ![o] = None]
    /\ Leave(t)
    /\ UNCHANGED <<task, born, Disk, Bounds>>

(* collect_task_step: the task goes when it owns nothing any more.          *)
FinishTask ==
    /\ task = "deleted" /\ At(Worker, "idle") /\ \A o \in Op : ~Exists(o)
    /\ task' = "gone"
    /\ UNCHANGED <<rows, born, Disk, held, th, Bounds>>

------------------------------------------------------------------------------
(* pin_attachments: an attachment a message refers to is kept. The row is   *)
(* ready, its lease is free, its file is there; all that is read again is   *)
(* the row.                                                                 *)
Pin(t, o) ==
    /\ Called(t) /\ task = "active" /\ Exists(o) /\ rows[o].state = "ready"
    /\ Acquire(t, o) /\ "file" \in disk[rows[o].id]
    /\ Enter(t, "bind", o, rows[o].id, FALSE)
    /\ UNCHANGED <<Data, Disk>>

PinRow(t) ==
    LET o == th[t].op IN
    /\ At(t, "bind")
    /\ rows' = IF task = "active" /\ Exists(o) /\ rows[o].id = th[t].id /\ rows[o].state = "ready"
               THEN [rows EXCEPT ![o].bound = TRUE] ELSE rows
    /\ Leave(t)
    /\ UNCHANGED <<task, born, Disk, Bounds>>

(* mark_task_deleted.                                                       *)
DeleteTask ==
    /\ task = "active" /\ task' = "deleted"
    /\ UNCHANGED <<rows, born, Disk, held, th, Bounds>>

------------------------------------------------------------------------------
(* A file-system step reports an error; what it did may or may not show.    *)
FileFault(t) ==
    /\ th[t].at \in {"open", "publish", "sync", "clean", "unlinked"} /\ Fault
    /\ Leave(t)
    /\ UNCHANGED <<Data, Disk>>

Stopped == th' = [t \in Thread |-> Idle] /\ held' = [o \in Op |-> None]

(* The host dies. With the power, unsynchronized names come out either way. *)
Crash == Fault /\ Stopped /\ UNCHANGED <<Data, Disk>>

PowerFailure ==
    /\ Fault /\ Stopped
    /\ \E lost \in SUBSET {i \in Id : disk[i] # synced[i]} :
          disk' = [i \in Id |-> IF i \in lost THEN synced[i] ELSE disk[i]]
    /\ synced' = disk'
    /\ UNCHANGED Data

Tick == now < MaxTime /\ now' = now + 1 /\ UNCHANGED <<Data, Disk, held, th, calls, faults>>

Step(t) ==
    \/ BeginRow(t) \/ OpenFile(t) \/ Prepare(t) \/ UploadEnds(t)
    \/ PublishFile(t) \/ SyncFile(t) \/ FinishMetadata(t)
    \/ Collect(t) \/ Clean(t) \/ CleanSync(t) \/ DropRow(t) \/ PinRow(t)

Next ==
    \/ \E t \in Thread : Step(t) \/ FileFault(t)
    \/ \E t \in Client, o \in Op : Begin(t, o) \/ Cancel(t, o) \/ Pin(t, o)
    \/ \E o \in Op : Sweep(o)
    \/ FinishTask \/ DeleteTask \/ Crash \/ PowerFailure \/ Tick

Spec == Init /\ [][Next]_vars

(* Requests that are served end, the clock runs, and the worker's cursor    *)
(* comes round to every row. Nobody has to call, and a task need not be     *)
(* deleted.                                                                 *)
Fairness ==
    /\ \A t \in Thread : WF_vars(Step(t))
    /\ \A o \in Op : SF_vars(Sweep(o))
    /\ WF_vars(FinishTask) /\ WF_vars(Tick)
FairSpec == Spec /\ Fairness

------------------------------------------------------------------------------
(* Types; and staged uploads, cancelled ones included, never exceed the     *)
(* account's limit of bytes (begin_attachment_upload_inner).                *)
TypeOK ==
    /\ task \in {"active", "deleted", "gone"}
    /\ rows \in [Op -> Row \cup {None}] /\ born \in 0..MaxRows
    /\ disk \in [Id -> SUBSET {"part", "file"}] /\ synced \in [Id -> SUBSET {"part", "file"}]
    /\ held \in [Op -> Thread \cup {None}]
    /\ th \in [Thread -> Running \cup {Idle}]
    /\ now \in 0..MaxTime /\ calls \in 0..MaxCalls /\ faults \in 0..MaxFaults
    /\ Charged <= MaxBytes

(* An attachment a message refers to is complete, also after a power        *)
(* failure, as long as its task is not deleted: no crash, retry, expiry or  *)
(* cancellation on the way takes its file (pin_attachments,                 *)
(* collect_attachment_file).                                                *)
BoundHasFile ==
    task = "active" => \A o \in Op : Exists(o) /\ rows[o].bound =>
        rows[o].state = "ready" /\ "file" \in disk[rows[o].id] /\ "file" \in synced[rows[o].id]

(* No file without a row that will have it collected, and none whose bytes  *)
(* are not counted against the account any more ("with their reserved       *)
(* bytes still charged"), not even one that a power failure brings back.    *)
FilesAreCharged ==
    \A i \in Id : disk[i] \cup synced[i] # {} =>
        \E o \in Op : Exists(o) /\ rows[o].id = i /\ rows[o].size = 1

(* "A delayed sender cannot resurrect the cancelled operation": its row     *)
(* stays cancelled until it has expired or the task goes.                   *)
CancelStands ==
    [][\A o \in Op : Exists(o) /\ rows[o].state = "cancelled" =>
          \/ rows'[o] # None /\ rows'[o].state = "cancelled"
          \/ rows'[o] = None /\ (Expired(o) \/ task = "deleted")]_vars

(* A deleted task is collected to the end, whatever uploads were running,   *)
(* and a cancelled upload gives its bytes back.                             *)
Collected ==
    /\ task = "deleted" ~> task = "gone"
    /\ \A o \in Op : (Exists(o) /\ rows[o].state = "cancelled") ~> (~Exists(o) \/ rows[o].size = 0)
=============================================================================
