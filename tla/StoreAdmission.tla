---------------------------- MODULE StoreAdmission ----------------------------
(***************************************************************************)
(* Who may touch the database, thread by thread: clients that read and     *)
(* write through the mutexes of the connections, the checkpoint worker,    *)
(* the integrity checker, and the lifecycle operations (export swap, reset,*)
(* salvage, shutdown) that hold the lifecycle gate and drain all the       *)
(* others before they touch files.  Damage found by any of them closes     *)
(* admission and leaves a quarantine journal, if that can be written; only *)
(* an export that finds damage in its source does neither.                 *)
(*                                                                         *)
(* StoreLifecycle models what an operation does to the disk once the store *)
(* is quiet; this module is about getting it quiet, and keeping a damaged  *)
(* generation closed.                                                      *)
(***************************************************************************)
EXTENDS Naturals

CONSTANTS
    Clients,             \* threads that call read, write and write_idle
    Nobody,              \* a free mutex
    MaxGen,              \* bound: generations
    MaxFaults            \* bound: process crashes

ASSUME AdmissionAssumption ==
    /\ Clients \cap {"op", "check", "worker"} = {}
    /\ Nobody \notin Clients \cup {"op", "check", "worker"}
    /\ MaxGen \in Nat \ {0} /\ MaxFaults \in Nat

VARIABLES
    state,               \* Store.state, or "down"
    damage,              \* Store.runtime_damage
    handles,             \* the five connections are Some
    full,                \* the writer's synchronous pragma is FULL
    spawned,             \* checkpoint_worker is Some
    stop,                \* CheckpointMessage::Stop was sent
    gate,                \* holder of Store.lifecycle
    guard,               \* holders of the connection mutexes
    pc,                  \* the next step of every thread
    kind,                \* what a client does
    job,                 \* what the lifecycle thread does
    prev,                \* previous state: close_for_shutdown, freeze
    seen,                \* the generation a thread found damaged
    held,                \* the journal a thread works with
    journal,             \* setup.json
    note,                \* history: the quarantine of known damage is "kept", has
                         \* "failed", or is "lost": failed in a process now gone
    gen,                 \* the generation installed as db/
    corrupt,             \* the medium damaged it; not known until a read fails
    told,                \* history: generations reported as damaged to a caller
    reported,            \* history: by an export, of the installed generation
    touched,             \* history: a known-damaged source was checkpointed
    faults

vars == <<state, damage, handles, full, spawned, stop, gate, guard, pc, kind, job,
          prev, seen, held, journal, note, gen, corrupt, told, reported, touched, faults>>

Procs == Clients \cup {"op", "check", "worker"}

(* One interactive reader stands for the two, and for the bulk reader. *)
Conns == {"reader", "checkpointer", "writer"}

Damaged == {"Damaged", "DamagedSync"}

States == {"down", "Maintenance", "Open"} \cup Damaged

(* A quarantine is a journal in phase BuildReplacement; with any later phase *)
(* recovery goes on to replace the generation.  The ids are drawn anew each  *)
(* time, so the thread that drew them tells two journals apart.              *)
Journals == [kind : {"none", "quarantine", "replace"}, by : Procs \cup {Nobody}]

NoJournal == [kind |-> "none", by |-> Nobody]

PCs == {"idle", "lock", "run", "freeze", "observe", "gate", "join", "journal", "write",
        "check", "joinworker", "writer", "wait", "report", "persist",
        "thaw", "take", "drain", "decide", "restore", "open", "closed", "reclose", "retire",
        "install", "stopped"}

TypeOK ==
    /\ state \in States
    /\ {damage, handles, full, spawned, stop, corrupt, reported, touched} \subseteq BOOLEAN
    /\ gate \in Procs \cup {Nobody}
    /\ guard \in [Conns -> Procs \cup {Nobody}]
    /\ pc \in [Procs -> PCs]
    /\ kind \in [Procs -> {"read", "write"}]
    /\ job \in {"none", "export", "shutdown", "reset", "salvage"}
    /\ prev \in States
    /\ seen \in [Procs -> Nat]
    /\ held \in [Procs -> Journals]
    /\ journal \in Journals
    /\ note \in {"kept", "failed", "lost"}
    /\ gen \in Nat
    /\ told \subseteq Nat
    /\ faults \in Nat

(* A plain store just opened by initialize. *)
Init ==
    /\ state = "Open"
    /\ damage = FALSE /\ handles = TRUE /\ full = TRUE
    /\ spawned = TRUE /\ stop = FALSE
    /\ gate = Nobody
    /\ guard = [c \in Conns |-> Nobody]
    /\ pc = [p \in Procs |-> IF p = "worker" THEN "wait" ELSE "idle"]
    /\ kind = [p \in Procs |-> "read"]
    /\ job = "none" /\ prev = "Maintenance"
    /\ seen = [p \in Procs |-> 0]
    /\ held = [p \in Procs |-> NoJournal]
    /\ journal = NoJournal /\ note = "kept"
    /\ gen = 1
    /\ corrupt = FALSE
    /\ told = {} /\ reported = FALSE /\ touched = FALSE
    /\ faults = 0

flags   == <<state, damage>>
locks   == <<gate, guard>>
native  == <<handles, full, spawned, stop>>
locals  == <<kind, job, prev, seen, held>>
disk    == <<journal, note, gen, corrupt>>
history == <<told, reported, touched, faults>>

Go(p, l) == pc' = [pc EXCEPT ![p] = l]

(* A call returns, and its local variables are gone. *)
Return(p) ==
    /\ Go(p, "idle")
    /\ kind' = [kind EXCEPT ![p] = "read"]
    /\ seen' = [seen EXCEPT ![p] = 0]
    /\ held' = [held EXCEPT ![p] = NoJournal]
    /\ IF p = "op" THEN job' = "none" /\ prev' = "Maintenance" ELSE UNCHANGED <<job, prev>>

(* ensure_open *)
EnsureOpen == ~damage /\ state = "Open"

(* Drop every connection guard of a thread. *)
Release(p) == guard' = [c \in Conns |-> IF guard[c] = p THEN Nobody ELSE guard[c]]

(* Mutant: a quarantine is written over any journal. *)
QuarantineOverwrites(found) == TRUE

(* quarantine_journal: an existing quarantine of the generation is kept,    *)
(* the journal of a replacement refused.                                    *)
QuarantineMissing(found) == found.kind = "none"

(* It is written, or an error is logged and forgotten.  A write_json that   *)
(* fails after its rename leaves the journal in place, as if it had         *)
(* succeeded; what a power failure makes of it is in StoreLifecycle.        *)
PersistQuarantine(found, p) ==
    IF QuarantineMissing(found)
      THEN \/ journal' = [kind |-> "quarantine", by |-> p] /\ note' = "kept"
           \/ UNCHANGED journal /\ note' = IF journal = NoJournal /\ damage' THEN "failed" ELSE note
      ELSE UNCHANGED <<journal, note>>

(* Take the worker out of checkpoint_worker and send it Stop; it is joined  *)
(* when it is idle.                                                         *)
TakeWorker == spawned' = FALSE /\ stop' = (stop \/ spawned)

(* The damage a thread found becomes known to its caller. *)
Tell(p) == told' = told \cup ({seen[p]} \ {0}) /\ UNCHANGED <<reported, touched, faults>>

-----------------------------------------------------------------------------
(* read_on, write_with_change and write_idle_with_change. *)

Conn(c) == IF kind[c] = "read" THEN "reader" ELSE "writer"

Request(c, k) ==
    /\ pc[c] = "idle" /\ EnsureOpen
    /\ kind' = [kind EXCEPT ![c] = k]
    /\ Go(c, "lock")
    /\ UNCHANGED <<flags, locks, native, job, prev, seen, held, disk, history>>

(* The second ensure_open, under the mutex. *)
Admitted == EnsureOpen /\ handles

Admit(c) ==
    /\ pc[c] = "lock" /\ guard[Conn(c)] = Nobody
    /\ Admitted
    /\ guard' = [guard EXCEPT ![Conn(c)] = c]
    /\ Go(c, "run")
    /\ UNCHANGED <<flags, gate, native, locals, disk, history>>

TurnAway(c) ==
    /\ pc[c] = "lock" /\ guard[Conn(c)] = Nobody
    /\ ~Admitted
    /\ Return(c)
    /\ UNCHANGED <<flags, locks, native, disk, history>>

(* The operation succeeds, or fails without evidence of damage. *)
Finish(c) ==
    /\ pc[c] = "run"
    /\ Release(c) /\ Return(c)
    /\ UNCHANGED <<flags, gate, native, disk, history>>

(* write_locked could not restore synchronous=FULL. *)
RestoreFails(c) ==
    /\ pc[c] = "run" /\ kind[c] = "write"
    /\ full' = FALSE
    /\ state' = "DamagedSync"
    /\ Release(c) /\ Go(c, "observe")
    /\ UNCHANGED <<damage, gate, handles, spawned, stop, locals, disk, history>>

(* SQLite reports corruption: freeze_damage sets the flag, then the state,  *)
(* before the guard is dropped.                                             *)
FindDamage(c) ==
    /\ pc[c] = "run" /\ corrupt
    /\ damage' = TRUE
    /\ seen' = [seen EXCEPT ![c] = gen]
    /\ Go(c, "freeze")
    /\ UNCHANGED <<state, locks, native, kind, job, prev, held, disk, history>>

FreezeDamage(c) ==
    /\ pc[c] = "freeze"
    /\ state' = "Damaged"
    /\ Release(c) /\ Go(c, "observe")
    /\ UNCHANGED <<damage, gate, native, locals, disk, history>>

(* observe_result: quarantine while the flag is up, then return the error.  *)
ObserveResult(c) ==
    /\ pc[c] = "observe"
    /\ IF damage THEN Go(c, "gate") /\ UNCHANGED <<locals, history>>
                 ELSE Return(c) /\ Tell(c)
    /\ UNCHANGED <<flags, locks, native, disk>>

-----------------------------------------------------------------------------
(* quarantine_generation, called by a client or by the checker. *)

EnterQuarantine(p) ==
    /\ pc[p] = "gate" /\ gate = Nobody
    /\ state \in Damaged
    /\ gate' = p
    /\ TakeWorker
    /\ Go(p, "join")
    /\ UNCHANGED <<flags, guard, handles, full, locals, disk, history>>

(* Conflict: the state is no longer Damaged.  A client returns the damage   *)
(* all the same, the checker returns the conflict.                          *)
SkipQuarantine(p) ==
    /\ pc[p] = "gate" /\ gate = Nobody
    /\ state \notin Damaged
    /\ Return(p)
    /\ IF p = "check" THEN UNCHANGED history ELSE Tell(p)
    /\ UNCHANGED <<flags, locks, native, disk>>

(* The worker is joined; then the journal is written.  A client returns the *)
(* damage in any case, the checker only when the quarantine is in place.    *)
WriteQuarantine(p) ==
    /\ pc[p] = "join" /\ pc["worker"] = "idle"
    /\ UNCHANGED flags
    /\ PersistQuarantine(journal, p)
    /\ gate' = Nobody
    /\ Return(p)
    /\ IF p = "check" /\ journal'.kind # "quarantine" THEN UNCHANGED history ELSE Tell(p)
    /\ UNCHANGED <<guard, native, gen, corrupt>>

-----------------------------------------------------------------------------
(* checkpoint_loop.  The timers are left out: a poll may come at any time.  *)

(* Mutant: the worker goes on with its timer while the store is closing. *)
PollWhileClosing ==
    /\ pc["worker"] = "wait"
    /\ Go("worker", "lock")
    /\ UNCHANGED <<flags, locks, native, locals, disk, history>>

WorkerPoll ==
    /\ pc["worker"] = "wait" /\ ~stop /\ state = "Open"
    /\ Go("worker", "lock")
    /\ UNCHANGED <<flags, locks, native, locals, disk, history>>

WorkerQuit ==
    /\ pc["worker"] = "wait" /\ (stop \/ state \in Damaged)
    /\ Go("worker", "idle")
    /\ UNCHANGED <<flags, locks, native, locals, disk, history>>

WorkerLock ==
    /\ pc["worker"] = "lock" /\ guard["checkpointer"] = Nobody
    /\ IF handles THEN guard' = [guard EXCEPT !["checkpointer"] = "worker"] /\ Go("worker", "run")
                  ELSE UNCHANGED guard /\ Go("worker", "wait")
    /\ UNCHANGED <<flags, gate, native, locals, disk, history>>

WorkerFinish ==
    /\ pc["worker"] = "run"
    /\ Release("worker") /\ Go("worker", "wait")
    /\ UNCHANGED <<flags, gate, native, locals, disk, history>>

(* The guard is dropped, then the flag set. *)
WorkerDamage ==
    /\ pc["worker"] = "run" /\ corrupt
    /\ Release("worker")
    /\ damage' = TRUE
    /\ seen' = [seen EXCEPT !["worker"] = gen]
    /\ Go("worker", "report")
    /\ UNCHANGED <<state, gate, native, kind, job, prev, held, disk, history>>

WorkerReport ==
    /\ pc["worker"] = "report"
    /\ state' = "Damaged"
    /\ Go("worker", "persist")
    /\ UNCHANGED <<damage, locks, native, locals, disk, history>>

(* persist_checkpoint_quarantine, without the gate: the journal is read ... *)
WorkerRead ==
    /\ pc["worker"] = "persist"
    /\ held' = [held EXCEPT !["worker"] = journal]
    /\ Go("worker", "write")
    /\ UNCHANGED <<flags, locks, native, kind, job, prev, seen, disk, history>>

(* ... and, when there was none, written. *)
WorkerWrite ==
    /\ pc["worker"] = "write"
    /\ UNCHANGED flags
    /\ PersistQuarantine(held["worker"], "worker")
    /\ Return("worker")
    /\ Tell("worker")
    /\ UNCHANGED <<locks, native, gen, corrupt>>

-----------------------------------------------------------------------------
(* check_integrity of an open store, and quarantine_integrity_damage. *)

StartCheck ==
    /\ pc["check"] = "idle" /\ EnsureOpen
    /\ seen' = [seen EXCEPT !["check"] = gen]
    /\ Go("check", "check")
    /\ UNCHANGED <<flags, locks, native, kind, job, prev, held, disk, history>>

(* The check is clean or incomplete, the gate is taken, or the generation   *)
(* it looked at is not the open one any more.                               *)
DropCheck ==
    /\ pc["check"] = "check"
    /\ Return("check")
    /\ UNCHANGED <<flags, locks, native, disk, history>>

ConfirmCheck ==
    /\ pc["check"] = "check" /\ corrupt
    /\ gate = Nobody /\ state = "Open" /\ gen = seen["check"]
    /\ gate' = "check"
    /\ state' = "Damaged"
    /\ TakeWorker
    /\ Go("check", "joinworker")
    /\ UNCHANGED <<damage, guard, handles, full, locals, disk, history>>

(* The worker is joined, the writer drained and made read-only; the gate is *)
(* dropped before quarantine_generation takes it again.                     *)
CheckDrains ==
    /\ pc["check"] = "joinworker" /\ pc["worker"] = "idle" /\ guard["writer"] = Nobody
    /\ gate' = Nobody
    /\ Go("check", "gate")
    /\ UNCHANGED <<flags, guard, native, locals, disk, history>>

-----------------------------------------------------------------------------
(* Lifecycle operations. *)

(* A salvage needs its quarantine journal.  When that cannot be written it  *)
(* returns at once, like one that meets an attachment writer (Thaw).        *)
Begin(j) ==
    /\ pc["op"] = "idle" /\ gate = Nobody /\ state # "down"
    /\ CASE j = "export"   -> EnsureOpen
         [] j = "shutdown" -> TRUE
         [] j = "reset"    -> gen < MaxGen
         [] j = "salvage"  -> gen < MaxGen /\ state \in Damaged /\ journal.kind # "replace"
    /\ job' = j
    /\ prev' = state
    /\ gate' = "op"
    /\ IF j = "salvage" /\ QuarantineMissing(journal)
         THEN journal' = [kind |-> "quarantine", by |-> "op"] /\ note' = "kept"
         ELSE UNCHANGED <<journal, note>>
    /\ held' = [held EXCEPT !["op"] = journal']
    /\ Go("op", "freeze")
    /\ UNCHANGED <<flags, guard, native, kind, seen, gen, corrupt, history>>

(* The operation returns. *)
End == gate' = Nobody /\ Return("op")

(* set_state(Maintenance), or the first half of freeze_attachment_writers,  *)
(* which reads the previous state under the same lock.                      *)
Freeze ==
    /\ pc["op"] = "freeze"
    /\ state' = "Maintenance"
    /\ prev' = IF job \in {"reset", "salvage"} THEN state ELSE prev
    /\ \/ Go("op", "take")
       \/ job \in {"reset", "salvage"} /\ Go("op", "thaw")
    /\ UNCHANGED <<damage, locks, native, kind, job, seen, held, disk, history>>

(* An attachment writer is active: restore_on_busy. *)
Thaw ==
    /\ pc["op"] = "thaw"
    /\ state' = IF state # "Maintenance" THEN state
                ELSE IF prev = "Open" /\ damage THEN "Damaged" ELSE prev
    /\ End
    /\ UNCHANGED <<damage, guard, native, disk, history>>

(* close_connections_inner: stop and join the worker, take every guard. *)
Take ==
    /\ pc["op"] = "take"
    /\ TakeWorker
    /\ Go("op", "drain")
    /\ UNCHANGED <<flags, locks, handles, full, locals, disk, history>>

(* Mutant: a worker that was told to stop counts as joined. *)
StopSent == pc["worker"] = "idle" \/ stop

Joined == pc["worker"] = "idle"

Drain(c) ==
    /\ pc["op"] = "drain" /\ Joined
    /\ guard[c] = Nobody
    /\ c # "reader" => guard["reader"] = "op"
    /\ c = "writer" => guard["checkpointer"] = "op"
    /\ guard' = [guard EXCEPT ![c] = "op"]
    /\ Go("op", IF c = "writer" THEN "decide" ELSE "drain")
    /\ UNCHANGED <<flags, gate, native, locals, disk, history>>

(* Mutant: closing checkpoints whatever the previous state was. *)
AlwaysCheckpoints == handles /\ job \in {"export", "shutdown"}

(* checkpoint_before_close and retain_on_checkpoint_error. *)
Checkpoints ==
    handles /\ (job = "export" \/ (job = "shutdown" /\ prev \notin Damaged))

Retains == job = "export" \/ (job = "shutdown" /\ prev = "Open")

CloseHandles ==
    /\ handles' = FALSE
    /\ Go("op", "closed")
    /\ UNCHANGED <<gate, locals>>

(* Damage known before, or found by, the closing checkpoint. *)
CloseDamaged ==
    /\ pc["op"] = "decide" /\ Checkpoints /\ (damage \/ corrupt)
    /\ damage' = TRUE
    /\ state' = "Damaged"
    /\ PersistQuarantine(journal, "op")
    /\ Release("op")
    /\ IF Retains THEN End /\ UNCHANGED handles ELSE CloseHandles
    /\ told' = told \cup {gen}
    /\ UNCHANGED <<full, spawned, stop, gen, corrupt, reported, touched, faults>>

(* A reader outside this process keeps the WAL busy. *)
CloseBusy ==
    /\ pc["op"] = "decide" /\ Checkpoints /\ ~damage
    /\ Release("op")
    /\ IF Retains THEN Go("op", "restore") /\ UNCHANGED <<handles, gate, locals>>
                  ELSE CloseHandles
    /\ UNCHANGED <<flags, full, spawned, stop, disk, history>>

(* The source is known to be damaged: its quarantine is on disk, or this    *)
(* process reported it.                                                     *)
KnownDamaged == journal.kind = "quarantine" \/ (gen \in told /\ note # "lost")

(* Mutant: known damage is not persisted by a close without a checkpoint. *)
CloseForgets ==
    /\ pc["op"] = "decide" /\ ~(Checkpoints /\ damage)
    /\ touched' = (touched \/ (Checkpoints /\ KnownDamaged))
    /\ Release("op") /\ CloseHandles
    /\ UNCHANGED <<flags, full, spawned, stop, disk, told, reported, faults>>

(* The checkpoint completed, or none is made; known damage is persisted. *)
Close ==
    /\ pc["op"] = "decide" /\ ~(Checkpoints /\ damage)
    /\ UNCHANGED flags
    /\ IF damage THEN PersistQuarantine(journal, "op") ELSE UNCHANGED <<journal, note>>
    /\ touched' = (touched \/ (Checkpoints /\ KnownDamaged))
    /\ Release("op") /\ CloseHandles
    /\ UNCHANGED <<full, spawned, stop, gen, corrupt, told, reported, faults>>

SpawnWorker == spawned' = TRUE /\ stop' = FALSE

(* The handles were kept: only a store still in maintenance opens again. *)
Restore ==
    /\ pc["op"] = "restore"
    /\ IF state = "Maintenance"
         THEN /\ SpawnWorker
              /\ pc' = [pc EXCEPT !["op"] = "open", !["worker"] = "wait"]
              /\ UNCHANGED <<gate, locals>>
         ELSE End /\ UNCHANGED <<spawned, stop>>
    /\ UNCHANGED <<flags, guard, handles, full, disk, history>>

(* install_connections, up to clearing the damage flag. *)
Install ==
    /\ handles' = TRUE /\ full' = TRUE
    /\ SpawnWorker
    /\ damage' = FALSE

Open ==
    /\ pc["op"] = "open"
    /\ state' = "Open"
    /\ End
    /\ UNCHANGED <<damage, guard, native, disk, history>>

(* The export swap was made, or rolled back. *)
Reopen ==
    /\ pc["op"] = "closed" /\ job = "export"
    /\ Go("op", "install")
    /\ UNCHANGED <<flags, locks, native, locals, disk, history>>

(* Copying or counting the source's rows found it damaged: the export is    *)
(* rolled back and the store reopened all the same, and the caller told.    *)
ReopenDamaged ==
    /\ pc["op"] = "closed" /\ job = "export" /\ corrupt
    /\ reported' = TRUE
    /\ Go("op", "install")
    /\ UNCHANGED <<flags, locks, native, locals, disk, told, touched, faults>>

(* reopen_locked *)
Reinstall ==
    /\ pc["op"] = "install"
    /\ Install
    /\ pc' = [pc EXCEPT !["op"] = "open", !["worker"] = "wait"]
    /\ UNCHANGED <<state, locks, locals, disk, history>>

(* An opening fails: close_connections persists damage that is known from   *)
(* before, or that its checkpoint finds, and record_initialization_error    *)
(* sets the state; Maintenance stands for every refusal.                    *)
OpeningFails ==
    /\ state' = "Maintenance" \/ (corrupt /\ state' = "Damaged")
    /\ \/ damage' = FALSE /\ UNCHANGED <<journal, note>>
       \/ (damage \/ corrupt) /\ damage' = TRUE /\ PersistQuarantine(journal, "op")
    /\ UNCHANGED <<gen, corrupt>>

ReopenFails ==
    /\ pc["op"] = "install"
    /\ OpeningFails
    /\ End
    /\ UNCHANGED <<guard, native, history>>

(* An operation that fails after its one-way boundary (RecoveryRequired)    *)
(* leaves the rest to recovery: the database of an export in place, or the  *)
(* journal of a reset or a salvage.                                         *)
Strand ==
    /\ \/ pc["op"] = "closed" /\ job = "export" /\ UNCHANGED journal
       \/ pc["op"] = "retire" /\ UNCHANGED journal
       \/ pc["op"] = "closed" /\ job = "salvage" /\ journal' = [kind |-> "replace", by |-> "op"]
    /\ state' = "Maintenance"
    /\ End
    /\ UNCHANGED <<damage, guard, native, note, gen, corrupt, history>>

(* begin_reset publishes its intent over whatever journal there is. *)
Publish ==
    /\ pc["op"] = "closed" /\ job = "reset"
    /\ journal' = [kind |-> "replace", by |-> "op"]
    /\ state' = "Maintenance"
    /\ Go("op", "reclose")
    /\ UNCHANGED <<damage, locks, native, locals, note, gen, corrupt, history>>

(* Its write failed: the intent may be in place or not, and nothing reopens *)
(* (RecoveryRequired).                                                      *)
IntentFails ==
    /\ pc["op"] = "closed" /\ job = "reset"
    /\ journal' \in {journal, [kind |-> "replace", by |-> "op"]}
    /\ End
    /\ UNCHANGED <<flags, guard, native, note, gen, corrupt, history>>

(* It closes the connections, now gone, once more, and with them persists   *)
(* known damage.                                                            *)
Reclose ==
    /\ pc["op"] = "reclose"
    /\ UNCHANGED flags
    /\ IF damage THEN PersistQuarantine(journal, "op") ELSE UNCHANGED <<journal, note>>
    /\ Go("op", "retire")
    /\ UNCHANGED <<locks, native, locals, gen, corrupt, history>>

(* The journal is gone with the old generation, and all that was said of it. *)
NewGeneration ==
    /\ gen' = gen + 1
    /\ corrupt' = FALSE
    /\ journal' = NoJournal
    /\ note' = "kept" /\ reported' = FALSE

(* The old generation is retired, the new one installed and to be opened. *)
Replace ==
    /\ \/ pc["op"] = "retire"
       \/ pc["op"] = "closed" /\ job = "salvage"
    /\ NewGeneration
    /\ Go("op", "install")
    /\ UNCHANGED <<flags, locks, native, locals, told, touched, faults>>

AbortSalvage ==
    /\ pc["op"] = "closed" /\ job = "salvage"
    /\ state' = "Damaged"
    /\ End
    /\ UNCHANGED <<damage, guard, native, disk, history>>

Stopped ==
    /\ pc["op"] = "closed" /\ job = "shutdown"
    /\ gate' = Nobody /\ Go("op", "stopped")
    /\ UNCHANGED <<flags, guard, native, locals, disk, history>>

-----------------------------------------------------------------------------
(* The process and the medium. *)

Rot ==
    /\ ~corrupt /\ state # "down"
    /\ corrupt' = TRUE
    /\ UNCHANGED <<flags, locks, native, pc, locals, journal, note, gen, history>>

Down ==
    /\ state' = "down" /\ damage' = FALSE
    /\ handles' = FALSE /\ full' = TRUE /\ spawned' = FALSE /\ stop' = FALSE
    /\ gate' = Nobody /\ guard' = [c \in Conns |-> Nobody]
    /\ pc' = [p \in Procs |-> "idle"]
    /\ kind' = [p \in Procs |-> "read"]
    /\ job' = "none" /\ prev' = "Maintenance"
    /\ seen' = [p \in Procs |-> 0] /\ held' = [p \in Procs |-> NoJournal]
    /\ note' = IF note = "failed" THEN "lost" ELSE note
    /\ UNCHANGED <<journal, gen, corrupt, told, reported, touched>>

Exit == pc["op"] = "stopped" /\ Down /\ UNCHANGED faults

Crash == state # "down" /\ faults < MaxFaults /\ Down /\ faults' = faults + 1

(* initialize_recovered: a quarantined store stays closed. *)
StartQuarantined ==
    /\ state = "down" /\ journal.kind = "quarantine"
    /\ state' = "Damaged"
    /\ UNCHANGED <<damage, locks, native, pc, locals, disk, history>>

(* A replacement is completed, and the store opened. *)
Start ==
    /\ state = "down" /\ journal.kind # "quarantine"
    /\ IF journal.kind = "replace" THEN NewGeneration ELSE UNCHANGED <<disk, reported>>
    /\ state' = "Open"
    /\ Install /\ Go("worker", "wait")
    /\ UNCHANGED <<locks, locals, told, touched, faults>>

(* Either may fail. *)
StartFails ==
    /\ state = "down" /\ journal.kind # "quarantine"
    /\ IF journal.kind = "none" THEN OpeningFails /\ UNCHANGED reported
       ELSE /\ state' = "Maintenance" /\ UNCHANGED damage
            /\ NewGeneration \/ UNCHANGED <<disk, reported>>
    /\ UNCHANGED <<locks, native, pc, locals, told, touched, faults>>

-----------------------------------------------------------------------------
ClientStep(c) ==
    \/ Admit(c) \/ TurnAway(c) \/ Finish(c) \/ RestoreFails(c) \/ FindDamage(c)
    \/ FreezeDamage(c) \/ ObserveResult(c)

QuarantineStep(p) == EnterQuarantine(p) \/ SkipQuarantine(p) \/ WriteQuarantine(p)

WorkerStep ==
    \/ WorkerPoll \/ WorkerQuit \/ WorkerLock \/ WorkerFinish
    \/ WorkerDamage \/ WorkerReport \/ WorkerRead \/ WorkerWrite

CheckStep == DropCheck \/ ConfirmCheck \/ CheckDrains

OpStep ==
    \/ Freeze \/ Thaw \/ Take \/ (\E c \in Conns : Drain(c))
    \/ CloseDamaged \/ CloseBusy \/ Close \/ Restore \/ Open
    \/ Reopen \/ ReopenDamaged \/ Reinstall \/ ReopenFails
    \/ Strand \/ Publish \/ IntentFails \/ Reclose \/ Replace \/ AbortSalvage \/ Stopped

Next ==
    \/ \E c \in Clients :
          \/ ClientStep(c)
          \/ \E k \in {"read", "write"} : Request(c, k)
    \/ \E p \in Clients \cup {"check"} : QuarantineStep(p)
    \/ WorkerStep \/ StartCheck \/ CheckStep
    \/ OpStep \/ \E j \in {"export", "shutdown", "reset", "salvage"} : Begin(j)
    \/ Rot \/ Exit \/ Crash \/ StartQuarantined \/ Start \/ StartFails

Spec == Init /\ [][Next]_vars

(* Every thread of the process is scheduled; a request need not come, and   *)
(* nothing is assumed of the order in which a mutex serves its waiters.     *)
Fairness ==
    /\ \A c \in Clients : WF_vars(ClientStep(c))
    /\ \A p \in Clients \cup {"check"} : WF_vars(QuarantineStep(p))
    /\ WF_vars(WorkerStep) /\ WF_vars(CheckStep) /\ WF_vars(OpStep)

FairSpec == Spec /\ Fairness

-----------------------------------------------------------------------------
(* A caller who was told that the installed generation is damaged can rely  *)
(* on it: no client of this process, or of one started later, is admitted   *)
(* to it, unless every attempt to write the quarantine failed and the       *)
(* process that knew is gone (see RestartStaysClosed).                      *)
DamageSticks == gen \in told /\ note # "lost" => ~EnsureOpen

(* While an operation replaces files, every connection is closed, no client *)
(* is inside one and no checkpoint, nor its journal, is still to come.      *)
QuietReplacement ==
    pc["op"] \in {"closed", "reclose", "retire", "install"} =>
        /\ ~handles
        /\ pc["worker"] = "idle"
        /\ \A c \in Clients : pc[c] \notin {"run", "freeze"}

(* Closing never checkpoints a source that is quarantined, or that this      *)
(* process or an earlier one that could record it reported as damaged.       *)
SourceUntouched == ~touched

(* The journal of a confirmed reset or salvage gives way to nothing but its *)
(* own end: no late quarantine of the source overwrites it.                 *)
ReplacementStands ==
    [][journal.kind = "replace" => journal' \in {journal, NoJournal}]_vars

(* "restarting does not make it writable" (docs/local-store.md 333): a start *)
(* does not open the generation of which a caller was told.                 *)
RestartStaysClosed ==
    [][state = "down" /\ gen \in told /\ gen' = gen => state' # "Open"]_vars

(* "Never revive Open after damage was observed" (lifecycle.rs 1396): an     *)
(* export that returned the damage of its source leaves the store closed.   *)
ExportDamageSticks == reported => ~EnsureOpen

(* Draining ends: whoever holds the lifecycle gate lets it go again. *)
GateComesFree == \A p \in Procs : gate = p ~> gate # p

(* "Never return the writer to authoritative callers with weaker sync       *)
(* settings" (mod.rs 573): a writer that an open store offers is at FULL.   *)
WriterIsFull == state = "Open" /\ guard["writer"] = Nobody => full

(* "Generation replacement always joins that worker before touching files,  *)
(* making this existing journal safe to publish here" (salvage.rs 339): the *)
(* journal a salvage stages under is the one it holds.                      *)
StagedUnderJournal ==
    pc["op"] = "closed" /\ job = "salvage" => journal = held["op"]
=============================================================================
