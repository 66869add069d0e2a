---------------------------- MODULE StoreLifecycle ----------------------------
(***************************************************************************)
(* The generation-replacement protocol of the local store: start-up        *)
(* recovery, export swap (set, rotate, remove a password), confirmed reset *)
(* and setup, quarantine and salvage of a damaged database, with process   *)
(* crashes, I/O errors, failed directory synchronizations and power loss   *)
(* between any two changes of the disk.                                    *)
(*                                                                         *)
(* Every operation holds the lifecycle gate, so one runs at a time; it is  *)
(* the sequence todo of the steps it still has to take.                    *)
(***************************************************************************)
EXTENDS StoreDisk

CONSTANTS
    MaxGen,              \* bound: store ids drawn
    MaxFaults,           \* bound: crashes, power losses and I/O failures
    FailingSyncs         \* the steps whose directory synchronization can fail

ASSUME BoundsAssumption == MaxGen \in Nat \ {0} /\ MaxFaults \in Nat

VARIABLES
    disk,                \* the root directory as processes see it
    past,                \* root directories a power loss may bring back
    att,                 \* generations with an attachment tree
    state,               \* Store.state, or "down"
    op,                  \* the running lifecycle operation
    todo,                \* its remaining steps
    req,                 \* its request: target mode, kind of reset
    kek,                 \* LifecycleControl.repair_wrapping is Some
    ctl,                 \* LifecycleControl: active, cancellable, cancelled
    committed,           \* the running operation passed its one-way boundary
    nextGen,             \* the next random store id
    saved,               \* history: rows acknowledged, loss not confirmed
    faults

diskVars == <<disk, past, att>>
memVars  == <<state, op, todo, req, kek, ctl, committed>>
vars     == <<disk, past, att, state, op, todo, req, kek, ctl, committed,
              nextGen, saved, faults>>

States == {"down", "Maintenance", "Open", "Locked", "NeedsSetup", "Damaged",
           "DamagedGen", "Refused"}

Ops == {"none", "boot", "setup", "reset", "export", "rollback", "salvage",
        "cleanup", "unlock", "quarantine"}

RootSteps == {"prepare", "mktmp", "discard", "drop_old", "retire_db", "commit",
              "swap_old", "swap_new", "publish", "supersede", "await",
              "install_new", "mark", "unmark", "quarantine"}
ContentSteps == {"tag", "fill", "discard", "drop_old", "create", "name"}
AttSteps == {"att_old", "att_new", "att_copy"}
ControlSteps == {"fresh", "check", "seal", "intent", "freeze", "recover", "conflict",
                 "pending", "none", "needs_setup", "open", "damaged", "authenticated"}
Steps == RootSteps \cup ContentSteps \cup AttSteps \cup ControlSteps

NoControl == [active |-> FALSE, cancellable |-> FALSE, cancelled |-> FALSE]

TypeOK ==
    /\ disk \in Disks
    /\ past \subseteq Disks
    /\ att \subseteq Nat
    /\ state \in States
    /\ op \in Ops
    /\ todo \in Seq(Steps)
    /\ req \in [mode : Modes, after : {"Erase", "StartFresh"}]
    /\ kek \in BOOLEAN
    /\ ctl \in [active : BOOLEAN, cancellable : BOOLEAN, cancelled : BOOLEAN]
    /\ committed \in BOOLEAN
    /\ nextGen \in Nat
    /\ saved \subseteq Rows
    /\ faults \in Nat

(* A new profile: nothing on disk, no process. *)
Init ==
    /\ disk = [dir |-> [n \in Names |-> Absent], setup |-> NoJournal]
    /\ past = {}
    /\ att = {}
    /\ state = "down"
    /\ op = "none"
    /\ todo = <<>>
    /\ req = [mode |-> "plain", after |-> "Erase"]
    /\ kek = FALSE
    /\ ctl = NoControl
    /\ committed = FALSE
    /\ nextGen = 1
    /\ saved = {}
    /\ faults = 0

-----------------------------------------------------------------------------
Db == disk.dir.db

Idle == todo = <<>>

At(s) == todo # <<>> /\ Head(todo) = s

(* A directory identity that nothing on disk, or on an earlier disk, has.   *)
FreshIno ==
    LET used == Inos(disk) \cup UNION {Inos(p) : p \in past}
    IN  CHOOSE i \in 1..(Cardinality(used) + 1) : i \notin used

(* LifecycleControl::finish, when the operation returns. *)
Stop ==
    /\ op' = "none"
    /\ todo' = <<>>
    /\ committed' = FALSE
    /\ ctl' = [ctl EXCEPT !.active = FALSE, !.cancellable = FALSE]

Continue(steps) == todo' = steps /\ UNCHANGED <<op, committed, ctl>>

NextStep == Continue(Tail(todo))

(* build_empty_replacement_locked and complete_setup_locked. *)
CompleteSetup ==
    <<"discard", "mktmp", "tag", "fill", "install_new", "commit">>
        \o InstallCommitted \o FinishSetup \o <<"open">>

(* Mutants: no check after cancellation was closed; the staging directory   *)
(* is committed before the database in it is complete.                      *)
ExportUnchecked ==
    <<"check", "fresh", "mktmp", "tag", "fill", "check", "check", "seal", "commit">>
        \o InstallCommitted \o <<"open">>

ExportCommitsEarly ==
    <<"check", "fresh", "mktmp", "tag", "check", "seal", "check", "commit", "fill">>
        \o InstallCommitted \o <<"open">>

(* export_swap_locked after the old connections were closed. *)
ExportSwap ==
    <<"check", "fresh", "mktmp", "tag", "fill", "check", "check", "seal", "check", "commit">>
        \o InstallCommitted \o <<"open">>

(* install_salvaged_with_commit_sync. *)
InstallSalvaged ==
    <<"quarantine", "freeze", "check", "discard", "mktmp", "tag", "fill", "check",
      "att_copy", "check", "seal", "check", "intent", "install_new", "retire_db", "commit">>
        \o InstallCommitted \o FinishSetup \o <<"open">>

-----------------------------------------------------------------------------
(* The journal a reset or a quarantine of the current generation writes.    *)
NewJournal(after, phase) ==
    [after |-> after, mode |-> Db.mode, old |-> ReadGeneration(Db),
     new |-> nextGen, phase |-> phase]

(* The generation of staging built (or discarded) now, the one of staging   *)
(* to install, and the one a retired source must have.                      *)
TagGen     == IF disk.setup # NoJournal THEN disk.setup.new ELSE ReadGeneration(Db)
StageGen   == IF disk.setup # NoJournal THEN disk.setup.new ELSE ReadGeneration(disk.dir.new)
RetiredGen == IF disk.setup # NoJournal THEN disk.setup.old
              ELSE IF Present(disk.dir.new) THEN disk.dir.new.gen ELSE ReadGeneration(Db)

(* Steps that find nothing to do. *)
Vacuous(s) ==
    \/ s = "prepare" /\ Present(Db)
    \/ s = "discard" /\ ~Present(disk.dir.tmp)
    \/ s = "drop_old" /\ ~Present(disk.dir.old)
    \/ s = "retire_db" /\ ~Present(Db)
    \/ s = "swap_old" /\ ~Present(Db)
    \/ s = "create" /\ Db.kind \in {"bare", "full"}
    \/ s = "name" /\ Db.kind = "full"
    \/ s = "quarantine" /\ disk.setup # NoJournal

(* The generation checks made before a step touches anything. *)
StepChecks(s) ==
    CASE s = "discard"   -> disk.dir.tmp.kind \in {"absent", "empty"} \/ disk.dir.tmp.gen = TagGen
      [] s = "drop_old"  -> disk.dir.old.kind \in {"absent", "empty"} \/ disk.dir.old.gen = RetiredGen
      [] s = "retire_db" -> \/ Db.kind \in {"absent", "empty"}
                            \/ ReadGeneration(Db) = disk.setup.old /\ ~Present(disk.dir.old)
      [] s = "commit"    -> ~Present(disk.dir.new)
      [] s = "swap_old"  -> /\ ReadGeneration(disk.dir.new) = StageGen
                            /\ \/ Db.kind \in {"absent", "empty"}
                               \/ ReadGeneration(Db) = RetiredGen /\ ~Present(disk.dir.old)
      [] s = "att_old"   -> Present(Db) => ReadGeneration(Db) = disk.setup.new
      [] s = "mark"      -> ReadGeneration(Db) = disk.setup.new
      [] s = "fresh"     -> \A n \in {"tmp", "new", "old"} : ~Present(disk.dir[n])
      [] s = "create"    -> Db.kind # "part"
      [] s = "publish"   -> PreflightSetup(disk, NewJournal(req.after, "RetireOld"))
      [] s = "quarantine" ->
           /\ ReadGeneration(Db) # 0
           /\ IF disk.setup # NoJournal
                THEN /\ disk.setup.phase = "BuildReplacement"
                     /\ disk.setup.old = ReadGeneration(Db)
                     /\ PreflightSetup(disk, disk.setup)
                ELSE PreflightSetup(disk, NewJournal("StartFresh", "BuildReplacement"))
      [] OTHER -> TRUE

(* What a step makes of the root directory. *)
RootEffect(s) ==
    CASE s = "prepare"   -> SetDir(disk, "db", EmptyDir(FreshIno))
      [] s = "mktmp"     -> SetDir(disk, "tmp", EmptyDir(FreshIno))
      [] s = "discard"   -> SetDir(disk, "tmp", Absent)
      [] s = "drop_old"  -> SetDir(disk, "old", Absent)
      [] s \in {"retire_db", "swap_old"} ->
            IF Db.kind = "empty" THEN SetDir(disk, "db", Absent) ELSE Rename(disk, "db", "old")
      [] s = "commit"    -> Rename(disk, "tmp", "new")
      [] s = "swap_new"  -> Rename(disk, "new", "db")
      [] s = "publish"   -> [disk EXCEPT !.setup = NewJournal(req.after, "RetireOld")]
      [] s = "supersede" -> [disk EXCEPT !.setup.after = req.after, !.setup.phase = "RetireOld"]
      [] s = "await"     -> [disk EXCEPT !.setup.phase = "AwaitChoice"]
      [] s = "install_new" -> [disk EXCEPT !.setup.phase = "InstallNew"]
      [] s = "mark"      -> [disk EXCEPT !.setup.phase = "Installed"]
      [] s = "unmark"    -> [disk EXCEPT !.setup = NoJournal]
      [] s = "quarantine" -> [disk EXCEPT !.setup = NewJournal("StartFresh", "BuildReplacement")]

(* Removing an empty placeholder in install_committed is synchronized only  *)
(* with the rename that follows it.                                         *)
Synchronizes(s) == ~(s = "swap_old" /\ Db.kind = "empty")

ContentOnly(s) ==
    \/ s \in {"tag", "fill", "create", "name"}
    \/ s = "discard" /\ disk.dir.tmp.kind # "empty"
    \/ s = "drop_old" /\ disk.dir.old.kind # "empty"

(* The rows a staged database gets: all for an export, the readable ones    *)
(* for a salvage, none for a reset.                                         *)
StagedRows ==
    CASE op = "export"  -> {Db.rows}
      [] op = "salvage" -> SUBSET Db.rows
      [] OTHER          -> {{}}

(* The directory a step changes in place, and what it becomes. *)
Target(s) == CASE s \in {"tag", "fill", "discard"} -> disk.dir.tmp
               [] s = "drop_old"                   -> disk.dir.old
               [] OTHER                            -> Db

ContentEffects(s) ==
    CASE s = "tag"    -> {[Target(s) EXCEPT !.kind = "part", !.gen = TagGen]}
      [] s = "fill"   -> {[Target(s) EXCEPT !.kind = "full", !.rows = R,
                              !.mode = IF op = "salvage" THEN disk.setup.mode ELSE req.mode]
                            : R \in StagedRows}
      [] s = "create" -> {[Target(s) EXCEPT !.kind = "bare", !.gen = nextGen]}
      [] s = "name"   -> {[Target(s) EXCEPT !.kind = "full"]}
      [] OTHER        -> {Shrink(Target(s))}

InPlace(i, dir) ==
    /\ disk' = Rewrite(disk, i, dir)
    /\ past' = {Rewrite(p, i, dir) : p \in past}

(* A confirmed reset covers every row, a confirmed salvage the rows its     *)
(* replacement leaves out, once the intent is written.                      *)
SavedAfter(s) ==
    IF s \in {"publish", "supersede"} THEN {}
    ELSE IF s = "install_new" /\ op = "salvage" THEN saved \cap disk.dir.tmp.rows
    ELSE saved

(* Deletion goes on until nothing is left; other steps are done at once. *)
After(s) == IF s \in {"discard", "drop_old"} /\ ContentOnly(s) THEN todo ELSE Tail(todo)

Draws(s) == s \in {"publish", "create"} \/ (s = "quarantine" /\ ~Vacuous(s))

(* One step that changes a name in the root directory and synchronizes it.  *)
ChangeRoot(s) ==
    /\ At(s) /\ s \in RootSteps /\ ~ContentOnly(s) /\ ~Vacuous(s) /\ StepChecks(s)
    /\ disk' = RootEffect(s)
    /\ saved' = SavedAfter(s)
    /\ nextGen' = IF Draws(s) THEN nextGen + 1 ELSE nextGen

RootStep ==
    \E s \in RootSteps :
        /\ ChangeRoot(s)
        /\ past' = IF Synchronizes(s) THEN {} ELSE past \cup {disk}
        /\ todo' = Tail(todo)
        /\ committed' = (committed \/ (op = "export" /\ s = "commit"))
        /\ UNCHANGED <<att, state, op, req, kek, ctl, faults>>

(* One step that changes the contents of one directory. *)
ContentStep ==
    \E s \in ContentSteps :
        /\ At(s) /\ ContentOnly(s) /\ ~Vacuous(s) /\ StepChecks(s)
        /\ \E dir \in ContentEffects(s) : InPlace(Target(s).ino, dir)
        /\ nextGen' = IF Draws(s) THEN nextGen + 1 ELSE nextGen
        /\ Continue(After(s))
        /\ UNCHANGED <<att, state, req, kek, saved, faults>>

VacuousStep ==
    \E s \in RootSteps \cup ContentSteps :
        /\ At(s) /\ Vacuous(s) /\ StepChecks(s)
        /\ NextStep
        /\ UNCHANGED <<disk, past, att, state, req, kek, nextGen, saved, faults>>

(* attachments::remove_generation and attachments::copy_retained. *)
AttachmentStep ==
    \E s \in AttSteps :
        /\ At(s) /\ StepChecks(s)
        /\ att' = CASE s = "att_old" -> att \ {disk.setup.old}
                    [] s = "att_new" -> att \ {disk.setup.new}
                    [] s = "att_copy" -> IF disk.setup.old \in att /\ disk.dir.tmp.rows # {}
                                           THEN att \cup {disk.setup.new} ELSE att
        /\ NextStep
        /\ UNCHANGED <<disk, past, state, req, kek, nextGen, saved, faults>>

-----------------------------------------------------------------------------
(* Steps of the control flow: checks, cancellation, results of recovery.    *)

Unmoved == UNCHANGED <<disk, past, att, nextGen, saved, faults>>

PassCheck ==
    /\ \/ At("check") /\ ~ctl.cancelled
       \/ At("fresh") /\ StepChecks("fresh")
    /\ NextStep
    /\ UNCHANGED <<state, req, kek>> /\ Unmoved

(* LifecycleControl::update(Committing, cancellable = false). *)
Seal ==
    /\ At("seal")
    /\ ctl' = [ctl EXCEPT !.cancellable = FALSE]
    /\ todo' = Tail(todo)
    /\ UNCHANGED <<state, op, req, kek, committed>> /\ Unmoved

(* commit_intent = true, before the InstallNew journal of a salvage. *)
Intent ==
    /\ At("intent")
    /\ committed' = TRUE
    /\ todo' = Tail(todo)
    /\ UNCHANGED <<state, op, req, kek, ctl>> /\ Unmoved

(* LifecycleControl::begin and the state write of freeze_attachment_writers. *)
Freeze ==
    /\ At("freeze")
    /\ state' = "Maintenance"
    /\ ctl' = [active |-> TRUE, cancellable |-> TRUE, cancelled |-> FALSE]
    /\ todo' = Tail(todo)
    /\ UNCHANGED <<op, req, kek, committed>> /\ Unmoved

Recover ==
    /\ At("recover")
    /\ Continue(RecoverFilesystem(disk))
    /\ UNCHANGED <<state, req, kek>> /\ Unmoved

(* initialize_recovered once recovery has left a journal: a quarantined     *)
(* store stays closed, a reset store is set up (at once in plain mode).     *)
BootPending ==
    /\ op = "boot" /\ At("pending")
    /\ UNCHANGED kek /\ Unmoved
    /\ IF disk.setup.phase = "BuildReplacement"
         THEN /\ state' = IF disk.setup.mode = "plain" THEN "Damaged" ELSE "Locked"
              /\ Stop /\ UNCHANGED req
         ELSE /\ state' = "NeedsSetup"
              /\ IF disk.setup.mode = "plain"
                   THEN Continue(CompleteSetup) /\ req' = [req EXCEPT !.mode = "plain"]
                   ELSE Stop /\ UNCHANGED req

(* initialize_recovered with no journal left: disk_mode decides. *)
BootNone ==
    /\ op = "boot" /\ At("none")
    /\ UNCHANGED <<req, kek>> /\ Unmoved
    /\ IF Db.kind # "part" /\ Db.mode = "password"
         THEN state' = "Locked" /\ Stop
         ELSE Continue(<<"create", "name", "open">>) /\ UNCHANGED state

(* setup_store_choice after recovery. *)
SetupPending ==
    /\ op = "setup" /\ At("pending")
    /\ IF disk.setup.phase = "BuildReplacement" THEN Stop ELSE Continue(CompleteSetup)
    /\ UNCHANGED <<state, req, kek>> /\ Unmoved

(* acknowledge_completed_setup_locked: plain reopens, password must be Open *)
(* already, and a choice of the other mode is a conflict.                   *)
SetupNone ==
    /\ op = "setup" /\ At("none")
    /\ IF Db.mode = "plain" /\ req.mode = "plain" THEN Continue(<<"name", "open">>) ELSE Stop
    /\ UNCHANGED <<state, req, kek>> /\ Unmoved

(* begin_reset over a journal that was already there. *)
ResetPending ==
    /\ op = "reset" /\ At("pending")
    /\ Continue((IF disk.setup.phase = "BuildReplacement"
                   THEN <<"supersede">> \o RetireOld([disk.setup EXCEPT !.phase = "RetireOld"])
                   ELSE RetireOld(disk.setup)) \o <<"needs_setup">>)
    /\ UNCHANGED <<state, req, kek>> /\ Unmoved

(* The replacement was installed: keep it and every row written since. *)
ResetNone ==
    /\ op = "reset" /\ At("none")
    /\ IF Db.mode = "plain" THEN Continue(<<"name", "open">>) /\ UNCHANGED state
                            ELSE state' = "Locked" /\ Stop
    /\ UNCHANGED <<req, kek>> /\ Unmoved

(* The end of begin_reset: plain mode and an authenticated Start fresh set  *)
(* up the replacement now, an encrypted store waits for the user's choice.  *)
NeedsSetup ==
    /\ At("needs_setup")
    /\ state' = "NeedsSetup"
    /\ kek' = FALSE
    /\ IF disk.setup.mode = "plain" \/ (disk.setup.after = "StartFresh" /\ kek)
         THEN Continue(CompleteSetup) /\ req' = [req EXCEPT !.mode = disk.setup.mode]
         ELSE Stop /\ UNCHANGED req
    /\ Unmoved

(* install_connections and verify_or_create_generation succeeded. *)
Open ==
    /\ At("open") /\ Db.kind = "full"
    /\ state' = "Open"
    /\ kek' = IF op \in {"unlock", "salvage"} THEN FALSE ELSE kek
    /\ Stop
    /\ UNCHANGED req /\ Unmoved

(* An aborted salvage keeps its quarantine; an authenticated key is kept.   *)
Settle ==
    /\ \/ At("damaged") /\ state' = "Damaged" /\ UNCHANGED kek
       \/ At("authenticated") /\ kek' = TRUE /\ UNCHANGED state
    /\ Stop
    /\ UNCHANGED req /\ Unmoved

-----------------------------------------------------------------------------
(* Failures of the running operation. *)

(* Mutant: every error labelled damage. *)
StartupAllDamaged(err) == {"DamagedGen"}

(* record_initialization_error: conflicting generations, an I/O error, and  *)
(* a full disk or a busy file are told apart.                               *)
StartupErrors(err) == IF err = "conflict" THEN {"DamagedGen"} ELSE {"Refused", "Maintenance"}

Opening == Head(todo) \in {"create", "name", "open"}

(* The running operation returns an error; committedNow is its committed    *)
(* flag at that moment.                                                     *)
Abort(err, committedNow) ==
    /\ UNCHANGED req
    /\ \/ At("prepare") /\ state' = "down" /\ Stop /\ UNCHANGED kek
       \/ /\ op = "boot" \/ Opening
          /\ ~At("prepare")
          /\ state' \in StartupErrors(err)
          /\ kek' = (kek \/ op = "unlock")
          /\ Stop
       \/ /\ ~Opening
          /\ \/ op \in {"setup", "reset", "rollback", "cleanup", "quarantine"}
             \/ op \in {"export", "salvage"} /\ committedNow
             \/ op = "salvage" /\ state = "Damaged"
          /\ Stop
          /\ UNCHANGED <<state, kek>>
       \/ /\ ~Opening /\ op = "export" /\ ~committedNow
          /\ op' = "rollback" /\ todo' = <<"discard", "name", "open">>
          /\ UNCHANGED <<state, kek, ctl, committed>>
       \/ /\ op = "salvage" /\ state # "Damaged" /\ ~Opening /\ ~committedNow
          /\ op' = "cleanup" /\ todo' = <<"discard", "att_new", "damaged">>
          /\ UNCHANGED <<state, kek, ctl, committed>>

(* A generation check failed. *)
Conflict ==
    /\ todo # <<>>
    /\ Head(todo) = "conflict" \/ ~StepChecks(Head(todo)) \/ (At("open") /\ Db.kind # "full")
    /\ Abort("conflict", committed)
    /\ Unmoved

(* check_cancelled: the accepted cancel ends the operation. *)
Cancelled ==
    /\ At("check") /\ ctl.cancelled
    /\ Abort("cancelled", committed)
    /\ Unmoved

Fault == faults < MaxFaults /\ faults' = faults + 1

(* An I/O error before the step had any effect. *)
IoFault ==
    /\ todo # <<>>
    /\ Head(todo) \in RootSteps \cup ContentSteps \cup AttSteps \cup {"open"}
    /\ ~Vacuous(Head(todo))
    /\ Fault
    /\ Abort("io", committed)
    /\ UNCHANGED <<disk, past, att, nextGen, saved>>

(* Mutant: the export counts as committed only after the synchronization.   *)
SyncFaultRollsBack ==
    \E s \in FailingSyncs :
        /\ Fault
        /\ ChangeRoot(s) /\ Synchronizes(s)
        /\ past' = past \cup {disk}
        /\ Abort("io", committed)
        /\ UNCHANGED att

(* The name changed, then synchronizing the root directory failed. *)
SyncFault ==
    \E s \in FailingSyncs :
        /\ Fault
        /\ ChangeRoot(s) /\ Synchronizes(s)
        /\ past' = past \cup {disk}
        /\ Abort("io", committed \/ s = "commit")
        /\ UNCHANGED att

Down ==
    /\ state' = "down" /\ op' = "none" /\ todo' = <<>>
    /\ kek' = FALSE /\ ctl' = NoControl /\ committed' = FALSE
    /\ req' = [mode |-> "plain", after |-> "Erase"]

(* The process dies in the middle of an operation. *)
Crash ==
    /\ ~Idle /\ Fault /\ Down
    /\ UNCHANGED <<disk, past, att, nextGen, saved>>

(* Power fails: root directory changes not yet synchronized may be undone,  *)
(* back to any point since the last successful synchronization.             *)
PowerLoss ==
    /\ Fault /\ Down
    /\ disk' \in past
    /\ past' = {}
    /\ UNCHANGED <<att, nextGen, saved>>

Quit ==
    /\ Idle /\ state # "down" /\ Down
    /\ Unmoved

-----------------------------------------------------------------------------
(* Requests.  Each needs the lifecycle gate, so no operation is running.    *)

Start(o, steps) == Idle /\ op' = o /\ todo' = steps

Unstarted == UNCHANGED <<disk, past, att, kek, ctl, committed, nextGen, saved, faults>>

(* Store::unavailable (which prepares db/) and initialize_recovered. *)
Boot ==
    /\ state = "down"
    /\ Start("boot", <<"prepare", "recover">>)
    /\ state' = "Maintenance"
    /\ UNCHANGED req /\ Unstarted

(* unlock_store with the password of the primary slot. *)
Unlock ==
    /\ state = "Locked" /\ Idle
    /\ IF disk.setup.phase = "BuildReplacement"
         THEN /\ PreflightSetup(disk, disk.setup)
              /\ state' = "Damaged" /\ kek' = TRUE
              /\ UNCHANGED <<op, todo>>
         ELSE /\ Start("unlock", <<"name", "open">>)
              /\ state' = "Maintenance"
              /\ UNCHANGED kek
    /\ UNCHANGED <<req, disk, past, att, ctl, committed, nextGen, saved, faults>>

(* A write transaction of an open store: the row and its attachment. *)
Save(r) ==
    /\ state = "Open" /\ Idle /\ r \notin saved
    /\ InPlace(Db.ino, [Db EXCEPT !.rows = @ \cup {r}])
    /\ att' = att \cup {Db.gen}
    /\ saved' = saved \cup {r}
    /\ UNCHANGED <<state, op, todo, req, kek, ctl, committed, nextGen, faults>>

(* set_store_password, change_store_password with reencrypt and             *)
(* remove_store_password, up to close_for_export.                           *)
Export(mode) ==
    /\ state = "Open" /\ (Db.mode = "password" \/ mode = "password")
    /\ Start("export", ExportSwap)
    /\ state' = "Maintenance"
    /\ req' = [req EXCEPT !.mode = mode]
    /\ ctl' = [active |-> TRUE, cancellable |-> TRUE, cancelled |-> FALSE]
    /\ UNCHANGED <<disk, past, att, kek, committed, nextGen, saved, faults>>

(* cancel_store_operation, from any thread while the operation runs. *)
CancelOperation ==
    /\ ctl.active /\ ctl.cancellable /\ ~ctl.cancelled
    /\ ctl' = [ctl EXCEPT !.cancelled = TRUE]
    /\ UNCHANGED <<disk, past, att, state, op, todo, req, kek, committed, nextGen, saved, faults>>

(* erase_local_data and start_fresh.  A reset of an identified source is    *)
(* refused by preflight before anything changes; a journal already there is *)
(* resumed instead.                                                         *)
Reset(after) ==
    /\ state \notin {"down", "Refused", "DamagedGen"}
    /\ after = "StartFresh" => state = "Damaged"
    /\ IF disk.setup # NoJournal
         THEN Start("reset", <<"recover">>)
         ELSE /\ nextGen <= MaxGen
              /\ Db.kind = "full"
              /\ PreflightSetup(disk, NewJournal(after, "RetireOld"))
              /\ Start("reset", <<"publish">>
                        \o RetireOld(NewJournal(after, "RetireOld")) \o <<"needs_setup">>)
    /\ state' = "Maintenance"
    /\ req' = [req EXCEPT !.after = after]
    /\ Unstarted

(* setup_store_choice; the host admits it while setup is needed. *)
Setup(mode) ==
    /\ state = "NeedsSetup"
    /\ Start("setup", <<"recover">>)
    /\ req' = [req EXCEPT !.mode = mode]
    /\ UNCHANGED state /\ Unstarted

(* A read, a write or a checkpoint reports corruption: admission closes and *)
(* the generation is quarantined.                                           *)
DetectDamage ==
    /\ state = "Open" /\ nextGen <= MaxGen
    /\ Start("quarantine", <<"quarantine", "damaged">>)
    /\ state' = "Damaged"
    /\ UNCHANGED req /\ Unstarted

(* authenticate_repair_password. *)
AuthenticateRepair ==
    /\ state = "Damaged" /\ Db.mode = "password" /\ ~kek
    /\ nextGen <= MaxGen \/ disk.setup # NoJournal
    /\ Start("quarantine", <<"quarantine", "authenticated">>)
    /\ UNCHANGED <<state, req>> /\ Unstarted

(* install_salvaged_replacement after its preview was confirmed. *)
Salvage ==
    /\ state = "Damaged" /\ (Db.mode = "password" => kek)
    /\ nextGen <= MaxGen \/ disk.setup # NoJournal
    /\ Start("salvage", InstallSalvaged)
    /\ UNCHANGED <<state, req>> /\ Unstarted

-----------------------------------------------------------------------------
(* The running operation on its own, with no failure. *)
Step ==
    \/ RootStep \/ ContentStep \/ VacuousStep \/ AttachmentStep
    \/ PassCheck \/ Seal \/ Intent \/ Freeze \/ Recover
    \/ BootPending \/ BootNone \/ SetupPending \/ SetupNone
    \/ ResetPending \/ ResetNone \/ NeedsSetup \/ Open \/ Settle
    \/ Conflict \/ Cancelled

Request ==
    \/ Unlock \/ DetectDamage \/ AuthenticateRepair \/ Salvage
    \/ \E r \in Rows : Save(r)
    \/ \E m \in Modes : Export(m) \/ Setup(m)
    \/ \E a \in {"Erase", "StartFresh"} : Reset(a)
    \/ CancelOperation

Next ==
    \/ Step \/ Request \/ Boot \/ Quit
    \/ IoFault \/ SyncFault \/ Crash \/ PowerLoss

Spec == Init /\ [][Next]_vars

(* The thread of a running operation is scheduled, a stopped host is        *)
(* started again, and one that refuses the store or stays in maintenance is *)
(* restarted, as local-store.md tells the user to do.                       *)
Restart == state \in {"Refused", "Maintenance"} /\ Quit

Fairness == WF_vars(Step) /\ WF_vars(Boot) /\ WF_vars(Restart)

FairSpec == Spec /\ Fairness

-----------------------------------------------------------------------------
(* Every acknowledged row whose loss nobody confirmed is in the store that  *)
(* a restart would install, whatever a power failure undoes, and so is the  *)
(* attachment tree of that store's generation.                              *)
SavedRowsSurvive ==
    \A d \in past \cup {disk} :
        /\ saved \subseteq Survivor(d).rows
        /\ saved # {} => Survivor(d).gen \in att

(* Three faults can strand the store: two failed synchronizations in a row, *)
(* then a power failure that undoes both renames.                           *)
Tolerable == faults <= 2

(* Work is admitted only when every earlier operation is retired: no        *)
(* staging, no retired source, no journal, and whatever a power failure     *)
(* undoes, the next start ends up with the directory that is written to.    *)
OpenIsRetired ==
    state = "Open" =>
        /\ disk.setup = NoJournal
        /\ \A n \in {"tmp", "new", "old"} : ~Present(disk.dir[n])
        /\ \A p \in past : Survivor(p) = Db

(* A finished reset leaves nothing of the source it was confirmed for.      *)
ResetErasesSource ==
    state = "NeedsSetup" /\ disk.setup # NoJournal =>
        /\ disk.setup.old \notin att
        /\ \A n \in Names : ReadGeneration(disk.dir[n]) # disk.setup.old

(* An accepted cancel is never followed by a commit of that operation.      *)
CancelIsHonoured == ctl.cancelled => ~committed

(* "A repeated setup after durable retirement is idempotent" (lifecycle.rs  *)
(* 827): one that finds its own choice installed ends with the store open.  *)
RepeatedSetupOpens ==
    [][op = "setup" /\ At("none") /\ Db.mode = req.mode /\ op' = "none"
         => state' = "Open"]_vars

(* No step of an operation waits for ever: deletions resumed halfway, the   *)
(* roll-back of an export and the replay of a journal all come to an end.   *)
OperationsEnd == op # "none" ~> op = "none"

(* Whatever was cut short, the store comes back to a state in which the     *)
(* user can work, unlock it, set it up or repair it.                        *)
StoreComesBack ==
    []<>(Tolerable => state \in {"Open", "Locked", "NeedsSetup", "Damaged"})
-----------------------------------------------------------------------------
Durable ==
    INSTANCE DurableStore WITH
        held <- Survivor(disk).rows,
        kept <- saved,
        undo <- {Survivor(p).rows : p \in past}

(* The directories, journals and recovery steps implement the promise of    *)
(* DurableStore: no internal step of any operation, and no recovery, moves  *)
(* a row in or out of what a restart finds, and only a confirmed loss makes *)
(* an acknowledged row go.                                                  *)
ImplementsDurableStore == Durable!Spec
=============================================================================
