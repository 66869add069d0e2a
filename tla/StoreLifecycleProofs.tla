------------------------ MODULE StoreLifecycleProofs ------------------------
(***************************************************************************)
(* What a restart finds, whatever is cut short: StoreLifecycle for any     *)
(* number of rows, generations, crashes, I/O errors, power failures and    *)
(* failed synchronizations, as long as the five synchronizations that make *)
(* a decision durable are not among the failed ones.  README.md says why   *)
(* that hypothesis is needed.  Cancellation needs no such hypothesis.      *)
(***************************************************************************)
EXTENDS StoreLifecycle, FiniteSetTheorems, TLAPS

(* The steps after which recovery chooses another directory: the first db,  *)
(* the journals that give the old store up, and the name that commits.      *)
Decisions == {"prepare", "publish", "supersede", "install_new", "commit"}

-----------------------------------------------------------------------------
(* What a root directory looks like, between any two steps.                 *)

NoJ(d) == d.setup = NoJournal
Current(d) == ReadGeneration(d.dir.db)
Installed(d) == ~NoJ(d) /\ Current(d) = d.setup.new
In(d, phase) == ~NoJ(d) /\ d.setup.phase = phase
Gone(d, n) == ~Present(d.dir[n])
Staging(d, gen) == d.dir.tmp.kind = "full" /\ d.dir.tmp.gen = gen

(* Names have directories of their own; only complete databases have rows;  *)
(* every identity was drawn before.                                         *)
Tidy(d, g) ==
    /\ \A n \in Names :
         /\ Gone(d, n) => d.dir[n] = Absent
         /\ Present(d.dir[n]) => d.dir[n].ino # 0
         /\ d.dir[n].kind # "full" => d.dir[n].rows = {}
         /\ d.dir[n].kind \in {"part", "bare", "full"} =>
              0 < d.dir[n].gen /\ d.dir[n].gen < g
    /\ \A m, n \in Names : m # n /\ Present(d.dir[m]) => d.dir[m].ino # d.dir[n].ino

(* preflight_setup holds of every root directory a crash or a power failure *)
(* can leave, so recovery of a journal never ends in a conflict.            *)
Journaled(d, g) ==
    ~NoJ(d) =>
        /\ 0 < d.setup.old /\ d.setup.old < d.setup.new /\ d.setup.new < g
        /\ PreflightSetup(d, d.setup)
        /\ Present(d.dir.new) => d.setup.phase = "InstallNew" /\ Gone(d, "tmp")
        /\ Installed(d) => d.setup.phase \in {"InstallNew", "Installed"}
        /\ d.setup.phase = "Installed" => Installed(d)

(* The store recovery would end up with is never a half-deleted one.        *)
Whole(d) ==
    /\ NoJ(d) /\ Present(d.dir.new) => d.dir.new.kind = "full"
    /\ Survivor(d).kind # "part"
    /\ Survivor(d).kind = "empty" => Survivor(d).mode = "plain"

Shape(d, g) == d \in Disks /\ Tidy(d, g) /\ Journaled(d, g) /\ Whole(d)

(* A root directory p that a power failure may bring back leads recovery to *)
(* the same store as d, shows the same contents under its names, and knows  *)
(* the directory being staged only as staging of the same replacement.      *)
Behind(p, d) ==
    /\ Survivor(p) = Survivor(d)
    /\ \A m, n \in Names :
         Present(d.dir[n]) /\ p.dir[m].ino = d.dir[n].ino => p.dir[m] = d.dir[n] /\ (n = "tmp" => m = "tmp")
    /\ Present(d.dir.tmp) /\ p.dir.tmp.ino = d.dir.tmp.ino /\ ~NoJ(p) =>
         ~NoJ(d) /\ p.setup.new = d.setup.new

Rooted ==
    /\ Shape(disk, nextGen)
    /\ IsFiniteSet(past) /\ \A p \in past : Shape(p, nextGen) /\ Behind(p, disk)

(* SavedRowsSurvive, of the root directory itself. *)
Kept ==
    /\ saved \subseteq Survivor(disk).rows
    /\ saved # {} => Survivor(disk).gen \in att

-----------------------------------------------------------------------------
(* The running operation: which program it is in, by the number of steps    *)
(* left, and what the steps before established.                             *)

Left == Len(todo)

Ends(P) == Left \in 1..Len(P) /\ \A i \in 1..Left : todo[i] = P[Len(P) - Left + i]

Recovering == {"boot", "setup", "reset"}

Retired == NoJ(disk) /\ Gone(disk, "tmp") /\ Gone(disk, "new") /\ Gone(disk, "old")

(* The last nine steps of every installation under a journal: commit,       *)
(* InstallCommitted, FinishSetup and the result.                            *)
Replacing(n) ==
    /\ n \in {9, 10} => In(disk, "InstallNew") /\ ~Installed(disk) /\ Gone(disk, "new")
    /\ n \in {7, 8} => In(disk, "InstallNew") /\ Present(disk.dir.new)
    /\ n \in 2..6 => Installed(disk)
    /\ n \in {2, 3} => Gone(disk, "old")
    /\ n = 2 => In(disk, "Installed")
    /\ n = 1 => Retired /\ Db.kind = "full"

(* The programs that have no name in StoreLifecycle. *)
BootSteps == <<"prepare", "recover">>
ResumeSteps == <<"retire_db", "commit">> \o InstallCommitted \o FinishSetup \o <<"none">>
ResumeNewSteps == <<"retire_db">> \o InstallCommitted \o FinishSetup \o <<"none">>
RollbackSteps == <<"discard", "name", "open">>
CleanupSteps == <<"discard", "att_new", "damaged">>
OpenSteps == <<"create", "name", "open">>
PublishSteps == <<"publish", "retire_db", "att_old", "drop_old", "await", "needs_setup">>
SupersedeSteps == <<"supersede", "retire_db", "att_old", "drop_old", "await", "needs_setup">>
ResetSteps == <<"retire_db", "att_old", "drop_old", "needs_setup">>
RetireSteps == <<"retire_db", "att_old", "drop_old", "await", "discard", "pending">>
RetiredSteps == <<"retire_db", "att_old", "drop_old", "discard", "pending">>
CleanseSteps == <<"discard", "att_new", "pending">>
SwapSteps == <<"discard", "swap_old", "swap_new", "drop_old", "none">>
DropSteps == <<"discard", "drop_old", "none">>
DiscardSteps == <<"discard", "none">>
DamageSteps == <<"quarantine", "damaged">>
RepairSteps == <<"quarantine", "authenticated">>

Boots ==
    /\ op \in Recovering
    /\ Ends(BootSteps)
    /\ Left = 2 => op = "boot" /\ state = "Maintenance"
    /\ Left = 1 /\ NoJ(disk) => Present(Db) /\ (op # "boot" => Retired /\ Db.kind = "full")
    /\ op = "reset" => state = "Maintenance"

Conflicts == op \in Recovering /\ At("conflict")

Resumes ==
    /\ op \in Recovering
    /\ Ends(ResumeSteps)
    /\ Replacing(Left)

ResumesNew ==
    /\ op \in Recovering
    /\ Ends(ResumeNewSteps)
    /\ IF Left = 9 THEN Replacing(8) ELSE Replacing(Left)

SetsUp ==
    /\ op \in Recovering
    /\ Ends(CompleteSetup)
    /\ Left >= 10 => In(disk, "AwaitChoice")
    /\ Left = 13 => Gone(disk, "tmp")
    /\ Left = 12 => disk.dir.tmp.kind = "empty"
    /\ Left = 11 => disk.dir.tmp.kind = "part" /\ disk.dir.tmp.gen = disk.setup.new
    /\ Left = 10 => Staging(disk, disk.setup.new) /\ disk.dir.tmp.rows = {}
    /\ Left < 10 => Replacing(Left)

Salvages ==
    /\ op = "salvage"
    /\ Ends(InstallSalvaged)
    /\ IF Left >= 23 THEN state = "Damaged" ELSE state = "Maintenance"
    /\ Left \in 11..23 => In(disk, "BuildReplacement")
    /\ Left = 20 => Gone(disk, "tmp")
    /\ Left = 19 => disk.dir.tmp.kind = "empty"
    /\ Left = 18 => disk.dir.tmp.kind = "part" /\ disk.dir.tmp.gen = disk.setup.new
    /\ Left \in 11..17 => Staging(disk, disk.setup.new) /\ disk.dir.tmp.rows \subseteq Db.rows
    /\ Left \in 11..15 => (disk.setup.old \in att /\ disk.dir.tmp.rows # {} => disk.setup.new \in att)
    /\ (committed <=> Left < 12)
    /\ Left <= 13 => ~ctl.cancellable
    /\ Left <= 12 => ~ctl.cancelled
    /\ Left <= 10 => Replacing(Left)

Exports ==
    /\ op = "export" /\ state = "Maintenance"
    /\ Ends(ExportSwap)
    /\ NoJ(disk)
    /\ Left >= 5 => Gone(disk, "new") /\ Gone(disk, "old") /\ Db.kind = "full"
    /\ Left = 12 => Gone(disk, "tmp")
    /\ Left = 11 => disk.dir.tmp.kind = "empty"
    /\ Left = 10 => disk.dir.tmp.kind = "part" /\ disk.dir.tmp.gen = Db.gen
    /\ Left \in 5..9 => Staging(disk, Db.gen) /\ disk.dir.tmp.rows = Db.rows
    /\ Left \in {3, 4} => Present(disk.dir.new)
    /\ Left <= 4 => Gone(disk, "tmp")
    /\ Left <= 2 => Gone(disk, "new") /\ Db.kind = "full"
    /\ Left = 1 => Gone(disk, "old")
    /\ (committed <=> Left < 5)
    /\ Left <= 6 => ~ctl.cancellable
    /\ Left <= 5 => ~ctl.cancelled

RollsBack ==
    /\ op = "rollback" /\ state = "Maintenance"
    /\ Ends(RollbackSteps)
    /\ NoJ(disk) /\ Gone(disk, "new") /\ Gone(disk, "old") /\ Db.kind = "full"
    /\ Left <= 2 => Gone(disk, "tmp")

CleansUp ==
    /\ op = "cleanup" /\ state = "Maintenance"
    /\ Ends(CleanupSteps)
    /\ In(disk, "BuildReplacement")

Quarantines ==
    /\ op = "quarantine" /\ state = "Damaged"
    /\ Ends(DamageSteps) \/ Ends(RepairSteps)

Opens ==
    /\ op \in Recovering \cup {"unlock"}
    /\ Ends(OpenSteps)
    /\ Retired /\ Present(Db)
    /\ Left <= 2 => Db.kind \in {"bare", "full"}
    /\ Left = 1 => Db.kind = "full"

(* The source of a reset is given up: its directory has left db, then its   *)
(* attachments are gone, then db.old is.                                    *)
Erasing(n) ==
    /\ n <= 2 => Gone(disk, "db")
    /\ n <= 1 => disk.setup.old \notin att
    /\ n <= 0 => Gone(disk, "old")

Resets ==
    /\ op = "reset" /\ state = "Maintenance"
    /\ \/ /\ Ends(PublishSteps)
          /\ Left = 6 => NoJ(disk) /\ Db.kind = "full"
       \/ /\ Ends(SupersedeSteps)
          /\ Left = 6 => In(disk, "BuildReplacement")
    /\ Left \in 2..5 => In(disk, "RetireOld")
    /\ Left = 1 => In(disk, "AwaitChoice")
    /\ Erasing(Left - 2)

ResetsAgain ==
    /\ op = "reset" /\ state = "Maintenance"
    /\ Ends(ResetSteps)
    /\ In(disk, "AwaitChoice")
    /\ Erasing(Left - 1)

Retires ==
    /\ op \in Recovering /\ (op = "reset" => state = "Maintenance")
    /\ Ends(RetireSteps)
    /\ IF Left >= 3 THEN In(disk, "RetireOld") ELSE In(disk, "AwaitChoice")
    /\ Erasing(Left - 3)

RetiresAgain ==
    /\ op \in Recovering /\ (op = "reset" => state = "Maintenance")
    /\ Ends(RetiredSteps)
    /\ In(disk, "AwaitChoice")
    /\ Erasing(Left - 2)

Cleanses ==
    /\ op \in Recovering /\ (op = "reset" => state = "Maintenance")
    /\ Ends(CleanseSteps)
    /\ In(disk, "BuildReplacement")

(* Recovery without a journal. *)
SwapsIn ==
    /\ op = "boot"
    /\ Ends(SwapSteps)
    /\ NoJ(disk)
    /\ Left >= 3 => Present(disk.dir.new)
    /\ Left <= 4 => Gone(disk, "tmp")
    /\ Left <= 2 => Gone(disk, "new") /\ Present(Db)
    /\ Left = 1 => Gone(disk, "old")

DropsOld ==
    /\ op \in Recovering
    /\ Ends(DropSteps) \/ (Ends(DiscardSteps) /\ Gone(disk, "old"))
    /\ NoJ(disk) /\ Gone(disk, "new") /\ Present(Db) /\ (op # "boot" => Db.kind = "full")
    /\ Left = 1 => Gone(disk, "old")
    /\ ~At("discard") => Gone(disk, "tmp")

Running ==
    todo # <<>> =>
        \/ Boots \/ Conflicts \/ Resumes \/ ResumesNew \/ SetsUp \/ Salvages \/ Exports
        \/ RollsBack \/ CleansUp \/ Quarantines \/ Opens \/ Resets \/ ResetsAgain
        \/ Retires \/ RetiresAgain \/ Cleanses \/ SwapsIn \/ DropsOld

(* Nothing of the source is left. *)
Erased ==
    /\ disk.setup.old \notin att
    /\ \A n \in Names : ReadGeneration(disk.dir[n]) # disk.setup.old

(* What a setup finds: an erased source, or its own result. *)
AwaitsSetup == IF NoJ(disk) THEN Retired /\ Db.kind = "full" ELSE Erased

(* What the state of the store says of the disk. *)
Stated ==
    /\ state = "Open" => todo = <<>> /\ Retired /\ Db.kind = "full"
    /\ state = "Locked" => todo = <<>> /\ ((Retired /\ Db.kind \in {"bare", "full"})
                                             \/ In(disk, "BuildReplacement"))
    /\ state = "NeedsSetup" => AwaitsSetup
    /\ state = "down" => todo = <<>>

Cancellation == committed => todo # <<>> /\ ~ctl.cancelled /\ ~ctl.cancellable

Types ==
    /\ att \subseteq Nat /\ state \in States /\ op \in Ops /\ todo \in Seq(Steps)
    /\ req \in [mode : Modes, after : {"Erase", "StartFresh"}]
    /\ kek \in BOOLEAN /\ committed \in BOOLEAN
    /\ ctl \in [active : BOOLEAN, cancellable : BOOLEAN, cancelled : BOOLEAN]
    /\ nextGen \in Nat \ {0} /\ saved \subseteq Rows /\ faults \in Nat

IInv == Types /\ Rooted /\ Kept /\ Running /\ Stated /\ Cancellation

-----------------------------------------------------------------------------
(* Programs and positions. *)

LEMMA EndsHead ==
    ASSUME NEW P, Len(P) \in Nat, todo \in Seq(Steps), Ends(P)
    PROVE  /\ Left \in 1..Len(P) /\ todo # <<>>
           /\ \A k \in 1..Len(P) : Left + k = Len(P) + 1 => Head(todo) = P[k]
<1>1. Left \in 1..Len(P) /\ Left \in Nat /\ todo # <<>>
  BY DEF Ends, Left
<1>2. Head(todo) = todo[1] /\ todo[1] = P[Len(P) - Left + 1]
  BY <1>1 DEF Ends, Left
<1>3. ASSUME NEW k \in 1..Len(P), Left + k = Len(P) + 1 PROVE Len(P) - Left + 1 = k
  BY <1>1, <1>3
<1> QED BY <1>1, <1>2, <1>3

(* Taking a step leaves the rest of the same program. *)
LEMMA EndsTail ==
    ASSUME NEW P, Len(P) \in Nat, todo \in Seq(Steps), Ends(P), todo' = Tail(todo)
    PROVE  Left' = Left - 1 /\ (todo' # <<>> => Ends(P)')
<1>1. Left \in 1..Len(P) /\ Left \in Nat /\ todo # <<>>
  BY DEF Ends, Left
<1>2. /\ Tail(todo) \in Seq(Steps) /\ Len(Tail(todo)) = Left - 1
      /\ \A i \in 1..Len(Tail(todo)) : Tail(todo)[i] = todo[i + 1]
  BY <1>1 DEF Left
<1>3. Left' = Left - 1
  BY <1>2 DEF Left
<1>4. ASSUME todo' # <<>> PROVE Ends(P)'
  <2>1. Left' \in 1..Len(P)
    BY <1>1, <1>2, <1>3, <1>4
  <2>2. ASSUME NEW i \in 1..Left' PROVE todo'[i] = P[Len(P) - Left' + i]
    <3>1. i \in 1..Len(Tail(todo)) /\ i + 1 \in 1..Left
      BY <1>1, <1>2, <1>3
    <3>2. todo[i + 1] = P[Len(P) - Left + (i + 1)]
      BY <3>1 DEF Ends
    <3>3. Len(P) - Left + (i + 1) = Len(P) - Left' + i
      BY <1>1, <1>3, <3>1
    <3> QED BY <3>1, <3>2, <3>3, <1>2
  <2> QED BY <2>1, <2>2 DEF Ends
<1> QED BY <1>3, <1>4

LEMMA BootStepsAt ==
    ASSUME todo \in Seq(Steps), Ends(BootSteps)
    PROVE  /\ Len(BootSteps) \in Nat
           /\ (Left = 2 /\ At("prepare")) \/ (Left = 1 /\ At("recover"))
<1>1. Len(BootSteps) = 2
  BY DEF BootSteps
<1>2. /\ BootSteps[1] = "prepare" /\ BootSteps[2] = "recover"
  BY DEF BootSteps
<1> Len(BootSteps) \in Nat
  BY <1>1
<1>3. Left \in 1..Len(BootSteps) /\ todo # <<>>
      /\ \A k \in 1..Len(BootSteps) : Left + k = Len(BootSteps) + 1 => Head(todo) = BootSteps[k]
  BY EndsHead
<1>4. /\ Left = 2 => Head(todo) = BootSteps[1]
      /\ Left = 1 => Head(todo) = BootSteps[2]
  BY <1>1, <1>3
<1> QED BY <1>1, <1>2, <1>3, <1>4 DEF At

LEMMA ResumeStepsAt ==
    ASSUME todo \in Seq(Steps), Ends(ResumeSteps)
    PROVE  /\ Len(ResumeSteps) \in Nat
           /\ (Left = 10 /\ At("retire_db")) \/ (Left = 9 /\ At("commit")) \/
              (Left = 8 /\ At("swap_old")) \/ (Left = 7 /\ At("swap_new")) \/
              (Left = 6 /\ At("drop_old")) \/ (Left = 5 /\ At("att_old")) \/
              (Left = 4 /\ At("drop_old")) \/ (Left = 3 /\ At("mark")) \/
              (Left = 2 /\ At("unmark")) \/ (Left = 1 /\ At("none"))
<1>1. Len(ResumeSteps) = 10
  BY DEF ResumeSteps, InstallCommitted, FinishSetup
<1>2. /\ ResumeSteps[1] = "retire_db" /\ ResumeSteps[2] = "commit"
      /\ ResumeSteps[3] = "swap_old" /\ ResumeSteps[4] = "swap_new"
      /\ ResumeSteps[5] = "drop_old" /\ ResumeSteps[6] = "att_old"
      /\ ResumeSteps[7] = "drop_old" /\ ResumeSteps[8] = "mark"
      /\ ResumeSteps[9] = "unmark" /\ ResumeSteps[10] = "none"
  BY DEF ResumeSteps, InstallCommitted, FinishSetup
<1> Len(ResumeSteps) \in Nat
  BY <1>1
<1>3. Left \in 1..Len(ResumeSteps) /\ todo # <<>>
      /\ \A k \in 1..Len(ResumeSteps) : Left + k = Len(ResumeSteps) + 1 => Head(todo) = ResumeSteps[k]
  BY EndsHead
<1>4. /\ Left = 10 => Head(todo) = ResumeSteps[1]
      /\ Left = 9 => Head(todo) = ResumeSteps[2]
      /\ Left = 8 => Head(todo) = ResumeSteps[3]
      /\ Left = 7 => Head(todo) = ResumeSteps[4]
      /\ Left = 6 => Head(todo) = ResumeSteps[5]
      /\ Left = 5 => Head(todo) = ResumeSteps[6]
      /\ Left = 4 => Head(todo) = ResumeSteps[7]
      /\ Left = 3 => Head(todo) = ResumeSteps[8]
      /\ Left = 2 => Head(todo) = ResumeSteps[9]
      /\ Left = 1 => Head(todo) = ResumeSteps[10]
  BY <1>1, <1>3
<1> QED BY <1>1, <1>2, <1>3, <1>4 DEF At

LEMMA ResumeNewStepsAt ==
    ASSUME todo \in Seq(Steps), Ends(ResumeNewSteps)
    PROVE  /\ Len(ResumeNewSteps) \in Nat
           /\ (Left = 9 /\ At("retire_db")) \/ (Left = 8 /\ At("swap_old")) \/
              (Left = 7 /\ At("swap_new")) \/ (Left = 6 /\ At("drop_old")) \/
              (Left = 5 /\ At("att_old")) \/ (Left = 4 /\ At("drop_old")) \/
              (Left = 3 /\ At("mark")) \/ (Left = 2 /\ At("unmark")) \/
              (Left = 1 /\ At("none"))
<1>1. Len(ResumeNewSteps) = 9
  BY DEF ResumeNewSteps, InstallCommitted, FinishSetup
<1>2. /\ ResumeNewSteps[1] = "retire_db" /\ ResumeNewSteps[2] = "swap_old"
      /\ ResumeNewSteps[3] = "swap_new" /\ ResumeNewSteps[4] = "drop_old"
      /\ ResumeNewSteps[5] = "att_old" /\ ResumeNewSteps[6] = "drop_old"
      /\ ResumeNewSteps[7] = "mark" /\ ResumeNewSteps[8] = "unmark"
      /\ ResumeNewSteps[9] = "none"
  BY DEF ResumeNewSteps, InstallCommitted, FinishSetup
<1> Len(ResumeNewSteps) \in Nat
  BY <1>1
<1>3. Left \in 1..Len(ResumeNewSteps) /\ todo # <<>>
      /\ \A k \in 1..Len(ResumeNewSteps) : Left + k = Len(ResumeNewSteps) + 1 => Head(todo) = ResumeNewSteps[k]
  BY EndsHead
<1>4. /\ Left = 9 => Head(todo) = ResumeNewSteps[1]
      /\ Left = 8 => Head(todo) = ResumeNewSteps[2]
      /\ Left = 7 => Head(todo) = ResumeNewSteps[3]
      /\ Left = 6 => Head(todo) = ResumeNewSteps[4]
      /\ Left = 5 => Head(todo) = ResumeNewSteps[5]
      /\ Left = 4 => Head(todo) = ResumeNewSteps[6]
      /\ Left = 3 => Head(todo) = ResumeNewSteps[7]
      /\ Left = 2 => Head(todo) = ResumeNewSteps[8]
      /\ Left = 1 => Head(todo) = ResumeNewSteps[9]
  BY <1>1, <1>3
<1> QED BY <1>1, <1>2, <1>3, <1>4 DEF At

LEMMA CompleteSetupAt ==
    ASSUME todo \in Seq(Steps), Ends(CompleteSetup)
    PROVE  /\ Len(CompleteSetup) \in Nat
           /\ (Left = 14 /\ At("discard")) \/ (Left = 13 /\ At("mktmp")) \/
              (Left = 12 /\ At("tag")) \/ (Left = 11 /\ At("fill")) \/
              (Left = 10 /\ At("install_new")) \/ (Left = 9 /\ At("commit")) \/
              (Left = 8 /\ At("swap_old")) \/ (Left = 7 /\ At("swap_new")) \/
              (Left = 6 /\ At("drop_old")) \/ (Left = 5 /\ At("att_old")) \/
              (Left = 4 /\ At("drop_old")) \/ (Left = 3 /\ At("mark")) \/
              (Left = 2 /\ At("unmark")) \/ (Left = 1 /\ At("open"))
<1>1. Len(CompleteSetup) = 14
  BY DEF CompleteSetup, InstallCommitted, FinishSetup
<1>2. /\ CompleteSetup[1] = "discard" /\ CompleteSetup[2] = "mktmp"
      /\ CompleteSetup[3] = "tag" /\ CompleteSetup[4] = "fill"
      /\ CompleteSetup[5] = "install_new" /\ CompleteSetup[6] = "commit"
      /\ CompleteSetup[7] = "swap_old" /\ CompleteSetup[8] = "swap_new"
      /\ CompleteSetup[9] = "drop_old" /\ CompleteSetup[10] = "att_old"
      /\ CompleteSetup[11] = "drop_old" /\ CompleteSetup[12] = "mark"
      /\ CompleteSetup[13] = "unmark" /\ CompleteSetup[14] = "open"
  BY DEF CompleteSetup, InstallCommitted, FinishSetup
<1> Len(CompleteSetup) \in Nat
  BY <1>1
<1>3. Left \in 1..Len(CompleteSetup) /\ todo # <<>>
      /\ \A k \in 1..Len(CompleteSetup) : Left + k = Len(CompleteSetup) + 1 => Head(todo) = CompleteSetup[k]
  BY EndsHead
<1>4. /\ Left = 14 => Head(todo) = CompleteSetup[1]
      /\ Left = 13 => Head(todo) = CompleteSetup[2]
      /\ Left = 12 => Head(todo) = CompleteSetup[3]
      /\ Left = 11 => Head(todo) = CompleteSetup[4]
      /\ Left = 10 => Head(todo) = CompleteSetup[5]
      /\ Left = 9 => Head(todo) = CompleteSetup[6]
      /\ Left = 8 => Head(todo) = CompleteSetup[7]
      /\ Left = 7 => Head(todo) = CompleteSetup[8]
      /\ Left = 6 => Head(todo) = CompleteSetup[9]
      /\ Left = 5 => Head(todo) = CompleteSetup[10]
      /\ Left = 4 => Head(todo) = CompleteSetup[11]
      /\ Left = 3 => Head(todo) = CompleteSetup[12]
      /\ Left = 2 => Head(todo) = CompleteSetup[13]
      /\ Left = 1 => Head(todo) = CompleteSetup[14]
  BY <1>1, <1>3
<1> QED BY <1>1, <1>2, <1>3, <1>4 DEF At

LEMMA InstallSalvagedAt ==
    ASSUME todo \in Seq(Steps), Ends(InstallSalvaged)
    PROVE  /\ Len(InstallSalvaged) \in Nat
           /\ (Left = 24 /\ At("quarantine")) \/ (Left = 23 /\ At("freeze")) \/
              (Left = 22 /\ At("check")) \/ (Left = 21 /\ At("discard")) \/
              (Left = 20 /\ At("mktmp")) \/ (Left = 19 /\ At("tag")) \/
              (Left = 18 /\ At("fill")) \/ (Left = 17 /\ At("check")) \/
              (Left = 16 /\ At("att_copy")) \/ (Left = 15 /\ At("check")) \/
              (Left = 14 /\ At("seal")) \/ (Left = 13 /\ At("check")) \/
              (Left = 12 /\ At("intent")) \/ (Left = 11 /\ At("install_new")) \/
              (Left = 10 /\ At("retire_db")) \/ (Left = 9 /\ At("commit")) \/
              (Left = 8 /\ At("swap_old")) \/ (Left = 7 /\ At("swap_new")) \/
              (Left = 6 /\ At("drop_old")) \/ (Left = 5 /\ At("att_old")) \/
              (Left = 4 /\ At("drop_old")) \/ (Left = 3 /\ At("mark")) \/
              (Left = 2 /\ At("unmark")) \/ (Left = 1 /\ At("open"))
<1>1. Len(InstallSalvaged) = 24
  BY DEF InstallSalvaged, InstallCommitted, FinishSetup
<1>2. /\ InstallSalvaged[1] = "quarantine" /\ InstallSalvaged[2] = "freeze"
      /\ InstallSalvaged[3] = "check" /\ InstallSalvaged[4] = "discard"
      /\ InstallSalvaged[5] = "mktmp" /\ InstallSalvaged[6] = "tag"
      /\ InstallSalvaged[7] = "fill" /\ InstallSalvaged[8] = "check"
      /\ InstallSalvaged[9] = "att_copy" /\ InstallSalvaged[10] = "check"
      /\ InstallSalvaged[11] = "seal" /\ InstallSalvaged[12] = "check"
      /\ InstallSalvaged[13] = "intent" /\ InstallSalvaged[14] = "install_new"
      /\ InstallSalvaged[15] = "retire_db" /\ InstallSalvaged[16] = "commit"
      /\ InstallSalvaged[17] = "swap_old" /\ InstallSalvaged[18] = "swap_new"
      /\ InstallSalvaged[19] = "drop_old" /\ InstallSalvaged[20] = "att_old"
      /\ InstallSalvaged[21] = "drop_old" /\ InstallSalvaged[22] = "mark"
      /\ InstallSalvaged[23] = "unmark" /\ InstallSalvaged[24] = "open"
  BY DEF InstallSalvaged, InstallCommitted, FinishSetup
<1> Len(InstallSalvaged) \in Nat
  BY <1>1
<1>3. Left \in 1..Len(InstallSalvaged) /\ todo # <<>>
      /\ \A k \in 1..Len(InstallSalvaged) : Left + k = Len(InstallSalvaged) + 1 => Head(todo) = InstallSalvaged[k]
  BY EndsHead
<1>4. /\ Left = 24 => Head(todo) = InstallSalvaged[1]
      /\ Left = 23 => Head(todo) = InstallSalvaged[2]
      /\ Left = 22 => Head(todo) = InstallSalvaged[3]
      /\ Left = 21 => Head(todo) = InstallSalvaged[4]
      /\ Left = 20 => Head(todo) = InstallSalvaged[5]
      /\ Left = 19 => Head(todo) = InstallSalvaged[6]
      /\ Left = 18 => Head(todo) = InstallSalvaged[7]
      /\ Left = 17 => Head(todo) = InstallSalvaged[8]
      /\ Left = 16 => Head(todo) = InstallSalvaged[9]
      /\ Left = 15 => Head(todo) = InstallSalvaged[10]
      /\ Left = 14 => Head(todo) = InstallSalvaged[11]
      /\ Left = 13 => Head(todo) = InstallSalvaged[12]
      /\ Left = 12 => Head(todo) = InstallSalvaged[13]
      /\ Left = 11 => Head(todo) = InstallSalvaged[14]
      /\ Left = 10 => Head(todo) = InstallSalvaged[15]
      /\ Left = 9 => Head(todo) = InstallSalvaged[16]
      /\ Left = 8 => Head(todo) = InstallSalvaged[17]
      /\ Left = 7 => Head(todo) = InstallSalvaged[18]
      /\ Left = 6 => Head(todo) = InstallSalvaged[19]
      /\ Left = 5 => Head(todo) = InstallSalvaged[20]
      /\ Left = 4 => Head(todo) = InstallSalvaged[21]
      /\ Left = 3 => Head(todo) = InstallSalvaged[22]
      /\ Left = 2 => Head(todo) = InstallSalvaged[23]
      /\ Left = 1 => Head(todo) = InstallSalvaged[24]
  BY <1>1, <1>3
<1> QED BY <1>1, <1>2, <1>3, <1>4 DEF At

LEMMA ExportSwapAt ==
    ASSUME todo \in Seq(Steps), Ends(ExportSwap)
    PROVE  /\ Len(ExportSwap) \in Nat
           /\ (Left = 14 /\ At("check")) \/ (Left = 13 /\ At("fresh")) \/
              (Left = 12 /\ At("mktmp")) \/ (Left = 11 /\ At("tag")) \/
              (Left = 10 /\ At("fill")) \/ (Left = 9 /\ At("check")) \/
              (Left = 8 /\ At("check")) \/ (Left = 7 /\ At("seal")) \/
              (Left = 6 /\ At("check")) \/ (Left = 5 /\ At("commit")) \/
              (Left = 4 /\ At("swap_old")) \/ (Left = 3 /\ At("swap_new")) \/
              (Left = 2 /\ At("drop_old")) \/ (Left = 1 /\ At("open"))
<1>1. Len(ExportSwap) = 14
  BY DEF ExportSwap, InstallCommitted
<1>2. /\ ExportSwap[1] = "check" /\ ExportSwap[2] = "fresh" /\ ExportSwap[3] = "mktmp"
      /\ ExportSwap[4] = "tag" /\ ExportSwap[5] = "fill" /\ ExportSwap[6] = "check"
      /\ ExportSwap[7] = "check" /\ ExportSwap[8] = "seal" /\ ExportSwap[9] = "check"
      /\ ExportSwap[10] = "commit" /\ ExportSwap[11] = "swap_old"
      /\ ExportSwap[12] = "swap_new" /\ ExportSwap[13] = "drop_old"
      /\ ExportSwap[14] = "open"
  BY DEF ExportSwap, InstallCommitted
<1> Len(ExportSwap) \in Nat
  BY <1>1
<1>3. Left \in 1..Len(ExportSwap) /\ todo # <<>>
      /\ \A k \in 1..Len(ExportSwap) : Left + k = Len(ExportSwap) + 1 => Head(todo) = ExportSwap[k]
  BY EndsHead
<1>4. /\ Left = 14 => Head(todo) = ExportSwap[1]
      /\ Left = 13 => Head(todo) = ExportSwap[2]
      /\ Left = 12 => Head(todo) = ExportSwap[3]
      /\ Left = 11 => Head(todo) = ExportSwap[4]
      /\ Left = 10 => Head(todo) = ExportSwap[5]
      /\ Left = 9 => Head(todo) = ExportSwap[6]
      /\ Left = 8 => Head(todo) = ExportSwap[7]
      /\ Left = 7 => Head(todo) = ExportSwap[8]
      /\ Left = 6 => Head(todo) = ExportSwap[9]
      /\ Left = 5 => Head(todo) = ExportSwap[10]
      /\ Left = 4 => Head(todo) = ExportSwap[11]
      /\ Left = 3 => Head(todo) = ExportSwap[12]
      /\ Left = 2 => Head(todo) = ExportSwap[13]
      /\ Left = 1 => Head(todo) = ExportSwap[14]
  BY <1>1, <1>3
<1> QED BY <1>1, <1>2, <1>3, <1>4 DEF At

LEMMA RollbackStepsAt ==
    ASSUME todo \in Seq(Steps), Ends(RollbackSteps)
    PROVE  /\ Len(RollbackSteps) \in Nat
           /\ (Left = 3 /\ At("discard")) \/ (Left = 2 /\ At("name")) \/
              (Left = 1 /\ At("open"))
<1>1. Len(RollbackSteps) = 3
  BY DEF RollbackSteps
<1>2. /\ RollbackSteps[1] = "discard" /\ RollbackSteps[2] = "name"
      /\ RollbackSteps[3] = "open"
  BY DEF RollbackSteps
<1> Len(RollbackSteps) \in Nat
  BY <1>1
<1>3. Left \in 1..Len(RollbackSteps) /\ todo # <<>>
      /\ \A k \in 1..Len(RollbackSteps) : Left + k = Len(RollbackSteps) + 1 => Head(todo) = RollbackSteps[k]
  BY EndsHead
<1>4. /\ Left = 3 => Head(todo) = RollbackSteps[1]
      /\ Left = 2 => Head(todo) = RollbackSteps[2]
      /\ Left = 1 => Head(todo) = RollbackSteps[3]
  BY <1>1, <1>3
<1> QED BY <1>1, <1>2, <1>3, <1>4 DEF At

LEMMA CleanupStepsAt ==
    ASSUME todo \in Seq(Steps), Ends(CleanupSteps)
    PROVE  /\ Len(CleanupSteps) \in Nat
           /\ (Left = 3 /\ At("discard")) \/ (Left = 2 /\ At("att_new")) \/
              (Left = 1 /\ At("damaged"))
<1>1. Len(CleanupSteps) = 3
  BY DEF CleanupSteps
<1>2. /\ CleanupSteps[1] = "discard" /\ CleanupSteps[2] = "att_new"
      /\ CleanupSteps[3] = "damaged"
  BY DEF CleanupSteps
<1> Len(CleanupSteps) \in Nat
  BY <1>1
<1>3. Left \in 1..Len(CleanupSteps) /\ todo # <<>>
      /\ \A k \in 1..Len(CleanupSteps) : Left + k = Len(CleanupSteps) + 1 => Head(todo) = CleanupSteps[k]
  BY EndsHead
<1>4. /\ Left = 3 => Head(todo) = CleanupSteps[1]
      /\ Left = 2 => Head(todo) = CleanupSteps[2]
      /\ Left = 1 => Head(todo) = CleanupSteps[3]
  BY <1>1, <1>3
<1> QED BY <1>1, <1>2, <1>3, <1>4 DEF At

LEMMA OpenStepsAt ==
    ASSUME todo \in Seq(Steps), Ends(OpenSteps)
    PROVE  /\ Len(OpenSteps) \in Nat
           /\ (Left = 3 /\ At("create")) \/ (Left = 2 /\ At("name")) \/
              (Left = 1 /\ At("open"))
<1>1. Len(OpenSteps) = 3
  BY DEF OpenSteps
<1>2. /\ OpenSteps[1] = "create" /\ OpenSteps[2] = "name" /\ OpenSteps[3] = "open"
  BY DEF OpenSteps
<1> Len(OpenSteps) \in Nat
  BY <1>1
<1>3. Left \in 1..Len(OpenSteps) /\ todo # <<>>
      /\ \A k \in 1..Len(OpenSteps) : Left + k = Len(OpenSteps) + 1 => Head(todo) = OpenSteps[k]
  BY EndsHead
<1>4. /\ Left = 3 => Head(todo) = OpenSteps[1]
      /\ Left = 2 => Head(todo) = OpenSteps[2]
      /\ Left = 1 => Head(todo) = OpenSteps[3]
  BY <1>1, <1>3
<1> QED BY <1>1, <1>2, <1>3, <1>4 DEF At

LEMMA PublishStepsAt ==
    ASSUME todo \in Seq(Steps), Ends(PublishSteps)
    PROVE  /\ Len(PublishSteps) \in Nat
           /\ (Left = 6 /\ At("publish")) \/ (Left = 5 /\ At("retire_db")) \/
              (Left = 4 /\ At("att_old")) \/ (Left = 3 /\ At("drop_old")) \/
              (Left = 2 /\ At("await")) \/ (Left = 1 /\ At("needs_setup"))
<1>1. Len(PublishSteps) = 6
  BY DEF PublishSteps
<1>2. /\ PublishSteps[1] = "publish" /\ PublishSteps[2] = "retire_db"
      /\ PublishSteps[3] = "att_old" /\ PublishSteps[4] = "drop_old"
      /\ PublishSteps[5] = "await" /\ PublishSteps[6] = "needs_setup"
  BY DEF PublishSteps
<1> Len(PublishSteps) \in Nat
  BY <1>1
<1>3. Left \in 1..Len(PublishSteps) /\ todo # <<>>
      /\ \A k \in 1..Len(PublishSteps) : Left + k = Len(PublishSteps) + 1 => Head(todo) = PublishSteps[k]
  BY EndsHead
<1>4. /\ Left = 6 => Head(todo) = PublishSteps[1]
      /\ Left = 5 => Head(todo) = PublishSteps[2]
      /\ Left = 4 => Head(todo) = PublishSteps[3]
      /\ Left = 3 => Head(todo) = PublishSteps[4]
      /\ Left = 2 => Head(todo) = PublishSteps[5]
      /\ Left = 1 => Head(todo) = PublishSteps[6]
  BY <1>1, <1>3
<1> QED BY <1>1, <1>2, <1>3, <1>4 DEF At

LEMMA SupersedeStepsAt ==
    ASSUME todo \in Seq(Steps), Ends(SupersedeSteps)
    PROVE  /\ Len(SupersedeSteps) \in Nat
           /\ (Left = 6 /\ At("supersede")) \/ (Left = 5 /\ At("retire_db")) \/
              (Left = 4 /\ At("att_old")) \/ (Left = 3 /\ At("drop_old")) \/
              (Left = 2 /\ At("await")) \/ (Left = 1 /\ At("needs_setup"))
<1>1. Len(SupersedeSteps) = 6
  BY DEF SupersedeSteps
<1>2. /\ SupersedeSteps[1] = "supersede" /\ SupersedeSteps[2] = "retire_db"
      /\ SupersedeSteps[3] = "att_old" /\ SupersedeSteps[4] = "drop_old"
      /\ SupersedeSteps[5] = "await" /\ SupersedeSteps[6] = "needs_setup"
  BY DEF SupersedeSteps
<1> Len(SupersedeSteps) \in Nat
  BY <1>1
<1>3. Left \in 1..Len(SupersedeSteps) /\ todo # <<>>
      /\ \A k \in 1..Len(SupersedeSteps) : Left + k = Len(SupersedeSteps) + 1 => Head(todo) = SupersedeSteps[k]
  BY EndsHead
<1>4. /\ Left = 6 => Head(todo) = SupersedeSteps[1]
      /\ Left = 5 => Head(todo) = SupersedeSteps[2]
      /\ Left = 4 => Head(todo) = SupersedeSteps[3]
      /\ Left = 3 => Head(todo) = SupersedeSteps[4]
      /\ Left = 2 => Head(todo) = SupersedeSteps[5]
      /\ Left = 1 => Head(todo) = SupersedeSteps[6]
  BY <1>1, <1>3
<1> QED BY <1>1, <1>2, <1>3, <1>4 DEF At

LEMMA ResetStepsAt ==
    ASSUME todo \in Seq(Steps), Ends(ResetSteps)
    PROVE  /\ Len(ResetSteps) \in Nat
           /\ (Left = 4 /\ At("retire_db")) \/ (Left = 3 /\ At("att_old")) \/
              (Left = 2 /\ At("drop_old")) \/ (Left = 1 /\ At("needs_setup"))
<1>1. Len(ResetSteps) = 4
  BY DEF ResetSteps
<1>2. /\ ResetSteps[1] = "retire_db" /\ ResetSteps[2] = "att_old"
      /\ ResetSteps[3] = "drop_old" /\ ResetSteps[4] = "needs_setup"
  BY DEF ResetSteps
<1> Len(ResetSteps) \in Nat
  BY <1>1
<1>3. Left \in 1..Len(ResetSteps) /\ todo # <<>>
      /\ \A k \in 1..Len(ResetSteps) : Left + k = Len(ResetSteps) + 1 => Head(todo) = ResetSteps[k]
  BY EndsHead
<1>4. /\ Left = 4 => Head(todo) = ResetSteps[1]
      /\ Left = 3 => Head(todo) = ResetSteps[2]
      /\ Left = 2 => Head(todo) = ResetSteps[3]
      /\ Left = 1 => Head(todo) = ResetSteps[4]
  BY <1>1, <1>3
<1> QED BY <1>1, <1>2, <1>3, <1>4 DEF At

LEMMA RetireStepsAt ==
    ASSUME todo \in Seq(Steps), Ends(RetireSteps)
    PROVE  /\ Len(RetireSteps) \in Nat
           /\ (Left = 6 /\ At("retire_db")) \/ (Left = 5 /\ At("att_old")) \/
              (Left = 4 /\ At("drop_old")) \/ (Left = 3 /\ At("await")) \/
              (Left = 2 /\ At("discard")) \/ (Left = 1 /\ At("pending"))
<1>1. Len(RetireSteps) = 6
  BY DEF RetireSteps
<1>2. /\ RetireSteps[1] = "retire_db" /\ RetireSteps[2] = "att_old"
      /\ RetireSteps[3] = "drop_old" /\ RetireSteps[4] = "await"
      /\ RetireSteps[5] = "discard" /\ RetireSteps[6] = "pending"
  BY DEF RetireSteps
<1> Len(RetireSteps) \in Nat
  BY <1>1
<1>3. Left \in 1..Len(RetireSteps) /\ todo # <<>>
      /\ \A k \in 1..Len(RetireSteps) : Left + k = Len(RetireSteps) + 1 => Head(todo) = RetireSteps[k]
  BY EndsHead
<1>4. /\ Left = 6 => Head(todo) = RetireSteps[1]
      /\ Left = 5 => Head(todo) = RetireSteps[2]
      /\ Left = 4 => Head(todo) = RetireSteps[3]
      /\ Left = 3 => Head(todo) = RetireSteps[4]
      /\ Left = 2 => Head(todo) = RetireSteps[5]
      /\ Left = 1 => Head(todo) = RetireSteps[6]
  BY <1>1, <1>3
<1> QED BY <1>1, <1>2, <1>3, <1>4 DEF At

LEMMA RetiredStepsAt ==
    ASSUME todo \in Seq(Steps), Ends(RetiredSteps)
    PROVE  /\ Len(RetiredSteps) \in Nat
           /\ (Left = 5 /\ At("retire_db")) \/ (Left = 4 /\ At("att_old")) \/
              (Left = 3 /\ At("drop_old")) \/ (Left = 2 /\ At("discard")) \/
              (Left = 1 /\ At("pending"))
<1>1. Len(RetiredSteps) = 5
  BY DEF RetiredSteps
<1>2. /\ RetiredSteps[1] = "retire_db" /\ RetiredSteps[2] = "att_old"
      /\ RetiredSteps[3] = "drop_old" /\ RetiredSteps[4] = "discard"
      /\ RetiredSteps[5] = "pending"
  BY DEF RetiredSteps
<1> Len(RetiredSteps) \in Nat
  BY <1>1
<1>3. Left \in 1..Len(RetiredSteps) /\ todo # <<>>
      /\ \A k \in 1..Len(RetiredSteps) : Left + k = Len(RetiredSteps) + 1 => Head(todo) = RetiredSteps[k]
  BY EndsHead
<1>4. /\ Left = 5 => Head(todo) = RetiredSteps[1]
      /\ Left = 4 => Head(todo) = RetiredSteps[2]
      /\ Left = 3 => Head(todo) = RetiredSteps[3]
      /\ Left = 2 => Head(todo) = RetiredSteps[4]
      /\ Left = 1 => Head(todo) = RetiredSteps[5]
  BY <1>1, <1>3
<1> QED BY <1>1, <1>2, <1>3, <1>4 DEF At

LEMMA CleanseStepsAt ==
    ASSUME todo \in Seq(Steps), Ends(CleanseSteps)
    PROVE  /\ Len(CleanseSteps) \in Nat
           /\ (Left = 3 /\ At("discard")) \/ (Left = 2 /\ At("att_new")) \/
              (Left = 1 /\ At("pending"))
<1>1. Len(CleanseSteps) = 3
  BY DEF CleanseSteps
<1>2. /\ CleanseSteps[1] = "discard" /\ CleanseSteps[2] = "att_new"
      /\ CleanseSteps[3] = "pending"
  BY DEF CleanseSteps
<1> Len(CleanseSteps) \in Nat
  BY <1>1
<1>3. Left \in 1..Len(CleanseSteps) /\ todo # <<>>
      /\ \A k \in 1..Len(CleanseSteps) : Left + k = Len(CleanseSteps) + 1 => Head(todo) = CleanseSteps[k]
  BY EndsHead
<1>4. /\ Left = 3 => Head(todo) = CleanseSteps[1]
      /\ Left = 2 => Head(todo) = CleanseSteps[2]
      /\ Left = 1 => Head(todo) = CleanseSteps[3]
  BY <1>1, <1>3
<1> QED BY <1>1, <1>2, <1>3, <1>4 DEF At

LEMMA SwapStepsAt ==
    ASSUME todo \in Seq(Steps), Ends(SwapSteps)
    PROVE  /\ Len(SwapSteps) \in Nat
           /\ (Left = 5 /\ At("discard")) \/ (Left = 4 /\ At("swap_old")) \/
              (Left = 3 /\ At("swap_new")) \/ (Left = 2 /\ At("drop_old")) \/
              (Left = 1 /\ At("none"))
<1>1. Len(SwapSteps) = 5
  BY DEF SwapSteps
<1>2. /\ SwapSteps[1] = "discard" /\ SwapSteps[2] = "swap_old"
      /\ SwapSteps[3] = "swap_new" /\ SwapSteps[4] = "drop_old"
      /\ SwapSteps[5] = "none"
  BY DEF SwapSteps
<1> Len(SwapSteps) \in Nat
  BY <1>1
<1>3. Left \in 1..Len(SwapSteps) /\ todo # <<>>
      /\ \A k \in 1..Len(SwapSteps) : Left + k = Len(SwapSteps) + 1 => Head(todo) = SwapSteps[k]
  BY EndsHead
<1>4. /\ Left = 5 => Head(todo) = SwapSteps[1]
      /\ Left = 4 => Head(todo) = SwapSteps[2]
      /\ Left = 3 => Head(todo) = SwapSteps[3]
      /\ Left = 2 => Head(todo) = SwapSteps[4]
      /\ Left = 1 => Head(todo) = SwapSteps[5]
  BY <1>1, <1>3
<1> QED BY <1>1, <1>2, <1>3, <1>4 DEF At

LEMMA DropStepsAt ==
    ASSUME todo \in Seq(Steps), Ends(DropSteps)
    PROVE  /\ Len(DropSteps) \in Nat
           /\ (Left = 3 /\ At("discard")) \/ (Left = 2 /\ At("drop_old")) \/
              (Left = 1 /\ At("none"))
<1>1. Len(DropSteps) = 3
  BY DEF DropSteps
<1>2. /\ DropSteps[1] = "discard" /\ DropSteps[2] = "drop_old"
      /\ DropSteps[3] = "none"
  BY DEF DropSteps
<1> Len(DropSteps) \in Nat
  BY <1>1
<1>3. Left \in 1..Len(DropSteps) /\ todo # <<>>
      /\ \A k \in 1..Len(DropSteps) : Left + k = Len(DropSteps) + 1 => Head(todo) = DropSteps[k]
  BY EndsHead
<1>4. /\ Left = 3 => Head(todo) = DropSteps[1]
      /\ Left = 2 => Head(todo) = DropSteps[2]
      /\ Left = 1 => Head(todo) = DropSteps[3]
  BY <1>1, <1>3
<1> QED BY <1>1, <1>2, <1>3, <1>4 DEF At

LEMMA DiscardStepsAt ==
    ASSUME todo \in Seq(Steps), Ends(DiscardSteps)
    PROVE  /\ Len(DiscardSteps) \in Nat
           /\ (Left = 2 /\ At("discard")) \/ (Left = 1 /\ At("none"))
<1>1. Len(DiscardSteps) = 2
  BY DEF DiscardSteps
<1>2. /\ DiscardSteps[1] = "discard" /\ DiscardSteps[2] = "none"
  BY DEF DiscardSteps
<1> Len(DiscardSteps) \in Nat
  BY <1>1
<1>3. Left \in 1..Len(DiscardSteps) /\ todo # <<>>
      /\ \A k \in 1..Len(DiscardSteps) : Left + k = Len(DiscardSteps) + 1 => Head(todo) = DiscardSteps[k]
  BY EndsHead
<1>4. /\ Left = 2 => Head(todo) = DiscardSteps[1]
      /\ Left = 1 => Head(todo) = DiscardSteps[2]
  BY <1>1, <1>3
<1> QED BY <1>1, <1>2, <1>3, <1>4 DEF At

LEMMA DamageStepsAt ==
    ASSUME todo \in Seq(Steps), Ends(DamageSteps)
    PROVE  /\ Len(DamageSteps) \in Nat
           /\ (Left = 2 /\ At("quarantine")) \/ (Left = 1 /\ At("damaged"))
<1>1. Len(DamageSteps) = 2
  BY DEF DamageSteps
<1>2. /\ DamageSteps[1] = "quarantine" /\ DamageSteps[2] = "damaged"
  BY DEF DamageSteps
<1> Len(DamageSteps) \in Nat
  BY <1>1
<1>3. Left \in 1..Len(DamageSteps) /\ todo # <<>>
      /\ \A k \in 1..Len(DamageSteps) : Left + k = Len(DamageSteps) + 1 => Head(todo) = DamageSteps[k]
  BY EndsHead
<1>4. /\ Left = 2 => Head(todo) = DamageSteps[1]
      /\ Left = 1 => Head(todo) = DamageSteps[2]
  BY <1>1, <1>3
<1> QED BY <1>1, <1>2, <1>3, <1>4 DEF At

LEMMA RepairStepsAt ==
    ASSUME todo \in Seq(Steps), Ends(RepairSteps)
    PROVE  /\ Len(RepairSteps) \in Nat
           /\ (Left = 2 /\ At("quarantine")) \/ (Left = 1 /\ At("authenticated"))
<1>1. Len(RepairSteps) = 2
  BY DEF RepairSteps
<1>2. /\ RepairSteps[1] = "quarantine" /\ RepairSteps[2] = "authenticated"
  BY DEF RepairSteps
<1> Len(RepairSteps) \in Nat
  BY <1>1
<1>3. Left \in 1..Len(RepairSteps) /\ todo # <<>>
      /\ \A k \in 1..Len(RepairSteps) : Left + k = Len(RepairSteps) + 1 => Head(todo) = RepairSteps[k]
  BY EndsHead
<1>4. /\ Left = 2 => Head(todo) = RepairSteps[1]
      /\ Left = 1 => Head(todo) = RepairSteps[2]
  BY <1>1, <1>3
<1> QED BY <1>1, <1>2, <1>3, <1>4 DEF At

-----------------------------------------------------------------------------
(* What the changes of a root directory do to its names. *)

LEMMA AbsentType == Absent \in Dirs /\ ~Present(Absent) /\ Absent.ino = 0 /\ Absent.rows = {}
  BY DEF Absent, Dirs, Kinds, Modes, Present

LEMMA EmptyDirType ==
    ASSUME NEW i \in Nat
    PROVE  /\ EmptyDir(i) \in Dirs /\ EmptyDir(i).ino = i /\ EmptyDir(i).rows = {}
           /\ EmptyDir(i).kind = "empty" /\ EmptyDir(i).mode = "plain" /\ EmptyDir(i).gen = 0
  BY DEF EmptyDir, Absent, Dirs, Kinds, Modes

LEMMA SetDirFacts ==
    ASSUME NEW d \in Disks, NEW n \in Names, NEW x \in Dirs
    PROVE  /\ SetDir(d, n, x) \in Disks /\ SetDir(d, n, x).setup = d.setup
           /\ SetDir(d, n, x).dir[n] = x
           /\ \A m \in Names \ {n} : SetDir(d, n, x).dir[m] = d.dir[m]
  BY DEF SetDir, Disks

LEMMA RenameFacts ==
    ASSUME NEW d \in Disks, NEW n \in Names, NEW m \in Names, m # n
    PROVE  /\ Rename(d, n, m) \in Disks /\ Rename(d, n, m).setup = d.setup
           /\ Rename(d, n, m).dir[m] = d.dir[n] /\ Rename(d, n, m).dir[n] = Absent
           /\ \A k \in Names \ {n, m} : Rename(d, n, m).dir[k] = d.dir[k]
  BY AbsentType DEF Rename, Disks

LEMMA RewriteFacts ==
    ASSUME NEW d \in Disks, NEW i, NEW x \in Dirs
    PROVE  /\ Rewrite(d, i, x) \in Disks /\ Rewrite(d, i, x).setup = d.setup
           /\ \A n \in Names : Rewrite(d, i, x).dir[n] = IF d.dir[n].ino = i THEN x ELSE d.dir[n]
  BY DEF Rewrite, Disks

LEMMA SetupFacts ==
    ASSUME NEW d \in Disks, NEW j \in Journals \cup {NoJournal}
    PROVE  /\ [d EXCEPT !.setup = j] \in Disks /\ [d EXCEPT !.setup = j].setup = j
           /\ [d EXCEPT !.setup = j].dir = d.dir
  BY DEF Disks

LEMMA PhaseFacts ==
    ASSUME NEW d \in Disks, ~NoJ(d), NEW f \in Phases
    PROVE  LET e == [d EXCEPT !.setup.phase = f] IN
           /\ e \in Disks /\ e.dir = d.dir /\ ~NoJ(e) /\ e.setup.phase = f
           /\ e.setup.old = d.setup.old /\ e.setup.new = d.setup.new /\ e.setup.mode = d.setup.mode
  BY DEF Disks, NoJ, Journals, NoJournal, Phases

LEMMA SupersedeFacts ==
    ASSUME NEW d \in Disks, ~NoJ(d), NEW a \in {"Erase", "StartFresh"}
    PROVE  LET e == [d EXCEPT !.setup.after = a, !.setup.phase = "RetireOld"] IN
           /\ e \in Disks /\ e.dir = d.dir /\ ~NoJ(e) /\ e.setup.phase = "RetireOld"
           /\ e.setup.old = d.setup.old /\ e.setup.new = d.setup.new
  BY DEF Disks, NoJ, Journals, NoJournal, Phases

LEMMA DiskTypes ==
    ASSUME NEW d \in Disks
    PROVE  /\ \A n \in Names : d.dir[n] \in Dirs
           /\ d.dir.db \in Dirs /\ d.dir.tmp \in Dirs /\ d.dir.new \in Dirs /\ d.dir.old \in Dirs
           /\ ~NoJ(d) => d.setup \in Journals
  BY DEF Disks, Names, NoJ

LEMMA ShapeMono ==
    ASSUME NEW d, NEW g \in Nat, NEW h \in Nat, g <= h, Shape(d, g)
    PROVE  Shape(d, h)
<1>1. Tidy(d, h)
  BY DiskTypes DEF Shape, Tidy, Dirs
<1>2. Journaled(d, h)
  BY DiskTypes DEF Shape, Journaled, Journals
<1> QED BY <1>1, <1>2 DEF Shape

(* Which directory recovery would end up with, by the phase of the journal. *)
LEMMA SurvivorCases ==
    ASSUME NEW d, NEW g \in Nat, Shape(d, g)
    PROVE  /\ NoJ(d) => Survivor(d) = IF Present(d.dir.new) THEN d.dir.new ELSE d.dir.db
           /\ In(d, "BuildReplacement") =>
                /\ Survivor(d) = d.dir.db /\ d.dir.db.kind = "full" /\ d.dir.db.gen = d.setup.old
                /\ ~Installed(d) /\ Gone(d, "new") /\ Gone(d, "old")
           /\ Installed(d) =>
                /\ Survivor(d) = d.dir.db /\ d.dir.db.kind = "full" /\ d.dir.db.gen = d.setup.new
                /\ Gone(d, "new") /\ Gone(d, "tmp") /\ d.setup.phase \in {"InstallNew", "Installed"}
           /\ In(d, "RetireOld") \/ In(d, "AwaitChoice") =>
                Survivor(d) = Absent /\ ~Installed(d) /\ Gone(d, "new")
           /\ In(d, "InstallNew") /\ ~Installed(d) /\ Present(d.dir.new) =>
                /\ Survivor(d) = d.dir.new /\ d.dir.new.kind = "full" /\ d.dir.new.gen = d.setup.new
                /\ Gone(d, "tmp")
           /\ In(d, "InstallNew") /\ ~Installed(d) /\ Gone(d, "new") =>
                Survivor(d) = d.dir.tmp /\ Staging(d, d.setup.new)
           /\ ~NoJ(d) => \/ In(d, "BuildReplacement") \/ In(d, "RetireOld") \/ In(d, "AwaitChoice")
                         \/ In(d, "InstallNew") \/ (In(d, "Installed") /\ Installed(d))
<1> USE DiskTypes DEF Shape, NoJ, In, Gone
<1>1. NoJ(d) => Survivor(d) = IF Present(d.dir.new) THEN d.dir.new ELSE d.dir.db
  BY DEF Survivor
<1>2. ASSUME ~NoJ(d) PROVE d.setup \in Journals /\ d.setup.old # 0 /\ d.setup.new # 0
  BY <1>2 DEF Journaled, Journals
<1>3. ASSUME In(d, "BuildReplacement")
      PROVE  /\ Survivor(d) = d.dir.db /\ d.dir.db.kind = "full" /\ d.dir.db.gen = d.setup.old
             /\ ~Installed(d) /\ Gone(d, "new") /\ Gone(d, "old")
  <2>1. ~Installed(d)
    BY <1>3 DEF Journaled
  <2>2. Survivor(d) = d.dir.db
    BY <1>3 DEF Survivor
  <2>3. Current(d) = d.setup.old /\ Gone(d, "new") /\ Gone(d, "old")
    BY <1>3, <2>1 DEF Journaled, PreflightSetup, Installed, Current
  <2>4. d.dir.db.kind \in {"part", "full"} /\ d.dir.db.gen = d.setup.old
    BY <1>2, <1>3, <2>3 DEF Current, ReadGeneration
  <2> QED BY <2>1, <2>2, <2>3, <2>4 DEF Whole
<1>4. ASSUME Installed(d)
      PROVE  /\ Survivor(d) = d.dir.db /\ d.dir.db.kind = "full" /\ d.dir.db.gen = d.setup.new
             /\ Gone(d, "new") /\ Gone(d, "tmp") /\ d.setup.phase \in {"InstallNew", "Installed"}
  <2>1. ~NoJ(d) /\ Current(d) = d.setup.new
    BY <1>4 DEF Installed
  <2>2. Survivor(d) = d.dir.db
    BY <2>1 DEF Survivor, Current
  <2>3. d.dir.db.kind \in {"part", "full"} /\ d.dir.db.gen = d.setup.new
    BY <1>2, <2>1 DEF Current, ReadGeneration
  <2>4. Gone(d, "new") /\ Gone(d, "tmp")
    BY <2>1 DEF Journaled, PreflightSetup, Current
  <2>5. d.setup.phase \in {"InstallNew", "Installed"}
    BY <1>4, <2>1 DEF Journaled
  <2> QED BY <2>2, <2>3, <2>4, <2>5 DEF Whole
<1>5. ASSUME In(d, "RetireOld") \/ In(d, "AwaitChoice")
      PROVE  Survivor(d) = Absent /\ ~Installed(d) /\ Gone(d, "new")
  <2>1. ~NoJ(d) /\ d.setup.phase \notin {"BuildReplacement", "InstallNew", "Installed"}
    BY <1>5
  <2>2. ~Installed(d) /\ Gone(d, "new")
    BY <2>1 DEF Journaled
  <2> QED BY <2>1, <2>2 DEF Survivor, Installed, Current
<1>6. ASSUME In(d, "InstallNew"), ~Installed(d), Present(d.dir.new)
      PROVE  /\ Survivor(d) = d.dir.new /\ d.dir.new.kind = "full" /\ d.dir.new.gen = d.setup.new
             /\ Gone(d, "tmp")
  BY <1>6 DEF Survivor, Journaled, PreflightSetup, Installed, Current
<1>7. ASSUME In(d, "InstallNew"), ~Installed(d), Gone(d, "new")
      PROVE  Survivor(d) = d.dir.tmp /\ Staging(d, d.setup.new)
  BY <1>7 DEF Survivor, Journaled, PreflightSetup, Installed, Current, Staging
<1>8. ASSUME ~NoJ(d)
      PROVE  \/ In(d, "BuildReplacement") \/ In(d, "RetireOld") \/ In(d, "AwaitChoice")
             \/ In(d, "InstallNew") \/ (In(d, "Installed") /\ Installed(d))
  <2>1. d.setup.phase \in Phases
    BY <1>2, <1>8 DEF Journals
  <2> QED BY <1>8, <2>1 DEF Phases, Journaled
<1> QED BY <1>1, <1>3, <1>4, <1>5, <1>6, <1>7, <1>8

-----------------------------------------------------------------------------
(* Each change of a name keeps the shape of the root directory and, unless  *)
(* it is a decision, the store that recovery would end up with.             *)

Survives(d, e, g) == Shape(e, g) /\ Survivor(e) = Survivor(d)

(* discard, when only the empty directory is left. *)
LEMMA DiscardSurvives ==
    ASSUME NEW d, NEW g \in Nat, Shape(d, g), ~In(d, "InstallNew")
    PROVE  Survives(d, SetDir(d, "tmp", Absent), g)
<1> DEFINE e == SetDir(d, "tmp", Absent)
<1>1. /\ e \in Disks /\ e.setup = d.setup /\ e.dir["tmp"] = Absent
      /\ e.dir["db"] = d.dir["db"] /\ e.dir["new"] = d.dir["new"] /\ e.dir["old"] = d.dir["old"]
  BY SetDirFacts, AbsentType DEF Shape, Names
<1> HIDE DEF e
<1>2. Tidy(e, g)
  BY <1>1, AbsentType DEF Shape, Tidy, Names, Gone, Present
<1>3. Survivor(e) = Survivor(d)
  BY <1>1 DEF Survivor, In, NoJ
<1>4. Journaled(e, g)
  BY <1>1, AbsentType DEF Shape, Journaled, PreflightSetup, NoJ, In, Installed, Current, Gone
<1>5. Whole(e)
  BY <1>1, <1>3 DEF Shape, Whole, NoJ
<1> QED BY <1>1, <1>2, <1>3, <1>4, <1>5 DEF Shape, Survives, e

(* private_directory for db.tmp. *)
LEMMA MktmpSurvives ==
    ASSUME NEW d, NEW g \in Nat, Shape(d, g), ~In(d, "InstallNew"), ~Installed(d),
           NEW i \in Nat, i # 0, i \notin Inos(d)
    PROVE  Survives(d, SetDir(d, "tmp", EmptyDir(i)), g)
<1> DEFINE e == SetDir(d, "tmp", EmptyDir(i))
<1>1. /\ e \in Disks /\ e.setup = d.setup /\ e.dir["tmp"] = EmptyDir(i)
      /\ e.dir["db"] = d.dir["db"] /\ e.dir["new"] = d.dir["new"] /\ e.dir["old"] = d.dir["old"]
  BY SetDirFacts, EmptyDirType DEF Shape, Names
<1> HIDE DEF e
<1>2. Tidy(e, g)
  BY <1>1, EmptyDirType DEF Shape, Tidy, Names, Gone, Present, Inos
<1>3. Survivor(e) = Survivor(d)
  BY <1>1 DEF Survivor, In, NoJ
<1>4. Journaled(e, g)
  <2>1. Present(e.dir["new"]) => NoJ(e)
    BY <1>1 DEF Shape, Journaled, NoJ, In
  <2> QED BY <1>1, <2>1, EmptyDirType
      DEF Shape, Journaled, PreflightSetup, NoJ, In, Installed, Current, Gone, Present
<1>5. Whole(e)
  BY <1>1, <1>3 DEF Shape, Whole, NoJ
<1> QED BY <1>1, <1>2, <1>3, <1>4, <1>5 DEF Shape, Survives, e

(* drop_old, when only the empty directory is left. *)
LEMMA DropOldSurvives ==
    ASSUME NEW d, NEW g \in Nat, Shape(d, g)
    PROVE  Survives(d, SetDir(d, "old", Absent), g)
<1> DEFINE e == SetDir(d, "old", Absent)
<1>1. /\ e \in Disks /\ e.setup = d.setup /\ e.dir["old"] = Absent
      /\ e.dir["db"] = d.dir["db"] /\ e.dir["new"] = d.dir["new"] /\ e.dir["tmp"] = d.dir["tmp"]
  BY SetDirFacts, AbsentType DEF Shape, Names
<1> HIDE DEF e
<1>2. Tidy(e, g)
  BY <1>1, AbsentType DEF Shape, Tidy, Names, Gone, Present
<1>3. Survivor(e) = Survivor(d)
  BY <1>1 DEF Survivor
<1>4. Journaled(e, g)
  BY <1>1, AbsentType DEF Shape, Journaled, PreflightSetup, NoJ, In, Installed, Current, Gone
<1>5. Whole(e)
  BY <1>1, <1>3 DEF Shape, Whole, NoJ
<1> QED BY <1>1, <1>2, <1>3, <1>4, <1>5 DEF Shape, Survives, e

(* The db of a store that recovery would not end up with. *)
Replaced(d) ==
    IF NoJ(d) THEN Present(d.dir.new)
              ELSE ~Installed(d) /\ d.setup.phase \in {"RetireOld", "AwaitChoice", "InstallNew"}

(* retire_db and swap_old of an empty placeholder. *)
LEMMA PlaceholderSurvives ==
    ASSUME NEW d, NEW g \in Nat, Shape(d, g), Replaced(d)
    PROVE  Survives(d, SetDir(d, "db", Absent), g)
<1> DEFINE e == SetDir(d, "db", Absent)
<1>1. /\ e \in Disks /\ e.setup = d.setup /\ e.dir["db"] = Absent
      /\ e.dir["old"] = d.dir["old"] /\ e.dir["new"] = d.dir["new"] /\ e.dir["tmp"] = d.dir["tmp"]
  BY SetDirFacts, AbsentType DEF Shape, Names
<1> HIDE DEF e
<1>2. Tidy(e, g)
  BY <1>1, AbsentType DEF Shape, Tidy, Names, Gone, Present
<1>0. Current(e) = 0 /\ (~NoJ(d) => 0 < d.setup.old /\ 0 < d.setup.new)
  BY <1>1, DiskTypes DEF Current, ReadGeneration, Absent, Shape, Journaled, Journals
<1>3. Survivor(e) = Survivor(d)
  BY <1>0, <1>1 DEF Survivor, Replaced, NoJ, Installed, Current
<1>4. Journaled(e, g)
  BY <1>0, <1>1, AbsentType
     DEF Shape, Journaled, PreflightSetup, NoJ, In, Installed, Current, Gone, Present, Replaced
<1>5. Whole(e)
  BY <1>1, <1>3 DEF Shape, Whole, NoJ
<1> QED BY <1>1, <1>2, <1>3, <1>4, <1>5 DEF Shape, Survives, e

(* retire_db and swap_old of a source. *)
LEMMA RetireSurvives ==
    ASSUME NEW d, NEW g \in Nat, Shape(d, g), Replaced(d), Gone(d, "old"),
           NoJ(d) \/ Current(d) = d.setup.old
    PROVE  Survives(d, Rename(d, "db", "old"), g)
<1> DEFINE e == Rename(d, "db", "old")
<1>1. /\ e \in Disks /\ e.setup = d.setup /\ e.dir["db"] = Absent /\ e.dir["old"] = d.dir["db"]
      /\ e.dir["new"] = d.dir["new"] /\ e.dir["tmp"] = d.dir["tmp"]
  BY RenameFacts DEF Shape, Names
<1> HIDE DEF e
<1>2. Tidy(e, g)
  BY <1>1, AbsentType DEF Shape, Tidy, Names, Gone, Present
<1>0. Current(e) = 0 /\ (~NoJ(d) => 0 < d.setup.old /\ 0 < d.setup.new)
  BY <1>1, DiskTypes DEF Current, ReadGeneration, Absent, Shape, Journaled, Journals
<1>3. Survivor(e) = Survivor(d)
  BY <1>0, <1>1 DEF Survivor, Replaced, NoJ, Installed, Current
<1>4. Journaled(e, g)
  BY <1>0, <1>1, AbsentType
     DEF Shape, Journaled, PreflightSetup, NoJ, In, Installed, Current, Gone, Present, Replaced
<1>5. Whole(e)
  BY <1>1, <1>3 DEF Shape, Whole, NoJ
<1> QED BY <1>1, <1>2, <1>3, <1>4, <1>5 DEF Shape, Survives, e

(* install_committed makes db.new the store. *)
LEMMA SwapNewSurvives ==
    ASSUME NEW d, NEW g \in Nat, Shape(d, g), Present(d.dir.new)
    PROVE  /\ Survives(d, Rename(d, "new", "db"), g)
           /\ ~NoJ(d) => Installed(Rename(d, "new", "db"))
<1> DEFINE e == Rename(d, "new", "db")
<1>1. /\ e \in Disks /\ e.setup = d.setup /\ e.dir["db"] = d.dir["new"] /\ e.dir["new"] = Absent
      /\ e.dir["old"] = d.dir["old"] /\ e.dir["tmp"] = d.dir["tmp"]
  BY RenameFacts DEF Shape, Names
<1> HIDE DEF e
<1>2. Tidy(e, g)
  BY <1>1, AbsentType DEF Shape, Tidy, Names, Gone, Present
<1>0. ASSUME ~NoJ(d)
      PROVE  /\ Current(e) = d.setup.new /\ Installed(e) /\ d.setup.phase = "InstallNew"
             /\ ~Present(d.dir["tmp"]) /\ d.setup.new # d.setup.old /\ d.setup.new # 0 /\ ~Installed(d)
  BY <1>0, <1>1, DiskTypes
     DEF Current, ReadGeneration, Shape, Journaled, PreflightSetup, NoJ, Installed, Gone, Journals
<1>3. Survivor(e) = Survivor(d)
  <2>1. CASE NoJ(d)
    BY <1>1, <2>1, AbsentType DEF Survivor, NoJ
  <2>2. CASE ~NoJ(d)
    BY <1>0, <1>1, <2>2 DEF Survivor, NoJ, Installed, Current
  <2> QED BY <2>1, <2>2
<1>4. Journaled(e, g)
  BY <1>0, <1>1, AbsentType
     DEF Shape, Journaled, PreflightSetup, NoJ, In, Installed, Current, Gone, Present
<1>5. Whole(e)
  BY <1>1, <1>3, AbsentType DEF Shape, Whole, NoJ
<1> QED BY <1>0, <1>1, <1>2, <1>3, <1>4, <1>5 DEF Shape, Survives, e

(* The commit of a replacement under its journal. *)
LEMMA CommitSurvives ==
    ASSUME NEW d, NEW g \in Nat, Shape(d, g), In(d, "InstallNew"), ~Installed(d), Gone(d, "new")
    PROVE  Survives(d, Rename(d, "tmp", "new"), g)
<1> DEFINE e == Rename(d, "tmp", "new")
<1>1. /\ e \in Disks /\ e.setup = d.setup /\ e.dir["new"] = d.dir["tmp"] /\ e.dir["tmp"] = Absent
      /\ e.dir["old"] = d.dir["old"] /\ e.dir["db"] = d.dir["db"]
  BY RenameFacts DEF Shape, Names
<1> HIDE DEF e
<1>2. Tidy(e, g)
  BY <1>1, AbsentType DEF Shape, Tidy, Names, Gone, Present
<1>0. Survivor(d) = d.dir.tmp /\ Staging(d, d.setup.new)
  BY SurvivorCases
<1>3. Survivor(e) = Survivor(d)
  BY <1>0, <1>1 DEF Survivor, Staging, In, NoJ, Installed, Current, Present
<1>4. Journaled(e, g)
  BY <1>0, <1>1, AbsentType
     DEF Shape, Journaled, PreflightSetup, NoJ, In, Installed, Current, Gone, Present, Staging
<1>5. Whole(e)
  BY <1>0, <1>1, <1>3 DEF Shape, Whole, Staging, In, NoJ
<1> QED BY <1>1, <1>2, <1>3, <1>4, <1>5 DEF Shape, Survives, e

(* The commit of an export: recovery now chooses the copy. *)
LEMMA ExportCommits ==
    ASSUME NEW d, NEW g \in Nat, Shape(d, g), NoJ(d), Gone(d, "new"), d.dir.tmp.kind = "full"
    PROVE  Shape(Rename(d, "tmp", "new"), g) /\ Survivor(Rename(d, "tmp", "new")) = d.dir.tmp
<1> DEFINE e == Rename(d, "tmp", "new")
<1>1. /\ e \in Disks /\ e.setup = d.setup /\ e.dir["new"] = d.dir["tmp"] /\ e.dir["tmp"] = Absent
      /\ e.dir["old"] = d.dir["old"] /\ e.dir["db"] = d.dir["db"]
  BY RenameFacts DEF Shape, Names
<1> HIDE DEF e
<1>2. Tidy(e, g)
  BY <1>1, AbsentType DEF Shape, Tidy, Names, Gone, Present
<1>3. Survivor(e) = d.dir.tmp
  BY <1>1 DEF Survivor, NoJ, Present
<1>4. Journaled(e, g)
  BY <1>1 DEF Journaled, NoJ
<1>5. Whole(e)
  BY <1>1, <1>3 DEF Whole
<1> QED BY <1>1, <1>2, <1>3, <1>4, <1>5 DEF Shape, e

(* The first directory of a store. *)
LEMMA PrepareShape ==
    ASSUME NEW d, NEW g \in Nat, Shape(d, g), Gone(d, "db"), NEW i \in Nat, i # 0, i \notin Inos(d)
    PROVE  LET e == SetDir(d, "db", EmptyDir(i)) IN
           /\ Shape(e, g) /\ Survivor(e).rows = Survivor(d).rows /\ Survivor(e).gen = Survivor(d).gen
<1> DEFINE e == SetDir(d, "db", EmptyDir(i))
<1>1. /\ e \in Disks /\ e.setup = d.setup /\ e.dir["db"] = EmptyDir(i)
      /\ e.dir["tmp"] = d.dir["tmp"] /\ e.dir["new"] = d.dir["new"] /\ e.dir["old"] = d.dir["old"]
  BY SetDirFacts, EmptyDirType DEF Shape, Names
<1> HIDE DEF e
<1>2. Tidy(e, g)
  BY <1>1, EmptyDirType DEF Shape, Tidy, Names, Gone, Present, Inos
<1>0. /\ Current(e) = 0 /\ Current(d) = 0 /\ d.dir["db"] = Absent
      /\ ~NoJ(d) => 0 < d.setup.old /\ 0 < d.setup.new
  <2>1. Current(e) = 0 /\ Current(d) = 0 /\ d.dir["db"] = Absent
    BY <1>1, EmptyDirType DEF Current, ReadGeneration, Gone, Present, Shape, Tidy, Names
  <2> QED BY <2>1, DiskTypes DEF Shape, Journaled, Journals
<1>3. Survivor(e) = IF Survivor(d) = d.dir.db /\ (NoJ(d) => Gone(d, "new"))
                       /\ (~NoJ(d) => d.setup.phase = "BuildReplacement") THEN e.dir.db ELSE Survivor(d)
  BY <1>0, <1>1 DEF Survivor, NoJ, Gone, Current
<1>4. Journaled(e, g)
  BY <1>0, <1>1, EmptyDirType
     DEF Shape, Journaled, PreflightSetup, NoJ, In, Installed, Current, Gone, Present
<1>5. Whole(e)
  BY <1>1, <1>3, EmptyDirType DEF Shape, Whole, NoJ
<1>6. Survivor(e).rows = Survivor(d).rows /\ Survivor(e).gen = Survivor(d).gen
  BY <1>0, <1>1, <1>3, EmptyDirType DEF Absent
<1> QED BY <1>1, <1>2, <1>4, <1>5, <1>6 DEF Shape, e

-----------------------------------------------------------------------------
(* The changes of the journal. *)

LEMMA AwaitSurvives ==
    ASSUME NEW d, NEW g \in Nat, Shape(d, g), In(d, "RetireOld")
    PROVE  Survives(d, [d EXCEPT !.setup.phase = "AwaitChoice"], g)
<1> DEFINE e == [d EXCEPT !.setup.phase = "AwaitChoice"]
<1>1. /\ e \in Disks /\ e.dir = d.dir /\ ~NoJ(e) /\ e.setup.phase = "AwaitChoice"
      /\ e.setup.old = d.setup.old /\ e.setup.new = d.setup.new
  BY PhaseFacts DEF Shape, In, Phases
<1> HIDE DEF e
<1>2. Tidy(e, g)
  BY <1>1 DEF Shape, Tidy, Gone
<1>3. Survivor(e) = Survivor(d)
  BY <1>1 DEF Survivor, In, NoJ
<1>4. Journaled(e, g)
  BY <1>1 DEF Shape, Journaled, PreflightSetup, In, Installed, Current, Gone
<1>5. Whole(e)
  BY <1>1, <1>3 DEF Shape, Whole
<1> QED BY <1>1, <1>2, <1>3, <1>4, <1>5 DEF Shape, Survives, e

LEMMA MarkSurvives ==
    ASSUME NEW d, NEW g \in Nat, Shape(d, g), Installed(d)
    PROVE  Survives(d, [d EXCEPT !.setup.phase = "Installed"], g)
<1> DEFINE e == [d EXCEPT !.setup.phase = "Installed"]
<1>0. ~NoJ(d)
  BY DEF Installed
<1>1. /\ e \in Disks /\ e.dir = d.dir /\ ~NoJ(e) /\ e.setup.phase = "Installed"
      /\ e.setup.old = d.setup.old /\ e.setup.new = d.setup.new
  BY <1>0, PhaseFacts DEF Shape, Phases
<1> HIDE DEF e
<1>2. Tidy(e, g)
  BY <1>1 DEF Shape, Tidy, Gone
<1>3. Survivor(e) = Survivor(d)
  BY <1>0, <1>1 DEF Survivor, Installed, NoJ, Current
<1>4. Journaled(e, g)
  BY <1>0, <1>1 DEF Shape, Journaled, PreflightSetup, In, Installed, Current, Gone
<1>5. Whole(e)
  BY <1>1, <1>3 DEF Shape, Whole
<1> QED BY <1>1, <1>2, <1>3, <1>4, <1>5 DEF Shape, Survives, e

LEMMA UnmarkSurvives ==
    ASSUME NEW d, NEW g \in Nat, Shape(d, g), Installed(d)
    PROVE  Survives(d, [d EXCEPT !.setup = NoJournal], g)
<1> DEFINE e == [d EXCEPT !.setup = NoJournal]
<1>0. ~NoJ(d) /\ Survivor(d) = d.dir.db /\ Gone(d, "new")
  BY SurvivorCases DEF Installed
<1>1. e \in Disks /\ e.dir = d.dir /\ NoJ(e)
  BY SetupFacts DEF Shape, NoJ
<1> HIDE DEF e
<1>2. Tidy(e, g)
  BY <1>1 DEF Shape, Tidy, Gone
<1>3. Survivor(e) = Survivor(d)
  BY <1>0, <1>1 DEF Survivor, NoJ, Gone
<1>4. Journaled(e, g)
  BY <1>1 DEF Journaled
<1>5. Whole(e)
  BY <1>0, <1>1, <1>3 DEF Shape, Whole, Gone
<1> QED BY <1>1, <1>2, <1>3, <1>4, <1>5 DEF Shape, Survives, e

(* The new journal of a reset or a quarantine names an identity that nothing *)
(* on the disk has.                                                         *)
LEMMA NewJournalShape ==
    ASSUME NEW d, NEW g \in Nat, Shape(d, g), d.dir.db.kind = "full", NEW j \in Journals,
           j.old = Current(d), j.new = g, PreflightSetup(d, j),
           j.phase \in {"BuildReplacement", "RetireOld"}
    PROVE  LET e == [d EXCEPT !.setup = j] IN
           /\ Shape(e, g + 1) /\ e.dir = d.dir /\ e.setup = j /\ ~NoJ(e) /\ Gone(d, "new")
           /\ j.phase = "BuildReplacement" => Survivor(e) = d.dir.db
           /\ j.phase = "RetireOld" => Survivor(e) = Absent
<1> DEFINE e == [d EXCEPT !.setup = j]
<1>0. 0 < j.old /\ j.old < j.new /\ Current(d) # j.new
  BY DEF Shape, Tidy, Names, Current, ReadGeneration
<1>1. e \in Disks /\ e.dir = d.dir /\ e.setup = j /\ ~NoJ(e)
  BY SetupFacts DEF Shape, NoJ, Journals, NoJournal
<1> HIDE DEF e
<1>2. Gone(d, "new")
  BY DEF Shape, Tidy, Names, PreflightSetup, Gone, Present
<1>3. Tidy(e, g + 1)
  BY <1>1, DiskTypes DEF Shape, Tidy, Gone, Dirs
<1>4. /\ j.phase = "BuildReplacement" => Survivor(e) = d.dir.db
      /\ j.phase = "RetireOld" => Survivor(e) = Absent
  BY <1>0, <1>1, <1>2 DEF Survivor, NoJ, Gone, Current
<1>5. Journaled(e, g + 1)
  BY <1>0, <1>1, <1>2 DEF Journaled, PreflightSetup, Installed, Current, Gone
<1>6. Whole(e)
  BY <1>1, <1>4 DEF Whole, Absent
<1> QED BY <1>1, <1>2, <1>3, <1>4, <1>5, <1>6 DEF Shape, e

LEMMA SupersedeShape ==
    ASSUME NEW d, NEW g \in Nat, Shape(d, g), In(d, "BuildReplacement"),
           NEW a \in {"Erase", "StartFresh"}
    PROVE  LET e == [d EXCEPT !.setup.after = a, !.setup.phase = "RetireOld"] IN
           Shape(e, g) /\ Survivor(e) = Absent
<1> DEFINE e == [d EXCEPT !.setup.after = a, !.setup.phase = "RetireOld"]
<1>0. ~NoJ(d) /\ ~Installed(d) /\ Gone(d, "new")
  BY SurvivorCases DEF In
<1>1. /\ e \in Disks /\ e.dir = d.dir /\ ~NoJ(e) /\ e.setup.phase = "RetireOld"
      /\ e.setup.old = d.setup.old /\ e.setup.new = d.setup.new
  BY <1>0, SupersedeFacts DEF Shape
<1> HIDE DEF e
<1>2. Tidy(e, g)
  BY <1>1 DEF Shape, Tidy, Gone
<1>3. Survivor(e) = Absent
  BY <1>0, <1>1 DEF Survivor, NoJ, Installed, Current, Gone
<1>4. Journaled(e, g)
  BY <1>0, <1>1 DEF Shape, Journaled, PreflightSetup, In, Installed, Current, Gone
<1>5. Whole(e)
  BY <1>1, <1>3 DEF Whole, Absent
<1> QED BY <1>1, <1>2, <1>3, <1>4, <1>5 DEF Shape, e

(* The intent to install what is staged: recovery now chooses it. *)
LEMMA InstallNewShape ==
    ASSUME NEW d, NEW g \in Nat, Shape(d, g),
           In(d, "BuildReplacement") \/ In(d, "AwaitChoice"), Staging(d, d.setup.new)
    PROVE  LET e == [d EXCEPT !.setup.phase = "InstallNew"] IN
           /\ Shape(e, g) /\ Survivor(e) = d.dir.tmp
           /\ In(e, "InstallNew") /\ ~Installed(e) /\ Gone(e, "new")
<1> DEFINE e == [d EXCEPT !.setup.phase = "InstallNew"]
<1>0. ~NoJ(d) /\ ~Installed(d) /\ Gone(d, "new")
  BY SurvivorCases DEF In
<1>1. /\ e \in Disks /\ e.dir = d.dir /\ ~NoJ(e) /\ e.setup.phase = "InstallNew"
      /\ e.setup.old = d.setup.old /\ e.setup.new = d.setup.new
  BY <1>0, PhaseFacts DEF Shape, Phases
<1> HIDE DEF e
<1>2. Tidy(e, g)
  BY <1>1 DEF Shape, Tidy, Gone
<1>3. Survivor(e) = d.dir.tmp
  BY <1>0, <1>1 DEF Survivor, NoJ, Installed, Current, Gone
<1>4. Journaled(e, g)
  BY <1>0, <1>1 DEF Shape, Journaled, PreflightSetup, In, Installed, Current, Gone, Staging
<1>5. Whole(e)
  BY <1>1, <1>3 DEF Whole, Staging
<1>6. In(e, "InstallNew") /\ ~Installed(e) /\ Gone(e, "new")
  BY <1>0, <1>1 DEF In, Installed, Current, Gone
<1> QED BY <1>1, <1>2, <1>3, <1>4, <1>5, <1>6 DEF Shape, e

-----------------------------------------------------------------------------
(* The changes of contents, seen in a root directory q. *)

(* A deletion, one stage further, of a directory that is not the store.     *)
LEMMA ShrinkSurvives ==
    ASSUME NEW q, NEW g \in Nat, Shape(q, g), NEW y \in Dirs, y.kind \in {"part", "bare", "full"},
           y.ino # 0, Survivor(q).ino # y.ino,
           \A n \in Names : q.dir[n].ino = y.ino => q.dir[n] = y
    PROVE  Survives(q, Rewrite(q, y.ino, Shrink(y)), g)
<1> DEFINE x == Shrink(y)
           e == Rewrite(q, y.ino, x)
<1>0. /\ x \in Dirs /\ x.ino = y.ino /\ x.rows = {} /\ x.kind \in {"part", "empty"}
      /\ x.gen = y.gen /\ x.mode = y.mode /\ (y.kind # "full" => x.kind = "empty")
  BY DEF Shrink, Dirs, Kinds
<1>1. /\ e \in Disks /\ e.setup = q.setup
      /\ \A n \in Names : e.dir[n] = IF q.dir[n].ino = y.ino THEN x ELSE q.dir[n]
  BY <1>0, RewriteFacts DEF Shape
<1> HIDE DEF x, e
<1>2. \A n \in Names : /\ q.dir[n].ino = y.ino => q.dir[n] = y /\ e.dir[n] = x
                       /\ q.dir[n].ino # y.ino => e.dir[n] = q.dir[n]
  BY <1>1
<1>3. Tidy(e, g)
  BY <1>0, <1>2 DEF Shape, Tidy, Gone, Present
<1>4. /\ Present(e.dir["new"]) = Present(q.dir["new"]) /\ Present(e.dir["db"]) = Present(q.dir["db"])
      /\ Present(e.dir["old"]) = Present(q.dir["old"]) /\ Present(e.dir["tmp"]) = Present(q.dir["tmp"])
  BY <1>0, <1>2 DEF Names, Present
<1>5. Present(q.dir["new"]) => Survivor(q) = q.dir["new"] /\ e.dir["new"] = q.dir["new"]
  <2>1. Present(q.dir["new"]) => Survivor(q) = q.dir["new"]
    BY SurvivorCases DEF Installed, In, Gone
  <2> QED BY <1>2, <2>1 DEF Names
<1>6. \/ Current(e) = Current(q)
      \/ Current(e) = 0 /\ q.dir["db"].ino = y.ino /\ Current(q) = y.gen /\ e.dir["db"].kind = "empty"
  BY <1>0, <1>2 DEF Current, ReadGeneration, Names
<1>7. ASSUME ~NoJ(q)
      PROVE  /\ q.dir["db"].ino = y.ino => ~Installed(q) /\ ~In(q, "BuildReplacement")
             /\ 0 < q.setup.old /\ 0 < q.setup.new
  BY <1>7, SurvivorCases, DiskTypes DEF Shape, Journaled, Journals
<1>8. Survivor(e) = Survivor(q)
  <2>1. CASE NoJ(q)
    <3>1. NoJ(e) BY <1>1, <2>1 DEF NoJ
    <3>2. Survivor(e) = IF Present(e.dir["new"]) THEN e.dir["new"] ELSE e.dir["db"]
      BY <3>1 DEF Survivor, NoJ
    <3>3. Survivor(q) = IF Present(q.dir["new"]) THEN q.dir["new"] ELSE q.dir["db"]
      BY <2>1 DEF Survivor, NoJ
    <3> QED BY <1>2, <1>4, <1>5, <3>2, <3>3 DEF Names
  <2>2. CASE Installed(q)
    <3>1. Survivor(q) = q.dir["db"] /\ ~NoJ(q)
      BY <2>2, SurvivorCases DEF Installed
    <3>2. e.dir["db"] = q.dir["db"]
      BY <1>2, <3>1 DEF Names
    <3> QED BY <1>1, <2>2, <3>1, <3>2 DEF Survivor, Installed, Current, NoJ
  <2>3. CASE ~NoJ(q) /\ ~Installed(q)
    <3>1. Current(e) # q.setup.new /\ Current(q) # q.setup.new
      BY <1>6, <1>7, <2>3 DEF Installed
    <3>2. CASE In(q, "BuildReplacement")
      BY <1>1, <1>2, <1>7, <2>3, <3>2 DEF Survivor, In, Names, NoJ
    <3>3. CASE ~In(q, "BuildReplacement") /\ Present(q.dir["new"])
      BY <1>1, <1>4, <1>5, <2>3, <3>1, <3>3 DEF Survivor, In, NoJ, Current
    <3>4. CASE ~In(q, "BuildReplacement") /\ ~Present(q.dir["new"])
      <4>1. q.setup.phase = "InstallNew" => e.dir["tmp"] = q.dir["tmp"]
        <5>1. q.setup.phase = "InstallNew" => Survivor(q) = q.dir["tmp"]
          BY <2>3, <3>4, SurvivorCases DEF In, Gone
        <5> QED BY <1>2, <5>1 DEF Names
      <4> QED BY <1>1, <1>4, <2>3, <3>1, <3>4, <4>1 DEF Survivor, In, NoJ, Current
    <3> QED BY <3>2, <3>3, <3>4
  <2> QED BY <2>1, <2>2, <2>3
<1>9. ASSUME ~NoJ(q) PROVE Journaled(e, g)
  <2>1. Installed(e) = Installed(q) /\ ~NoJ(e)
    BY <1>1, <1>6, <1>7, <1>9 DEF Installed, NoJ
  <2>2. q.setup.phase = "BuildReplacement" => Current(e) = Current(q)
    BY <1>6, <1>7, <1>9 DEF In
  <2>3. Present(q.dir["old"]) => e.dir["old"].kind = "empty" \/ ReadGeneration(e.dir["old"]) = q.setup.old
    BY <1>0, <1>2, <1>9 DEF Shape, Journaled, PreflightSetup, ReadGeneration, Names
  <2>4. Present(q.dir["tmp"]) => e.dir["tmp"].kind = "empty" \/ ReadGeneration(e.dir["tmp"]) = q.setup.new
    BY <1>0, <1>2, <1>9 DEF Shape, Journaled, PreflightSetup, ReadGeneration, Names
  <2>5. q.setup.phase = "InstallNew" /\ Current(q) # q.setup.new /\ ~Present(q.dir["new"])
          => e.dir["tmp"] = q.dir["tmp"]
    <3>1. q.setup.phase = "InstallNew" /\ Current(q) # q.setup.new /\ ~Present(q.dir["new"])
            => Survivor(q) = q.dir["tmp"]
      BY <1>9, SurvivorCases DEF In, Gone, Installed
    <3> QED BY <1>2, <3>1 DEF Names
  <2>6. Current(e) # 0 => Current(e) = Current(q)
    BY <1>6
  <2>7. Current(e) = 0 => e.dir["db"].kind \in {"absent", "empty"}
    BY <1>1, <1>2, <1>6, <1>9 DEF Shape, Journaled, PreflightSetup, Current, Names
  <2>8. PreflightSetup(e, e.setup)
    BY <1>1, <1>4, <1>5, <1>6, <1>7, <1>9, <2>1, <2>2, <2>3, <2>4, <2>5, <2>6, <2>7
       DEF Shape, Journaled, PreflightSetup, Current, Installed
  <2> QED BY <1>1, <1>4, <1>9, <2>1, <2>8 DEF Shape, Journaled, Gone
<1>10. Journaled(e, g)
  BY <1>1, <1>9 DEF Journaled, NoJ
<1>11. Whole(e)
  BY <1>1, <1>4, <1>5, <1>8 DEF Shape, Whole, NoJ
<1> QED BY <1>1, <1>3, <1>8, <1>10, <1>11 DEF Shape, Survives, e, x

-----------------------------------------------------------------------------
(* A directory identity for private_directory is always there. *)
LEMMA FreshInoFacts ==
    ASSUME Rooted
    PROVE  /\ FreshIno \in Nat /\ FreshIno # 0 /\ FreshIno \notin Inos(disk)
           /\ \A p \in past : FreshIno \notin Inos(p)
<1> DEFINE used == Inos(disk) \cup UNION {Inos(p) : p \in past}
<1>1. ASSUME NEW d PROVE IsFiniteSet(Inos(d))
  <2> DEFINE I(n) == d.dir[n].ino
  <2>1. IsFiniteSet({I("db")})
    BY FS_Singleton
  <2>2. IsFiniteSet({I("db")} \cup {I("tmp")})
    BY <2>1, FS_AddElement
  <2>3. IsFiniteSet(({I("db")} \cup {I("tmp")}) \cup {I("new")})
    BY <2>2, FS_AddElement
  <2>4. IsFiniteSet((({I("db")} \cup {I("tmp")}) \cup {I("new")}) \cup {I("old")})
    BY <2>3, FS_AddElement
  <2>5. Inos(d) = (({I("db")} \cup {I("tmp")}) \cup {I("new")}) \cup {I("old")}
    BY DEF Inos, Names
  <2> QED BY <2>4, <2>5
<1>2. IsFiniteSet({Inos(p) : p \in past})
  <2> DEFINE f == [p \in past |-> Inos(p)]
  <2>1. f \in Surjection(past, {Inos(p) : p \in past})
    BY DEF Surjection
  <2> HIDE DEF f
  <2> QED BY <2>1, FS_Surjection DEF Rooted
<1>3. IsFiniteSet(used)
  <2>1. IsFiniteSet(UNION {Inos(p) : p \in past})
    BY <1>1, <1>2, FS_UNION
  <2> QED BY <1>1, <2>1, FS_Union
<1> HIDE DEF used
<1>4. \E i \in 1..(Cardinality(used) + 1) : i \notin used
  <2>1. Cardinality(used) \in Nat
    BY <1>3, FS_CardinalityType
  <2> DEFINE I == 1..(Cardinality(used) + 1)
  <2>2. Cardinality(I) = Cardinality(used) + 1
    BY <2>1, FS_Interval
  <2>3. ASSUME I \subseteq used PROVE FALSE
    <3>1. Cardinality(I) <= Cardinality(used)
      BY <1>3, <2>3, FS_Subset
    <3> QED BY <2>1, <2>2, <3>1
  <2> QED BY <2>3
<1>5. FreshIno \in 1..(Cardinality(used) + 1) /\ FreshIno \notin used
  BY <1>4 DEF FreshIno, used
<1>6. Cardinality(used) \in Nat
  BY <1>3, FS_CardinalityType
<1> QED BY <1>5, <1>6 DEF used

(* Staging is written to: recovery does not look at it. *)
LEMMA StageSurvives ==
    ASSUME NEW q, NEW g \in Nat, Shape(q, g), NEW i \in Nat, i # 0, NEW x \in Dirs,
           x.ino = i, x.kind \in {"part", "full"}, x.kind = "part" => x.rows = {},
           0 < x.gen, x.gen < g, Survivor(q).ino # i,
           \A n \in Names : q.dir[n].ino = i => n = "tmp",
           ~NoJ(q) /\ q.dir.tmp.ino = i => x.gen = q.setup.new
    PROVE  Survives(q, Rewrite(q, i, x), g)
<1> DEFINE e == Rewrite(q, i, x)
<1>1. /\ e \in Disks /\ e.setup = q.setup
      /\ e.dir["db"] = q.dir["db"] /\ e.dir["new"] = q.dir["new"] /\ e.dir["old"] = q.dir["old"]
      /\ e.dir["tmp"] = IF q.dir["tmp"].ino = i THEN x ELSE q.dir["tmp"]
  BY RewriteFacts DEF Shape, Names
<1> HIDE DEF e
<1>2. CASE q.dir["tmp"].ino # i
  <2>1. e.dir = q.dir
    <3>1. \A n \in Names : e.dir[n] = q.dir[n]
      BY <1>1, <1>2 DEF Names
    <3> QED BY <1>1, <3>1 DEF Shape, Disks
  <2>2. e = q
    BY <1>1, <2>1 DEF Shape, Disks
  <2> QED BY <2>2 DEF Survives, e
<1>3. CASE q.dir["tmp"].ino = i
  <2>1. Present(q.dir["tmp"]) /\ Present(x)
    BY <1>3, AbsentType DEF Shape, Tidy, Names, Gone, Present
  <2>2. Tidy(e, g)
    BY <1>1, <1>3, <2>1 DEF Shape, Tidy, Names, Gone, Present
  <2>3. Survivor(q) # q.dir["tmp"]
    BY <1>3
  <2>4. Survivor(e) = Survivor(q)
    BY <1>1, <2>3 DEF Survivor
  <2>5. ~(In(q, "InstallNew") /\ ~Installed(q) /\ Gone(q, "new"))
    BY <2>3, SurvivorCases
  <2>6. Journaled(e, g)
    BY <1>1, <1>3, <2>1, <2>5
       DEF Shape, Journaled, PreflightSetup, NoJ, In, Installed, Current, Gone, ReadGeneration
  <2>7. Whole(e)
    BY <1>1, <2>4 DEF Shape, Whole, NoJ
  <2> QED BY <1>1, <2>2, <2>4, <2>6, <2>7 DEF Shape, Survives, e
<1> QED BY <1>2, <1>3

(* create_database and the generation.json of a first database. *)
LEMMA FirstDb ==
    ASSUME NEW q, NEW g \in Nat, Shape(q, g), Survivor(q).kind \in {"empty", "bare"}
    PROVE  NoJ(q) /\ Gone(q, "new") /\ q.dir.db = Survivor(q)
<1>1. NoJ(q)
  BY SurvivorCases DEF Staging, Absent, Gone, Present
<1> QED BY <1>1, SurvivorCases DEF Shape, Whole, Gone

LEMMA CreateSurvives ==
    ASSUME NEW q, NEW g \in Nat, NEW h \in Nat, g <= h, Shape(q, g), NEW y, y = Survivor(q),
           y.kind \in {"empty", "bare"}, NEW x \in Dirs, x.ino = y.ino, x.rows = {},
           x.kind \in {"bare", "full"}, 0 < x.gen, x.gen < h
    PROVE  Shape(Rewrite(q, y.ino, x), h) /\ Survivor(Rewrite(q, y.ino, x)) = x
<1> DEFINE e == Rewrite(q, y.ino, x)
<1>0. NoJ(q) /\ Gone(q, "new") /\ q.dir["db"] = y /\ Present(y)
  BY FirstDb DEF Present
<1>1. /\ e \in Disks /\ e.setup = q.setup
      /\ \A n \in Names : e.dir[n] = IF q.dir[n].ino = y.ino THEN x ELSE q.dir[n]
  BY RewriteFacts DEF Shape
<1>2. /\ e.dir["db"] = x /\ e.dir["new"] = q.dir["new"] /\ e.dir["old"] = q.dir["old"]
      /\ e.dir["tmp"] = q.dir["tmp"]
  BY <1>0, <1>1 DEF Shape, Tidy, Names
<1> HIDE DEF e
<1>3. Shape(q, h)
  BY ShapeMono
<1>4. Tidy(e, h)
  BY <1>0, <1>2, <1>3 DEF Shape, Tidy, Names, Gone, Present
<1>5. NoJ(e) /\ Survivor(e) = x
  BY <1>0, <1>1, <1>2 DEF NoJ, Survivor, Gone
<1>6. Journaled(e, h)
  BY <1>5 DEF Journaled
<1>7. Whole(e)
  BY <1>0, <1>2, <1>5 DEF Whole, Gone
<1> QED BY <1>1, <1>4, <1>5, <1>6, <1>7 DEF Shape, e

(* A write transaction. *)
LEMMA SaveSurvives ==
    ASSUME NEW q, NEW g \in Nat, Shape(q, g), NEW y \in Dirs, y = Survivor(q), y.kind = "full",
           y.ino # 0, \A n \in Names : q.dir[n].ino = y.ino => q.dir[n] = y,
           NEW x \in Dirs, x.ino = y.ino, x.kind = y.kind, x.gen = y.gen, x.mode = y.mode
    PROVE  Shape(Rewrite(q, y.ino, x), g) /\ Survivor(Rewrite(q, y.ino, x)) = x
<1> DEFINE e == Rewrite(q, y.ino, x)
<1>1. /\ e \in Disks /\ e.setup = q.setup
      /\ \A n \in Names : e.dir[n] = IF q.dir[n].ino = y.ino THEN x ELSE q.dir[n]
  BY RewriteFacts DEF Shape
<1> HIDE DEF e
<1>2. \A n \in Names : /\ e.dir[n].ino = q.dir[n].ino /\ e.dir[n].kind = q.dir[n].kind
                       /\ e.dir[n].gen = q.dir[n].gen /\ e.dir[n].mode = q.dir[n].mode
                       /\ e.dir[n] = q.dir[n] \/ e.dir[n] = x
                       /\ q.dir[n] = y => e.dir[n] = x
  BY <1>1
<1>3. Tidy(e, g)
  <2>1. \A n \in Names : Gone(e, n) => e.dir[n] = Absent
    BY <1>2 DEF Shape, Tidy, Gone, Present
  <2>2. \A n \in Names : e.dir[n].kind # "full" => e.dir[n].rows = {}
    BY <1>2 DEF Shape, Tidy
  <2>3. \A n \in Names : Present(e.dir[n]) <=> Present(q.dir[n])
    BY <1>2 DEF Present
  <2> QED BY <1>2, <2>1, <2>2, <2>3 DEF Shape, Tidy
<1>4. /\ e.dir["db"].kind = q.dir["db"].kind /\ e.dir["tmp"].kind = q.dir["tmp"].kind
      /\ e.dir["new"].kind = q.dir["new"].kind /\ e.dir["old"].kind = q.dir["old"].kind
      /\ e.dir["db"].gen = q.dir["db"].gen /\ e.dir["tmp"].gen = q.dir["tmp"].gen
      /\ e.dir["new"].gen = q.dir["new"].gen /\ e.dir["old"].gen = q.dir["old"].gen
  BY <1>2 DEF Names
<1>5. Journaled(e, g)
  BY <1>1, <1>4 DEF Shape, Journaled, PreflightSetup, NoJ, Installed, Current, Gone, Present, ReadGeneration
<1>6. Survivor(e) = x
  <2>1. /\ q.dir["db"] = y => e.dir["db"] = x
        /\ q.dir["new"] = y => e.dir["new"] = x
        /\ q.dir["tmp"] = y => e.dir["tmp"] = x
    BY <1>2 DEF Names
  <2>2. y # Absent
    BY AbsentType
  <2>3. ReadGeneration(e.dir["db"]) = ReadGeneration(q.dir["db"]) /\ Present(e.dir["new"]) = Present(q.dir["new"])
    BY <1>4 DEF ReadGeneration, Present
  <2> QED BY <1>1, <2>1, <2>2, <2>3 DEF Survivor
<1>7. Whole(e)
  BY <1>1, <1>4, <1>6 DEF Shape, Whole, NoJ, Present
<1> QED BY <1>1, <1>3, <1>5, <1>6, <1>7 DEF Shape, e

-----------------------------------------------------------------------------
(* What holds of the disk when a step comes up, whatever the program. *)

Staged ==
    \/ op = "export" /\ state = "Maintenance" /\ NoJ(disk) /\ Gone(disk, "new") /\ Gone(disk, "old")
         /\ Db.kind = "full"
    \/ In(disk, "BuildReplacement") /\ state = "Maintenance"
    \/ In(disk, "AwaitChoice") /\ op \notin {"export", "salvage"}

Ready ==
    /\ At("discard") => ~In(disk, "InstallNew") /\ ~Installed(disk)
    /\ At("mktmp") => Staged /\ Gone(disk, "tmp")
    /\ At("tag") => Staged /\ disk.dir.tmp.kind = "empty"
    /\ At("fill") => Staged /\ disk.dir.tmp.kind = "part" /\ disk.dir.tmp.gen = TagGen
    /\ At("install_new") =>
         /\ Staging(disk, disk.setup.new)
         /\ IF op = "salvage"
              THEN /\ In(disk, "BuildReplacement") /\ disk.dir.tmp.rows \subseteq Db.rows
                   /\ disk.setup.old \in att /\ disk.dir.tmp.rows # {} => disk.setup.new \in att
              ELSE In(disk, "AwaitChoice") /\ disk.dir.tmp.rows = {}
    /\ At("commit") =>
         IF op = "export"
           THEN /\ Staged /\ Staging(disk, Db.gen) /\ disk.dir.tmp.rows = Db.rows
                /\ ~ctl.cancelled /\ ~ctl.cancellable /\ NoJ(disk)
           ELSE In(disk, "InstallNew") /\ ~Installed(disk) /\ Gone(disk, "new")
    /\ At("retire_db") => ~NoJ(disk) /\ Replaced(disk)
    /\ At("swap_old") => Replaced(disk) /\ Present(disk.dir.new)
    /\ At("swap_new") => Present(disk.dir.new)
    /\ At("att_old") => Installed(disk) \/ In(disk, "RetireOld") \/ In(disk, "AwaitChoice")
    /\ At("att_new") => In(disk, "BuildReplacement")
    /\ At("att_copy") => In(disk, "BuildReplacement") /\ state = "Maintenance"
    /\ At("await") => In(disk, "RetireOld")
    /\ At("mark") => Installed(disk)
    /\ At("unmark") => Installed(disk) /\ Gone(disk, "old")
    /\ At("publish") => NoJ(disk) /\ Db.kind = "full" /\ state = "Maintenance"
    /\ At("supersede") => In(disk, "BuildReplacement") /\ state = "Maintenance"
    /\ At("quarantine") => state = "Damaged"
    /\ At("freeze") => ~committed
    /\ At("intent") => ~ctl.cancelled /\ ~ctl.cancellable
    /\ At("create") => Retired /\ Present(Db)
    /\ At("name") => Retired \/ op = "rollback"
    /\ At("name") => NoJ(disk) /\ Gone(disk, "new") /\ Db.kind \in {"bare", "full"}
    /\ At("open") => Retired /\ Db.kind = "full"
    /\ At("none") => Retired /\ Present(Db) /\ op \in Recovering /\ (op # "boot" => Db.kind = "full")
    /\ At("pending") =>
         /\ In(disk, "BuildReplacement") \/ (In(disk, "AwaitChoice") /\ Erased)
         /\ op = "reset" => state = "Maintenance"
    /\ At("needs_setup") => In(disk, "AwaitChoice") /\ Erased /\ op = "reset"
    /\ At("recover") =>
         /\ op \in Recovering /\ (op = "reset" => state = "Maintenance")
         /\ NoJ(disk) => Present(Db) /\ (op # "boot" => Retired /\ Db.kind = "full")
    /\ At("prepare") => state = "Maintenance"

(* A source given up and gone leaves nothing behind. *)
LEMMA GivenUp ==
    ASSUME Types, Rooted, ~NoJ(disk), disk.setup.old \notin att, Gone(disk, "db"), Gone(disk, "old"),
           Gone(disk, "new")
    PROVE  Erased
<1>1. Shape(disk, nextGen) /\ disk.setup.old # 0 /\ disk.setup.old # disk.setup.new
  <2>1. Shape(disk, nextGen) /\ disk.setup \in Journals
    BY DiskTypes DEF Rooted, Shape
  <2> QED BY <2>1 DEF Shape, Journaled, Journals
<1>2. ReadGeneration(disk.dir["db"]) = 0 /\ ReadGeneration(disk.dir["old"]) = 0 /\ ReadGeneration(disk.dir["new"]) = 0
  BY DEF Gone, ReadGeneration, Present
<1>3. ReadGeneration(disk.dir["tmp"]) \in {0, disk.setup.new}
  BY <1>1 DEF Shape, Journaled, PreflightSetup, ReadGeneration, Present
<1> QED BY <1>1, <1>2, <1>3 DEF Erased, Names

LEMMA ReplacingFacts ==
    ASSUME NEW n \in Nat, Replacing(n)
    PROVE  /\ n \in {9, 10} => In(disk, "InstallNew") /\ ~Installed(disk) /\ Gone(disk, "new")
           /\ n \in {7, 8} => In(disk, "InstallNew") /\ Present(disk.dir.new)
           /\ n \in {2, 3, 4, 5, 6} => Installed(disk)
           /\ n \in {2, 3} => Gone(disk, "old")
           /\ n = 1 => Retired /\ Db.kind = "full"
  BY DEF Replacing

LEMMA ReadyNow ==
    ASSUME Types, Rooted, Running
    PROVE  Ready
<1>0. todo \in Seq(Steps) /\ nextGen \in Nat /\ Shape(disk, nextGen) /\ Left \in Nat
  BY DEF Types, Rooted, Left
<1> USE <1>0 DEF At
<1>b. /\ In(disk, "BuildReplacement") => ~Installed(disk)
      /\ In(disk, "RetireOld") \/ In(disk, "AwaitChoice") => ~Installed(disk) /\ Gone(disk, "new")
      /\ Present(disk.dir.new) /\ ~NoJ(disk) => In(disk, "InstallNew") /\ ~Installed(disk)
      /\ NoJ(disk) => ~Installed(disk)
  BY SurvivorCases DEF Installed, In, Gone
<1>1. CASE todo = <<>>
  BY <1>1 DEF Ready
<1>2. CASE Boots
  BY <1>2, BootStepsAt DEF Boots, Ready
<1>3. CASE Conflicts
  BY <1>3 DEF Conflicts, Ready
<1>4. CASE Resumes
  BY <1>4, <1>b, ResumeStepsAt DEF Resumes, Ready, Replacing, Replaced, Recovering, In, Installed, Retired, Present
<1>5. CASE ResumesNew
  <2>1. /\ op \in Recovering /\ Left \in Nat
        /\ Left \in {7, 8, 9} => In(disk, "InstallNew") /\ Present(disk.dir.new)
        /\ Left \in 2..6 => Installed(disk)
        /\ Left \in {2, 3} => Gone(disk, "old")
        /\ Left = 1 => Retired /\ Db.kind = "full"
    BY <1>5, ResumeNewStepsAt DEF ResumesNew, Replacing
  <2> QED BY <1>5, <1>b, <2>1, ResumeNewStepsAt DEF ResumesNew, Ready, Replaced, Recovering, In, Present
<1>6. CASE SetsUp
  <2>1. op \in Recovering /\ op \notin {"export", "salvage"}
    BY <1>6 DEF SetsUp, Recovering
  <2>2. CASE Left >= 10
    BY <1>6, <1>b, <2>1, <2>2, CompleteSetupAt DEF SetsUp, Ready, Staged, In, TagGen, NoJ
  <2>3. CASE Left < 10
    <3>1. Replacing(Left)
      BY <1>6, <2>3 DEF SetsUp
    <3>2. (Left = 9 /\ At("commit")) \/ (Left = 8 /\ At("swap_old")) \/ (Left = 7 /\ At("swap_new")) \/
          (Left = 6 /\ At("drop_old")) \/ (Left = 5 /\ At("att_old")) \/ (Left = 4 /\ At("drop_old")) \/
          (Left = 3 /\ At("mark")) \/ (Left = 2 /\ At("unmark")) \/ (Left = 1 /\ At("open"))
      BY <1>6, <2>3, CompleteSetupAt DEF SetsUp
    <3> QED BY <1>b, <2>1, <3>1, <3>2, ReplacingFacts DEF Ready, Replaced, In
  <2> QED BY <2>2, <2>3
<1>7. CASE Salvages
  <2>1. Ends(InstallSalvaged) /\ op = "salvage"
    BY <1>7 DEF Salvages
  <2>2. CASE Left >= 18
    <3>1. (Left = 24 /\ At("quarantine")) \/ (Left = 23 /\ At("freeze")) \/ (Left = 22 /\ At("check")) \/
          (Left = 21 /\ At("discard")) \/ (Left = 20 /\ At("mktmp")) \/ (Left = 19 /\ At("tag")) \/
          (Left = 18 /\ At("fill"))
      BY <2>1, <2>2, InstallSalvagedAt
    <3>2. ~committed /\ IF Left >= 23 THEN state = "Damaged" ELSE state = "Maintenance"
      BY <1>7, <2>2 DEF Salvages
    <3>3. /\ Left \in {18, 19, 20, 21, 22} => In(disk, "BuildReplacement")
          /\ Left = 20 => Gone(disk, "tmp")
          /\ Left = 19 => disk.dir.tmp.kind = "empty"
          /\ Left = 18 => disk.dir.tmp.kind = "part" /\ disk.dir.tmp.gen = disk.setup.new
      BY <1>7 DEF Salvages
    <3> QED BY <1>b, <3>1, <3>2, <3>3 DEF Ready, Staged, In, TagGen, NoJ
  <2>3. CASE Left < 18 /\ Left >= 11
    <3>1. (Left = 17 /\ At("check")) \/ (Left = 16 /\ At("att_copy")) \/ (Left = 15 /\ At("check")) \/
          (Left = 14 /\ At("seal")) \/ (Left = 13 /\ At("check")) \/ (Left = 12 /\ At("intent")) \/
          (Left = 11 /\ At("install_new"))
      BY <2>1, <2>3, InstallSalvagedAt
    <3> QED BY <1>7, <1>b, <3>1 DEF Salvages, Ready, In
  <2>4. CASE Left < 11
    <3>1. Replacing(Left)
      BY <1>7, <2>4 DEF Salvages
    <3>2. (Left = 10 /\ At("retire_db")) \/
          (Left = 9 /\ At("commit")) \/ (Left = 8 /\ At("swap_old")) \/ (Left = 7 /\ At("swap_new")) \/
          (Left = 6 /\ At("drop_old")) \/ (Left = 5 /\ At("att_old")) \/ (Left = 4 /\ At("drop_old")) \/
          (Left = 3 /\ At("mark")) \/ (Left = 2 /\ At("unmark")) \/ (Left = 1 /\ At("open"))
      BY <2>1, <2>4, InstallSalvagedAt
    <3> QED BY <1>b, <2>1, <3>1, <3>2, ReplacingFacts DEF Ready, Replaced, In
  <2> QED BY <2>2, <2>3, <2>4
<1>8. CASE Exports
  BY <1>8, <1>b, ExportSwapAt DEF Exports, Ready, Staged, Replaced, TagGen, NoJ, Retired, ReadGeneration
<1>9. CASE RollsBack
  BY <1>9, <1>b, RollbackStepsAt DEF RollsBack, Ready, Retired, In
<1>10. CASE CleansUp
  BY <1>10, <1>b, CleanupStepsAt DEF CleansUp, Ready, In
<1>11. CASE Quarantines
  BY <1>11, DamageStepsAt, RepairStepsAt DEF Quarantines, Ready
<1>12. CASE Opens
  BY <1>12, OpenStepsAt DEF Opens, Ready, Retired
<1>13. CASE Resets
  <2>1. /\ In(disk, "AwaitChoice") /\ Left = 1 => Erased
    BY <1>13, <1>b, GivenUp DEF Resets, Erasing, In
  <2> QED BY <1>13, <1>b, <2>1, PublishStepsAt, SupersedeStepsAt DEF Resets, Ready, Replaced, In
<1>14. CASE ResetsAgain
  <2>1. Left = 1 => Erased
    BY <1>14, <1>b, GivenUp DEF ResetsAgain, Erasing, In
  <2> QED BY <1>14, <1>b, <2>1, ResetStepsAt DEF ResetsAgain, Ready, Replaced, In
<1>15. CASE Retires
  <2>1. Left \in {1, 2} => Erased
    BY <1>15, <1>b, GivenUp DEF Retires, Erasing, In
  <2> QED BY <1>15, <1>b, <2>1, RetireStepsAt DEF Retires, Ready, Replaced, In
<1>16. CASE RetiresAgain
  <2>1. Left = 1 => Erased
    BY <1>16, <1>b, GivenUp DEF RetiresAgain, Erasing, In
  <2> QED BY <1>16, <1>b, <2>1, RetiredStepsAt DEF RetiresAgain, Ready, Replaced, In
<1>17. CASE Cleanses
  BY <1>17, <1>b, CleanseStepsAt DEF Cleanses, Ready, In
<1>18. CASE SwapsIn
  BY <1>18, <1>b, SwapStepsAt DEF SwapsIn, Ready, Replaced, Retired, In, Gone, Recovering
<1>19. CASE DropsOld
  BY <1>19, <1>b, DropStepsAt, DiscardStepsAt DEF DropsOld, Ready, Retired, In, Gone
<1> QED
  BY <1>1, <1>2, <1>3, <1>4, <1>5, <1>6, <1>7, <1>8, <1>9, <1>10, <1>11, <1>12, <1>13, <1>14, <1>15, <1>16,
     <1>17, <1>18, <1>19 DEF Running

-----------------------------------------------------------------------------
(* What the step at the head of the program makes of the disk. *)

Same(N) == disk'.setup = disk.setup /\ \A n \in N : disk'.dir[n] = disk.dir[n]

(* The rows a restart finds are the same. *)
Steady == Survivor(disk').rows = Survivor(disk).rows

Moved ==
    /\ At("prepare") => Same({"tmp", "new", "old"}) /\ Present(disk'.dir.db) /\ ReadGeneration(disk'.dir.db) \in {0, Current(disk)}
    /\ At("discard") => Same({"db", "new", "old"}) /\ disk'.dir.tmp = Absent
    /\ At("mktmp") => Same({"db", "new", "old"}) /\ disk'.dir.tmp.kind = "empty"
    /\ At("tag") => Same({"db", "new", "old"}) /\ disk'.dir.tmp.kind = "part" /\ disk'.dir.tmp.gen = TagGen
    /\ At("fill") => /\ Same({"db", "new", "old"}) /\ disk'.dir.tmp.kind = "full"
                     /\ disk'.dir.tmp.gen = disk.dir.tmp.gen /\ disk'.dir.tmp.rows \in StagedRows
    /\ At("drop_old") => Same({"db", "new", "tmp"}) /\ disk'.dir.old = Absent
    /\ At("retire_db") \/ At("swap_old") =>
         /\ Same({"tmp", "new"}) /\ disk'.dir.db = Absent
         /\ disk'.dir.old = disk.dir.old \/ disk'.dir.old = Db
    /\ At("commit") => Same({"db", "old"}) /\ disk'.dir.new = disk.dir.tmp /\ disk'.dir.tmp = Absent
    /\ At("swap_new") => Same({"tmp", "old"}) /\ disk'.dir.db = disk.dir.new /\ disk'.dir.new = Absent
    /\ At("create") => /\ Same({"tmp", "new", "old"}) /\ disk'.dir.db.kind \in {"bare", "full"}
                       /\ disk.dir.db.kind = "full" => disk'.dir.db.kind = "full"
    /\ At("name") => Same({"tmp", "new", "old"}) /\ disk'.dir.db.kind = "full"
    /\ At("publish") => disk'.dir = disk.dir /\ In(disk', "RetireOld")
    /\ At("supersede") => disk'.dir = disk.dir /\ In(disk', "RetireOld")
    /\ At("quarantine") => disk'.dir = disk.dir /\ In(disk', "BuildReplacement")
    /\ At("await") => disk'.dir = disk.dir /\ In(disk', "AwaitChoice") /\ disk'.setup.old = disk.setup.old
    /\ At("install_new") => /\ disk'.dir = disk.dir /\ In(disk', "InstallNew")
                            /\ disk'.setup.old = disk.setup.old /\ disk'.setup.new = disk.setup.new
    /\ At("mark") => /\ disk'.dir = disk.dir /\ In(disk', "Installed")
                     /\ disk'.setup.old = disk.setup.old /\ disk'.setup.new = disk.setup.new
    /\ At("unmark") => disk'.dir = disk.dir /\ NoJ(disk')

(* A root directory e that has the old directories, or a new one i, under   *)
(* its names, is still behind nothing new.                                  *)
LEMMA BehindMoves ==
    ASSUME Rooted, NEW e \in Disks, Survivor(e) = Survivor(disk),
           NEW i, i \notin Inos(disk), \A p \in past : i \notin Inos(p),
           \A n \in Names : \/ ~Present(e.dir[n]) \/ e.dir[n].ino = i
                            \/ \E k \in Names : e.dir[n] = disk.dir[k] /\ (n = "tmp" => k = "tmp"),
           Present(e.dir.tmp) /\ e.dir.tmp.ino # i /\ ~NoJ(disk) => ~NoJ(e) /\ e.setup.new = disk.setup.new
    PROVE  \A p \in past \cup {disk} : Behind(p, e)
<1> SUFFICES ASSUME NEW p \in past \cup {disk} PROVE Behind(p, e)
  OBVIOUS
<1>1. Survivor(p) = Survivor(e)
  BY DEF Rooted, Behind
<1>2. ASSUME NEW m \in Names, NEW k \in Names, Present(disk.dir[k]), p.dir[m].ino = disk.dir[k].ino
      PROVE  p.dir[m] = disk.dir[k] /\ (k = "tmp" => m = "tmp")
  <2>1. CASE p = disk
    BY <1>2, <2>1 DEF Rooted, Shape, Tidy
  <2>2. CASE p \in past
    BY <1>2, <2>2 DEF Rooted, Behind
  <2> QED BY <2>1, <2>2
<1>3. \A m \in Names : p.dir[m].ino # i
  BY DEF Inos
<1>4. ASSUME NEW m \in Names, NEW n \in Names, Present(e.dir[n]), p.dir[m].ino = e.dir[n].ino
      PROVE  p.dir[m] = e.dir[n] /\ (n = "tmp" => m = "tmp")
  <2>1. PICK k \in Names : e.dir[n] = disk.dir[k] /\ (n = "tmp" => k = "tmp")
    BY <1>3, <1>4
  <2> QED BY <1>2, <1>4, <2>1
<1>5. ASSUME Present(e.dir.tmp), p.dir.tmp.ino = e.dir.tmp.ino, ~NoJ(p)
      PROVE  ~NoJ(e) /\ p.setup.new = e.setup.new
  <2>1. e.dir["tmp"].ino # i
    BY <1>3, <1>5 DEF Names
  <2>2. PICK k \in Names : e.dir["tmp"] = disk.dir[k] /\ k = "tmp"
    BY <1>5, <2>1 DEF Names
  <2>3. e.dir["tmp"] = disk.dir["tmp"]
    BY <2>2
  <2>4. ~NoJ(disk) /\ p.setup.new = disk.setup.new
    BY <1>5, <2>3 DEF Rooted, Behind
  <2> QED BY <1>5, <2>1, <2>4
<1> QED BY <1>1, <1>4, <1>5 DEF Behind

(* A change that leaves the survivor alone keeps the rows. *)
LEMMA SurvivesKept ==
    ASSUME Kept, Survivor(disk') = Survivor(disk), att' = att, saved' \subseteq saved
    PROVE  Kept'
  BY DEF Kept

-----------------------------------------------------------------------------
(* One root step: the shape, the rows and what a power failure brings back. *)

Carried == \A p \in past \cup {disk} : Shape(p, nextGen') /\ Behind(p, disk')

LEMMA PlaceholderFacts ==
    ASSUME NEW d \in Disks
    PROVE  LET e == SetDir(d, "db", Absent) IN
           /\ e.setup = d.setup /\ e.dir["db"] = Absent /\ e.dir["tmp"] = d.dir["tmp"]
           /\ e.dir["new"] = d.dir["new"] /\ e.dir["old"] = d.dir["old"]
  BY DEF SetDir, Disks, Names

LEMMA RootMktmp ==
    ASSUME Types, Rooted, Kept, Ready, ChangeRoot("mktmp"), UNCHANGED att
    PROVE  Moved /\ Shape(disk', nextGen') /\ Kept' /\ Carried
<1>0. /\ disk \in Disks /\ Shape(disk, nextGen) /\ nextGen \in Nat /\ nextGen' = nextGen
      /\ saved' = saved /\ At("mktmp") /\ ~Vacuous("mktmp") /\ StepChecks("mktmp") /\ disk' = RootEffect("mktmp")
  BY DEF Types, Rooted, Shape, ChangeRoot, Draws, SavedAfter
<1>d. disk \in Disks
  BY <1>0
<1>1. Survives(disk, disk', nextGen)
  <2>1. ~In(disk, "InstallNew") /\ ~Installed(disk)
    BY <1>0, SurvivorCases DEF Ready, Staged, In, Installed
  <2> QED BY <1>0, <2>1, FreshInoFacts, MktmpSurvives DEF RootEffect
<1>a. disk' = SetDir(disk, "tmp", EmptyDir(FreshIno)) /\ EmptyDir(FreshIno) \in Dirs
  BY <1>0, FreshInoFacts, EmptyDirType DEF RootEffect
<1>n. "tmp" \in Names
  BY DEF Names
<1>b. /\ disk'.setup = disk.setup /\ disk'.dir["tmp"] = EmptyDir(FreshIno)
      /\ \A m \in Names \ {"tmp"} : disk'.dir[m] = disk.dir[m]
  BY <1>a, <1>d, <1>n, SetDirFacts
<1>2. /\ disk'.setup = disk.setup /\ disk'.dir["tmp"] = EmptyDir(FreshIno)
      /\ disk'.dir["db"] = disk.dir["db"] /\ disk'.dir["new"] = disk.dir["new"] /\ disk'.dir["old"] = disk.dir["old"]
      /\ disk'.dir["tmp"].ino = FreshIno /\ disk'.dir["tmp"].kind = "empty"
  <2>1. EmptyDir(FreshIno).ino = FreshIno /\ EmptyDir(FreshIno).kind = "empty"
    BY FreshInoFacts, EmptyDirType
  <2> QED BY <1>b, <2>1 DEF Names
<1>3. Moved
  BY <1>0, <1>2 DEF Moved, At, Same, Db
<1>4. Carried
  <2>1. Survivor(disk') = Survivor(disk) /\ disk' \in Disks
    BY <1>1 DEF Survives, Shape
  <2>2. \A p \in past \cup {disk} : Behind(p, disk')
    <3>1. \A n \in Names : \/ ~Present(disk'.dir[n]) \/ disk'.dir[n].ino = FreshIno
                            \/ \E k \in Names : disk'.dir[n] = disk.dir[k] /\ (n = "tmp" => k = "tmp")
      BY <1>2, AbsentType DEF Names
    <3> QED BY <1>0, <1>2, <2>1, <3>1, FreshInoFacts, BehindMoves DEF NoJ
  <2> QED BY <1>0, <2>2 DEF Rooted, Carried
<1>5. Shape(disk', nextGen') /\ Kept'
  BY <1>0, <1>1, SurvivesKept DEF Survives
<1> QED BY <1>3, <1>4, <1>5

LEMMA RootDiscard ==
    ASSUME Types, Rooted, Kept, Ready, ChangeRoot("discard"), UNCHANGED att
    PROVE  Moved /\ Shape(disk', nextGen') /\ Kept' /\ Carried
<1>0. /\ disk \in Disks /\ Shape(disk, nextGen) /\ nextGen \in Nat /\ nextGen' = nextGen
      /\ saved' = saved /\ At("discard") /\ ~Vacuous("discard") /\ StepChecks("discard") /\ disk' = RootEffect("discard")
  BY DEF Types, Rooted, Shape, ChangeRoot, Draws, SavedAfter
<1>d. disk \in Disks
  BY <1>0
<1>1. Survives(disk, disk', nextGen)
  BY <1>0, DiscardSurvives DEF RootEffect, Ready
<1>a. disk' = SetDir(disk, "tmp", Absent) /\ Absent \in Dirs
  BY <1>0, AbsentType DEF RootEffect
<1>n. "tmp" \in Names
  BY DEF Names
<1>b. /\ disk'.setup = disk.setup /\ disk'.dir["tmp"] = Absent
      /\ \A m \in Names \ {"tmp"} : disk'.dir[m] = disk.dir[m]
  BY <1>a, <1>d, <1>n, SetDirFacts
<1>2. /\ disk'.setup = disk.setup /\ disk'.dir["tmp"] = Absent /\ ~Present(disk'.dir["tmp"])
      /\ disk'.dir["db"] = disk.dir["db"] /\ disk'.dir["new"] = disk.dir["new"] /\ disk'.dir["old"] = disk.dir["old"]
  BY <1>b, AbsentType DEF Names
<1>3. Moved
  BY <1>0, <1>2 DEF Moved, At, Same, Db
<1>4. Carried
  <2>1. Survivor(disk') = Survivor(disk) /\ disk' \in Disks
    BY <1>1 DEF Survives, Shape
  <2>2. \A p \in past \cup {disk} : Behind(p, disk')
    <3>1. \A n \in Names : \/ ~Present(disk'.dir[n]) \/ disk'.dir[n].ino = FreshIno
                            \/ \E k \in Names : disk'.dir[n] = disk.dir[k] /\ (n = "tmp" => k = "tmp")
      BY <1>2, AbsentType DEF Names
    <3> QED BY <1>0, <1>2, <2>1, <3>1, FreshInoFacts, BehindMoves DEF NoJ
  <2> QED BY <1>0, <2>2 DEF Rooted, Carried
<1>5. Shape(disk', nextGen') /\ Kept'
  BY <1>0, <1>1, SurvivesKept DEF Survives
<1> QED BY <1>3, <1>4, <1>5

LEMMA RootDropOld ==
    ASSUME Types, Rooted, Kept, Ready, ChangeRoot("drop_old"), UNCHANGED att
    PROVE  Moved /\ Shape(disk', nextGen') /\ Kept' /\ Carried
<1>0. /\ disk \in Disks /\ Shape(disk, nextGen) /\ nextGen \in Nat /\ nextGen' = nextGen
      /\ saved' = saved /\ At("drop_old") /\ ~Vacuous("drop_old") /\ StepChecks("drop_old") /\ disk' = RootEffect("drop_old")
  BY DEF Types, Rooted, Shape, ChangeRoot, Draws, SavedAfter
<1>d. disk \in Disks
  BY <1>0
<1>1. Survives(disk, disk', nextGen)
  BY <1>0, DropOldSurvives DEF RootEffect
<1>a. disk' = SetDir(disk, "old", Absent) /\ Absent \in Dirs
  BY <1>0, AbsentType DEF RootEffect
<1>n. "old" \in Names
  BY DEF Names
<1>b. /\ disk'.setup = disk.setup /\ disk'.dir["old"] = Absent
      /\ \A m \in Names \ {"old"} : disk'.dir[m] = disk.dir[m]
  BY <1>a, <1>d, <1>n, SetDirFacts
<1>2. /\ disk'.setup = disk.setup /\ disk'.dir["old"] = Absent /\ ~Present(disk'.dir["old"])
      /\ disk'.dir["db"] = disk.dir["db"] /\ disk'.dir["new"] = disk.dir["new"] /\ disk'.dir["tmp"] = disk.dir["tmp"]
  BY <1>b, AbsentType DEF Names
<1>3. Moved
  BY <1>0, <1>2 DEF Moved, At, Same, Db
<1>4. Carried
  <2>1. Survivor(disk') = Survivor(disk) /\ disk' \in Disks
    BY <1>1 DEF Survives, Shape
  <2>2. \A p \in past \cup {disk} : Behind(p, disk')
    <3>1. \A n \in Names : \/ ~Present(disk'.dir[n]) \/ disk'.dir[n].ino = FreshIno
                            \/ \E k \in Names : disk'.dir[n] = disk.dir[k] /\ (n = "tmp" => k = "tmp")
      BY <1>2, AbsentType DEF Names
    <3> QED BY <1>0, <1>2, <2>1, <3>1, FreshInoFacts, BehindMoves DEF NoJ
  <2> QED BY <1>0, <2>2 DEF Rooted, Carried
<1>5. Shape(disk', nextGen') /\ Kept'
  BY <1>0, <1>1, SurvivesKept DEF Survives
<1> QED BY <1>3, <1>4, <1>5

LEMMA RootRetire ==
    ASSUME Types, Rooted, Kept, Ready, ChangeRoot("retire_db"), UNCHANGED att
    PROVE  Moved /\ Shape(disk', nextGen') /\ Kept' /\ Carried
<1>0. /\ disk \in Disks /\ Shape(disk, nextGen) /\ nextGen \in Nat /\ nextGen' = nextGen
      /\ saved' = saved /\ At("retire_db") /\ ~Vacuous("retire_db") /\ StepChecks("retire_db") /\ disk' = RootEffect("retire_db")
  BY DEF Types, Rooted, Shape, ChangeRoot, Draws, SavedAfter
<1>d. disk \in Disks
  BY <1>0
<1>1. Survives(disk, disk', nextGen)
  <2>1. Replaced(disk) /\ Db \in Dirs /\ Present(Db)
    BY <1>0, DiskTypes DEF Ready, Db, Vacuous
  <2>2. CASE Db.kind = "empty"
    BY <1>0, <2>1, <2>2, PlaceholderSurvives DEF RootEffect
  <2>3. CASE Db.kind # "empty"
    <3>1. Gone(disk, "old") /\ (NoJ(disk) \/ Current(disk) = disk.setup.old)
      BY <1>0, <2>1, <2>3 DEF StepChecks, Db, Gone, Current, Ready, Present
    <3> QED BY <1>0, <2>1, <2>3, <3>1, RetireSurvives DEF RootEffect
  <2> QED BY <2>2, <2>3
<1>a. /\ disk' = SetDir(disk, "db", Absent) \/ disk' = Rename(disk, "db", "old")
      /\ Absent \in Dirs
  BY <1>0, AbsentType DEF RootEffect
<1>2. /\ disk'.setup = disk.setup /\ disk'.dir["db"] = Absent /\ ~Present(disk'.dir["db"])
      /\ disk'.dir["tmp"] = disk.dir["tmp"] /\ disk'.dir["new"] = disk.dir["new"]
      /\ disk'.dir["old"] = disk.dir["old"] \/ disk'.dir["old"] = disk.dir["db"]
  <2>1. CASE disk' = SetDir(disk, "db", Absent)
    BY <1>d, <2>1, PlaceholderFacts, AbsentType
  <2>2. CASE disk' = Rename(disk, "db", "old")
    BY <1>d, <2>2, RenameFacts, AbsentType DEF Names
  <2> QED BY <1>a, <2>1, <2>2
<1>3. Moved
  BY <1>0, <1>2 DEF Moved, At, Same, Db
<1>4. Carried
  <2>1. Survivor(disk') = Survivor(disk) /\ disk' \in Disks
    BY <1>1 DEF Survives, Shape
  <2>2. \A p \in past \cup {disk} : Behind(p, disk')
    <3>1. \A n \in Names : \/ ~Present(disk'.dir[n]) \/ disk'.dir[n].ino = FreshIno
                            \/ \E k \in Names : disk'.dir[n] = disk.dir[k] /\ (n = "tmp" => k = "tmp")
      BY <1>2, AbsentType DEF Names
    <3> QED BY <1>0, <1>2, <2>1, <3>1, FreshInoFacts, BehindMoves DEF NoJ
  <2> QED BY <1>0, <2>2 DEF Rooted, Carried
<1>5. Shape(disk', nextGen') /\ Kept'
  BY <1>0, <1>1, SurvivesKept DEF Survives
<1> QED BY <1>3, <1>4, <1>5

LEMMA RootSwapOld ==
    ASSUME Types, Rooted, Kept, Ready, ChangeRoot("swap_old"), UNCHANGED att
    PROVE  Moved /\ Shape(disk', nextGen') /\ Kept' /\ Carried
<1>0. /\ disk \in Disks /\ Shape(disk, nextGen) /\ nextGen \in Nat /\ nextGen' = nextGen
      /\ saved' = saved /\ At("swap_old") /\ ~Vacuous("swap_old") /\ StepChecks("swap_old") /\ disk' = RootEffect("swap_old")
  BY DEF Types, Rooted, Shape, ChangeRoot, Draws, SavedAfter
<1>d. disk \in Disks
  BY <1>0
<1>1. Survives(disk, disk', nextGen)
  <2>1. Replaced(disk) /\ Db \in Dirs /\ Present(Db)
    BY <1>0, DiskTypes DEF Ready, Db, Vacuous
  <2>2. CASE Db.kind = "empty"
    BY <1>0, <2>1, <2>2, PlaceholderSurvives DEF RootEffect
  <2>3. CASE Db.kind # "empty"
    <3>1. Gone(disk, "old") /\ (NoJ(disk) \/ Current(disk) = disk.setup.old)
      BY <1>0, <2>1, <2>3 DEF StepChecks, Db, Gone, Current, Ready, Present, RetiredGen, NoJ
    <3> QED BY <1>0, <2>1, <2>3, <3>1, RetireSurvives DEF RootEffect
  <2> QED BY <2>2, <2>3
<1>a. /\ disk' = SetDir(disk, "db", Absent) \/ disk' = Rename(disk, "db", "old")
      /\ Absent \in Dirs
  BY <1>0, AbsentType DEF RootEffect
<1>2. /\ disk'.setup = disk.setup /\ disk'.dir["db"] = Absent /\ ~Present(disk'.dir["db"])
      /\ disk'.dir["tmp"] = disk.dir["tmp"] /\ disk'.dir["new"] = disk.dir["new"]
      /\ disk'.dir["old"] = disk.dir["old"] \/ disk'.dir["old"] = disk.dir["db"]
  <2>1. CASE disk' = SetDir(disk, "db", Absent)
    BY <1>d, <2>1, PlaceholderFacts, AbsentType
  <2>2. CASE disk' = Rename(disk, "db", "old")
    BY <1>d, <2>2, RenameFacts, AbsentType DEF Names
  <2> QED BY <1>a, <2>1, <2>2
<1>3. Moved
  BY <1>0, <1>2 DEF Moved, At, Same, Db
<1>4. Carried
  <2>1. Survivor(disk') = Survivor(disk) /\ disk' \in Disks
    BY <1>1 DEF Survives, Shape
  <2>2. \A p \in past \cup {disk} : Behind(p, disk')
    <3>1. \A n \in Names : \/ ~Present(disk'.dir[n]) \/ disk'.dir[n].ino = FreshIno
                            \/ \E k \in Names : disk'.dir[n] = disk.dir[k] /\ (n = "tmp" => k = "tmp")
      BY <1>2, AbsentType DEF Names
    <3> QED BY <1>0, <1>2, <2>1, <3>1, FreshInoFacts, BehindMoves DEF NoJ
  <2> QED BY <1>0, <2>2 DEF Rooted, Carried
<1>5. Shape(disk', nextGen') /\ Kept'
  BY <1>0, <1>1, SurvivesKept DEF Survives
<1> QED BY <1>3, <1>4, <1>5

LEMMA RootSwapNew ==
    ASSUME Types, Rooted, Kept, Ready, ChangeRoot("swap_new"), UNCHANGED att
    PROVE  Moved /\ Shape(disk', nextGen') /\ Kept' /\ Carried
<1>0. /\ disk \in Disks /\ Shape(disk, nextGen) /\ nextGen \in Nat /\ nextGen' = nextGen
      /\ saved' = saved /\ At("swap_new") /\ ~Vacuous("swap_new") /\ StepChecks("swap_new") /\ disk' = RootEffect("swap_new")
  BY DEF Types, Rooted, Shape, ChangeRoot, Draws, SavedAfter
<1>d. disk \in Disks
  BY <1>0
<1>1. Survives(disk, disk', nextGen)
  BY <1>0, SwapNewSurvives DEF RootEffect, Ready
<1>2. /\ disk'.setup = disk.setup /\ disk'.dir["new"] = Absent /\ ~Present(disk'.dir["new"])
      /\ disk'.dir["db"] = disk.dir["new"] /\ disk'.dir["tmp"] = disk.dir["tmp"] /\ disk'.dir["old"] = disk.dir["old"]
  BY <1>0, RenameFacts, AbsentType DEF RootEffect, Names
<1>3. Moved
  BY <1>0, <1>2 DEF Moved, At, Same, Db
<1>4. Carried
  <2>1. Survivor(disk') = Survivor(disk) /\ disk' \in Disks
    BY <1>1 DEF Survives, Shape
  <2>2. \A p \in past \cup {disk} : Behind(p, disk')
    <3>1. \A n \in Names : \/ ~Present(disk'.dir[n]) \/ disk'.dir[n].ino = FreshIno
                            \/ \E k \in Names : disk'.dir[n] = disk.dir[k] /\ (n = "tmp" => k = "tmp")
      BY <1>2, AbsentType DEF Names
    <3> QED BY <1>0, <1>2, <2>1, <3>1, FreshInoFacts, BehindMoves DEF NoJ
  <2> QED BY <1>0, <2>2 DEF Rooted, Carried
<1>5. Shape(disk', nextGen') /\ Kept'
  BY <1>0, <1>1, SurvivesKept DEF Survives
<1> QED BY <1>3, <1>4, <1>5

LEMMA RootAwait ==
    ASSUME Types, Rooted, Kept, Ready, ChangeRoot("await"), UNCHANGED att
    PROVE  Moved /\ Shape(disk', nextGen') /\ Kept' /\ Carried
<1>0. /\ disk \in Disks /\ Shape(disk, nextGen) /\ nextGen \in Nat /\ nextGen' = nextGen
      /\ saved' = saved /\ At("await") /\ ~Vacuous("await") /\ StepChecks("await") /\ disk' = RootEffect("await")
  BY DEF Types, Rooted, Shape, ChangeRoot, Draws, SavedAfter
<1>d. disk \in Disks
  BY <1>0
<1>1. Survives(disk, disk', nextGen)
  BY <1>0, AwaitSurvives DEF RootEffect, Ready
<1>2. /\ disk'.dir = disk.dir /\ ~NoJ(disk') /\ disk'.setup.phase = "AwaitChoice"
      /\ disk'.setup.old = disk.setup.old /\ disk'.setup.new = disk.setup.new
  BY <1>0, PhaseFacts DEF RootEffect, Ready, In, Phases
<1>3. Moved
  BY <1>0, <1>2 DEF Moved, At, Same, In
<1>4. Carried
  <2>1. Survivor(disk') = Survivor(disk) /\ disk' \in Disks
    BY <1>1 DEF Survives, Shape
  <2>2. \A p \in past \cup {disk} : Behind(p, disk')
    <3>1. \A n \in Names : \E k \in Names : disk'.dir[n] = disk.dir[k] /\ (n = "tmp" => k = "tmp")
      BY <1>2
    <3> QED BY <1>0, <1>2, <2>1, <3>1, FreshInoFacts, BehindMoves
  <2> QED BY <1>0, <2>2 DEF Rooted, Carried
<1>5. Shape(disk', nextGen') /\ Kept'
  BY <1>0, <1>1, SurvivesKept DEF Survives
<1> QED BY <1>3, <1>4, <1>5

LEMMA RootMark ==
    ASSUME Types, Rooted, Kept, Ready, ChangeRoot("mark"), UNCHANGED att
    PROVE  Moved /\ Shape(disk', nextGen') /\ Kept' /\ Carried
<1>0. /\ disk \in Disks /\ Shape(disk, nextGen) /\ nextGen \in Nat /\ nextGen' = nextGen
      /\ saved' = saved /\ At("mark") /\ ~Vacuous("mark") /\ StepChecks("mark") /\ disk' = RootEffect("mark")
  BY DEF Types, Rooted, Shape, ChangeRoot, Draws, SavedAfter
<1>d. disk \in Disks
  BY <1>0
<1>1. Survives(disk, disk', nextGen)
  BY <1>0, MarkSurvives DEF RootEffect, Ready
<1>2. /\ disk'.dir = disk.dir /\ ~NoJ(disk') /\ disk'.setup.phase = "Installed"
      /\ disk'.setup.old = disk.setup.old /\ disk'.setup.new = disk.setup.new
  BY <1>0, PhaseFacts DEF RootEffect, Ready, Installed, Phases
<1>3. Moved
  BY <1>0, <1>2 DEF Moved, At, Same, In
<1>4. Carried
  <2>1. Survivor(disk') = Survivor(disk) /\ disk' \in Disks
    BY <1>1 DEF Survives, Shape
  <2>2. \A p \in past \cup {disk} : Behind(p, disk')
    <3>1. \A n \in Names : \E k \in Names : disk'.dir[n] = disk.dir[k] /\ (n = "tmp" => k = "tmp")
      BY <1>2
    <3> QED BY <1>0, <1>2, <2>1, <3>1, FreshInoFacts, BehindMoves
  <2> QED BY <1>0, <2>2 DEF Rooted, Carried
<1>5. Shape(disk', nextGen') /\ Kept'
  BY <1>0, <1>1, SurvivesKept DEF Survives
<1> QED BY <1>3, <1>4, <1>5

LEMMA RootUnmark ==
    ASSUME Types, Rooted, Kept, Ready, ChangeRoot("unmark"), UNCHANGED att
    PROVE  Moved /\ Shape(disk', nextGen') /\ Kept' /\ Carried
<1>0. /\ disk \in Disks /\ Shape(disk, nextGen) /\ nextGen \in Nat /\ nextGen' = nextGen
      /\ saved' = saved /\ At("unmark") /\ ~Vacuous("unmark") /\ StepChecks("unmark") /\ disk' = RootEffect("unmark")
  BY DEF Types, Rooted, Shape, ChangeRoot, Draws, SavedAfter
<1>d. disk \in Disks
  BY <1>0
<1>1. Survives(disk, disk', nextGen)
  BY <1>0, UnmarkSurvives DEF RootEffect, Ready
<1>2. disk'.dir = disk.dir /\ NoJ(disk') /\ ~Present(disk.dir.tmp)
  BY <1>0, SetupFacts, SurvivorCases DEF RootEffect, Ready, NoJ, Gone
<1>3. Moved
  BY <1>0, <1>2 DEF Moved, At, Same, In
<1>4. Carried
  <2>1. Survivor(disk') = Survivor(disk) /\ disk' \in Disks
    BY <1>1 DEF Survives, Shape
  <2>2. \A p \in past \cup {disk} : Behind(p, disk')
    <3>1. \A n \in Names : \E k \in Names : disk'.dir[n] = disk.dir[k] /\ (n = "tmp" => k = "tmp")
      BY <1>2
    <3> QED BY <1>0, <1>2, <2>1, <3>1, FreshInoFacts, BehindMoves
  <2> QED BY <1>0, <2>2 DEF Rooted, Carried
<1>5. Shape(disk', nextGen') /\ Kept'
  BY <1>0, <1>1, SurvivesKept DEF Survives
<1> QED BY <1>3, <1>4, <1>5

LEMMA NewJournalFacts ==
    ASSUME Types, Rooted, NEW a \in {"Erase", "StartFresh"}, NEW f \in {"BuildReplacement", "RetireOld"},
           ReadGeneration(Db) # 0, NoJ(disk) /\ Gone(disk, "new"),
           PreflightSetup(disk, NewJournal(a, f))
    PROVE  LET j == NewJournal(a, f)
               e == [disk EXCEPT !.setup = j] IN
           /\ j.phase = f /\ j \in Journals /\ j.old = Current(disk)
           /\ Shape(e, nextGen + 1) /\ e.dir = disk.dir /\ e.setup = j /\ In(e, f)
           /\ f = "BuildReplacement" => Survivor(e) = Db
           /\ f = "RetireOld" => Survivor(e) = Absent
<1> DEFINE j == NewJournal(a, f)
           e == [disk EXCEPT !.setup = j]
<1>1. Shape(disk, nextGen) /\ nextGen \in Nat /\ Db \in Dirs
  BY DiskTypes DEF Types, Rooted, Shape, Db
<1>2. j \in Journals /\ j.phase = f /\ j.old = Current(disk) /\ j.new = nextGen
  BY <1>1 DEF NewJournal, Journals, Phases, ReadGeneration, Current, Db, Dirs
<1>3. Survivor(disk) = Db
  BY <1>1, SurvivorCases DEF Gone, Db
<1>4. disk.dir.db.kind = "full"
  BY <1>1, <1>3 DEF Shape, Whole, ReadGeneration, Db
<1> HIDE DEF j
<1>5. /\ Shape(e, nextGen + 1) /\ e.dir = disk.dir /\ e.setup = j /\ ~NoJ(e)
      /\ f = "BuildReplacement" => Survivor(e) = Db
      /\ f = "RetireOld" => Survivor(e) = Absent
  BY <1>1, <1>2, <1>4, NewJournalShape DEF j, Db
<1> QED BY <1>2, <1>5 DEF In, j

LEMMA RootQuarantine ==
    ASSUME Types, Rooted, Kept, Ready, ChangeRoot("quarantine"), UNCHANGED att
    PROVE  Moved /\ Shape(disk', nextGen') /\ Kept' /\ Carried
<1> DEFINE j == NewJournal("StartFresh", "BuildReplacement")
<1>1. /\ Shape(disk, nextGen) /\ nextGen \in Nat /\ NoJ(disk) /\ ReadGeneration(Db) # 0
      /\ PreflightSetup(disk, j) /\ disk' = [disk EXCEPT !.setup = j] /\ saved' = saved
      /\ nextGen' = nextGen + 1 /\ At("quarantine")
  BY DEF Types, Rooted, ChangeRoot, StepChecks, Vacuous, NoJ, RootEffect, SavedAfter, Draws
<1>2. Gone(disk, "new") /\ ReadGeneration(Db) # nextGen
  <2>1. ReadGeneration(Db) # nextGen
    BY <1>1, DiskTypes DEF Shape, Tidy, Names, ReadGeneration, Db, Dirs
  <2> QED BY <1>1, <2>1 DEF PreflightSetup, NewJournal, Db, Gone
<1>3. /\ Shape(disk', nextGen') /\ disk'.dir = disk.dir /\ In(disk', "BuildReplacement") /\ Survivor(disk') = Db
  BY <1>1, <1>2, NewJournalFacts
<1>4. Survivor(disk) = Db
  BY <1>1, <1>2, SurvivorCases DEF Gone, Db
<1>5. Kept'
  BY <1>1, <1>3, <1>4, SurvivesKept
<1>6. Moved
  BY <1>1, <1>3 DEF Moved, At
<1>7. Carried
  <2>1. \A n \in Names : \E k \in Names : disk'.dir[n] = disk.dir[k] /\ (n = "tmp" => k = "tmp")
    BY <1>3
  <2>2. \A p \in past \cup {disk} : Behind(p, disk')
    BY <1>1, <1>3, <1>4, <2>1, FreshInoFacts, BehindMoves DEF Shape
  <2>3. \A p \in past \cup {disk} : Shape(p, nextGen')
    BY <1>1, ShapeMono DEF Rooted
  <2> QED BY <2>2, <2>3 DEF Carried
<1> QED BY <1>3, <1>5, <1>6, <1>7

LEMMA RootPrepare ==
    ASSUME Types, Rooted, Kept, Ready, ChangeRoot("prepare"), UNCHANGED att
    PROVE  Moved /\ Shape(disk', nextGen') /\ Kept' /\ Steady
<1> DEFINE e == SetDir(disk, "db", EmptyDir(FreshIno))
<1>0. /\ disk \in Disks /\ Shape(disk, nextGen) /\ nextGen \in Nat /\ nextGen' = nextGen
      /\ saved' = saved /\ At("prepare") /\ Gone(disk, "db") /\ disk' = e
  BY DEF Types, Rooted, Shape, ChangeRoot, Draws, SavedAfter, Vacuous, RootEffect, Gone, Db
<1>1. Shape(e, nextGen) /\ Survivor(e).rows = Survivor(disk).rows /\ Survivor(e).gen = Survivor(disk).gen
  BY <1>0, FreshInoFacts, PrepareShape
<1>2. /\ e.setup = disk.setup /\ e.dir["db"] = EmptyDir(FreshIno) /\ EmptyDir(FreshIno).kind = "empty"
      /\ e.dir["tmp"] = disk.dir["tmp"] /\ e.dir["new"] = disk.dir["new"] /\ e.dir["old"] = disk.dir["old"]
  <2>1. disk \in Disks /\ EmptyDir(FreshIno) \in Dirs /\ EmptyDir(FreshIno).kind = "empty"
    BY <1>0, FreshInoFacts, EmptyDirType
  <2> QED BY <2>1, SetDirFacts DEF Names
<1> HIDE DEF e
<1>3. Kept' /\ Steady
  BY <1>0, <1>1 DEF Kept, Steady
<1>4. Moved
  BY <1>0, <1>2 DEF Moved, At, Same, Present, ReadGeneration
<1> QED BY <1>0, <1>1, <1>3, <1>4

LEMMA RootCommit ==
    ASSUME Types, Rooted, Kept, Ready, ChangeRoot("commit"), UNCHANGED att
    PROVE  Moved /\ Shape(disk', nextGen') /\ Kept' /\ Steady
<1>0. /\ disk \in Disks /\ Shape(disk, nextGen) /\ nextGen \in Nat /\ nextGen' = nextGen
      /\ saved' = saved /\ At("commit") /\ disk' = Rename(disk, "tmp", "new")
  BY DEF Types, Rooted, Shape, ChangeRoot, Draws, SavedAfter, RootEffect
<1>1. Moved
  <2>1. disk \in Disks
    BY <1>0
  <2>2. /\ disk'.setup = disk.setup /\ disk'.dir["new"] = disk.dir["tmp"] /\ disk'.dir["tmp"] = Absent
        /\ disk'.dir["db"] = disk.dir["db"] /\ disk'.dir["old"] = disk.dir["old"]
    BY <1>0, <2>1, RenameFacts DEF Names
  <2> QED BY <1>0, <2>2 DEF Moved, At, Same
<1>2. CASE op = "export"
  <2>1. /\ NoJ(disk) /\ Gone(disk, "new") /\ disk.dir.tmp.kind = "full"
        /\ disk.dir.tmp.rows = Db.rows /\ disk.dir.tmp.gen = Db.gen
    BY <1>0, <1>2 DEF Ready, Staged, Staging, In
  <2>2. Shape(disk', nextGen) /\ Survivor(disk') = disk.dir.tmp
    BY <1>0, <2>1, ExportCommits
  <2>3. Survivor(disk) = Db
    BY <1>0, <2>1, SurvivorCases DEF Gone, Db
  <2> QED BY <1>0, <1>1, <2>1, <2>2, <2>3 DEF Kept, Steady
<1>3. CASE op # "export"
  <2>1. Survives(disk, disk', nextGen)
    BY <1>0, <1>3, CommitSurvives DEF Ready
  <2> QED BY <1>0, <1>1, <2>1, SurvivesKept DEF Survives, Steady
<1> QED BY <1>2, <1>3

LEMMA RootPublish ==
    ASSUME Types, Rooted, Kept, Ready, ChangeRoot("publish"), UNCHANGED att
    PROVE  Moved /\ Shape(disk', nextGen') /\ Kept'
<1> DEFINE j == NewJournal(req.after, "RetireOld")
<1>1. /\ Shape(disk, nextGen) /\ nextGen \in Nat /\ NoJ(disk) /\ Db.kind = "full"
      /\ PreflightSetup(disk, j) /\ disk' = [disk EXCEPT !.setup = j] /\ saved' = {}
      /\ nextGen' = nextGen + 1 /\ At("publish") /\ req.after \in {"Erase", "StartFresh"}
  BY DEF Types, Rooted, ChangeRoot, StepChecks, RootEffect, SavedAfter, Draws, Ready
<1>2. Gone(disk, "new") /\ ReadGeneration(Db) # 0
  <2>1. ReadGeneration(Db) # nextGen /\ ReadGeneration(Db) # 0
    BY <1>1, DiskTypes DEF Shape, Tidy, Names, ReadGeneration, Db, Dirs
  <2>2. Present(disk.dir.new) => disk.dir.new.kind = "full" /\ disk.dir.new.gen = nextGen
    BY <1>1 DEF PreflightSetup, NewJournal
  <2> QED BY <1>1, <2>1, <2>2, DiskTypes DEF Shape, Tidy, Names, Gone, Dirs
<1>3. Shape(disk', nextGen') /\ disk'.dir = disk.dir /\ In(disk', "RetireOld")
  BY <1>1, <1>2, NewJournalFacts
<1>4. Kept'
  BY <1>1 DEF Kept
<1>5. Moved
  BY <1>1, <1>3 DEF Moved, At
<1> QED BY <1>3, <1>4, <1>5

LEMMA RootSupersede ==
    ASSUME Types, Rooted, Kept, Ready, ChangeRoot("supersede"), UNCHANGED att
    PROVE  Moved /\ Shape(disk', nextGen') /\ Kept'
<1>1. /\ Shape(disk, nextGen) /\ nextGen \in Nat /\ In(disk, "BuildReplacement") /\ saved' = {}
      /\ disk' = [disk EXCEPT !.setup.after = req.after, !.setup.phase = "RetireOld"]
      /\ nextGen' = nextGen /\ At("supersede") /\ req.after \in {"Erase", "StartFresh"}
  BY DEF Types, Rooted, ChangeRoot, RootEffect, SavedAfter, Draws, Ready
<1>2. Shape(disk', nextGen')
  BY <1>1, SupersedeShape
<1>3. disk'.dir = disk.dir /\ In(disk', "RetireOld")
  BY <1>1, SupersedeFacts DEF Shape, In
<1>4. Kept'
  BY <1>1 DEF Kept
<1>5. Moved
  BY <1>1, <1>3 DEF Moved, At
<1> QED BY <1>2, <1>4, <1>5

LEMMA RootInstallNew ==
    ASSUME Types, Rooted, Kept, Ready, ChangeRoot("install_new"), UNCHANGED att
    PROVE  Moved /\ Shape(disk', nextGen') /\ Kept' /\ Survivor(disk') = disk.dir.tmp
<1>1. /\ Shape(disk, nextGen) /\ nextGen \in Nat /\ Staging(disk, disk.setup.new)
      /\ disk' = [disk EXCEPT !.setup.phase = "InstallNew"]
      /\ nextGen' = nextGen /\ At("install_new")
  BY DEF Types, Rooted, ChangeRoot, RootEffect, Draws, Ready
<1>2. In(disk, "BuildReplacement") \/ In(disk, "AwaitChoice")
  BY <1>1 DEF Ready
<1>3. Shape(disk', nextGen') /\ Survivor(disk') = disk.dir.tmp
  BY <1>1, <1>2, InstallNewShape
<1>4. /\ disk'.dir = disk.dir /\ In(disk', "InstallNew")
      /\ disk'.setup.old = disk.setup.old /\ disk'.setup.new = disk.setup.new
  BY <1>1, <1>2, PhaseFacts DEF Shape, In, Phases
<1>5. Moved
  BY <1>1, <1>4 DEF Moved, At
<1>6. CASE op = "salvage"
  <2>1. /\ saved' = saved \cap disk.dir.tmp.rows /\ In(disk, "BuildReplacement")
        /\ disk.setup.old \in att /\ disk.dir.tmp.rows # {} => disk.setup.new \in att
    BY <1>1, <1>6 DEF Ready, ChangeRoot, SavedAfter
  <2>2. Survivor(disk).gen = disk.setup.old /\ disk.dir.tmp.gen = disk.setup.new
    BY <1>1, <2>1, SurvivorCases DEF Staging
  <2>3. saved' # {} => disk.setup.new \in att
    BY <2>1, <2>2 DEF Kept
  <2> QED BY <1>3, <1>5, <2>1, <2>2, <2>3 DEF Kept
<1>7. CASE op # "salvage"
  <2>1. saved' = saved /\ In(disk, "AwaitChoice")
    BY <1>1, <1>7 DEF Ready, ChangeRoot, SavedAfter
  <2>2. Survivor(disk).rows = {}
    BY <1>1, <2>1, SurvivorCases, AbsentType
  <2> QED BY <1>3, <1>5, <2>1, <2>2 DEF Kept
<1> QED BY <1>6, <1>7

(* All of them. *)
LEMMA RootMoves ==
    ASSUME Types, Rooted, Kept, Ready, NEW s \in RootSteps, ChangeRoot(s), UNCHANGED att
    PROVE  Moved /\ Shape(disk', nextGen') /\ Kept' /\ (s \notin Decisions => Carried)
           /\ (s \notin {"publish", "supersede", "install_new"} => Steady)
<1>1. /\ Moved /\ Shape(disk', nextGen') /\ Kept' /\ (s \notin Decisions => Carried)
      /\ (s \in {"prepare", "commit"} => Steady)
  BY RootMktmp, RootDiscard, RootDropOld, RootRetire, RootSwapOld, RootSwapNew, RootAwait, RootMark,
     RootUnmark, RootQuarantine, RootPrepare, RootCommit, RootPublish, RootSupersede, RootInstallNew
     DEF RootSteps, Decisions
<1>2. Carried => Steady
  BY DEF Carried, Behind, Steady
<1> QED BY <1>1, <1>2 DEF Decisions

-----------------------------------------------------------------------------
(* Steps that find nothing to do, and steps that change contents. *)

LEMMA VacuousMoves ==
    ASSUME Types, Rooted, NEW s, At(s), Vacuous(s), StepChecks(s), disk' = disk
    PROVE  Moved
<1>1. /\ Gone(disk, "db") => disk.dir.db = Absent
      /\ Gone(disk, "tmp") => disk.dir.tmp = Absent
      /\ Gone(disk, "old") => disk.dir.old = Absent
  BY DEF Rooted, Shape, Tidy, Names
<1>2. CASE s = "prepare"
  BY <1>2 DEF Vacuous, Moved, At, Same, Db, Current
<1>3. CASE s = "discard"
  BY <1>1, <1>3 DEF Vacuous, Moved, At, Same, Gone
<1>4. CASE s = "drop_old"
  BY <1>1, <1>4 DEF Vacuous, Moved, At, Same, Gone
<1>5. CASE s \in {"retire_db", "swap_old"}
  BY <1>1, <1>5 DEF Vacuous, Moved, At, Same, Gone, Db
<1>6. CASE s \in {"create", "name"}
  BY <1>6 DEF Vacuous, Moved, At, Same, Db
<1>7. CASE s = "quarantine"
  BY <1>7 DEF Vacuous, StepChecks, Moved, At, In, NoJ
<1> QED BY <1>2, <1>3, <1>4, <1>5, <1>6, <1>7 DEF Vacuous

(* A directory rewritten in place is the same one in every root directory. *)
LEMMA RewriteRooted ==
    ASSUME Types, Rooted, NEW i \in Nat, i # 0, NEW x \in Dirs, x.ino = i, Present(x), InPlace(i, x),
           NEW z, \A q \in past \cup {disk} :
                    Shape(Rewrite(q, i, x), nextGen') /\ Survivor(Rewrite(q, i, x)) = z
    PROVE  Rooted' /\ Survivor(disk') = z
<1>1. Shape(disk', nextGen') /\ Survivor(disk') = z
  BY DEF InPlace
<1>2. IsFiniteSet(past')
  <2> DEFINE f == [p \in past |-> Rewrite(p, i, x)]
  <2>1. past' = {Rewrite(p, i, x) : p \in past}
    BY DEF InPlace
  <2>2. f \in Surjection(past, past')
    BY <2>1 DEF Surjection
  <2> HIDE DEF f
  <2> QED BY <2>2, FS_Surjection DEF Rooted
<1>3. ASSUME NEW p \in past PROVE Behind(Rewrite(p, i, x), disk')
  <2> DEFINE e == Rewrite(p, i, x)
  <2>1. p \in Disks /\ disk \in Disks /\ Behind(p, disk)
    BY DEF Rooted, Shape
  <2>2. /\ e.setup = p.setup /\ disk'.setup = disk.setup
        /\ \A n \in Names : e.dir[n] = IF p.dir[n].ino = i THEN x ELSE p.dir[n]
        /\ \A n \in Names : disk'.dir[n] = IF disk.dir[n].ino = i THEN x ELSE disk.dir[n]
    BY <2>1, RewriteFacts DEF InPlace
  <2>3. Survivor(e) = Survivor(disk')
    BY <1>1
  <2>4. \A n \in Names : /\ e.dir[n].ino = p.dir[n].ino /\ disk'.dir[n].ino = disk.dir[n].ino
                         /\ Present(disk'.dir[n]) => Present(disk.dir[n])
    BY <2>2, AbsentType DEF Rooted, Shape, Tidy, Gone
  <2> HIDE DEF e
  <2>5. ASSUME NEW m \in Names, NEW n \in Names, Present(disk'.dir[n]), e.dir[m].ino = disk'.dir[n].ino
        PROVE  e.dir[m] = disk'.dir[n] /\ (n = "tmp" => m = "tmp")
    <3>1. p.dir[m] = disk.dir[n] /\ (n = "tmp" => m = "tmp")
      BY <2>1, <2>4, <2>5 DEF Behind
    <3> QED BY <2>2, <3>1
  <2>6. ASSUME Present(disk'.dir["tmp"]), e.dir["tmp"].ino = disk'.dir["tmp"].ino, ~NoJ(e)
        PROVE  ~NoJ(disk') /\ e.setup.new = disk'.setup.new
    <3>1. Present(disk.dir["tmp"]) /\ p.dir["tmp"].ino = disk.dir["tmp"].ino
      BY <2>4, <2>6 DEF Names
    <3>2. ~NoJ(p)
      BY <2>2, <2>6 DEF NoJ
    <3>3. ~NoJ(disk) /\ p.setup.new = disk.setup.new
      BY <2>1, <3>1, <3>2 DEF Behind
    <3> QED BY <2>2, <3>3 DEF NoJ
  <2> QED BY <2>3, <2>5, <2>6 DEF Behind, e
<1> QED BY <1>1, <1>2, <1>3 DEF Rooted, InPlace

(* The directory under a name of the disk, where else it may be found. *)
LEMMA Elsewhere ==
    ASSUME Rooted, NEW n \in Names, Present(disk.dir[n]), NEW q \in past \cup {disk}
    PROVE  /\ Shape(q, nextGen) /\ Survivor(q) = Survivor(disk) /\ disk.dir[n].ino # 0
           /\ \A m \in Names : q.dir[m].ino = disk.dir[n].ino => q.dir[m] = disk.dir[n] /\ (n = "tmp" => m = "tmp")
<1>1. CASE q = disk
  BY <1>1 DEF Rooted, Shape, Tidy
<1>2. CASE q \in past
  BY <1>2 DEF Rooted, Behind, Shape, Tidy
<1> QED BY <1>1, <1>2

(* Outside InstallNew recovery does not install db.tmp. *)
LEMMA TmpIsNotIt ==
    ASSUME Types, Rooted, Present(disk.dir.tmp), ~In(disk, "InstallNew") \/ Present(disk.dir.new) \/ Installed(disk)
    PROVE  Survivor(disk).ino # disk.dir.tmp.ino
<1>1. Shape(disk, nextGen) /\ nextGen \in Nat
  BY DEF Types, Rooted
<1>2. /\ disk.dir["tmp"].ino # 0 /\ disk.dir["tmp"].ino # disk.dir["db"].ino
      /\ disk.dir["tmp"].ino # disk.dir["new"].ino
  BY <1>1 DEF Shape, Tidy, Names
<1>3. Survivor(disk) \in {disk.dir["db"], disk.dir["new"], Absent}
  BY <1>1, SurvivorCases DEF In, Gone
<1> QED BY <1>2, <1>3, AbsentType

LEMMA OldIsNotIt ==
    ASSUME Types, Rooted, Present(disk.dir.old)
    PROVE  Survivor(disk).ino # disk.dir.old.ino
<1>1. Shape(disk, nextGen) /\ nextGen \in Nat
  BY DEF Types, Rooted
<1>2. /\ disk.dir["old"].ino # 0 /\ disk.dir["old"].ino # disk.dir["db"].ino
      /\ disk.dir["old"].ino # disk.dir["new"].ino /\ disk.dir["old"].ino # disk.dir["tmp"].ino
  BY <1>1 DEF Shape, Tidy, Names
<1>3. Survivor(disk) \in {disk.dir["db"], disk.dir["new"], disk.dir["tmp"], Absent}
  BY DEF Survivor
<1> QED BY <1>2, <1>3, AbsentType

LEMMA RewriteNames ==
    ASSUME Rooted, NEW n \in Names, Present(disk.dir[n]), NEW x \in Dirs, InPlace(disk.dir[n].ino, x)
    PROVE  /\ disk'.setup = disk.setup /\ disk'.dir[n] = x
           /\ \A m \in Names \ {n} : disk'.dir[m] = disk.dir[m]
<1>1. disk \in Disks
  BY DEF Rooted, Shape
<1>2. /\ disk'.setup = disk.setup
      /\ \A m \in Names : disk'.dir[m] = IF disk.dir[m].ino = disk.dir[n].ino THEN x ELSE disk.dir[m]
  BY <1>1, RewriteFacts DEF InPlace
<1>3. \A m \in Names \ {n} : disk.dir[m].ino # disk.dir[n].ino
  BY DEF Rooted, Shape, Tidy
<1> QED BY <1>2, <1>3

LEMMA StageMoves ==
    ASSUME Types, Rooted, Kept, Staged, Present(disk.dir.tmp), NEW x \in Dirs, x.ino = disk.dir.tmp.ino,
           x.kind \in {"part", "full"}, x.kind = "part" => x.rows = {}, x.gen = TagGen,
           InPlace(disk.dir.tmp.ino, x), UNCHANGED <<att, saved, nextGen>>
    PROVE  Rooted' /\ Kept' /\ Steady /\ Same({"db", "new", "old"}) /\ disk'.dir.tmp = x
<1> DEFINE i == disk.dir["tmp"].ino
<1>1. Shape(disk, nextGen) /\ nextGen \in Nat /\ disk.dir["tmp"] \in Dirs /\ "tmp" \in Names
  BY DiskTypes DEF Types, Rooted, Shape, Names
<1>2. ~In(disk, "InstallNew") /\ ~Installed(disk)
  BY <1>1, SurvivorCases DEF Staged, In, Installed
<1>3. 0 < x.gen /\ x.gen < nextGen
  <2>1. CASE NoJ(disk)
    <3>1. Db.kind = "full"
      BY <2>1 DEF Staged, In
    <3> QED BY <1>1, <2>1, <3>1 DEF TagGen, NoJ, Shape, Tidy, Names, Db, ReadGeneration
  <2>2. CASE ~NoJ(disk)
    BY <1>1, <2>2, DiskTypes DEF TagGen, NoJ, Shape, Journaled, Journals
  <2> QED BY <2>1, <2>2
<1>4. Survivor(disk).ino # i
  BY <1>2, TmpIsNotIt
<1>5. i \in Nat /\ i # 0 /\ Present(x)
  BY <1>1, Elsewhere DEF Dirs, Present
<1>6. ASSUME NEW q \in past \cup {disk}
      PROVE  Shape(Rewrite(q, i, x), nextGen') /\ Survivor(Rewrite(q, i, x)) = Survivor(disk)
  <2>1. /\ Shape(q, nextGen) /\ Survivor(q) = Survivor(disk)
        /\ \A m \in Names : q.dir[m].ino = i => m = "tmp"
    BY <1>1, Elsewhere
  <2>2. ~NoJ(q) /\ q.dir.tmp.ino = i => x.gen = q.setup.new
    <3>1. CASE q = disk
      BY <3>1 DEF TagGen, NoJ
    <3>2. CASE q \in past
      BY <3>2 DEF TagGen, NoJ, Rooted, Behind
    <3> QED BY <3>1, <3>2
  <2>3. Survives(q, Rewrite(q, i, x), nextGen)
    BY <1>1, <1>3, <1>4, <1>5, <2>1, <2>2, StageSurvives
  <2> QED BY <2>1, <2>3 DEF Survives
<1>7. Rooted' /\ Survivor(disk') = Survivor(disk)
  BY <1>5, <1>6, RewriteRooted
<1>8. Kept' /\ Steady
  BY <1>7, SurvivesKept DEF Steady
<1>9. Same({"db", "new", "old"}) /\ disk'.dir["tmp"] = x
  <2>1. /\ disk'.setup = disk.setup /\ disk'.dir["tmp"] = x
        /\ \A m \in Names \ {"tmp"} : disk'.dir[m] = disk.dir[m]
    BY <1>1, RewriteNames
  <2> QED BY <2>1 DEF Same, Names
<1> QED BY <1>7, <1>8, <1>9

LEMMA TagMoves ==
    ASSUME Types, Rooted, Kept, Ready, At("tag"), NEW x \in ContentEffects("tag"),
           InPlace(Target("tag").ino, x), UNCHANGED <<att, saved, nextGen>>
    PROVE  Rooted' /\ Kept' /\ Steady /\ Moved
<1>1. Staged /\ disk.dir.tmp.kind = "empty" /\ disk.dir.tmp \in Dirs /\ disk \in Disks /\ Db \in Dirs
  BY DiskTypes DEF Ready, Rooted, Shape, Db
<1>2. disk.dir.tmp.rows = {}
  BY <1>1 DEF Rooted, Shape, Tidy, Names
<1>3. TagGen \in Nat
  BY <1>1, DiskTypes DEF TagGen, ReadGeneration, Dirs, Journals, NoJ
<1>4. /\ x \in Dirs /\ x.ino = disk.dir.tmp.ino /\ x.kind = "part" /\ x.rows = {} /\ x.gen = TagGen
      /\ Target("tag").ino = disk.dir.tmp.ino /\ Present(disk.dir.tmp)
  BY <1>1, <1>2, <1>3 DEF ContentEffects, Target, Dirs, Kinds, Present
<1>5. Rooted' /\ Kept' /\ Steady /\ Same({"db", "new", "old"}) /\ disk'.dir.tmp = x
  BY <1>1, <1>4, StageMoves
<1>6. Moved
  BY <1>4, <1>5 DEF Moved, At
<1> QED BY <1>5, <1>6

LEMMA FillMoves ==
    ASSUME Types, Rooted, Kept, Ready, At("fill"), NEW x \in ContentEffects("fill"),
           InPlace(Target("fill").ino, x), UNCHANGED <<att, saved, nextGen>>
    PROVE  Rooted' /\ Kept' /\ Steady /\ Moved
<1>1. /\ Staged /\ disk.dir.tmp.kind = "part" /\ disk.dir.tmp.gen = TagGen /\ disk.dir.tmp \in Dirs
      /\ disk \in Disks /\ Db \in Dirs /\ req.mode \in Modes
  BY DiskTypes DEF Ready, Rooted, Shape, Db, Types
<1>2. disk.setup.mode \in Modes
  BY <1>1 DEF Disks, Journals, NoJournal, Modes
<1>3. \A R \in StagedRows : R \subseteq Rows
  BY <1>1 DEF StagedRows, Dirs
<1>4. PICK R \in StagedRows : x = [disk.dir.tmp EXCEPT !.kind = "full", !.rows = R,
                              !.mode = IF op = "salvage" THEN disk.setup.mode ELSE req.mode]
  BY DEF ContentEffects, Target
<1>5. /\ x \in Dirs /\ x.ino = disk.dir.tmp.ino /\ x.kind = "full" /\ x.rows = R /\ x.gen = TagGen
      /\ Target("fill").ino = disk.dir.tmp.ino /\ Present(disk.dir.tmp)
  BY <1>1, <1>2, <1>3, <1>4 DEF Target, Dirs, Kinds, Present
<1>6. Rooted' /\ Kept' /\ Steady /\ Same({"db", "new", "old"}) /\ disk'.dir.tmp = x
  BY <1>1, <1>5, StageMoves
<1>7. Moved
  BY <1>1, <1>5, <1>6 DEF Moved, At
<1> QED BY <1>6, <1>7

(* create_database, and the generation.json that makes it complete. *)
LEMMA FirstMoves ==
    ASSUME Types, Rooted, Kept, NoJ(disk), Gone(disk, "new"), Db.kind \in {"empty", "bare"}, NEW x \in Dirs,
           x.ino = Db.ino, x.rows = {}, x.kind \in {"bare", "full"}, 0 < x.gen, x.gen < nextGen',
           nextGen' \in Nat, nextGen <= nextGen', InPlace(Db.ino, x), UNCHANGED <<att, saved>>
    PROVE  Rooted' /\ Kept' /\ Steady /\ Same({"tmp", "new", "old"}) /\ disk'.dir.db = x
<1>1. Shape(disk, nextGen) /\ nextGen \in Nat /\ Db \in Dirs /\ "db" \in Names /\ Db = disk.dir["db"] /\ Present(Db)
  BY DiskTypes DEF Types, Rooted, Shape, Names, Db, Present
<1>2. Survivor(disk) = Db
  BY <1>1, SurvivorCases DEF Gone
<1>3. Db.ino \in Nat /\ Db.ino # 0 /\ Present(x) /\ Db.rows = {}
  BY <1>1, Elsewhere DEF Dirs, Present, Rooted, Shape, Tidy
<1>4. ASSUME NEW q \in past \cup {disk}
      PROVE  Shape(Rewrite(q, Db.ino, x), nextGen') /\ Survivor(Rewrite(q, Db.ino, x)) = x
  <2>1. Shape(q, nextGen) /\ Survivor(q) = Db
    BY <1>1, <1>2, Elsewhere
  <2> QED BY <1>1, <2>1, CreateSurvives
<1>5. Rooted' /\ Survivor(disk') = x
  BY <1>3, <1>4, RewriteRooted
<1>6. saved = {}
  BY <1>2, <1>3 DEF Kept
<1>7. Kept' /\ Steady
  BY <1>2, <1>3, <1>5, <1>6 DEF Kept, Steady
<1>8. Same({"tmp", "new", "old"}) /\ disk'.dir["db"] = x
  <2>1. /\ disk'.setup = disk.setup /\ disk'.dir["db"] = x
        /\ \A m \in Names \ {"db"} : disk'.dir[m] = disk.dir[m]
    BY <1>1, RewriteNames
  <2> QED BY <2>1 DEF Same, Names
<1> QED BY <1>5, <1>7, <1>8

LEMMA CreateMoves ==
    ASSUME Types, Rooted, Kept, Ready, At("create"), ~Vacuous("create"), StepChecks("create"),
           NEW x \in ContentEffects("create"), InPlace(Target("create").ino, x),
           nextGen' = nextGen + 1, UNCHANGED <<att, saved>>
    PROVE  Rooted' /\ Kept' /\ Steady /\ Moved
<1>1. /\ NoJ(disk) /\ Gone(disk, "new") /\ Db.kind = "empty" /\ Db \in Dirs
      /\ nextGen \in Nat /\ nextGen' \in Nat /\ 0 < nextGen
  <2>1. Db \in Dirs
    BY DiskTypes DEF Rooted, Shape, Db
  <2> QED BY <2>1 DEF Ready, Retired, Vacuous, StepChecks, Dirs, Kinds, Present, Types
<1>2. Db.rows = {}
  BY <1>1 DEF Rooted, Shape, Tidy, Names, Db
<1>3. /\ x \in Dirs /\ x.ino = Db.ino /\ x.kind = "bare" /\ x.rows = {} /\ x.gen = nextGen
      /\ Target("create").ino = Db.ino
  BY <1>1, <1>2 DEF ContentEffects, Target, Dirs, Kinds
<1>4. Rooted' /\ Kept' /\ Steady /\ Same({"tmp", "new", "old"}) /\ disk'.dir.db = x
  BY <1>1, <1>3, FirstMoves
<1> QED BY <1>1, <1>3, <1>4 DEF Moved, At, Db

LEMMA NameMoves ==
    ASSUME Types, Rooted, Kept, Ready, At("name"), ~Vacuous("name"),
           NEW x \in ContentEffects("name"), InPlace(Target("name").ino, x),
           UNCHANGED <<att, saved, nextGen>>
    PROVE  Rooted' /\ Kept' /\ Steady /\ Moved
<1>1. /\ NoJ(disk) /\ Gone(disk, "new") /\ Db.kind = "bare" /\ Db \in Dirs /\ nextGen \in Nat
  <2>1. Db \in Dirs
    BY DiskTypes DEF Rooted, Shape, Db
  <2> QED BY <2>1 DEF Ready, Vacuous, Types
<1>2. Db.rows = {} /\ 0 < Db.gen /\ Db.gen < nextGen
  BY <1>1 DEF Rooted, Shape, Tidy, Names, Db
<1>3. /\ x \in Dirs /\ x.ino = Db.ino /\ x.kind = "full" /\ x.rows = {} /\ x.gen = Db.gen
      /\ Target("name").ino = Db.ino
  BY <1>1, <1>2 DEF ContentEffects, Target, Dirs, Kinds
<1>4. Rooted' /\ Kept' /\ Steady /\ Same({"tmp", "new", "old"}) /\ disk'.dir.db = x
  BY <1>1, <1>2, <1>3, FirstMoves
<1> QED BY <1>3, <1>4 DEF Moved, At

(* One more stage of a deletion. *)
LEMMA ShrinkMoves ==
    ASSUME Types, Rooted, Kept, NEW n \in Names, disk.dir[n].kind \in {"part", "bare", "full"},
           Survivor(disk).ino # disk.dir[n].ino,
           InPlace(disk.dir[n].ino, Shrink(disk.dir[n])), UNCHANGED <<att, saved, nextGen>>
    PROVE  /\ Rooted' /\ Kept' /\ Steady /\ disk'.setup = disk.setup /\ Present(disk'.dir[n])
           /\ \A m \in Names \ {n} : disk'.dir[m] = disk.dir[m]
           /\ ReadGeneration(disk'.dir[n]) \in {0, ReadGeneration(disk.dir[n])}
<1> DEFINE y == disk.dir[n]
           x == Shrink(y)
<1>1. Shape(disk, nextGen) /\ nextGen \in Nat /\ y \in Dirs /\ Present(y)
  BY DiskTypes DEF Types, Rooted, Shape, Present
<1>2. x \in Dirs /\ x.ino = y.ino /\ Present(x) /\ ReadGeneration(x) \in {0, ReadGeneration(y)}
  BY <1>1 DEF Shrink, Dirs, Kinds, Present, ReadGeneration
<1> HIDE DEF x
<1>3. y.ino \in Nat /\ y.ino # 0
  BY <1>1, Elsewhere DEF Dirs
<1>4. ASSUME NEW q \in past \cup {disk}
      PROVE  Shape(Rewrite(q, y.ino, x), nextGen') /\ Survivor(Rewrite(q, y.ino, x)) = Survivor(disk)
  <2>1. /\ Shape(q, nextGen) /\ Survivor(q) = Survivor(disk)
        /\ \A m \in Names : q.dir[m].ino = y.ino => q.dir[m] = y
    BY <1>1, Elsewhere
  <2>2. Survives(q, Rewrite(q, y.ino, x), nextGen)
    BY <1>1, <1>3, <2>1, ShrinkSurvives DEF x
  <2> QED BY <2>1, <2>2 DEF Survives
<1>5. Rooted' /\ Survivor(disk') = Survivor(disk)
  BY <1>2, <1>3, <1>4, RewriteRooted DEF x
<1>6. Kept' /\ Steady
  BY <1>5, SurvivesKept DEF Steady
<1>7. disk'.setup = disk.setup /\ disk'.dir[n] = x /\ \A m \in Names \ {n} : disk'.dir[m] = disk.dir[m]
  BY <1>1, <1>2, RewriteNames DEF x
<1> QED BY <1>2, <1>5, <1>6, <1>7

-----------------------------------------------------------------------------
(* A step done, and a deletion that goes on. *)

(* The steps that end a program. *)
Results == {"recover", "conflict", "none", "pending", "open", "needs_setup", "damaged", "authenticated"}

Advance ==
    /\ todo # <<>> /\ todo' = Tail(todo) /\ op' = op /\ Head(todo) \notin Results
    /\ Moved
    /\ Head(todo) \in AttSteps \cup ControlSteps => disk' = disk
    /\ Head(todo) \notin AttSteps => att' = att
    /\ At("att_old") => att' = att \ {disk.setup.old}
    /\ At("att_new") => att' = att \ {disk.setup.new}
    /\ At("att_copy") => (disk.setup.old \in att' /\ disk.dir.tmp.rows # {} => disk.setup.new \in att')
    /\ state' = IF At("freeze") THEN "Maintenance" ELSE state
    /\ At("check") => ~ctl.cancelled
    /\ At("fresh") => Gone(disk, "tmp")
    /\ (ctl'.cancelled <=> ctl.cancelled /\ ~At("freeze"))
    /\ (ctl'.cancellable <=> At("freeze") \/ (ctl.cancellable /\ ~At("seal")))
    /\ (committed' <=> committed \/ At("intent") \/ (op = "export" /\ At("commit")))

Lingers ==
    /\ todo # <<>> /\ UNCHANGED <<todo, op, state, ctl, committed, att>>
    /\ \/ /\ At("discard") /\ Same({"db", "new", "old"}) /\ Present(disk.dir.tmp)
          /\ ReadGeneration(disk'.dir.tmp) \in {0, ReadGeneration(disk.dir.tmp)}
       \/ /\ At("drop_old") /\ Same({"db", "new", "tmp"}) /\ Present(disk.dir.old)
          /\ ReadGeneration(disk'.dir.old) \in {0, ReadGeneration(disk.dir.old)}

LEMMA StepKinds ==
    /\ \A s \in RootSteps \cup ContentSteps : s \notin AttSteps /\ s \notin ControlSteps
    /\ \A s \in AttSteps : s \notin ControlSteps /\ s \notin RootSteps /\ s \notin ContentSteps
    /\ \A s \in RootSteps \cup ContentSteps \cup AttSteps : s \notin Results
  BY DEF RootSteps, ContentSteps, AttSteps, ControlSteps, Results

LEMMA RootAdvances ==
    ASSUME Types, Rooted, Kept, Ready, RootStep
    PROVE  Rooted' /\ Kept' /\ Advance
<1>1. PICK s \in RootSteps :
        /\ ChangeRoot(s)
        /\ past' = IF Synchronizes(s) THEN {} ELSE past \cup {disk}
        /\ todo' = Tail(todo)
        /\ committed' = (committed \/ (op = "export" /\ s = "commit"))
        /\ UNCHANGED <<att, state, op, req, kek, ctl, faults>>
  BY DEF RootStep
<1>2. Moved /\ Shape(disk', nextGen') /\ Kept' /\ (s \notin Decisions => Carried)
  BY <1>1, RootMoves
<1>3. Rooted'
  <2>1. CASE Synchronizes(s)
    BY <1>1, <1>2, <2>1, FS_EmptySet DEF Rooted
  <2>2. CASE ~Synchronizes(s)
    <3>1. s \notin Decisions
      BY <2>2 DEF Synchronizes, Decisions
    <3>2. past' = past \cup {disk} /\ IsFiniteSet(past')
      BY <1>1, <2>2, FS_AddElement DEF Rooted
    <3> QED BY <1>2, <3>1, <3>2 DEF Rooted, Carried
  <2> QED BY <2>1, <2>2
<1>4. At(s) /\ s \notin AttSteps /\ s \notin ControlSteps /\ s \notin Results
  BY <1>1, StepKinds DEF ChangeRoot
<1>5. committed' <=> committed \/ (op = "export" /\ s = "commit")
  BY <1>1
<1> QED BY <1>1, <1>2, <1>3, <1>4, <1>5 DEF Advance, At, ControlSteps, AttSteps

LEMMA VacuousAdvances ==
    ASSUME Types, Rooted, Kept, VacuousStep
    PROVE  Rooted' /\ Kept' /\ Advance
<1>1. PICK s \in RootSteps \cup ContentSteps :
        /\ At(s) /\ Vacuous(s) /\ StepChecks(s)
        /\ NextStep
        /\ UNCHANGED <<disk, past, att, state, req, kek, nextGen, saved, faults>>
  BY DEF VacuousStep
<1>2. Rooted' /\ Kept'
  BY <1>1 DEF Rooted, Kept
<1>3. Moved
  BY <1>1, VacuousMoves
<1>4. s \notin AttSteps /\ s \notin ControlSteps /\ s \notin Results /\ s # "commit"
  BY <1>1, StepKinds DEF Vacuous
<1> QED BY <1>1, <1>2, <1>3, <1>4 DEF Advance, At, ControlSteps, AttSteps, NextStep, Continue

LEMMA ControlAdvances ==
    ASSUME Types, Rooted, Kept, PassCheck \/ Seal \/ Intent \/ Freeze
    PROVE  Rooted' /\ Kept' /\ Advance
<1>1. /\ Unmoved /\ todo' = Tail(todo) /\ op' = op
      /\ Head(todo) \in {"check", "fresh", "seal", "intent", "freeze"} /\ todo # <<>>
  BY DEF PassCheck, Seal, Intent, Freeze, NextStep, Continue, At
<1>2. Rooted' /\ Kept'
  BY <1>1 DEF Unmoved, Rooted, Kept
<1>3. Moved /\ disk' = disk /\ att' = att /\ Head(todo) \notin AttSteps
  BY <1>1 DEF Moved, At, Unmoved, AttSteps
<1>4. ctl \in [active : BOOLEAN, cancellable : BOOLEAN, cancelled : BOOLEAN]
  BY DEF Types
<1>5. At("fresh") => Gone(disk, "tmp")
  BY DEF PassCheck, Seal, Intent, Freeze, At, StepChecks, Gone
<1>6. /\ state' = IF At("freeze") THEN "Maintenance" ELSE state
      /\ At("check") => ~ctl.cancelled
      /\ (committed' <=> committed \/ At("intent"))
  BY DEF PassCheck, Seal, Intent, Freeze, At, NextStep, Continue
<1>7. /\ (ctl'.cancelled <=> ctl.cancelled /\ ~At("freeze"))
      /\ (ctl'.cancellable <=> At("freeze") \/ (ctl.cancellable /\ ~At("seal")))
  BY <1>4 DEF PassCheck, Seal, Intent, Freeze, At, NextStep, Continue
<1> QED BY <1>1, <1>2, <1>3, <1>5, <1>6, <1>7 DEF Advance, At, Results

LEMMA AttachmentAdvances ==
    ASSUME Types, Rooted, Kept, Ready, AttachmentStep
    PROVE  Rooted' /\ Kept' /\ Advance
<1>1. PICK s \in AttSteps :
        /\ At(s) /\ StepChecks(s)
        /\ att' = CASE s = "att_old" -> att \ {disk.setup.old}
                    [] s = "att_new" -> att \ {disk.setup.new}
                    [] s = "att_copy" -> IF disk.setup.old \in att /\ disk.dir.tmp.rows # {}
                                           THEN att \cup {disk.setup.new} ELSE att
        /\ NextStep
        /\ UNCHANGED <<disk, past, state, req, kek, nextGen, saved, faults>>
  BY DEF AttachmentStep
<1>2. /\ s = "att_old" => att' = att \ {disk.setup.old}
      /\ s = "att_new" => att' = att \ {disk.setup.new}
      /\ s = "att_copy" => att' = IF disk.setup.old \in att /\ disk.dir.tmp.rows # {}
                                    THEN att \cup {disk.setup.new} ELSE att
      /\ s \in {"att_old", "att_new", "att_copy"}
  BY <1>1 DEF AttSteps
<1>3. Rooted'
  BY <1>1 DEF Rooted
<1>4. Shape(disk, nextGen) /\ nextGen \in Nat
  BY DEF Types, Rooted
<1>5. ~NoJ(disk) => disk.setup.old # disk.setup.new
  BY <1>4, DiskTypes DEF Shape, Journaled, Journals
<1>6. Kept'
  <2>1. CASE s = "att_old"
    <3>1. Installed(disk) \/ In(disk, "RetireOld") \/ In(disk, "AwaitChoice")
      BY <1>1, <2>1 DEF Ready
    <3>2. CASE Installed(disk)
      <4>1. Survivor(disk).gen = disk.setup.new /\ ~NoJ(disk)
        BY <1>4, <3>2, SurvivorCases DEF Installed
      <4> QED BY <1>1, <1>2, <1>5, <2>1, <4>1 DEF Kept
    <3>3. CASE In(disk, "RetireOld") \/ In(disk, "AwaitChoice")
      <4>1. saved = {}
        BY <1>4, <3>3, SurvivorCases, AbsentType DEF Kept
      <4> QED BY <1>1, <4>1 DEF Kept
    <3> QED BY <3>1, <3>2, <3>3
  <2>2. CASE s = "att_new"
    <3>1. Survivor(disk).gen = disk.setup.old /\ ~NoJ(disk)
      BY <1>1, <1>4, <2>2, SurvivorCases DEF Ready, In
    <3> QED BY <1>1, <1>2, <1>5, <2>2, <3>1 DEF Kept
  <2>3. CASE s = "att_copy"
    BY <1>1, <1>2, <2>3 DEF Kept
  <2> QED BY <1>2, <2>1, <2>2, <2>3
<1>7. Moved
  BY <1>1, <1>2 DEF Moved, At
<1>8. Head(todo) = s /\ todo # <<>> /\ todo' = Tail(todo) /\ UNCHANGED <<op, committed, ctl>>
  BY <1>1 DEF At, NextStep, Continue
<1>9. At("att_copy") => (disk.setup.old \in att' /\ disk.dir.tmp.rows # {} => disk.setup.new \in att')
  BY <1>2, <1>8 DEF At
<1> QED BY <1>1, <1>2, <1>3, <1>6, <1>7, <1>8, <1>9 DEF Advance, At, AttSteps, Results

LEMMA ContentAdvances ==
    ASSUME Types, Rooted, Kept, Ready, ContentStep
    PROVE  Rooted' /\ Kept' /\ Steady /\ (Advance \/ Lingers)
<1>1. PICK s \in ContentSteps :
        /\ At(s) /\ ContentOnly(s) /\ ~Vacuous(s) /\ StepChecks(s)
        /\ \E dir \in ContentEffects(s) : InPlace(Target(s).ino, dir)
        /\ nextGen' = IF Draws(s) THEN nextGen + 1 ELSE nextGen
        /\ Continue(After(s))
        /\ UNCHANGED <<att, state, req, kek, saved, faults>>
  BY DEF ContentStep
<1>2. CASE s \in {"tag", "fill", "create", "name"}
  <2>1. PICK x \in ContentEffects(s) : InPlace(Target(s).ino, x)
    BY <1>1
  <2>2. nextGen' = IF s = "create" THEN nextGen + 1 ELSE nextGen
    BY <1>1, <1>2 DEF Draws
  <2>3. Rooted' /\ Kept' /\ Steady /\ Moved
    BY <1>1, <1>2, <2>1, <2>2, TagMoves, FillMoves, CreateMoves, NameMoves
  <2>4. todo # <<>> /\ Head(todo) = s /\ todo' = Tail(todo) /\ UNCHANGED <<op, committed, ctl>>
    BY <1>1, <1>2 DEF Continue, After, At
  <2>5. Advance
    BY <1>1, <1>2, <2>3, <2>4 DEF Advance, At, AttSteps, ControlSteps, Results
  <2> QED BY <2>3, <2>5
<1>3. CASE s = "discard"
  <2>1. /\ disk.dir["tmp"].kind \in {"part", "bare", "full"} /\ "tmp" \in Names /\ Present(disk.dir["tmp"])
    BY <1>1, <1>3, DiskTypes DEF ContentOnly, Vacuous, Present, Rooted, Shape, Dirs, Kinds, Names
  <2>2. InPlace(disk.dir["tmp"].ino, Shrink(disk.dir["tmp"])) /\ nextGen' = nextGen
    BY <1>1, <1>3 DEF ContentEffects, Target, Draws
  <2>3. Survivor(disk).ino # disk.dir["tmp"].ino
    BY <1>1, <1>3, <2>1, TmpIsNotIt DEF Ready
  <2>4. /\ Rooted' /\ Kept' /\ Steady /\ disk'.setup = disk.setup
        /\ \A m \in Names \ {"tmp"} : disk'.dir[m] = disk.dir[m]
        /\ ReadGeneration(disk'.dir["tmp"]) \in {0, ReadGeneration(disk.dir["tmp"])}
    BY <1>1, <2>1, <2>2, <2>3, ShrinkMoves
  <2>5. UNCHANGED <<todo, op, committed, ctl>> /\ todo # <<>>
    BY <1>1, <1>3 DEF Continue, After, At
  <2>6. Same({"db", "new", "old"})
    BY <2>4 DEF Same, Names
  <2> QED BY <1>1, <1>3, <2>1, <2>4, <2>5, <2>6 DEF Lingers
<1>4. CASE s = "drop_old"
  <2>1. /\ disk.dir["old"].kind \in {"part", "bare", "full"} /\ "old" \in Names /\ Present(disk.dir["old"])
    BY <1>1, <1>4, DiskTypes DEF ContentOnly, Vacuous, Present, Rooted, Shape, Dirs, Kinds, Names
  <2>2. InPlace(disk.dir["old"].ino, Shrink(disk.dir["old"])) /\ nextGen' = nextGen
    BY <1>1, <1>4 DEF ContentEffects, Target, Draws
  <2>3. Survivor(disk).ino # disk.dir["old"].ino
    BY <2>1, OldIsNotIt
  <2>4. /\ Rooted' /\ Kept' /\ Steady /\ disk'.setup = disk.setup
        /\ \A m \in Names \ {"old"} : disk'.dir[m] = disk.dir[m]
        /\ ReadGeneration(disk'.dir["old"]) \in {0, ReadGeneration(disk.dir["old"])}
    BY <1>1, <2>1, <2>2, <2>3, ShrinkMoves
  <2>5. UNCHANGED <<todo, op, committed, ctl>> /\ todo # <<>>
    BY <1>1, <1>4 DEF Continue, After, At
  <2>6. Same({"db", "new", "tmp"})
    BY <2>4 DEF Same, Names
  <2> QED BY <1>1, <1>4, <2>1, <2>4, <2>5, <2>6 DEF Lingers
<1> QED BY <1>2, <1>3, <1>4 DEF ContentSteps

-----------------------------------------------------------------------------
(* Each program goes on as its clause says. *)

LEMMA Arrive ==
    ASSUME NEW P, Len(P) \in Nat, todo \in Seq(Steps), Ends(P), Advance, todo' # <<>>
    PROVE  Left' = Left - 1 /\ Left' \in Nat /\ Left' >= 1 /\ Ends(P)' /\ op' = op
<1>1. todo' = Tail(todo) /\ op' = op
  BY DEF Advance
<1>2. Left' = Left - 1 /\ Ends(P)'
  BY <1>1, EndsTail
<1>3. Left' \in 1..Len(P)
  BY <1>2 DEF Ends
<1> QED BY <1>1, <1>2, <1>3

LEMMA ReplacingGoesOn ==
    ASSUME Types, Rooted, Replacing(Left), Advance, Left' = Left - 1, Left \in 2..10, op # "export",
           \/ (Left = 10 /\ At("retire_db")) \/ (Left = 9 /\ At("commit")) \/ (Left = 8 /\ At("swap_old"))
           \/ (Left = 7 /\ At("swap_new")) \/ (Left = 6 /\ At("drop_old")) \/ (Left = 5 /\ At("att_old"))
           \/ (Left = 4 /\ At("drop_old")) \/ (Left = 3 /\ At("mark")) \/ (Left = 2 /\ At("unmark"))
    PROVE  Replacing(Left)'
<1>0. Shape(disk, nextGen) /\ nextGen \in Nat /\ (~NoJ(disk) => disk.setup.new # 0)
  <2>1. Shape(disk, nextGen) /\ nextGen \in Nat
    BY DEF Types, Rooted
  <2> QED BY <2>1, DiskTypes DEF Shape, Journaled, Journals
<1>1. CASE Left = 10
  <2>1. In(disk, "InstallNew") /\ ~Installed(disk) /\ Gone(disk, "new")
    BY <1>1 DEF Replacing
  <2>2. Same({"tmp", "new"}) /\ disk'.dir.db = Absent
    BY <1>1 DEF Advance, Moved
  <2>3. In(disk', "InstallNew") /\ ~Installed(disk') /\ Gone(disk', "new")
    BY <1>0, <2>1, <2>2 DEF Same, In, NoJ, Installed, Current, ReadGeneration, Absent, Gone
  <2> QED BY <1>1, <2>3 DEF Replacing
<1>2. CASE Left = 9
  <2>1. In(disk, "InstallNew") /\ ~Installed(disk) /\ Gone(disk, "new")
    BY <1>2 DEF Replacing
  <2>2. Same({"db", "old"}) /\ disk'.dir.new = disk.dir.tmp
    BY <1>2 DEF Advance, Moved
  <2>3. disk.dir.tmp.kind = "full"
    BY <1>0, <2>1, SurvivorCases DEF Staging
  <2>4. In(disk', "InstallNew") /\ Present(disk'.dir.new)
    BY <2>1, <2>2, <2>3 DEF Same, In, NoJ, Present
  <2> QED BY <1>2, <2>4 DEF Replacing
<1>3. CASE Left = 8
  <2>1. In(disk, "InstallNew") /\ Present(disk.dir.new)
    BY <1>3 DEF Replacing
  <2>2. Same({"tmp", "new"})
    BY <1>3 DEF Advance, Moved
  <2>3. In(disk', "InstallNew") /\ Present(disk'.dir.new)
    BY <2>1, <2>2 DEF Same, In, NoJ
  <2> QED BY <1>3, <2>3 DEF Replacing
<1>4. CASE Left = 7
  <2>1. In(disk, "InstallNew") /\ Present(disk.dir.new) /\ ~NoJ(disk)
    BY <1>4 DEF Replacing, In
  <2>2. Same({"tmp", "old"}) /\ disk'.dir.db = disk.dir.new
    BY <1>4 DEF Advance, Moved
  <2>3. disk.dir.new.kind = "full" /\ disk.dir.new.gen = disk.setup.new
    BY <1>0, <2>1 DEF Shape, Journaled, PreflightSetup
  <2>4. Installed(disk')
    BY <2>1, <2>2, <2>3 DEF Same, NoJ, Installed, Current, ReadGeneration
  <2> QED BY <1>4, <2>4 DEF Replacing
<1>5. CASE Left \in {4, 5, 6}
  <2>1. Installed(disk)
    BY <1>5 DEF Replacing
  <2>2. disk'.setup = disk.setup /\ disk'.dir.db = disk.dir.db
    BY <1>5 DEF Advance, Moved, Same, At, AttSteps
  <2>3. Installed(disk')
    BY <2>1, <2>2 DEF Installed, NoJ, Current
  <2>4. Left = 4 => Gone(disk', "old")
    BY <1>5, AbsentType DEF Advance, Moved, Gone, At
  <2> QED BY <1>5, <2>3, <2>4 DEF Replacing
<1>6. CASE Left = 3
  <2>1. Installed(disk) /\ Gone(disk, "old")
    BY <1>6 DEF Replacing
  <2>2. disk'.dir = disk.dir /\ In(disk', "Installed") /\ disk'.setup.new = disk.setup.new
    BY <1>6 DEF Advance, Moved
  <2>3. Installed(disk') /\ Gone(disk', "old")
    BY <2>1, <2>2 DEF Installed, In, Current, Gone
  <2> QED BY <1>6, <2>2, <2>3 DEF Replacing
<1>7. CASE Left = 2
  <2>1. Installed(disk) /\ Gone(disk, "old")
    BY <1>7 DEF Replacing
  <2>2. disk'.dir = disk.dir /\ NoJ(disk')
    BY <1>7 DEF Advance, Moved
  <2>3. Gone(disk, "tmp") /\ Gone(disk, "new") /\ disk.dir.db.kind = "full"
    BY <1>0, <2>1, SurvivorCases
  <2>4. Retired' /\ (Db.kind = "full")'
    BY <2>1, <2>2, <2>3 DEF Retired, Gone, Db
  <2> QED BY <1>7, <2>4 DEF Replacing
<1> QED BY <1>1, <1>2, <1>3, <1>4, <1>5, <1>6, <1>7

LEMMA BootsGoesOn ==
    ASSUME Types, Rooted, Boots, Advance, todo' # <<>>
    PROVE  Boots'
<1>1. todo \in Seq(Steps) /\ op \in Recovering /\ Ends(BootSteps)
  BY DEF Types, Boots
<1>2. Len(BootSteps) \in Nat /\ ((Left = 2 /\ At("prepare")) \/ (Left = 1 /\ At("recover")))
  BY <1>1, BootStepsAt
<1>3. Left' = Left - 1 /\ Left' >= 1 /\ Ends(BootSteps)' /\ op' = op
  BY <1>1, <1>2, Arrive
<1>4. Present(disk'.dir.db) /\ state' = state
  BY <1>2, <1>3 DEF Advance, Moved, At
<1>5. op = "boot"
  BY <1>2, <1>3 DEF Boots
<1> QED BY <1>1, <1>2, <1>3, <1>4, <1>5 DEF Boots, Db

LEMMA ResumesGoesOn ==
    ASSUME Types, Rooted, Resumes, Advance, todo' # <<>>
    PROVE  Resumes'
<1>1. todo \in Seq(Steps) /\ op \in Recovering /\ Ends(ResumeSteps) /\ Replacing(Left) /\ op # "export"
  BY DEF Types, Resumes, Recovering
<1>a. Len(ResumeSteps) \in Nat
  BY <1>1, ResumeStepsAt
<1>2. Left' = Left - 1 /\ Left' \in Nat /\ Left' >= 1 /\ Ends(ResumeSteps)' /\ op' = op
  BY <1>1, <1>a, Arrive
<1>3. \/ (Left = 10 /\ At("retire_db")) \/ (Left = 9 /\ At("commit")) \/ (Left = 8 /\ At("swap_old"))
      \/ (Left = 7 /\ At("swap_new")) \/ (Left = 6 /\ At("drop_old")) \/ (Left = 5 /\ At("att_old"))
      \/ (Left = 4 /\ At("drop_old")) \/ (Left = 3 /\ At("mark")) \/ (Left = 2 /\ At("unmark"))
  BY <1>1, <1>2, ResumeStepsAt
<1>4. Replacing(Left)'
  BY <1>1, <1>2, <1>3, ReplacingGoesOn
<1> QED BY <1>1, <1>2, <1>4 DEF Resumes

LEMMA ResumesNewGoesOn ==
    ASSUME Types, Rooted, ResumesNew, Advance, todo' # <<>>
    PROVE  ResumesNew'
<1>1. todo \in Seq(Steps) /\ op \in Recovering /\ Ends(ResumeNewSteps) /\ op # "export"
  BY DEF Types, ResumesNew, Recovering
<1>a. Len(ResumeNewSteps) \in Nat
  BY <1>1, ResumeNewStepsAt
<1>2. Left' = Left - 1 /\ Left' \in Nat /\ Left' >= 1 /\ Ends(ResumeNewSteps)' /\ op' = op
  BY <1>1, <1>a, Arrive
<1>3. \/ (Left = 9 /\ At("retire_db")) \/ (Left = 8 /\ At("swap_old"))
      \/ (Left = 7 /\ At("swap_new")) \/ (Left = 6 /\ At("drop_old")) \/ (Left = 5 /\ At("att_old"))
      \/ (Left = 4 /\ At("drop_old")) \/ (Left = 3 /\ At("mark")) \/ (Left = 2 /\ At("unmark"))
  BY <1>1, <1>2, ResumeNewStepsAt
<1>4. CASE Left = 9
  <2>1. In(disk, "InstallNew") /\ Present(disk.dir.new)
    BY <1>4 DEF ResumesNew, Replacing
  <2>2. Same({"tmp", "new"})
    BY <1>3, <1>4 DEF Advance, Moved
  <2>3. In(disk', "InstallNew") /\ Present(disk'.dir.new)
    BY <2>1, <2>2 DEF Same, In, NoJ
  <2>4. Replacing(Left)'
    BY <1>2, <1>4, <2>3 DEF Replacing
  <2> QED BY <1>1, <1>2, <1>4, <2>4 DEF ResumesNew
<1>5. CASE Left # 9
  <2>1. Replacing(Left)
    BY <1>5 DEF ResumesNew
  <2>2. Replacing(Left)'
    BY <1>1, <1>2, <1>3, <1>5, <2>1, ReplacingGoesOn
  <2>3. Left' # 9
    BY <1>2, <1>3, <1>5
  <2> QED BY <1>1, <1>2, <2>2, <2>3 DEF ResumesNew
<1> QED BY <1>4, <1>5

LEMMA SetsUpGoesOn ==
    ASSUME Types, Rooted, SetsUp, Advance, todo' # <<>>
    PROVE  SetsUp'
<1>1. /\ todo \in Seq(Steps) /\ op \in Recovering /\ Ends(CompleteSetup)
      /\ op \notin {"export", "salvage"} /\ Left \in Nat
  BY DEF Types, SetsUp, Recovering, Left
<1>a. Len(CompleteSetup) \in Nat
  BY <1>1, CompleteSetupAt
<1>2. Left' = Left - 1 /\ Left' \in Nat /\ Left' >= 1 /\ Ends(CompleteSetup)' /\ op' = op
  BY <1>1, <1>a, Arrive
<1>b. Shape(disk, nextGen) /\ nextGen \in Nat
  BY DEF Types, Rooted
<1>3. CASE Left > 10
  <2>1. \/ (Left = 14 /\ At("discard")) \/ (Left = 13 /\ At("mktmp")) \/ (Left = 12 /\ At("tag"))
        \/ (Left = 11 /\ At("fill"))
    BY <1>1, <1>3, CompleteSetupAt
  <2>2. In(disk, "AwaitChoice") /\ disk'.setup = disk.setup
    BY <1>3, <2>1 DEF SetsUp, Advance, Moved, Same
  <2>3. In(disk', "AwaitChoice") /\ TagGen = disk'.setup.new
    BY <2>2 DEF In, NoJ, TagGen
  <2>4. /\ Left = 14 => Gone(disk', "tmp")
        /\ Left = 13 => disk'.dir.tmp.kind = "empty"
        /\ Left = 12 => disk'.dir.tmp.kind = "part" /\ disk'.dir.tmp.gen = disk'.setup.new
    BY <2>1, <2>3, AbsentType DEF Advance, Moved, Gone, At
  <2>5. Left = 11 => Staging(disk', disk'.setup.new) /\ disk'.dir.tmp.rows = {}
    <3>1. Left = 11 => /\ disk.dir.tmp.gen = disk.setup.new /\ At("fill")
      BY <2>1 DEF SetsUp
    <3>2. StagedRows = {{}}
      BY <1>1 DEF StagedRows
    <3> QED BY <2>2, <3>1, <3>2 DEF Advance, Moved, Staging
  <2> QED BY <1>1, <1>2, <1>3, <2>3, <2>4, <2>5 DEF SetsUp
<1>4. CASE Left = 10
  <2>1. At("install_new") /\ In(disk, "AwaitChoice")
    BY <1>1, <1>4, CompleteSetupAt DEF SetsUp
  <2>2. disk'.dir = disk.dir /\ In(disk', "InstallNew") /\ disk'.setup.new = disk.setup.new
    BY <2>1 DEF Advance, Moved
  <2>3. ~Installed(disk) /\ Gone(disk, "new") /\ ~NoJ(disk)
    BY <1>b, <2>1, SurvivorCases DEF In
  <2>4. In(disk', "InstallNew") /\ ~Installed(disk') /\ Gone(disk', "new")
    BY <2>2, <2>3 DEF Installed, Current, Gone
  <2>5. Replacing(Left)'
    BY <1>2, <1>4, <2>4 DEF Replacing
  <2> QED BY <1>1, <1>2, <1>4, <2>5 DEF SetsUp
<1>5. CASE Left < 10
  <2>1. Replacing(Left)
    BY <1>5 DEF SetsUp
  <2>2. \/ (Left = 9 /\ At("commit")) \/ (Left = 8 /\ At("swap_old"))
        \/ (Left = 7 /\ At("swap_new")) \/ (Left = 6 /\ At("drop_old")) \/ (Left = 5 /\ At("att_old"))
        \/ (Left = 4 /\ At("drop_old")) \/ (Left = 3 /\ At("mark")) \/ (Left = 2 /\ At("unmark"))
    BY <1>1, <1>2, <1>5, CompleteSetupAt
  <2>3. Replacing(Left)'
    BY <1>1, <1>2, <2>1, <2>2, ReplacingGoesOn
  <2> QED BY <1>1, <1>2, <1>5, <2>3 DEF SetsUp
<1> QED BY <1>1, <1>3, <1>4, <1>5

LEMMA SalvagesGoesOn ==
    ASSUME Types, Rooted, Ready, Salvages, Advance, todo' # <<>>
    PROVE  Salvages'
<1>1. todo \in Seq(Steps) /\ op = "salvage" /\ Ends(InstallSalvaged) /\ Left \in Nat
  BY DEF Types, Salvages, Left
<1>a. Len(InstallSalvaged) \in Nat
  BY <1>1, InstallSalvagedAt
<1>2. Left' = Left - 1 /\ Left' \in Nat /\ Left' >= 1 /\ Ends(InstallSalvaged)' /\ op' = "salvage"
  BY <1>1, <1>a, Arrive
<1>b. Shape(disk, nextGen) /\ nextGen \in Nat
  BY DEF Types, Rooted
<1>3. CASE Left >= 18
  <2>1. \/ (Left = 24 /\ At("quarantine")) \/ (Left = 23 /\ At("freeze")) \/ (Left = 22 /\ At("check"))
        \/ (Left = 21 /\ At("discard")) \/ (Left = 20 /\ At("mktmp")) \/ (Left = 19 /\ At("tag"))
        \/ (Left = 18 /\ At("fill"))
    BY <1>1, <1>3, InstallSalvagedAt
  <2>2. In(disk', "BuildReplacement") /\ (Left < 24 => disk'.setup = disk.setup /\ TagGen = disk'.setup.new)
    <3>1. CASE Left = 24
      BY <2>1, <3>1 DEF Advance, Moved, At
    <3>2. CASE Left # 24
      <4>1. In(disk, "BuildReplacement")
        BY <2>1, <3>2 DEF Salvages
      <4>2. disk'.setup = disk.setup
        BY <2>1, <3>2 DEF Advance, Moved, Same, At, ControlSteps
      <4> QED BY <4>1, <4>2 DEF In, NoJ, TagGen
    <3> QED BY <2>1, <3>1, <3>2
  <2>3. /\ Left = 21 => Gone(disk', "tmp")
        /\ Left = 20 => disk'.dir.tmp.kind = "empty"
        /\ Left = 19 => disk'.dir.tmp.kind = "part" /\ disk'.dir.tmp.gen = disk'.setup.new
    BY <2>1, <2>2, AbsentType DEF Advance, Moved, Gone, At
  <2>4. Left = 18 => Staging(disk', disk'.setup.new) /\ disk'.dir.tmp.rows \subseteq disk'.dir.db.rows
    <3>1. Left = 18 => disk.dir.tmp.gen = disk.setup.new /\ At("fill")
      BY <2>1 DEF Salvages
    <3>2. StagedRows = SUBSET disk.dir.db.rows
      BY <1>1 DEF StagedRows, Db
    <3>3. Left = 18 => Same({"db", "new", "old"})
      BY <3>1 DEF Advance, Moved
    <3> QED BY <2>2, <3>1, <3>2, <3>3 DEF Advance, Moved, Staging, Same
  <2>5. IF Left' >= 23 THEN state' = "Damaged" ELSE state' = "Maintenance"
    <3>1. IF Left >= 23 THEN state = "Damaged" ELSE state = "Maintenance"
      BY DEF Salvages
    <3>2. state' = IF Left = 23 THEN "Maintenance" ELSE state
      BY <2>1 DEF Advance, At
    <3> QED BY <1>2, <2>1, <3>1, <3>2
  <2>6. ~committed'
    <3>1. ~committed
      BY <1>1, <1>3 DEF Salvages
    <3> QED BY <1>1, <2>1, <3>1 DEF Advance, At
  <2> QED BY <1>2, <1>3, <2>1, <2>2, <2>3, <2>4, <2>5, <2>6 DEF Salvages, Db
<1>4. CASE Left < 18 /\ Left > 11
  <2>1. \/ (Left = 17 /\ At("check")) \/ (Left = 16 /\ At("att_copy")) \/ (Left = 15 /\ At("check"))
        \/ (Left = 14 /\ At("seal")) \/ (Left = 13 /\ At("check")) \/ (Left = 12 /\ At("intent"))
    BY <1>1, <1>4, InstallSalvagedAt
  <2>2. /\ In(disk, "BuildReplacement") /\ Staging(disk, disk.setup.new) /\ disk.dir.tmp.rows \subseteq Db.rows
        /\ state = "Maintenance" /\ ~committed
        /\ Left \in {12, 13, 14, 15} => (disk.setup.old \in att /\ disk.dir.tmp.rows # {} => disk.setup.new \in att)
        /\ Left \in {12, 13} => ~ctl.cancellable
        /\ Left = 12 => ~ctl.cancelled
    BY <1>1, <1>4 DEF Salvages
  <2>3. disk' = disk /\ state' = "Maintenance"
    BY <2>1, <2>2 DEF Advance, At, AttSteps, ControlSteps
  <2>4. Left \in {12, 13, 14, 15, 16} =>
          (disk.setup.old \in att' /\ disk.dir.tmp.rows # {} => disk.setup.new \in att')
    BY <2>1, <2>2 DEF Advance, At, AttSteps
  <2>5. committed' <=> Left = 12
    BY <1>1, <2>1, <2>2 DEF Advance, At
  <2>6. /\ Left \in {12, 13, 14} => ~ctl'.cancellable
        /\ Left \in {12, 13} => ~ctl'.cancelled
    BY <2>1, <2>2 DEF Advance, At
  <2> QED BY <1>2, <1>4, <2>1, <2>2, <2>3, <2>4, <2>5, <2>6 DEF Salvages, Db
<1>5. CASE Left <= 11
  <2>1. /\ state = "Maintenance" /\ committed /\ ~ctl.cancellable /\ ~ctl.cancelled
        /\ Left <= 10 => Replacing(Left)
        /\ Left = 11 => In(disk, "BuildReplacement")
    BY <1>1, <1>5 DEF Salvages
  <2>2. \/ (Left = 11 /\ At("install_new")) \/ (Left = 10 /\ At("retire_db")) \/ (Left = 9 /\ At("commit"))
        \/ (Left = 8 /\ At("swap_old"))
        \/ (Left = 7 /\ At("swap_new")) \/ (Left = 6 /\ At("drop_old")) \/ (Left = 5 /\ At("att_old"))
        \/ (Left = 4 /\ At("drop_old")) \/ (Left = 3 /\ At("mark")) \/ (Left = 2 /\ At("unmark"))
    BY <1>1, <1>2, <1>5, InstallSalvagedAt
  <2>3. /\ state' = "Maintenance" /\ committed' /\ ~ctl'.cancellable /\ ~ctl'.cancelled
    BY <2>1, <2>2 DEF Advance, At
  <2>4. Replacing(Left)'
    <3>1. CASE Left = 11
      <4>1. disk'.dir = disk.dir /\ In(disk', "InstallNew") /\ disk'.setup.new = disk.setup.new
        BY <2>2, <3>1 DEF Advance, Moved
      <4>2. ~Installed(disk) /\ Gone(disk, "new") /\ ~NoJ(disk)
        BY <1>b, <2>1, <3>1, SurvivorCases DEF In
      <4>3. ~Installed(disk') /\ Gone(disk', "new")
        BY <4>1, <4>2 DEF Installed, Current, Gone
      <4> QED BY <1>2, <3>1, <4>1, <4>3 DEF Replacing
    <3>2. CASE Left # 11
      BY <1>1, <1>2, <2>1, <2>2, <3>2, ReplacingGoesOn
    <3> QED BY <3>1, <3>2
  <2> QED BY <1>1, <1>2, <1>5, <2>1, <2>2, <2>3, <2>4 DEF Salvages
<1> QED BY <1>1, <1>3, <1>4, <1>5

LEMMA ExportsGoesOn ==
    ASSUME Types, Rooted, Exports, Advance, todo' # <<>>
    PROVE  Exports'
<1>1. todo \in Seq(Steps) /\ op = "export" /\ Ends(ExportSwap) /\ Left \in Nat /\ state = "Maintenance" /\ NoJ(disk)
  BY DEF Types, Exports, Left
<1>a. Len(ExportSwap) \in Nat
  BY <1>1, ExportSwapAt
<1>2. Left' = Left - 1 /\ Left' \in Nat /\ Left' >= 1 /\ Ends(ExportSwap)' /\ op' = "export"
  BY <1>1, <1>a, Arrive
<1>b. Shape(disk, nextGen) /\ nextGen \in Nat
  BY DEF Types, Rooted
<1>3. CASE Left >= 10
  <2>1. \/ (Left = 14 /\ At("check")) \/ (Left = 13 /\ At("fresh")) \/ (Left = 12 /\ At("mktmp"))
        \/ (Left = 11 /\ At("tag")) \/ (Left = 10 /\ At("fill"))
    BY <1>1, <1>3, ExportSwapAt
  <2>2. Gone(disk, "new") /\ Gone(disk, "old") /\ Db.kind = "full" /\ ~committed
    BY <1>1, <1>3 DEF Exports
  <2>3. Same({"db", "new", "old"})
    BY <2>1 DEF Advance, Moved, Same, At, ControlSteps
  <2>4. NoJ(disk') /\ Gone(disk', "new") /\ Gone(disk', "old") /\ disk'.dir.db = disk.dir.db /\ TagGen = Db.gen
    BY <1>1, <2>2, <2>3 DEF Same, NoJ, Gone, TagGen, ReadGeneration
  <2>5. /\ Left = 13 => Gone(disk', "tmp")
        /\ Left = 12 => disk'.dir.tmp.kind = "empty"
        /\ Left = 11 => disk'.dir.tmp.kind = "part" /\ disk'.dir.tmp.gen = disk'.dir.db.gen
    BY <2>1, <2>4, AbsentType DEF Advance, Moved, Gone, At, ControlSteps, Db
  <2>6. Left = 10 => Staging(disk', disk'.dir.db.gen) /\ disk'.dir.tmp.rows = disk'.dir.db.rows
    <3>1. Left = 10 => disk.dir.tmp.gen = Db.gen /\ At("fill")
      BY <2>1 DEF Exports
    <3>2. StagedRows = {disk.dir.db.rows}
      BY <1>1 DEF StagedRows, Db
    <3> QED BY <2>4, <3>1, <3>2 DEF Advance, Moved, Staging, Db
  <2>7. ~committed' /\ state' = "Maintenance"
    BY <1>1, <2>1, <2>2 DEF Advance, At
  <2> QED BY <1>2, <1>3, <2>1, <2>2, <2>4, <2>5, <2>6, <2>7 DEF Exports, Db
<1>4. CASE Left < 10 /\ Left > 5
  <2>1. \/ (Left = 9 /\ At("check")) \/ (Left = 8 /\ At("check")) \/ (Left = 7 /\ At("seal"))
        \/ (Left = 6 /\ At("check"))
    BY <1>1, <1>4, ExportSwapAt
  <2>2. /\ Gone(disk, "new") /\ Gone(disk, "old") /\ Db.kind = "full" /\ ~committed
        /\ Staging(disk, Db.gen) /\ disk.dir.tmp.rows = Db.rows
        /\ Left = 6 => ~ctl.cancellable
    BY <1>1, <1>4 DEF Exports
  <2>3. disk' = disk /\ state' = "Maintenance" /\ ~committed'
    BY <1>1, <2>1, <2>2 DEF Advance, At, AttSteps, ControlSteps
  <2>4. /\ Left \in {6, 7} => ~ctl'.cancellable
        /\ Left = 6 => ~ctl'.cancelled
    BY <2>1, <2>2 DEF Advance, At
  <2> QED BY <1>1, <1>2, <1>4, <2>1, <2>2, <2>3, <2>4 DEF Exports, Db
<1>5. CASE Left <= 5
  <2>1. /\ ~ctl.cancellable /\ ~ctl.cancelled /\ (committed <=> Left < 5)
        /\ Left = 5 => Staging(disk, Db.gen)
        /\ Left \in {3, 4} => Present(disk.dir.new)
        /\ Left <= 4 => Gone(disk, "tmp")
        /\ Left <= 2 => Gone(disk, "new") /\ Db.kind = "full"
    BY <1>1, <1>5 DEF Exports
  <2>2. \/ (Left = 5 /\ At("commit")) \/ (Left = 4 /\ At("swap_old"))
        \/ (Left = 3 /\ At("swap_new")) \/ (Left = 2 /\ At("drop_old"))
    BY <1>1, <1>2, <1>5, ExportSwapAt
  <2>3. state' = "Maintenance" /\ committed' /\ ~ctl'.cancellable /\ ~ctl'.cancelled
    BY <1>1, <2>1, <2>2 DEF Advance, At
  <2>4. NoJ(disk')
    BY <1>1, <2>2 DEF Advance, Moved, Same, At, NoJ
  <2>5. CASE Left = 5
    <3>1. disk'.dir.new = disk.dir.tmp /\ disk'.dir.tmp = Absent
      BY <2>2, <2>5 DEF Advance, Moved, At
    <3>2. Present(disk'.dir.new) /\ Gone(disk', "tmp")
      BY <2>1, <2>5, <3>1, AbsentType DEF Staging, Gone, Present
    <3> QED BY <1>2, <2>3, <2>4, <2>5, <3>2 DEF Exports
  <2>6. CASE Left = 4
    <3>1. Same({"tmp", "new"})
      BY <2>2, <2>6 DEF Advance, Moved, At
    <3>2. Present(disk'.dir.new) /\ Gone(disk', "tmp")
      BY <2>1, <2>6, <3>1 DEF Same, Gone
    <3> QED BY <1>2, <2>3, <2>4, <2>6, <3>2 DEF Exports
  <2>7. CASE Left = 3
    <3>1. Same({"tmp", "old"}) /\ disk'.dir.db = disk.dir.new /\ disk'.dir.new = Absent
      BY <2>2, <2>7 DEF Advance, Moved, At
    <3>2. disk.dir.new.kind = "full"
      BY <1>1, <1>b, <2>1, <2>7 DEF Shape, Whole
    <3>3. Gone(disk', "new") /\ Gone(disk', "tmp") /\ disk'.dir.db.kind = "full"
      BY <2>1, <2>7, <3>1, <3>2, AbsentType DEF Same, Gone
    <3> QED BY <1>2, <2>3, <2>4, <2>7, <3>3 DEF Exports, Db
  <2>8. CASE Left = 2
    <3>1. Same({"db", "new", "tmp"}) /\ disk'.dir.old = Absent
      BY <2>2, <2>8 DEF Advance, Moved, At
    <3>2. Gone(disk', "new") /\ Gone(disk', "tmp") /\ disk'.dir.db.kind = "full" /\ Gone(disk', "old")
      BY <2>1, <2>8, <3>1, AbsentType DEF Same, Gone, Db
    <3> QED BY <1>2, <2>3, <2>4, <2>8, <3>2 DEF Exports, Db
  <2> QED BY <2>2, <2>5, <2>6, <2>7, <2>8
<1> QED BY <1>1, <1>3, <1>4, <1>5

LEMMA RollsBackGoesOn ==
    ASSUME Types, Rooted, RollsBack, Advance, todo' # <<>>
    PROVE  RollsBack'
<1>1. /\ todo \in Seq(Steps) /\ op = "rollback" /\ state = "Maintenance" /\ Ends(RollbackSteps)
      /\ NoJ(disk) /\ Gone(disk, "new") /\ Gone(disk, "old") /\ disk.dir.db.kind = "full"
  BY DEF Types, RollsBack, Db
<1>2. Len(RollbackSteps) \in Nat /\ ((Left = 3 /\ At("discard")) \/ (Left = 2 /\ At("name")) \/ (Left = 1 /\ At("open")))
  BY <1>1, RollbackStepsAt
<1>3. Left' = Left - 1 /\ Left' >= 1 /\ Ends(RollbackSteps)' /\ op' = op
  BY <1>1, <1>2, Arrive
<1>4. state' = "Maintenance"
  BY <1>1, <1>2 DEF Advance, At
<1>5. CASE Left = 3
  <2>1. Same({"db", "new", "old"}) /\ disk'.dir.tmp = Absent
    BY <1>2, <1>5 DEF Advance, Moved
  <2> QED BY <1>1, <1>3, <1>4, <1>5, <2>1, AbsentType DEF RollsBack, Same, NoJ, Gone, Db
<1>6. CASE Left = 2
  <2>1. Same({"tmp", "new", "old"}) /\ disk'.dir.db.kind = "full"
    BY <1>2, <1>6 DEF Advance, Moved
  <2>2. Gone(disk, "tmp")
    BY <1>6 DEF RollsBack
  <2> QED BY <1>1, <1>3, <1>4, <1>6, <2>1, <2>2 DEF RollsBack, Same, NoJ, Gone, Db
<1> QED BY <1>2, <1>3, <1>5, <1>6

LEMMA CleansUpGoesOn ==
    ASSUME Types, Rooted, CleansUp, Advance, todo' # <<>>
    PROVE  CleansUp'
<1>1. /\ todo \in Seq(Steps) /\ op = "cleanup" /\ state = "Maintenance" /\ Ends(CleanupSteps)
      /\ In(disk, "BuildReplacement")
  BY DEF Types, CleansUp
<1>2. Len(CleanupSteps) \in Nat /\ ((Left = 3 /\ At("discard")) \/ (Left = 2 /\ At("att_new")) \/ (Left = 1 /\ At("damaged")))
  BY <1>1, CleanupStepsAt
<1>3. Left' = Left - 1 /\ Left' >= 1 /\ Ends(CleanupSteps)' /\ op' = op
  BY <1>1, <1>2, Arrive
<1>4. state' = "Maintenance"
  BY <1>1, <1>2 DEF Advance, At
<1>5. disk'.setup = disk.setup
  BY <1>2, <1>3 DEF Advance, Moved, Same, At, AttSteps
<1> QED BY <1>1, <1>3, <1>4, <1>5 DEF CleansUp, In, NoJ

LEMMA CleansesGoesOn ==
    ASSUME Types, Rooted, Cleanses, Advance, todo' # <<>>
    PROVE  Cleanses'
<1>1. /\ todo \in Seq(Steps) /\ op \in Recovering /\ Ends(CleanseSteps) /\ In(disk, "BuildReplacement")
      /\ op = "reset" => state = "Maintenance"
  BY DEF Types, Cleanses
<1>2. Len(CleanseSteps) \in Nat /\ ((Left = 3 /\ At("discard")) \/ (Left = 2 /\ At("att_new")) \/ (Left = 1 /\ At("pending")))
  BY <1>1, CleanseStepsAt
<1>3. Left' = Left - 1 /\ Left' >= 1 /\ Ends(CleanseSteps)' /\ op' = op
  BY <1>1, <1>2, Arrive
<1>4. disk'.setup = disk.setup /\ state' = state
  BY <1>2, <1>3 DEF Advance, Moved, Same, At, AttSteps
<1> QED BY <1>1, <1>3, <1>4 DEF Cleanses, In, NoJ

LEMMA QuarantinesGoesOn ==
    ASSUME Types, Rooted, Quarantines, Advance, todo' # <<>>
    PROVE  Quarantines'
<1>1. todo \in Seq(Steps) /\ op = "quarantine" /\ state = "Damaged" /\ (Ends(DamageSteps) \/ Ends(RepairSteps))
  BY DEF Types, Quarantines
<1>2. /\ Ends(DamageSteps) => Len(DamageSteps) \in Nat
      /\ Ends(RepairSteps) => Len(RepairSteps) \in Nat
      /\ ~At("freeze")
  BY <1>1, DamageStepsAt, RepairStepsAt DEF At
<1>3. op' = op /\ (Ends(DamageSteps)' \/ Ends(RepairSteps)')
  BY <1>1, <1>2, Arrive
<1>4. state' = "Damaged"
  BY <1>1, <1>2 DEF Advance
<1> QED BY <1>1, <1>3, <1>4 DEF Quarantines

LEMMA OpensGoesOn ==
    ASSUME Types, Rooted, Opens, Advance, todo' # <<>>
    PROVE  Opens'
<1>1. /\ todo \in Seq(Steps) /\ op \in Recovering \cup {"unlock"} /\ Ends(OpenSteps)
      /\ NoJ(disk) /\ Gone(disk, "tmp") /\ Gone(disk, "new") /\ Gone(disk, "old")
  BY DEF Types, Opens, Retired
<1>2. Len(OpenSteps) \in Nat /\ ((Left = 3 /\ At("create")) \/ (Left = 2 /\ At("name")) \/ (Left = 1 /\ At("open")))
  BY <1>1, OpenStepsAt
<1>3. Left' = Left - 1 /\ Left' >= 1 /\ Ends(OpenSteps)' /\ op' = op
  BY <1>1, <1>2, Arrive
<1>4. /\ Same({"tmp", "new", "old"}) /\ disk'.dir.db.kind \in {"bare", "full"}
      /\ Left = 2 => disk'.dir.db.kind = "full"
  BY <1>2, <1>3 DEF Advance, Moved, At
<1>5. Retired' /\ Present(disk'.dir.db)
  BY <1>1, <1>4 DEF Retired, Same, NoJ, Gone, Present
<1> QED BY <1>1, <1>2, <1>3, <1>4, <1>5 DEF Opens, Db

LEMMA ErasingGoesOn ==
    ASSUME Rooted, Advance, Left \in Nat, Left' = Left - 1, NEW k \in {1, 2, 3}, Erasing(Left - k),
           disk'.setup.old = disk.setup.old \/ Left - k > 2,
           \/ Left - k > 3 \/ (Left - k = 3 /\ At("retire_db")) \/ (Left - k = 2 /\ At("att_old"))
           \/ (Left - k = 1 /\ At("drop_old")) \/ (Left - k <= 0 /\ (At("await") \/ At("discard")))
    PROVE  Erasing(Left - k)'
<1>1. CASE Left - k > 3
  BY <1>1 DEF Erasing
<1>2. CASE Left - k = 3
  <2>1. disk'.dir.db = Absent
    BY <1>2 DEF Advance, Moved
  <2> QED BY <1>2, <2>1, AbsentType DEF Erasing, Gone
<1>3. CASE Left - k = 2
  <2>1. disk' = disk /\ att' = att \ {disk.setup.old}
    BY <1>3 DEF Advance, At, AttSteps
  <2> QED BY <1>3, <2>1 DEF Erasing, Gone
<1>4. CASE Left - k = 1
  <2>1. Same({"db", "new", "tmp"}) /\ disk'.dir.old = Absent /\ att' = att
    BY <1>4 DEF Advance, Moved, At, AttSteps
  <2> QED BY <1>4, <2>1, AbsentType DEF Erasing, Gone, Same
<1>5. CASE Left - k <= 0
  <2>1. disk'.dir.db = disk.dir.db /\ disk'.dir.old = disk.dir.old /\ att' = att
    BY <1>5 DEF Advance, Moved, At, AttSteps, Same
  <2> QED BY <1>5, <2>1 DEF Erasing, Gone
<1> QED BY <1>1, <1>2, <1>3, <1>4, <1>5

LEMMA ResetsGoesOn ==
    ASSUME Types, Rooted, Resets, Advance, todo' # <<>>
    PROVE  Resets'
<1>1. /\ todo \in Seq(Steps) /\ op = "reset" /\ state = "Maintenance" /\ (Ends(PublishSteps) \/ Ends(SupersedeSteps))
      /\ Erasing(Left - 2) /\ Left \in Nat
  BY DEF Types, Resets, Left
<1>2. /\ Ends(PublishSteps) => Len(PublishSteps) \in Nat
      /\ Ends(SupersedeSteps) => Len(SupersedeSteps) \in Nat
      /\ \/ (Left = 6 /\ (At("publish") \/ At("supersede"))) \/ (Left = 5 /\ At("retire_db"))
         \/ (Left = 4 /\ At("att_old")) \/ (Left = 3 /\ At("drop_old")) \/ (Left = 2 /\ At("await"))
         \/ (Left = 1 /\ At("needs_setup"))
  BY <1>1, PublishStepsAt, SupersedeStepsAt
<1>3. Left' = Left - 1 /\ Left' >= 1 /\ op' = op /\ (Ends(PublishSteps)' \/ Ends(SupersedeSteps)')
  BY <1>1, <1>2, Arrive
<1>4. state' = "Maintenance"
  BY <1>1, <1>2 DEF Advance, At
<1>5. /\ Left \in {3, 4, 5} => disk'.setup = disk.setup
      /\ Left = 2 => In(disk', "AwaitChoice") /\ disk'.setup.old = disk.setup.old
      /\ Left = 6 => In(disk', "RetireOld")
  BY <1>2 DEF Advance, Moved, Same, At, AttSteps
<1>6. Erasing(Left - 2)'
  BY <1>1, <1>2, <1>3, <1>5, ErasingGoesOn
<1>7. Left \in {2, 3, 4, 5} => In(disk, "RetireOld")
  BY DEF Resets
<1>8. (Left \in 3..5 => In(disk', "RetireOld")) /\ (Left = 2 => In(disk', "AwaitChoice"))
  BY <1>5, <1>7 DEF In, NoJ
<1> QED BY <1>1, <1>2, <1>3, <1>4, <1>5, <1>6, <1>8 DEF Resets

LEMMA ResetsAgainGoesOn ==
    ASSUME Types, Rooted, ResetsAgain, Advance, todo' # <<>>
    PROVE  ResetsAgain'
<1>1. /\ todo \in Seq(Steps) /\ op = "reset" /\ state = "Maintenance" /\ Ends(ResetSteps)
      /\ In(disk, "AwaitChoice") /\ Erasing(Left - 1) /\ Left \in Nat
  BY DEF Types, ResetsAgain, Left
<1>2. /\ Len(ResetSteps) \in Nat
      /\ \/ (Left = 4 /\ At("retire_db")) \/ (Left = 3 /\ At("att_old")) \/ (Left = 2 /\ At("drop_old"))
         \/ (Left = 1 /\ At("needs_setup"))
  BY <1>1, ResetStepsAt
<1>3. Left' = Left - 1 /\ Left' >= 1 /\ op' = op /\ Ends(ResetSteps)'
  BY <1>1, <1>2, Arrive
<1>4. state' = "Maintenance" /\ disk'.setup = disk.setup
  BY <1>1, <1>2, <1>3 DEF Advance, Moved, Same, At, AttSteps
<1>5. Erasing(Left - 1)'
  BY <1>1, <1>2, <1>3, <1>4, ErasingGoesOn
<1> QED BY <1>1, <1>3, <1>4, <1>5 DEF ResetsAgain, In, NoJ

LEMMA RetiresGoesOn ==
    ASSUME Types, Rooted, Retires, Advance, todo' # <<>>
    PROVE  Retires'
<1>1. todo \in Seq(Steps) /\ op \in Recovering /\ Ends(RetireSteps) /\ Erasing(Left - 3) /\ Left \in Nat
  BY DEF Types, Retires, Left
<1>2. /\ Len(RetireSteps) \in Nat
      /\ \/ (Left = 6 /\ At("retire_db")) \/ (Left = 5 /\ At("att_old")) \/ (Left = 4 /\ At("drop_old"))
         \/ (Left = 3 /\ At("await")) \/ (Left = 2 /\ At("discard")) \/ (Left = 1 /\ At("pending"))
  BY <1>1, RetireStepsAt
<1>3. Left' = Left - 1 /\ Left' >= 1 /\ op' = op /\ Ends(RetireSteps)'
  BY <1>1, <1>2, Arrive
<1>4. /\ Left # 3 => disk'.setup = disk.setup
      /\ state' = state
      /\ Left = 3 => In(disk', "AwaitChoice") /\ disk'.setup.old = disk.setup.old
  BY <1>2, <1>3 DEF Advance, Moved, Same, At, AttSteps
<1>5. Erasing(Left - 3)'
  BY <1>1, <1>2, <1>3, <1>4, ErasingGoesOn
<1>6. IF Left >= 3 THEN In(disk, "RetireOld") ELSE In(disk, "AwaitChoice")
  BY DEF Retires
<1>7. IF Left > 3 THEN In(disk', "RetireOld") ELSE In(disk', "AwaitChoice")
  BY <1>2, <1>4, <1>6 DEF In, NoJ
<1> QED BY <1>1, <1>2, <1>3, <1>4, <1>5, <1>7 DEF Retires

LEMMA RetiresAgainGoesOn ==
    ASSUME Types, Rooted, RetiresAgain, Advance, todo' # <<>>
    PROVE  RetiresAgain'
<1>1. /\ todo \in Seq(Steps) /\ op \in Recovering /\ Ends(RetiredSteps) /\ Erasing(Left - 2) /\ Left \in Nat
      /\ In(disk, "AwaitChoice")
  BY DEF Types, RetiresAgain, Left
<1>2. /\ Len(RetiredSteps) \in Nat
      /\ \/ (Left = 5 /\ At("retire_db")) \/ (Left = 4 /\ At("att_old")) \/ (Left = 3 /\ At("drop_old"))
         \/ (Left = 2 /\ At("discard")) \/ (Left = 1 /\ At("pending"))
  BY <1>1, RetiredStepsAt
<1>3. Left' = Left - 1 /\ Left' >= 1 /\ op' = op /\ Ends(RetiredSteps)'
  BY <1>1, <1>2, Arrive
<1>4. disk'.setup = disk.setup /\ state' = state
  BY <1>2, <1>3 DEF Advance, Moved, Same, At, AttSteps
<1>5. Erasing(Left - 2)'
  BY <1>1, <1>2, <1>3, <1>4, ErasingGoesOn
<1> QED BY <1>1, <1>3, <1>4, <1>5 DEF RetiresAgain, In, NoJ

LEMMA SwapsInGoesOn ==
    ASSUME Types, Rooted, SwapsIn, Advance, todo' # <<>>
    PROVE  SwapsIn'
<1>1. todo \in Seq(Steps) /\ op = "boot" /\ Ends(SwapSteps) /\ NoJ(disk) /\ Left \in Nat
  BY DEF Types, SwapsIn, Left
<1>2. /\ Len(SwapSteps) \in Nat
      /\ \/ (Left = 5 /\ At("discard")) \/ (Left = 4 /\ At("swap_old")) \/ (Left = 3 /\ At("swap_new"))
         \/ (Left = 2 /\ At("drop_old")) \/ (Left = 1 /\ At("none"))
  BY <1>1, SwapStepsAt
<1>3. Left' = Left - 1 /\ Left' >= 1 /\ op' = op /\ Ends(SwapSteps)'
  BY <1>1, <1>2, Arrive
<1>4. /\ Left >= 3 => Present(disk.dir.new)
      /\ Left <= 4 => Gone(disk, "tmp")
      /\ Left <= 2 => Gone(disk, "new") /\ Present(disk.dir.db)
  BY DEF SwapsIn, Db
<1>5. CASE Left = 5
  <2>1. Same({"db", "new", "old"}) /\ disk'.dir.tmp = Absent
    BY <1>2, <1>5 DEF Advance, Moved
  <2> QED BY <1>1, <1>3, <1>4, <1>5, <2>1, AbsentType DEF SwapsIn, Same, NoJ, Gone
<1>6. CASE Left = 4
  <2>1. Same({"tmp", "new"})
    BY <1>2, <1>6 DEF Advance, Moved
  <2> QED BY <1>1, <1>3, <1>4, <1>6, <2>1 DEF SwapsIn, Same, NoJ, Gone
<1>7. CASE Left = 3
  <2>1. Same({"tmp", "old"}) /\ disk'.dir.db = disk.dir.new /\ disk'.dir.new = Absent
    BY <1>2, <1>7 DEF Advance, Moved
  <2> QED BY <1>1, <1>3, <1>4, <1>7, <2>1, AbsentType DEF SwapsIn, Same, NoJ, Gone, Db
<1>8. CASE Left = 2
  <2>1. Same({"db", "new", "tmp"}) /\ disk'.dir.old = Absent
    BY <1>2, <1>8 DEF Advance, Moved
  <2> QED BY <1>1, <1>3, <1>4, <1>8, <2>1, AbsentType DEF SwapsIn, Same, NoJ, Gone, Db
<1> QED BY <1>2, <1>3, <1>5, <1>6, <1>7, <1>8

LEMMA DropsOldGoesOn ==
    ASSUME Types, Rooted, DropsOld, Advance, todo' # <<>>
    PROVE  DropsOld'
<1>1. /\ todo \in Seq(Steps) /\ op \in Recovering /\ Left \in Nat /\ NoJ(disk) /\ Gone(disk, "new")
      /\ Present(disk.dir.db) /\ (op # "boot" => disk.dir.db.kind = "full")
      /\ Ends(DropSteps) \/ (Ends(DiscardSteps) /\ Gone(disk, "old"))
  BY DEF Types, DropsOld, Left, Db
<1>2. CASE Ends(DropSteps)
  <2>1. /\ Len(DropSteps) \in Nat
        /\ (Left = 3 /\ At("discard")) \/ (Left = 2 /\ At("drop_old")) \/ (Left = 1 /\ At("none"))
    BY <1>1, <1>2, DropStepsAt
  <2>2. Left' = Left - 1 /\ Left' >= 1 /\ op' = op /\ Ends(DropSteps)'
    BY <1>1, <1>2, <2>1, Arrive
  <2>3. CASE Left = 3
    <3>1. Same({"db", "new", "old"}) /\ disk'.dir.tmp = Absent
      BY <2>1, <2>3 DEF Advance, Moved
    <3> QED BY <1>1, <2>2, <2>3, <3>1, AbsentType DEF DropsOld, Same, NoJ, Gone, Db
  <2>4. CASE Left = 2
    <3>1. Same({"db", "new", "tmp"}) /\ disk'.dir.old = Absent
      BY <2>1, <2>4 DEF Advance, Moved
    <3>2. Gone(disk, "tmp")
      BY <2>1, <2>4 DEF DropsOld, At
    <3> QED BY <1>1, <2>2, <2>4, <3>1, <3>2, AbsentType DEF DropsOld, Same, NoJ, Gone, Db
  <2> QED BY <2>1, <2>2, <2>3, <2>4
<1>3. CASE Ends(DiscardSteps) /\ Gone(disk, "old")
  <2>1. /\ Len(DiscardSteps) \in Nat
        /\ (Left = 2 /\ At("discard")) \/ (Left = 1 /\ At("none"))
    BY <1>1, <1>3, DiscardStepsAt
  <2>2. Left' = Left - 1 /\ Left' >= 1 /\ op' = op /\ Ends(DiscardSteps)'
    BY <1>1, <1>3, <2>1, Arrive
  <2>3. Same({"db", "new", "old"}) /\ disk'.dir.tmp = Absent
    BY <2>1, <2>2 DEF Advance, Moved
  <2> QED BY <1>1, <1>3, <2>1, <2>2, <2>3, AbsentType DEF DropsOld, Same, NoJ, Gone, Db
<1> QED BY <1>1, <1>2, <1>3

LEMMA AdvanceRuns ==
    ASSUME Types, Rooted, Running, Advance
    PROVE  Running'
<1> SUFFICES ASSUME todo' # <<>> PROVE Running'
  BY DEF Running
<1>1. Ready /\ ~Conflicts /\ todo # <<>>
  BY ReadyNow DEF Advance, Conflicts, At, Results
<1> QED
  BY <1>1, BootsGoesOn, ResumesGoesOn, ResumesNewGoesOn, SetsUpGoesOn, SalvagesGoesOn, ExportsGoesOn,
     RollsBackGoesOn, CleansUpGoesOn, QuarantinesGoesOn, OpensGoesOn, ResetsGoesOn, ResetsAgainGoesOn,
     RetiresGoesOn, RetiresAgainGoesOn, CleansesGoesOn, SwapsInGoesOn, DropsOldGoesOn DEF Running

(* A deletion that goes on is the same step of the same program. *)
LEMMA LingersRuns ==
    ASSUME Types, Rooted, Running, Lingers
    PROVE  Running'
<1>1. /\ todo # <<>> /\ UNCHANGED <<todo, op, state, ctl, committed, att>>
      /\ disk'.setup = disk.setup /\ disk'.dir.db = disk.dir.db /\ disk'.dir.new = disk.dir.new
      /\ At("discard") => disk'.dir.old = disk.dir.old
      /\ At("drop_old") => disk'.dir.tmp = disk.dir.tmp
      /\ Head(todo) \in {"discard", "drop_old"}
  BY DEF Lingers, Same, At
<1>2. /\ Left' = Left /\ todo \in Seq(Steps) /\ Left \in Nat /\ Left >= 1
      /\ At("discard")' = At("discard") /\ todo' # <<>>
  BY <1>1 DEF Left, Types, At
<1>3. \A P : Ends(P)' = Ends(P)
  BY <1>1, <1>2 DEF Ends
<1>4. /\ \A ph : In(disk', ph) = In(disk, ph)
      /\ NoJ(disk') = NoJ(disk) /\ Installed(disk') = Installed(disk)
      /\ Gone(disk', "db") = Gone(disk, "db") /\ Gone(disk', "new") = Gone(disk, "new")
      /\ At("discard") => Gone(disk', "old") = Gone(disk, "old")
      /\ At("drop_old") => Gone(disk', "tmp") = Gone(disk, "tmp")
  BY <1>1 DEF In, NoJ, Installed, Current, Gone
<1>5. ASSUME Replacing(Left), Left \in {4, 6} PROVE Replacing(Left)'
  BY <1>2, <1>4, <1>5 DEF Replacing
<1>6. ASSUME NEW k \in {1, 2, 3}, Erasing(Left - k), At("discard") \/ Left - k >= 1
      PROVE  Erasing(Left - k)'
  BY <1>1, <1>2, <1>4, <1>6 DEF Erasing
<1>7. ~Boots /\ ~Conflicts /\ ~Quarantines /\ ~Opens
  BY <1>1, <1>2, BootStepsAt, DamageStepsAt, RepairStepsAt, OpenStepsAt DEF Boots, Conflicts, Quarantines, Opens, At
<1>8. CASE Resumes
  <2>1. Left \in {4, 6}
    BY <1>1, <1>2, <1>8, ResumeStepsAt DEF Resumes, At
  <2> QED BY <1>1, <1>2, <1>3, <1>5, <1>8, <2>1 DEF Resumes, Running
<1>9. CASE ResumesNew
  <2>1. Left \in {4, 6} /\ Replacing(Left)
    BY <1>1, <1>2, <1>9, ResumeNewStepsAt DEF ResumesNew, At
  <2> QED BY <1>1, <1>2, <1>3, <1>5, <1>9, <2>1 DEF ResumesNew, Running
<1>10. CASE SetsUp
  <2>1. Left \in {4, 6, 14} /\ (Left # 14 => Replacing(Left))
    BY <1>1, <1>2, <1>10, CompleteSetupAt DEF SetsUp, At
  <2>2. SetsUp'
    BY <1>1, <1>2, <1>3, <1>4, <1>5, <1>10, <2>1 DEF SetsUp
  <2> QED BY <2>2 DEF Running
<1>11. CASE Salvages
  <2>1. Left \in {4, 6, 21} /\ (Left # 21 => Replacing(Left))
    BY <1>1, <1>2, <1>11, InstallSalvagedAt DEF Salvages, At
  <2>2. Salvages'
    BY <1>1, <1>2, <1>3, <1>4, <1>5, <1>11, <2>1 DEF Salvages
  <2> QED BY <2>2 DEF Running
<1>12. CASE Exports
  <2>1. Left = 2 /\ At("drop_old")
    BY <1>1, <1>2, <1>12, ExportSwapAt DEF Exports, At
  <2>2. Exports'
    BY <1>1, <1>2, <1>3, <1>4, <1>12, <2>1 DEF Exports, Db
  <2> QED BY <2>2 DEF Running
<1>13. CASE RollsBack
  <2>1. Left = 3 /\ At("discard")
    BY <1>1, <1>2, <1>13, RollbackStepsAt DEF RollsBack, At
  <2> QED BY <1>1, <1>2, <1>3, <1>4, <1>13, <2>1 DEF RollsBack, Running, Db
<1>14. CASE CleansUp
  BY <1>1, <1>2, <1>3, <1>4, <1>14 DEF CleansUp, Running
<1>15. CASE Cleanses
  BY <1>1, <1>2, <1>3, <1>4, <1>15 DEF Cleanses, Running
<1>16. CASE Resets
  <2>1. Left = 3
    BY <1>1, <1>2, <1>16, PublishStepsAt, SupersedeStepsAt DEF Resets, At
  <2>2. Erasing(Left - 2)'
    BY <1>6, <1>16, <2>1 DEF Resets
  <2>3. Resets'
    BY <1>1, <1>2, <1>3, <1>4, <1>16, <2>1, <2>2 DEF Resets
  <2> QED BY <2>3 DEF Running
<1>17. CASE ResetsAgain
  <2>1. Left = 2
    BY <1>1, <1>2, <1>17, ResetStepsAt DEF ResetsAgain, At
  <2>2. Erasing(Left - 1)'
    BY <1>6, <1>17, <2>1 DEF ResetsAgain
  <2> QED BY <1>1, <1>3, <1>4, <1>17, <2>2 DEF ResetsAgain, Running
<1>18. CASE Retires
  <2>1. Left = 4 \/ At("discard")
    BY <1>1, <1>2, <1>18, RetireStepsAt DEF Retires, At
  <2>2. Erasing(Left - 3)'
    BY <1>6, <1>18, <2>1 DEF Retires
  <2> QED BY <1>1, <1>2, <1>3, <1>4, <1>18, <2>2 DEF Retires, Running
<1>19. CASE RetiresAgain
  <2>1. Left = 3 \/ At("discard")
    BY <1>1, <1>2, <1>19, RetiredStepsAt DEF RetiresAgain, At
  <2>2. Erasing(Left - 2)'
    BY <1>6, <1>19, <2>1 DEF RetiresAgain
  <2> QED BY <1>1, <1>3, <1>4, <1>19, <2>2 DEF RetiresAgain, Running
<1>20. CASE SwapsIn
  <2>1. (Left = 5 /\ At("discard")) \/ (Left = 2 /\ At("drop_old"))
    BY <1>1, <1>2, <1>20, SwapStepsAt DEF SwapsIn, At
  <2>2. SwapsIn'
    BY <1>1, <1>2, <1>3, <1>4, <1>20, <2>1 DEF SwapsIn, Db
  <2> QED BY <2>2 DEF Running
<1>21. CASE DropsOld
  <2>1. Left \in {2, 3} /\ (At("discard") \/ (At("drop_old") /\ ~At("discard")))
    BY <1>1, <1>2, <1>21, DropStepsAt, DiscardStepsAt DEF DropsOld, At
  <2>2. Ends(DiscardSteps) => At("discard")
    BY <1>1, <1>2, DiscardStepsAt DEF At
  <2>3. DropsOld'
    BY <1>1, <1>2, <1>3, <1>4, <1>21, <2>1, <2>2 DEF DropsOld, Db
  <2> QED BY <2>3 DEF Running
<1> QED
  BY <1>1, <1>7, <1>8, <1>9, <1>10, <1>11, <1>12, <1>13, <1>14, <1>15, <1>16, <1>17, <1>18, <1>19, <1>20,
     <1>21 DEF Running

(* A cancel is accepted only before cancellation is closed; and a stuttering *)
(* step.                                                                      *)
LEMMA CancelRuns ==
    ASSUME Types, Running, CancelOperation \/ UNCHANGED vars
    PROVE  Running'
<1>1. /\ UNCHANGED <<disk, att, state, op, todo, committed>> /\ (ctl' = ctl \/ ctl.cancellable)
      /\ ctl'.cancellable = ctl.cancellable
  BY DEF CancelOperation, Types, vars
<1>2. CASE Salvages
  <2>1. Left > 13 \/ ctl' = ctl
    BY <1>1, <1>2 DEF Salvages, Left, Types
  <2>2. Salvages'
    BY <1>1, <1>2, <2>1 DEF Salvages, Left, Ends, Db, Replacing, Retired
  <2> QED BY <2>2 DEF Running
<1>3. CASE Exports
  <2>1. Left > 6 \/ ctl' = ctl
    BY <1>1, <1>3 DEF Exports, Left, Types
  <2>2. Exports'
    BY <1>1, <1>3, <2>1 DEF Exports, Left, Ends, Db
  <2> QED BY <2>2 DEF Running
<1>4. CASE Boots
  BY <1>1, <1>4 DEF Running, Boots, Ends, Left, Db, Retired
<1>5. CASE Conflicts
  BY <1>1, <1>5 DEF Running, Conflicts, At
<1>6. CASE Resumes
  BY <1>1, <1>6 DEF Running, Resumes, Ends, Left, Replacing, Retired, Db
<1>7. CASE ResumesNew
  BY <1>1, <1>7 DEF Running, ResumesNew, Ends, Left, Replacing, Retired, Db
<1>8. CASE SetsUp
  BY <1>1, <1>8 DEF Running, SetsUp, Ends, Left, Replacing, Retired, Db
<1>9. CASE RollsBack
  BY <1>1, <1>9 DEF Running, RollsBack, Ends, Left, Db
<1>10. CASE CleansUp
  BY <1>1, <1>10 DEF Running, CleansUp, Ends, Left
<1>11. CASE Quarantines
  BY <1>1, <1>11 DEF Running, Quarantines, Ends, Left
<1>12. CASE Opens
  BY <1>1, <1>12 DEF Running, Opens, Ends, Left, Retired, Db
<1>13. CASE Resets
  BY <1>1, <1>13 DEF Running, Resets, Ends, Left, Erasing, Db
<1>14. CASE ResetsAgain
  BY <1>1, <1>14 DEF Running, ResetsAgain, Ends, Left, Erasing
<1>15. CASE Retires
  BY <1>1, <1>15 DEF Running, Retires, Ends, Left, Erasing
<1>16. CASE RetiresAgain
  BY <1>1, <1>16 DEF Running, RetiresAgain, Ends, Left, Erasing
<1>17. CASE Cleanses
  BY <1>1, <1>17 DEF Running, Cleanses, Ends, Left
<1>18. CASE SwapsIn
  BY <1>1, <1>18 DEF Running, SwapsIn, Ends, Left, Db
<1>19. CASE DropsOld
  BY <1>1, <1>19 DEF Running, DropsOld, Ends, Left, Db, At
<1>20. CASE todo = <<>>
  BY <1>1, <1>20 DEF Running
<1> QED
  BY <1>2, <1>3, <1>4, <1>5, <1>6, <1>7, <1>8, <1>9, <1>10, <1>11, <1>12, <1>13, <1>14, <1>15, <1>16, <1>17,
     <1>18, <1>19, <1>20 DEF Running

-----------------------------------------------------------------------------
(* What the state of the store says holds after a step. *)

LEMMA SetupStays ==
    ASSUME Types, Rooted, Ready, state = "NeedsSetup", AwaitsSetup, todo # <<>>, Moved,
           Head(todo) \in AttSteps \cup ControlSteps => disk' = disk,
           att' \subseteq att \/ At("att_copy")
    PROVE  AwaitsSetup'
<1>0. Shape(disk, nextGen) /\ nextGen \in Nat /\ (~NoJ(disk) => disk.setup.old \notin {0, disk.setup.new})
  <2>1. Shape(disk, nextGen) /\ nextGen \in Nat
    BY DEF Types, Rooted
  <2> QED BY <2>1, DiskTypes DEF Shape, Journaled, Journals
<1>1. Head(todo) \in Steps /\ ~At("att_copy") /\ att' \subseteq att
  BY DEF Types, Ready
<1>2. CASE disk' = disk
  BY <1>1, <1>2 DEF AwaitsSetup, Erased, Retired, Db
<1>3. ASSUME NoJ(disk), disk' # disk PROVE AwaitsSetup'
  <2>1. Retired /\ disk.dir.db.kind = "full"
    BY <1>3 DEF AwaitsSetup, Db
  <2>2. \/ At("discard") \/ At("drop_old") \/ At("create") \/ At("name")
    <3>1. /\ ~At("mktmp") /\ ~At("tag") /\ ~At("fill") /\ ~At("install_new") /\ ~At("commit") /\ ~At("retire_db")
          /\ ~At("swap_old") /\ ~At("swap_new") /\ ~At("await") /\ ~At("mark") /\ ~At("unmark")
          /\ ~At("publish") /\ ~At("supersede") /\ ~At("quarantine") /\ ~At("prepare")
      BY <1>3, <2>1 DEF Ready, Staged, In, Installed, Retired, Gone
    <3> QED BY <1>1, <1>3, <3>1 DEF At, Steps, RootSteps, ContentSteps
  <2>3. /\ disk'.setup = disk.setup /\ disk'.dir.db.kind = "full" /\ disk'.dir.new = disk.dir.new
        /\ disk'.dir.tmp \in {disk.dir.tmp, Absent} /\ disk'.dir.old \in {disk.dir.old, Absent}
    BY <2>1, <2>2 DEF Moved, Same
  <2> QED BY <1>3, <2>1, <2>3, AbsentType DEF AwaitsSetup, Retired, Gone, NoJ, Db
<1>4. ASSUME ~NoJ(disk), disk' # disk PROVE AwaitsSetup'
  <2>1. disk.setup.old \notin att /\ disk.setup.old \notin att'
    BY <1>1, <1>4 DEF AwaitsSetup, Erased
  <2>2. /\ ReadGeneration(disk.dir["db"]) # disk.setup.old /\ ReadGeneration(disk.dir["tmp"]) # disk.setup.old
        /\ ReadGeneration(disk.dir["new"]) # disk.setup.old /\ ReadGeneration(disk.dir["old"]) # disk.setup.old
    BY <1>4 DEF AwaitsSetup, Erased, Names
  <2>3. ReadGeneration(Absent) # disk.setup.old
    BY <1>0, <1>4 DEF ReadGeneration, Absent
  <2>4. SUFFICES ASSUME ~At("unmark")
                 PROVE  /\ disk'.setup.old = disk.setup.old /\ ~NoJ(disk')
                        /\ ReadGeneration(disk'.dir["db"]) # disk.setup.old
                        /\ ReadGeneration(disk'.dir["tmp"]) # disk.setup.old
                        /\ ReadGeneration(disk'.dir["new"]) # disk.setup.old
                        /\ ReadGeneration(disk'.dir["old"]) # disk.setup.old
    <3>1. CASE At("unmark")
      <4>1. Installed(disk) /\ Gone(disk, "old") /\ disk'.dir = disk.dir /\ NoJ(disk')
        BY <3>1 DEF Ready, Moved
      <4>2. Gone(disk, "tmp") /\ Gone(disk, "new") /\ disk.dir.db.kind = "full"
        BY <1>0, <4>1, SurvivorCases
      <4> QED BY <4>1, <4>2 DEF AwaitsSetup, Retired, Gone, Db
    <3> QED BY <2>1, <2>4, <3>1 DEF AwaitsSetup, Erased, Names
  <2>5. CASE At("mark") \/ At("await") \/ At("install_new")
    <3>1. disk'.dir = disk.dir /\ disk'.setup.old = disk.setup.old /\ ~NoJ(disk')
      BY <2>5 DEF Moved, In
    <3> QED BY <2>2, <3>1
  <2>6. CASE At("discard") \/ At("mktmp") \/ At("tag") \/ At("fill")
    <3>1. Same({"db", "new", "old"})
      BY <2>6 DEF Moved
    <3>2. ReadGeneration(disk'.dir["tmp"]) # disk.setup.old
      <4>1. disk'.dir["tmp"] = Absent \/ disk'.dir["tmp"].kind = "empty" \/ disk'.dir["tmp"].gen = TagGen
        BY <2>6 DEF Moved, Ready
      <4>2. TagGen = disk.setup.new
        BY <1>4 DEF TagGen, NoJ
      <4> QED BY <1>0, <1>4, <2>3, <4>1, <4>2 DEF ReadGeneration
    <3> QED BY <1>4, <2>2, <3>1, <3>2 DEF Same, NoJ
  <2>7. CASE At("drop_old") \/ At("retire_db") \/ At("swap_old") \/ At("swap_new") \/ At("commit")
    <3>1. /\ disk'.setup = disk.setup
          /\ disk'.dir["db"] \in {Absent, disk.dir["db"], disk.dir["new"]}
          /\ disk'.dir["tmp"] \in {Absent, disk.dir["tmp"]}
          /\ disk'.dir["new"] \in {Absent, disk.dir["new"], disk.dir["tmp"]}
          /\ disk'.dir["old"] \in {Absent, disk.dir["old"], disk.dir["db"]}
      BY <2>7 DEF Moved, Same, Db
    <3> QED BY <1>4, <2>2, <2>3, <3>1 DEF NoJ
  <2>8. \/ At("discard") \/ At("mktmp") \/ At("tag") \/ At("fill") \/ At("drop_old") \/ At("retire_db")
        \/ At("swap_old") \/ At("swap_new") \/ At("commit") \/ At("mark") \/ At("await") \/ At("install_new")
    <3>1. /\ ~At("prepare") /\ ~At("create") /\ ~At("name") /\ ~At("publish") /\ ~At("supersede")
          /\ ~At("quarantine")
      BY <1>4 DEF Ready, Retired
    <3> QED BY <1>1, <1>4, <2>4, <3>1 DEF At, Steps, RootSteps, ContentSteps
  <2> QED BY <2>5, <2>6, <2>7, <2>8
<1> QED BY <1>2, <1>3, <1>4

(* Only a result ends a program. *)
LEMMA NotTheLast ==
    ASSUME Types, Running, todo # <<>>, Head(todo) \notin Results
    PROVE  Tail(todo) # <<>>
<1>0. todo \in Seq(Steps) /\ Left \in Nat
  BY DEF Types, Left
<1>1. Left # 1 => Tail(todo) # <<>>
  <2>1. Left >= 1
    BY <1>0 DEF Left
  <2>2. Len(Tail(todo)) = Left - 1 /\ Len(<<>>) = 0
    BY <1>0 DEF Left
  <2> QED BY <1>0, <2>1, <2>2
<1> USE <1>0 DEF At, Results
<1>2. ~Conflicts
  BY DEF Conflicts
<1>3. Boots \/ Resumes \/ ResumesNew \/ SetsUp \/ Salvages => Left # 1
  BY BootStepsAt, ResumeStepsAt, ResumeNewStepsAt, CompleteSetupAt, InstallSalvagedAt
     DEF Boots, Resumes, ResumesNew, SetsUp, Salvages
<1>4. Exports \/ RollsBack \/ CleansUp \/ Quarantines \/ Opens => Left # 1
  BY ExportSwapAt, RollbackStepsAt, CleanupStepsAt, DamageStepsAt, RepairStepsAt, OpenStepsAt
     DEF Exports, RollsBack, CleansUp, Quarantines, Opens
<1>5. Resets \/ ResetsAgain \/ Retires \/ RetiresAgain => Left # 1
  BY PublishStepsAt, SupersedeStepsAt, ResetStepsAt, RetireStepsAt, RetiredStepsAt
     DEF Resets, ResetsAgain, Retires, RetiresAgain
<1>6. Cleanses \/ SwapsIn \/ DropsOld => Left # 1
  BY CleanseStepsAt, SwapStepsAt, DropStepsAt, DiscardStepsAt DEF Cleanses, SwapsIn, DropsOld
<1> QED BY <1>1, <1>2, <1>3, <1>4, <1>5, <1>6 DEF Running

(* Between the first step of an operation and its result. *)
LEMMA BusyStates ==
    ASSUME Stated, todo # <<>>
    PROVE  state \notin {"Open", "Locked", "down"}
  BY DEF Stated

LEMMA AdvanceStated ==
    ASSUME Types, Rooted, Running, Stated, Cancellation, Advance
    PROVE  Stated' /\ Cancellation'
<1>1. Ready /\ state \notin {"Open", "Locked", "down"}
  BY ReadyNow, BusyStates DEF Advance
<1>2. Stated'
  <2>1. state' \notin {"Open", "Locked", "down"} /\ (state' = "NeedsSetup" => state = "NeedsSetup")
    BY <1>1 DEF Advance
  <2>2. ASSUME state = "NeedsSetup" PROVE AwaitsSetup'
    <3>1. att' \subseteq att \/ At("att_copy")
      BY DEF Advance, AttSteps, At
    <3> QED BY <1>1, <2>2, <3>1, SetupStays DEF Advance, Stated
  <2> QED BY <2>1, <2>2 DEF Stated
<1>3. Cancellation'
  <2>1. todo' # <<>>
    BY NotTheLast DEF Advance
  <2>2. At("freeze") => ~committed /\ ~At("intent") /\ ~At("commit")
    BY <1>1 DEF Ready, At
  <2>3. committed => ~ctl.cancelled /\ ~ctl.cancellable
    BY DEF Cancellation
  <2>4. At("intent") \/ (op = "export" /\ At("commit")) => ~ctl.cancelled /\ ~ctl.cancellable
    BY <1>1 DEF Ready
  <2> QED BY <2>1, <2>2, <2>3, <2>4 DEF Cancellation, Advance
<1> QED BY <1>2, <1>3

LEMMA LingersStated ==
    ASSUME Types, Rooted, Running, Stated, Cancellation, Lingers
    PROVE  Stated' /\ Cancellation'
<1>1. state \notin {"Open", "Locked", "down"} /\ UNCHANGED <<todo, state, ctl, committed, att>>
  BY BusyStates DEF Lingers
<1>2. ASSUME state = "NeedsSetup" PROVE AwaitsSetup'
  <2>1. AwaitsSetup
    BY <1>2 DEF Stated
  <2>2. ~NoJ(disk)
    BY <2>1 DEF Lingers, AwaitsSetup, Retired, Gone
  <2>3. disk.setup.old # 0
    BY <2>2, DiskTypes DEF Rooted, Shape, Journaled, Journals
  <2>4. \A n \in Names : ReadGeneration(disk.dir[n]) # disk.setup.old /\ disk.setup.old \notin att
    BY <2>1, <2>2 DEF AwaitsSetup, Erased
  <2>5. disk'.setup = disk.setup /\ \A n \in Names : ReadGeneration(disk'.dir[n]) # disk.setup.old
    BY <2>3, <2>4 DEF Lingers, Same, Names
  <2> QED BY <1>1, <2>2, <2>4, <2>5 DEF AwaitsSetup, Erased, NoJ, Names
<1>3. Stated'
  BY <1>1, <1>2 DEF Stated
<1> QED BY <1>1, <1>3 DEF Cancellation

-----------------------------------------------------------------------------
(* The steps keep to the types. *)

LEMMA NextTypes ==
    ASSUME Types, Rooted,
           RootStep \/ ContentStep \/ VacuousStep \/ AttachmentStep \/ PassCheck \/ Seal \/ Intent \/ Freeze
    PROVE  Types'
<1>0. /\ todo \in Seq(Steps) /\ nextGen \in Nat \ {0} /\ saved \subseteq Rows /\ att \subseteq Nat
      /\ ctl \in [active : BOOLEAN, cancellable : BOOLEAN, cancelled : BOOLEAN]
      /\ committed \in BOOLEAN /\ state \in States /\ op \in Ops /\ faults \in Nat
      /\ kek \in BOOLEAN /\ req \in [mode : Modes, after : {"Erase", "StartFresh"}]
  BY DEF Types
<1>1. todo # <<>> => Tail(todo) \in Seq(Steps)
  BY <1>0
<1>2. CASE RootStep
  <2>1. PICK s \in RootSteps :
          /\ ChangeRoot(s) /\ todo' = Tail(todo)
          /\ committed' = (committed \/ (op = "export" /\ s = "commit"))
          /\ UNCHANGED <<att, state, op, req, kek, ctl, faults>>
    BY <1>2 DEF RootStep
  <2>2. todo # <<>> /\ saved' \subseteq saved /\ nextGen' \in {nextGen, nextGen + 1}
    BY <2>1 DEF ChangeRoot, At, SavedAfter
  <2>3. committed' \in BOOLEAN
    BY <2>1
  <2> QED BY <1>0, <1>1, <2>1, <2>2, <2>3 DEF Types
<1>3. CASE ContentStep
  <2>1. /\ todo # <<>> /\ nextGen' \in {nextGen, nextGen + 1} /\ todo' \in {todo, Tail(todo)}
        /\ UNCHANGED <<att, state, op, req, kek, ctl, saved, committed, faults>>
    BY <1>3 DEF ContentStep, Continue, After, At
  <2> QED BY <1>0, <1>1, <2>1 DEF Types
<1>4. CASE VacuousStep
  <2>1. /\ todo # <<>> /\ todo' = Tail(todo)
        /\ UNCHANGED <<att, state, op, req, kek, ctl, saved, committed, nextGen, faults>>
    BY <1>4 DEF VacuousStep, NextStep, Continue, At
  <2> QED BY <1>0, <1>1, <2>1 DEF Types
<1>5. CASE AttachmentStep
  <2>1. PICK s \in AttSteps :
          /\ At(s) /\ StepChecks(s)
          /\ att' = CASE s = "att_old" -> att \ {disk.setup.old}
                      [] s = "att_new" -> att \ {disk.setup.new}
                      [] s = "att_copy" -> IF disk.setup.old \in att /\ disk.dir.tmp.rows # {}
                                             THEN att \cup {disk.setup.new} ELSE att
          /\ NextStep
          /\ UNCHANGED <<disk, past, state, req, kek, nextGen, saved, faults>>
    BY <1>5 DEF AttachmentStep
  <2>2. att' \subseteq att \cup {disk.setup.new} /\ todo # <<>>
    BY <2>1 DEF AttSteps, At
  <2>3. disk.setup.new \in Nat
    <3>1. disk.setup \in Journals \cup {NoJournal}
      BY DEF Rooted, Shape, Disks
    <3> QED BY <3>1 DEF Journals, NoJournal
  <2> QED BY <1>0, <1>1, <2>1, <2>2, <2>3 DEF Types, NextStep, Continue
<1>6. CASE PassCheck \/ Seal \/ Intent \/ Freeze
  <2>1. /\ todo # <<>> /\ todo' = Tail(todo) /\ UNCHANGED <<att, op, req, kek, saved, nextGen, faults>>
        /\ state' \in {state, "Maintenance"} /\ committed' \in {committed, TRUE}
    BY <1>6 DEF PassCheck, Seal, Intent, Freeze, NextStep, Continue, Unmoved, At
  <2>2. ctl' \in [active : BOOLEAN, cancellable : BOOLEAN, cancelled : BOOLEAN]
    <3>1. \/ ctl' = ctl \/ ctl' = [ctl EXCEPT !.cancellable = FALSE]
          \/ ctl' = [active |-> TRUE, cancellable |-> TRUE, cancelled |-> FALSE]
      BY <1>6 DEF PassCheck, Seal, Intent, Freeze, NextStep, Continue
    <3>2. CASE ctl' = ctl
      BY <1>0, <3>2
    <3>3. CASE ctl' = [ctl EXCEPT !.cancellable = FALSE]
      BY <1>0, <3>3
    <3>4. CASE ctl' = [active |-> TRUE, cancellable |-> TRUE, cancelled |-> FALSE]
      BY <3>4
    <3> QED BY <3>1, <3>2, <3>3, <3>4
  <2>3. state' \in States /\ committed' \in BOOLEAN
    BY <1>0, <2>1 DEF States
  <2> QED BY <1>0, <1>1, <2>1, <2>2, <2>3 DEF Types
<1> QED BY <1>2, <1>3, <1>4, <1>5, <1>6

(* A step of the running operation. *)
LEMMA StepKeeps ==
    ASSUME IInv,
           RootStep \/ ContentStep \/ VacuousStep \/ AttachmentStep \/ PassCheck \/ Seal \/ Intent \/ Freeze
    PROVE  IInv'
<1>1. Types /\ Rooted /\ Kept /\ Running /\ Stated /\ Cancellation
  BY DEF IInv
<1>2. Ready
  BY <1>1, ReadyNow
<1>3. Rooted' /\ Kept' /\ (Advance \/ Lingers)
  BY <1>1, <1>2, RootAdvances, ContentAdvances, VacuousAdvances, AttachmentAdvances, ControlAdvances
<1>4. Running' /\ Stated' /\ Cancellation'
  BY <1>1, <1>3, AdvanceRuns, LingersRuns, AdvanceStated, LingersStated
<1>5. Types'
  BY <1>1, NextTypes
<1> QED BY <1>3, <1>4, <1>5 DEF IInv

-----------------------------------------------------------------------------
(* The results of recovery and of the operations. *)

LEMMA UnmovedKeeps ==
    ASSUME Rooted, Kept, Unmoved
    PROVE  Rooted' /\ Kept'
  BY DEF Rooted, Kept, Unmoved

LEMMA StopKeeps ==
    ASSUME Types, Stop
    PROVE  /\ Running' /\ Cancellation' /\ todo' = <<>> /\ todo' \in Seq(Steps) /\ op' \in Ops
           /\ committed' \in BOOLEAN
           /\ ctl' \in [active : BOOLEAN, cancellable : BOOLEAN, cancelled : BOOLEAN]
<1>1. ctl' = [ctl EXCEPT !.active = FALSE, !.cancellable = FALSE]
  BY DEF Stop
<1>2. ctl' \in [active : BOOLEAN, cancellable : BOOLEAN, cancelled : BOOLEAN]
  BY <1>1 DEF Types
<1>3. todo' = <<>> /\ op' = "none" /\ committed' = FALSE
  BY DEF Stop
<1>4. Running' /\ Cancellation'
  BY <1>3 DEF Running, Cancellation
<1>5. todo' \in Seq(Steps) /\ op' \in Ops
  BY <1>3 DEF Ops
<1> QED BY <1>2, <1>3, <1>4, <1>5

(* recover_filesystem takes up one of the programs where it was left. *)
LEMMA RecoverKeeps ==
    ASSUME IInv, Recover
    PROVE  IInv'
<1>1. Types /\ Rooted /\ Kept /\ Running /\ Stated /\ Cancellation /\ Ready
  BY ReadyNow DEF IInv
<1>2. /\ todo' = RecoverFilesystem(disk) /\ UNCHANGED <<op, committed, ctl, state, req, kek>> /\ Unmoved
      /\ disk' = disk /\ At("recover") /\ todo # <<>>
  BY DEF Recover, Continue, Unmoved, At
<1>3. /\ op \in Recovering /\ (op = "reset" => state = "Maintenance")
      /\ NoJ(disk) => Present(Db) /\ (op # "boot" => Retired /\ Db.kind = "full")
  BY <1>1, <1>2 DEF Ready
<1>4. Shape(disk, nextGen) /\ nextGen \in Nat
  BY <1>1 DEF Rooted, Types
<1>5. todo' # <<>> /\ todo' \in Seq(Steps) /\ Running'
  <2>1. CASE ~NoJ(disk)
    <3>1. PreflightSetup(disk, disk.setup) /\ (disk.setup.phase = "Installed" => Installed(disk))
      BY <1>4, <2>1 DEF Shape, Journaled
    <3>2. CASE Installed(disk)
      <4>1. todo' = FinishSetup \o <<"none">>
        BY <1>2, <2>1, <3>1, <3>2 DEF RecoverFilesystem, Installed, Current, NoJ
      <4>2. Ends(ResumeSteps)' /\ Left' = 5
        BY <4>1 DEF Ends, Left, ResumeSteps, InstallCommitted, FinishSetup
      <4>3. Replacing(Left)'
        BY <1>2, <3>2, <4>2 DEF Replacing
      <4>4. Resumes'
        BY <1>2, <1>3, <4>2, <4>3 DEF Resumes
      <4>5. todo' \in Seq(Steps) /\ todo' # <<>>
        BY <4>1 DEF FinishSetup, Steps, RootSteps, AttSteps, ControlSteps
      <4> QED BY <4>4, <4>5 DEF Running
    <3>3. CASE In(disk, "BuildReplacement")
      <4>0. ~Installed(disk)
        BY <1>4, <3>3, SurvivorCases
      <4>1. todo' = <<"discard", "att_new", "pending">>
        BY <1>2, <2>1, <3>1, <3>3, <4>0 DEF RecoverFilesystem, Installed, Current, NoJ, In
      <4>2. Ends(CleanseSteps)' /\ Left' = 3
        BY <4>1 DEF Ends, Left, CleanseSteps
      <4>3. Cleanses'
        BY <1>2, <1>3, <3>3, <4>2 DEF Cleanses
      <4>4. todo' \in Seq(Steps) /\ todo' # <<>>
        BY <4>1 DEF Steps, RootSteps, AttSteps, ControlSteps
      <4> QED BY <4>3, <4>4 DEF Running
    <3>4. CASE In(disk, "InstallNew") /\ ~Installed(disk) /\ Present(disk.dir.new)
      <4>1. todo' = RetireOld(disk.setup) \o (InstallCommitted \o FinishSetup \o <<"none">>)
        BY <1>2, <2>1, <3>1, <3>4 DEF RecoverFilesystem, Installed, Current, NoJ, In
      <4>a. todo' = (<<"retire_db">> \o <<>> \o <<>>) \o (InstallCommitted \o FinishSetup \o <<"none">>)
        BY <3>4, <4>1 DEF RetireOld, In
      <4>2. Ends(ResumeNewSteps)' /\ Left' = 9
        BY <4>a DEF Ends, Left, ResumeNewSteps, InstallCommitted, FinishSetup
      <4>3. Replacing(8)'
        BY <1>2, <3>4 DEF Replacing
      <4>4. ResumesNew'
        BY <1>2, <1>3, <4>2, <4>3 DEF ResumesNew
      <4>5. todo' \in Seq(Steps) /\ todo' # <<>>
        BY <4>a DEF InstallCommitted, FinishSetup, Steps, RootSteps, AttSteps, ControlSteps
      <4> QED BY <4>4, <4>5 DEF Running
    <3>5. CASE In(disk, "InstallNew") /\ ~Installed(disk) /\ Gone(disk, "new")
      <4>1. todo' = RetireOld(disk.setup) \o (<<"commit">> \o InstallCommitted \o FinishSetup \o <<"none">>)
        BY <1>2, <2>1, <3>1, <3>5 DEF RecoverFilesystem, Installed, Current, NoJ, In, Gone
      <4>a. todo' = (<<"retire_db">> \o <<>> \o <<>>) \o (<<"commit">> \o InstallCommitted \o FinishSetup \o <<"none">>)
        BY <3>5, <4>1 DEF RetireOld, In
      <4>2. Ends(ResumeSteps)' /\ Left' = 10
        BY <4>a DEF Ends, Left, ResumeSteps, InstallCommitted, FinishSetup
      <4>3. Replacing(Left)'
        BY <1>2, <3>5, <4>2 DEF Replacing
      <4>4. Resumes'
        BY <1>2, <1>3, <4>2, <4>3 DEF Resumes
      <4>5. todo' \in Seq(Steps) /\ todo' # <<>>
        BY <4>a DEF InstallCommitted, FinishSetup, Steps, RootSteps, AttSteps, ControlSteps
      <4> QED BY <4>4, <4>5 DEF Running
    <3>6. CASE In(disk, "RetireOld")
      <4>0. ~Installed(disk) /\ Gone(disk, "new")
        BY <1>4, <3>6, SurvivorCases
      <4>1. todo' = RetireOld(disk.setup) \o <<"discard", "pending">>
        BY <1>2, <2>1, <3>1, <3>6, <4>0 DEF RecoverFilesystem, Installed, Current, NoJ, In, Gone
      <4>a. todo' = (<<"retire_db">> \o <<"att_old", "drop_old">> \o <<"await">>) \o <<"discard", "pending">>
        BY <3>6, <4>1 DEF RetireOld, In
      <4>2. Ends(RetireSteps)' /\ Left' = 6
        BY <4>a DEF Ends, Left, RetireSteps
      <4>3. Retires'
        BY <1>2, <1>3, <3>6, <4>2 DEF Retires, Erasing
      <4>4. todo' \in Seq(Steps) /\ todo' # <<>>
        BY <4>a DEF Steps, RootSteps, AttSteps, ControlSteps
      <4> QED BY <4>3, <4>4 DEF Running
    <3>7. CASE In(disk, "AwaitChoice")
      <4>0. ~Installed(disk) /\ Gone(disk, "new")
        BY <1>4, <3>7, SurvivorCases
      <4>1. todo' = RetireOld(disk.setup) \o <<"discard", "pending">>
        BY <1>2, <2>1, <3>1, <3>7, <4>0 DEF RecoverFilesystem, Installed, Current, NoJ, In, Gone
      <4>a. todo' = (<<"retire_db">> \o <<"att_old", "drop_old">> \o <<>>) \o <<"discard", "pending">>
        BY <3>7, <4>1 DEF RetireOld, In
      <4>2. Ends(RetiredSteps)' /\ Left' = 5
        BY <4>a DEF Ends, Left, RetiredSteps
      <4>3. RetiresAgain'
        BY <1>2, <1>3, <3>7, <4>2 DEF RetiresAgain, Erasing
      <4>4. todo' \in Seq(Steps) /\ todo' # <<>>
        BY <4>a DEF Steps, RootSteps, AttSteps, ControlSteps
      <4> QED BY <4>3, <4>4 DEF Running
    <3> QED BY <1>4, <2>1, <3>2, <3>3, <3>4, <3>5, <3>6, <3>7, SurvivorCases DEF Gone
  <2>2. CASE NoJ(disk)
    <3> DEFINE A == IF ~Present(disk.dir.tmp) THEN <<>>
                    ELSE IF ReadGeneration(disk.dir.db) = 0 THEN <<"conflict">> ELSE <<"discard">>
               B == IF Present(disk.dir.new) THEN <<"swap_old", "swap_new", "drop_old">>
                    ELSE IF ~Present(disk.dir.old) THEN <<>>
                    ELSE IF ReadGeneration(disk.dir.db) = 0 THEN <<"conflict">> ELSE <<"drop_old">>
    <3>1. todo' = A \o B \o <<"none">>
      BY <1>2, <2>2 DEF RecoverFilesystem, NoJ, InstallCommitted
    <3>2. A \in Seq(Steps) /\ B \in Seq(Steps) /\ <<"none">> \in Seq(Steps)
      <4>1. /\ <<>> \in Seq(Steps) /\ <<"conflict">> \in Seq(Steps) /\ <<"discard">> \in Seq(Steps)
            /\ <<"swap_old", "swap_new", "drop_old">> \in Seq(Steps) /\ <<"drop_old">> \in Seq(Steps)
            /\ <<"none">> \in Seq(Steps)
        BY DEF Steps, RootSteps, ContentSteps, ControlSteps
      <4> QED BY <4>1
    <3>3. todo' # <<>> /\ todo' \in Seq(Steps)
      <4> HIDE DEF A, B
      <4> QED BY <3>1, <3>2
    <3>4. CASE A = <<"conflict">>
      <4> HIDE DEF A, B
      <4>1. todo'[1] = "conflict"
        BY <3>1, <3>2, <3>4
      <4>2. Conflicts'
        BY <1>2, <1>3, <3>3, <4>1 DEF Conflicts, At
      <4> QED BY <3>3, <4>2 DEF Running
    <3>5. CASE Present(disk.dir.new) /\ A # <<"conflict">>
      <4>0. op = "boot"
        BY <1>3, <2>2, <3>5 DEF Retired, Gone
      <4>1. CASE Present(disk.dir.tmp)
        <5>1. todo' = <<"discard">> \o <<"swap_old", "swap_new", "drop_old">> \o <<"none">>
          BY <3>1, <3>5, <4>1
        <5>2. Ends(SwapSteps)' /\ Left' = 5
          BY <5>1 DEF Ends, Left, SwapSteps
        <5>3. SwapsIn'
          BY <1>2, <2>2, <3>5, <4>0, <5>2 DEF SwapsIn
        <5> QED BY <3>3, <5>3 DEF Running
      <4>2. CASE ~Present(disk.dir.tmp)
        <5>1. todo' = <<>> \o <<"swap_old", "swap_new", "drop_old">> \o <<"none">>
          BY <3>1, <3>5, <4>2
        <5>2. Ends(SwapSteps)' /\ Left' = 4
          BY <5>1 DEF Ends, Left, SwapSteps
        <5>3. SwapsIn'
          BY <1>2, <2>2, <3>5, <4>0, <4>2, <5>2 DEF SwapsIn, Gone
        <5> QED BY <3>3, <5>3 DEF Running
      <4> QED BY <4>1, <4>2
    <3>6. CASE Gone(disk, "new") /\ A # <<"conflict">> /\ B = <<"conflict">>
      <4>1. A = <<>>
        BY <3>6
      <4> HIDE DEF A, B
      <4>2. todo'[1] = "conflict"
        BY <3>1, <3>6, <4>1
      <4>3. Conflicts'
        BY <1>2, <1>3, <3>3, <4>2 DEF Conflicts, At
      <4> QED BY <3>3, <4>3 DEF Running
    <3>7. CASE Gone(disk, "new") /\ A # <<"conflict">> /\ B # <<"conflict">> /\ Present(disk.dir.old)
      <4>1. CASE Present(disk.dir.tmp)
        <5>1. todo' = <<"discard">> \o <<"drop_old">> \o <<"none">>
          BY <3>1, <3>7, <4>1 DEF Gone
        <5>2. Ends(DropSteps)' /\ Left' = 3 /\ At("discard")'
          BY <5>1 DEF Ends, Left, DropSteps, At
        <5>3. DropsOld'
          BY <1>2, <1>3, <2>2, <3>7, <5>2 DEF DropsOld, Db
        <5> QED BY <3>3, <5>3 DEF Running
      <4>2. CASE ~Present(disk.dir.tmp)
        <5>1. todo' = <<>> \o <<"drop_old">> \o <<"none">>
          BY <3>1, <3>7, <4>2 DEF Gone
        <5>2. Ends(DropSteps)' /\ Left' = 2
          BY <5>1 DEF Ends, Left, DropSteps
        <5>3. DropsOld'
          BY <1>2, <1>3, <2>2, <3>7, <4>2, <5>2 DEF DropsOld, Gone, Db
        <5> QED BY <3>3, <5>3 DEF Running
      <4> QED BY <4>1, <4>2
    <3>8. CASE Gone(disk, "new") /\ A # <<"conflict">> /\ B # <<"conflict">> /\ Gone(disk, "old")
      <4>1. CASE Present(disk.dir.tmp)
        <5>1. todo' = <<"discard">> \o <<>> \o <<"none">>
          BY <3>1, <3>8, <4>1 DEF Gone
        <5>2. Ends(DiscardSteps)' /\ Left' = 2 /\ At("discard")'
          BY <5>1 DEF Ends, Left, DiscardSteps, At
        <5>3. DropsOld'
          BY <1>2, <1>3, <2>2, <3>8, <5>2 DEF DropsOld, Db
        <5> QED BY <3>3, <5>3 DEF Running
      <4>2. CASE ~Present(disk.dir.tmp)
        <5>1. todo' = <<>> \o <<>> \o <<"none">>
          BY <3>1, <3>8, <4>2 DEF Gone
        <5>2. Ends(DiscardSteps)' /\ Left' = 1
          BY <5>1 DEF Ends, Left, DiscardSteps
        <5>3. DropsOld'
          BY <1>2, <1>3, <2>2, <3>8, <4>2, <5>2 DEF DropsOld, Gone, Db
        <5> QED BY <3>3, <5>3 DEF Running
      <4> QED BY <4>1, <4>2
    <3> HIDE DEF A, B
    <3> QED BY <3>3, <3>4, <3>5, <3>6, <3>7, <3>8 DEF Gone
  <2> QED BY <2>1, <2>2
<1>6. Rooted' /\ Kept'
  BY <1>1, <1>2, UnmovedKeeps
<1>7. Types'
  BY <1>1, <1>2, <1>5 DEF Types, Unmoved
<1>8. Stated'
  BY <1>1, <1>2, BusyStates DEF Stated, AwaitsSetup, Retired, Erased, Db, Unmoved
<1>9. Cancellation'
  BY <1>1, <1>2, <1>5 DEF Cancellation
<1> QED BY <1>5, <1>6, <1>7, <1>8, <1>9 DEF IInv

(* The result of a recovery, and what the operation makes of it. *)
LEMMA ResultFacts ==
    ASSUME IInv, Unmoved, todo # <<>>
    PROVE  /\ Types /\ Ready /\ Rooted' /\ Kept' /\ disk' = disk /\ att' = att /\ state \notin {"Open", "Locked", "down"}
           /\ (In(disk, "BuildReplacement") => ~In(disk, "AwaitChoice"))
           /\ NoJ(disk) /\ Gone(disk, "new") => (Db.kind = "empty" => Db.mode = "plain") /\ Db.kind \in Kinds
           /\ state = "NeedsSetup" => AwaitsSetup'
<1>1. Types /\ Rooted /\ Kept /\ Running /\ Stated /\ Cancellation /\ Ready
  BY ReadyNow DEF IInv
<1>2. Rooted' /\ Kept' /\ disk' = disk /\ att' = att /\ state \notin {"Open", "Locked", "down"}
  BY <1>1, UnmovedKeeps, BusyStates DEF Unmoved
<1>3. ASSUME NoJ(disk), Gone(disk, "new")
      PROVE  (Db.kind = "empty" => Db.mode = "plain") /\ Db.kind \in Kinds
  <2>1. Shape(disk, nextGen) /\ nextGen \in Nat /\ disk.dir.db \in Dirs
    BY <1>1, DiskTypes DEF Rooted, Types, Shape
  <2>2. Survivor(disk) = disk.dir.db
    BY <1>3, <2>1, SurvivorCases DEF Gone
  <2> QED BY <2>1, <2>2 DEF Shape, Whole, Db, Dirs
<1>4. state = "NeedsSetup" => AwaitsSetup'
  BY <1>1, <1>2 DEF Stated, AwaitsSetup, Retired, Erased, Db
<1> QED BY <1>1, <1>2, <1>3, <1>4 DEF In

(* A result that stops, or goes on with another program. *)
LEMMA ResultKeeps ==
    ASSUME IInv, Unmoved, todo # <<>>, kek' \in BOOLEAN, req' \in [mode : Modes, after : {"Erase", "StartFresh"}],
           state' \in States,
           Stop \/ (UNCHANGED <<op, committed, ctl>> /\ todo' # <<>> /\ todo' \in Seq(Steps) /\ Running'),
           Stated'
    PROVE  IInv'
<1>1. Types /\ Rooted' /\ Kept' /\ Cancellation
  BY ResultFacts DEF IInv
<1>2. CASE Stop
  <2>1. /\ Running' /\ Cancellation' /\ todo' \in Seq(Steps) /\ op' \in Ops /\ committed' \in BOOLEAN
        /\ ctl' \in [active : BOOLEAN, cancellable : BOOLEAN, cancelled : BOOLEAN]
    BY <1>1, <1>2, StopKeeps
  <2>2. Types'
    BY <1>1, <2>1 DEF Types, Unmoved
  <2> QED BY <1>1, <2>1, <2>2 DEF IInv
<1>3. CASE UNCHANGED <<op, committed, ctl>> /\ todo' # <<>> /\ todo' \in Seq(Steps) /\ Running'
  <2>1. Types'
    BY <1>1, <1>3 DEF Types, Unmoved
  <2>2. Cancellation'
    BY <1>1, <1>3 DEF Cancellation
  <2> QED BY <1>1, <1>3, <2>1, <2>2 DEF IInv
<1> QED BY <1>2, <1>3

LEMMA CompleteSetupStarts ==
    ASSUME op' \in Recovering, todo' = CompleteSetup, In(disk', "AwaitChoice")
    PROVE  todo' # <<>> /\ todo' \in Seq(Steps) /\ Running'
<1>1. todo' \in Seq(Steps) /\ todo' # <<>>
  BY DEF CompleteSetup, InstallCommitted, FinishSetup, Steps, RootSteps, ContentSteps, AttSteps, ControlSteps
<1>2. Left' = 14 /\ Ends(CompleteSetup)'
  BY DEF CompleteSetup, InstallCommitted, FinishSetup, Ends, Left
<1>3. SetsUp'
  BY <1>2 DEF SetsUp
<1> QED BY <1>1, <1>3 DEF Running

LEMMA OpenStarts ==
    ASSUME op' \in Recovering \cup {"unlock"}, Retired', Present(disk'.dir.db),
           \/ todo' = <<"create", "name", "open">>
           \/ todo' = <<"name", "open">> /\ disk'.dir.db.kind \in {"bare", "full"}
    PROVE  todo' # <<>> /\ todo' \in Seq(Steps) /\ Running'
<1>1. CASE todo' = <<"create", "name", "open">>
  <2>1. todo' \in Seq(Steps) /\ todo' # <<>>
    BY <1>1 DEF Steps, RootSteps, ContentSteps, ControlSteps
  <2>2. Ends(OpenSteps)' /\ Left' = 3
    BY <1>1 DEF OpenSteps, Ends, Left
  <2>3. Opens'
    BY <2>2 DEF Opens, Db
  <2> QED BY <2>1, <2>3 DEF Running
<1>2. CASE todo' = <<"name", "open">> /\ disk'.dir.db.kind \in {"bare", "full"}
  <2>1. todo' \in Seq(Steps) /\ todo' # <<>>
    BY <1>2 DEF Steps, RootSteps, ContentSteps, ControlSteps
  <2>2. Ends(OpenSteps)' /\ Left' = 2
    BY <1>2 DEF OpenSteps, Ends, Left
  <2>3. Opens'
    BY <1>2, <2>2 DEF Opens, Db
  <2> QED BY <2>1, <2>3 DEF Running
<1> QED BY <1>1, <1>2

LEMMA PendingKeeps ==
    ASSUME IInv, BootPending \/ SetupPending \/ ResetPending
    PROVE  IInv'
<1>1. /\ At("pending") /\ todo # <<>> /\ Unmoved /\ kek' = kek /\ op \in Recovering
      /\ op = "boot" <=> BootPending
  BY DEF BootPending, SetupPending, ResetPending, At, Recovering
<1>2. /\ Types /\ Ready /\ disk' = disk /\ att' = att /\ state \notin {"Open", "Locked", "down"}
      /\ (In(disk, "BuildReplacement") => ~In(disk, "AwaitChoice"))
      /\ state = "NeedsSetup" => AwaitsSetup'
  BY <1>1, ResultFacts
<1>3. /\ In(disk, "BuildReplacement") \/ (In(disk, "AwaitChoice") /\ Erased)
      /\ op = "reset" => state = "Maintenance"
  BY <1>1, <1>2 DEF Ready
<1>4. kek' \in BOOLEAN /\ req \in [mode : Modes, after : {"Erase", "StartFresh"}] /\ state \in States
  BY <1>1, <1>2 DEF Types
<1>5. In(disk, "AwaitChoice") => AwaitsSetup'
  BY <1>2, <1>3 DEF AwaitsSetup, Erased, In
<1>6. CASE op = "boot"
  <2>0. BootPending
    BY <1>1, <1>6
  <2>1. CASE disk.setup.phase = "BuildReplacement"
    <3>1. state' \in {"Damaged", "Locked"} /\ Stop /\ req' = req
      BY <2>0, <2>1 DEF BootPending
    <3>2. Stated'
      BY <1>2, <1>3, <2>1, <3>1 DEF Stated, Stop, In
    <3> QED BY <1>1, <1>4, <3>1, <3>2, ResultKeeps DEF States
  <2>2. CASE disk.setup.phase # "BuildReplacement"
    <3>1. state' = "NeedsSetup" /\ In(disk, "AwaitChoice") /\ state' \in States
      BY <1>3, <2>0, <2>2 DEF BootPending, In, States
    <3>2. Stated'
      BY <1>5, <3>1 DEF Stated
    <3>3. CASE disk.setup.mode = "plain"
      <4>1. Continue(CompleteSetup) /\ req' = [req EXCEPT !.mode = "plain"]
        BY <2>0, <2>2, <3>3 DEF BootPending
      <4>2. UNCHANGED <<op, committed, ctl>> /\ todo' # <<>> /\ todo' \in Seq(Steps) /\ Running'
        BY <1>1, <1>2, <3>1, <4>1, CompleteSetupStarts DEF Continue
      <4>3. req' \in [mode : Modes, after : {"Erase", "StartFresh"}]
        BY <1>4, <4>1 DEF Modes
      <4> QED BY <1>1, <1>4, <3>1, <3>2, <4>2, <4>3, ResultKeeps
    <3>4. CASE disk.setup.mode # "plain"
      <4>1. Stop /\ req' = req
        BY <2>0, <2>2, <3>4 DEF BootPending
      <4> QED BY <1>1, <1>4, <3>1, <3>2, <4>1, ResultKeeps
    <3> QED BY <3>3, <3>4
  <2> QED BY <2>1, <2>2
<1>7. CASE op = "setup"
  <2>1. /\ UNCHANGED <<state, req>>
        /\ IF disk.setup.phase = "BuildReplacement" THEN Stop ELSE Continue(CompleteSetup)
    BY <1>7 DEF BootPending, SetupPending, ResetPending
  <2>2. Stated'
    BY <1>2, <2>1 DEF Stated
  <2>3. CASE disk.setup.phase = "BuildReplacement"
    BY <1>1, <1>4, <2>1, <2>2, <2>3, ResultKeeps
  <2>4. CASE disk.setup.phase # "BuildReplacement"
    <3>1. UNCHANGED <<op, committed, ctl>> /\ todo' # <<>> /\ todo' \in Seq(Steps) /\ Running'
      BY <1>1, <1>2, <1>3, <2>1, <2>4, CompleteSetupStarts DEF Continue, In
    <3> QED BY <1>1, <1>4, <2>1, <2>2, <3>1, ResultKeeps
  <2> QED BY <2>3, <2>4
<1>8. CASE op = "reset"
  <2>1. /\ UNCHANGED <<state, req>> /\ UNCHANGED <<op, committed, ctl>> /\ state' = "Maintenance"
        /\ todo' = (IF disk.setup.phase = "BuildReplacement"
                      THEN <<"supersede">> \o RetireOld([disk.setup EXCEPT !.phase = "RetireOld"])
                      ELSE RetireOld(disk.setup)) \o <<"needs_setup">>
    BY <1>3, <1>8 DEF BootPending, SetupPending, ResetPending, Continue
  <2>2. Stated'
    BY <1>2, <2>1 DEF Stated
  <2>3. CASE disk.setup.phase = "BuildReplacement"
    <3>0. In(disk, "BuildReplacement") /\ disk.setup \in Journals
      <4>1. In(disk, "BuildReplacement")
        BY <1>3, <2>3 DEF In
      <4> QED BY <4>1, DiskTypes DEF IInv, Rooted, Shape, In
    <3>1. [disk.setup EXCEPT !.phase = "RetireOld"].phase = "RetireOld"
      BY <3>0 DEF Journals
    <3>2. todo' = <<"supersede">> \o (<<"retire_db">> \o <<"att_old", "drop_old">> \o <<"await">>) \o <<"needs_setup">>
      BY <2>1, <2>3, <3>1 DEF RetireOld
    <3>3. todo' \in Seq(Steps) /\ todo' # <<>>
      BY <3>2 DEF Steps, RootSteps, AttSteps, ControlSteps
    <3>4. Ends(SupersedeSteps)' /\ Left' = 6
      BY <3>2 DEF SupersedeSteps, Ends, Left
    <3>5. Resets'
      BY <1>2, <1>8, <2>1, <3>0, <3>4 DEF Resets, Erasing
    <3> QED BY <1>1, <1>4, <2>1, <2>2, <3>3, <3>5, ResultKeeps DEF Running
  <2>4. CASE disk.setup.phase # "BuildReplacement"
    <3>0. In(disk, "AwaitChoice")
      BY <1>3, <2>4 DEF In
    <3>1. todo' = (<<"retire_db">> \o <<"att_old", "drop_old">> \o <<>>) \o <<"needs_setup">>
      BY <2>1, <2>4, <3>0 DEF RetireOld, In
    <3>2. todo' \in Seq(Steps) /\ todo' # <<>>
      BY <3>1 DEF Steps, RootSteps, AttSteps, ControlSteps
    <3>3. Ends(ResetSteps)' /\ Left' = 4
      BY <3>1 DEF ResetSteps, Ends, Left
    <3>4. ResetsAgain'
      BY <1>2, <1>8, <2>1, <3>0, <3>3 DEF ResetsAgain, Erasing
    <3> QED BY <1>1, <1>4, <2>1, <2>2, <3>2, <3>4, ResultKeeps DEF Running
  <2> QED BY <2>3, <2>4
<1> QED BY <1>1, <1>6, <1>7, <1>8 DEF Recovering

LEMMA NoneKeeps ==
    ASSUME IInv, BootNone \/ SetupNone \/ ResetNone
    PROVE  IInv'
<1>1. /\ At("none") /\ todo # <<>> /\ Unmoved /\ kek' = kek /\ op \in Recovering /\ req' = req
  BY DEF BootNone, SetupNone, ResetNone, At, Recovering
<1>2. /\ Types /\ Ready /\ disk' = disk /\ att' = att /\ state \notin {"Open", "Locked", "down"}
      /\ NoJ(disk) /\ Gone(disk, "new") => (Db.kind = "empty" => Db.mode = "plain") /\ Db.kind \in Kinds
      /\ state = "NeedsSetup" => AwaitsSetup'
  BY <1>1, ResultFacts
<1>3. Retired /\ Present(Db) /\ (op # "boot" => Db.kind = "full")
  BY <1>1, <1>2 DEF Ready
<1>4. kek' \in BOOLEAN /\ req' \in [mode : Modes, after : {"Erase", "StartFresh"}] /\ state \in States
  BY <1>1, <1>2 DEF Types
<1>5. Retired' /\ Db' = Db /\ Present(disk'.dir.db) /\ disk'.dir.db = Db
  BY <1>2, <1>3 DEF Retired, Db
<1>6. \/ state' = "Locked" /\ Stop /\ Db.kind \in {"bare", "full"}
      \/ UNCHANGED state /\ Stop
      \/ UNCHANGED state /\ op = "boot" /\ Continue(<<"create", "name", "open">>)
      \/ UNCHANGED state /\ op # "boot" /\ Continue(<<"name", "open">>)
  <2>1. CASE BootNone
    <3>1. Db.mode = "password" /\ Db.kind # "part" => Db.kind \in {"bare", "full"}
      BY <1>2, <1>3 DEF Retired, Present, Kinds
    <3> QED BY <2>1, <3>1 DEF BootNone
  <2>2. CASE SetupNone
    BY <2>2 DEF SetupNone
  <2>3. CASE ResetNone
    BY <1>3, <2>3 DEF ResetNone
  <2> QED BY <2>1, <2>2, <2>3
<1>7. state' \in States /\ Stated'
  BY <1>2, <1>4, <1>5, <1>6 DEF Stated, States, Stop
<1>8. Stop \/ (UNCHANGED <<op, committed, ctl>> /\ todo' # <<>> /\ todo' \in Seq(Steps) /\ Running')
  <2>1. CASE UNCHANGED state /\ op = "boot" /\ Continue(<<"create", "name", "open">>)
    BY <1>1, <1>5, <2>1, OpenStarts DEF Continue
  <2>2. CASE UNCHANGED state /\ op # "boot" /\ Continue(<<"name", "open">>)
    BY <1>1, <1>3, <1>5, <2>2, OpenStarts DEF Continue
  <2> QED BY <1>6, <2>1, <2>2
<1> QED BY <1>1, <1>4, <1>7, <1>8, ResultKeeps

LEMMA DoneKeeps ==
    ASSUME IInv, NeedsSetup \/ Open \/ Settle
    PROVE  IInv'
<1>1. todo # <<>> /\ Unmoved /\ (kek' \in BOOLEAN \/ kek' = kek)
  BY DEF NeedsSetup, Open, Settle, At
<1>2. /\ Types /\ Ready /\ disk' = disk /\ att' = att /\ state \notin {"Open", "Locked", "down"}
      /\ state = "NeedsSetup" => AwaitsSetup'
  BY <1>1, ResultFacts
<1>3. kek' \in BOOLEAN /\ req \in [mode : Modes, after : {"Erase", "StartFresh"}] /\ state \in States
  BY <1>1, <1>2 DEF Types
<1>4. CASE NeedsSetup
  <2>1. state' = "NeedsSetup" /\ In(disk, "AwaitChoice") /\ Erased /\ op = "reset" /\ state' \in States
    BY <1>2, <1>4 DEF NeedsSetup, Ready, States
  <2>2. Stated'
    BY <1>2, <2>1 DEF Stated, AwaitsSetup, Erased, In
  <2>3. \/ Stop /\ req' = req
        \/ Continue(CompleteSetup) /\ req' = [req EXCEPT !.mode = disk.setup.mode]
    BY <1>4 DEF NeedsSetup
  <2>4. req' \in [mode : Modes, after : {"Erase", "StartFresh"}]
    <3>1. disk.setup.mode \in Modes
      BY <2>1, DiskTypes DEF IInv, Rooted, Shape, In, Journals
    <3>2. CASE req' = req
      BY <1>3, <3>2
    <3>3. CASE req' = [req EXCEPT !.mode = disk.setup.mode]
      BY <1>3, <3>1, <3>3
    <3> QED BY <2>3, <3>2, <3>3
  <2>5. Stop \/ (UNCHANGED <<op, committed, ctl>> /\ todo' # <<>> /\ todo' \in Seq(Steps) /\ Running')
    BY <1>2, <2>1, <2>3, CompleteSetupStarts DEF Continue, Recovering
  <2> QED BY <1>1, <1>3, <2>1, <2>2, <2>4, <2>5, ResultKeeps
<1>5. CASE Open
  <2>1. state' = "Open" /\ Stop /\ req' = req /\ Retired /\ Db.kind = "full"
    BY <1>2, <1>5 DEF Open, Ready
  <2>2. Stated'
    BY <1>2, <2>1 DEF Stated, Stop, Retired, Db
  <2> QED BY <1>1, <1>3, <2>1, <2>2, ResultKeeps DEF States
<1>6. CASE Settle
  <2>1. state' \in {state, "Damaged"} /\ Stop /\ req' = req
    BY <1>6 DEF Settle
  <2>2. Stated' /\ state' \in States
    BY <1>2, <1>3, <2>1 DEF Stated, States
  <2> QED BY <1>1, <1>3, <2>1, <2>2, ResultKeeps
<1> QED BY <1>4, <1>5, <1>6

-----------------------------------------------------------------------------
(* Failures of the running operation. *)

(* Each program belongs to one operation. *)
LEMMA OpNamesProgram ==
    ASSUME Running, todo # <<>>
    PROVE  (op = "export" => Exports) /\ (op = "salvage" => Salvages)
<1>1. op \in {"export", "salvage"} => op \notin Recovering \cup {"unlock", "reset", "rollback", "cleanup", "quarantine"}
  BY DEF Recovering
<1>2. /\ Salvages => op = "salvage" /\ op # "export"
      /\ Exports => op = "export" /\ op # "salvage"
  BY DEF Salvages, Exports
<1>3. /\ RollsBack => op = "rollback"
      /\ CleansUp => op = "cleanup"
      /\ Quarantines => op = "quarantine"
      /\ Boots \/ Conflicts \/ Resumes \/ ResumesNew \/ SetsUp \/ Resets \/ ResetsAgain \/ Retires \/ RetiresAgain
           \/ Cleanses \/ SwapsIn \/ DropsOld => op \in Recovering
      /\ Opens => op \in Recovering \cup {"unlock"}
  BY DEF RollsBack, CleansUp, Quarantines, Boots, Conflicts, Resumes, ResumesNew, SetsUp, Resets, ResetsAgain, Retires,
         RetiresAgain, Cleanses, SwapsIn, DropsOld, Opens, Recovering
<1> QED BY <1>1, <1>2, <1>3 DEF Running

LEMMA AbortRuns ==
    ASSUME Types, Rooted, Running, Stated, todo # <<>>, NEW err, NEW c, committed => c, Abort(err, c),
           disk' = disk \/ (Moved /\ Head(todo) \in RootSteps /\ (At("commit") => c)),
           state = "NeedsSetup" => AwaitsSetup'
    PROVE  /\ Running' /\ Stated' /\ Cancellation' /\ state' \in States /\ op' \in Ops /\ todo' \in Seq(Steps)
           /\ req' = req /\ kek' \in BOOLEAN /\ committed' \in BOOLEAN
           /\ ctl' \in [active : BOOLEAN, cancellable : BOOLEAN, cancelled : BOOLEAN]
<1>0. /\ state \notin {"Open", "Locked", "down"} /\ req' = req /\ todo \in Seq(Steps) /\ Left \in Nat
      /\ state \in States /\ kek \in BOOLEAN /\ committed \in BOOLEAN
      /\ ctl \in [active : BOOLEAN, cancellable : BOOLEAN, cancelled : BOOLEAN]
  BY BusyStates DEF Abort, Types, Left
<1>1. CASE Stop
  <2>1. /\ state' \in {"down", "DamagedGen", "Refused", "Maintenance", state}
        /\ kek' \in {kek, kek \/ op = "unlock"}
    BY <1>1 DEF Abort, StartupErrors, Stop
  <2>2. Stated'
    BY <1>0, <1>1, <2>1 DEF Stated, Stop
  <2>3. kek' \in BOOLEAN /\ state' \in States
    BY <1>0, <2>1 DEF States
  <2> QED BY <1>0, <1>1, <2>2, <2>3, StopKeeps
<1>2. CASE /\ ~Opening /\ op = "export" /\ ~c
           /\ op' = "rollback" /\ todo' = <<"discard", "name", "open">>
           /\ UNCHANGED <<state, kek, ctl, committed>>
  <2>1. Exports /\ ~committed /\ Left >= 5
    BY <1>0, <1>2, OpNamesProgram DEF Exports
  <2>2. NoJ(disk) /\ Gone(disk, "new") /\ Gone(disk, "old") /\ disk.dir.db.kind = "full" /\ state = "Maintenance"
    BY <2>1 DEF Exports, Db
  <2>3. disk' = disk \/ (Moved /\ At("mktmp"))
    <3>1. CASE Head(todo) \in RootSteps /\ (At("commit") => c)
      <4>1. \/ At("check") \/ At("fresh") \/ At("mktmp") \/ At("tag") \/ At("fill") \/ At("seal") \/ At("commit")
        BY <1>0, <2>1, ExportSwapAt DEF Exports
      <4> QED BY <1>2, <3>1, <4>1 DEF At, RootSteps
    <3> QED BY <3>1
  <2>4. NoJ(disk') /\ Gone(disk', "new") /\ Gone(disk', "old") /\ disk'.dir.db.kind = "full"
    BY <2>2, <2>3 DEF Moved, Same, NoJ, Gone
  <2>5. Ends(RollbackSteps)' /\ Left' = 3 /\ todo' \in Seq(Steps)
    BY <1>2 DEF Ends, Left, RollbackSteps, Steps, RootSteps, ContentSteps, ControlSteps
  <2>6. RollsBack'
    BY <1>2, <2>2, <2>4, <2>5 DEF RollsBack, Db
  <2>7. Stated' /\ Cancellation'
    BY <1>2, <2>1, <2>2 DEF Stated, Cancellation
  <2> QED BY <1>0, <1>2, <2>5, <2>6, <2>7 DEF Running, Ops
<1>3. CASE /\ op = "salvage" /\ state # "Damaged" /\ ~Opening /\ ~c
           /\ op' = "cleanup" /\ todo' = <<"discard", "att_new", "damaged">>
           /\ UNCHANGED <<state, kek, ctl, committed>>
  <2>1. Salvages /\ ~committed /\ Left >= 12 /\ Left < 23
    BY <1>0, <1>3, OpNamesProgram DEF Salvages
  <2>2. In(disk, "BuildReplacement") /\ state = "Maintenance"
    BY <1>0, <2>1 DEF Salvages
  <2>3. disk' = disk \/ (Moved /\ (At("mktmp") \/ At("discard")))
    <3>1. CASE Head(todo) \in RootSteps
      <4>1. \/ At("check") \/ At("discard") \/ At("mktmp") \/ At("tag") \/ At("fill") \/ At("att_copy")
            \/ At("seal") \/ At("intent")
        BY <1>0, <2>1, InstallSalvagedAt DEF Salvages
      <4> QED BY <3>1, <4>1 DEF At, RootSteps
    <3> QED BY <3>1
  <2>4. In(disk', "BuildReplacement")
    BY <2>2, <2>3 DEF Moved, Same, In, NoJ
  <2>5. Ends(CleanupSteps)' /\ Left' = 3 /\ todo' \in Seq(Steps)
    BY <1>3 DEF Ends, Left, CleanupSteps, Steps, RootSteps, AttSteps, ControlSteps
  <2>6. CleansUp'
    BY <1>3, <2>2, <2>4, <2>5 DEF CleansUp
  <2>7. Stated' /\ Cancellation'
    BY <1>3, <2>1, <2>2 DEF Stated, Cancellation
  <2> QED BY <1>0, <1>3, <2>5, <2>6, <2>7 DEF Running, Ops
<1> QED BY <1>1, <1>2, <1>3 DEF Abort

LEMMA FaultKeeps ==
    ASSUME IInv, Conflict \/ Cancelled \/ IoFault
    PROVE  IInv'
<1>1. Types /\ Rooted /\ Kept /\ Running /\ Stated /\ Cancellation
  BY DEF IInv
<1>2. /\ UNCHANGED <<disk, past, att, nextGen, saved>> /\ todo # <<>> /\ faults' \in {faults, faults + 1}
      /\ Abort("conflict", committed) \/ Abort("cancelled", committed) \/ Abort("io", committed)
  BY DEF Conflict, Cancelled, IoFault, Fault, Unmoved, At
<1>3. state = "NeedsSetup" => AwaitsSetup'
  BY <1>1, <1>2 DEF Stated, AwaitsSetup, Erased, Retired, Db
<1>4. /\ Running' /\ Stated' /\ Cancellation' /\ state' \in States /\ op' \in Ops /\ todo' \in Seq(Steps)
      /\ req' = req /\ kek' \in BOOLEAN /\ committed' \in BOOLEAN
      /\ ctl' \in [active : BOOLEAN, cancellable : BOOLEAN, cancelled : BOOLEAN]
  BY <1>1, <1>2, <1>3, AbortRuns
<1>5. Rooted' /\ Kept'
  BY <1>1, <1>2 DEF Rooted, Kept
<1>6. Types'
  BY <1>1, <1>2, <1>4 DEF Types
<1> QED BY <1>4, <1>5, <1>6 DEF IInv

LEMMA SyncFaultKeeps ==
    ASSUME FailingSyncs \cap Decisions = {}, IInv, SyncFault
    PROVE  IInv'
<1>1. Types /\ Rooted /\ Kept /\ Running /\ Stated /\ Cancellation /\ Ready
  BY ReadyNow DEF IInv
<1>2. PICK s \in FailingSyncs :
        /\ Fault
        /\ ChangeRoot(s) /\ Synchronizes(s)
        /\ past' = past \cup {disk}
        /\ Abort("io", committed \/ s = "commit")
        /\ UNCHANGED att
  BY DEF SyncFault
<1>3. s \notin Decisions /\ s \in RootSteps /\ At(s) /\ todo # <<>>
  BY <1>2 DEF ChangeRoot, At
<1>4. Moved /\ Shape(disk', nextGen') /\ Kept' /\ Carried
  BY <1>1, <1>2, <1>3, RootMoves
<1>5. Rooted'
  <2>1. IsFiniteSet(past')
    BY <1>1, <1>2, FS_AddElement DEF Rooted
  <2> QED BY <1>2, <1>4, <2>1 DEF Rooted, Carried
<1>6. state = "NeedsSetup" => AwaitsSetup'
  <2>1. Head(todo) \notin AttSteps \cup ControlSteps
    BY <1>3, StepKinds DEF At
  <2> QED BY <1>1, <1>2, <1>3, <1>4, <2>1, SetupStays DEF Stated
<1>7. /\ Running' /\ Stated' /\ Cancellation' /\ state' \in States /\ op' \in Ops /\ todo' \in Seq(Steps)
      /\ req' = req /\ kek' \in BOOLEAN /\ committed' \in BOOLEAN
      /\ ctl' \in [active : BOOLEAN, cancellable : BOOLEAN, cancelled : BOOLEAN]
  <2>1. Head(todo) \in RootSteps /\ (At("commit") => (committed \/ s = "commit"))
    BY <1>3 DEF At
  <2> QED BY <1>1, <1>2, <1>3, <1>4, <1>6, <2>1, AbortRuns
<1>8. Types'
  <2>1. saved' \subseteq saved /\ nextGen' \in {nextGen, nextGen + 1} /\ faults' = faults + 1 /\ att' = att
    BY <1>2 DEF ChangeRoot, SavedAfter, Fault
  <2> QED BY <1>1, <1>7, <2>1 DEF Types
<1> QED BY <1>4, <1>5, <1>7, <1>8 DEF IInv

(* The process is gone; a power failure brings an older root directory back. *)
LEMMA DownKeeps ==
    ASSUME IInv, Crash \/ PowerLoss \/ Quit
    PROVE  IInv'
<1>1. Types /\ Rooted /\ Kept
  BY DEF IInv
<1>2. Down /\ UNCHANGED <<att, nextGen, saved>> /\ faults' \in {faults, faults + 1}
  BY DEF Crash, PowerLoss, Quit, Fault, Unmoved
<1>3. Running' /\ Stated' /\ Cancellation'
  BY <1>2 DEF Down, Running, Stated, Cancellation
<1>4. Types'
  <2>1. NoControl \in [active : BOOLEAN, cancellable : BOOLEAN, cancelled : BOOLEAN]
    BY DEF NoControl
  <2>2. <<>> \in Seq(Steps) /\ "down" \in States /\ "none" \in Ops
    BY DEF States, Ops
  <2>3. [mode |-> "plain", after |-> "Erase"] \in [mode : Modes, after : {"Erase", "StartFresh"}]
    BY DEF Modes
  <2>4. /\ state' \in States /\ op' \in Ops /\ todo' \in Seq(Steps) /\ kek' \in BOOLEAN /\ committed' \in BOOLEAN
        /\ ctl' \in [active : BOOLEAN, cancellable : BOOLEAN, cancelled : BOOLEAN]
        /\ req' \in [mode : Modes, after : {"Erase", "StartFresh"}]
    BY <1>2, <2>1, <2>2, <2>3 DEF Down
  <2> QED BY <1>1, <1>2, <2>4 DEF Types
<1>5. Rooted' /\ Kept'
  <2>1. CASE UNCHANGED <<disk, past>>
    BY <1>1, <1>2, <2>1 DEF Rooted, Kept
  <2>2. CASE disk' \in past /\ past' = {}
    BY <1>1, <1>2, <2>2, FS_EmptySet DEF Rooted, Kept, Behind
  <2> QED BY <2>1, <2>2 DEF Crash, PowerLoss, Quit, Unmoved
<1> QED BY <1>3, <1>4, <1>5 DEF IInv

-----------------------------------------------------------------------------
(* Requests. *)

(* A request that starts a program. *)
LEMMA StartKeeps ==
    ASSUME IInv, UNCHANGED <<disk, past, att, committed, nextGen, saved, faults>>, Idle,
           state' \in {state, "Maintenance", "Damaged"}, state' \notin {"Open", "Locked", "down"},
           req' \in [mode : Modes, after : {"Erase", "StartFresh"}], kek' \in BOOLEAN,
           ctl' \in [active : BOOLEAN, cancellable : BOOLEAN, cancelled : BOOLEAN],
           op' \in Ops, todo' \in Seq(Steps), Running'
    PROVE  IInv'
<1>1. Types /\ Rooted /\ Kept /\ Stated /\ Cancellation
  BY DEF IInv
<1>2. Rooted' /\ Kept'
  BY <1>1 DEF Rooted, Kept
<1>3. state' \in States
  BY <1>1 DEF Types, States
<1>4. Types'
  BY <1>1, <1>3 DEF Types
<1>5. state = "NeedsSetup" => AwaitsSetup'
  BY <1>1 DEF Stated, AwaitsSetup, Retired, Erased, Db
<1>6. Stated' /\ Cancellation'
  BY <1>1, <1>5 DEF Stated, Cancellation, Idle
<1> QED BY <1>2, <1>4, <1>6 DEF IInv

LEMMA BootKeeps ==
    ASSUME IInv, Boot
    PROVE  IInv'
<1>1. Types
  BY DEF IInv
<1>2. /\ UNCHANGED <<disk, past, att, committed, nextGen, saved, faults, req, kek, ctl>> /\ Idle
      /\ op' = "boot" /\ state' = "Maintenance" /\ todo' = <<"prepare", "recover">>
  BY DEF Boot, Start, Unstarted
<1>3. todo' \in Seq(Steps) /\ Ends(BootSteps)' /\ Left' = 2
  BY <1>2 DEF Steps, RootSteps, ControlSteps, Ends, Left, BootSteps
<1>4. Boots'
  BY <1>2, <1>3 DEF Boots, Recovering
<1> QED BY <1>1, <1>2, <1>3, <1>4, StartKeeps DEF Running, Types, Ops

LEMMA UnlockKeeps ==
    ASSUME IInv, Unlock
    PROVE  IInv'
<1>1. Types /\ Stated
  BY DEF IInv
<1>2. /\ UNCHANGED <<disk, past, att, committed, nextGen, saved, faults, req, ctl>> /\ Idle /\ state = "Locked"
  BY DEF Unlock
<1>3. CASE disk.setup.phase = "BuildReplacement"
  <2>1. state' = "Damaged" /\ kek' = TRUE /\ UNCHANGED <<op, todo>>
    BY <1>3 DEF Unlock
  <2>2. Running' /\ op' \in Ops /\ todo' \in Seq(Steps)
    BY <1>1, <1>2, <2>1 DEF Running, Idle, Types
  <2> QED BY <1>1, <1>2, <2>1, <2>2, StartKeeps DEF Types
<1>4. CASE disk.setup.phase # "BuildReplacement"
  <2>1. state' = "Maintenance" /\ kek' = kek /\ op' = "unlock" /\ todo' = <<"name", "open">>
    BY <1>4 DEF Unlock, Start
  <2>2. Retired /\ Db.kind \in {"bare", "full"}
    BY <1>1, <1>2, <1>4 DEF Stated, In
  <2>3. Retired' /\ Present(disk'.dir.db) /\ disk'.dir.db.kind \in {"bare", "full"}
    BY <1>2, <2>2 DEF Retired, Db, Present
  <2>4. todo' \in Seq(Steps) /\ Running'
    BY <2>1, <2>3, OpenStarts
  <2> QED BY <1>1, <1>2, <2>1, <2>4, StartKeeps DEF Types, Ops
<1> QED BY <1>3, <1>4

LEMMA ExportKeeps ==
    ASSUME IInv, NEW m \in Modes, Export(m)
    PROVE  IInv'
<1>1. Types /\ Stated /\ Cancellation
  BY DEF IInv
<1>2. /\ UNCHANGED <<disk, past, att, committed, nextGen, saved, faults, kek>> /\ Idle /\ state = "Open"
      /\ op' = "export" /\ todo' = ExportSwap /\ state' = "Maintenance" /\ req' = [req EXCEPT !.mode = m]
      /\ ctl' = [active |-> TRUE, cancellable |-> TRUE, cancelled |-> FALSE]
  BY DEF Export, Start
<1>3. /\ ctl' \in [active : BOOLEAN, cancellable : BOOLEAN, cancelled : BOOLEAN]
      /\ req' \in [mode : Modes, after : {"Erase", "StartFresh"}]
  <2>1. ctl' \in [active : BOOLEAN, cancellable : BOOLEAN, cancelled : BOOLEAN]
    BY <1>2
  <2>2. req' \in [mode : Modes, after : {"Erase", "StartFresh"}]
    BY <1>1, <1>2 DEF Types
  <2> QED BY <2>1, <2>2
<1>4. todo' \in Seq(Steps)
  BY <1>2 DEF ExportSwap, InstallCommitted, Steps, RootSteps, ContentSteps, ControlSteps
<1>5. Ends(ExportSwap)' /\ Left' = 14
  BY <1>2 DEF ExportSwap, InstallCommitted, Ends, Left
<1>6. Retired /\ Db.kind = "full" /\ ~committed
  BY <1>1, <1>2 DEF Stated, Cancellation, Idle
<1>7. Exports'
  BY <1>2, <1>5, <1>6 DEF Exports, Retired, Db
<1> QED BY <1>1, <1>2, <1>3, <1>4, <1>7, StartKeeps DEF Running, Types, Ops

LEMMA ResetKeeps ==
    ASSUME IInv, NEW a \in {"Erase", "StartFresh"}, Reset(a)
    PROVE  IInv'
<1>1. Types /\ Stated
  BY DEF IInv
<1>2. /\ UNCHANGED <<disk, past, att, committed, nextGen, saved, faults, kek, ctl>> /\ Idle
      /\ op' = "reset" /\ state' = "Maintenance" /\ req' = [req EXCEPT !.after = a]
  BY DEF Reset, Start, Unstarted
<1>3. req' \in [mode : Modes, after : {"Erase", "StartFresh"}]
  BY <1>1, <1>2 DEF Types
<1>4. CASE ~NoJ(disk)
  <2>1. todo' = <<"recover">>
    BY <1>4 DEF Reset, Start, NoJ
  <2>2. todo' \in Seq(Steps) /\ Ends(BootSteps)' /\ Left' = 1
    BY <2>1 DEF Steps, ControlSteps, Ends, Left, BootSteps
  <2>3. Boots'
    BY <1>2, <1>4, <2>2 DEF Boots, Recovering
  <2> QED BY <1>1, <1>2, <1>3, <2>2, <2>3, StartKeeps DEF Running, Types, Ops
<1>5. CASE NoJ(disk)
  <2>1. /\ Db.kind = "full"
        /\ todo' = <<"publish">> \o RetireOld(NewJournal(a, "RetireOld")) \o <<"needs_setup">>
    BY <1>5 DEF Reset, Start, NoJ
  <2>2. NewJournal(a, "RetireOld").phase = "RetireOld"
    BY DEF NewJournal
  <2>3. todo' = <<"publish">> \o (<<"retire_db">> \o <<"att_old", "drop_old">> \o <<"await">>) \o <<"needs_setup">>
    BY <2>1, <2>2 DEF RetireOld
  <2>4. todo' \in Seq(Steps)
    BY <2>3 DEF Steps, RootSteps, AttSteps, ControlSteps
  <2>5. Ends(PublishSteps)' /\ Left' = 6
    BY <2>3 DEF PublishSteps, Ends, Left
  <2>6. Resets'
    BY <1>2, <1>5, <2>1, <2>5 DEF Resets, Erasing, Db
  <2> QED BY <1>1, <1>2, <1>3, <2>4, <2>6, StartKeeps DEF Running, Types, Ops
<1> QED BY <1>4, <1>5

LEMMA SetupKeeps ==
    ASSUME IInv, NEW m \in Modes, Setup(m)
    PROVE  IInv'
<1>1. Types /\ Stated /\ state = "NeedsSetup"
  BY DEF IInv, Setup
<1>2. /\ UNCHANGED <<disk, past, att, committed, nextGen, saved, faults, kek, ctl>> /\ Idle
      /\ op' = "setup" /\ state' = state /\ req' = [req EXCEPT !.mode = m] /\ todo' = <<"recover">>
  BY DEF Setup, Start, Unstarted
<1>3. req' \in [mode : Modes, after : {"Erase", "StartFresh"}]
  BY <1>1, <1>2 DEF Types
<1>4. todo' \in Seq(Steps) /\ Ends(BootSteps)' /\ Left' = 1
  BY <1>2 DEF Steps, ControlSteps, Ends, Left, BootSteps
<1>5. NoJ(disk) => Retired /\ Db.kind = "full" /\ Present(Db)
  BY <1>1 DEF Stated, AwaitsSetup, Present
<1>6. Boots'
  BY <1>2, <1>4, <1>5 DEF Boots, Recovering, Retired, Db
<1> QED BY <1>1, <1>2, <1>3, <1>4, <1>6, StartKeeps DEF Running, Types, Ops

LEMMA DamageKeeps ==
    ASSUME IInv, DetectDamage \/ AuthenticateRepair
    PROVE  IInv'
<1>1. Types
  BY DEF IInv
<1>2. /\ UNCHANGED <<disk, past, att, committed, nextGen, saved, faults, req, kek, ctl>> /\ Idle
      /\ op' = "quarantine" /\ state' = "Damaged"
      /\ todo' = <<"quarantine", "damaged">> \/ todo' = <<"quarantine", "authenticated">>
  BY DEF DetectDamage, AuthenticateRepair, Start, Unstarted
<1>3. CASE todo' = <<"quarantine", "damaged">>
  <2>1. todo' \in Seq(Steps) /\ Ends(DamageSteps)'
    BY <1>3 DEF Steps, RootSteps, ControlSteps, Ends, Left, DamageSteps
  <2>2. Quarantines'
    BY <1>2, <2>1 DEF Quarantines
  <2> QED BY <1>1, <1>2, <2>1, <2>2, StartKeeps DEF Running, Types, Ops
<1>4. CASE todo' = <<"quarantine", "authenticated">>
  <2>1. todo' \in Seq(Steps) /\ Ends(RepairSteps)'
    BY <1>4 DEF Steps, RootSteps, ControlSteps, Ends, Left, RepairSteps
  <2>2. Quarantines'
    BY <1>2, <2>1 DEF Quarantines
  <2> QED BY <1>1, <1>2, <2>1, <2>2, StartKeeps DEF Running, Types, Ops
<1> QED BY <1>2, <1>3, <1>4

LEMMA SalvageKeeps ==
    ASSUME IInv, Salvage
    PROVE  IInv'
<1>1. Types /\ Cancellation
  BY DEF IInv
<1>2. /\ UNCHANGED <<disk, past, att, committed, nextGen, saved, faults, req, kek, ctl>> /\ Idle
      /\ op' = "salvage" /\ state' = "Damaged" /\ todo' = InstallSalvaged
  BY DEF Salvage, Start, Unstarted
<1>3. todo' \in Seq(Steps)
  BY <1>2 DEF InstallSalvaged, InstallCommitted, FinishSetup, Steps, RootSteps, ContentSteps, AttSteps, ControlSteps
<1>4. Ends(InstallSalvaged)' /\ Left' = 24
  BY <1>2 DEF InstallSalvaged, InstallCommitted, FinishSetup, Ends, Left
<1>5. ~committed
  BY <1>1, <1>2 DEF Cancellation, Idle
<1>6. Salvages'
  BY <1>2, <1>4, <1>5 DEF Salvages
<1> QED BY <1>1, <1>2, <1>3, <1>6, StartKeeps DEF Running, Types, Ops

LEMMA CancelKeeps ==
    ASSUME IInv, CancelOperation
    PROVE  IInv'
<1>1. Types /\ Rooted /\ Kept /\ Running /\ Stated /\ Cancellation
  BY DEF IInv
<1>2. /\ UNCHANGED <<disk, past, att, state, op, todo, req, kek, committed, nextGen, saved, faults>>
      /\ ctl.cancellable /\ ctl' = [ctl EXCEPT !.cancelled = TRUE]
  BY DEF CancelOperation
<1>3. ctl' \in [active : BOOLEAN, cancellable : BOOLEAN, cancelled : BOOLEAN]
  BY <1>1, <1>2 DEF Types
<1>4. Types'
  BY <1>1, <1>2, <1>3 DEF Types
<1>5. Rooted' /\ Kept'
  BY <1>1, <1>2 DEF Rooted, Kept
<1>6. Stated'
  BY <1>1, <1>2 DEF Stated, AwaitsSetup, Retired, Erased, Db
<1>7. Cancellation'
  BY <1>1, <1>2 DEF Cancellation
<1>8. Running'
  BY <1>1, CancelRuns
<1> QED BY <1>4, <1>5, <1>6, <1>7, <1>8 DEF IInv

(* A save reaches the open database under every name, also in the past. *)
LEMMA SaveKeeps ==
    ASSUME IInv, NEW r \in Rows, Save(r)
    PROVE  IInv'
<1>1. Types /\ Rooted /\ Kept /\ Stated /\ Cancellation /\ state = "Open" /\ Idle
  BY DEF IInv, Save
<1> DEFINE x == [Db EXCEPT !.rows = @ \cup {r}]
<1>2. /\ InPlace(Db.ino, x) /\ att' = att \cup {Db.gen} /\ saved' = saved \cup {r}
      /\ UNCHANGED <<state, op, todo, req, kek, ctl, committed, nextGen, faults>>
  BY DEF Save
<1>3. Retired /\ Db.kind = "full" /\ todo = <<>>
  BY <1>1 DEF Stated
<1>4. Shape(disk, nextGen) /\ nextGen \in Nat /\ Db \in Dirs /\ "db" \in Names /\ Db = disk.dir["db"] /\ Present(Db)
  BY <1>1, <1>3, DiskTypes DEF Types, Rooted, Shape, Names, Db, Present
<1>5. Survivor(disk) = Db
  BY <1>3, <1>4, SurvivorCases DEF Retired, Gone
<1>6. Db.ino \in Nat /\ Db.ino # 0 /\ Db.gen \in Nat
  BY <1>1, <1>4, Elsewhere DEF Dirs
<1>7. /\ x \in Dirs /\ x.ino = Db.ino /\ x.kind = Db.kind /\ x.gen = Db.gen /\ x.mode = Db.mode
      /\ x.rows = Db.rows \cup {r} /\ Present(x)
  BY <1>3, <1>4 DEF Dirs, Present
<1> HIDE DEF x
<1>8. ASSUME NEW q \in past \cup {disk}
      PROVE  Shape(Rewrite(q, Db.ino, x), nextGen') /\ Survivor(Rewrite(q, Db.ino, x)) = x
  <2>1. /\ Shape(q, nextGen) /\ Survivor(q) = Db
        /\ \A m \in Names : q.dir[m].ino = Db.ino => q.dir[m] = Db
    BY <1>1, <1>4, <1>5, Elsewhere
  <2>2. Shape(Rewrite(q, Db.ino, x), nextGen) /\ Survivor(Rewrite(q, Db.ino, x)) = x
    BY <1>3, <1>4, <1>6, <1>7, <2>1, SaveSurvives
  <2> QED BY <1>2, <2>2
<1>9. Rooted' /\ Survivor(disk') = x
  BY <1>1, <1>2, <1>6, <1>7, <1>8, RewriteRooted
<1>10. Kept'
  BY <1>1, <1>2, <1>5, <1>7, <1>9 DEF Kept
<1>11. /\ disk'.setup = disk.setup /\ disk'.dir["db"] = x
       /\ \A m \in Names \ {"db"} : disk'.dir[m] = disk.dir[m]
  BY <1>1, <1>2, <1>4, <1>7, RewriteNames
<1>12. Retired' /\ disk'.dir.db.kind = "full"
  BY <1>3, <1>7, <1>11 DEF Retired, NoJ, Gone, Names
<1>13. Stated'
  BY <1>1, <1>2, <1>3, <1>12 DEF Stated, Db
<1>14. Types'
  BY <1>1, <1>2, <1>6 DEF Types
<1>15. Running' /\ Cancellation'
  BY <1>1, <1>2, <1>3 DEF Running, Cancellation
<1> QED BY <1>9, <1>10, <1>13, <1>14, <1>15 DEF IInv

-----------------------------------------------------------------------------
(* The invariant holds of a new profile and after every step. *)

LEMMA InitKeeps == Init => IInv
<1> SUFFICES ASSUME Init PROVE IInv
  OBVIOUS
<1>1. Types
  <2>1. ctl \in [active : BOOLEAN, cancellable : BOOLEAN, cancelled : BOOLEAN]
    BY DEF Init, NoControl
  <2>2. todo \in Seq(Steps)
    BY DEF Init
  <2>3. req \in [mode : Modes, after : {"Erase", "StartFresh"}]
    BY DEF Init, Modes
  <2>4. nextGen \in Nat \ {0} /\ faults \in Nat
    BY DEF Init
  <2>5. att \subseteq Nat /\ saved \subseteq Rows /\ kek \in BOOLEAN /\ committed \in BOOLEAN
    BY DEF Init
  <2>6. state \in States /\ op \in Ops
    BY DEF Init, States, Ops
  <2> QED BY <2>1, <2>2, <2>3, <2>4, <2>5, <2>6 DEF Types
<1>2. /\ disk.setup = NoJournal /\ \A n \in Names : disk.dir[n] = Absent
  BY DEF Init
<1>3. disk \in Disks
  BY AbsentType DEF Init, Disks
<1>4. Tidy(disk, nextGen)
  BY <1>2 DEF Tidy, Gone, Present, Absent
<1>5. Journaled(disk, nextGen)
  BY <1>2 DEF Journaled, NoJ
<1>6. Survivor(disk) = Absent
  BY <1>2 DEF Survivor, Names, Absent, Present
<1>7. Whole(disk)
  BY <1>2, <1>6 DEF Whole, Absent, Present, Names
<1>8. Rooted
  BY <1>3, <1>4, <1>5, <1>7, FS_EmptySet DEF Rooted, Shape, Init
<1>9. Kept
  BY DEF Kept, Init
<1> QED BY <1>1, <1>8, <1>9 DEF IInv, Init, Running, Stated, Cancellation

LEMMA StutterKeeps ==
    ASSUME IInv, UNCHANGED vars
    PROVE  IInv'
<1>1. UNCHANGED <<disk, past, att, state, op, todo, req, kek, ctl, committed, nextGen, saved, faults>>
  BY DEF vars
<1>2. Types' /\ Rooted' /\ Kept' /\ Cancellation'
  BY <1>1 DEF IInv, Types, Rooted, Kept, Cancellation
<1>3. Stated'
  BY <1>1 DEF IInv, Stated, AwaitsSetup, Retired, Erased, Db
<1>4. Running'
  BY CancelRuns DEF IInv
<1> QED BY <1>2, <1>3, <1>4 DEF IInv

LEMMA NextKeeps ==
    ASSUME FailingSyncs \cap Decisions = {}, IInv, [Next]_vars
    PROVE  IInv'
<1>1. CASE Step
  BY <1>1, StepKeeps, RecoverKeeps, PendingKeeps, NoneKeeps, DoneKeeps, FaultKeeps DEF Step
<1>2. CASE Request
  <2>1. ASSUME NEW r \in Rows, Save(r) PROVE IInv'
    BY <2>1, SaveKeeps
  <2>2. ASSUME NEW m \in Modes, Export(m) \/ Setup(m) PROVE IInv'
    BY <2>2, ExportKeeps, SetupKeeps
  <2>3. ASSUME NEW a \in {"Erase", "StartFresh"}, Reset(a) PROVE IInv'
    BY <2>3, ResetKeeps
  <2> QED BY <1>2, <2>1, <2>2, <2>3, UnlockKeeps, DamageKeeps, SalvageKeeps, CancelKeeps DEF Request
<1>3. CASE Boot \/ Quit \/ IoFault \/ SyncFault \/ Crash \/ PowerLoss
  BY <1>3, BootKeeps, DownKeeps, FaultKeeps, SyncFaultKeeps
<1>4. CASE UNCHANGED vars
  BY <1>4, StutterKeeps
<1> QED BY <1>1, <1>2, <1>3, <1>4 DEF Next

-----------------------------------------------------------------------------
(* IInv is an invariant of StoreLifecycle, for any number of rows, of store *)
(* ids and of faults, as long as no deciding synchronization fails.         *)
THEOREM Inductive ==
    ASSUME FailingSyncs \cap Decisions = {}
    PROVE  Spec => []IInv
<1>1. IInv /\ [Next]_vars => IInv'
  BY NextKeeps
<1> QED BY <1>1, InitKeeps, PTL DEF Spec

(* Type correctness of StoreLifecycle. *)
THEOREM TypeCorrect ==
    ASSUME FailingSyncs \cap Decisions = {}
    PROVE  Spec => []TypeOK
<1>1. IInv => TypeOK
  <2> SUFFICES ASSUME IInv PROVE TypeOK
    OBVIOUS
  <2>1. disk \in Disks /\ past \subseteq Disks
    BY DEF IInv, Rooted, Shape
  <2> QED BY <2>1 DEF IInv, Types, TypeOK
<1> QED BY <1>1, Inductive, PTL

(* Every acknowledged row whose loss nobody confirmed is in the store that  *)
(* recover_filesystem would install, also from any root directory a power   *)
(* failure may bring back, and so is that store's attachment tree.          *)
THEOREM NoSavedRowIsLost ==
    ASSUME FailingSyncs \cap Decisions = {}
    PROVE  Spec => []SavedRowsSurvive
<1>1. IInv => SavedRowsSurvive
  BY DEF IInv, Rooted, Behind, Kept, SavedRowsSurvive
<1> QED BY <1>1, Inductive, PTL

(* A store is Open only when every earlier operation is retired, and every  *)
(* root directory that can come back leads to the database written to.      *)
THEOREM OpenAfterRetirement ==
    ASSUME FailingSyncs \cap Decisions = {}
    PROVE  Spec => []OpenIsRetired
<1>1. ASSUME IInv, state = "Open"
      PROVE  /\ disk.setup = NoJournal
             /\ \A n \in {"tmp", "new", "old"} : ~Present(disk.dir[n])
             /\ \A p \in past : Survivor(p) = Db
  <2>1. Retired
    BY <1>1 DEF IInv, Stated
  <2>2. /\ disk.setup = NoJournal /\ \A n \in {"tmp", "new", "old"} : ~Present(disk.dir[n])
        /\ ~Present(disk.dir.new)
    BY <2>1 DEF Retired, NoJ, Gone
  <2>3. Survivor(disk) = Db
    BY <2>2 DEF Survivor, Db
  <2>4. \A p \in past : Survivor(p) = Survivor(disk)
    BY <1>1 DEF IInv, Rooted, Behind
  <2> QED BY <2>2, <2>3, <2>4
<1>2. IInv => OpenIsRetired
  BY <1>1 DEF OpenIsRetired
<1> QED BY <1>2, Inductive, PTL

(* When a reset comes to its setup, no directory and no attachment tree of  *)
(* the source it was confirmed for is left.                                 *)
THEOREM ResetsErase ==
    ASSUME FailingSyncs \cap Decisions = {}
    PROVE  Spec => []ResetErasesSource
<1>1. IInv => ResetErasesSource
  BY DEF IInv, Stated, AwaitsSetup, NoJ, Erased, ResetErasesSource
<1> QED BY <1>1, Inductive, PTL

-----------------------------------------------------------------------------
(* The refinement of DurableStore.  By the invariant every root directory   *)
(* that can come back has the same rows, so that undo is empty or {held}.   *)

Held == Survivor(disk).rows
Undo == {Survivor(p).rows : p \in past}

LEMMA UndoIsHeld ==
    ASSUME IInv
    PROVE  Undo = IF past = {} THEN {} ELSE {Held}
  BY DEF IInv, Rooted, Behind, Undo, Held

(* A step that neither saves nor gives up a row is a synchronization.       *)
LEMMA SteadySettles ==
    ASSUME IInv, IInv', Steady, saved' = saved
    PROVE  Durable!Settle
<1>1. Held' = Held
  BY DEF Steady, Held
<1>2. Undo \subseteq {Held} /\ Undo' \in {{}, {Held'}}
  <2>1. Undo' = IF past' = {} THEN {} ELSE {Held'}
    BY UndoIsHeld DEF IInv, Rooted, Behind, Undo, Held
  <2> QED BY <2>1, UndoIsHeld
<1>3. Undo' \in {{}, Undo \cup {Held}}
  BY <1>1, <1>2
<1> QED BY <1>1, <1>3 DEF Durable!Settle, Held, Undo

LEMMA DropsRows ==
    ASSUME NEW R, R \subseteq Held, Survivor(disk').rows = R, saved' = saved \cap R, past' = {}
    PROVE  \E Q \in SUBSET Held : Durable!Drop(Q)
<1>1. Undo' = {}
  BY DEF Undo
<1>2. Durable!Drop(R)
  BY <1>1 DEF Durable!Drop, Undo
<1> QED BY <1>2

LEMMA RootRefines ==
    ASSUME IInv, IInv', RootStep
    PROVE  Durable!Next
<1>1. Types /\ Rooted /\ Kept /\ Ready /\ nextGen \in Nat /\ Shape(disk', nextGen') /\ nextGen' \in Nat
  BY ReadyNow DEF IInv, Types, Rooted
<1>2. PICK s \in RootSteps :
        /\ ChangeRoot(s)
        /\ past' = IF Synchronizes(s) THEN {} ELSE past \cup {disk}
        /\ UNCHANGED att
  BY DEF RootStep
<1>3. CASE s \notin {"publish", "supersede", "install_new"}
  <2>1. saved' = saved
    BY <1>2, <1>3 DEF ChangeRoot, SavedAfter
  <2>2. Durable!Settle
    BY <1>1, <1>2, <1>3, <2>1, RootMoves, SteadySettles
  <2> QED BY <2>2 DEF Durable!Next
<1>4. CASE s \in {"publish", "supersede"}
  <2>1. saved' = {} /\ past' = {} /\ At(s)
    BY <1>2, <1>4 DEF ChangeRoot, SavedAfter, Synchronizes
  <2>2. In(disk', "RetireOld")
    BY <1>1, <1>2, <1>4, <2>1, RootMoves DEF Moved
  <2>3. Survivor(disk').rows = {}
    BY <1>1, <2>2, SurvivorCases, AbsentType
  <2>4. \E R \in SUBSET Held : Durable!Drop(R)
    BY <2>1, <2>3, DropsRows
  <2> QED BY <2>4 DEF Durable!Next, Held
<1>5. CASE s = "install_new"
  <2>1. past' = {} /\ At("install_new") /\ Survivor(disk') = disk.dir.tmp
    BY <1>1, <1>2, <1>5, RootInstallNew DEF ChangeRoot, Synchronizes
  <2>2. CASE op = "salvage"
    <3>1. saved' = saved \cap disk.dir.tmp.rows
      BY <1>2, <1>5, <2>2 DEF ChangeRoot, SavedAfter
    <3>2. disk.dir.tmp.rows \subseteq Held
      BY <1>1, <2>1, <2>2, SurvivorCases DEF Ready, Held, Rooted, Db
    <3>3. \E R \in SUBSET Held : Durable!Drop(R)
      BY <2>1, <3>1, <3>2, DropsRows
    <3> QED BY <3>3 DEF Durable!Next, Held
  <2>3. CASE op # "salvage"
    <3>1. saved' = saved
      BY <1>2, <1>5, <2>3 DEF ChangeRoot, SavedAfter
    <3>2. In(disk, "AwaitChoice") /\ disk.dir.tmp.rows = {}
      BY <1>1, <2>1, <2>3 DEF Ready
    <3>3. Steady
      BY <1>1, <2>1, <3>2, SurvivorCases, AbsentType DEF Steady, Rooted
    <3>4. Durable!Settle
      BY <3>1, <3>3, SteadySettles
    <3> QED BY <3>4 DEF Durable!Next
  <2> QED BY <2>2, <2>3
<1> QED BY <1>3, <1>4, <1>5

LEMMA SaveRefines ==
    ASSUME IInv, IInv', NEW r \in Rows, Save(r)
    PROVE  Durable!Next
<1>1. Types /\ Rooted /\ state = "Open" /\ Retired /\ Db.kind = "full" /\ saved' = saved \cup {r}
  BY DEF IInv, Save, Stated
<1> DEFINE x == [Db EXCEPT !.rows = @ \cup {r}]
<1>2. InPlace(Db.ino, x)
  BY DEF Save
<1>3. /\ Shape(disk, nextGen) /\ Shape(disk', nextGen') /\ nextGen \in Nat /\ nextGen' \in Nat /\ Db \in Dirs
      /\ "db" \in Names /\ Db = disk.dir["db"] /\ Present(Db)
  BY <1>1, DiskTypes DEF IInv, Types, Rooted, Shape, Names, Db, Present
<1>4. x \in Dirs /\ x.ino = Db.ino /\ x.rows = Db.rows \cup {r}
  BY <1>3 DEF Dirs
<1> HIDE DEF x
<1>5. /\ disk'.setup = disk.setup /\ disk'.dir["db"] = x
      /\ \A m \in Names \ {"db"} : disk'.dir[m] = disk.dir[m]
  BY <1>1, <1>2, <1>3, <1>4, RewriteNames
<1>6. Held = Db.rows /\ Held' = x.rows
  <2>1. NoJ(disk) /\ ~Present(disk.dir.new) /\ disk'.dir["new"] = disk.dir["new"]
    BY <1>1, <1>5 DEF Retired, Gone, Names
  <2>2. Survivor(disk) = Db
    BY <1>3, <2>1, SurvivorCases DEF Db
  <2>3. Survivor(disk') = x
    BY <1>3, <1>5, <2>1, SurvivorCases DEF NoJ
  <2> QED BY <2>2, <2>3 DEF Held
<1>7. past' = {} <=> past = {}
  BY <1>2 DEF InPlace
<1>8. Undo' = {u \cup {r} : u \in Undo}
  <2>1. Undo' = IF past' = {} THEN {} ELSE {Held'}
    BY UndoIsHeld DEF IInv, Rooted, Behind, Undo, Held
  <2> QED BY <1>4, <1>6, <1>7, <2>1, UndoIsHeld
<1>9. Durable!Save(r)
  BY <1>1, <1>4, <1>6, <1>8 DEF Durable!Save, Held, Undo
<1> QED BY <1>9 DEF Durable!Next

(* Every step of the lifecycle is a step of DurableStore. *)
LEMMA NextRefines ==
    ASSUME FailingSyncs \cap Decisions = {}, IInv, IInv', [Next]_vars
    PROVE  Durable!Next
<1>1. CASE UNCHANGED <<disk, saved>>
  BY <1>1, SteadySettles DEF Steady, Durable!Next
<1>2. CASE RootStep
  BY <1>2, RootRefines
<1>3. CASE ContentStep
  <2>1. Steady /\ saved' = saved
    BY <1>3, ReadyNow, ContentAdvances DEF IInv, ContentStep
  <2> QED BY <2>1, SteadySettles DEF Durable!Next
<1>4. ASSUME NEW r \in Rows, Save(r) PROVE Durable!Next
  BY <1>4, SaveRefines
<1>5. CASE SyncFault
  <2>1. PICK s \in FailingSyncs : ChangeRoot(s) /\ UNCHANGED att
    BY <1>5 DEF SyncFault
  <2>2. s \notin Decisions /\ s \in RootSteps
    BY <2>1 DEF ChangeRoot
  <2>3. Steady
    BY <2>1, <2>2, ReadyNow, RootMoves DEF IInv, Decisions
  <2>4. saved' = saved
    BY <2>1, <2>2 DEF ChangeRoot, SavedAfter, Decisions
  <2> QED BY <2>3, <2>4, SteadySettles DEF Durable!Next
<1>6. CASE PowerLoss
  <2>1. Steady /\ saved' = saved
    BY <1>6 DEF PowerLoss, IInv, Rooted, Behind, Steady
  <2> QED BY <2>1, SteadySettles DEF Durable!Next
<1>7. CASE VacuousStep \/ AttachmentStep \/ PassCheck \/ Seal \/ Intent \/ Freeze \/ Recover
  BY <1>1, <1>7 DEF VacuousStep, AttachmentStep, PassCheck, Seal, Intent, Freeze, Recover, Unmoved
<1>8. CASE BootPending \/ BootNone \/ SetupPending \/ SetupNone \/ ResetPending \/ ResetNone \/ NeedsSetup
             \/ Open \/ Settle \/ Conflict \/ Cancelled
  BY <1>1, <1>8 DEF BootPending, BootNone, SetupPending, SetupNone, ResetPending, ResetNone, NeedsSetup,
                    Open, Settle, Conflict, Cancelled, Unmoved
<1>9. CASE Unlock \/ DetectDamage \/ AuthenticateRepair \/ Salvage \/ CancelOperation
  BY <1>1, <1>9 DEF Unlock, DetectDamage, AuthenticateRepair, Salvage, CancelOperation, Unstarted
<1>10. ASSUME NEW m \in Modes, Export(m) \/ Setup(m) PROVE Durable!Next
  BY <1>1, <1>10 DEF Export, Setup, Unstarted
<1>11. ASSUME NEW a \in {"Erase", "StartFresh"}, Reset(a) PROVE Durable!Next
  BY <1>1, <1>11 DEF Reset, Unstarted
<1>12. CASE Boot \/ Quit \/ IoFault \/ Crash
  BY <1>1, <1>12 DEF Boot, Quit, IoFault, Crash, Unstarted, Unmoved
<1>13. CASE UNCHANGED vars
  BY <1>1, <1>13 DEF vars
<1>14. Step => Durable!Next
  BY <1>2, <1>3, <1>7, <1>8 DEF Step
<1>15. Request => Durable!Next
  BY <1>4, <1>9, <1>10, <1>11 DEF Request
<1> QED BY <1>5, <1>6, <1>12, <1>13, <1>14, <1>15 DEF Next

(* The directories, journals and recovery steps of lifecycle.rs implement   *)
(* the promise of DurableStore: only a save adds a row to what a restart    *)
(* finds, and only a confirmed reset or salvage takes rows away.            *)
THEOREM LifecycleImplementsDurableStore ==
    ASSUME FailingSyncs \cap Decisions = {}
    PROVE  Spec => ImplementsDurableStore
<1>1. Init => Durable!Init
  BY DEF Init, Durable!Init, Survivor, Absent, Present, Names
<1>2. IInv /\ IInv' /\ [Next]_vars => [Durable!Next]_(Durable!vars)
  BY NextRefines
<1> QED BY <1>1, <1>2, Inductive, PTL DEF Spec, Durable!Spec, ImplementsDurableStore

-----------------------------------------------------------------------------
(* Cancellation does not depend on the disk, so it needs no hypothesis on   *)
(* the synchronizations: an invariant of the control flow alone.            *)

Controls == [active : BOOLEAN, cancellable : BOOLEAN, cancelled : BOOLEAN]

(* What the programs that cannot be cancelled are made of. *)
PlainSteps == Steps \ {"intent"}

(* The operation commits when boundary steps are left; the check before     *)
(* that follows the closing of cancellation.                                *)
Sealed(boundary) ==
    /\ (committed <=> Left < boundary)
    /\ Left <= boundary + 1 => ~ctl.cancellable
    /\ Left <= boundary => ~ctl.cancelled

Controlled ==
    /\ ctl \in Controls /\ committed \in BOOLEAN /\ todo \in Seq(Steps)
    /\ op = "export" => Ends(ExportSwap) /\ Sealed(5)
    /\ op = "salvage" => Ends(InstallSalvaged) /\ Sealed(12)
    /\ op \notin {"export", "salvage"} => ~committed /\ todo \in Seq(PlainSteps)

LEMMA ProgramSteps ==
    /\ <<>> \in Seq(PlainSteps)
    /\ CompleteSetup \in Seq(PlainSteps)
    /\ \A d : RecoverFilesystem(d) \in Seq(PlainSteps)
    /\ \A j : /\ RetireOld(j) \o <<"needs_setup">> \in Seq(PlainSteps)
              /\ <<"publish">> \o RetireOld(j) \o <<"needs_setup">> \in Seq(PlainSteps)
              /\ (<<"supersede">> \o RetireOld(j)) \o <<"needs_setup">> \in Seq(PlainSteps)
    /\ \A q \in Seq(PlainSteps) : q \in Seq(Steps)
<1> DEFINE P == PlainSteps
<1>1. /\ "retire_db" \in P /\ "att_old" \in P /\ "drop_old" \in P /\ "await" \in P /\ "swap_old" \in P
      /\ "swap_new" \in P /\ "mark" \in P /\ "unmark" \in P /\ "commit" \in P /\ "discard" \in P /\ "pending" \in P
      /\ "conflict" \in P /\ "none" \in P /\ "needs_setup" \in P /\ "publish" \in P /\ "supersede" \in P
      /\ "mktmp" \in P /\ "tag" \in P /\ "fill" \in P /\ "install_new" \in P /\ "open" \in P /\ "att_new" \in P
  BY DEF PlainSteps, Steps, RootSteps, ContentSteps, AttSteps, ControlSteps
<1>2. \A q \in Seq(P) : q \in Seq(Steps)
  <2>1. P \subseteq Steps
    BY DEF PlainSteps
  <2> HIDE DEF P
  <2> QED BY <2>1
<1> HIDE DEF P
<1>3. <<>> \in Seq(P) /\ InstallCommitted \in Seq(P) /\ FinishSetup \in Seq(P) /\ \A j : RetireOld(j) \in Seq(P)
  BY <1>1 DEF InstallCommitted, FinishSetup, RetireOld
<1>4. \A a, b \in Seq(P) : a \o b \in Seq(P)
  OBVIOUS
<1>5. CompleteSetup \in Seq(P)
  BY <1>1, <1>3, <1>4 DEF CompleteSetup
<1>6. ASSUME NEW j
      PROVE  /\ RetireOld(j) \o <<"needs_setup">> \in Seq(P)
             /\ <<"publish">> \o RetireOld(j) \o <<"needs_setup">> \in Seq(P)
             /\ (<<"supersede">> \o RetireOld(j)) \o <<"needs_setup">> \in Seq(P)
  BY <1>1, <1>3, <1>4
<1>7. ASSUME NEW d PROVE RecoverFilesystem(d) \in Seq(P)
  <2>1. /\ <<"conflict">> \in Seq(P) /\ FinishSetup \o <<"none">> \in Seq(P) /\ <<"none">> \in Seq(P)
        /\ <<"discard", "att_new", "pending">> \in Seq(P) /\ <<"discard", "pending">> \in Seq(P)
        /\ <<"discard">> \in Seq(P) /\ <<"drop_old">> \in Seq(P) /\ <<"commit">> \in Seq(P)
    BY <1>1, <1>3
  <2>2. /\ InstallCommitted \o FinishSetup \o <<"none">> \in Seq(P)
        /\ <<"commit">> \o InstallCommitted \o FinishSetup \o <<"none">> \in Seq(P)
    BY <1>3, <1>4, <2>1
  <2>3. CASE d.setup # NoJournal
    BY <1>3, <1>4, <2>1, <2>2, <2>3 DEF RecoverFilesystem
  <2>4. CASE d.setup = NoJournal
    BY <1>3, <1>4, <2>1, <2>4 DEF RecoverFilesystem
  <2> QED BY <2>3, <2>4
<1> QED BY <1>2, <1>3, <1>5, <1>6, <1>7 DEF P

(* The next step of the same operation. *)
LEMMA ControlGoesOn ==
    ASSUME Controlled, todo # <<>>, todo' = Tail(todo), op' = op, Head(todo) \notin Results,
           ctl' \in Controls, committed' \in BOOLEAN, At("check") => ~ctl.cancelled,
           ctl'.cancelled <=> ctl.cancelled /\ ~At("freeze"),
           ctl'.cancellable <=> At("freeze") \/ (ctl.cancellable /\ ~At("seal")),
           committed' <=> committed \/ At("intent") \/ (op = "export" /\ At("commit"))
    PROVE  Controlled'
<1>1. todo \in Seq(Steps) /\ todo' \in Seq(Steps) /\ Left \in Nat
  BY DEF Controlled, Left
<1>2. CASE op = "export"
  <2>1. Ends(ExportSwap) /\ Sealed(5)
    BY <1>2 DEF Controlled
  <2>2. \/ (Left > 7 /\ ~At("commit") /\ ~At("intent"))
        \/ (Left = 7 /\ At("seal")) \/ (Left = 6 /\ At("check")) \/ (Left = 5 /\ At("commit"))
        \/ (Left < 5 /\ Left > 1 /\ ~At("freeze"))
    BY <1>1, <2>1, ExportSwapAt DEF At, Results
  <2>3. Len(ExportSwap) \in Nat
    BY <1>1, <2>1, ExportSwapAt
  <2>4. Left' = Left - 1 /\ (todo' # <<>> => Ends(ExportSwap)')
    BY <1>1, <2>1, <2>3, EndsTail
  <2>5. todo' # <<>>
    <3>1. Left > 1
      BY <1>1, <2>2
    <3>2. Left' # 0
      BY <1>1, <2>4, <3>1
    <3> QED BY <3>2 DEF Left
  <2>6. Sealed(5)'
    BY <1>1, <1>2, <2>1, <2>2, <2>4 DEF Sealed, At
  <2> QED BY <1>1, <1>2, <2>4, <2>5, <2>6 DEF Controlled
<1>3. CASE op = "salvage"
  <2>1. Ends(InstallSalvaged) /\ Sealed(12)
    BY <1>3 DEF Controlled
  <2>2. \/ (Left > 14 /\ ~At("intent") /\ ~At("seal"))
        \/ (Left = 14 /\ At("seal")) \/ (Left = 13 /\ At("check")) \/ (Left = 12 /\ At("intent"))
        \/ (Left < 12 /\ Left > 1 /\ ~At("freeze"))
    BY <1>1, <2>1, InstallSalvagedAt DEF At, Results
  <2>3. Len(InstallSalvaged) \in Nat
    BY <1>1, <2>1, InstallSalvagedAt
  <2>4. Left' = Left - 1 /\ (todo' # <<>> => Ends(InstallSalvaged)')
    BY <1>1, <2>1, <2>3, EndsTail
  <2>5. todo' # <<>>
    <3>1. Left > 1
      BY <1>1, <2>2
    <3>2. Left' # 0
      BY <1>1, <2>4, <3>1
    <3> QED BY <3>2 DEF Left
  <2>6. Sealed(12)'
    BY <1>1, <1>3, <2>1, <2>2, <2>4 DEF Sealed, At
  <2> QED BY <1>1, <1>3, <2>4, <2>5, <2>6 DEF Controlled
<1>4. CASE op \notin {"export", "salvage"}
  <2>1. todo' \in Seq(PlainSteps) /\ Head(todo) # "intent"
    BY <1>4 DEF Controlled, PlainSteps
  <2> QED BY <1>1, <1>4, <2>1 DEF Controlled, At
<1> QED BY <1>2, <1>3, <1>4

LEMMA ControlStops ==
    ASSUME Controlled, Stop
    PROVE  Controlled'
<1>1. ctl' \in Controls
  BY DEF Controlled, Controls, Stop
<1>2. op' = "none" /\ committed' = FALSE /\ todo' = <<>>
  BY DEF Stop
<1> QED BY <1>1, <1>2, ProgramSteps DEF Controlled

(* An operation that cannot be cancelled goes on with another program. *)
LEMMA ControlContinues ==
    ASSUME Controlled, op' \notin {"export", "salvage"}, todo' \in Seq(PlainSteps), UNCHANGED <<committed, ctl>>, ~committed
    PROVE  Controlled'
  BY ProgramSteps DEF Controlled

(* Only these steps end an operation that can be cancelled. *)
LEMMA CancellableResults ==
    ASSUME Controlled, op \in {"export", "salvage"}, todo # <<>>
    PROVE  /\ Head(todo) \notin Results \ {"open"}
           /\ Head(todo) \notin {"create", "name", "prepare"}
<1>1. CASE op = "export"
  BY <1>1, ExportSwapAt DEF Controlled, At, Results
<1>2. CASE op = "salvage"
  BY <1>2, InstallSalvagedAt DEF Controlled, At, Results
<1> QED BY <1>1, <1>2

LEMMA ControlAborts ==
    ASSUME Controlled, todo # <<>>, NEW err, NEW c, committed => c, Abort(err, c)
    PROVE  Controlled'
<1>1. CASE Stop
  BY <1>1, ControlStops
<1>2. CASE op' \in {"rollback", "cleanup"} /\ ~c /\ UNCHANGED <<ctl, committed>>
           /\ (todo' = <<"discard", "name", "open">> \/ todo' = <<"discard", "att_new", "damaged">>)
  <2>1. <<"discard", "name", "open">> \in Seq(PlainSteps) /\ <<"discard", "att_new", "damaged">> \in Seq(PlainSteps)
    BY DEF PlainSteps, Steps, RootSteps, ContentSteps, AttSteps, ControlSteps
  <2> QED BY <1>2, <2>1, ControlContinues
<1> QED BY <1>1, <1>2 DEF Abort

LEMMA ProgramStepControlled ==
    ASSUME Controlled, RootStep \/ ContentStep \/ VacuousStep \/ AttachmentStep
    PROVE  Controlled'
<1>1. PICK s \in RootSteps \cup ContentSteps \cup AttSteps :
        /\ At(s) /\ op' = op /\ UNCHANGED ctl
        /\ \/ todo' = Tail(todo) /\ committed' = (committed \/ (op = "export" /\ s = "commit"))
           \/ todo' = todo /\ committed' = committed
  <2>1. CASE RootStep
    BY <2>1 DEF RootStep, ChangeRoot
  <2>2. CASE ContentStep
    <3>1. PICK s \in ContentSteps : At(s) /\ ContentOnly(s) /\ Continue(After(s))
      BY <2>2 DEF ContentStep
    <3>2. s # "commit"
      BY DEF ContentSteps
    <3>3. committed' = committed /\ op' = op /\ UNCHANGED ctl /\ (todo' = Tail(todo) \/ todo' = todo)
      BY <3>1 DEF Continue, After
    <3>4. committed \in BOOLEAN
      BY DEF Controlled
    <3> QED BY <3>1, <3>2, <3>3, <3>4
  <2>3. CASE VacuousStep
    <3>1. PICK s \in RootSteps \cup ContentSteps : At(s) /\ Vacuous(s) /\ NextStep
      BY <2>3 DEF VacuousStep
    <3>2. s # "commit"
      BY <3>1 DEF Vacuous
    <3>3. committed' = committed /\ op' = op /\ UNCHANGED ctl /\ todo' = Tail(todo) /\ committed \in BOOLEAN
      BY <3>1 DEF NextStep, Continue, Controlled
    <3> QED BY <3>1, <3>2, <3>3
  <2>4. CASE AttachmentStep
    <3>1. PICK s \in AttSteps : At(s) /\ NextStep
      BY <2>4 DEF AttachmentStep
    <3>2. s # "commit"
      BY DEF AttSteps
    <3>3. committed' = committed /\ op' = op /\ UNCHANGED ctl /\ todo' = Tail(todo) /\ committed \in BOOLEAN
      BY <3>1 DEF NextStep, Continue, Controlled
    <3> QED BY <3>1, <3>2, <3>3
  <2> QED BY <2>1, <2>2, <2>3, <2>4
<1>2. CASE todo' = Tail(todo) /\ committed' = (committed \/ (op = "export" /\ s = "commit"))
  <2>1. /\ todo # <<>> /\ Head(todo) = s /\ s \notin Results
        /\ s \notin {"freeze", "seal", "check", "intent"}
    BY <1>1, StepKinds DEF At, RootSteps, ContentSteps, AttSteps
  <2>2. ctl' \in Controls /\ committed' \in BOOLEAN
    BY <1>1, <1>2 DEF Controlled
  <2> QED BY <1>1, <1>2, <2>1, <2>2, ControlGoesOn DEF At
<1>3. CASE todo' = todo /\ committed' = committed
  BY <1>1, <1>3 DEF Controlled, Ends, Left, Sealed
<1> QED BY <1>1, <1>2, <1>3

LEMMA CheckControlled ==
    ASSUME Controlled, PassCheck \/ Seal \/ Intent \/ Freeze
    PROVE  Controlled'
<1>1. /\ todo' = Tail(todo) /\ op' = op
      /\ Head(todo) \in {"check", "fresh", "seal", "intent", "freeze"} /\ todo # <<>>
  BY DEF PassCheck, Seal, Intent, Freeze, NextStep, Continue, At
<1>2. ctl \in Controls /\ ctl' \in Controls /\ committed' \in BOOLEAN
  <2>1. ctl \in Controls /\ committed \in BOOLEAN
    BY DEF Controlled
  <2>2. CASE PassCheck \/ Intent
    BY <2>1, <2>2 DEF PassCheck, Intent, NextStep, Continue
  <2>3. CASE Seal
    BY <2>1, <2>3 DEF Seal, Controls
  <2>4. CASE Freeze
    <3>1. ctl' = [active |-> TRUE, cancellable |-> TRUE, cancelled |-> FALSE] /\ committed' = committed
      BY <2>4 DEF Freeze
    <3>2. ctl' \in Controls
      BY <3>1 DEF Controls
    <3> QED BY <2>1, <3>1, <3>2
  <2> QED BY <2>2, <2>3, <2>4
<1>3. /\ At("check") => ~ctl.cancelled
      /\ (committed' <=> committed \/ At("intent"))
  BY DEF PassCheck, Seal, Intent, Freeze, At, NextStep, Continue
<1>4. /\ (ctl'.cancelled <=> ctl.cancelled /\ ~At("freeze"))
      /\ (ctl'.cancellable <=> At("freeze") \/ (ctl.cancellable /\ ~At("seal")))
  BY <1>2 DEF PassCheck, Seal, Intent, Freeze, At, NextStep, Continue, Controls
<1>5. Head(todo) \notin Results /\ ~At("commit")
  BY <1>1 DEF Results, At
<1> QED BY <1>1, <1>2, <1>3, <1>4, <1>5, ControlGoesOn

LEMMA ResultControlled ==
    ASSUME Controlled,
           Recover \/ BootPending \/ BootNone \/ SetupPending \/ SetupNone \/ ResetPending \/ ResetNone
             \/ NeedsSetup \/ Open \/ Settle
    PROVE  Controlled'
<1>1. CASE Stop
  BY <1>1, ControlStops
<1>2. CASE ~Stop
  <2>1. todo # <<>> /\ Head(todo) \in Results \ {"open"}
    BY <1>2 DEF Recover, BootPending, BootNone, SetupPending, SetupNone, ResetPending, ResetNone, NeedsSetup,
                Open, Settle, At, Results
  <2>2. op \notin {"export", "salvage"} /\ ~committed
    BY <2>1, CancellableResults DEF Controlled
  <2>3. <<"create", "name", "open">> \in Seq(PlainSteps) /\ <<"name", "open">> \in Seq(PlainSteps)
    BY DEF PlainSteps, Steps, RootSteps, ContentSteps, AttSteps, ControlSteps
  <2>4. CASE \E q \in Seq(PlainSteps) : Continue(q)
    BY <2>2, <2>4, ControlContinues DEF Continue
  <2>5. CASE Recover \/ BootPending \/ BootNone \/ SetupPending \/ SetupNone
    BY <1>2, <2>3, <2>4, <2>5, ProgramSteps DEF Recover, BootPending, BootNone, SetupPending, SetupNone
  <2>6. CASE ResetPending
    <3>1. \/ Continue((<<"supersede">> \o RetireOld([disk.setup EXCEPT !.phase = "RetireOld"])) \o <<"needs_setup">>)
          \/ Continue(RetireOld(disk.setup) \o <<"needs_setup">>)
      BY <2>6 DEF ResetPending
    <3> QED BY <2>4, <3>1, ProgramSteps
  <2>7. CASE ResetNone \/ NeedsSetup
    BY <1>2, <2>3, <2>4, <2>7, ProgramSteps DEF ResetNone, NeedsSetup
  <2> QED BY <1>2, <2>5, <2>6, <2>7 DEF Open, Settle
<1> QED BY <1>1, <1>2

LEMMA RequestControlled ==
    ASSUME Controlled, Request \/ Boot
    PROVE  Controlled'
<1>1. /\ <<"prepare", "recover">> \in Seq(PlainSteps) /\ <<"name", "open">> \in Seq(PlainSteps)
      /\ <<"quarantine", "damaged">> \in Seq(PlainSteps) /\ <<"quarantine", "authenticated">> \in Seq(PlainSteps)
      /\ <<"recover">> \in Seq(PlainSteps)
  BY DEF PlainSteps, Steps, RootSteps, ContentSteps, AttSteps, ControlSteps
<1>2. Idle => op \notin {"export", "salvage"} /\ ~committed
  BY DEF Idle, Controlled, Ends, Left
<1>3. CASE CancelOperation
  <2>1. /\ UNCHANGED <<op, todo, committed>> /\ ctl.cancellable /\ ctl' = [ctl EXCEPT !.cancelled = TRUE]
    BY <1>3 DEF CancelOperation
  <2>2. ctl' \in Controls /\ ctl'.cancellable = ctl.cancellable
    BY <2>1 DEF Controlled, Controls
  <2>3. op = "export" => Left > 6
    BY <2>1 DEF Controlled, Sealed, Left
  <2>4. op = "salvage" => Left > 13
    BY <2>1 DEF Controlled, Sealed, Left
  <2> QED BY <2>1, <2>2, <2>3, <2>4 DEF Controlled, Sealed, Ends, Left
<1>4. ASSUME NEW m \in Modes, Export(m) PROVE Controlled'
  <2>1. /\ Idle /\ op' = "export" /\ todo' = ExportSwap /\ committed' = committed
        /\ ctl' = [active |-> TRUE, cancellable |-> TRUE, cancelled |-> FALSE]
    BY <1>4 DEF Export, Start
  <2>2. todo' \in Seq(Steps) /\ ctl' \in Controls
    BY <2>1 DEF ExportSwap, InstallCommitted, Steps, RootSteps, ContentSteps, AttSteps, ControlSteps, Controls
  <2>3. Ends(ExportSwap)' /\ Left' = 14
    BY <2>1 DEF ExportSwap, InstallCommitted, Ends, Left
  <2> QED BY <1>2, <2>1, <2>2, <2>3 DEF Controlled, Sealed
<1>5. CASE Salvage
  <2>1. Idle /\ op' = "salvage" /\ todo' = InstallSalvaged /\ UNCHANGED <<committed, ctl>>
    BY <1>5 DEF Salvage, Start, Unstarted
  <2>2. todo' \in Seq(Steps)
    BY <2>1 DEF InstallSalvaged, InstallCommitted, FinishSetup, Steps, RootSteps, ContentSteps, AttSteps, ControlSteps
  <2>3. Ends(InstallSalvaged)' /\ Left' = 24
    BY <2>1 DEF InstallSalvaged, InstallCommitted, FinishSetup, Ends, Left
  <2> QED BY <1>2, <2>1, <2>2, <2>3 DEF Controlled, Sealed
<1>6. CASE Unlock \/ DetectDamage \/ AuthenticateRepair \/ Boot
  <2>1. /\ Idle /\ UNCHANGED <<committed, ctl>>
        /\ UNCHANGED <<op, todo>> \/ (op' \in {"unlock", "quarantine", "boot"} /\ todo' \in Seq(PlainSteps))
    BY <1>1, <1>6 DEF Unlock, DetectDamage, AuthenticateRepair, Boot, Start, Unstarted
  <2>2. todo \in Seq(PlainSteps)
    BY <1>2, <2>1 DEF Controlled
  <2> QED BY <1>2, <2>1, <2>2, ControlContinues
<1>7. ASSUME NEW m \in Modes, Setup(m) PROVE Controlled'
  BY <1>1, <1>2, <1>7, ControlContinues DEF Setup, Start, Unstarted
<1>8. ASSUME NEW a \in {"Erase", "StartFresh"}, Reset(a) PROVE Controlled'
  <2>1. /\ Idle /\ op' = "reset" /\ UNCHANGED <<committed, ctl>>
        /\ \/ todo' = <<"recover">>
           \/ todo' = <<"publish">> \o RetireOld(NewJournal(a, "RetireOld")) \o <<"needs_setup">>
    BY <1>8 DEF Reset, Start, Unstarted
  <2>2. todo' \in Seq(PlainSteps)
    BY <1>1, <2>1, ProgramSteps
  <2> QED BY <1>2, <2>1, <2>2, ControlContinues
<1>9. ASSUME NEW r \in Rows, Save(r) PROVE Controlled'
  <2>1. UNCHANGED <<op, todo, committed, ctl>>
    BY <1>9 DEF Save
  <2> QED BY <2>1 DEF Controlled, Sealed, Ends, Left
<1> QED BY <1>3, <1>4, <1>5, <1>6, <1>7, <1>8, <1>9 DEF Request

(* A cancel that cancel_store_operation accepted is never followed by the   *)
(* commit of that operation, whatever fails.                                *)
THEOREM CancelsAreHonoured == Spec => []CancelIsHonoured
<1>1. Init => Controlled
  <2>1. Init => ctl \in Controls
    BY DEF Init, Controls, NoControl
  <2> QED BY <2>1, ProgramSteps DEF Init, Controlled
<1>2. ASSUME Controlled, [Next]_vars PROVE Controlled'
  <2>1. CASE Conflict \/ Cancelled \/ IoFault
    BY <1>2, <2>1, ControlAborts DEF Conflict, Cancelled, IoFault, At
  <2>2. CASE SyncFault
    <3>1. PICK s \in FailingSyncs : ChangeRoot(s) /\ Abort("io", committed \/ s = "commit")
      BY <2>2 DEF SyncFault
    <3>2. todo # <<>>
      BY <3>1 DEF ChangeRoot, At
    <3> QED BY <1>2, <3>1, <3>2, ControlAborts
  <2>3. CASE Quit \/ Crash \/ PowerLoss
    <3>1. Down
      BY <2>3 DEF Quit, Crash, PowerLoss
    <3>2. ctl' \in Controls
      BY <3>1 DEF Down, NoControl, Controls
    <3> QED BY <3>1, <3>2, ProgramSteps DEF Down, Controlled
  <2>4. CASE UNCHANGED vars
    BY <1>2, <2>4 DEF vars, Controlled, Sealed, Ends, Left
  <2>5. CASE Step
    BY <1>2, <2>1, <2>5, ProgramStepControlled, CheckControlled, ResultControlled DEF Step
  <2> QED BY <1>2, <2>1, <2>2, <2>3, <2>4, <2>5, RequestControlled DEF Next
<1>3. Controlled => CancelIsHonoured
  BY DEF Controlled, Sealed, CancelIsHonoured, Left
<1> QED BY <1>1, <1>2, <1>3, PTL DEF Spec
=============================================================================
