---------------------------- MODULE KeySlotsProofs ----------------------------
(***************************************************************************)
(* TLAPS proofs about KeySlots, for every set of passwords and slots and   *)
(* any number of faults: the type invariant, that the user is never locked *)
(* out, that a revoked password opens nothing, and that a reply without a  *)
(* pending flag is true of both files.                                     *)
(***************************************************************************)
EXTENDS KeySlots, TLAPS

(* Every slot in S opens with a password in P. *)
Open(S, P) == \A s \in S : s # NoSlot => PwOf[s] \in P

DiskOpens(P) == \A f \in Files : Open(OnDisk(f), P)

PairOpens(P) == Open({pair.primary, pair.previous}, P)

(* Which operation can be at which step. *)
Control ==
    /\ pc = "idle" => op = "none"
    /\ pc = "load" => op \in {"load", "unlock", "change"}
    /\ pc \in {"rec", "recsync"} => op \in {"load", "unlock", "open", "change"}
    /\ pc = "auth" => op = "unlock"
    /\ pc = "check" => op = "change"
    /\ pc \in {"write", "writesync"} => op \in {"raise", "change"}
    /\ pc = "reply" => op \in {"open", "raise", "change"}

(* The slots on disk and the ones an operation may still write are known.  *)
KnownInv ==
    /\ DiskOpens(known)
    /\ pc \in {"rec", "recsync", "auth", "check"} \/ op = "open" => PairOpens(known)
    /\ op \in {"raise", "change"} => PwOf[want] \in known
    /\ op = "open" /\ ~used => Opens(pair.primary, offered)

(* Before its first rename a change has put nothing new on disk. *)
Uncommitted ==
    /\ op = "change"
    /\ \/ pc \in {"load", "rec", "recsync", "check"}
       \/ pc = "write" /\ at = "primary"

PriorInv ==
    Uncommitted =>
        /\ prior \subseteq known
        /\ DiskOpens(prior)
        /\ pc \in {"rec", "recsync", "check"} => PairOpens(prior)

(* How far write_with has come. *)
WriteInv ==
    /\ pc = "writesync" => files[at] = want
    /\ pc \in {"write", "writesync"} /\ at = "backup" => files["primary"] = want
    /\ pc = "reply" /\ op = "change" /\ ~pending =>
          \A f \in Files : OnDisk(f) = {want}

IInv ==
    /\ TypeOK
    /\ Control
    /\ KnownInv
    /\ PriorInv
    /\ WriteInv
    /\ known \cap revoked = {}
-----------------------------------------------------------------------------
(* One step keeps every type. *)
LEMMA TypeStep == TypeOK /\ [Next]_vars => TypeOK'
<1> SUFFICES ASSUME TypeOK, [Next]_vars PROVE TypeOK'
  OBVIOUS
<1> USE SlotsAssumption DEF TypeOK, Files, Maybe, Ops, PCs
<1>1. CASE Load
  BY <1>1 DEF Load, Pair
<1>1a. CASE LoadReadFault
  BY <1>1a DEF LoadReadFault, Fault
<1>1b. CASE LoadDamaged
  BY <1>1b DEF LoadDamaged, Fail
<1>2. CASE ReconcileSame
  BY <1>2 DEF ReconcileSame, NextFile, AfterReconcile, Reconciled
<1>3. CASE ReconcileWrite
  BY <1>3 DEF ReconcileWrite, Rename
<1>4. CASE ReconcileSync
  BY <1>4 DEF ReconcileSync, Synchronize, NextFile, AfterReconcile, Reconciled
<1>5. CASE ReconcileFault
  BY <1>5 DEF ReconcileFault, Fault, AfterReconcile, Reconciled
<1>6. CASE Authenticate \/ WrongPassword \/ Raise \/ ReplyUnlock
  BY <1>6 DEF Authenticate, WrongPassword, Raise, ReplyUnlock, Fail
<1>7. CASE CheckCurrent \/ WriteSync
  BY <1>7 DEF CheckCurrent, WriteSync, Synchronize, Written
<1>7c. CASE Write
  <2>1. files' \in [Files -> Maybe] /\ stale' \in [Files -> SUBSET Maybe]
    BY <1>7c DEF Write, Rename
  <2>2. QED
    BY <1>7c, <2>1 DEF Write
<1>7a. CASE WriteSyncFault
  BY <1>7a DEF WriteSyncFault, Written, Fault
<1>7b. CASE WriteFault
  <2>1. CASE at = "primary" /\ op = "change" /\ Fail
    BY <1>7b, <2>1 DEF WriteFault, Fault, Fail
  <2>2. ASSUME ~(at = "primary" /\ op = "change" /\ Fail) PROVE TypeOK'
    <3>1. /\ pending' = TRUE /\ pc' = "reply" /\ faults' = faults + 1
          /\ UNCHANGED <<host, op, at, pair, unsynced, used, offered, want, known,
                         prior, revoked, clean, files, stale>>
      BY <1>7b, <2>2 DEF WriteFault, Fault
    <3>2. QED
      BY <3>1
  <2>3. QED
    BY <2>1, <2>2
<1>8. CASE ReplyChange
  BY <1>8 DEF ReplyChange
<1>9. CASE Reconcile
  BY <1>9 DEF Reconcile, Begin
<1>10. ASSUME NEW p \in Passwords, Unlock(p) \/ \E s \in Slots : Change(p, s)
       PROVE  TypeOK'
  <2>1. CASE Unlock(p)
    BY <2>1 DEF Unlock, Begin
  <2>2. ASSUME NEW s \in Slots, Change(p, s) PROVE TypeOK'
    <3>1. PwOf[s] \in Passwords
      OBVIOUS
    <3>2. QED
      BY <2>2, <3>1 DEF Change, Begin
  <2>3. QED
    BY <1>10, <2>1, <2>2
<1>11. CASE Quit
  BY <1>11 DEF Quit, Down, Stopped
<1>11b. CASE Crash
  BY <1>11b DEF Crash, Down, Stopped, Fault
<1>11a. CASE PowerLoss
  <2>1. /\ files' \in [Files -> Maybe] /\ stale' = [f \in Files |-> {}]
        /\ clean' = FALSE /\ faults' = faults + 1
        /\ host' = "down" /\ op' = "none" /\ pc' = "idle"
        /\ UNCHANGED <<at, pair, pending, unsynced, used, offered, want, known,
                       prior, revoked>>
    BY <1>11a DEF PowerLoss, Down, Fault, Stopped
  <2>2. clean' \in BOOLEAN
    BY <2>1
  <2>3. faults' \in Nat
    BY <2>1
  <2>4. files' \in [Files -> Maybe] /\ stale' \in [Files -> SUBSET Maybe]
    BY <2>1
  <2>5. QED
    BY <2>1, <2>2, <2>3, <2>4
<1>12. ASSUME NEW f \in Files, Damage(f)
       PROVE  TypeOK'
  <2>1. /\ files' \in [Files -> Maybe] /\ clean' = FALSE /\ faults' = faults + 1
        /\ UNCHANGED <<at, pair, pending, unsynced, used, offered, want, known,
                       prior, revoked, stale, host, op, pc>>
    BY <1>12 DEF Damage, Fault, Stopped
  <2>2. clean' \in BOOLEAN
    BY <2>1
  <2>3. faults' \in Nat
    BY <2>1
  <2>4. files' \in [Files -> Maybe] /\ stale' \in [Files -> SUBSET Maybe]
    BY <2>1
  <2>5. QED
    BY <2>1, <2>2, <2>3, <2>4
<1>13. CASE UNCHANGED vars
  BY <1>13 DEF vars
<1>14. QED
  BY <1>1, <1>1a, <1>1b, <1>2, <1>3, <1>4, <1>5, <1>6, <1>7, <1>7a, <1>7b, <1>7c, <1>8, <1>9, <1>10,
     <1>11, <1>11a, <1>11b, <1>12, <1>13 DEF Next

(* The initial state has the right types. *)
LEMMA InitTypeOK == Init => TypeOK
<1> SUFFICES ASSUME Init PROVE TypeOK
  OBVIOUS
<1>1. PICK s \in Slots :
         /\ files = [f \in Files |-> s]
         /\ stale = [f \in Files |-> {}]
         /\ pair = [primary |-> NoSlot, previous |-> NoSlot]
         /\ offered = PwOf[s] /\ want = s
         /\ known = {PwOf[s]} /\ prior = {PwOf[s]}
  BY DEF Init
<1>2. PwOf[s] \in Passwords
  BY <1>1, SlotsAssumption
<1>3. /\ host = "down" /\ op = "none" /\ pc = "idle" /\ at = "primary"
      /\ revoked = {} /\ faults = 0
      /\ pending = FALSE /\ unsynced = FALSE /\ used = FALSE /\ clean = TRUE
  BY DEF Init
<1>4. QED
  BY <1>1, <1>2, <1>3 DEF TypeOK, Files, Maybe, Ops, PCs

(* Every variable keeps its type: no fault, crash or reply leaves a file    *)
(* with anything but a slot or nothing.                                     *)
THEOREM TypeCorrect == Spec => []TypeOK
  BY InitTypeOK, TypeStep, PTL DEF Spec

(* One step keeps operation and program counter in agreement. *)
LEMMA ControlStep == TypeOK /\ Control /\ [Next]_vars => Control'
<1> SUFFICES ASSUME TypeOK, Control, [Next]_vars PROVE Control'
  OBVIOUS
<1> USE DEF Control, TypeOK, Ops, PCs, Files
<1>1. CASE Load \/ LoadReadFault \/ LoadDamaged
  BY <1>1 DEF Load, LoadReadFault, LoadDamaged, Fail
<1>2. CASE ReconcileSame \/ ReconcileWrite \/ ReconcileSync \/ ReconcileFault
  BY <1>2 DEF ReconcileSame, ReconcileWrite, ReconcileSync, ReconcileFault, NextFile,
              AfterReconcile, Reconciled
<1>3. CASE Authenticate \/ WrongPassword \/ Raise \/ ReplyUnlock
  BY <1>3 DEF Authenticate, WrongPassword, Raise, ReplyUnlock, Fail
<1>4. CASE CheckCurrent \/ Write \/ WriteSync \/ WriteSyncFault \/ WriteFault \/ ReplyChange
  BY <1>4 DEF CheckCurrent, Write, WriteSync, WriteSyncFault, WriteFault, ReplyChange,
              Written, Fail
<1>5. CASE Reconcile \/ \E p \in Passwords : Unlock(p) \/ \E s \in Slots : Change(p, s)
  BY <1>5 DEF Reconcile, Unlock, Change, Begin
<1>6. CASE Quit \/ Crash \/ PowerLoss \/ \E f \in Files : Damage(f)
  BY <1>6 DEF Quit, Crash, PowerLoss, Damage, Down
<1>7. CASE UNCHANGED vars
  BY <1>7 DEF vars
<1>8. QED
  BY <1>1, <1>2, <1>3, <1>4, <1>5, <1>6, <1>7 DEF Next

-----------------------------------------------------------------------------
(* What a step can put on disk: a rename adds the slot it installs, a       *)
(* synchronization and a power failure add nothing.                         *)
LEMMA RenameAdds ==
    ASSUME TypeOK, NEW g \in Files, NEW s, Rename(g, s), NEW f \in Files
    PROVE  OnDisk(f)' \subseteq OnDisk(f) \cup {s}
  BY DEF Rename, OnDisk, TypeOK

(* A directory sync (sync_key_file) leaves only the current slot of a file. *)
LEMMA SynchronizeAddsNothing ==
    ASSUME TypeOK, Synchronize, NEW f \in Files
    PROVE  OnDisk(f)' = {files[f]}
  BY DEF Synchronize, OnDisk, TypeOK

(* A power failure keeps one of the slots that were on disk. *)
LEMMA PowerLossAddsNothing ==
    ASSUME TypeOK, PowerLoss, NEW f \in Files
    PROVE  OnDisk(f)' \subseteq OnDisk(f)
  BY DEF PowerLoss, OnDisk, TypeOK

(* Damage of a file may lose its slot and brings no other. *)
LEMMA DamageAddsNoSlot ==
    ASSUME TypeOK, NEW g \in Files, Damage(g), NEW f \in Files
    PROVE  OnDisk(f)' \subseteq OnDisk(f) \cup {NoSlot}
  BY DEF Damage, OnDisk, TypeOK

(* The part of the inductive invariant beyond types and control. *)
SlotInv == KnownInv /\ PriorInv /\ WriteInv /\ known \cap revoked = {}

(* Loading only reads: the pair it forms consists of slots on disk. *)
LEMMA LoadStep ==
    ASSUME IInv, Load \/ LoadReadFault \/ LoadDamaged
    PROVE  SlotInv'
<1> USE DEF IInv, SlotInv, KnownInv, PriorInv, WriteInv, Control, Uncommitted, DiskOpens,
            PairOpens, Open, OnDisk, Files
<1>1. CASE Load
  <2>1. pair'.primary \in {files["primary"], files["backup"]}
        /\ pair'.previous \in {files["primary"], files["backup"], NoSlot}
    BY <1>1 DEF Load, Pair
  <2>2. QED
    BY <1>1, <2>1 DEF Load
<1>2. CASE LoadReadFault
  <2>1. pair'.primary \in {files["primary"], files["backup"]}
        /\ pair'.previous = NoSlot
    BY <1>2 DEF LoadReadFault
  <2>2. QED
    BY <1>2, <2>1 DEF LoadReadFault
<1>3. CASE LoadDamaged
  BY <1>3 DEF LoadDamaged, Fail
<1>4. QED
  BY <1>1, <1>2, <1>3

(* Reconciliation writes only the primary slot of the pair. *)
LEMMA ReconcileStep ==
    ASSUME IInv, ReconcileSame \/ ReconcileWrite \/ ReconcileSync \/ ReconcileFault
    PROVE  SlotInv'
<1> USE DEF IInv, SlotInv, KnownInv, PriorInv, WriteInv, Control, Uncommitted, DiskOpens,
            PairOpens, Open, Opens
<1>1. CASE ReconcileWrite
  <2>1. \A f \in Files : OnDisk(f)' \subseteq OnDisk(f) \cup {pair.primary}
    BY <1>1, RenameAdds DEF ReconcileWrite, TypeOK
  <2>2. QED
    BY <1>1, <2>1 DEF ReconcileWrite
<1>2. ASSUME \A f \in Files : OnDisk(f)' \subseteq OnDisk(f),
             pc \in {"rec", "recsync"},
             pc' \in {"idle", "rec", "auth", "check", "reply"},
             op' = op \/ (op' = "none" /\ pc' = "idle"),
             pc' = "reply" => op = "open",
             pair'.primary = pair.primary,
             pair'.previous \in {pair.previous, NoSlot},
             UNCHANGED <<used, offered, want, known, prior, revoked>>
      PROVE  SlotInv'
  BY <1>2
<1>3. CASE ReconcileSame
  <2>1. \A f \in Files : OnDisk(f)' = OnDisk(f)
    BY <1>3 DEF ReconcileSame, OnDisk
  <2>2. QED
    BY <1>2, <1>3, <2>1 DEF ReconcileSame, NextFile, AfterReconcile, Reconciled, TypeOK
<1>4. CASE ReconcileSync
  <2>1. \A f \in Files : OnDisk(f)' \subseteq OnDisk(f)
    BY <1>4, SynchronizeAddsNothing DEF ReconcileSync, OnDisk
  <2>2. QED
    BY <1>2, <1>4, <2>1 DEF ReconcileSync, NextFile, AfterReconcile, Reconciled, TypeOK
<1>5. CASE ReconcileFault
  <2>1. \A f \in Files : OnDisk(f)' = OnDisk(f)
    BY <1>5 DEF ReconcileFault, OnDisk
  <2>2. QED
    BY <1>2, <1>5, <2>1 DEF ReconcileFault, AfterReconcile, Reconciled, TypeOK
<1>6. QED
  BY <1>1, <1>3, <1>4, <1>5

(* Unlocking writes nothing itself; the upgrade slot has the password that  *)
(* opened the primary one.                                                  *)
LEMMA UnlockStep ==
    ASSUME IInv, Authenticate \/ WrongPassword \/ Raise \/ ReplyUnlock
    PROVE  SlotInv'
<1> USE DEF IInv, SlotInv, KnownInv, PriorInv, WriteInv, Control, Uncommitted, DiskOpens,
            PairOpens, Open, Opens
<1> USE DEF OnDisk
<1>1. CASE Authenticate
  BY <1>1 DEF Authenticate
<1>2. CASE WrongPassword
  BY <1>2 DEF WrongPassword, Fail
<1>3. CASE Raise
  <2>1. PwOf[want'] = offered /\ PwOf[pair.primary] = offered /\ pair.primary # NoSlot
    BY <1>3 DEF Raise
  <2>2. PwOf[want'] \in known
    BY <1>3, <2>1 DEF Raise
  <2>3. QED
    BY <1>3, <2>2 DEF Raise
<1>4. CASE ReplyUnlock
  BY <1>4 DEF ReplyUnlock
<1>5. QED
  BY <1>1, <1>2, <1>3, <1>4

(* A change: nothing before its first rename, then only the new slot, which *)
(* is alone on disk when the reply reports nothing pending.                 *)
LEMMA ChangeStep ==
    ASSUME IInv, CheckCurrent \/ Write \/ WriteSync \/ WriteSyncFault \/ WriteFault \/ ReplyChange
    PROVE  SlotInv'
<1> USE DEF IInv, SlotInv, KnownInv, PriorInv, WriteInv, Control, Uncommitted, DiskOpens,
            PairOpens, Open, Opens
<1>1. CASE CheckCurrent
  BY <1>1 DEF CheckCurrent, OnDisk
<1>2. CASE Write
  <2>1. \A f \in Files : OnDisk(f)' \subseteq OnDisk(f) \cup {want}
    BY <1>2, RenameAdds DEF Write, TypeOK
  <2>2. files'[at] = want /\ (at = "backup" => files'["primary"] = want)
    BY <1>2 DEF Write, Rename, TypeOK, Files
  <2>3. QED
    BY <1>2, <2>1, <2>2 DEF Write
<1>3. CASE WriteSync
  <2>1. \A f \in Files : OnDisk(f)' = {files[f]}
    BY <1>3, SynchronizeAddsNothing DEF WriteSync
  <2>2. at = "backup" => \A f \in Files : OnDisk(f)' = {want}
    BY <1>3, <2>1 DEF WriteSync, Files
  <2>3. at = "primary" => files'["primary"] = want
    BY <1>3 DEF WriteSync, Synchronize
  <2>4. \A f \in Files : OnDisk(f)' \subseteq OnDisk(f)
    BY <2>1 DEF OnDisk
  <2>5. /\ pc = "writesync" /\ at' = "backup"
        /\ UNCHANGED <<op, pair, pending, used, offered, want, known, prior, revoked>>
    BY <1>3 DEF WriteSync, Written
  <2>6. CASE at = "primary"
    <3>1. pc' = "write"
      BY <1>3, <2>6 DEF WriteSync, Written
    <3>2. QED
      BY <2>3, <2>4, <2>5, <2>6, <3>1
  <2>7. CASE at = "backup"
    <3>1. pc' = "reply"
      BY <1>3, <2>7 DEF WriteSync, Written
    <3>2. QED
      BY <2>2, <2>4, <2>5, <2>7, <3>1
  <2>8. QED
    BY <2>6, <2>7 DEF TypeOK, Files
<1>4. CASE WriteSyncFault
  <2>1. /\ pc = "writesync" /\ at' = "backup"
        /\ UNCHANGED <<files, stale, op, pair, used, offered, want, known, prior, revoked>>
    BY <1>4 DEF WriteSyncFault, Written
  <2>2. \A f \in Files : OnDisk(f)' = OnDisk(f)
    BY <2>1 DEF OnDisk
  <2>3. CASE at = "primary"
    <3>1. pc' = "write"
      BY <1>4, <2>3 DEF WriteSyncFault, Written
    <3>2. QED
      BY <2>1, <2>2, <2>3, <3>1
  <2>4. CASE at = "backup"
    <3>1. pc' = "reply" /\ pending'
      BY <1>4, <2>4 DEF WriteSyncFault, Written
    <3>2. QED
      BY <2>1, <2>2, <2>4, <3>1
  <2>5. QED
    BY <2>3, <2>4 DEF TypeOK, Files
<1>5. CASE WriteFault
  <2>1. CASE at = "primary" /\ op = "change" /\ Fail
    BY <1>5, <2>1 DEF WriteFault, Fail, OnDisk
  <2>2. ASSUME ~(at = "primary" /\ op = "change" /\ Fail) PROVE SlotInv'
    <3>1. /\ pending' /\ pc' = "reply"
          /\ UNCHANGED <<files, stale, op, at, pair, used, offered, want, known, prior, revoked>>
      BY <1>5, <2>2 DEF WriteFault
    <3>2. QED
      BY <1>5, <3>1 DEF WriteFault, OnDisk
  <2>3. QED
    BY <2>1, <2>2
<1>6. CASE ReplyChange
  <2>1. CASE pending
    BY <1>6, <2>1 DEF ReplyChange, OnDisk
  <2>2. CASE ~pending
    <3>1. \A f \in Files : OnDisk(f)' = {want}
      BY <1>6, <2>2 DEF ReplyChange, OnDisk
    <3>2. QED
      BY <1>6, <2>2, <3>1 DEF ReplyChange
  <2>3. QED
    BY <2>1, <2>2
<1>7. QED
  BY <1>1, <1>2, <1>3, <1>4, <1>5, <1>6

(* Requests, crashes and damage: the disk gains no slot. *)
LEMMA EnvironmentStep ==
    ASSUME IInv,
           \/ Reconcile \/ \E p \in Passwords : Unlock(p) \/ \E s \in Slots : Change(p, s)
           \/ Quit \/ Crash \/ PowerLoss \/ \E f \in Files : Damage(f)
    PROVE  SlotInv'
<1> USE DEF IInv, SlotInv, KnownInv, PriorInv, WriteInv, Control, Uncommitted, DiskOpens,
            PairOpens, Open, Opens
<1>1. CASE Reconcile
  BY <1>1 DEF Reconcile, Begin, OnDisk
<1>2. ASSUME NEW p \in Passwords, Unlock(p) PROVE SlotInv'
  BY <1>2 DEF Unlock, Begin, OnDisk
<1>3. ASSUME NEW p \in Passwords, NEW s \in Slots, Change(p, s) PROVE SlotInv'
  BY <1>3 DEF Change, Begin, OnDisk
<1>4. CASE Quit \/ Crash
  BY <1>4 DEF Quit, Crash, Down, Stopped, OnDisk
<1>5. CASE PowerLoss
  <2>1. \A f \in Files : OnDisk(f)' \subseteq OnDisk(f)
    BY <1>5, PowerLossAddsNothing
  <2>2. QED
    BY <1>5, <2>1 DEF PowerLoss, Down, Stopped
<1>6. ASSUME NEW g \in Files, Damage(g) PROVE SlotInv'
  <2>1. \A f \in Files : OnDisk(f)' \subseteq OnDisk(f) \cup {NoSlot}
    BY <1>6, DamageAddsNoSlot
  <2>2. QED
    BY <1>6, <2>1 DEF Damage, Stopped
<1>7. QED
  BY <1>1, <1>2, <1>3, <1>4, <1>5, <1>6

(* One step keeps the inductive invariant. *)
LEMMA InvStep == IInv /\ [Next]_vars => IInv'
<1> SUFFICES ASSUME IInv, [Next]_vars PROVE IInv'
  OBVIOUS
<1>1. TypeOK' /\ Control'
  BY TypeStep, ControlStep DEF IInv
<1>2. CASE UNCHANGED vars
  <2>1. SlotInv'
    BY <1>2 DEF vars, IInv, SlotInv, KnownInv, PriorInv, WriteInv, Uncommitted, DiskOpens,
                PairOpens, Open, Opens, OnDisk
  <2>2. QED
    BY <1>1, <2>1 DEF IInv, SlotInv
<1>3. CASE Next
  <2>1. SlotInv'
    BY <1>3, LoadStep, ReconcileStep, UnlockStep, ChangeStep, EnvironmentStep DEF Next
  <2>2. QED
    BY <1>1, <2>1 DEF IInv, SlotInv
<1>4. QED
  BY <1>2, <1>3

(* The initial state, one slot in both files, satisfies the invariant. *)
LEMMA InitInv == Init => IInv
<1> SUFFICES ASSUME Init PROVE IInv
  OBVIOUS
<1>1. TypeOK
  BY InitTypeOK
<1>2. PICK s \in Slots :
         /\ files = [f \in Files |-> s]
         /\ stale = [f \in Files |-> {}]
         /\ known = {PwOf[s]}
  BY DEF Init
<1>3. op = "none" /\ pc = "idle" /\ revoked = {}
  BY DEF Init
<1>4. DiskOpens(known)
  BY <1>2 DEF DiskOpens, Open, OnDisk
<1>5. QED
  BY <1>1, <1>3, <1>4 DEF IInv, Control, KnownInv, PriorInv, WriteInv, Uncommitted

(* The inductive invariant holds in every reachable state. *)
LEMMA Inductive == Spec => []IInv
  BY InitInv, InvStep, PTL DEF Spec

-----------------------------------------------------------------------------
(* Whatever fails and whatever a power failure undoes, the slot the next    *)
(* load takes opens with a password the user was told to keep.              *)
THEOREM NoLockout == Spec => []NeverLockedOut
<1>1. IInv => NeverLockedOut
  BY DEF IInv, KnownInv, DiskOpens, Open, NeverLockedOut, Possible, Effective, Files
<1>2. QED
  BY <1>1, Inductive, PTL

(* A password replaced by a change reported without a warning opens nothing *)
(* that is, or can come back, on disk.                                      *)
THEOREM RevocationHolds == Spec => []RevokedNeverUnlocks
<1>1. IInv => RevokedNeverUnlocks
  BY DEF IInv, KnownInv, DiskOpens, Open, RevokedNeverUnlocks
<1>2. QED
  BY <1>1, Inductive, PTL

-----------------------------------------------------------------------------
(* When the two files agree.  A load takes its pair from them, and a        *)
(* reconciliation or a write that ends without anything pending has made    *)
(* both hold its slot; a later load that fails half-way finds nothing to    *)
(* change, so the reply stays true.                                         *)
Equal(s) == files["primary"] = s /\ files["backup"] = s

Matched ==
    /\ clean =>
          /\ files["primary"] # NoSlot /\ Equal(files["primary"])
          /\ pc \notin {"recsync", "write", "writesync"}
          /\ pc = "rec" => pair.primary = files["primary"]
    /\ pc \in {"rec", "recsync", "auth"} => pair.primary # NoSlot
    /\ pc \in {"rec", "recsync"} =>
          pending /\ (at = "backup" => files["primary"] = pair.primary)
    /\ pc = "recsync" => files[at] = pair.primary
    /\ pc = "auth" /\ clean => pair.primary = files["primary"]
    /\ pc = "reply" /\ op = "open" /\ ~pending =>
          pair.primary # NoSlot /\ Equal(pair.primary)
    /\ pc = "reply" /\ op # "open" /\ ~pending => Equal(want)

MInv == IInv /\ Matched

(* One step keeps the files in agreement with what was last replied. *)
LEMMA MatchedStep == MInv /\ [Next]_vars => Matched'
<1> SUFFICES ASSUME MInv, [Next]_vars PROVE Matched'
  OBVIOUS
<1> USE SlotsAssumption
<1>0. /\ files \in [Files -> Maybe] /\ pair \in [primary : Maybe, previous : Maybe]
      /\ want \in Slots /\ at \in Files /\ pending \in BOOLEAN /\ clean \in BOOLEAN
      /\ pc \in PCs /\ op \in Ops /\ want # NoSlot
  BY DEF MInv, IInv, TypeOK
<1>00. Control /\ WriteInv
  BY DEF MInv, IInv
<1> USE <1>0, <1>00 DEF MInv, Matched, Equal, Control, WriteInv, Files, Ops, PCs
<1>1. CASE Load
  BY <1>1 DEF Load, Pair
<1>2. CASE LoadReadFault
  BY <1>2 DEF LoadReadFault
<1>3. CASE LoadDamaged
  BY <1>3 DEF LoadDamaged, Fail
<1>4. CASE ReconcileSame
  BY <1>4 DEF ReconcileSame, NextFile, AfterReconcile, Reconciled
<1>5. CASE ReconcileWrite
  BY <1>5 DEF ReconcileWrite, Rename
<1>6. CASE ReconcileSync
  BY <1>6 DEF ReconcileSync, Synchronize, NextFile, AfterReconcile, Reconciled
<1>7. CASE ReconcileFault
  BY <1>7 DEF ReconcileFault, AfterReconcile, Reconciled
<1>8. CASE Authenticate
  BY <1>8 DEF Authenticate
<1>9. CASE WrongPassword
  BY <1>9 DEF WrongPassword, Fail
<1>10. CASE Raise \/ ReplyUnlock
  BY <1>10 DEF Raise, ReplyUnlock
<1>11. CASE CheckCurrent
  BY <1>11 DEF CheckCurrent
<1>12. CASE Write
  BY <1>12 DEF Write, Rename
<1>13. CASE WriteSync
  BY <1>13 DEF WriteSync, Synchronize, Written
<1>14. CASE WriteSyncFault
  BY <1>14 DEF WriteSyncFault, Written
<1>15. CASE WriteFault
  BY <1>15 DEF WriteFault, Fail
<1>16. CASE ReplyChange
  BY <1>16 DEF ReplyChange
<1>17. CASE Reconcile \/ \E p \in Passwords : Unlock(p) \/ \E s \in Slots : Change(p, s)
  BY <1>17 DEF Reconcile, Unlock, Change, Begin
<1>18. CASE Quit \/ Crash \/ PowerLoss \/ \E f \in Files : Damage(f)
  BY <1>18 DEF Quit, Crash, PowerLoss, Damage, Down, Stopped
<1>19. CASE UNCHANGED vars
  BY <1>19 DEF vars
<1>20. QED
  BY <1>1, <1>2, <1>3, <1>4, <1>5, <1>6, <1>7, <1>8, <1>9, <1>10, <1>11, <1>12, <1>13,
     <1>14, <1>15, <1>16, <1>17, <1>18, <1>19 DEF Next

(* A reply that reports nothing pending is true of the files: either can be *)
(* lost, however later loads fail (KeyFilePair::reconcile, write_with).     *)
THEOREM ReplyIsTrue == Spec => []CleanReplyMatches
<1>1. Init => Matched
  BY SlotsAssumption DEF Init, Matched, Equal, Files
<1>2. Init => MInv
  BY <1>1, InitInv DEF MInv
<1>3. MInv /\ [Next]_vars => MInv'
  BY InvStep, MatchedStep DEF MInv
<1>4. MInv => CleanReplyMatches
  BY DEF MInv, Matched, Equal, CleanReplyMatches
<1>5. QED
  BY <1>2, <1>3, <1>4, PTL DEF Spec
=============================================================================
