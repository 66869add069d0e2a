------------------------- MODULE StoreAdmissionProofs -------------------------
(***************************************************************************)
(* Proofs about StoreAdmission, for any number of clients, generations and *)
(* crashes: files are replaced only when everybody is drained, the journal *)
(* of a replacement is never overwritten, and damage that was reported and *)
(* could be recorded is never forgotten or written to.                     *)
(***************************************************************************)
EXTENDS StoreAdmission, TLAPS

-----------------------------------------------------------------------------
(* The types that the argument needs. *)
Shape ==
    /\ pc \in [Procs -> PCs]
    /\ guard \in [Conns -> Procs \cup {Nobody}]
    /\ kind \in [Procs -> {"read", "write"}]
    /\ held \in [Procs -> Journals]
    /\ journal \in Journals /\ (journal.kind = "none" => journal = NoJournal)
    /\ note \in {"kept", "failed", "lost"}

(* A client inside a connection holds its mutex. *)
Inside == \A c \in Clients : pc[c] \in {"run", "freeze"} => guard[Conn(c)] = c

(* The operation takes mutexes only after it joined the worker, and gives   *)
(* them back when it goes on; it decides with all of them.                  *)
Drained ==
    /\ \A x \in Conns : guard[x] = "op" => pc["op"] \in {"drain", "decide"} /\ pc["worker"] = "idle"
    /\ pc["op"] = "decide" => \A x \in Conns : guard[x] = "op"

(* The operation from the time it froze the store. *)
Frozen == {"thaw", "take", "drain", "decide", "restore", "open", "closed", "reclose", "retire",
           "install"}

(* No thread outlives the process, no operation ends it by putting the state *)
(* back, and the store is closed while one is at work.                       *)
Rest ==
    /\ state = "down" => \A p \in Procs : pc[p] = "idle"
    /\ pc["op"] = "thaw" => prev # "down"
    /\ pc["op"] \in Frozen => state # "Open"

(* A replacement that is published but not complete: nothing is open, and   *)
(* no operation is on its way to open the store as it was.                  *)
Pending ==
    journal.kind = "replace" =>
        /\ journal.by = "op"
        /\ ~handles /\ state # "Open"
        /\ pc["worker"] = "idle"
        /\ \A c \in Clients : pc[c] \notin {"run", "freeze"}
        /\ job \notin {"export", "salvage"}
        /\ pc["op"] \notin {"restore", "open", "install"}
        /\ pc["op"] = "thaw" => prev # "Open"

QInv == Shape /\ Inside /\ Drained /\ Rest /\ QuietReplacement /\ Pending

(* One step keeps the journal of a replacement, or completes it. *)
Stands == journal.kind = "replace" => journal' \in {journal, NoJournal}

-----------------------------------------------------------------------------
(* Clients: only one that holds its mutex is inside, and none enters while the *)
(* connections are closed or the store is not open. *)
LEMMA ClientSteps ==
    ASSUME QInv, NEW c \in Clients, 
           \/ \E k \in {"read", "write"} : Request(c, k)
           \/ Admit(c)
           \/ TurnAway(c)
           \/ Finish(c)
           \/ RestoreFails(c)
           \/ FindDamage(c)
           \/ FreezeDamage(c)
           \/ ObserveResult(c)
    PROVE  QInv' /\ Stands
<1> USE AdmissionAssumption
<1> USE DEF QInv, Shape, Inside, Drained, Rest, Frozen, QuietReplacement, Pending, Stands,
            Conn, Procs, Conns, PCs, Journals, NoJournal,
            flags, locks, native, locals, disk, history
<1>1. CASE \E k \in {"read", "write"} : Request(c, k)
  BY <1>1 DEF Request, EnsureOpen, Go
<1>2. CASE Admit(c)
  BY <1>2 DEF Admit, Admitted, EnsureOpen, Go
<1>3. CASE TurnAway(c)
  BY <1>3 DEF TurnAway, Return, Go
<1>4. CASE Finish(c)
  BY <1>4 DEF Finish, Release, Return, Go
<1>5. CASE RestoreFails(c)
  BY <1>5 DEF RestoreFails, Release, Go
<1>6. CASE FindDamage(c)
  BY <1>6 DEF FindDamage, Go
<1>7. CASE FreezeDamage(c)
  BY <1>7 DEF FreezeDamage, Release, Go
<1>8. CASE ObserveResult(c)
  BY <1>8 DEF ObserveResult, Return, Tell, Go
<1>9. QED
  BY <1>1, <1>2, <1>3, <1>4, <1>5, <1>6, <1>7, <1>8

(* A quarantine keeps whatever journal there is. *)
LEMMA QuarantineSteps ==
    ASSUME QInv, NEW p \in Clients \cup {"check"}, 
           \/ EnterQuarantine(p)
           \/ SkipQuarantine(p)
           \/ WriteQuarantine(p)
    PROVE  QInv' /\ Stands
<1> USE AdmissionAssumption
<1> USE DEF QInv, Shape, Inside, Drained, Rest, Frozen, QuietReplacement, Pending, Stands,
            Conn, Procs, Conns, PCs, Journals, NoJournal,
            flags, locks, native, locals, disk, history
<1>1. CASE EnterQuarantine(p)
  BY <1>1 DEF EnterQuarantine, TakeWorker, Go, Damaged
<1>2. CASE SkipQuarantine(p)
  BY <1>2 DEF SkipQuarantine, Return, Tell, Go
<1>3. CASE WriteQuarantine(p)
  BY <1>3 DEF WriteQuarantine, PersistQuarantine, QuarantineMissing, Return, Tell, Go
<1>4. QED
  BY <1>1, <1>2, <1>3

(* The worker writes its journal only while no replacement is published. *)
LEMMA WorkerSteps ==
    ASSUME QInv, 
           \/ WorkerPoll
           \/ WorkerQuit
           \/ WorkerLock
           \/ WorkerFinish
           \/ WorkerDamage
           \/ WorkerReport
           \/ WorkerRead
           \/ WorkerWrite
    PROVE  QInv' /\ Stands
<1> USE AdmissionAssumption
<1> USE DEF QInv, Shape, Inside, Drained, Rest, Frozen, QuietReplacement, Pending, Stands,
            Conn, Procs, Conns, PCs, Journals, NoJournal,
            flags, locks, native, locals, disk, history
<1>1. CASE WorkerPoll
  BY <1>1 DEF WorkerPoll, Go
<1>2. CASE WorkerQuit
  BY <1>2 DEF WorkerQuit, Go
<1>3. CASE WorkerLock
  BY <1>3 DEF WorkerLock, Go
<1>4. CASE WorkerFinish
  BY <1>4 DEF WorkerFinish, Release, Go
<1>5. CASE WorkerDamage
  BY <1>5 DEF WorkerDamage, Release, Go
<1>6. CASE WorkerReport
  BY <1>6 DEF WorkerReport, Go
<1>7. CASE WorkerRead
  BY <1>7 DEF WorkerRead, Go
<1>8. CASE WorkerWrite
  BY <1>8 DEF WorkerWrite, PersistQuarantine, QuarantineMissing, Return, Tell, Go
<1>9. QED
  BY <1>1, <1>2, <1>3, <1>4, <1>5, <1>6, <1>7, <1>8

(* The checker touches neither mutexes nor, itself, the journal. *)
LEMMA CheckSteps ==
    ASSUME QInv, 
           \/ StartCheck
           \/ DropCheck
           \/ ConfirmCheck
           \/ CheckDrains
    PROVE  QInv' /\ Stands
<1> USE AdmissionAssumption
<1> USE DEF QInv, Shape, Inside, Drained, Rest, Frozen, QuietReplacement, Pending, Stands,
            Conn, Procs, Conns, PCs, Journals, NoJournal,
            flags, locks, native, locals, disk, history
<1>1. CASE StartCheck
  BY <1>1 DEF StartCheck, EnsureOpen, Go
<1>2. CASE DropCheck
  BY <1>2 DEF DropCheck, Return, Go
<1>3. CASE ConfirmCheck
  BY <1>3 DEF ConfirmCheck, TakeWorker, Go
<1>4. CASE CheckDrains
  BY <1>4 DEF CheckDrains, Go
<1>5. QED
  BY <1>1, <1>2, <1>3, <1>4

(* The operation up to its decision: mutexes are taken once the worker is idle. *)
LEMMA DrainSteps ==
    ASSUME QInv, 
           \/ \E j \in {"export", "shutdown", "reset", "salvage"} : Begin(j)
           \/ Freeze
           \/ Thaw
           \/ Take
           \/ \E x \in Conns : Drain(x)
    PROVE  QInv' /\ Stands
<1> USE AdmissionAssumption
<1> USE DEF QInv, Shape, Inside, Drained, Rest, Frozen, QuietReplacement, Pending, Stands,
            Conn, Procs, Conns, PCs, Journals, NoJournal,
            flags, locks, native, locals, disk, history
<1>1. CASE \E j \in {"export", "shutdown", "reset", "salvage"} : Begin(j)
  <2>1. PICK j \in {"export", "shutdown", "reset", "salvage"} : Begin(j)
    BY <1>1
  <2>2. /\ pc["op"] = "idle" /\ state # "down"
        /\ pc' = [pc EXCEPT !["op"] = "freeze"]
        /\ job' = j /\ held' = [held EXCEPT !["op"] = journal']
        /\ UNCHANGED <<state, handles, guard, kind>>
        /\ note' \in {"kept", note}
    BY <2>1 DEF Begin, Go
  <2>3. j = "export" => state = "Open"
    BY <2>1 DEF Begin, EnsureOpen
  <2>4. j = "salvage" => journal.kind # "replace"
    BY <2>1 DEF Begin
  <2>5. /\ journal' \in Journals /\ (journal'.kind = "none" => journal' = NoJournal)
        /\ journal.kind = "replace" => journal' = journal
        /\ journal'.kind = "replace" => journal.kind = "replace"
    BY <2>1 DEF Begin, QuarantineMissing
  <2>6. Shape' /\ Inside' /\ Drained' /\ Rest' /\ QuietReplacement'
    BY <2>2, <2>5
  <2>7. Pending' /\ Stands
    BY <2>2, <2>3, <2>4, <2>5
  <2>8. QED
    BY <2>6, <2>7
<1>2. CASE Freeze
  BY <1>2 DEF Freeze, Go
<1>3. CASE Thaw
  BY <1>3 DEF Thaw, End, Return, Go
<1>4. CASE Take
  BY <1>4 DEF Take, TakeWorker, Go
<1>5. CASE \E x \in Conns : Drain(x)
  BY <1>5 DEF Drain, Joined, Go
<1>6. QED
  BY <1>1, <1>2, <1>3, <1>4, <1>5

(* The decision: with every mutex held, nobody is inside. *)
LEMMA CloseSteps ==
    ASSUME QInv, 
           \/ CloseDamaged
           \/ CloseBusy
           \/ Close
           \/ Restore
           \/ Open
    PROVE  QInv' /\ Stands
<1> USE AdmissionAssumption
<1> USE DEF QInv, Shape, Inside, Drained, Rest, Frozen, QuietReplacement, Pending, Stands,
            Conn, Procs, Conns, PCs, Journals, NoJournal,
            flags, locks, native, locals, disk, history
<1>1. CASE CloseDamaged
  <2>1. /\ pc["op"] = "decide" /\ handles
        /\ state' = "Damaged"
        /\ PersistQuarantine(journal, "op")
        /\ guard' = [x \in Conns |-> IF guard[x] = "op" THEN Nobody ELSE guard[x]]
    BY <1>1 DEF CloseDamaged, Checkpoints, Release
  <2>2. /\ journal.kind # "replace"
        /\ journal' \in Journals /\ (journal'.kind = "none" => journal' = NoJournal)
        /\ journal'.kind # "replace" /\ note' \in {"kept", "failed", "lost"}
    BY <2>1 DEF PersistQuarantine, QuarantineMissing
  <2>3. \A c \in Clients : pc[c] \notin {"run", "freeze"}
    BY <2>1
  <2>4. CASE Retains
    BY <1>1, <2>1, <2>2, <2>3, <2>4 DEF CloseDamaged, End, Return, Go
  <2>5. CASE ~Retains
    BY <1>1, <2>1, <2>2, <2>3, <2>5 DEF CloseDamaged, CloseHandles, Go
  <2>6. QED
    BY <2>4, <2>5
<1>2. CASE CloseBusy
  <2>1. /\ pc["op"] = "decide" /\ handles
        /\ UNCHANGED <<state, journal, note>>
        /\ guard' = [x \in Conns |-> IF guard[x] = "op" THEN Nobody ELSE guard[x]]
    BY <1>2 DEF CloseBusy, Checkpoints, Release
  <2>2. journal.kind # "replace"
    BY <2>1
  <2>3. \A c \in Clients : pc[c] \notin {"run", "freeze"}
    BY <2>1
  <2>4. CASE Retains
    BY <1>2, <2>1, <2>2, <2>3, <2>4 DEF CloseBusy, Go
  <2>5. CASE ~Retains
    BY <1>2, <2>1, <2>2, <2>3, <2>5 DEF CloseBusy, CloseHandles, Go
  <2>6. QED
    BY <2>4, <2>5
<1>3. CASE Close
  BY <1>3 DEF Close, Checkpoints, PersistQuarantine, QuarantineMissing, Release, CloseHandles, Go
<1>4. CASE Restore
  BY <1>4 DEF Restore, SpawnWorker, End, Return, Go
<1>5. CASE Open
  BY <1>5 DEF Open, End, Return, Go
<1>6. QED
  BY <1>1, <1>2, <1>3, <1>4, <1>5

(* Replacing, and what it may leave for recovery. *)
LEMMA ReplaceSteps ==
    ASSUME QInv, 
           \/ Reopen \/ ReopenDamaged
           \/ Reinstall
           \/ ReopenFails
           \/ Strand
           \/ Publish
           \/ IntentFails
           \/ Reclose
           \/ Replace
           \/ AbortSalvage
           \/ Stopped
    PROVE  QInv' /\ Stands
<1> USE AdmissionAssumption
<1> USE DEF QInv, Shape, Inside, Drained, Rest, Frozen, QuietReplacement, Pending, Stands,
            Conn, Procs, Conns, PCs, Journals, NoJournal,
            flags, locks, native, locals, disk, history
<1>1. CASE Reopen \/ ReopenDamaged
  BY <1>1 DEF Reopen, ReopenDamaged, Go
<1>2. CASE Reinstall
  BY <1>2 DEF Reinstall, Install, SpawnWorker
<1>3. CASE ReopenFails
  <2>1. /\ pc["op"] = "install" /\ state' \in {"Maintenance", "Damaged"}
        /\ pc' = [pc EXCEPT !["op"] = "idle"] /\ held' = [held EXCEPT !["op"] = NoJournal]
        /\ kind' = [kind EXCEPT !["op"] = "read"] /\ UNCHANGED <<handles, guard>>
    BY <1>3 DEF ReopenFails, OpeningFails, End, Return, Go
  <2>2. \/ UNCHANGED <<journal, note>>
        \/ PersistQuarantine(journal, "op")
    BY <1>3 DEF ReopenFails, OpeningFails
  <2>3. /\ journal' \in Journals /\ (journal'.kind = "none" => journal' = NoJournal)
        /\ journal'.kind # "replace" /\ journal.kind # "replace"
        /\ note' \in {"kept", "failed", "lost"}
    BY <2>1, <2>2 DEF PersistQuarantine, QuarantineMissing
  <2>4. Shape' /\ Inside' /\ Drained' /\ Rest'
    BY <2>1, <2>3
  <2>5. QuietReplacement' /\ Pending' /\ Stands
    BY <2>1, <2>3
  <2>6. QED
    BY <2>4, <2>5
<1>4. CASE Strand
  BY <1>4 DEF Strand, End, Return, Go
<1>5. CASE Publish
  BY <1>5 DEF Publish, Go
<1>6. CASE IntentFails
  BY <1>6 DEF IntentFails, End, Return, Go
<1>7. CASE Reclose
  BY <1>7 DEF Reclose, PersistQuarantine, QuarantineMissing, Go
<1>8. CASE Replace
  BY <1>8 DEF Replace, NewGeneration, Go
<1>9. CASE AbortSalvage
  BY <1>9 DEF AbortSalvage, End, Return, Go
<1>10. CASE Stopped
  BY <1>10 DEF Stopped, Go
<1>11. QED
  BY <1>1, <1>2, <1>3, <1>4, <1>5, <1>6, <1>7, <1>8, <1>9, <1>10

(* The process and the medium. *)
LEMMA ProcessSteps ==
    ASSUME QInv, 
           \/ Rot
           \/ Exit \/ Crash
           \/ StartQuarantined
           \/ Start
           \/ StartFails
           \/ UNCHANGED vars
    PROVE  QInv' /\ Stands
<1> USE AdmissionAssumption
<1> USE DEF QInv, Shape, Inside, Drained, Rest, Frozen, QuietReplacement, Pending, Stands,
            Conn, Procs, Conns, PCs, Journals, NoJournal,
            flags, locks, native, locals, disk, history
<1>1. CASE Rot
  BY <1>1 DEF Rot
<1>2. CASE Exit \/ Crash
  BY <1>2 DEF Exit, Crash, Down
<1>3. CASE StartQuarantined
  BY <1>3 DEF StartQuarantined
<1>4. CASE Start
  BY <1>4 DEF Start, Install, NewGeneration, SpawnWorker, Go
<1>5. CASE StartFails
  <2>1. /\ state = "down" /\ journal.kind # "quarantine"
        /\ state' \in {"Maintenance", "Damaged"}
        /\ UNCHANGED <<handles, guard, pc, kind, job, prev, held>>
    BY <1>5 DEF StartFails, OpeningFails
  <2>2. \/ journal.kind = "none" /\ (UNCHANGED <<journal, note>> \/ PersistQuarantine(journal, "op"))
        \/ journal.kind = "replace" /\ (NewGeneration \/ UNCHANGED <<journal, note>>)
    BY <1>5 DEF StartFails, OpeningFails
  <2>3. Shape' /\ Stands /\ (journal'.kind = "replace" => journal' = journal)
    BY <2>1, <2>2 DEF PersistQuarantine, QuarantineMissing, NewGeneration
  <2>4. Inside' /\ Drained' /\ Rest'
    BY <2>1
  <2>5. QuietReplacement' /\ Pending'
    BY <2>1, <2>3
  <2>6. QED
    BY <2>3, <2>4, <2>5
<1>6. CASE UNCHANGED vars
  BY <1>6 DEF vars
<1>7. QED
  BY <1>1, <1>2, <1>3, <1>4, <1>5, <1>6

(* One step of any thread keeps the inductive invariant, and the journal of *)
(* a replacement.                                                           *)
LEMMA Step == QInv /\ [Next]_vars => QInv' /\ Stands
<1> SUFFICES ASSUME QInv, [Next]_vars PROVE QInv' /\ Stands
  OBVIOUS
<1>1. ASSUME NEW c \in Clients,
             ClientStep(c) \/ \E k \in {"read", "write"} : Request(c, k)
      PROVE  QInv' /\ Stands
  BY <1>1, ClientSteps DEF ClientStep
<1>2. ASSUME NEW p \in Clients \cup {"check"}, QuarantineStep(p) PROVE QInv' /\ Stands
  BY <1>2, QuarantineSteps DEF QuarantineStep
<1>3. CASE WorkerStep
  BY <1>3, WorkerSteps DEF WorkerStep
<1>4. CASE StartCheck \/ CheckStep
  BY <1>4, CheckSteps DEF CheckStep
<1>5. CASE OpStep \/ \E j \in {"export", "shutdown", "reset", "salvage"} : Begin(j)
  BY <1>5, DrainSteps, CloseSteps, ReplaceSteps DEF OpStep
<1>6. CASE Rot \/ Exit \/ Crash \/ StartQuarantined \/ Start \/ StartFails \/ UNCHANGED vars
  BY <1>6, ProcessSteps
<1>7. QED
  BY <1>1, <1>2, <1>3, <1>4, <1>5, <1>6 DEF Next

(* A store just opened satisfies the invariant. *)
LEMMA InitQInv == Init => QInv
  BY AdmissionAssumption
     DEF Init, QInv, Shape, Inside, Drained, Rest, Frozen, QuietReplacement, Pending, Conn,
         Procs, Conns, PCs, Journals, NoJournal

(* The inductive invariant holds in every reachable state. *)
LEMMA Inductive == Spec => []QInv
  BY InitQInv, Step, PTL DEF Spec

(* Whatever clients, worker and checker are doing when an operation begins, *)
(* its files are replaced only when every connection is closed, nobody is   *)
(* inside one and the worker is gone (close_connections_inner).             *)
THEOREM ReplacedInQuiet == Spec => []QuietReplacement
<1>1. QInv => QuietReplacement
  BY DEF QInv
<1>2. QED
  BY <1>1, Inductive, PTL

(* No late quarantine, by a client, the checker, the worker without the     *)
(* gate or a close, overwrites the journal of a confirmed reset or salvage. *)
THEOREM JournalStands == Spec => ReplacementStands
<1>1. QInv /\ [Next]_vars => [journal.kind = "replace" => journal' \in {journal, NoJournal}]_vars
  BY Step DEF Stands
<1>2. QED
  BY <1>1, Inductive, PTL DEF Spec, ReplacementStands
-----------------------------------------------------------------------------
(* That known damage stays known.  Every thread but the checker finds damage *)
(* with the flag, and before a caller is told it is persisted, or the flag    *)
(* stays up as long as the process lives; the rest says why no operation on  *)
(* its way takes the flag down before that, nor opens the store because it   *)
(* read the state too early.                                                 *)

(* The operation between its first look at the state and its decision. *)
Early == {"freeze", "thaw", "take", "drain", "decide"}

Numbers ==
    /\ state \in States /\ prev \in States /\ damage \in BOOLEAN
    /\ gen \in Nat \ {0} /\ seen \in [Procs -> Nat] /\ told \subseteq Nat
    /\ \A p \in Procs : seen[p] <= gen
    /\ \A g \in told : g <= gen

(* Who works behind the gate holds it, and nobody reopens the store then. *)
Gated ==
    /\ pc["op"] \notin {"idle", "stopped"} => gate = "op"
    /\ pc["check"] = "joinworker" => gate = "check"
    /\ \A p \in Clients \cup {"check"} : pc[p] = "join" => gate = p /\ state \in Damaged
    /\ pc["op"] \in Early => prev # "down"
    /\ pc["op"] = "freeze" => state # "down"

(* When there are connections. *)
Connected ==
    /\ state = "down" => ~handles
    /\ state = "Open" => handles
    /\ pc["op"] \in {"restore", "open"} => handles
    /\ pc["op"] \in Early /\ (job = "export" \/ prev = "Open") => handles
    /\ pc["op"] \in Early /\ prev = "Maintenance" => ~handles
    /\ pc["op"] \in {"idle", "freeze"} /\ state = "Maintenance" => ~handles

(* An operation that reopens the store as it was is alone with it. *)
Alone ==
    pc["op"] \in {"restore", "open"} =>
        /\ ~damage /\ pc["worker"] \in {"wait", "idle"}
        /\ \A c \in Clients : pc[c] \notin {"run", "freeze"}

(* The flag is up as long as anybody remembers damage of this generation. *)
Flagged ==
    /\ \A p \in Clients \cup {"worker"} : seen[p] = gen => damage
    /\ state = "down" => \A p \in Procs : seen[p] = 0
    /\ pc["worker"] \in {"report", "persist", "write"} => damage
    /\ pc["worker"] = "write" /\ held["worker"].kind # "none" => journal.kind # "none"
    /\ note = "failed" => damage
    /\ state = "down" => ~damage

(* A client that froze the store and has still to tell its caller. *)
Carries(c) == pc[c] \in {"observe", "gate"} /\ seen[c] = gen

Carried ==
    \A c \in Clients : Carries(c) =>
        /\ \/ state \in Damaged
           \/ pc["op"] \in {"thaw", "take", "drain", "decide"}
           \/ journal.kind # "none" \/ note # "kept"
        /\ pc["op"] = "thaw" =>
              \/ state \in Damaged \/ prev \in Damaged \cup {"Open"}
              \/ journal.kind # "none" \/ note # "kept"

(* A quarantined generation is never about to be open without the flag. *)
Quarantined ==
    /\ journal.kind = "quarantine" =>
          /\ state = "Open" => damage
          /\ pc["op"] \notin {"restore", "open"}
          /\ pc["op"] \in Early /\ (job = "export" \/ prev = "Open") => damage
    /\ pc["op"] = "closed" /\ job = "export" => ~damage /\ journal.kind # "quarantine"
    /\ pc["op"] = "freeze" /\ job = "salvage" => state \in Damaged /\ prev \in Damaged
    /\ pc["op"] \in {"reclose", "retire"} => journal.kind = "replace"

(* What is about to be opened: nothing is known against it in this process. *)
Fresh ==
    pc["op"] = "install" =>
        /\ journal.kind = "none" /\ note # "failed"
        /\ \A p \in Clients \cup {"worker"} : seen[p] # gen

(* Whoever was told can rely on the next start, or the failure is noted. *)
Persisted == gen \in told /\ journal.kind = "none" => note # "kept"

(* All of it, beside QInv. *)
Known ==
    /\ Numbers /\ Gated /\ Connected /\ Alone /\ Flagged /\ Carried
    /\ Quarantined /\ Fresh /\ Persisted /\ ~touched

DInv == QInv /\ Known

(* Telling a caller what a thread saw keeps the numbers in their bounds. *)
LEMMA TellKeeps ==
    ASSUME Numbers, NEW p \in Procs, p # "op", Return(p), Tell(p), UNCHANGED <<state, damage, gen>>
    PROVE  Numbers'
<1>1. /\ prev' = prev /\ seen' = [seen EXCEPT ![p] = 0]
      /\ told' = told \cup ({seen[p]} \ {0})
  BY DEF Return, Tell
<1>2. seen' \in [Procs -> Nat] /\ \A q \in Procs : seen'[q] <= gen'
  BY <1>1 DEF Numbers
<1>3. told' \subseteq Nat /\ \A g \in told' : g <= gen'
  BY <1>1 DEF Numbers
<1>4. QED
  BY <1>1, <1>2, <1>3 DEF Numbers

(* A new generation is above every one that was seen or told. *)
LEMMA NewerNumbers ==
    ASSUME Numbers, gen' = gen \/ gen' = gen + 1, state' \in States, damage' \in BOOLEAN,
           UNCHANGED <<prev, seen, told>>
    PROVE  Numbers'
<1>1. gen' \in Nat \ {0} /\ gen <= gen'
  BY DEF Numbers
<1>2. \A q \in Procs : seen[q] <= gen'
  BY <1>1 DEF Numbers
<1>3. \A g \in told : g <= gen'
  BY <1>1 DEF Numbers
<1>4. QED
  BY <1>1, <1>2, <1>3 DEF Numbers

(* A client raises the flag before it drops its guard, and returns early only *)
(* when the flag is down, so what it saw is not this generation any more.   *)
LEMMA ClientsKnow ==
    ASSUME DInv, QInv', NEW c \in Clients,
           \/ \E k \in {"read", "write"} : Request(c, k)
           \/ Admit(c)
           \/ TurnAway(c)
           \/ Finish(c)
           \/ RestoreFails(c)
           \/ FindDamage(c)
           \/ FreezeDamage(c)
           \/ ObserveResult(c)
    PROVE  Known'
<1> USE AdmissionAssumption
<1> USE DEF DInv, Known, QInv, Shape, Inside, Drained, Rest, Frozen, QuietReplacement, Pending,
            Numbers, Gated, Connected, Alone, Flagged, Carries, Carried, Quarantined, Fresh, Persisted,
            Early, Conn, Procs, Conns, Journals, NoJournal, States, Damaged,
            flags, locks, native, locals, disk, history
<1>1. CASE \E k \in {"read", "write"} : Request(c, k)
  BY <1>1 DEF Request, EnsureOpen, Go
<1>2. CASE Admit(c)
  BY <1>2 DEF Admit, Admitted, EnsureOpen, Go
<1>3. CASE TurnAway(c)
  BY <1>3 DEF TurnAway, Return, Go
<1>4. CASE Finish(c)
  BY <1>4 DEF Finish, Release, Return, Go
<1>5. CASE RestoreFails(c)
  BY <1>5 DEF RestoreFails, Release, Go
<1>6. CASE FindDamage(c)
  BY <1>6 DEF FindDamage, Go
<1>7. CASE FreezeDamage(c)
  BY <1>7 DEF FreezeDamage, Release, Go
<1>8. CASE ObserveResult(c)
  <2>1. Numbers'
    <3>1. CASE damage
      BY <1>8, <3>1 DEF ObserveResult, Go
    <3>2. CASE ~damage
      BY <1>8, <3>2, TellKeeps DEF ObserveResult
    <3>3. QED
      BY <3>1, <3>2
  <2>2. Gated' /\ Connected' /\ Alone'
    BY <1>8 DEF ObserveResult, Return, Tell, Go
  <2>3. Flagged' /\ Carried'
    BY <1>8 DEF ObserveResult, Return, Tell, Go
  <2>4. Quarantined' /\ Fresh' /\ Persisted' /\ ~touched'
    BY <1>8 DEF ObserveResult, Return, Tell, Go
  <2>5. QED
    BY <2>1, <2>2, <2>3, <2>4
<1>9. QED
  BY <1>1, <1>2, <1>3, <1>4, <1>5, <1>6, <1>7, <1>8

(* A quarantine that finds the state changed has been overtaken by an       *)
(* operation that persisted the damage itself, or tried to.                 *)
LEMMA QuarantinesKnow ==
    ASSUME DInv, QInv', NEW p \in Clients \cup {"check"},
           \/ EnterQuarantine(p)
           \/ SkipQuarantine(p)
           \/ WriteQuarantine(p)
    PROVE  Known'
<1> USE AdmissionAssumption
<1> USE DEF DInv, Known, QInv, Shape, Inside, Drained, Rest, Frozen, QuietReplacement, Pending,
            Numbers, Gated, Connected, Alone, Flagged, Carries, Carried, Quarantined, Fresh, Persisted,
            Early, Conn, Procs, Conns, Journals, NoJournal, States, Damaged,
            flags, locks, native, locals, disk, history
<1>1. CASE EnterQuarantine(p)
  BY <1>1 DEF EnterQuarantine, TakeWorker, Go
<1>2. CASE SkipQuarantine(p)
  <2>1. Numbers'
    <3>1. CASE p = "check"
      <4>1. seen' = [seen EXCEPT ![p] = 0] /\ UNCHANGED <<state, damage, gen, prev, told>>
        BY <1>2, <3>1 DEF SkipQuarantine, Return
      <4>2. seen' \in [Procs -> Nat] /\ \A q \in Procs : seen'[q] <= gen'
        BY <4>1
      <4>3. QED
        BY <4>1, <4>2
    <3>2. CASE p # "check"
      BY <1>2, <3>2, TellKeeps DEF SkipQuarantine
    <3>3. QED
      BY <3>1, <3>2
  <2>2. Gated' /\ Connected' /\ Alone'
    BY <1>2 DEF SkipQuarantine, Return, Tell, Go
  <2>3. Flagged' /\ Carried'
    BY <1>2 DEF SkipQuarantine, Return, Tell, Go
  <2>4. Quarantined' /\ Fresh' /\ Persisted' /\ ~touched'
    BY <1>2 DEF SkipQuarantine, Return, Tell, Go
  <2>5. QED
    BY <2>1, <2>2, <2>3, <2>4
<1>3. CASE WriteQuarantine(p)
  <2>1. Numbers'
    <3>1. CASE UNCHANGED history
      <4>1. seen' = [seen EXCEPT ![p] = 0] /\ UNCHANGED <<state, damage, gen, prev, told>>
        BY <1>3, <3>1 DEF WriteQuarantine, Return
      <4>2. seen' \in [Procs -> Nat] /\ \A q \in Procs : seen'[q] <= gen'
        BY <4>1
      <4>3. QED
        BY <4>1, <4>2
    <3>2. CASE Tell(p)
      BY <1>3, <3>2, TellKeeps DEF WriteQuarantine
    <3>3. QED
      BY <1>3, <3>1, <3>2 DEF WriteQuarantine
  <2>2. Gated' /\ Connected' /\ Alone'
    BY <1>3 DEF WriteQuarantine, PersistQuarantine, QuarantineMissing, Return, Tell, Go
  <2>3. Flagged' /\ Carried'
    BY <1>3 DEF WriteQuarantine, PersistQuarantine, QuarantineMissing, Return, Tell, Go
  <2>4. Quarantined' /\ Fresh' /\ Persisted' /\ ~touched'
    BY <1>3 DEF WriteQuarantine, PersistQuarantine, QuarantineMissing, Return, Tell, Go
  <2>5. QED
    BY <2>1, <2>2, <2>3, <2>4
<1>4. QED
  BY <1>1, <1>2, <1>3

(* The worker persists what it found before anybody can take its flag down. *)
LEMMA WorkerKnows ==
    ASSUME DInv, QInv',
           \/ WorkerPoll
           \/ WorkerQuit
           \/ WorkerLock
           \/ WorkerFinish
           \/ WorkerDamage
           \/ WorkerReport
           \/ WorkerRead
           \/ WorkerWrite
    PROVE  Known'
<1> USE AdmissionAssumption
<1> USE DEF DInv, Known, QInv, Shape, Inside, Drained, Rest, Frozen, QuietReplacement, Pending,
            Numbers, Gated, Connected, Alone, Flagged, Carries, Carried, Quarantined, Fresh, Persisted,
            Early, Conn, Procs, Conns, Journals, NoJournal, States, Damaged,
            flags, locks, native, locals, disk, history
<1>1. CASE WorkerPoll
  BY <1>1 DEF WorkerPoll, Go
<1>2. CASE WorkerQuit
  BY <1>2 DEF WorkerQuit, Go
<1>3. CASE WorkerLock
  BY <1>3 DEF WorkerLock, Go
<1>4. CASE WorkerFinish
  BY <1>4 DEF WorkerFinish, Release, Go
<1>5. CASE WorkerDamage
  BY <1>5 DEF WorkerDamage, Release, Go
<1>6. CASE WorkerReport
  BY <1>6 DEF WorkerReport, Go
<1>7. CASE WorkerRead
  BY <1>7 DEF WorkerRead, Go
<1>8. CASE WorkerWrite
  <2>1. Numbers'
    BY <1>8, TellKeeps DEF WorkerWrite
  <2>2. Gated' /\ Connected' /\ Alone'
    BY <1>8 DEF WorkerWrite, PersistQuarantine, QuarantineMissing, Return, Tell, Go
  <2>3. Flagged' /\ Carried'
    BY <1>8 DEF WorkerWrite, PersistQuarantine, QuarantineMissing, Return, Tell, Go
  <2>4. Quarantined' /\ Fresh' /\ Persisted' /\ ~touched'
    BY <1>8 DEF WorkerWrite, PersistQuarantine, QuarantineMissing, Return, Tell, Go
  <2>5. QED
    BY <2>1, <2>2, <2>3, <2>4
<1>9. QED
  BY <1>1, <1>2, <1>3, <1>4, <1>5, <1>6, <1>7, <1>8

(* The checker tells only what it has quarantined.                          *)
LEMMA CheckKnows ==
    ASSUME DInv, QInv',
           \/ StartCheck
           \/ DropCheck
           \/ ConfirmCheck
           \/ CheckDrains
    PROVE  Known'
<1> USE AdmissionAssumption
<1> USE DEF DInv, Known, QInv, Shape, Inside, Drained, Rest, Frozen, QuietReplacement, Pending,
            Numbers, Gated, Connected, Alone, Flagged, Carries, Carried, Quarantined, Fresh, Persisted,
            Early, Conn, Procs, Conns, Journals, NoJournal, States, Damaged,
            flags, locks, native, locals, disk, history
<1>1. CASE StartCheck
  BY <1>1 DEF StartCheck, EnsureOpen, Go
<1>2. CASE DropCheck
  BY <1>2 DEF DropCheck, Return, Go
<1>3. CASE ConfirmCheck
  BY <1>3 DEF ConfirmCheck, TakeWorker, Go
<1>4. CASE CheckDrains
  BY <1>4 DEF CheckDrains, Go
<1>5. QED
  BY <1>1, <1>2, <1>3, <1>4

(* An operation on its way to a decision still has the flag to look at, and *)
(* one that gives up puts back a state that the flag agrees with.           *)
LEMMA DrainKnows ==
    ASSUME DInv, QInv',
           \/ Freeze
           \/ Thaw
           \/ Take
           \/ \E x \in Conns : Drain(x)
    PROVE  Known'
<1> USE AdmissionAssumption
<1> USE DEF DInv, Known, QInv, Shape, Inside, Drained, Rest, Frozen, QuietReplacement, Pending,
            Numbers, Gated, Connected, Alone, Flagged, Carries, Carried, Quarantined, Fresh, Persisted,
            Early, Conn, Procs, Conns, Journals, NoJournal, States, Damaged,
            flags, locks, native, locals, disk, history
<1>1. CASE Freeze
  BY <1>1 DEF Freeze, Go
<1>2. CASE Thaw
  BY <1>2 DEF Thaw, End, Return, Go
<1>3. CASE Take
  BY <1>3 DEF Take, TakeWorker, Go
<1>4. CASE \E x \in Conns : Drain(x)
  BY <1>4 DEF Drain, Joined, Go
<1>5. QED
  BY <1>1, <1>2, <1>3, <1>4

(* An operation begins alone behind the gate, with the state it found.      *)
LEMMA BeginKnows ==
    ASSUME DInv, QInv', NEW j \in {"export", "shutdown", "reset", "salvage"},
           Begin(j)
    PROVE  Known'
<1> USE AdmissionAssumption
<1> USE DEF DInv, Known, QInv, Shape, Inside, Drained, Rest, Frozen, QuietReplacement, Pending,
            Numbers, Gated, Connected, Alone, Flagged, Carries, Carried, Quarantined, Fresh, Persisted,
            Early, Conn, Procs, Conns, Journals, NoJournal, States, Damaged,
            flags, locks, native, locals, disk, history
<1>1. CASE Begin(j)
  <2>1. /\ pc["op"] = "idle" /\ state # "down" /\ gate' = "op"
        /\ pc' = [pc EXCEPT !["op"] = "freeze"]
        /\ job' = j /\ prev' = state /\ held' = [held EXCEPT !["op"] = journal']
        /\ UNCHANGED <<state, damage, handles, kind, seen, gen, told, touched>>
        /\ note' \in {"kept", note}
    BY <1>1 DEF Begin, Go
  <2>2. j = "export" => state = "Open"
    BY <1>1 DEF Begin, EnsureOpen
  <2>3. /\ \/ journal' = journal /\ note' = note
           \/ j = "salvage" /\ journal.kind = "none" /\ journal'.kind = "quarantine"
        /\ j = "salvage" => state \in Damaged
    <3>1. CASE j = "salvage"
      BY <1>1, <3>1 DEF Begin, QuarantineMissing
    <3>2. CASE j # "salvage"
      BY <1>1, <3>2 DEF Begin
    <3>3. QED
      BY <3>1, <3>2
  <2>4. Numbers' /\ Gated'
    BY <1>1, <2>1 DEF Begin
  <2>5. Connected' /\ Alone'
    BY <2>1, <2>2
  <2>6. Flagged' /\ Carried'
    BY <2>1, <2>3
  <2>7. Quarantined'
    BY <2>1, <2>2, <2>3
  <2>8. Fresh' /\ Persisted' /\ ~touched'
    BY <2>1, <2>3
  <2>9. QED
    BY <2>4, <2>5, <2>6, <2>7, <2>8
<1>2. QED
  BY <1>1

(* The decision: known damage is persisted, and reopens nothing.            *)
LEMMA CloseKnows ==
    ASSUME DInv, QInv',
           \/ CloseDamaged
           \/ CloseBusy
           \/ Close
           \/ Restore
           \/ Open
    PROVE  Known'
<1> USE AdmissionAssumption
<1> USE DEF DInv, Known, QInv, Shape, Inside, Drained, Rest, Frozen, QuietReplacement, Pending,
            Numbers, Gated, Connected, Alone, Flagged, Carries, Carried, Quarantined, Fresh, Persisted,
            Early, Conn, Procs, Conns, Journals, NoJournal, States, Damaged,
            flags, locks, native, locals, disk, history
<1>1. CASE CloseDamaged
  <2>1. /\ pc["op"] = "decide" /\ handles /\ gate = "op"
        /\ damage' = TRUE /\ state' = "Damaged"
        /\ told' = told \cup {gen} /\ UNCHANGED <<gen, touched>>
        /\ PersistQuarantine(journal, "op")
    BY <1>1 DEF CloseDamaged, Checkpoints
  <2>2. /\ journal'.kind # "replace"
        /\ journal'.kind = "none" => journal.kind = "none" /\ note' = "failed"
    BY <2>1 DEF PersistQuarantine, QuarantineMissing
  <2>3. CASE Retains
    <3>1. /\ handles' /\ gate' = Nobody
          /\ pc' = [pc EXCEPT !["op"] = "idle"] /\ prev' = "Maintenance" /\ job' = "none"
          /\ seen' = [seen EXCEPT !["op"] = 0] /\ held' = [held EXCEPT !["op"] = NoJournal]
      BY <1>1, <2>1, <2>3 DEF CloseDamaged, End, Return, Go
    <3>2. Numbers'
      BY <2>1, <3>1
    <3>3. Gated' /\ Connected' /\ Alone'
      BY <2>1, <3>1
    <3>4. Flagged' /\ Carried'
      BY <2>1, <2>2, <3>1
    <3>5. Quarantined' /\ Fresh' /\ Persisted' /\ ~touched'
      BY <2>1, <2>2, <3>1
    <3>6. QED
      BY <3>2, <3>3, <3>4, <3>5
  <2>4. CASE ~Retains
    <3>1. /\ ~handles' /\ pc' = [pc EXCEPT !["op"] = "closed"]
          /\ UNCHANGED <<gate, kind, job, prev, seen, held>>
      BY <1>1, <2>4 DEF CloseDamaged, CloseHandles, Go
    <3>2. Numbers'
      BY <2>1, <3>1
    <3>3. Gated' /\ Connected' /\ Alone'
      BY <2>1, <3>1
    <3>4. Flagged' /\ Carried'
      BY <2>1, <2>2, <3>1
    <3>5. job # "export"
      BY <2>4 DEF Retains
    <3>6. Quarantined' /\ Fresh' /\ Persisted' /\ ~touched'
      BY <2>1, <2>2, <3>1, <3>5
    <3>7. QED
      BY <3>2, <3>3, <3>4, <3>6
  <2>5. QED
    BY <2>3, <2>4
<1>2. CASE CloseBusy
  <2>1. /\ pc["op"] = "decide" /\ handles /\ ~damage
        /\ UNCHANGED <<state, damage, gate, kind, job, prev, seen, held, journal, note, gen, told, touched>>
    BY <1>2 DEF CloseBusy, Checkpoints, CloseHandles
  <2>2. pc["worker"] = "idle" /\ \A c \in Clients : pc[c] \notin {"run", "freeze"}
    BY <2>1
  <2>3. CASE Retains
    <3>1. /\ handles' = handles /\ pc' = [pc EXCEPT !["op"] = "restore"]
      BY <1>2, <2>3 DEF CloseBusy, Go
    <3>2. Numbers' /\ Flagged' /\ Carried' /\ Fresh' /\ Persisted' /\ ~touched'
      BY <2>1, <3>1
    <3>3. Gated' /\ Connected' /\ Alone'
      BY <2>1, <2>2, <3>1
    <3>4. Quarantined'
      BY <2>1, <2>3, <3>1 DEF Retains
    <3>5. QED
      BY <3>2, <3>3, <3>4
  <2>4. CASE ~Retains
    <3>1. ~handles' /\ pc' = [pc EXCEPT !["op"] = "closed"] /\ job # "export"
      BY <1>2, <2>4 DEF CloseBusy, CloseHandles, Go, Retains
    <3>2. Numbers' /\ Flagged' /\ Carried' /\ Fresh' /\ Persisted' /\ ~touched'
      BY <2>1, <3>1
    <3>3. Gated' /\ Connected' /\ Alone'
      BY <2>1, <2>2, <3>1
    <3>4. Quarantined'
      BY <2>1, <3>1
    <3>5. QED
      BY <3>2, <3>3, <3>4
  <2>5. QED
    BY <2>3, <2>4
<1>3. CASE Close
  <2>1. /\ pc["op"] = "decide" /\ ~(Checkpoints /\ damage)
        /\ ~handles' /\ pc' = [pc EXCEPT !["op"] = "closed"]
        /\ UNCHANGED <<state, damage, gate, kind, job, prev, seen, held, gen, told>>
    BY <1>3 DEF Close, CloseHandles, Go
  <2>2. /\ ~damage => UNCHANGED <<journal, note>>
        /\ damage /\ journal'.kind = "none" => note' = "failed"
        /\ journal.kind = "none" \/ UNCHANGED <<journal, note>>
        /\ note' = "failed" => damage
        /\ note' = note \/ journal'.kind = "quarantine" \/ note' = "failed"
    BY <1>3 DEF Close, PersistQuarantine, QuarantineMissing
  <2>3. pc["worker"] = "idle" /\ \A c \in Clients : pc[c] \notin {"run", "freeze"}
    BY <2>1
  <2>4. Checkpoints => ~KnownDamaged
    <3>1. SUFFICES ASSUME Checkpoints, ~damage PROVE ~KnownDamaged
      BY <2>1
    <3>2. handles /\ (job = "export" \/ prev = "Open")
      BY <2>1, <3>1 DEF Checkpoints
    <3>3. journal.kind = "none"
      BY <2>1, <3>1, <3>2
    <3>4. QED
      BY <3>1, <3>3 DEF KnownDamaged
  <2>5. ~touched'
    BY <1>3, <2>4 DEF Close
  <2>6. job = "export" => ~damage /\ journal.kind = "none"
    BY <2>1 DEF Checkpoints
  <2>7. Numbers' /\ Gated' /\ Connected' /\ Alone'
    BY <2>1, <2>3
  <2>8. Flagged' /\ Carried'
    BY <2>1, <2>2, <2>3
  <2>9. Quarantined' /\ Fresh' /\ Persisted'
    BY <2>1, <2>2, <2>6
  <2>10. QED
    BY <2>5, <2>7, <2>8, <2>9
<1>4. CASE Restore
  BY <1>4 DEF Restore, SpawnWorker, End, Return, Go
<1>5. CASE Open
  BY <1>5 DEF Open, End, Return, Go
<1>6. QED
  BY <1>1, <1>2, <1>3, <1>4, <1>5

(* The flag goes down with an export that went ahead without it, or with a  *)
(* new generation that nobody has seen yet; an opening that fails leaves    *)
(* the store closed.                                                        *)
LEMMA ReplaceKnows ==
    ASSUME DInv, QInv',
           \/ Reopen \/ ReopenDamaged
           \/ Reinstall
           \/ ReopenFails
           \/ Strand
           \/ Publish
           \/ IntentFails
           \/ Reclose
           \/ Replace
           \/ AbortSalvage
           \/ Stopped
    PROVE  Known'
<1> USE AdmissionAssumption
<1> USE DEF DInv, Known, QInv, Shape, Inside, Drained, Rest, Frozen, QuietReplacement, Pending,
            Numbers, Gated, Connected, Alone, Flagged, Carries, Carried, Quarantined, Fresh, Persisted,
            Early, Conn, Procs, Conns, Journals, NoJournal, States, Damaged,
            flags, locks, native, locals, disk, history
<1>1. CASE Reopen \/ ReopenDamaged
  <2>1. /\ pc["op"] = "closed" /\ job = "export"
        /\ pc' = [pc EXCEPT !["op"] = "install"]
        /\ UNCHANGED <<state, damage, gate, handles, kind, job, prev, seen, held, journal, note>>
        /\ UNCHANGED <<gen, told, touched>>
    BY <1>1 DEF Reopen, ReopenDamaged, Go
  <2>2. ~damage /\ journal.kind = "none"
    BY <2>1
  <2>3. Numbers' /\ Gated' /\ Connected' /\ Alone'
    BY <2>1
  <2>4. Flagged' /\ Carried' /\ Quarantined'
    BY <2>1
  <2>5. Fresh' /\ Persisted' /\ ~touched'
    BY <2>1, <2>2
  <2>6. QED
    BY <2>3, <2>4, <2>5
<1>2. CASE Reinstall
  BY <1>2 DEF Reinstall, Install, SpawnWorker
<1>3. CASE ReopenFails
  <2>1. /\ pc["op"] = "install" /\ gate' = Nobody /\ state' \in {"Maintenance", "Damaged"}
        /\ pc' = [pc EXCEPT !["op"] = "idle"] /\ prev' = "Maintenance" /\ job' = "none"
        /\ seen' = [seen EXCEPT !["op"] = 0] /\ held' = [held EXCEPT !["op"] = NoJournal]
        /\ UNCHANGED <<handles, gen, told, touched>>
    BY <1>3 DEF ReopenFails, OpeningFails, End, Return, Go
  <2>2. /\ damage' \in BOOLEAN
        /\ \/ UNCHANGED <<journal, note>>
           \/ damage' /\ journal'.kind = "quarantine" /\ note' = "kept"
           \/ damage' /\ journal' = journal /\ note' = "failed"
    <3>1. journal = NoJournal
      BY <2>1
    <3>2. CASE damage' = FALSE /\ UNCHANGED <<journal, note>>
      BY <3>2
    <3>3. CASE damage' = TRUE /\ PersistQuarantine(journal, "op")
      BY <3>1, <3>3 DEF PersistQuarantine, QuarantineMissing
    <3>4. QED
      BY <1>3, <3>2, <3>3 DEF ReopenFails, OpeningFails
  <2>3. Numbers'
    BY <2>1, <2>2
  <2>4. Gated' /\ Connected' /\ Alone'
    BY <2>1
  <2>5. Flagged' /\ Carried'
    BY <2>1, <2>2
  <2>6. Quarantined' /\ Fresh' /\ Persisted' /\ ~touched'
    BY <2>1, <2>2
  <2>7. QED
    BY <2>3, <2>4, <2>5, <2>6
<1>4. CASE Strand
  BY <1>4 DEF Strand, End, Return, Go
<1>5. CASE Publish
  BY <1>5 DEF Publish, Go
<1>6. CASE IntentFails
  BY <1>6 DEF IntentFails, End, Return, Go
<1>7. CASE Reclose
  BY <1>7 DEF Reclose, PersistQuarantine, QuarantineMissing, Go
<1>8. CASE Replace
  <2>1. /\ gen' = gen + 1 /\ journal' = NoJournal /\ note' = "kept"
        /\ pc' = [pc EXCEPT !["op"] = "install"]
        /\ pc["op"] \in {"retire", "closed"}
        /\ UNCHANGED <<state, damage, gate, handles, kind, job, prev, seen, held, told, touched>>
    BY <1>8 DEF Replace, NewGeneration, Go
  <2>2. Numbers'
    BY <2>1, NewerNumbers
  <2>3. gen' \notin told /\ \A p \in Procs : seen[p] # gen'
    BY <2>1
  <2>4. Gated' /\ Connected' /\ Alone'
    BY <2>1
  <2>5. Flagged' /\ Carried'
    BY <2>1, <2>3
  <2>6. Quarantined' /\ Fresh' /\ Persisted' /\ ~touched'
    BY <2>1, <2>3
  <2>7. QED
    BY <2>2, <2>4, <2>5, <2>6
<1>9. CASE AbortSalvage
  BY <1>9 DEF AbortSalvage, End, Return, Go
<1>10. CASE Stopped
  BY <1>10 DEF Stopped, Go
<1>11. QED
  BY <1>1, <1>2, <1>3, <1>4, <1>5, <1>6, <1>7, <1>8, <1>9, <1>10

(* A new process knows what the journal says.                               *)
LEMMA ProcessKnows ==
    ASSUME DInv, QInv',
           \/ Rot
           \/ Exit \/ Crash
           \/ StartQuarantined
           \/ Start
           \/ StartFails
           \/ UNCHANGED vars
    PROVE  Known'
<1> USE AdmissionAssumption
<1> USE DEF DInv, Known, QInv, Shape, Inside, Drained, Rest, Frozen, QuietReplacement, Pending,
            Numbers, Gated, Connected, Alone, Flagged, Carries, Carried, Quarantined, Fresh, Persisted,
            Early, Conn, Procs, Conns, Journals, NoJournal, States, Damaged,
            flags, locks, native, locals, disk, history
<1>1. CASE Rot
  BY <1>1 DEF Rot
<1>2. CASE Exit \/ Crash
  <2>1. Numbers'
    <3>1. /\ state' = "down" /\ damage' = FALSE /\ prev' = "Maintenance"
          /\ seen' = [q \in Procs |-> 0] /\ UNCHANGED <<gen, told>>
      BY <1>2 DEF Exit, Crash, Down
    <3>2. \A q \in Procs : seen'[q] <= gen'
      BY <3>1
    <3>3. QED
      BY <3>1, <3>2
  <2>2. Gated' /\ Connected' /\ Alone'
    BY <1>2 DEF Exit, Crash, Down
  <2>3. Flagged' /\ Carried'
    BY <1>2 DEF Exit, Crash, Down
  <2>4. Quarantined' /\ Fresh' /\ Persisted' /\ ~touched'
    BY <1>2 DEF Exit, Crash, Down
  <2>5. QED
    BY <2>1, <2>2, <2>3, <2>4
<1>3. CASE StartQuarantined
  BY <1>3 DEF StartQuarantined
<1>4. CASE Start
  <2>1. /\ state = "down" /\ state' = "Open" /\ damage' = FALSE /\ handles' = TRUE
        /\ pc' = [pc EXCEPT !["worker"] = "wait"]
        /\ UNCHANGED <<gate, job, prev, seen, held, told, touched>>
    BY <1>4 DEF Start, Install, Go
  <2>2. /\ \/ UNCHANGED <<gen, journal, note>>
           \/ gen' = gen + 1 /\ journal' = NoJournal /\ note' = "kept"
        /\ journal'.kind = "none"
    BY <1>4 DEF Start, NewGeneration
  <2>3. Numbers' /\ (gen' # gen => gen' \notin told)
    <3>1. Numbers'
      BY <2>1, <2>2, NewerNumbers
    <3>2. gen' # gen => gen' \notin told
      BY <2>2
    <3>3. QED
      BY <3>1, <3>2
  <2>4. Gated' /\ Connected' /\ Alone'
    BY <2>1
  <2>5. Flagged' /\ Carried'
    BY <2>1, <2>2
  <2>6. Quarantined' /\ Fresh' /\ Persisted' /\ ~touched'
    BY <2>1, <2>2, <2>3
  <2>7. QED
    BY <2>3, <2>4, <2>5, <2>6
<1>5. CASE StartFails
  <2>1. /\ state = "down" /\ state' \in {"Maintenance", "Damaged"}
        /\ UNCHANGED <<handles, pc, gate, job, prev, seen, held, told, touched>>
    BY <1>5 DEF StartFails, OpeningFails
  <2>2. /\ damage' \in BOOLEAN
        /\ \/ UNCHANGED <<gen, journal, note>>
           \/ gen' = gen + 1 /\ journal' = NoJournal /\ note' = "kept"
           \/ gen' = gen /\ damage' /\ journal'.kind = "quarantine" /\ note' = "kept"
           \/ gen' = gen /\ damage' /\ journal' = journal /\ note' = "failed"
    <3>1. CASE journal.kind = "none"
      <4>1. journal = NoJournal
        BY <3>1
      <4>2. CASE damage' = FALSE /\ UNCHANGED <<journal, note>>
        BY <1>5, <3>1, <4>2 DEF StartFails, OpeningFails
      <4>3. CASE damage' = TRUE /\ PersistQuarantine(journal, "op")
        <5>1. gen' = gen
          BY <1>5, <3>1 DEF StartFails, OpeningFails
        <5>2. QED
          BY <4>1, <4>3, <5>1 DEF PersistQuarantine, QuarantineMissing
      <4>4. QED
        BY <1>5, <3>1, <4>2, <4>3 DEF StartFails, OpeningFails
    <3>2. CASE journal.kind # "none"
      BY <1>5, <3>2 DEF StartFails, NewGeneration
    <3>3. QED
      BY <3>1, <3>2
  <2>3. Numbers' /\ (gen' # gen => gen' \notin told)
    <3>1. Numbers'
      BY <2>1, <2>2, NewerNumbers
    <3>2. gen' # gen => gen' \notin told
      BY <2>2
    <3>3. QED
      BY <3>1, <3>2
  <2>4. Gated' /\ Connected' /\ Alone'
    BY <2>1
  <2>5. Flagged' /\ Carried'
    BY <2>1, <2>2
  <2>6. Quarantined' /\ Fresh' /\ Persisted' /\ ~touched'
    BY <2>1, <2>2, <2>3
  <2>7. QED
    BY <2>3, <2>4, <2>5, <2>6
<1>6. CASE UNCHANGED vars
  BY <1>6 DEF vars
<1>7. QED
  BY <1>1, <1>2, <1>3, <1>4, <1>5, <1>6

(* One step of any thread keeps known damage known. *)
LEMMA KnownStep == DInv /\ [Next]_vars => DInv'
<1> SUFFICES ASSUME DInv, [Next]_vars PROVE DInv'
  OBVIOUS
<1>1. QInv'
  BY Step DEF DInv
<1> SUFFICES Known'
  BY <1>1 DEF DInv
<1>2. ASSUME NEW c \in Clients,
             ClientStep(c) \/ \E k \in {"read", "write"} : Request(c, k)
      PROVE  Known'
  BY <1>1, <1>2, ClientsKnow DEF ClientStep
<1>3. ASSUME NEW p \in Clients \cup {"check"}, QuarantineStep(p) PROVE Known'
  BY <1>1, <1>3, QuarantinesKnow DEF QuarantineStep
<1>4. CASE WorkerStep
  BY <1>1, <1>4, WorkerKnows DEF WorkerStep
<1>5. CASE StartCheck \/ CheckStep
  BY <1>1, <1>5, CheckKnows DEF CheckStep
<1>6. CASE OpStep \/ \E j \in {"export", "shutdown", "reset", "salvage"} : Begin(j)
  BY <1>1, <1>6, BeginKnows, DrainKnows, CloseKnows, ReplaceKnows DEF OpStep
<1>7. CASE Rot \/ Exit \/ Crash \/ StartQuarantined \/ Start \/ StartFails \/ UNCHANGED vars
  BY <1>1, <1>7, ProcessKnows
<1>8. QED
  BY <1>2, <1>3, <1>4, <1>5, <1>6, <1>7 DEF Next

(* A store just opened knows of no damage. *)
LEMMA InitDInv == Init => DInv
<1> SUFFICES ASSUME Init PROVE Known
  BY InitQInv DEF DInv
<1>1. Numbers
  <2>1. seen = [p \in Procs |-> 0] /\ gen = 1 /\ told = {}
    BY DEF Init
  <2>2. seen \in [Procs -> Nat] /\ \A p \in Procs : seen[p] <= gen
    BY <2>1
  <2>3. state \in States /\ prev \in States /\ damage \in BOOLEAN
    BY DEF Init, States
  <2>4. QED
    BY <2>1, <2>2, <2>3 DEF Numbers
<1>2. Gated /\ Connected /\ Alone
  BY AdmissionAssumption DEF Init, Gated, Connected, Alone, Early, Damaged, Procs
<1>3. Flagged /\ Carried /\ Quarantined /\ Fresh /\ Persisted /\ ~touched
  BY AdmissionAssumption
     DEF Init, Flagged, Carries, Carried, Quarantined, Fresh, Persisted, Early, Damaged, Procs, NoJournal
<1>4. QED
  BY <1>1, <1>2, <1>3 DEF Known

(* The strengthened invariant holds in every reachable state. *)
LEMMA KnownAlways == Spec => []DInv
  BY InitDInv, KnownStep, PTL DEF Spec

(* Once a client, the worker, the checker or a close told its caller that   *)
(* the installed generation is damaged, nobody is admitted to it any more,  *)
(* in this process or a later one, however the quarantine races with        *)
(* exports, resets, salvages, shutdowns and crashes and whichever of its    *)
(* writes fail, as long as one of them succeeded or the process that knows  *)
(* is alive.                                                                *)
THEOREM DamageStands == Spec => []DamageSticks
<1>1. DInv => DamageSticks
  BY DEF DInv, Known, QInv, Shape, Journals, Pending, Flagged, Quarantined, Persisted,
         DamageSticks, EnsureOpen
<1>2. QED
  BY <1>1, KnownAlways, PTL

(* No close checkpoints a generation that is quarantined, or that was       *)
(* reported as damaged unless the report is lost with its process           *)
(* (checkpoint_before_close).                                               *)
THEOREM SourceIsLeftAlone == Spec => []SourceUntouched
<1>1. DInv => SourceUntouched
  BY DEF DInv, Known, SourceUntouched
<1>2. QED
  BY <1>1, KnownAlways, PTL
=============================================================================
