------------------------- MODULE AttachmentsProofs -------------------------
(* A pinned attachment keeps its file, every file has a row that charges it, *)
(* and a cancelled upload stays cancelled: for any number of operations,     *)
(* requests, rows and faults.                                                *)
EXTENDS Attachments, FiniteSetTheorems, TLAPS

(* Types, without the account's limit (see Limits).                          *)
Typed ==
    /\ task \in {"active", "deleted", "gone"}
    /\ rows \in [Op -> Row \cup {None}] /\ born \in 0..MaxRows
    /\ disk \in [Id -> SUBSET {"part", "file"}] /\ synced \in [Id -> SUBSET {"part", "file"}]
    /\ held \in [Op -> Thread \cup {None}]
    /\ th \in [Thread -> Running \cup {Idle}]
    /\ now \in 0..MaxTime

Uploading == {"open", "write", "publish", "sync", "finish"}
Sweeping == {"clean", "unlinked", "drop"}
Owning == Uploading \cup Sweeping \cup {"bind"}

(* Who works on an operation has its lease; from the row's transaction on,   *)
(* the row stays what the holder read, because only a holder removes rows.   *)
(* The rest is how far the holder has come with the file.                    *)
OkThread(t) ==
    LET o == th[t].op
        i == th[t].id
    IN
    /\ th[t].at \in Owning \cup {"begin"} => held[o] = t
    /\ th[t].at \in Owning => Exists(o) /\ rows[o].id = i
    /\ th[t].at \in Uploading => rows[o].state # "ready" /\ rows[o].size = 1
    /\ th[t].at \in {"sync", "finish", "bind"} => "file" \in disk[i]
    /\ th[t].at = "finish" => "file" \in synced[i]
    /\ th[t].at \in Sweeping => IF th[t].deleting THEN task # "active" ELSE ~rows[o].bound
    /\ th[t].at \in {"unlinked", "drop"} => disk[i] = {}
    /\ th[t].at = "drop" => synced[i] = {}
Threads == \A t \in Thread : OkThread(t)

(* Public ids are drawn once.                                                *)
Distinct ==
    /\ \A o \in Op : Exists(o) => rows[o].id <= born
    /\ \A o, p \in Op : Exists(o) /\ Exists(p) /\ rows[o].id = rows[p].id => o = p

(* What is bound is ready, and a file of a ready row is durable, although no *)
(* transaction says so; an upload has its bytes charged.                     *)
RowsOk == \A o \in Op : Exists(o) =>
    /\ rows[o].state = "uploading" => rows[o].size = 1
    /\ rows[o].bound => rows[o].state = "ready"
    /\ rows[o].state = "ready" /\ "file" \in disk[rows[o].id] => "file" \in synced[rows[o].id]

IInv == Typed /\ Threads /\ Distinct /\ RowsOk /\ BoundHasFile /\ FilesAreCharged

USE AttachmentsAssumption DEF Thread, Id

LEMMA InitInv == Init => IInv
  BY DEF Init, IInv, Typed, Threads, OkThread, Distinct, RowsOk, BoundHasFile, FilesAreCharged,
         Idle, Exists, Owning, Uploading, Sweeping

(* A thread that works on something knows which operation and which row.     *)
LEMMA Working == ASSUME Typed, NEW t \in Thread, th[t].at # "idle"
                 PROVE  th[t] \in Running /\ th[t].op \in Op /\ th[t].id \in 0..MaxRows
                        /\ th[t].deleting \in BOOLEAN
  <1>1. th[t] \in Running BY DEF Typed, Idle
  <1> QED BY <1>1 DEF Running

LEMMA OwnedRow == ASSUME IInv, NEW t \in Thread, th[t].at \in Owning
                  PROVE  /\ th[t].op \in Op /\ Exists(th[t].op)
                         /\ rows[th[t].op] \in Row /\ rows[th[t].op].id = th[t].id
                         /\ th[t].id \in Id
  <1>1. th[t].at # "idle" BY DEF Owning, Uploading, Sweeping
  <1>2. th[t].op \in Op BY <1>1, Working DEF IInv
  <1>3. rows[th[t].op] \in Row /\ rows[th[t].op].id = th[t].id
        BY <1>2 DEF IInv, Threads, OkThread, Exists, Typed
  <1> QED BY <1>2, <1>3 DEF Row, IInv, Threads, OkThread

(* Two threads never have the same operation leased, nor own the same row.   *)
LEMMA Apart == ASSUME IInv, NEW t \in Thread, NEW u \in Thread, t # u,
                      th[t].at \in Owning \cup {"begin"}, th[u].at \in Owning \cup {"begin"}
               PROVE  /\ th[t].op # th[u].op
                      /\ th[t].at \in Owning /\ th[u].at \in Owning => th[t].id # th[u].id
  <1>1. th[t].op # th[u].op BY DEF IInv, Threads, OkThread
  <1>2. ASSUME th[t].at \in Owning, th[u].at \in Owning PROVE th[t].id # th[u].id
        BY <1>1, <1>2, OwnedRow DEF IInv, Distinct
  <1> QED BY <1>1, <1>2

(* What another thread's step must leave alone.                              *)
Left(u) ==
    LET o == th[u].op
        i == th[u].id
    IN
    /\ th'[u] = th[u] /\ (task' = "active" => task = "active")
    /\ th[u].at \in Owning \cup {"begin"} => held'[o] = held[o]
    /\ th[u].at \in Owning => /\ rows'[o] # None /\ rows'[o].id = rows[o].id
                              /\ rows'[o].size = rows[o].size /\ rows'[o].bound = rows[o].bound
                              /\ (rows'[o].state = "ready" => rows[o].state = "ready")
                              /\ disk'[i] = disk[i] /\ synced'[i] = synced[i]

LEMMA Frame == ASSUME NEW u \in Thread, OkThread(u), Left(u) PROVE OkThread(u)'
  <1>1. (th[u].at \in Owning \cup {"begin"} => held[th[u].op] = u)'
        BY DEF OkThread, Left
  <1>2. CASE th[u].at \in Owning BY <1>1, <1>2 DEF OkThread, Left, Exists, Owning, Uploading, Sweeping
  <1>3. CASE th[u].at \notin Owning BY <1>1, <1>3 DEF OkThread, Left, Exists, Owning, Uploading, Sweeping
  <1> QED BY <1>2, <1>3

(* The rows and files are as they were.                                      *)
Same == /\ task' = task /\ rows' = rows /\ born' = born
        /\ disk' = disk /\ synced' = synced /\ now' = now

LEMMA Untouched == ASSUME IInv, Same
                   PROVE  (Distinct /\ RowsOk /\ BoundHasFile /\ FilesAreCharged)'
  BY DEF IInv, Same, Distinct, RowsOk, BoundHasFile, FilesAreCharged, Exists

(* Returning from a call takes a lease from nobody else.                     *)
LEMMA LeaveFrame ==
    ASSUME IInv, NEW t \in Thread, Leave(t)
    PROVE  /\ OkThread(t)'
           /\ th' \in [Thread -> Running \cup {Idle}] /\ held' \in [Op -> Thread \cup {None}]
           /\ \A u \in Thread : u # t =>
                 th'[u] = th[u] /\ (th[u].at \in Owning \cup {"begin"} => held'[th[u].op] = held[th[u].op])
  <1>1. th' = [th EXCEPT ![t] = Idle] /\ held' = [o \in Op |-> IF held[o] = t THEN None ELSE held[o]]
        BY DEF Leave
  <1>2. th'[t] = Idle BY <1>1 DEF IInv, Typed
  <1>3. OkThread(t)' BY <1>2 DEF OkThread, Idle, Owning, Uploading, Sweeping
  <1>4. th' \in [Thread -> Running \cup {Idle}] /\ held' \in [Op -> Thread \cup {None}]
        BY <1>1 DEF IInv, Typed
  <1>5. ASSUME NEW u \in Thread, u # t
        PROVE  th'[u] = th[u] /\ (th[u].at \in Owning \cup {"begin"} => held'[th[u].op] = held[th[u].op])
    <2>1. th[u].at \in Owning \cup {"begin"} => th[u].op \in Op /\ held[th[u].op] = u
          BY Working DEF IInv, Threads, OkThread, Owning, Uploading, Sweeping
    <2> QED BY <1>1, <1>5, <2>1 DEF IInv, Typed
  <1> QED BY <1>3, <1>4, <1>5

LEMMA LeaveKeeps == ASSUME IInv, NEW t \in Thread, Leave(t), Same PROVE IInv'
  <1>1. Typed' BY LeaveFrame DEF IInv, Typed, Same
  <1>2. ASSUME NEW u \in Thread, u # t PROVE OkThread(u)'
    <2>1. th[u].at \in Owning => rows[th[u].op] # None BY OwnedRow DEF Exists
    <2>2. Left(u) BY <1>2, <2>1, LeaveFrame DEF Left, Same
    <2> QED BY <2>2, Frame DEF IInv, Threads
  <1>3. Threads' BY <1>2, LeaveFrame DEF Threads
  <1> QED BY <1>1, <1>3, Untouched DEF IInv

LEMMA Numbers == {MaxRows, MaxTime, Ttl} \subseteq Nat
  OBVIOUS

(* A new row takes a new id.                                                 *)
RowAdded(o) ==
    /\ rows[o] = None /\ born' = born + 1 /\ task' = task /\ disk' = disk /\ synced' = synced
    /\ rows'[o].id = born + 1 /\ ~rows'[o].bound /\ rows'[o].state # "ready"
    /\ (rows'[o].state = "uploading" => rows'[o].size = 1)
    /\ \A p \in Op \ {o} : rows'[p] = rows[p]

LEMMA AddedRow == ASSUME IInv, NEW o \in Op, RowAdded(o)
                  PROVE  (Distinct /\ RowsOk /\ BoundHasFile /\ FilesAreCharged)'
  <1> USE DEF IInv, Typed, RowAdded, Exists
  <1>0. \A p \in Op : rows[p] # None => rows[p] \in Row /\ rows[p].id \in Id
        BY DEF Row
  <1>1. Distinct'
    <2>1. \A p \in Op \ {o} : rows'[p] # None => rows'[p].id <= born /\ rows'[p].id \in Nat
          BY <1>0 DEF Distinct
    <2>2. \A p \in Op : rows'[p] # None => rows'[p].id <= born'
          BY <2>1, Numbers
    <2>3. \A p, q \in Op \ {o} : rows'[p] # None /\ rows'[q] # None /\ rows'[p].id = rows'[q].id => p = q
          BY DEF Distinct
    <2>4. \A p \in Op \ {o} : rows'[p] # None => rows'[p].id # rows'[o].id
          BY <2>1
    <2> QED BY <2>2, <2>3, <2>4 DEF Distinct
  <1>2. RowsOk' BY <1>0 DEF RowsOk
  <1>3. BoundHasFile' BY <1>0 DEF BoundHasFile
  <1>4. FilesAreCharged'
    <2>1. ASSUME NEW i \in Id, disk[i] \cup synced[i] # {}
          PROVE  \E p \in Op : rows'[p] # None /\ rows'[p].id = i /\ rows'[p].size = 1
      <3>1. PICK p \in Op : rows[p] # None /\ rows[p].id = i /\ rows[p].size = 1
            BY <2>1 DEF FilesAreCharged
      <3> QED BY <3>1
    <2> QED BY <2>1 DEF FilesAreCharged
  <1> QED BY <1>1, <1>2, <1>3, <1>4

(* A row may change its state, its stamp and whether it is bound.            *)
RowChanged(o) ==
    /\ rows[o] # None /\ rows' \in [Op -> Row \cup {None}] /\ rows'[o] \in Row
    /\ rows'[o].id = rows[o].id /\ rows'[o].size = rows[o].size
    /\ \A p \in Op \ {o} : rows'[p] = rows[p]
    /\ born' = born /\ task' = task /\ disk' = disk /\ synced' = synced /\ now' = now
    /\ rows'[o].bound => rows'[o].state = "ready" /\ (task = "active" => "file" \in disk[rows[o].id])
    /\ rows'[o].state = "ready" /\ "file" \in disk[rows[o].id] => "file" \in synced[rows[o].id]
    /\ rows'[o].state = "uploading" => rows[o].state = "uploading"

LEMMA ChangedRow == ASSUME IInv, NEW o \in Op, RowChanged(o)
                    PROVE  (Distinct /\ RowsOk /\ BoundHasFile /\ FilesAreCharged)'
  <1> USE DEF IInv, Typed, Exists, RowChanged
  <1>0. rows'[o] # None /\ \A p \in Op : rows[p] # None => rows[p] \in Row /\ rows[p].id \in Id
        BY DEF Row
  <1>1. \A p \in Op : /\ rows'[p] # None <=> rows[p] # None
                      /\ rows[p] # None => rows'[p].id = rows[p].id /\ rows'[p].size = rows[p].size
        BY <1>0
  <1>2. Distinct' BY <1>1 DEF Distinct
  <1>3. RowsOk'
    <2>1. ASSUME NEW p \in Op \ {o}, rows[p] # None
          PROVE  /\ rows[p].state = "uploading" => rows[p].size = 1
                 /\ rows[p].bound => rows[p].state = "ready"
                 /\ rows[p].state = "ready" /\ "file" \in disk[rows[p].id] => "file" \in synced[rows[p].id]
          BY <2>1 DEF RowsOk
    <2>2. /\ rows'[o].state = "uploading" => rows'[o].size = 1
          /\ rows'[o].bound => rows'[o].state = "ready"
          /\ rows'[o].state = "ready" /\ "file" \in disk[rows'[o].id] => "file" \in synced[rows'[o].id]
          BY DEF RowsOk
    <2> QED BY <1>0, <2>1, <2>2 DEF RowsOk
  <1>4. BoundHasFile' BY <1>0, <1>1 DEF BoundHasFile, RowsOk
  <1>5. FilesAreCharged'
    <2>1. ASSUME NEW i \in Id, disk[i] \cup synced[i] # {}
          PROVE  \E p \in Op : rows'[p] # None /\ rows'[p].id = i /\ rows'[p].size = 1
      <3>1. PICK p \in Op : rows[p] # None /\ rows[p].id = i /\ rows[p].size = 1
            BY <2>1 DEF FilesAreCharged
      <3> QED BY <1>1, <3>1
    <2> QED BY <2>1 DEF FilesAreCharged
  <1> QED BY <1>2, <1>3, <1>4, <1>5

(* A thread that goes on without its lease being touched.                    *)
LEMMA GotoFrame ==
    ASSUME IInv, NEW t \in Thread, NEW at, th[t].at # "idle", Goto(t, at),
           at \in Owning \cup {"begin", "collect"}
    PROVE  /\ th'[t].at = at /\ th'[t].op = th[t].op /\ th'[t].id = th[t].id
           /\ th'[t].deleting = th[t].deleting /\ held' = held
           /\ th' \in [Thread -> Running \cup {Idle}]
           /\ \A u \in Thread : u # t => th'[u] = th[u]
  <1>1. th' = [th EXCEPT ![t].at = at] /\ held' = held BY DEF Goto
  <1>2. th[t] \in Running BY Working DEF IInv
  <1>3. th'[t] = [th[t] EXCEPT !.at = at] BY <1>1 DEF IInv, Typed
  <1>4. th'[t] \in Running /\ th'[t].at = at /\ th'[t].op = th[t].op /\ th'[t].id = th[t].id
        /\ th'[t].deleting = th[t].deleting
        BY <1>2, <1>3 DEF Running, Owning, Uploading, Sweeping
  <1> QED BY <1>1, <1>4 DEF IInv, Typed

(* The owner of a row works on its directory, and on no other.               *)
FilesMoved(t) ==
    LET o == th[t].op
        i == th[t].id
    IN
    /\ task' = task /\ rows' = rows /\ born' = born /\ now' = now
    /\ disk' \in [Id -> SUBSET {"part", "file"}] /\ synced' \in [Id -> SUBSET {"part", "file"}]
    /\ \A j \in Id \ {i} : disk'[j] = disk[j] /\ synced'[j] = synced[j]
    /\ rows[o].state = "ready" /\ "file" \in disk'[i] => "file" \in synced'[i]
    /\ task = "active" /\ rows[o].bound => "file" \in disk'[i] /\ "file" \in synced'[i]
    /\ disk'[i] \cup synced'[i] # {} => rows[o].size = 1 \/ disk[i] \cup synced[i] # {}

LEMMA MovedFiles ==
    ASSUME IInv, NEW t \in Thread, th[t].at \in Owning, NEW at \in Owning, Goto(t, at),
           FilesMoved(t), OkThread(t)'
    PROVE  IInv'
  <1> DEFINE o == th[t].op
             i == th[t].id
  <1>0. o \in Op /\ rows[o] # None /\ rows[o].id = i /\ i \in Id BY OwnedRow DEF Exists
  <1>1. /\ held' = held /\ th' \in [Thread -> Running \cup {Idle}]
        /\ \A u \in Thread : u # t => th'[u] = th[u]
        BY GotoFrame DEF Owning, Uploading, Sweeping
  <1>2. Typed' BY <1>1 DEF IInv, Typed, FilesMoved
  <1>3. ASSUME NEW u \in Thread, u # t PROVE OkThread(u)'
    <2>1. th[u].at \in Owning => rows[th[u].op] # None /\ th[u].id \in Id \ {i}
          BY <1>3, OwnedRow, Apart DEF Exists
    <2>2. Left(u) BY <1>1, <1>3, <2>1 DEF Left, FilesMoved
    <2> QED BY <2>2, Frame DEF IInv, Threads
  <1>4. \A p \in Op \ {o} : rows[p] # None => rows[p].id \in Id \ {i}
    <2>1. \A p \in Op : rows[p] # None => rows[p].id \in Id BY DEF IInv, Typed, Row
    <2> QED BY <1>0, <2>1 DEF IInv, Distinct, Exists
  <1>5. Distinct' BY DEF IInv, Distinct, Exists, FilesMoved
  <1>6. RowsOk' BY <1>0, <1>4 DEF IInv, RowsOk, Exists, FilesMoved
  <1>7. BoundHasFile' BY <1>0, <1>4 DEF IInv, RowsOk, BoundHasFile, Exists, FilesMoved
  <1>8. FilesAreCharged'
    <2>1. ASSUME NEW j \in Id, disk'[j] \cup synced'[j] # {}
          PROVE  \E p \in Op : rows[p] # None /\ rows[p].id = j /\ rows[p].size = 1
      <3>1. CASE j = i /\ rows[o].size = 1 BY <1>0, <3>1
      <3>2. CASE disk[j] \cup synced[j] # {} BY <3>2 DEF IInv, FilesAreCharged, Exists
      <3> QED BY <2>1, <3>1, <3>2 DEF FilesMoved
    <2> QED BY <2>1 DEF FilesAreCharged, FilesMoved, Exists
  <1> QED BY <1>2, <1>3, <1>5, <1>6, <1>7, <1>8 DEF IInv, Threads

------------------------------------------------------------------------------
(* One lemma per step.                                                       *)
LEMMA BeginKeeps == ASSUME IInv, NEW t \in Client, NEW o \in Op, Begin(t, o) PROVE IInv'
  <1>1. /\ th[t].at = "idle" /\ held[o] = None /\ held' = [held EXCEPT ![o] = t]
        /\ th' = [th EXCEPT ![t] = [at |-> "begin", op |-> o, id |-> 0, deleting |-> FALSE]]
        /\ Same
        BY DEF Begin, Called, Acquire, Enter, At, Data, Disk, Same
  <1>2. Typed' BY <1>1 DEF IInv, Typed, Running, Same
  <1>3. OkThread(t)' BY <1>1 DEF IInv, Typed, OkThread, Owning, Uploading, Sweeping
  <1>4. ASSUME NEW u \in Thread, u # t PROVE OkThread(u)'
    <2>1. th[u].at \in Owning \cup {"begin"} => th[u].op # o /\ (th[u].at \in Owning => rows[th[u].op] # None)
          BY <1>1 DEF IInv, Threads, OkThread, Exists
    <2>2. Left(u) BY <1>1, <1>4, <2>1 DEF IInv, Typed, Left, Same
    <2> QED BY <2>2, Frame DEF IInv, Threads
  <1> QED BY <1>1, <1>2, <1>3, <1>4, Untouched DEF IInv, Threads

LEMMA BeginRowKeeps == ASSUME IInv, NEW t \in Thread, BeginRow(t) PROVE IInv'
  <1> DEFINE o == th[t].op
  <1>1. th[t].at = "begin" /\ o \in Op /\ th[t] \in Running
        BY Working DEF BeginRow, At, IInv
  <1>2. CASE Leave(t) /\ UNCHANGED <<rows, born>>
    <2>1. Same BY <1>2 DEF BeginRow, Same, Disk, Bounds
    <2> QED BY <1>2, <2>1, LeaveKeeps
  <1>3. CASE /\ task = "active" /\ Exists(o) /\ rows[o].state = "uploading"
             /\ th' = [th EXCEPT ![t].at = "open", ![t].id = rows[o].id]
             /\ UNCHANGED <<rows, born, held>>
    <2>1. Same /\ held' = held BY <1>3 DEF BeginRow, Same, Disk, Bounds
    <2>2. rows[o] \in Row /\ rows[o].id \in Id BY <1>1, <1>3 DEF IInv, Typed, Exists, Row
    <2>3. th'[t] = [th[t] EXCEPT !.at = "open", !.id = rows[o].id] BY <1>3 DEF IInv, Typed
    <2>4. th'[t] \in Running /\ th'[t].at = "open" /\ th'[t].op = o /\ th'[t].id = rows[o].id
      <3>1. th[t].deleting \in BOOLEAN /\ rows[o].id \in 0..MaxRows BY <1>1, <2>2, Numbers DEF Running
      <3>2. th'[t] = [at |-> "open", op |-> o, id |-> rows[o].id, deleting |-> th[t].deleting]
            BY <1>1, <2>3 DEF Running
      <3> QED BY <1>1, <3>1, <3>2 DEF Running
    <2>5. Typed' BY <1>3, <2>1, <2>4 DEF IInv, Typed, Same
    <2>6. rows[o].size = 1 BY <1>1, <1>3 DEF IInv, RowsOk
    <2>7. OkThread(t)' BY <1>1, <1>3, <2>1, <2>4, <2>6
          DEF IInv, Threads, OkThread, Same, Exists, Owning, Uploading, Sweeping
    <2>8. ASSUME NEW u \in Thread, u # t PROVE OkThread(u)'
      <3>1. th[u].at \in Owning => rows[th[u].op] # None BY OwnedRow DEF Exists
      <3>2. Left(u) BY <1>3, <2>1, <2>8, <3>1 DEF IInv, Typed, Left, Same
      <3> QED BY <3>2, Frame DEF IInv, Threads
    <2> QED BY <2>1, <2>5, <2>7, <2>8, Untouched DEF IInv, Threads
  <1>4. CASE /\ task = "active" /\ ~Exists(o) /\ Fits
             /\ rows' = [rows EXCEPT ![o] = NewRow("uploading", 1)] /\ born' = born + 1
             /\ th' = [th EXCEPT ![t].at = "open", ![t].id = born + 1]
             /\ UNCHANGED held
    <2>1. task' = task /\ disk' = disk /\ synced' = synced /\ now' = now /\ held' = held
          BY <1>4 DEF BeginRow, Disk, Bounds
    <2>2. born < MaxRows /\ born + 1 \in Id BY <1>4 DEF Fits, IInv, Typed
    <2>3. NewRow("uploading", 1) \in Row BY <2>2 DEF NewRow, Row, IInv, Typed
    <2>4. th'[t] = [th[t] EXCEPT !.at = "open", !.id = born + 1] BY <1>4 DEF IInv, Typed
    <2>5. th'[t] \in Running /\ th'[t].at = "open" /\ th'[t].op = o /\ th'[t].id = born + 1
      <3>1. th[t].deleting \in BOOLEAN /\ born + 1 \in 0..MaxRows BY <1>1, <2>2, Numbers DEF Running
      <3>2. th'[t] = [at |-> "open", op |-> o, id |-> born + 1, deleting |-> th[t].deleting]
            BY <1>1, <2>4 DEF Running
      <3> QED BY <1>1, <3>1, <3>2 DEF Running
    <2>6. Typed'
      <3>1. born' \in 0..MaxRows BY <1>4, <2>2
      <3>2. rows' \in [Op -> Row \cup {None}] BY <1>1, <1>4, <2>3 DEF IInv, Typed
      <3>3. th' \in [Thread -> Running \cup {Idle}] BY <1>4, <2>5 DEF IInv, Typed
      <3> QED BY <2>1, <3>1, <3>2, <3>3 DEF IInv, Typed
    <2>7. /\ rows'[o] = NewRow("uploading", 1) /\ rows'[o] # None /\ \A p \in Op \ {o} : rows'[p] = rows[p]
          BY <1>1, <1>4, <2>3 DEF IInv, Typed
    <2>8. OkThread(t)' BY <1>1, <2>1, <2>5, <2>7
          DEF IInv, Threads, OkThread, Exists, NewRow, Owning, Uploading, Sweeping
    <2>9. ASSUME NEW u \in Thread, u # t PROVE OkThread(u)'
      <3>1. th[u].at \in Owning => th[u].op \in Op \ {o} /\ rows[th[u].op] # None
            BY <1>4, OwnedRow DEF Exists
      <3>2. Left(u) BY <1>4, <2>1, <2>7, <2>9, <3>1 DEF IInv, Typed, Left
      <3> QED BY <3>2, Frame DEF IInv, Threads
    <2>10. RowAdded(o) BY <1>1, <1>4, <2>1, <2>2, <2>7 DEF RowAdded, NewRow, Exists
    <2> QED BY <1>1, <2>6, <2>8, <2>9, <2>10, AddedRow DEF IInv, Threads
  <1> QED BY <1>1, <1>2, <1>3, <1>4 DEF BeginRow

LEMMA OpenFileKeeps == ASSUME IInv, NEW t \in Thread, OpenFile(t) PROVE IInv'
  <1> DEFINE i == th[t].id
  <1>1. /\ th[t].at = "open" /\ th[t].at \in Owning /\ task' = task /\ rows' = rows
        /\ born' = born /\ now' = now
        BY DEF OpenFile, At, Data, Bounds, Owning, Uploading
  <1>2. th[t].op \in Op /\ rows[th[t].op] \in Row /\ i \in Id /\ rows[th[t].op] # None
        BY <1>1, OwnedRow DEF Exists
  <1>3. /\ rows[th[t].op].state # "ready" /\ rows[th[t].op].size = 1 /\ ~rows[th[t].op].bound
        BY <1>1, <1>2 DEF IInv, Threads, OkThread, Uploading, RowsOk, Exists
  <1>4. CASE "file" \in disk[i] /\ synced' = [synced EXCEPT ![i] = disk[i]] /\ Goto(t, "finish") /\ disk' = disk
    <2>1. FilesMoved(t) BY <1>1, <1>2, <1>3, <1>4 DEF FilesMoved, IInv, Typed
    <2>2. th'[t].at = "finish" /\ th'[t].op = th[t].op /\ th'[t].id = i /\ held' = held
          BY <1>1, <1>4, GotoFrame DEF Owning, Uploading
    <2>3. OkThread(t)' BY <1>1, <1>2, <1>3, <1>4, <2>2
          DEF IInv, Typed, Threads, OkThread, Exists, Owning, Uploading, Sweeping
    <2> QED BY <1>1, <1>4, <2>1, <2>3, MovedFiles DEF Owning, Uploading
  <1>5. CASE "file" \notin disk[i] /\ disk' = [disk EXCEPT ![i] = {"part"}] /\ Goto(t, "write") /\ synced' = synced
    <2>1. FilesMoved(t) BY <1>1, <1>2, <1>3, <1>5 DEF FilesMoved, IInv, Typed
    <2>2. th'[t].at = "write" /\ th'[t].op = th[t].op /\ th'[t].id = i /\ held' = held
          BY <1>1, <1>5, GotoFrame DEF Owning, Uploading
    <2>3. OkThread(t)' BY <1>1, <1>2, <1>3, <1>5, <2>2
          DEF IInv, Typed, Threads, OkThread, Exists, Owning, Uploading, Sweeping
    <2> QED BY <1>1, <1>5, <2>1, <2>3, MovedFiles DEF Owning, Uploading
  <1> QED BY <1>4, <1>5 DEF OpenFile

LEMMA PrepareKeeps == ASSUME IInv, NEW t \in Thread, Prepare(t) PROVE IInv'
  <1>1. th[t].at = "write" /\ th[t].at \in Owning /\ Same
        BY DEF Prepare, At, Data, Disk, Bounds, Same, Owning, Uploading
  <1>2. CASE Leave(t) BY <1>1, <1>2, LeaveKeeps
  <1>3. CASE Goto(t, "publish")
    <2>0. th[t].op \in Op /\ rows[th[t].op] # None /\ rows[th[t].op].id = th[t].id
          BY <1>1, OwnedRow DEF Exists
    <2>1. FilesMoved(t) BY <1>1, <2>0
          DEF FilesMoved, IInv, Typed, Same, RowsOk, BoundHasFile, Exists
    <2>2. th'[t].at = "publish" /\ th'[t].op = th[t].op /\ th'[t].id = th[t].id /\ held' = held
          BY <1>1, <1>3, GotoFrame DEF Owning, Uploading
    <2>3. OkThread(t)' BY <1>1, <2>2
          DEF IInv, Threads, OkThread, Same, Exists, Owning, Uploading, Sweeping
    <2> QED BY <1>1, <1>3, <2>1, <2>3, MovedFiles DEF Owning, Uploading
  <1> QED BY <1>2, <1>3 DEF Prepare

LEMMA UploadEndsKeeps == ASSUME IInv, NEW t \in Thread, UploadEnds(t) PROVE IInv'
  <1>1. Leave(t) /\ Same BY DEF UploadEnds, Data, Disk, Bounds, Same
  <1> QED BY <1>1, LeaveKeeps

LEMMA PublishFileKeeps == ASSUME IInv, NEW t \in Thread, PublishFile(t) PROVE IInv'
  <1> DEFINE i == th[t].id
  <1>1. /\ th[t].at = "publish" /\ th[t].at \in Owning /\ task' = task /\ rows' = rows
        /\ born' = born /\ now' = now /\ synced' = synced
        BY DEF PublishFile, At, Data, Bounds, Owning, Uploading
  <1>2. th[t].op \in Op /\ rows[th[t].op] \in Row /\ i \in Id /\ rows[th[t].op] # None
        BY <1>1, OwnedRow DEF Exists
  <1>3. /\ rows[th[t].op].state # "ready" /\ rows[th[t].op].size = 1 /\ ~rows[th[t].op].bound
        BY <1>1, <1>2 DEF IInv, Threads, OkThread, Uploading, RowsOk, Exists
  <1>4. CASE Leave(t) /\ disk' = disk BY <1>1, <1>4, LeaveKeeps DEF Same
  <1>5. CASE disk' = [disk EXCEPT ![i] = {"file"}] /\ Goto(t, "sync")
    <2>1. FilesMoved(t) BY <1>1, <1>2, <1>3, <1>5 DEF FilesMoved, IInv, Typed
    <2>2. th'[t].at = "sync" /\ th'[t].op = th[t].op /\ th'[t].id = i /\ held' = held
          BY <1>1, <1>5, GotoFrame DEF Owning, Uploading
    <2>3. OkThread(t)' BY <1>1, <1>2, <1>3, <1>5, <2>2
          DEF IInv, Typed, Threads, OkThread, Exists, Owning, Uploading, Sweeping
    <2> QED BY <1>1, <1>5, <2>1, <2>3, MovedFiles DEF Owning, Uploading
  <1> QED BY <1>4, <1>5 DEF PublishFile

LEMMA SyncFileKeeps == ASSUME IInv, NEW t \in Thread, SyncFile(t) PROVE IInv'
  <1> DEFINE i == th[t].id
  <1>1. /\ th[t].at = "sync" /\ th[t].at \in Owning /\ task' = task /\ rows' = rows
        /\ born' = born /\ now' = now /\ disk' = disk /\ Goto(t, "finish")
        /\ synced' = [synced EXCEPT ![i] = disk[i]]
        BY DEF SyncFile, At, Data, Bounds, Owning, Uploading
  <1>2. th[t].op \in Op /\ rows[th[t].op] \in Row /\ i \in Id /\ rows[th[t].op] # None
        BY <1>1, OwnedRow DEF Exists
  <1>3. /\ rows[th[t].op].state # "ready" /\ rows[th[t].op].size = 1 /\ ~rows[th[t].op].bound
        /\ "file" \in disk[i]
        BY <1>1, <1>2 DEF IInv, Threads, OkThread, Uploading, RowsOk, Exists
  <1>4. FilesMoved(t) BY <1>1, <1>2, <1>3 DEF FilesMoved, IInv, Typed
  <1>5. th'[t].at = "finish" /\ th'[t].op = th[t].op /\ th'[t].id = i /\ held' = held
        BY <1>1, GotoFrame DEF Owning, Uploading
  <1>6. OkThread(t)' BY <1>1, <1>2, <1>3, <1>5
        DEF IInv, Typed, Threads, OkThread, Exists, Owning, Uploading, Sweeping
  <1> QED BY <1>1, <1>4, <1>6, MovedFiles DEF Owning, Uploading

(* An owner that ends its work with a change of its row.                     *)
LEMMA LeaveChanged ==
    ASSUME IInv, NEW t \in Thread, th[t].at \in Owning, Leave(t), RowChanged(th[t].op)
    PROVE  IInv'
  <1>1. th[t].op \in Op BY OwnedRow
  <1>2. Typed' BY LeaveFrame DEF IInv, Typed, RowChanged
  <1>3. ASSUME NEW u \in Thread, u # t PROVE OkThread(u)'
    <2>1. th[u].at \in Owning => rows[th[u].op] # None /\ th[u].op \in Op \ {th[t].op}
          BY <1>3, OwnedRow, Apart DEF Exists
    <2>2. Left(u) BY <1>3, <2>1, LeaveFrame DEF Left, RowChanged
    <2> QED BY <2>2, Frame DEF IInv, Threads
  <1>4. Threads' BY <1>3, LeaveFrame DEF Threads
  <1> QED BY <1>1, <1>2, <1>4, ChangedRow DEF IInv

LEMMA FinishMetadataKeeps == ASSUME IInv, NEW t \in Thread, FinishMetadata(t) PROVE IInv'
  <1> DEFINE o == th[t].op
  <1>1. /\ th[t].at = "finish" /\ th[t].at \in Owning /\ Leave(t)
        /\ task' = task /\ born' = born /\ disk' = disk /\ synced' = synced /\ now' = now
        BY DEF FinishMetadata, At, Disk, Bounds, Owning, Uploading
  <1>2. o \in Op /\ rows[o] \in Row /\ rows[o] # None /\ rows[o].id = th[t].id
        BY <1>1, OwnedRow DEF Exists
  <1>3. "file" \in disk[rows[o].id] /\ "file" \in synced[rows[o].id]
        BY <1>1, <1>2 DEF IInv, Threads, OkThread
  <1>4. CASE rows' = rows BY <1>1, <1>4, LeaveKeeps DEF Same
  <1>5. CASE rows' = [rows EXCEPT ![o].state = "ready", ![o].stamp = now]
    <2>1. rows'[o] = [rows[o] EXCEPT !.state = "ready", !.stamp = now]
          BY <1>2, <1>5 DEF IInv, Typed
    <2>2. rows'[o] = [id |-> rows[o].id, state |-> "ready", bound |-> rows[o].bound,
                      size |-> rows[o].size, stamp |-> now]
          BY <1>2, <2>1 DEF Row
    <2>3. rows'[o] \in Row BY <1>2, <2>2 DEF Row, IInv, Typed
    <2>4. rows' \in [Op -> Row \cup {None}] /\ \A p \in Op \ {o} : rows'[p] = rows[p]
          BY <1>2, <1>5, <2>3 DEF IInv, Typed
    <2>5. RowChanged(o) BY <1>1, <1>2, <1>3, <2>2, <2>3, <2>4 DEF RowChanged
    <2> QED BY <1>1, <2>5, LeaveChanged
  <1> QED BY <1>4, <1>5 DEF FinishMetadata

LEMMA PinRowKeeps == ASSUME IInv, NEW t \in Thread, PinRow(t) PROVE IInv'
  <1> DEFINE o == th[t].op
  <1>1. /\ th[t].at = "bind" /\ th[t].at \in Owning /\ Leave(t)
        /\ task' = task /\ born' = born /\ disk' = disk /\ synced' = synced /\ now' = now
        BY DEF PinRow, At, Disk, Bounds, Owning
  <1>2. o \in Op /\ rows[o] \in Row /\ rows[o] # None /\ rows[o].id = th[t].id
        BY <1>1, OwnedRow DEF Exists
  <1>3. "file" \in disk[rows[o].id] BY <1>1, <1>2 DEF IInv, Threads, OkThread
  <1>4. CASE rows' = rows BY <1>1, <1>4, LeaveKeeps DEF Same
  <1>5. CASE rows[o].state = "ready" /\ rows' = [rows EXCEPT ![o].bound = TRUE]
    <2>1. rows'[o] = [rows[o] EXCEPT !.bound = TRUE]
          BY <1>2, <1>5 DEF IInv, Typed
    <2>2. rows'[o] = [id |-> rows[o].id, state |-> rows[o].state, bound |-> TRUE,
                      size |-> rows[o].size, stamp |-> rows[o].stamp]
          BY <1>2, <2>1, Zenon DEF Row
    <2>3. rows'[o] \in Row BY <1>2, <2>2 DEF Row
    <2>4. rows' \in [Op -> Row \cup {None}] /\ \A p \in Op \ {o} : rows'[p] = rows[p]
          BY <1>2, <1>5, <2>3 DEF IInv, Typed
    <2>5. "file" \in synced[rows[o].id] BY <1>2, <1>3, <1>5 DEF IInv, RowsOk, Exists
    <2>6. RowChanged(o) BY <1>1, <1>2, <1>3, <1>5, <2>2, <2>3, <2>4, <2>5 DEF RowChanged
    <2> QED BY <1>1, <2>6, LeaveChanged
  <1> QED BY <1>4, <1>5 DEF PinRow

LEMMA CancelKeeps == ASSUME IInv, NEW t \in Client, NEW o \in Op, Cancel(t, o) PROVE IInv'
  <1>1. th[t].at = "idle" /\ task' = task /\ disk' = disk /\ synced' = synced /\ held' = held /\ now' = now
        BY DEF Cancel, Called, At, Disk
  <1>2. CASE /\ Exists(o) /\ ~rows[o].bound
             /\ rows' = [rows EXCEPT ![o].state = "cancelled", ![o].stamp = now]
             /\ Enter(t, "collect", o, rows[o].id, FALSE) /\ UNCHANGED born
    <2>0. rows[o] # None /\ rows[o] \in Row /\ rows[o].id \in Id BY <1>2 DEF IInv, Typed, Exists, Row
    <2>1. rows'[o] = [rows[o] EXCEPT !.state = "cancelled", !.stamp = now]
          BY <1>2 DEF IInv, Typed
    <2>2. rows'[o] = [id |-> rows[o].id, state |-> "cancelled", bound |-> rows[o].bound,
                      size |-> rows[o].size, stamp |-> now]
          BY <2>0, <2>1 DEF Row
    <2>3. rows'[o] \in Row BY <2>0, <2>2 DEF Row, IInv, Typed
    <2>4. rows' \in [Op -> Row \cup {None}] /\ \A p \in Op \ {o} : rows'[p] = rows[p]
          BY <1>2, <2>3 DEF IInv, Typed
    <2>5. RowChanged(o) BY <1>1, <1>2, <2>0, <2>2, <2>3, <2>4 DEF RowChanged
    <2>6. /\ th' = [th EXCEPT ![t] = [at |-> "collect", op |-> o, id |-> rows[o].id, deleting |-> FALSE]]
          BY <1>2 DEF Enter
    <2>7. th' \in [Thread -> Running \cup {Idle}]
      <3>1. rows[o].id \in 0..MaxRows BY <2>0, Numbers
      <3> QED BY <2>6, <3>1 DEF IInv, Typed, Running
    <2>8. Typed' BY <1>1, <1>2, <2>4, <2>7 DEF IInv, Typed
    <2>9. th'[t].at = "collect" BY <2>6 DEF IInv, Typed
    <2>10. OkThread(t)' BY <2>9 DEF OkThread, Owning, Uploading, Sweeping
    <2>11. ASSUME NEW u \in Thread, u # t PROVE OkThread(u)'
      <3>1. th[u].at \in Owning => rows[th[u].op] # None /\ th[u].op \in Op BY OwnedRow DEF Exists
      <3>2. rows'[o] # None /\ rows'[o].bound = rows[o].bound /\ rows'[o].state # "ready"
            BY <2>2, <2>3
      <3>3. th'[u] = th[u] BY <2>6, <2>11 DEF IInv, Typed
      <3>4. Left(u) BY <1>1, <2>5, <3>1, <3>2, <3>3 DEF Left, RowChanged
      <3> QED BY <3>4, Frame DEF IInv, Threads
    <2> QED BY <2>5, <2>8, <2>10, <2>11, ChangedRow DEF IInv, Threads
  <1>3. CASE /\ ~Exists(o) /\ Cardinality(Tombs) < MaxTombs /\ born < MaxRows
             /\ rows' = [rows EXCEPT ![o] = NewRow("cancelled", 0)] /\ born' = born + 1
             /\ UNCHANGED th
    <2>1. born + 1 \in Id /\ born' \in 0..MaxRows BY <1>3, Numbers DEF IInv, Typed
    <2>2. NewRow("cancelled", 0) \in Row BY <2>1 DEF NewRow, Row, IInv, Typed
    <2>3. /\ rows'[o] = NewRow("cancelled", 0) /\ rows'[o] # None /\ \A p \in Op \ {o} : rows'[p] = rows[p]
          /\ rows' \in [Op -> Row \cup {None}]
          BY <1>3, <2>2 DEF IInv, Typed
    <2>4. Typed' BY <1>1, <1>3, <2>1, <2>3 DEF IInv, Typed
    <2>5. ASSUME NEW u \in Thread PROVE OkThread(u)'
      <3>1. th[u].at \in Owning => th[u].op \in Op \ {o} /\ rows[th[u].op] # None
            BY <1>3, OwnedRow DEF Exists
      <3>2. Left(u) BY <1>1, <1>3, <2>3, <3>1 DEF Left
      <3> QED BY <3>2, Frame DEF IInv, Threads
    <2>6. RowAdded(o) BY <1>1, <1>3, <2>3 DEF RowAdded, NewRow, Exists
    <2> QED BY <2>4, <2>5, <2>6, AddedRow DEF IInv, Threads
  <1> QED BY <1>2, <1>3 DEF Cancel

LEMMA SweepKeeps == ASSUME IInv, NEW o \in Op, Sweep(o) PROVE IInv'
  <1>1. Same /\ held' = held /\ th[Worker].at = "idle" /\ Exists(o)
        BY DEF Sweep, At, Data, Disk, Bounds, Same, Collectable
  <1>2. PICK d \in BOOLEAN :
           th' = [th EXCEPT ![Worker] = [at |-> "collect", op |-> o, id |-> rows[o].id, deleting |-> d]]
        BY DEF Sweep, Enter
  <1>3. rows[o].id \in 0..MaxRows BY <1>1, Numbers DEF IInv, Typed, Exists, Row
  <1>4. Typed' BY <1>1, <1>2, <1>3 DEF IInv, Typed, Running, Same
  <1>5. th'[Worker].at = "collect" BY <1>2 DEF IInv, Typed
  <1>6. OkThread(Worker)' BY <1>5 DEF OkThread, Owning, Uploading, Sweeping
  <1>7. ASSUME NEW u \in Thread, u # Worker PROVE OkThread(u)'
    <2>1. th[u].at \in Owning => rows[th[u].op] # None BY OwnedRow DEF Exists
    <2>2. Left(u) BY <1>1, <1>2, <1>7, <2>1 DEF IInv, Typed, Left, Same
    <2> QED BY <2>2, Frame DEF IInv, Threads
  <1> QED BY <1>1, <1>4, <1>6, <1>7, Untouched DEF IInv, Threads

LEMMA CollectKeeps == ASSUME IInv, NEW t \in Thread, Collect(t) PROVE IInv'
  <1> DEFINE o == th[t].op
  <1>1. th[t].at = "collect" /\ Same BY DEF Collect, At, Data, Disk, Bounds, Same
  <1>2. th[t] \in Running /\ o \in Op /\ th[t].deleting \in BOOLEAN BY <1>1, Working DEF IInv
  <1>3. CASE held[o] = None /\ StillCollectable(t) /\ Acquire(t, o) /\ th' = [th EXCEPT ![t].at = "clean"]
    <2>1. held' = [held EXCEPT ![o] = t] BY <1>3 DEF Acquire
    <2>2. th'[t] = [th[t] EXCEPT !.at = "clean"] BY <1>3 DEF IInv, Typed
    <2>3. /\ th'[t] \in Running /\ th'[t].at = "clean" /\ th'[t].op = o /\ th'[t].id = th[t].id
          /\ th'[t].deleting = th[t].deleting
          BY <1>2, <2>2 DEF Running
    <2>4. Typed' BY <1>1, <1>2, <1>3, <2>1, <2>3 DEF IInv, Typed, Same
    <2>5. OkThread(t)' BY <1>1, <1>2, <1>3, <2>1, <2>3
          DEF IInv, Typed, OkThread, Same, StillCollectable, Collectable, Exists, Owning, Uploading, Sweeping
    <2>6. ASSUME NEW u \in Thread, u # t PROVE OkThread(u)'
      <3>1. th[u].at \in Owning \cup {"begin"} => th[u].op # o /\ (th[u].at \in Owning => rows[th[u].op] # None)
            BY <1>3 DEF IInv, Threads, OkThread, Exists
      <3>2. Left(u) BY <1>1, <1>3, <2>1, <2>6, <3>1 DEF IInv, Typed, Left, Same
      <3> QED BY <3>2, Frame DEF IInv, Threads
    <2> QED BY <1>1, <2>4, <2>5, <2>6, Untouched DEF IInv, Threads
  <1>4. CASE th' = [th EXCEPT ![t] = Idle] /\ UNCHANGED held
    <2>1. Typed' BY <1>1, <1>4 DEF IInv, Typed, Same
    <2>2. OkThread(t)' BY <1>4 DEF IInv, Typed, OkThread, Idle, Owning, Uploading, Sweeping
    <2>3. ASSUME NEW u \in Thread, u # t PROVE OkThread(u)'
      <3>1. th[u].at \in Owning => rows[th[u].op] # None BY OwnedRow DEF Exists
      <3>2. Left(u) BY <1>1, <1>4, <2>3, <3>1 DEF IInv, Typed, Left, Same
      <3> QED BY <3>2, Frame DEF IInv, Threads
    <2> QED BY <1>1, <2>1, <2>2, <2>3, Untouched DEF IInv, Threads
  <1> QED BY <1>3, <1>4 DEF Collect

LEMMA CleanKeeps == ASSUME IInv, NEW t \in Thread, Clean(t) PROVE IInv'
  <1> DEFINE i == th[t].id
  <1>1. /\ th[t].at = "clean" /\ th[t].at \in Owning /\ task' = task /\ rows' = rows
        /\ born' = born /\ now' = now /\ synced' = synced /\ Goto(t, "unlinked")
        /\ disk' = [disk EXCEPT ![i] = {}]
        BY DEF Clean, At, Data, Bounds, Owning, Sweeping
  <1>2. th[t].op \in Op /\ rows[th[t].op] \in Row /\ i \in Id /\ rows[th[t].op] # None
        BY <1>1, OwnedRow DEF Exists
  <1>3. IF th[t].deleting THEN task # "active" ELSE ~rows[th[t].op].bound
        BY <1>1 DEF IInv, Threads, OkThread, Sweeping
  <1>4. FilesMoved(t) BY <1>1, <1>2, <1>3 DEF FilesMoved, IInv, Typed
  <1>5. /\ th'[t].at = "unlinked" /\ th'[t].op = th[t].op /\ th'[t].id = i /\ held' = held
        /\ th'[t].deleting = th[t].deleting
        BY <1>1, GotoFrame DEF Owning, Sweeping
  <1>6. OkThread(t)' BY <1>1, <1>2, <1>3, <1>5
        DEF IInv, Typed, Threads, OkThread, Exists, Owning, Uploading, Sweeping
  <1> QED BY <1>1, <1>4, <1>6, MovedFiles DEF Owning, Sweeping

LEMMA CleanSyncKeeps == ASSUME IInv, NEW t \in Thread, CleanSync(t) PROVE IInv'
  <1> DEFINE i == th[t].id
  <1>1. /\ th[t].at = "unlinked" /\ th[t].at \in Owning /\ task' = task /\ rows' = rows
        /\ born' = born /\ now' = now /\ disk' = disk /\ Goto(t, "drop")
        /\ synced' = [synced EXCEPT ![i] = disk[i]]
        BY DEF CleanSync, At, Data, Bounds, Owning, Sweeping
  <1>2. th[t].op \in Op /\ rows[th[t].op] \in Row /\ i \in Id /\ rows[th[t].op] # None
        BY <1>1, OwnedRow DEF Exists
  <1>3. disk[i] = {} /\ IF th[t].deleting THEN task # "active" ELSE ~rows[th[t].op].bound
        BY <1>1 DEF IInv, Threads, OkThread, Sweeping
  <1>4. FilesMoved(t) BY <1>1, <1>2, <1>3 DEF FilesMoved, IInv, Typed
  <1>5. /\ th'[t].at = "drop" /\ th'[t].op = th[t].op /\ th'[t].id = i /\ held' = held
        /\ th'[t].deleting = th[t].deleting
        BY <1>1, GotoFrame DEF Owning, Sweeping
  <1>6. OkThread(t)' BY <1>1, <1>2, <1>3, <1>5
        DEF IInv, Typed, Threads, OkThread, Exists, Owning, Uploading, Sweeping
  <1> QED BY <1>1, <1>4, <1>6, MovedFiles DEF Owning, Sweeping

LEMMA DropRowKeeps == ASSUME IInv, NEW t \in Thread, DropRow(t) PROVE IInv'
  <1> DEFINE o == th[t].op
             i == th[t].id
  <1>1. /\ th[t].at = "drop" /\ th[t].at \in Owning /\ Leave(t)
        /\ task' = task /\ born' = born /\ disk' = disk /\ synced' = synced /\ now' = now
        BY DEF DropRow, At, Disk, Bounds, Owning, Sweeping
  <1>2. o \in Op /\ rows[o] \in Row /\ rows[o] # None /\ rows[o].id = i /\ i \in Id
        BY <1>1, OwnedRow DEF Exists
  <1>3. disk[i] = {} /\ synced[i] = {} BY <1>1 DEF IInv, Threads, OkThread
  <1>4. CASE rows' = rows BY <1>1, <1>4, LeaveKeeps DEF Same
  <1>5. CASE \/ rows[o].state = "cancelled" /\ rows' = [rows EXCEPT ![o].size = 0]
             \/ rows' = [rows EXCEPT ![o] = None]
    <2>1. /\ rows' \in [Op -> Row \cup {None}] /\ \A p \in Op \ {o} : rows'[p] = rows[p]
          /\ rows'[o] # None => /\ rows'[o].id = i /\ rows'[o].bound = rows[o].bound
                                /\ rows'[o].state = "cancelled" /\ rows[o].state = "cancelled"
      <3>1. CASE rows' = [rows EXCEPT ![o] = None] BY <1>2, <3>1 DEF IInv, Typed
      <3>2. CASE rows[o].state = "cancelled" /\ rows' = [rows EXCEPT ![o].size = 0]
        <4>1. rows'[o] = [rows[o] EXCEPT !.size = 0] BY <1>2, <3>2 DEF IInv, Typed
        <4>2. rows'[o] = [id |-> rows[o].id, state |-> rows[o].state, bound |-> rows[o].bound,
                          size |-> 0, stamp |-> rows[o].stamp]
              BY <1>2, <4>1, Zenon DEF Row
        <4>3. rows'[o] \in Row BY <1>2, <4>2 DEF Row
        <4> QED BY <1>2, <3>2, <4>2, <4>3 DEF IInv, Typed
      <3> QED BY <1>5, <3>1, <3>2
    <2>2. Typed' BY <1>1, <2>1, LeaveFrame DEF IInv, Typed
    <2>3. ASSUME NEW u \in Thread, u # t PROVE OkThread(u)'
      <3>1. th[u].at \in Owning => rows[th[u].op] # None /\ th[u].op \in Op \ {o}
            BY <1>1, <2>3, OwnedRow, Apart DEF Exists
      <3>2. Left(u) BY <1>1, <2>1, <2>3, <3>1, LeaveFrame DEF Left
      <3> QED BY <3>2, Frame DEF IInv, Threads
    <2>4. Threads' BY <1>1, <2>3, LeaveFrame DEF Threads
    <2>5. Distinct' BY <1>1, <1>2, <2>1 DEF IInv, Distinct, Exists
    <2>6. RowsOk' BY <1>1, <1>2, <2>1 DEF IInv, RowsOk, Exists
    <2>7. BoundHasFile' BY <1>1, <1>2, <2>1 DEF IInv, BoundHasFile, RowsOk, Exists
    <2>8. FilesAreCharged'
      <3>1. ASSUME NEW j \in Id, disk[j] \cup synced[j] # {}
            PROVE  \E p \in Op : rows'[p] # None /\ rows'[p].id = j /\ rows'[p].size = 1
        <4>1. PICK p \in Op : rows[p] # None /\ rows[p].id = j /\ rows[p].size = 1
              BY <3>1 DEF IInv, FilesAreCharged, Exists
        <4>2. p # o BY <1>2, <1>3, <3>1, <4>1
        <4> QED BY <2>1, <4>1, <4>2
      <3> QED BY <1>1, <3>1 DEF FilesAreCharged, Exists
    <2> QED BY <2>2, <2>4, <2>5, <2>6, <2>7, <2>8 DEF IInv
  <1> QED BY <1>4, <1>5 DEF DropRow

LEMMA PinKeeps == ASSUME IInv, NEW t \in Client, NEW o \in Op, Pin(t, o) PROVE IInv'
  <1>1. /\ th[t].at = "idle" /\ held[o] = None /\ held' = [held EXCEPT ![o] = t] /\ Same
        /\ Exists(o) /\ "file" \in disk[rows[o].id]
        /\ th' = [th EXCEPT ![t] = [at |-> "bind", op |-> o, id |-> rows[o].id, deleting |-> FALSE]]
        BY DEF Pin, Called, Acquire, Enter, At, Data, Disk, Same
  <1>2. rows[o].id \in 0..MaxRows BY <1>1, Numbers DEF IInv, Typed, Exists, Row
  <1>3. Typed' BY <1>1, <1>2 DEF IInv, Typed, Running, Same
  <1>4. OkThread(t)' BY <1>1 DEF IInv, Typed, OkThread, Same, Exists, Owning, Uploading, Sweeping
  <1>5. ASSUME NEW u \in Thread, u # t PROVE OkThread(u)'
    <2>1. th[u].at \in Owning \cup {"begin"} => th[u].op # o /\ (th[u].at \in Owning => rows[th[u].op] # None)
          BY <1>1 DEF IInv, Threads, OkThread, Exists
    <2>2. Left(u) BY <1>1, <1>5, <2>1 DEF IInv, Typed, Left, Same
    <2> QED BY <2>2, Frame DEF IInv, Threads
  <1> QED BY <1>1, <1>3, <1>4, <1>5, Untouched DEF IInv, Threads

LEMMA FileFaultKeeps == ASSUME IInv, NEW t \in Thread, FileFault(t) PROVE IInv'
  <1>1. Leave(t) /\ Same BY DEF FileFault, Fault, Data, Disk, Same
  <1> QED BY <1>1, LeaveKeeps

(* The task goes one way, and with it nothing else changes.                  *)
LEMMA TaskKeeps == ASSUME IInv, FinishTask \/ DeleteTask PROVE IInv'
  <1>1. /\ task' \in {"deleted", "gone"} /\ rows' = rows /\ born' = born /\ disk' = disk
        /\ synced' = synced /\ held' = held /\ th' = th /\ now' = now
        BY DEF FinishTask, DeleteTask, Disk, Bounds
  <1>2. Typed' BY <1>1 DEF IInv, Typed
  <1>3. ASSUME NEW u \in Thread PROVE OkThread(u)'
    <2>1. th[u].at \in Owning => rows[th[u].op] # None BY OwnedRow DEF Exists
    <2>2. Left(u) BY <1>1, <2>1 DEF Left
    <2> QED BY <2>2, Frame DEF IInv, Threads
  <1> QED BY <1>1, <1>2, <1>3
          DEF IInv, Threads, Distinct, RowsOk, BoundHasFile, FilesAreCharged, Exists

LEMMA TickKeeps == ASSUME IInv, Tick PROVE IInv'
  <1>1. /\ task' = task /\ rows' = rows /\ born' = born /\ disk' = disk
        /\ synced' = synced /\ held' = held /\ th' = th /\ now' \in 0..MaxTime
        BY Numbers DEF Tick, Data, Disk, IInv, Typed
  <1>2. Typed' BY <1>1 DEF IInv, Typed
  <1>3. Threads' BY <1>1 DEF IInv, Threads, OkThread, Exists
  <1> QED BY <1>1, <1>2, <1>3
          DEF IInv, Distinct, RowsOk, BoundHasFile, FilesAreCharged, Exists

(* With the threads go the leases.                                           *)
LEMMA StoppedFrame == ASSUME Stopped
    PROVE  Threads' /\ th' \in [Thread -> Running \cup {Idle}] /\ held' \in [Op -> Thread \cup {None}]
  BY DEF Stopped, Threads, OkThread, Idle, Owning, Uploading, Sweeping

LEMMA CrashKeeps == ASSUME IInv, Crash PROVE IInv'
  <1>1. Same /\ Stopped BY DEF Crash, Fault, Data, Disk, Same
  <1>2. Typed' BY <1>1, StoppedFrame DEF IInv, Typed, Same
  <1> QED BY <1>1, <1>2, StoppedFrame, Untouched DEF IInv

LEMMA PowerFailureKeeps == ASSUME IInv, PowerFailure PROVE IInv'
  <1>1. Stopped /\ task' = task /\ rows' = rows /\ born' = born /\ now' = now /\ synced' = disk'
        BY DEF PowerFailure, Fault, Data
  <1>2. PICK lost \in SUBSET {i \in Id : disk[i] # synced[i]} :
           disk' = [i \in Id |-> IF i \in lost THEN synced[i] ELSE disk[i]]
        BY DEF PowerFailure
  <1>3. /\ disk' \in [Id -> SUBSET {"part", "file"}]
        /\ \A i \in Id : disk'[i] \in {disk[i], synced[i]}
        BY <1>2 DEF IInv, Typed
  <1>4. Typed' BY <1>1, <1>3, StoppedFrame DEF IInv, Typed
  <1>5. \A o \in Op : rows[o] # None => rows[o].id \in Id BY DEF IInv, Typed, Row
  <1>6. Distinct' BY <1>1 DEF IInv, Distinct, Exists
  <1>7. RowsOk' BY <1>1 DEF IInv, RowsOk, Exists
  <1>8. BoundHasFile' BY <1>1, <1>3, <1>5 DEF IInv, BoundHasFile, Exists
  <1>9. FilesAreCharged'
    <2>1. \A i \in Id : disk'[i] \cup synced'[i] # {} => disk[i] \cup synced[i] # {}
          BY <1>1, <1>3
    <2> QED BY <1>1, <2>1 DEF IInv, FilesAreCharged, Exists
  <1> QED BY <1>1, <1>4, <1>6, <1>7, <1>8, <1>9, StoppedFrame DEF IInv

------------------------------------------------------------------------------
LEMMA StepKeeps == ASSUME IInv, [Next]_vars PROVE IInv'
  <1>1. ASSUME NEW t \in Thread, Step(t) PROVE IInv'
        BY <1>1, BeginRowKeeps, OpenFileKeeps, PrepareKeeps, UploadEndsKeeps, PublishFileKeeps,
           SyncFileKeeps, FinishMetadataKeeps, CollectKeeps, CleanKeeps, CleanSyncKeeps,
           DropRowKeeps, PinRowKeeps DEF Step
  <1>2. CASE UNCHANGED vars
    <2>1. Same /\ held' = held /\ th' = th BY <1>2 DEF vars, Same
    <2>2. Typed' BY <2>1 DEF IInv, Typed, Same
    <2>3. Threads' BY <2>1 DEF IInv, Threads, OkThread, Exists, Same
    <2> QED BY <2>1, <2>2, <2>3, Untouched DEF IInv
  <1> QED BY <1>1, <1>2, FileFaultKeeps, BeginKeeps, CancelKeeps, PinKeeps, SweepKeeps, TaskKeeps,
             CrashKeeps, PowerFailureKeeps, TickKeeps DEF Next

(* Leases, rows and files stay consistent across all steps and faults of      *)
(* attachments.rs and attachment_cleanup.rs.                                  *)
THEOREM Invariant == Spec => []IInv
  <1>1. Init => IInv BY InitInv
  <1>2. IInv /\ [Next]_vars => IInv' BY StepKeeps
  <1> QED BY <1>1, <1>2, PTL DEF Spec

(* A message's attachment keeps a complete, durable file through every        *)
(* interleaving of uploads, cancellations, collections, crashes and power     *)
(* failures (pin_attachments, collect_attachment_file).                       *)
THEOREM PinnedIsKept == Spec => []BoundHasFile
  <1>1. IInv => BoundHasFile BY DEF IInv
  <1> QED BY <1>1, Invariant, PTL

(* No file is left without a row that charges its bytes and leads the         *)
(* collector to it, not even one that a power failure brings back             *)
(* (begin_attachment_upload_inner, collect_attachment_file).                  *)
THEOREM NoOrphans == Spec => []FilesAreCharged
  <1>1. IInv => FilesAreCharged BY DEF IInv
  <1> QED BY <1>1, Invariant, PTL

(* A cancelled row, and what a step may make of it.                           *)
Stands(o) ==
    Exists(o) /\ rows[o].state = "cancelled" =>
        \/ rows'[o] # None /\ rows'[o].state = "cancelled"
        \/ rows'[o] = None /\ (Expired(o) \/ task = "deleted")

LEMMA SameStands == ASSUME rows' = rows, NEW o \in Op PROVE Stands(o)
  BY DEF Stands, Exists

LEMMA ThreadStands == ASSUME IInv, NEW t \in Thread, Step(t), NEW o \in Op PROVE Stands(o)
  <1> DEFINE p == th[t].op
  <1> SUFFICES ASSUME Exists(o), rows[o].state = "cancelled" PROVE Stands(o)
      BY DEF Stands
  <1>0. rows[o] # None /\ rows[o] \in Row BY DEF Exists, IInv, Typed
  <1>1. CASE BeginRow(t)
    <2>1. rows' = rows \/ (~Exists(p) /\ rows' = [rows EXCEPT ![p] = NewRow("uploading", 1)])
          BY <1>1 DEF BeginRow
    <2>2. CASE rows' = rows BY <2>2, SameStands
    <2>3. CASE ~Exists(p) /\ rows' = [rows EXCEPT ![p] = NewRow("uploading", 1)]
      <3>1. o # p /\ rows'[o] = rows[o] BY <2>3 DEF IInv, Typed
      <3> QED BY <1>0, <3>1 DEF Stands
    <2> QED BY <2>1, <2>2, <2>3
  <1>2. CASE FinishMetadata(t)
    <2>1. CASE rows' = rows BY <2>1, SameStands
    <2>2. CASE rows[p].state = "uploading" /\ rows' = [rows EXCEPT ![p].state = "ready", ![p].stamp = now]
      <3>1. o # p /\ rows'[o] = rows[o] BY <2>2 DEF IInv, Typed
      <3> QED BY <1>0, <3>1 DEF Stands
    <2> QED BY <1>2, <2>1, <2>2 DEF FinishMetadata, Verified
  <1>3. CASE PinRow(t)
    <2>1. CASE rows' = rows BY <2>1, SameStands
    <2>2. CASE rows[p].state = "ready" /\ rows' = [rows EXCEPT ![p].bound = TRUE]
      <3>1. o # p /\ rows'[o] = rows[o] BY <2>2 DEF IInv, Typed
      <3> QED BY <1>0, <3>1 DEF Stands
    <2> QED BY <1>3, <2>1, <2>2 DEF PinRow
  <1>4. CASE DropRow(t)
    <2>1. CASE rows' = rows BY <2>1, SameStands
    <2>2. CASE o # p /\ (rows' = [rows EXCEPT ![p].size = 0] \/ rows' = [rows EXCEPT ![p] = None])
      <3>1. rows'[o] = rows[o] BY <2>2 DEF IInv, Typed
      <3> QED BY <1>0, <3>1 DEF Stands
    <2>3. CASE o = p /\ rows' = [rows EXCEPT ![p].size = 0]
      <3>1. rows'[o] = [rows[o] EXCEPT !.size = 0] BY <2>3 DEF IInv, Typed
      <3>2. rows'[o] = [id |-> rows[o].id, state |-> rows[o].state, bound |-> rows[o].bound,
                        size |-> 0, stamp |-> rows[o].stamp]
            BY <1>0, <3>1, Zenon DEF Row
      <3>3. rows'[o] \in Row BY <1>0, <3>2 DEF Row
      <3> QED BY <3>2, <3>3 DEF Stands
    <2>4. CASE o = p /\ rows' = [rows EXCEPT ![p] = None] /\ (th[t].deleting => task = "deleted")
               /\ (~th[t].deleting => Expired(o))
      <3>1. rows'[o] = None BY <2>4 DEF IInv, Typed
      <3> QED BY <2>4, <3>1 DEF Stands
    <2>5. th[t].at = "drop" /\ th[t].deleting \in BOOLEAN
          BY <1>4, Working DEF DropRow, At, IInv
    <2> QED BY <1>4, <2>1, <2>2, <2>3, <2>4, <2>5 DEF DropRow
  <1>5. CASE ~(BeginRow(t) \/ FinishMetadata(t) \/ PinRow(t) \/ DropRow(t))
    <2>1. rows' = rows
          BY <1>5 DEF Step, OpenFile, Prepare, UploadEnds, PublishFile, SyncFile, Collect, Clean,
                      CleanSync, Data
    <2> QED BY <2>1, SameStands
  <1> QED BY <1>1, <1>2, <1>3, <1>4, <1>5

LEMMA CancelStaysCancelled ==
    ASSUME IInv, NEW t \in Client, NEW p \in Op, Cancel(t, p), NEW o \in Op PROVE Stands(o)
  <1> SUFFICES ASSUME Exists(o), rows[o].state = "cancelled" PROVE Stands(o)
      BY DEF Stands
  <1>0. rows[o] # None /\ rows[o] \in Row BY DEF Exists, IInv, Typed
  <1>1. CASE o # p
    <2>1. rows'[o] = rows[o] BY <1>1 DEF Cancel, IInv, Typed
    <2> QED BY <1>0, <2>1 DEF Stands
  <1>2. CASE o = p
    <2>1. rows' = [rows EXCEPT ![o].state = "cancelled", ![o].stamp = now] BY <1>2 DEF Cancel
    <2>2. rows'[o] = [rows[o] EXCEPT !.state = "cancelled", !.stamp = now] BY <2>1 DEF IInv, Typed
    <2>3. rows'[o] = [id |-> rows[o].id, state |-> "cancelled", bound |-> rows[o].bound,
                      size |-> rows[o].size, stamp |-> now]
          BY <1>0, <2>2 DEF Row
    <2>4. rows'[o] \in Row BY <1>0, <2>3 DEF Row, IInv, Typed
    <2> QED BY <2>3, <2>4 DEF Stands
  <1> QED BY <1>1, <1>2

(* "A delayed sender cannot resurrect the cancelled operation": no request,   *)
(* however late, and no crash turns a cancelled row into anything else before *)
(* it has expired or its task is deleted (cancel_attachment_upload,           *)
(* verify_upload_row).                                                        *)
THEOREM CancellationHolds == Spec => CancelStands
  <1>1. ASSUME IInv, [Next]_vars, NEW o \in Op PROVE Stands(o)
    <2>1. ASSUME NEW t \in Thread, Step(t) PROVE Stands(o) BY <1>1, <2>1, ThreadStands
    <2>2. ASSUME NEW t \in Client, NEW p \in Op, Cancel(t, p) PROVE Stands(o)
          BY <1>1, <2>2, CancelStaysCancelled
    <2>3. \/ \E t \in Thread : Step(t)
          \/ \E t \in Client, p \in Op : Cancel(t, p)
          \/ rows' = rows
          BY <1>1 DEF Next, vars, FileFault, Begin, Pin, Sweep, FinishTask, DeleteTask, Crash,
                      PowerFailure, Tick, Data
    <2> QED BY <2>1, <2>2, <2>3, SameStands
  <1>2. IInv /\ [Next]_vars =>
          [\A o \in Op : Exists(o) /\ rows[o].state = "cancelled" =>
              \/ rows'[o] # None /\ rows'[o].state = "cancelled"
              \/ rows'[o] = None /\ (Expired(o) \/ task = "deleted")]_vars
        BY <1>1 DEF Stands
  <1> QED BY <1>2, Invariant, PTL DEF Spec, CancelStands

-----------------------------------------------------------------------------
(* The account's limit of bytes.                                             *)

(* The rows whose bytes are charged.                                         *)
Staged == {o \in Op : Exists(o) /\ ~rows[o].bound /\ rows[o].size = 1}

Limits ==
    /\ calls \in 0..MaxCalls /\ faults \in 0..MaxFaults
    /\ IsFiniteSet(Staged) /\ Charged <= MaxBytes

LEMMA InitLimits == Init => Limits
  <1> SUFFICES ASSUME Init PROVE Limits OBVIOUS
  <1>1. Staged = {} BY DEF Init, Staged, Exists
  <1>2. Charged = Cardinality(Staged) BY DEF Charged, Staged
  <1>3. IsFiniteSet(Staged) /\ Charged = 0 BY <1>1, <1>2, FS_EmptySet
  <1> QED BY <1>3 DEF Init, Limits

(* Nothing new is charged, or one upload that fits.                          *)
Admitted == Staged' \subseteq Staged \/ (Fits /\ \E o \in Op : Staged' \subseteq Staged \cup {o})

LEMMA AdmittedFits == ASSUME Limits, Admitted
                      PROVE  IsFiniteSet(Staged)' /\ (Charged <= MaxBytes)'
  <1>1. Charged = Cardinality(Staged) /\ Charged' = Cardinality(Staged')
        BY DEF Charged, Staged, Exists
  <1>2. IsFiniteSet(Staged) /\ Charged \in Nat BY <1>1, FS_CardinalityType DEF Limits
  <1>3. CASE Staged' \subseteq Staged
    <2>1. IsFiniteSet(Staged') /\ Cardinality(Staged') <= Cardinality(Staged) /\ Cardinality(Staged') \in Nat
          BY <1>2, <1>3, FS_Subset, FS_CardinalityType
    <2> QED BY <1>1, <1>2, <2>1 DEF Limits
  <1>4. ASSUME Fits, NEW o \in Op, Staged' \subseteq Staged \cup {o}
        PROVE  IsFiniteSet(Staged') /\ Charged' <= MaxBytes
    <2>1. /\ IsFiniteSet(Staged \cup {o}) /\ Cardinality(Staged \cup {o}) \in Nat
          /\ Cardinality(Staged \cup {o}) <= Charged + 1
      <3>1. /\ IsFiniteSet(Staged \cup {o})
            /\ Cardinality(Staged \cup {o}) = Cardinality(Staged) \/ Cardinality(Staged \cup {o}) = Cardinality(Staged) + 1
            BY <1>2, FS_AddElement
      <3>2. Cardinality(Staged) \in Nat BY <1>1, <1>2
      <3> QED BY <1>1, <3>1, <3>2
    <2>2. /\ IsFiniteSet(Staged') /\ Cardinality(Staged') \in Nat
          /\ Cardinality(Staged') <= Cardinality(Staged \cup {o})
          BY <1>4, <2>1, FS_Subset, FS_CardinalityType
    <2> QED BY <1>1, <1>2, <1>4, <2>1, <2>2 DEF Fits
  <1> QED BY <1>1, <1>3, <1>4 DEF Admitted

LEMMA SameAdmitted == ASSUME rows' = rows PROVE Admitted
  BY DEF Admitted, Staged, Exists

(* A row that is changed in place is charged after only if it was before.    *)
LEMMA ChangedAdmitted ==
    ASSUME IInv, NEW o \in Op, NEW r \in Row \cup {None}, rows' = [rows EXCEPT ![o] = r],
           r # None => (Exists(o) /\ r.bound = FALSE /\ r.size = 1 => ~rows[o].bound /\ rows[o].size = 1)
                       /\ (~Exists(o) => r.size = 0)
    PROVE  Admitted
  <1>1. ASSUME NEW p \in Op, rows'[p] # None, ~rows'[p].bound, rows'[p].size = 1
        PROVE  Exists(p) /\ ~rows[p].bound /\ rows[p].size = 1
    <2>1. CASE p = o BY <1>1, <2>1 DEF IInv, Typed, Exists, Row
    <2>2. CASE p # o BY <1>1, <2>2 DEF IInv, Typed, Exists
    <2> QED BY <2>1, <2>2
  <1>2. Staged' = {p \in Op : rows'[p] # None /\ ~rows'[p].bound /\ rows'[p].size = 1}
        BY DEF Staged, Exists
  <1> QED BY <1>1, <1>2 DEF Admitted, Staged

LEMMA BeginAdmitted == ASSUME IInv, NEW t \in Thread, BeginRow(t) PROVE Admitted
  <1> DEFINE o == th[t].op
  <1>1. o \in Op BY Working DEF BeginRow, At, IInv
  <1>2. CASE rows' = rows BY <1>2, SameAdmitted
  <1>3. CASE Fits /\ rows' = [rows EXCEPT ![o] = NewRow("uploading", 1)]
    <2>1. \A p \in Op : p # o => rows'[p] = rows[p] BY <1>3 DEF IInv, Typed
    <2>2. Staged' \subseteq Staged \cup {o} BY <2>1 DEF Staged, Exists
    <2> QED BY <1>1, <1>3, <2>2 DEF Admitted
  <1> QED BY <1>2, <1>3 DEF BeginRow

LEMMA CancelAdmitted == ASSUME IInv, NEW t \in Client, NEW o \in Op, Cancel(t, o) PROVE Admitted
  <1>1. CASE Exists(o)
    <2> DEFINE r == [rows[o] EXCEPT !.state = "cancelled", !.stamp = now]
    <2>1. rows' = [rows EXCEPT ![o] = r] BY <1>1 DEF Cancel
    <2>2. rows[o] \in Row BY <1>1 DEF IInv, Typed, Exists
    <2>3. r \in Row /\ r.bound = rows[o].bound /\ r.size = rows[o].size
          BY <2>2 DEF Row, IInv, Typed
    <2> QED BY <1>1, <2>1, <2>2, <2>3, ChangedAdmitted DEF Row
  <1>2. CASE ~Exists(o)
    <2>1. rows' = [rows EXCEPT ![o] = NewRow("cancelled", 0)] /\ born < MaxRows BY <1>2 DEF Cancel
    <2>2. NewRow("cancelled", 0) \in Row /\ NewRow("cancelled", 0).size = 0
          BY <2>1 DEF NewRow, Row, IInv, Typed
    <2> QED BY <1>2, <2>1, <2>2, ChangedAdmitted
  <1> QED BY <1>1, <1>2

LEMMA ThreadAdmitted == ASSUME IInv, NEW t \in Thread, Step(t) PROVE Admitted
  <1> DEFINE o == th[t].op
  <1>1. CASE BeginRow(t) BY <1>1, BeginAdmitted
  <1>2. CASE FinishMetadata(t) \/ PinRow(t) \/ DropRow(t)
    <2>1. o \in Op /\ rows[o] \in Row /\ Exists(o)
          BY <1>2, OwnedRow DEF FinishMetadata, PinRow, DropRow, At, Owning, Uploading, Sweeping
    <2>2. CASE rows' = rows BY <2>2, SameAdmitted
    <2>3. CASE rows' = [rows EXCEPT ![o].state = "ready", ![o].stamp = now]
      <3> DEFINE r == [rows[o] EXCEPT !.state = "ready", !.stamp = now]
      <3>1. rows' = [rows EXCEPT ![o] = r] BY <2>3
      <3>2. r \in Row /\ r.bound = rows[o].bound /\ r.size = rows[o].size
            BY <2>1 DEF Row, IInv, Typed
      <3> QED BY <2>1, <3>1, <3>2, ChangedAdmitted DEF Row
    <2>4. CASE rows' = [rows EXCEPT ![o].bound = TRUE]
      <3> DEFINE r == [rows[o] EXCEPT !.bound = TRUE]
      <3>1. rows' = [rows EXCEPT ![o] = r] BY <2>4
      <3>2. r \in Row /\ r.bound = TRUE BY <2>1 DEF Row
      <3> QED BY <2>1, <3>1, <3>2, ChangedAdmitted
    <2>5. CASE rows' = [rows EXCEPT ![o].size = 0]
      <3> DEFINE r == [rows[o] EXCEPT !.size = 0]
      <3>1. rows' = [rows EXCEPT ![o] = r] BY <2>5
      <3>2. r \in Row /\ r.size = 0 BY <2>1 DEF Row
      <3> HIDE DEF r
      <3>3. r.size # 1 BY <3>2
      <3> QED BY <2>1, <3>1, <3>2, <3>3, ChangedAdmitted
    <2>6. CASE rows' = [rows EXCEPT ![o] = None] BY <2>1, <2>6, ChangedAdmitted
    <2> QED BY <1>2, <2>2, <2>3, <2>4, <2>5, <2>6 DEF FinishMetadata, PinRow, DropRow
  <1>3. CASE ~(BeginRow(t) \/ FinishMetadata(t) \/ PinRow(t) \/ DropRow(t))
    <2>1. rows' = rows
          BY <1>3 DEF Step, OpenFile, Prepare, UploadEnds, PublishFile, SyncFile, Collect, Clean,
                      CleanSync, Data
    <2> QED BY <2>1, SameAdmitted
  <1> QED BY <1>1, <1>2, <1>3

LEMMA BoundsStep == ASSUME Limits, [Next]_vars
                    PROVE  (calls \in 0..MaxCalls /\ faults \in 0..MaxFaults)'
  <1>1. ASSUME NEW t \in Thread, Step(t) PROVE UNCHANGED <<calls, faults>>
        BY <1>1 DEF Step, BeginRow, OpenFile, Prepare, UploadEnds, PublishFile, SyncFile, FinishMetadata,
                    Collect, Clean, CleanSync, DropRow, PinRow, Bounds
  <1>2. ASSUME NEW t \in Client, NEW o \in Op, Begin(t, o) \/ Cancel(t, o) \/ Pin(t, o)
        PROVE  calls < MaxCalls /\ calls' = calls + 1 /\ faults' = faults
        BY <1>2 DEF Begin, Cancel, Pin, Called
  <1>3. ASSUME NEW t \in Thread, FileFault(t) \/ Crash \/ PowerFailure
        PROVE  faults < MaxFaults /\ faults' = faults + 1 /\ calls' = calls
        BY <1>3 DEF FileFault, Crash, PowerFailure, Fault
  <1>4. ASSUME (\E o \in Op : Sweep(o)) \/ FinishTask \/ DeleteTask \/ Tick \/ UNCHANGED vars
        PROVE  UNCHANGED <<calls, faults>>
        BY <1>4 DEF Sweep, FinishTask, DeleteTask, Tick, Bounds, vars
  <1> QED BY <1>1, <1>2, <1>3, <1>4 DEF Next, Limits, Thread

LEMMA LimitsStep == ASSUME IInv, Limits, [Next]_vars PROVE Limits'
  <1>1. Admitted
    <2>1. \/ \E t \in Thread : Step(t)
          \/ \E t \in Client, p \in Op : Cancel(t, p)
          \/ rows' = rows
          BY DEF Next, vars, FileFault, Begin, Pin, Sweep, FinishTask, DeleteTask, Crash,
                 PowerFailure, Tick, Data
    <2> QED BY <2>1, ThreadAdmitted, CancelAdmitted, SameAdmitted
  <1> QED BY <1>1, AdmittedFits, BoundsStep DEF Limits

(* The bytes of staged uploads, cancelled ones that still lie on the disk     *)
(* included, never exceed the account's limit, whoever begins, cancels and    *)
(* collects at the same time (begin_attachment_upload_inner).                 *)
THEOREM TypeCorrect == Spec => []TypeOK
  <1>1. IInv /\ Limits => TypeOK BY DEF IInv, Typed, Limits, TypeOK
  <1> QED BY <1>1, InitLimits, LimitsStep, Invariant, PTL DEF Spec
=============================================================================
