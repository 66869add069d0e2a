------------------------------ MODULE StoreDisk ------------------------------
(***************************************************************************)
(* The root directory store-v1/ of the local store, and what the free      *)
(* functions of lifecycle.rs do to it: the four database directories       *)
(*                                                                         *)
(*     db    the store in use          db.tmp  staging, uncommitted        *)
(*     db.new  staged and committed    db.old  retired source              *)
(*                                                                         *)
(* and the setup journal setup.json.  A directory is a value with an       *)
(* identity (ino), because a change of its contents is seen under whatever *)
(* name it has, also in a root directory that a power failure brings back. *)
(***************************************************************************)
EXTENDS Naturals, Sequences, FiniteSets

CONSTANT Rows            \* the saved rows (messages) a database can hold

-----------------------------------------------------------------------------
Names == {"db", "tmp", "new", "old"}

Modes == {"plain", "password"}

Phases == {"BuildReplacement", "RetireOld", "AwaitChoice", "InstallNew", "Installed"}

(* absent: no such name.  empty: a directory without generation.json and    *)
(* without data.  part: generation.json without a complete database (being  *)
(* built, or being deleted).  bare: a database without generation.json.     *)
(* full: both, synchronized.                                                *)
Kinds == {"absent", "empty", "part", "bare", "full"}

Dirs == [kind : Kinds, ino : Nat, gen : Nat, rows : SUBSET Rows, mode : Modes]

Absent == [kind |-> "absent", ino |-> 0, gen |-> 0, rows |-> {}, mode |-> "plain"]

(* private_directory: a new directory, no entries yet. *)
EmptyDir(i) == [Absent EXCEPT !.kind = "empty", !.ino = i]

Present(dir) == dir.kind # "absent"

(* SetupJournal.  The operation id and the new store id are drawn together, *)
(* so the replacement generation they name is one number.                   *)
Journals == [after : {"Erase", "StartFresh"}, mode : Modes,
             old : Nat, new : Nat, phase : Phases]

NoJournal == [after |-> "none", mode |-> "plain", old |-> 0, new |-> 0, phase |-> "none"]

Disks == [dir : [Names -> Dirs], setup : Journals \cup {NoJournal}]

(* read_generation: the identity in generation.json, 0 when there is none.  *)
ReadGeneration(dir) == IF dir.kind \in {"part", "full"} THEN dir.gen ELSE 0

Inos(d) == {d.dir[n].ino : n \in Names}

-----------------------------------------------------------------------------
(* Changes of the root directory and changes of one directory's contents.   *)

SetDir(d, n, dir) == [d EXCEPT !.dir[n] = dir]

(* durable_rename / replace_key_file on a directory. *)
Rename(d, from, to) ==
    [d EXCEPT !.dir = [@ EXCEPT ![to] = d.dir[from], ![from] = Absent]]

(* A change of contents reaches every name the directory has. *)
Rewrite(d, i, dir) ==
    [d EXCEPT !.dir = [n \in Names |-> IF d.dir[n].ino = i THEN dir ELSE d.dir[n]]]

(* Mutant: a deletion that never gets to the identity. *)
ShrinkKeepsIdentity(dir) == [dir EXCEPT !.kind = "part", !.rows = {}]

(* remove_generation_directory deletes the data files, then the identity,   *)
(* then the directory; the last of the three is a change of the root.       *)
Shrink(dir) ==
    IF dir.kind = "full" THEN [dir EXCEPT !.kind = "part", !.rows = {}]
                         ELSE [dir EXCEPT !.kind = "empty", !.rows = {}]

-----------------------------------------------------------------------------
(* preflight_setup: what the directories may look like beside this journal. *)
PreflightSetup(d, j) ==
    LET cur == ReadGeneration(d.dir.db)
        tmp == d.dir.tmp
        new == d.dir.new
        old == d.dir.old
    IN  /\ (j.phase = "BuildReplacement" /\ cur # j.new) =>
              cur = j.old /\ ~Present(old) /\ ~Present(new)
        /\ IF cur # 0 THEN cur \in {j.old, j.new}
                      ELSE d.dir.db.kind \in {"absent", "empty"}
        /\ Present(old) =>
              (old.kind = "empty" \/ ReadGeneration(old) = j.old) /\ cur # j.old
        /\ Present(new) =>
              new.kind = "full" /\ new.gen = j.new /\ cur # j.new
        /\ Present(tmp) =>
              cur # j.new /\ (tmp.kind = "empty" \/ ReadGeneration(tmp) = j.new)
        /\ (j.phase = "InstallNew" /\ cur # j.new /\ ~Present(new)) =>
              tmp.kind = "full" /\ tmp.gen = j.new

(* Mutants: the replaced store is left in db.old; the source is retired but *)
(* its attachment tree is not.                                              *)
InstallKeepsOld == <<"swap_old", "swap_new">>

RetireKeepsAttachments(j) ==
    <<"retire_db">>
        \o (IF j.phase # "InstallNew" THEN <<"drop_old">> ELSE <<>>)
        \o (IF j.phase = "RetireOld" THEN <<"await">> ELSE <<>>)

(* The steps of install_committed, finish_setup and retire_old. *)
InstallCommitted == <<"swap_old", "swap_new", "drop_old">>

FinishSetup == <<"att_old", "drop_old", "mark", "unmark">>

RetireOld(j) ==
    <<"retire_db">>
        \o (IF j.phase # "InstallNew" THEN <<"att_old", "drop_old">> ELSE <<>>)
        \o (IF j.phase = "RetireOld" THEN <<"await">> ELSE <<>>)

(* recover_filesystem: the steps it will take from the root directory it    *)
(* finds.  "none" and "pending" are its results (no journal left, or the    *)
(* journal that is), "conflict" its LifecycleError::Generation.             *)
RecoverFilesystem(d) ==
    LET j   == d.setup
        cur == ReadGeneration(d.dir.db)
    IN  IF j # NoJournal
        THEN IF ~PreflightSetup(d, j) THEN <<"conflict">>
             ELSE IF cur = j.new THEN FinishSetup \o <<"none">>
             ELSE IF j.phase = "BuildReplacement" THEN <<"discard", "att_new", "pending">>
             ELSE IF j.phase = "Installed" THEN <<"conflict">>
             ELSE RetireOld(j) \o
                  (IF Present(d.dir.new)
                     THEN InstallCommitted \o FinishSetup \o <<"none">>
                   ELSE IF j.phase = "InstallNew"
                     THEN <<"commit">> \o InstallCommitted \o FinishSetup \o <<"none">>
                   ELSE <<"discard", "pending">>)
        ELSE (IF ~Present(d.dir.tmp) THEN <<>>
              ELSE IF cur = 0 THEN <<"conflict">> ELSE <<"discard">>)
             \o (IF Present(d.dir.new) THEN InstallCommitted
                 ELSE IF ~Present(d.dir.old) THEN <<>>
                 ELSE IF cur = 0 THEN <<"conflict">> ELSE <<"drop_old">>)
             \o <<"none">>

-----------------------------------------------------------------------------
(* The store a restart would end up with: which directory recovery installs *)
(* as db, or Absent when it would ask for setup.                            *)
Survivor(d) ==
    LET j   == d.setup
        cur == ReadGeneration(d.dir.db)
    IN  IF j = NoJournal
          THEN IF Present(d.dir.new) THEN d.dir.new ELSE d.dir.db
        ELSE IF cur = j.new \/ j.phase = "BuildReplacement" THEN d.dir.db
        ELSE IF Present(d.dir.new) THEN d.dir.new
        ELSE IF j.phase = "InstallNew" THEN d.dir.tmp
        ELSE Absent
=============================================================================
