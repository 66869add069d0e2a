----------------------------- MODULE DurableStore -----------------------------
(***************************************************************************)
(* What the local store promises of the rows it acknowledged, without      *)
(* directories, journals or recovery: a saved row stays until a confirmed  *)
(* reset or a confirmed salvage drops it.  A power failure may undo only   *)
(* such a confirmed loss, never a save.                                    *)
(***************************************************************************)
EXTENDS Naturals

CONSTANT Rows

VARIABLES
    held,                \* the rows a restart would find
    kept,                \* the rows acknowledged whose loss nobody confirmed
    undo                 \* the row sets a power failure may bring back

vars == <<held, kept, undo>>

Init == held = {} /\ kept = {} /\ undo = {}

(* A commit is durable when it is acknowledged. *)
Save(r) ==
    /\ held' = held \cup {r}
    /\ kept' = kept \cup {r}
    /\ undo' = {u \cup {r} : u \in undo}

(* A confirmed reset, or a confirmed salvage of the rows R.  Its intent may *)
(* not be durable yet.                                                      *)
Drop(R) ==
    /\ held' = R
    /\ kept' = kept \cap R
    /\ undo' \in {{}, undo \cup {held}}

(* A synchronization: what was undone before it can no longer come back. *)
Settle ==
    /\ UNCHANGED <<held, kept>>
    /\ undo' \in {{}, undo \cup {held}}

(* The bytes of a dropped store are deleted before the drop is durable. *)
Purge ==
    /\ held = {}
    /\ undo # {} /\ undo' \in SUBSET SUBSET (UNION undo)
    /\ UNCHANGED <<held, kept>>

PowerLoss == held' \in undo /\ undo' = {} /\ UNCHANGED kept

Next ==
    \/ \E r \in Rows : Save(r)
    \/ \E R \in SUBSET held : Drop(R)
    \/ Settle \/ Purge \/ PowerLoss

Spec == Init /\ [][Next]_vars
=============================================================================
