------------------------------ MODULE MCKeySlots ------------------------------
(* Instances of KeySlots for TLC: two slots for each of two passwords. *)
EXTENDS KeySlots, TLC

CONSTANTS a1, a2, b1, b2, old, new

MCSlots == {a1, a2, b1, b2}

MCPwOf == [s \in MCSlots |-> IF s \in {a1, a2} THEN old ELSE new]
=============================================================================
