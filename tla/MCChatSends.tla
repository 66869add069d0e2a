----------------------------- MODULE MCChatSends -----------------------------
(* ChatSends for TLC: messages of one conversation. *)
EXTENDS ChatSends, TLC

Symmetry == Permutations(Send)
=============================================================================
