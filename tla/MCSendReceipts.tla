--------------------------- MODULE MCSendReceipts ---------------------------
(* SendReceipts for TLC. *)
EXTENDS SendReceipts
=============================================================================
