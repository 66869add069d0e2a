------------------------- MODULE MCTransportSessions -------------------------
(* TransportSessions for TLC; MCTransportSessions.cfg names its instance. *)
EXTENDS TransportSessions
=============================================================================
