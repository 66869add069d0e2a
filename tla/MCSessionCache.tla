--------------------------- MODULE MCSessionCache ---------------------------
(* SessionCache for TLC; MCSessionCache.cfg names its instance. *)
EXTENDS SessionCache
=============================================================================
