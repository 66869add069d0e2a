---------------------------- MODULE MCRouteHealth ----------------------------
(* RouteHealth for TLC; MCRouteHealth.cfg names its instance. *)
EXTENDS RouteHealth
=============================================================================
