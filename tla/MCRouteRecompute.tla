-------------------------- MODULE MCRouteRecompute --------------------------
(* TLC instance of RouteRecompute.                                         *)
EXTENDS RecomputeProperties
=============================================================================
