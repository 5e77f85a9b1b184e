---------------------------- MODULE MCRouteTable ----------------------------
(* A gateway following a registry with one API and two versions.            *)
EXTENDS RouteTable, TLC

CONSTANTS a1, v1, v2

TwoVersions == v1 :> a1 @@ v2 :> a1
=============================================================================
