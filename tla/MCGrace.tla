------------------------------ MODULE MCGrace ------------------------------
(***************************************************************************)
(* A call and three registries: calls do not act on each other. The unit   *)
(* of time is ten seconds: the grace is 7 units and a call's deadline 6.   *)
(***************************************************************************)
EXTENDS Grace
=============================================================================
