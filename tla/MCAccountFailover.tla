------------------------- MODULE MCAccountFailover --------------------------
(***************************************************************************)
(* The failover calls on small instances.                                  *)
(***************************************************************************)
EXTENDS AccountFailover
=============================================================================
