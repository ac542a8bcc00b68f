---------------------------- MODULE MCTokenStore ----------------------------
(* The instances of TokenStore: TokenStore.cfg gives the constants values. *)
EXTENDS TokenStore
=============================================================================
