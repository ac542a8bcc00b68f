---------------------------- MODULE MCChatStream ----------------------------
(***************************************************************************)
(* The chat stream on small instances, and the contract of the lease that  *)
(* one run refutes.                                                        *)
(***************************************************************************)
EXTENDS ChatStream

(* queue.go:80: a lease that was obtained must be released when it is no   *)
(* longer used; also when the client has left (chat.go:62-109).            *)
LeaseReturned == (lease = "held" /\ hasModel) ~> lease = "released"
=============================================================================
