--------------------------- MODULE MCRequestQueue ---------------------------
(***************************************************************************)
(* The request queue on small instances, and a thing its comments say that *)
(* a run refutes.                                                          *)
(***************************************************************************)
EXTENDS RequestQueue

(* queue.go:43: a request that has waited longer than waitTimeout gets a   *)
(* QueueTimeoutError (or a slot after all): it does not wait on.  The      *)
(* timer that is to wake it (queue.go:107-113) broadcasts without the      *)
(* lock, possibly before Wait has joined the waiters (queue.go:114); then  *)
(* only another request can wake it, and behind a ticket that timed out    *)
(* the window stands still, so that nobody need come.                      *)
AnsweredAfterDeadline ==
    \A t \in Tickets : t \in Waiting /\ DeadlinePassed(t) ~> t \notin Waiting
=============================================================================
