--------------------------- MODULE AdmissionSlots ---------------------------
(***************************************************************************)
(* What the request queue promises its callers, without tickets, condition *)
(* variables or timers: at most Slots requests hold a slot, and a request  *)
(* is admitted only when fewer than Slots of the requests that arrived     *)
(* before it are still unserved (queue.go:36-43).  Requests are numbered   *)
(* by arrival.                                                             *)
(***************************************************************************)
EXTENDS Integers, FiniteSets

CONSTANTS Slots, Requests

VARIABLES arrived,   \* how many requests have arrived
          waiting,   \* requests that wait for a slot
          holding    \* requests that hold one

absVars == <<arrived, waiting, holding>>

AbsInit == arrived = 0 /\ waiting = {} /\ holding = {}

Arrive ==
    /\ arrived \in Requests
    /\ arrived' = arrived + 1
    /\ waiting' = waiting \union {arrived}
    /\ UNCHANGED holding

Admit(r) ==
    /\ r \in waiting
    /\ Cardinality(holding) < Slots
    /\ Cardinality({q \in waiting \union holding : q < r}) < Slots
    /\ waiting' = waiting \ {r}
    /\ holding' = holding \union {r}
    /\ UNCHANGED arrived

GiveUp(r) ==
    /\ r \in waiting
    /\ waiting' = waiting \ {r}
    /\ UNCHANGED <<arrived, holding>>

Leave(r) ==
    /\ r \in holding
    /\ holding' = holding \ {r}
    /\ UNCHANGED <<arrived, waiting>>

AbsNext == Arrive \/ \E r \in Requests : Admit(r) \/ GiveUp(r) \/ Leave(r)

AbsSpec == AbsInit /\ [][AbsNext]_absVars
=============================================================================
