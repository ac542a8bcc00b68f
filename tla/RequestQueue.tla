---------------------------- MODULE RequestQueue ----------------------------
(***************************************************************************)
(* ConcurrentRequestQueue (internal/glmclient/queue.go): tickets, the      *)
(* serving window, a condition variable, and one sleeping goroutine per    *)
(* wait that stands in for a timed wait.  A request is known by its        *)
(* ticket, which is what every variable of the code is indexed by.         *)
(*                                                                         *)
(* Time is the number of tickets whose deadline has passed: every ticket   *)
(* has the same waitTimeout and takes its start time inside the critical   *)
(* section that numbers it, so deadlines pass in ticket order.             *)
(***************************************************************************)
EXTENDS Integers, FiniteSets

CONSTANTS ConfiguredConcurrency,  \* GLM_MAX_CONCURRENCY as configured, any integer
          MaxTickets,             \* bound: requests that arrive in a behaviour
          MaxElapsed              \* bound: deadlines that pass in a behaviour

ASSUME QueueAssumption ==
    /\ ConfiguredConcurrency \in Int
    /\ MaxTickets \in Nat
    /\ MaxElapsed \in Nat

VARIABLES nextTicket,       \* q.nextTicket
          servingTicket,    \* q.servingTicket
          releasedTickets,  \* keys of q.releasedTickets
          pc,               \* where the goroutine of each ticket stands
          mutex,            \* ticket whose goroutine holds q.mu.L, or Unlocked
          timers,           \* timer goroutines of a ticket that still sleep
          elapsed           \* tickets 0 .. elapsed-1 have waited waitTimeout

vars == <<nextTicket, servingTicket, releasedTickets, pc, mutex, timers, elapsed>>

Tickets == 0 .. MaxTickets - 1
Unlocked == -1

maxConcurrency == IF ConfiguredConcurrency < 1 THEN 1 ELSE ConfiguredConcurrency

States == {"new", "checking", "armed", "parked", "woken", "holding", "done", "timedout"}

Init ==
    /\ nextTicket = 0
    /\ servingTicket = 0
    /\ releasedTickets = {}
    /\ pc = [t \in Tickets |-> "new"]
    /\ mutex = Unlocked
    /\ timers = [t \in Tickets |-> 0]
    /\ elapsed = 0

\* Bug: one ticket too many fits the window.
InWindowOffByOne(t) == t <= servingTicket + maxConcurrency

InWindow(t) == t < servingTicket + maxConcurrency
DeadlinePassed(t) == t < elapsed

(* Acquire up to its loop: the ticket is numbered and the lock is kept. *)
TakeTicket(t) ==
    /\ t = nextTicket
    /\ mutex = Unlocked
    /\ nextTicket' = nextTicket + 1
    /\ mutex' = t
    /\ pc' = [pc EXCEPT ![t] = "checking"]
    /\ UNCHANGED <<servingTicket, releasedTickets, timers, elapsed>>

(* The loop condition fails: the request gets its lease. *)
Grant(t) ==
    /\ pc[t] = "checking"
    /\ InWindow(t)
    /\ pc' = [pc EXCEPT ![t] = "holding"]
    /\ mutex' = Unlocked
    /\ UNCHANGED <<nextTicket, servingTicket, releasedTickets, timers, elapsed>>

(* remaining <= 0: QueueTimeoutError.  The ticket is not recorded anywhere. *)
TimeOut(t) ==
    /\ pc[t] = "checking"
    /\ ~InWindow(t)
    /\ DeadlinePassed(t)
    /\ pc' = [pc EXCEPT ![t] = "timedout"]
    /\ mutex' = Unlocked
    /\ UNCHANGED <<nextTicket, servingTicket, releasedTickets, timers, elapsed>>

(* A timer goroutine is started while the lock is held ... *)
StartTimer(t) ==
    /\ pc[t] = "checking"
    /\ ~InWindow(t)
    /\ ~DeadlinePassed(t)
    /\ pc' = [pc EXCEPT ![t] = "armed"]
    /\ timers' = [timers EXCEPT ![t] = @ + 1]
    /\ UNCHANGED <<nextTicket, servingTicket, releasedTickets, mutex, elapsed>>

(* ... and only then does Wait join the condition variable's waiters and unlock. *)
Park(t) ==
    /\ pc[t] = "armed"
    /\ pc' = [pc EXCEPT ![t] = "parked"]
    /\ mutex' = Unlocked
    /\ UNCHANGED <<nextTicket, servingTicket, releasedTickets, timers, elapsed>>

\* Bug: the condition is tested once (if), not after every wake-up (for).
RelockWithoutRetest(t) ==
    /\ pc[t] = "woken"
    /\ mutex = Unlocked
    /\ pc' = [pc EXCEPT ![t] = "holding"]
    /\ UNCHANGED <<nextTicket, servingTicket, releasedTickets, mutex, timers, elapsed>>

(* Wait returns once it has the lock again; the loop tests its condition. *)
Relock(t) ==
    /\ pc[t] = "woken"
    /\ mutex = Unlocked
    /\ mutex' = t
    /\ pc' = [pc EXCEPT ![t] = "checking"]
    /\ UNCHANGED <<nextTicket, servingTicket, releasedTickets, timers, elapsed>>

(* q.mu.Broadcast(): every parked goroutine becomes runnable, no one else. *)
Woken(p) == [t \in Tickets |-> IF p[t] = "parked" THEN "woken" ELSE p[t]]

(* A timer goroutine wakes and broadcasts; it does not take the lock. *)
TimerFires(t) ==
    /\ timers[t] > 0
    /\ DeadlinePassed(t)
    /\ timers' = [timers EXCEPT ![t] = @ - 1]
    /\ pc' = Woken(pc)
    /\ UNCHANGED <<nextTicket, servingTicket, releasedTickets, mutex, elapsed>>

(* s is where the loop of release stops, given the released tickets. *)
FirstUnreleased(released, s) ==
    /\ s >= servingTicket
    /\ s \notin released
    /\ \A u \in servingTicket .. s - 1 : u \in released

(* The released ticket is recorded and servingTicket moves over the released ones. *)
Advance(t) ==
    \E s \in servingTicket .. nextTicket :
        /\ FirstUnreleased(releasedTickets \union {t}, s)
        /\ servingTicket' = s
        /\ releasedTickets' = (releasedTickets \union {t}) \ (servingTicket .. s - 1)

\* Bugs of release: it moves a whole window on; it forgets the released flag of the lease; it
\* does not broadcast; it advances by one ticket at most (if, not for).
ReleaseWindow(t) ==
    /\ pc[t] = "holding"
    /\ mutex = Unlocked
    /\ servingTicket' = servingTicket + maxConcurrency
    /\ pc' = Woken([pc EXCEPT ![t] = "done"])
    /\ UNCHANGED <<nextTicket, releasedTickets, mutex, timers, elapsed>>

ReleaseAnyTime(t) ==
    /\ pc[t] \in {"holding", "done"}
    /\ mutex = Unlocked
    /\ Advance(t)
    /\ pc' = Woken([pc EXCEPT ![t] = "done"])
    /\ UNCHANGED <<nextTicket, mutex, timers, elapsed>>

ReleaseSilently(t) ==
    /\ pc[t] = "holding"
    /\ mutex = Unlocked
    /\ Advance(t)
    /\ pc' = [pc EXCEPT ![t] = "done"]
    /\ UNCHANGED <<nextTicket, mutex, timers, elapsed>>

(* QueueLease.Release and release: a lease returns its slot once. *)
Release(t) ==
    /\ pc[t] = "holding"
    /\ mutex = Unlocked
    /\ Advance(t)
    /\ pc' = Woken([pc EXCEPT ![t] = "done"])
    /\ UNCHANGED <<nextTicket, mutex, timers, elapsed>>

(* waitTimeout has passed since ticket number elapsed was taken. *)
TimePasses ==
    /\ elapsed < nextTicket
    /\ elapsed < MaxElapsed
    /\ elapsed' = elapsed + 1
    /\ UNCHANGED <<nextTicket, servingTicket, releasedTickets, pc, mutex, timers>>

Step(t) == \/ Grant(t) \/ TimeOut(t) \/ StartTimer(t) \/ Park(t) \/ Relock(t)

Next ==
    \/ \E t \in Tickets : TakeTicket(t) \/ Step(t) \/ TimerFires(t) \/ Release(t)
    \/ TimePasses

Spec == Init /\ [][Next]_vars

(* A runnable goroutine runs, a timer goroutine whose time has come wakes, *)
(* and a caller returns its lease (queue.go:80).  Neither arrivals nor     *)
(* deadlines are fair: a behaviour may be one in which nobody waits long.  *)
Fairness ==
    \A t \in Tickets : /\ WF_vars(Step(t))
                       /\ WF_vars(TimerFires(t))
                       /\ WF_vars(Release(t))

FairSpec == Spec /\ Fairness

-----------------------------------------------------------------------------
Holding == {t \in Tickets : pc[t] = "holding"}
Waiting == {t \in Tickets : pc[t] \in {"checking", "armed", "parked", "woken"}}

TypeOK ==
    /\ nextTicket \in 0 .. MaxTickets
    /\ servingTicket \in 0 .. nextTicket
    /\ releasedTickets \subseteq Tickets
    /\ pc \in [Tickets -> States]
    /\ mutex \in Tickets \union {Unlocked}
    /\ timers \in [Tickets -> Nat]
    /\ elapsed \in 0 .. nextTicket

(* At most maxConcurrency requests talk to GLM at once, whatever order     *)
(* leases are returned in and however often the queue has stalled          *)
(* (queue.go:36-41).                                                       *)
ConcurrencyBound == Cardinality(Holding) <= maxConcurrency

(* servingTicket never passes a request that has not returned its lease    *)
(* (queue.go:128-137): the tickets below it are all returned, and a        *)
(* returned ticket is below it or waits in releasedTickets.                *)
ServingIsFirstUnreturned ==
    \A t \in Tickets :
        pc[t] = "done" <=> (t < servingTicket \/ t \in releasedTickets)

(* The map of tickets returned out of order cannot grow with the traffic:  *)
(* it holds only tickets of the current window, even when servingTicket    *)
(* no longer moves (queue.go:132-136).                                     *)
ReleasedMapBounded ==
    releasedTickets \subseteq servingTicket + 1 .. servingTicket + maxConcurrency - 1

(* Bounded overtaking (queue.go:100): when a request gets a slot, fewer    *)
(* than maxConcurrency earlier requests are without their lease returned,  *)
(* those that timed out included.                                          *)
BoundedOvertaking ==
    [][\A t \in Tickets :
         pc[t] # "holding" /\ pc'[t] = "holding" =>
            Cardinality({u \in 0 .. t - 1 : pc[u] # "done"}) < maxConcurrency]_vars

(* As long as no request gives up, every request that takes a ticket is    *)
(* served: a waiter whose own timer went off too early, between its start  *)
(* and Wait (queue.go:107-114), is still woken by the releases of those    *)
(* before it (queue.go:138).                                               *)
EveryTicketServed ==
    [](\A t \in Tickets : pc[t] # "timedout") =>
        \A t \in Tickets : pc[t] = "checking" ~> pc[t] = "done"

-----------------------------------------------------------------------------
Admission == INSTANCE AdmissionSlots WITH
                Slots <- maxConcurrency,
                Requests <- Tickets,
                arrived <- nextTicket,
                waiting <- Waiting,
                holding <- Holding

(* The ticket queue implements the admission contract of queue.go:36-43.   *)
ImplementsAdmission == Admission!AbsSpec
=============================================================================
