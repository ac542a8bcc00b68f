------------------------ MODULE RequestQueue_proofs -------------------------
(***************************************************************************)
(* Proofs about the request queue, for every capacity, number of requests  *)
(* and number of deadlines that pass.                                      *)
(***************************************************************************)
EXTENDS RequestQueue, FiniteSetTheorems, TLAPS

(* Tickets are numbered from nextTicket on, and nothing beyond the window  *)
(* has been admitted or returned.                                          *)
Numbered == \A t \in Tickets : pc[t] = "new" <=> t >= nextTicket
AdmittedInWindow == \A t \in Tickets : pc[t] \in {"holding", "done"} => InWindow(t)

IInv == /\ TypeOK
        /\ Numbered
        /\ AdmittedInWindow
        /\ ServingIsFirstUnreturned
        /\ ReleasedMapBounded

(* The capacity is a positive number whatever was configured (queue.go:58-61). *)
LEMMA CapacityPositive == maxConcurrency \in Nat \ {0}
  BY QueueAssumption DEF maxConcurrency

(* A set of tickets of the current window that leaves one of them out is   *)
(* smaller than the capacity.                                              *)
LEMMA WindowCapacity ==
  ASSUME NEW a \in Int, NEW S \in SUBSET (a .. a + maxConcurrency - 1)
  PROVE  /\ IsFiniteSet(S)
         /\ Cardinality(S) <= maxConcurrency
         /\ \A t \in a .. a + maxConcurrency - 1 :
              t \notin S => Cardinality(S) < maxConcurrency
<1> DEFINE W == a .. a + maxConcurrency - 1
<1>1. IsFiniteSet(W) /\ Cardinality(W) = maxConcurrency
  BY FS_Interval, CapacityPositive
<1>2. IsFiniteSet(S) /\ Cardinality(S) <= Cardinality(W)
      /\ (Cardinality(S) = Cardinality(W) => W = S)
  BY <1>1, FS_Subset
<1>3. Cardinality(S) \in Nat
  BY <1>2, FS_CardinalityType
<1>4. ASSUME NEW t \in W, t \notin S
      PROVE  Cardinality(S) < maxConcurrency
  BY <1>1, <1>2, <1>3, <1>4, CapacityPositive
<1> QED
  BY <1>1, <1>2, <1>4

(* The queue starts empty, with every ticket new. *)
LEMMA InitInv == Init => IInv
  BY QueueAssumption, CapacityPositive
  DEF Init, IInv, TypeOK, Numbered, AdmittedInWindow, ServingIsFirstUnreturned,
      ReleasedMapBounded, Tickets, States, Unlocked, InWindow

(* Release keeps the invariant: the tickets it moves servingTicket over    *)
(* are exactly the returned ones (queue.go:128-137).                       *)
LEMMA ReleaseInv ==
  ASSUME IInv, NEW t \in Tickets, Release(t)
  PROVE  IInv'
<1> USE QueueAssumption, CapacityPositive
<1>1. PICK s \in servingTicket .. nextTicket :
        /\ FirstUnreleased(releasedTickets \union {t}, s)
        /\ servingTicket' = s
        /\ releasedTickets' = (releasedTickets \union {t}) \ (servingTicket .. s - 1)
  BY DEF Release, Advance
<1>2. \A u \in Tickets : pc'[u] = "done" <=> (u = t \/ pc[u] = "done")
  BY DEF Release, Woken, IInv, TypeOK
<1>3. \A u \in Tickets : pc'[u] = "new" <=> pc[u] = "new"
  BY DEF Release, Woken, IInv, TypeOK
<1>4. \A u \in Tickets : pc'[u] = "holding" => pc[u] = "holding"
  BY DEF Release, Woken, IInv, TypeOK
<1>5. TypeOK'
  <2>1. pc' \in [Tickets -> States]
    BY DEF Release, Woken, IInv, TypeOK, States
  <2>2. servingTicket' \in 0 .. nextTicket' /\ releasedTickets' \subseteq Tickets
    BY <1>1 DEF Release, IInv, TypeOK
  <2> QED
    BY <2>1, <2>2 DEF Release, IInv, TypeOK
<1>6. Numbered'
  BY <1>3 DEF Release, IInv, Numbered
<1>7. AdmittedInWindow'
  <2> SUFFICES ASSUME NEW u \in Tickets, pc'[u] \in {"holding", "done"}
               PROVE  u < servingTicket' + maxConcurrency
    BY DEF AdmittedInWindow, InWindow
  <2>1. u < servingTicket + maxConcurrency
    BY <1>2, <1>4 DEF Release, IInv, AdmittedInWindow, InWindow
  <2>2. servingTicket \in Int /\ s \in Int /\ servingTicket <= s /\ u \in Int
    BY DEF IInv, TypeOK, Tickets
  <2>3. u < s + maxConcurrency
    BY <2>1, <2>2
  <2> QED
    BY <1>1, <2>3
<1>8. ServingIsFirstUnreturned'
  BY <1>1, <1>2 DEF IInv, TypeOK, ServingIsFirstUnreturned, FirstUnreleased, Tickets
<1>9. ReleasedMapBounded'
  <2>1. ASSUME NEW u \in releasedTickets'
        PROVE  u \in servingTicket' + 1 .. servingTicket' + maxConcurrency - 1
    <3>1. u \in Tickets /\ u \in releasedTickets \union {t} /\ u \notin servingTicket .. s - 1
      BY <1>1 DEF IInv, TypeOK
    <3>2. u # s /\ u >= servingTicket
      BY <1>1, <3>1 DEF FirstUnreleased, IInv, ReleasedMapBounded, ServingIsFirstUnreturned,
                        Release, TypeOK, Tickets
    <3>3. pc[u] \in {"holding", "done"}
      BY <3>1 DEF Release, IInv, ServingIsFirstUnreturned
    <3>4. u < servingTicket + maxConcurrency
      BY <3>3, <3>1 DEF IInv, AdmittedInWindow, InWindow
    <3> QED
      BY <1>1, <3>1, <3>2, <3>4 DEF IInv, TypeOK, Tickets
  <2> QED
    BY <2>1 DEF ReleasedMapBounded
<1> QED
  BY <1>5, <1>6, <1>7, <1>8, <1>9 DEF IInv

(* Every step keeps the invariant. *)
LEMMA StepInv == IInv /\ [Next]_vars => IInv'
<1> SUFFICES ASSUME IInv, [Next]_vars PROVE IInv'
  OBVIOUS
<1> USE QueueAssumption, CapacityPositive
    DEF IInv, TypeOK, Numbered, AdmittedInWindow, ServingIsFirstUnreturned,
        ReleasedMapBounded, InWindow, Tickets, States, Unlocked
<1>1. ASSUME NEW t \in Tickets, TakeTicket(t) PROVE IInv'
  BY <1>1 DEF TakeTicket
<1>2. ASSUME NEW t \in Tickets, Grant(t) PROVE IInv'
  BY <1>2 DEF Grant
<1>3. ASSUME NEW t \in Tickets, TimeOut(t) PROVE IInv'
  BY <1>3 DEF TimeOut
<1>4. ASSUME NEW t \in Tickets, StartTimer(t) PROVE IInv'
  BY <1>4 DEF StartTimer
<1>5. ASSUME NEW t \in Tickets, Park(t) PROVE IInv'
  BY <1>5 DEF Park
<1>6. ASSUME NEW t \in Tickets, Relock(t) PROVE IInv'
  BY <1>6 DEF Relock
<1>7. ASSUME NEW t \in Tickets, TimerFires(t) PROVE IInv'
  BY <1>7 DEF TimerFires, Woken
<1>8. ASSUME NEW t \in Tickets, Release(t) PROVE IInv'
  BY <1>8, ReleaseInv
<1>9. CASE TimePasses
  BY <1>9 DEF TimePasses
<1>10. CASE UNCHANGED vars
  BY <1>10 DEF vars
<1> QED
  BY <1>1, <1>2, <1>3, <1>4, <1>5, <1>6, <1>7, <1>8, <1>9, <1>10 DEF Next, Step

(* IInv holds in every reachable state. *)
THEOREM Invariance == Spec => []IInv
  BY InitInv, StepInv, PTL DEF Spec

(* Every variable keeps its type. *)
THEOREM TypeCorrect == Spec => []TypeOK
<1>1. IInv => TypeOK
  BY DEF IInv
<1> QED
  BY <1>1, Invariance, PTL

(* The requests that hold a slot are tickets of the current window. *)
LEMMA HoldingInWindow ==
  ASSUME IInv
  PROVE  /\ servingTicket \in Int
         /\ Holding \in SUBSET (servingTicket .. servingTicket + maxConcurrency - 1)
<1>1. ASSUME NEW t \in Holding
      PROVE  t \in servingTicket .. servingTicket + maxConcurrency - 1
  BY <1>1, CapacityPositive
  DEF IInv, TypeOK, Holding, Tickets, AdmittedInWindow, InWindow, ServingIsFirstUnreturned
<1> QED
  BY <1>1 DEF IInv, TypeOK, Holding

(* At most maxConcurrency requests hold a slot (queue.go:36-41, 100). *)
THEOREM BoundedConcurrency == Spec => []ConcurrencyBound
<1>1. IInv => ConcurrencyBound
  BY HoldingInWindow, WindowCapacity DEF ConcurrencyBound
<1> QED
  BY <1>1, Invariance, PTL

(* servingTicket is the first ticket not returned (queue.go:128-137). *)
THEOREM ServingCorrect == Spec => []ServingIsFirstUnreturned
<1>1. IInv => ServingIsFirstUnreturned
  BY DEF IInv
<1> QED
  BY <1>1, Invariance, PTL

(* The map of released tickets stays within one window (queue.go:132-136). *)
THEOREM ReleasedMapStaysSmall == Spec => []ReleasedMapBounded
<1>1. IInv => ReleasedMapBounded
  BY DEF IInv
<1> QED
  BY <1>1, Invariance, PTL

(* Everything below a ticket of the window that is not returned lies in    *)
(* the window too, so fewer than maxConcurrency such requests are ahead.   *)
LEMMA UnreturnedAhead ==
  ASSUME IInv, NEW t \in Tickets, InWindow(t), pc[t] # "done",
         NEW S \in SUBSET Tickets, \A u \in S : u < t /\ pc[u] # "done"
  PROVE  Cardinality(S) < maxConcurrency
<1> DEFINE W == servingTicket .. servingTicket + maxConcurrency - 1
<1>1. servingTicket \in Int /\ t \in W
  BY CapacityPositive DEF IInv, TypeOK, Tickets, InWindow, ServingIsFirstUnreturned
<1>2. S \in SUBSET W
  BY <1>1, CapacityPositive DEF IInv, TypeOK, Tickets, InWindow, ServingIsFirstUnreturned
<1>3. t \notin S
  BY <1>1
<1> QED
  BY <1>1, <1>2, <1>3, WindowCapacity

(* A step that gives a ticket its slot is Grant of that ticket.            *)
LEMMA OnlyGrantAdmits ==
  ASSUME IInv, [Next]_vars, NEW t \in Tickets, pc[t] # "holding", pc'[t] = "holding"
  PROVE  Grant(t)
  BY DEF IInv, TypeOK, Next, Step, vars, TakeTicket, Grant, TimeOut, StartTimer, Park, Relock,
         TimerFires, Release, TimePasses, Woken

(* A request is admitted over fewer than maxConcurrency unreturned ones    *)
(* (queue.go:100).                                                         *)
THEOREM OvertakingBounded == Spec => BoundedOvertaking
<1> DEFINE Ahead(t) == {u \in 0 .. t - 1 : pc[u] # "done"}
           Fair == \A t \in Tickets : pc[t] # "holding" /\ pc'[t] = "holding" =>
                      Cardinality(Ahead(t)) < maxConcurrency
<1>1. IInv /\ [Next]_vars => [Fair]_vars
  <2> SUFFICES ASSUME IInv, [Next]_vars, NEW t \in Tickets,
                      pc[t] # "holding", pc'[t] = "holding"
               PROVE  Cardinality(Ahead(t)) < maxConcurrency
    OBVIOUS
  <2>1. InWindow(t) /\ pc[t] # "done"
    BY OnlyGrantAdmits DEF Grant
  <2>2. Ahead(t) \in SUBSET Tickets /\ \A u \in Ahead(t) : u < t /\ pc[u] # "done"
    BY QueueAssumption DEF Tickets
  <2> QED
    BY <2>1, <2>2, UnreturnedAhead
<1> QED
  BY <1>1, Invariance, PTL DEF Spec, BoundedOvertaking

-----------------------------------------------------------------------------
(* The abstract module counts sets as this one does.                       *)
LEMMA SameCardinality == \A S : Admission!Cardinality(S) = Cardinality(S)
  BY DEF Admission!Cardinality, Cardinality

(* Every step of the queue is a step of the admission contract or leaves   *)
(* it unchanged: only taking a ticket, getting the slot, timing out and    *)
(* returning the lease are visible.                                        *)
LEMMA StepRefines ==
  IInv /\ [Next]_vars => [Admission!AbsNext]_(Admission!absVars)
<1> SUFFICES ASSUME IInv, [Next]_vars
             PROVE  Admission!AbsNext \/ UNCHANGED Admission!absVars
  OBVIOUS
<1> USE QueueAssumption DEF Admission!AbsNext, Admission!absVars, Holding, Waiting
<1>1. ASSUME NEW t \in Tickets, TakeTicket(t) PROVE Admission!Arrive
  BY <1>1 DEF TakeTicket, IInv, TypeOK, Numbered, Admission!Arrive
<1>2. ASSUME NEW t \in Tickets, Grant(t) PROVE Admission!Admit(t)
  <2>1. t \in Waiting /\ InWindow(t) /\ pc[t] # "done" /\ t \notin Holding
    BY <1>2 DEF Grant
  <2>2. t \in servingTicket .. servingTicket + maxConcurrency - 1
    BY <2>1, CapacityPositive
    DEF IInv, TypeOK, Tickets, InWindow, ServingIsFirstUnreturned
  <2>3. Cardinality(Holding) < maxConcurrency
    BY <2>1, <2>2, HoldingInWindow, WindowCapacity
  <2>4. Cardinality({q \in Waiting \union Holding : q < t}) < maxConcurrency
    <3> DEFINE S == {q \in Waiting \union Holding : q < t}
    <3>1. S \in SUBSET Tickets /\ \A u \in S : u < t /\ pc[u] # "done"
      OBVIOUS
    <3> QED
      BY <2>1, <3>1, UnreturnedAhead
  <2>5. Waiting' = Waiting \ {t} /\ Holding' = Holding \union {t}
    BY <1>2 DEF Grant, IInv, TypeOK
  <2> QED
    BY <1>2, <2>1, <2>3, <2>4, <2>5, SameCardinality DEF Grant, Admission!Admit
<1>3. ASSUME NEW t \in Tickets, TimeOut(t) PROVE Admission!GiveUp(t)
  BY <1>3 DEF TimeOut, IInv, TypeOK, Admission!GiveUp
<1>4. ASSUME NEW t \in Tickets, Release(t) PROVE Admission!Leave(t)
  BY <1>4 DEF Release, Woken, IInv, TypeOK, Admission!Leave
<1>5. ASSUME NEW t \in Tickets,
             StartTimer(t) \/ Park(t) \/ Relock(t) \/ TimerFires(t)
      PROVE  UNCHANGED Admission!absVars
  BY <1>5 DEF StartTimer, Park, Relock, TimerFires, Woken, IInv, TypeOK
<1>6. CASE TimePasses \/ UNCHANGED vars
  BY <1>6 DEF TimePasses, vars
<1> QED
  BY <1>1, <1>2, <1>3, <1>4, <1>5, <1>6 DEF Next, Step

(* The ticket queue implements the admission contract of its comments      *)
(* (queue.go:36-43), time-outs and stalled windows included.               *)
THEOREM AdmissionRefined == Spec => ImplementsAdmission
<1>1. Init => Admission!AbsInit
  BY DEF Init, Admission!AbsInit, Waiting, Holding
<1> QED
  BY <1>1, Invariance, StepRefines, PTL DEF Spec, ImplementsAdmission, Admission!AbsSpec
=============================================================================
