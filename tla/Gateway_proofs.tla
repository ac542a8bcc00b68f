--------------------------- MODULE Gateway_proofs ---------------------------
(***************************************************************************)
(* Proofs about the gateway, for every number of slots and requests (even  *)
(* infinitely many), every limit of retries and every traffic.             *)
(***************************************************************************)
EXTENDS Gateway, FiniteSetTheorems, TLAPS

Unopened == {"new", "queued", "admitted", "opening"}
Inside == {"admitted", "opening", "reading", "resuming", "finishing", "stuck",
           "cleanup", "releasing"}

(* Requests are numbered from arrived on; those that wait are queued; those *)
(* that hold a slot are inside, or panicked and took it with them; and the  *)
(* slots suffice.                                                           *)
Numbered == \A r \in Requests : stage[r] = "new" <=> r >= arrived
WaitersQueued == \A r \in Requests : r \in waiting <=> stage[r] = "queued"
HoldersInside ==
    \A r \in Requests : r \in holding <=> (stage[r] \in Inside \/ answer[r] = "panic")
SlotsSuffice == IsFiniteSet(holding) /\ Cardinality(holding) <= Slots

(* What a phase says of the body of GLM's response ...                     *)
BodyFitsStage(r) ==
    /\ stage[r] \in Unopened => upstream[r] = "none"
    /\ stage[r] = "reading" => upstream[r] = "open"
    /\ stage[r] \in {"resuming", "releasing", "closing"} => upstream[r] = "closed"
    /\ stage[r] \in {"finishing", "stuck", "cleanup"} => upstream[r] # "none"
    /\ stage[r] = "over" => upstream[r] # "open"

(* ... of the answer of the handler ...                                    *)
AnswerFitsStage(r) ==
    /\ stage[r] \in Unopened => answer[r] = "none"
    /\ stage[r] \notin Unopened \union {"over"} => answer[r] \in {"none", "cut"}
    /\ answer[r] = "cut" => client[r] = "gone"
    /\ stage[r] = "over" =>
         /\ answer[r] # "none"
         /\ answer[r] \in {"full", "cut"} <=> upstream[r] = "closed"

(* ... and of the conversation, which is deleted if it was never resumed.  *)
DeletionFitsStage(r) ==
    /\ stage[r] \in Unopened => resumes[r] = 0
    /\ stage[r] = "resuming" => resumes[r] < MaxRetries
    /\ deletion[r] => stage[r] \in {"releasing", "closing", "over"} /\ upstream[r] = "closed"
    /\ stage[r] \in {"releasing", "closing"} => (deletion[r] <=> resumes[r] = 0)

Phases == \A r \in Requests :
    BodyFitsStage(r) /\ AnswerFitsStage(r) /\ DeletionFitsStage(r)

IInv == TypeOK /\ Numbered /\ WaitersQueued /\ HoldersInside /\ SlotsSuffice /\ Phases

(* Cardinality means the same in the instance of AdmissionSlots. *)
LEMMA SameCardinality == \A S : Queue!Cardinality(S) = Cardinality(S)
  BY DEF Queue!Cardinality, Cardinality

(* A set of requests that gains one while it is short of Slots still fits; *)
(* one that loses one fits all the more.                                   *)
LEMMA SlotCount ==
  ASSUME NEW S, IsFiniteSet(S), Cardinality(S) <= Slots, NEW r
  PROVE  /\ Cardinality(S) < Slots =>
              IsFiniteSet(S \union {r}) /\ Cardinality(S \union {r}) <= Slots
         /\ IsFiniteSet(S \ {r}) /\ Cardinality(S \ {r}) <= Slots
<1>1. Cardinality(S) \in Nat /\ Slots \in Nat
  BY FS_CardinalityType, GatewayAssumption
<1>2. /\ IsFiniteSet(S \union {r})
      /\ Cardinality(S \union {r}) = IF r \in S THEN Cardinality(S) ELSE Cardinality(S) + 1
  BY FS_AddElement
<1>3. /\ IsFiniteSet(S \ {r})
      /\ Cardinality(S \ {r}) = IF r \in S THEN Cardinality(S) - 1 ELSE Cardinality(S)
  BY FS_RemoveElement
<1> QED
  BY <1>1, <1>2, <1>3

(* The gateway starts with no request. *)
LEMMA InitInv == Init => IInv
<1> SUFFICES ASSUME Init PROVE IInv
  OBVIOUS
<1>1. SlotsSuffice
  BY FS_EmptySet, GatewayAssumption DEF Init, Queue!AbsInit, SlotsSuffice
<1> QED
  BY <1>1, GatewayAssumption
  DEF Init, Queue!AbsInit, IInv, TypeOK, Numbered, WaitersQueued, HoldersInside, Phases,
      BodyFitsStage, AnswerFitsStage, DeletionFitsStage, Unopened, Inside, Stages, Answers

(* The clean-up of a request decides about its conversation alone. *)
LEMMA DeletionDecided ==
  ASSUME deletion \in [Requests -> BOOLEAN], NEW r \in Requests, CleanUp(r)
  PROVE  /\ deletion' \in [Requests -> BOOLEAN]
         /\ deletion'[r] <=> resumes[r] = 0
         /\ \A q \in Requests \ {r} : deletion'[q] <=> deletion[q]
<1>1. deletion' = [deletion EXCEPT ![r] = (resumes[r] = 0)]
  BY DEF CleanUp
<1>2. deletion' \in [Requests -> BOOLEAN]
  BY <1>1, Zenon
<1>3. deletion'[r] = (resumes[r] = 0)
  BY <1>1, Zenon
<1>4. \A q \in Requests \ {r} : deletion'[q] = deletion[q]
  BY <1>1
<1> QED
  BY <1>2, <1>3, <1>4, Zenon

(* Every step keeps the invariant. *)
LEMMA StepInv == IInv /\ [Next]_vars => IInv'
<1> SUFFICES ASSUME IInv, [Next]_vars PROVE IInv'
  OBVIOUS
<1> USE GatewayAssumption
    DEF IInv, TypeOK, Numbered, WaitersQueued, HoldersInside, SlotsSuffice, Phases,
        BodyFitsStage, AnswerFitsStage, DeletionFitsStage, Unopened, Inside, Stages,
        Answers, Kinds, Goto, Answered, queueVars, callVars, resultVars, processVars
<1>1. CASE Arrive
  BY <1>1 DEF Arrive, Queue!Arrive
<1>2. ASSUME NEW r \in Requests, Admit(r) PROVE IInv'
  <2>1. SlotsSuffice'
    BY <1>2, SlotCount, SameCardinality DEF Admit, Queue!Admit
  <2> QED
    BY <1>2, <2>1 DEF Admit, Queue!Admit
<1>3. ASSUME NEW r \in Requests, GiveUp(r) PROVE IInv'
  BY <1>3 DEF GiveUp, Queue!GiveUp
<1>4. ASSUME NEW r \in Requests, OpenFails(r) PROVE IInv'
  <2>1. SlotsSuffice'
    BY <1>4, SlotCount DEF OpenFails, Queue!Leave
  <2> QED
    BY <1>4, <2>1 DEF OpenFails, Queue!Leave
<1>5. ASSUME NEW r \in Requests, Return(r) PROVE IInv'
  <2>1. SlotsSuffice'
    BY <1>5, SlotCount DEF Return, Queue!Leave
  <2> QED
    BY <1>5, <2>1 DEF Return, Queue!Leave
<1>6. ASSUME NEW r \in Requests, OpenPanics(r) PROVE IInv'
  BY <1>6 DEF OpenPanics
<1>7. ASSUME NEW r \in Requests, Upload(r) PROVE IInv'
  BY <1>7 DEF Upload
<1>8. ASSUME NEW r \in Requests, Open(r) PROVE IInv'
  BY <1>8 DEF Open
<1>9. ASSUME NEW r \in Requests, BusyRetry(r) PROVE IInv'
  BY <1>9 DEF BusyRetry
<1>10. ASSUME NEW r \in Requests, Break(r) PROVE IInv'
  BY <1>10 DEF Break
<1>11. ASSUME NEW r \in Requests, ContinueStream(r) PROVE IInv'
  BY <1>11 DEF ContinueStream
<1>12. ASSUME NEW r \in Requests, ContinueFails(r) PROVE IInv'
  BY <1>12 DEF ContinueFails
<1>13. ASSUME NEW r \in Requests, StreamEnds(r) PROVE IInv'
  BY <1>13 DEF StreamEnds
<1>14. ASSUME NEW r \in Requests, Block(r) PROVE IInv'
  BY <1>14 DEF Block
<1>15. ASSUME NEW r \in Requests, Finish(r) PROVE IInv'
  BY <1>15 DEF Finish
<1>16. ASSUME NEW r \in Requests, CleanUp(r) PROVE IInv'
  <2>1. TypeOK'
    <3>1. deletion' \in [Requests -> BOOLEAN]
      BY <1>16, DeletionDecided
    <3>2. stage' \in [Requests -> Stages] /\ upstream' \in [Requests -> {"none", "open", "closed"}]
      BY <1>16 DEF CleanUp
    <3>3. UNCHANGED <<queueVars, callVars, answer, processVars>>
      BY <1>16 DEF CleanUp
    <3> QED
      BY <3>1, <3>2, <3>3
  <2>2. Phases'
    <3>1. /\ deletion'[r] <=> resumes[r] = 0
          /\ \A q \in Requests \ {r} : deletion'[q] <=> deletion[q]
      BY <1>16, DeletionDecided
    <3>2. /\ stage[r] = "cleanup" /\ UNCHANGED <<client, resumes, answer>>
          /\ stage' = [stage EXCEPT ![r] = "releasing"]
          /\ upstream' = [upstream EXCEPT ![r] = "closed"]
      BY <1>16 DEF CleanUp
    <3> QED
      BY <3>1, <3>2
  <2> QED
    BY <1>16, <2>1, <2>2 DEF CleanUp
<1>17. ASSUME NEW r \in Requests, Respond(r) PROVE IInv'
  BY <1>17 DEF Respond
<1>18. ASSUME NEW r \in Requests, ClientLeaves(r) PROVE IInv'
  BY <1>18 DEF ClientLeaves
<1>19. ASSUME NEW r \in Requests, Abort(r) PROVE IInv'
  BY <1>19 DEF Abort
<1>20. CASE Process
  <2>1. CASE Run
    BY <2>1 DEF Run
  <2>2. CASE Shutdown
    BY <2>2 DEF Shutdown
  <2>3. CASE ShutdownReturns
    BY <2>3 DEF ShutdownReturns
  <2>4. CASE Exit
    BY <2>4 DEF Exit
  <2> QED
    BY <1>20, <2>1, <2>2, <2>3, <2>4 DEF Process
<1>21. CASE UNCHANGED vars
  BY <1>21 DEF vars
<1> QED
  BY <1>1, <1>2, <1>3, <1>4, <1>5, <1>6, <1>7, <1>8, <1>9, <1>10, <1>11, <1>12, <1>13, <1>14, <1>15, <1>16, <1>17, <1>18, <1>19, <1>20, <1>21
  DEF Next, Request, Progress, Opening, Streaming, Leaving

(* IInv holds in every reachable state. *)
THEOREM Invariance == Spec => []IInv
  BY InitInv, StepInv, PTL DEF Spec

(* Every variable keeps its type. *)
THEOREM TypeCorrect == Spec => []TypeOK
<1>1. IInv => TypeOK
  BY DEF IInv
<1> QED
  BY <1>1, Invariance, PTL

(* GLM never sees more open streams than there are slots: whoever has one  *)
(* open holds a slot (chat.go:66-76, image.go:71-76).                      *)
THEOREM UpstreamNeverExceedsSlots == Spec => []UpstreamBounded
<1>1. IInv => UpstreamBounded
  <2> SUFFICES ASSUME IInv PROVE UpstreamBounded
    OBVIOUS
  <2> DEFINE Streams == {r \in Requests : upstream[r] = "open"}
  <2>1. Streams \subseteq holding
    BY DEF IInv, TypeOK, HoldersInside, Phases, BodyFitsStage, Stages, Unopened, Inside
  <2>2. Cardinality(Streams) <= Cardinality(holding)
        /\ Cardinality(Streams) \in Nat /\ Cardinality(holding) \in Nat
    BY <2>1, FS_Subset, FS_CardinalityType DEF IInv, SlotsSuffice
  <2> QED
    BY <2>2, GatewayAssumption DEF UpstreamBounded, IInv, SlotsSuffice
<1> QED
  BY <1>1, Invariance, PTL

(* Each request begins as RequestLife does. *)
LEMMA LifeStarts == Init => \A r \in Requests : Life(r)!LifeInit
  BY DEF Init, Queue!AbsInit, Life!LifeInit

(* What the mapping of a request reads of it. *)
Mapped(q) == <<stage[q], upstream[q], answer[q], resumes[q], deletion[q], q \in holding>>

(* A step that leaves all of that leaves the life of the request. *)
LEMMA Untouched ==
  ASSUME NEW q, UNCHANGED Mapped(q)
  PROVE  UNCHANGED Life(q)!lifeVars
  BY DEF Mapped, Life!lifeVars

(* A step of one request touches no other. *)
LEMMA OthersUntouched ==
  ASSUME TypeOK, NEW r \in Requests, Request(r), NEW q \in Requests \ {r}
  PROVE  UNCHANGED Mapped(q)
<1> USE DEF TypeOK, Mapped, Goto, Answered, queueVars, callVars, resultVars, processVars
<1>1. CASE Admit(r)
  BY <1>1 DEF Admit, Queue!Admit
<1>2. CASE GiveUp(r)
  BY <1>2 DEF GiveUp, Queue!GiveUp
<1>3. CASE OpenPanics(r)
  BY <1>3 DEF OpenPanics
<1>4. CASE Upload(r)
  BY <1>4 DEF Upload
<1>5. CASE Open(r)
  BY <1>5 DEF Open
<1>6. CASE OpenFails(r)
  BY <1>6 DEF OpenFails, Queue!Leave
<1>7. CASE BusyRetry(r)
  BY <1>7 DEF BusyRetry
<1>8. CASE Break(r)
  BY <1>8 DEF Break
<1>9. CASE ContinueStream(r)
  BY <1>9 DEF ContinueStream
<1>10. CASE ContinueFails(r)
  BY <1>10 DEF ContinueFails
<1>11. CASE StreamEnds(r)
  BY <1>11 DEF StreamEnds
<1>12. CASE Block(r)
  BY <1>12 DEF Block
<1>13. CASE Finish(r)
  BY <1>13 DEF Finish
<1>14. CASE CleanUp(r)
  BY <1>14 DEF CleanUp
<1>15. CASE Return(r)
  BY <1>15 DEF Return, Queue!Leave
<1>16. CASE Respond(r)
  BY <1>16 DEF Respond
<1>17. CASE ClientLeaves(r)
  BY <1>17 DEF ClientLeaves
<1>18. CASE Abort(r)
  BY <1>18 DEF Abort
<1> QED
  BY <1>1, <1>2, <1>3, <1>4, <1>5, <1>6, <1>7, <1>8, <1>9, <1>10, <1>11, <1>12, <1>13, <1>14, <1>15, <1>16, <1>17, <1>18 DEF Request, Progress, Opening, Streaming, Leaving

(* A step of a request is a step of its life, or none. *)
LEMMA OwnStep ==
  ASSUME IInv, IInv', NEW r \in Requests, Request(r)
  PROVE  [Life(r)!LifeNext]_(Life(r)!lifeVars)
<1> USE DEF IInv, TypeOK, HoldersInside, WaitersQueued, Phases, BodyFitsStage,
            AnswerFitsStage, DeletionFitsStage, Stages, Answers, Unopened, Inside,
            Goto, Answered, queueVars, callVars, resultVars, processVars
<1>1. CASE Admit(r)
  BY <1>1 DEF Admit, Queue!Admit, Life!LifeNext, Life!lifeVars, Life!Admitted
<1>2. CASE GiveUp(r)
  BY <1>2 DEF GiveUp, Queue!GiveUp, Life!LifeNext, Life!lifeVars, Life!Refused
<1>3. CASE OpenPanics(r)
  BY <1>3 DEF OpenPanics, Life!LifeNext, Life!lifeVars, Life!Panicked
<1>4. CASE Upload(r)
  BY <1>4 DEF Upload, Life!lifeVars
<1>5. CASE Open(r)
  BY <1>5 DEF Open, Life!LifeNext, Life!lifeVars, Life!Opened
<1>6. CASE OpenFails(r)
  BY <1>6 DEF OpenFails, Queue!Leave, Life!LifeNext, Life!lifeVars, Life!NotOpened
<1>7. CASE BusyRetry(r)
  BY <1>7, Untouched DEF BusyRetry, Mapped
<1>8. CASE Break(r)
  BY <1>8 DEF Break, Life!LifeNext, Life!lifeVars, Life!Closed
<1>9. CASE ContinueStream(r)
  <2>1. Life(r)!Resumed
    <3>1. resumes'[r] > 0
      BY <1>9 DEF ContinueStream
    <3>2. (resumes'[r] > 0) = TRUE
      BY <3>1, Zenon
    <3>3. /\ r \in holding /\ holding' = holding
          /\ upstream[r] = "closed" /\ upstream'[r] = "open"
          /\ stage[r] = "resuming" /\ stage'[r] = "reading"
          /\ answer[r] = "none" /\ UNCHANGED <<answer, deletion>>
      BY <1>9 DEF ContinueStream
    <3> QED
      BY <3>2, <3>3 DEF Life!Resumed
  <2> QED
    BY <2>1 DEF Life!LifeNext
<1>10. CASE ContinueFails(r)
  BY <1>10 DEF ContinueFails, Life!lifeVars
<1>11. CASE StreamEnds(r)
  BY <1>11 DEF StreamEnds, Life!LifeNext, Life!lifeVars, Life!Closed
<1>12. CASE Block(r)
  BY <1>12 DEF Block, Life!lifeVars
<1>13. CASE Finish(r)
  BY <1>13 DEF Finish, Life!LifeNext, Life!lifeVars, Life!Closed
<1>14. CASE CleanUp(r)
  BY <1>14 DEF CleanUp, Life!LifeNext, Life!lifeVars, Life!Closed
<1>15. CASE Return(r)
  BY <1>15 DEF Return, Queue!Leave, Life!LifeNext, Life!lifeVars, Life!Returned
<1>16. CASE Respond(r)
  <2>1. CASE answer[r] = "none" /\ client[r] = "here"
    BY <1>16, <2>1 DEF Respond, Life!LifeNext, Life!Ended
  <2>2. CASE answer[r] = "none" /\ client[r] # "here"
    BY <1>16, <2>2 DEF Respond, Life!LifeNext, Life!Aborted
  <2>3. CASE answer[r] # "none"
    BY <1>16, <2>3 DEF Respond, Life!lifeVars
  <2> QED
    BY <2>1, <2>2, <2>3
<1>17. CASE ClientLeaves(r)
  BY <1>17, Untouched DEF ClientLeaves, Mapped
<1>18. CASE Abort(r)
  BY <1>18 DEF Abort, Life!LifeNext, Life!lifeVars, Life!Aborted
<1> QED
  BY <1>1, <1>2, <1>3, <1>4, <1>5, <1>6, <1>7, <1>8, <1>9, <1>10, <1>11, <1>12, <1>13, <1>14, <1>15, <1>16, <1>17, <1>18 DEF Request, Progress, Opening, Streaming, Leaving

(* Every step of the gateway is, for each request, a step of its life. *)
LEMMA StepRefines ==
  IInv /\ IInv' /\ [Next]_vars
    => \A r \in Requests : [Life(r)!LifeNext]_(Life(r)!lifeVars)
<1> SUFFICES ASSUME IInv, IInv', [Next]_vars, NEW r \in Requests
             PROVE  [Life(r)!LifeNext]_(Life(r)!lifeVars)
  OBVIOUS
<1>1. CASE Arrive
  <2>1. CASE r = arrived
    BY <1>1, <2>1
    DEF Arrive, Queue!Arrive, Goto, queueVars, callVars, resultVars, processVars,
        Life!lifeVars, IInv, TypeOK, Numbered, HoldersInside, Phases, AnswerFitsStage, Unopened
  <2>2. CASE r # arrived
    BY <1>1, <2>2, Untouched
    DEF Arrive, Queue!Arrive, Goto, queueVars, callVars, resultVars, processVars,
        Mapped, IInv, TypeOK
  <2> QED
    BY <2>1, <2>2
<1>2. ASSUME NEW q \in Requests, Request(q)
      PROVE  [Life(r)!LifeNext]_(Life(r)!lifeVars)
  <2>1. CASE q = r
    BY <1>2, <2>1, OwnStep
  <2>2. CASE q # r
    BY <1>2, <2>2, OthersUntouched, Untouched DEF IInv
  <2> QED
    BY <2>1, <2>2
<1>3. CASE Process
  BY <1>3, Untouched
  DEF Process, Run, Shutdown, ShutdownReturns, Exit, Mapped, queueVars, callVars, resultVars
<1>4. CASE UNCHANGED vars
  BY <1>4, Untouched DEF vars, Mapped, queueVars, callVars, resultVars
<1> QED
  BY <1>1, <1>2, <1>3, <1>4 DEF Next

(* Chats and images alike keep the promises of RequestLife (chat.go:28-37, *)
(* image.go:43-50).                                                        *)
THEOREM RequestsKeepTheirPromises == Spec => RequestsKeepPromises
<1>1. IInv /\ IInv' /\ [Next]_vars
        => [\A r \in Requests : [Life(r)!LifeNext]_(Life(r)!lifeVars)]_vars
  BY StepRefines
<1> QED
  BY <1>1, LifeStarts, Invariance, PTL DEF Spec, RequestsKeepPromises
=============================================================================
