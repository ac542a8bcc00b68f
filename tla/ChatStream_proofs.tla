-------------------------- MODULE ChatStream_proofs -------------------------
(***************************************************************************)
(* Proofs about the chat stream, for every capacity of its channels, every *)
(* limit of resumptions and every number of events.                        *)
(***************************************************************************)
EXTENDS ChatStream, SequenceTheorems, TLAPS

Unopened == {"queued", "opening", "refused", "panicked"}
Taking == {"draining", "sending", "broken"}
Ending == {"finishing", "cleanup", "closing", "closed"}

(* What is on its way from GLM to the producer, and from there to the      *)
(* client.                                                                 *)
Pending == IF hand = NoEvent THEN events ELSE Append(events, hand)
Through == received \o out \o todo

(* What a stage of the request says of its lease and of GLM's response ... *)
LeaseFitsStage ==
    /\ stage = "queued" => lease = "none"
    /\ stage \in {"opening", "panicked"} => lease = "held"
    /\ stage = "refused" => lease \in {"none", "released"}
    /\ stage \in Taking \union {"finishing", "cleanup"} => lease = "held"
    /\ stage \in {"closing", "closed"} => lease = "released"
BodyFitsStage ==
    /\ body = "none" <=> stage \in Unopened
    /\ stage \in {"draining", "sending"} => body = "open"
    /\ stage \in {"broken", "cleanup", "closing", "closed"} => body = "closed"

(* ... of the handler and of the clean-up ...                              *)
HandlerFitsStage ==
    /\ stage \in {"queued", "opening"} <=> handler = "calling"
    /\ stage \in {"refused", "panicked"} <=> handler = "error"
    /\ handler = "done" => stage = "closed" /\ out = <<>>
    /\ handler = "aborted" => client = "gone"
    /\ outClosed <=> stage = "closed"
    /\ stage = "broken" => attempt < MaxRetries
    /\ stage \in Unopened => attempt = 0
    /\ deletions = IF stage \in {"closing", "closed"} /\ attempt = 0 THEN 1 ELSE 0

(* ... and of the reader, which stops with nothing in hand.                *)
ReaderFitsStage ==
    /\ reader = "none" <=> stage \in Unopened
    /\ reader # "reading" => hand = NoEvent
    /\ stage \in Unopened => /\ events = <<>> /\ todo = <<>> /\ out = <<>> /\ received = <<>> /\ shown = <<>>
                             /\ sent = 0 /\ ~over /\ historyID = 0 /\ lastID = 0
    /\ stage = "broken" => reader = "ended" /\ events = <<>>
    /\ stage \in {"draining", "broken"} => todo = <<>>
    /\ stage = "sending" => Len(todo) = 1
    /\ stage \in {"cleanup", "closing", "closed"} => todo = <<>>

(* Events come in the order of their numbers.                              *)
Increasing(list) == \A i, j \in DOMAIN list : i < j => list[i] < list[j]
InOrder(list) == \A i, j \in DOMAIN list : i < j => list[i].n < list[j].n
Ordered ==
    /\ InOrder(Pending) /\ \A i \in DOMAIN Pending : Pending[i].n <= sent
    /\ Increasing(shown) /\ \A i \in DOMAIN shown : shown[i] <= sent

(* The text events of a list, up to its end event.                         *)
Counts(list, i) ==
    list[i].kind \in {"text", "bare"} /\ \A j \in 1 .. i - 1 : list[j].kind # "end"
TextsBeforeEnd(list) == {list[i].n : i \in {k \in DOMAIN list : Counts(list, k)}}

(* The chunks that went through are the beginning of what was shown; what  *)
(* is missing is on its way.                                               *)
IsBeginning(part, whole) ==
    Len(part) <= Len(whole) /\ \A i \in DOMAIN part : part[i] = whole[i]
Missing(part, whole) == {whole[i] : i \in Len(part) + 1 .. Len(whole)}
NothingLost ==
    /\ stage \in Taking =>
         /\ IsBeginning(Through, shown)
         /\ Missing(Through, shown) = TextsBeforeEnd(Pending)
         /\ over <=> \E i \in DOMAIN Pending : Pending[i].kind = "end"
    /\ stage \in Ending => Through = Append(shown, Final) /\ (over \/ reader = "ended")

(* The last id the connection delivered is that of the last event pending  *)
(* with an id, or else the one the producer remembers.                     *)
LastIDKnown ==
    stage \in Taking =>
      /\ ((\A i \in DOMAIN Pending : Pending[i].kind = "bare") => lastID = historyID)
      /\ \A i \in DOMAIN Pending :
           Pending[i].kind # "bare" /\ (\A j \in DOMAIN Pending : j > i => Pending[j].kind = "bare")
             => lastID = Pending[i].n

Control == TypeOK /\ LeaseFitsStage /\ BodyFitsStage /\ HandlerFitsStage /\ ReaderFitsStage
Data == Ordered /\ NothingLost /\ LastIDKnown

IInv == Control /\ Data

(* Every step keeps the stages in order. *)
LEMMA ControlStep == Control /\ [Next]_vars => Control'
<1> SUFFICES ASSUME Control, [Next]_vars PROVE Control'
  OBVIOUS
<1> DEFINE Fits == LeaseFitsStage /\ BodyFitsStage /\ HandlerFitsStage /\ ReaderFitsStage
<1> USE StreamAssumption
    DEF Control, TypeOK, LeaseFitsStage, BodyFitsStage, HandlerFitsStage, ReaderFitsStage,
        Unopened, Taking, Ending, Stages, Chunks, Final, callVars, prodVars, readerVars, outVars,
        glmVars
<1>1. CASE Acquire
  BY <1>1 DEF Acquire
<1>2. CASE OpenChatStream
  BY <1>2 DEF OpenChatStream
<1>3. CASE OpenFails
  BY <1>3 DEF OpenFails
<1>4. CASE OpenPanics
  BY <1>4 DEF OpenPanics
<1>5. CASE ReadEvent
  <2>1. PICK k \in Kinds :
          /\ hand' = [n |-> sent + 1, kind |-> k] /\ sent' = sent + 1
          /\ lastID' = IF k = "bare" THEN lastID ELSE sent + 1
          /\ over' = (over \/ k = "end")
          /\ shown' = IF k \in {"text", "bare"} /\ ~over THEN Append(shown, sent + 1) ELSE shown
    BY <1>5 DEF ReadEvent
  <2>2. sent + 1 \in Chunks /\ hand' \in Events
    BY <1>5, <2>1 DEF ReadEvent, Events
  <2>3. shown' \in Seq(Chunks)
    <3>1. shown' = shown \/ shown' = Append(shown, sent + 1)
      BY <2>1, Zenon
    <3>2. Append(shown, sent + 1) \in Seq(Chunks)
      BY <2>2, AppendProperties
    <3> QED
      BY <3>1, <3>2
  <2>6. over' \in BOOLEAN
    BY <2>1, Zenon
  <2>4. TypeOK'
    BY <1>5, <2>1, <2>2, <2>3, <2>6 DEF ReadEvent
  <2>5. Fits'
    BY <1>5, <2>1, <2>2 DEF ReadEvent, Events, NoEvent
  <2> QED
    BY <2>4, <2>5
<1>6. CASE PassEvent
  BY <1>6 DEF PassEvent
<1>7. CASE ReadEnds
  BY <1>7 DEF ReadEnds
<1>8. CASE TakeEvent
  <2>1. PICK e \in Events : e = Head(events)
    BY <1>8, HeadTailProperties DEF TakeEvent
  <2>2. e.n \in 1 .. MaxEvents /\ e.n \in Chunks /\ e.kind \in Kinds
    BY DEF Events
  <2>3. events' \in Seq(Events) /\ Len(events') < Len(events)
    BY <1>8, HeadTailProperties, LenProperties DEF TakeEvent
  <2>7. /\ stage = "draining" /\ historyID' \in {historyID, e.n}
        /\ UNCHANGED <<callVars, attempt, body, canceled, reader, hand, scanErr, outVars, glmVars>>
    BY <1>8, <2>1 DEF TakeEvent
  <2>4. CASE e.kind = "error"
    <3>1. stage' = "draining" /\ todo' = <<>>
      BY <1>8, <2>1, <2>4 DEF TakeEvent
    <3> QED
      BY <2>2, <2>3, <2>7, <3>1
  <2>5. CASE e.kind = "end"
    <3>1. stage' = "finishing" /\ todo' = <<Final>>
      BY <1>8, <2>1, <2>5 DEF TakeEvent
    <3> QED
      BY <2>2, <2>3, <2>7, <3>1
  <2>6. CASE e.kind \in {"text", "bare"}
    <3>1. stage' = "sending" /\ todo' = <<e.n>>
      BY <1>8, <2>1, <2>6 DEF TakeEvent
    <3>2. todo' \in Seq(Chunks) /\ Len(todo') = 1
      BY <2>2, <3>1
    <3> QED
      BY <2>2, <2>3, <2>7, <3>1, <3>2
  <2> QED
    BY <2>2, <2>4, <2>5, <2>6 DEF Kinds
<1>9. CASE SendChunk
  BY <1>9 DEF SendChunk
<1>10. CASE StreamEnds
  <2>1. CASE scanErr = "broken" /\ historyID # 0 /\ attempt < MaxRetries
    BY <1>10, <2>1 DEF StreamEnds
  <2>2. CASE ~(scanErr = "broken" /\ historyID # 0 /\ attempt < MaxRetries)
    <3>1. todo' = <<Final>> /\ stage' = "finishing"
      BY <1>10, <2>2 DEF StreamEnds
    <3>2. TypeOK'
      BY <1>10, <3>1 DEF StreamEnds
    <3>3. Fits'
      BY <1>10, <3>1 DEF StreamEnds
    <3> QED
      BY <3>2, <3>3
  <2> QED
    BY <2>1, <2>2
<1>11. CASE ContinueStream
  <2>1. attempt' \in 0 .. MaxRetries
    BY <1>11 DEF ContinueStream
  <2>2. TypeOK'
    <3>1. canceled' \in BOOLEAN
      BY <1>11 DEF ContinueStream
    <3> QED
      BY <1>11, <2>1, <3>1 DEF ContinueStream
  <2>3. Fits'
    BY <1>11, <2>1 DEF ContinueStream
  <2> QED
    BY <2>2, <2>3
<1>12. CASE ContinueFails
  BY <1>12 DEF ContinueFails
<1>13. CASE Finished
  BY <1>13 DEF Finished
<1>14. CASE CleanUp
  BY <1>14 DEF CleanUp
<1>15. CASE CloseOut
  BY <1>15 DEF CloseOut
<1>16. CASE CopyChunk
  BY <1>16 DEF CopyChunk
<1>17. CASE CopyEnds
  BY <1>17 DEF CopyEnds
<1>18. CASE CopyAborts
  BY <1>18 DEF CopyAborts
<1>19. CASE ClientLeaves
  BY <1>19 DEF ClientLeaves
<1>20. CASE UNCHANGED vars
  BY <1>20 DEF vars
<1> QED
  BY <1>1, <1>2, <1>3, <1>4, <1>5, <1>6, <1>7, <1>8, <1>9, <1>10, <1>11, <1>12, <1>13, <1>14, <1>15, <1>16, <1>17, <1>18, <1>19, <1>20
  DEF Next, Call, Reader, Producer, Handler

-----------------------------------------------------------------------------
(* Lists of events and of chunks.                                          *)

(* A chunk that moves from the front of one list to the end of the one     *)
(* before it leaves their concatenation as it is.                          *)
LEMMA MovedChunk ==
  ASSUME NEW s \in Seq(Chunks), NEW t \in Seq(Chunks), t # <<>>
  PROVE  Append(s, Head(t)) \o Tail(t) = s \o t
<1> DEFINE a == Append(s, Head(t)) \o Tail(t)
           b == s \o t
<1>1. /\ Head(t) \in Chunks /\ Tail(t) \in Seq(Chunks) /\ Len(Tail(t)) = Len(t) - 1
      /\ Head(t) = t[1] /\ \A i \in 1 .. Len(t) - 1 : Tail(t)[i] = t[i + 1]
      /\ Len(t) \in Nat \ {0} /\ Len(s) \in Nat
  BY HeadTailProperties, EmptySeq, LenProperties
<1>2. /\ Append(s, Head(t)) \in Seq(Chunks) /\ Len(Append(s, Head(t))) = Len(s) + 1
      /\ \A i \in 1 .. Len(s) : Append(s, Head(t))[i] = s[i]
      /\ Append(s, Head(t))[Len(s) + 1] = t[1]
  BY <1>1, AppendProperties
<1>3. /\ a \in Seq(Chunks) /\ Len(a) = Len(s) + Len(t)
      /\ \A i \in 1 .. Len(s) + Len(t) :
           a[i] = IF i <= Len(s) + 1 THEN Append(s, Head(t))[i] ELSE Tail(t)[i - (Len(s) + 1)]
  BY <1>1, <1>2, ConcatProperties
<1>4. /\ b \in Seq(Chunks) /\ Len(b) = Len(s) + Len(t)
      /\ \A i \in 1 .. Len(s) + Len(t) : b[i] = IF i <= Len(s) THEN s[i] ELSE t[i - Len(s)]
  BY <1>1, ConcatProperties
<1>5. ASSUME NEW i \in 1 .. Len(s) + Len(t)
      PROVE  a[i] = b[i]
  <2>1. CASE i <= Len(s)
    BY <1>1, <1>2, <1>3, <1>4, <2>1
  <2>2. CASE i = Len(s) + 1
    BY <1>1, <1>2, <1>3, <1>4, <2>2
  <2>3. CASE i > Len(s) + 1
    BY <1>1, <1>2, <1>3, <1>4, <2>3
  <2> QED
    BY <1>1, <2>1, <2>2, <2>3
<1> QED
  BY <1>3, <1>4, <1>5, SeqEqual

(* Once the first event is taken, the texts left are those of the rest.    *)
LEMMA TextsOfTail ==
  ASSUME NEW P \in Seq(Events), P # <<>>, InOrder(P)
  PROVE  /\ Head(P) = P[1] /\ Head(P) \in Events /\ 1 \in DOMAIN P
         /\ Head(P).kind = "end" => TextsBeforeEnd(P) = {}
         /\ Head(P).kind = "error" => TextsBeforeEnd(P) = TextsBeforeEnd(Tail(P))
         /\ Head(P).kind \in {"text", "bare"} =>
              /\ TextsBeforeEnd(P) = TextsBeforeEnd(Tail(P)) \union {Head(P).n}
              /\ \A x \in TextsBeforeEnd(Tail(P)) : Head(P).n < x
<1>1. /\ Head(P) = P[1] /\ Head(P) \in Events /\ Tail(P) \in Seq(Events)
      /\ Len(P) \in Nat \ {0} /\ DOMAIN P = 1 .. Len(P)
      /\ DOMAIN Tail(P) = 1 .. Len(P) - 1
      /\ \A i \in 1 .. Len(P) - 1 : Tail(P)[i] = P[i + 1]
  BY HeadTailProperties, EmptySeq, LenProperties
<1>2. ASSUME P[1].kind # "end", NEW i \in 1 .. Len(P) - 1
      PROVE  Counts(Tail(P), i) <=> Counts(P, i + 1)
  <2>1. ASSUME NEW j \in 1 .. i - 1 PROVE Tail(P)[j] = P[j + 1] /\ j + 1 \in 1 .. i
    BY <1>1
  <2>2. (\A j \in 1 .. i - 1 : Tail(P)[j].kind # "end") <=> (\A j \in 1 .. i : P[j].kind # "end")
    <3>1. ASSUME \A j \in 1 .. i - 1 : Tail(P)[j].kind # "end", NEW j \in 1 .. i
          PROVE  P[j].kind # "end"
      <4>1. CASE j = 1
        BY <1>2, <4>1
      <4>2. CASE j # 1
        <5>1. j - 1 \in 1 .. i - 1 /\ (j - 1) + 1 = j
          BY <4>2
        <5> QED
          BY <2>1, <3>1, <5>1
      <4> QED
        BY <4>1, <4>2
    <3> QED
      BY <2>1, <3>1
  <2> QED
    BY <1>1, <2>2 DEF Counts
<1>3. ASSUME P[1].kind = "end", NEW i \in DOMAIN P PROVE ~Counts(P, i)
  BY <1>1, <1>3 DEF Counts
<1>4. ASSUME P[1].kind # "end"
      PROVE  \A x : x \in TextsBeforeEnd(P) <=>
                 x \in TextsBeforeEnd(Tail(P)) \/ (P[1].kind \in {"text", "bare"} /\ x = P[1].n)
  <2> TAKE x
  <2>1. Counts(P, 1) <=> P[1].kind \in {"text", "bare"}
    BY DEF Counts
  <2>2. ASSUME NEW i \in DOMAIN P, Counts(P, i), i # 1
        PROVE  P[i].n \in TextsBeforeEnd(Tail(P))
    <3>1. i - 1 \in DOMAIN Tail(P) /\ Counts(Tail(P), i - 1) /\ Tail(P)[i - 1] = P[i]
      BY <1>1, <1>2, <1>4, <2>2
    <3> QED
      BY <3>1 DEF TextsBeforeEnd
  <2>3. ASSUME NEW i \in DOMAIN Tail(P), Counts(Tail(P), i)
        PROVE  Tail(P)[i].n \in TextsBeforeEnd(P)
    <3>1. i + 1 \in DOMAIN P /\ Counts(P, i + 1) /\ Tail(P)[i] = P[i + 1]
      BY <1>1, <1>2, <1>4, <2>3
    <3> QED
      BY <3>1 DEF TextsBeforeEnd
  <2> QED
    BY <1>1, <2>1, <2>2, <2>3 DEF TextsBeforeEnd
<1>5. \A x \in TextsBeforeEnd(Tail(P)) : P[1].n < x
  BY <1>1 DEF TextsBeforeEnd, InOrder
<1> QED
  <2>1. CASE P[1].kind = "end"
    BY <1>1, <1>3, <2>1 DEF TextsBeforeEnd
  <2>2. CASE P[1].kind # "end"
    <3>1. P[1].kind = "error" => TextsBeforeEnd(P) = TextsBeforeEnd(Tail(P))
      BY <1>4, <2>2
    <3>2. P[1].kind \in {"text", "bare"} =>
            TextsBeforeEnd(P) = TextsBeforeEnd(Tail(P)) \union {P[1].n}
      BY <1>4, <2>2
    <3> QED
      BY <1>1, <1>5, <2>2, <3>1, <3>2
  <2> QED
    BY <2>1, <2>2

(* A new event adds itself, if it is a text and no end was there.          *)
LEMMA TextsOfAppend ==
  ASSUME NEW P \in Seq(Events), NEW e \in Events
  PROVE  TextsBeforeEnd(Append(P, e)) =
           IF e.kind \in {"text", "bare"} /\ \A i \in DOMAIN P : P[i].kind # "end"
             THEN TextsBeforeEnd(P) \union {e.n}
             ELSE TextsBeforeEnd(P)
<1> DEFINE Q == Append(P, e)
<1>1. /\ Len(P) \in Nat /\ DOMAIN P = 1 .. Len(P) /\ DOMAIN Q = 1 .. Len(P) + 1
      /\ \A i \in DOMAIN P : Q[i] = P[i]
      /\ Q[Len(P) + 1] = e
  BY AppendProperties, LenProperties
<1>2. ASSUME NEW i \in DOMAIN P PROVE Counts(Q, i) <=> Counts(P, i)
  BY <1>1 DEF Counts
<1>3. Counts(Q, Len(P) + 1) <=> e.kind \in {"text", "bare"} /\ \A i \in DOMAIN P : P[i].kind # "end"
  BY <1>1 DEF Counts
<1> HIDE DEF Q
<1>4. ASSUME NEW x
      PROVE  x \in TextsBeforeEnd(Q) <=>
                 x \in TextsBeforeEnd(P) \/ (Counts(Q, Len(P) + 1) /\ x = e.n)
  BY <1>1, <1>2 DEF TextsBeforeEnd
<1>5. TextsBeforeEnd(Q) = IF Counts(Q, Len(P) + 1) THEN TextsBeforeEnd(P) \union {e.n}
                                                 ELSE TextsBeforeEnd(P)
  <2>1. CASE Counts(Q, Len(P) + 1)
    BY <1>4, <2>1
  <2>2. CASE ~Counts(Q, Len(P) + 1)
    BY <1>4, <2>2
  <2> QED
    BY <2>1, <2>2
<1> QED
  BY <1>3, <1>5 DEF Q

(* Of an increasing list, the least chunk missing is the next one.         *)
LEMMA NextMissing ==
  ASSUME NEW T \in Seq(Chunks), NEW W \in Seq(Chunks), NEW x, NEW rest,
         Increasing(W), IsBeginning(T, W), Missing(T, W) = rest \union {x},
         \A y \in rest : x < y
  PROVE  /\ x \in Chunks
         /\ IsBeginning(Append(T, x), W)
         /\ Missing(Append(T, x), W) = rest
<1>1. /\ Len(T) \in Nat /\ Len(W) \in Nat /\ Len(T) <= Len(W)
      /\ DOMAIN T = 1 .. Len(T) /\ DOMAIN W = 1 .. Len(W)
      /\ \A i \in DOMAIN W : W[i] \in Chunks /\ W[i] \in Int
  BY LenProperties, StreamAssumption DEF IsBeginning, Chunks
<1>2. PICK k \in Len(T) + 1 .. Len(W) : x = W[k]
  BY DEF Missing
<1>3. W[Len(T) + 1] \in rest \union {x} /\ Len(T) + 1 \in DOMAIN W /\ k \in DOMAIN W
  BY <1>1, <1>2 DEF Missing
<1>4. k = Len(T) + 1
  <2>1. ~(W[Len(T) + 1] < W[k])
    BY <1>1, <1>2, <1>3
  <2> QED
    BY <1>1, <1>2, <1>3, <2>1 DEF Increasing
<1>5. /\ Append(T, x) \in Seq(Chunks) /\ Len(Append(T, x)) = Len(T) + 1
      /\ \A i \in 1 .. Len(T) : Append(T, x)[i] = T[i]
      /\ Append(T, x)[Len(T) + 1] = x /\ DOMAIN Append(T, x) = 1 .. Len(T) + 1
  BY <1>1, <1>2, <1>3, AppendProperties, LenProperties
<1>6. IsBeginning(Append(T, x), W)
  BY <1>1, <1>2, <1>4, <1>5 DEF IsBeginning
<1>7. ASSUME NEW y PROVE y \in Missing(Append(T, x), W) <=> y \in rest
  <2>1. y \in Missing(Append(T, x), W) => y # x /\ y \in Missing(T, W)
    BY <1>1, <1>2, <1>4, <1>5 DEF Missing, Increasing
  <2>2. y \in rest => y # x /\ y \in Missing(T, W)
    BY <1>1, <1>2
  <2>3. y # x /\ y \in Missing(T, W) => y \in Missing(Append(T, x), W)
    BY <1>1, <1>2, <1>4, <1>5 DEF Missing
  <2> QED
    BY <2>1, <2>2, <2>3
<1> QED
  BY <1>1, <1>2, <1>6, <1>7

(* A list that lacks nothing of the whole is the whole.                    *)
LEMMA NoneMissing ==
  ASSUME NEW T \in Seq(Chunks), NEW W \in Seq(Chunks), IsBeginning(T, W), Missing(T, W) = {}
  PROVE  T = W
<1>1. /\ Len(T) \in Nat /\ Len(W) \in Nat /\ Len(T) <= Len(W) /\ DOMAIN T = 1 .. Len(T)
  BY LenProperties DEF IsBeginning
<1>2. Len(T) = Len(W)
  <2> SUFFICES ASSUME Len(T) < Len(W) PROVE FALSE
    BY <1>1
  <2>1. W[Len(T) + 1] \in Missing(T, W)
    BY <1>1 DEF Missing
  <2> QED
    BY <2>1
<1> QED
  BY <1>1, <1>2, SeqEqual DEF IsBeginning

(* The lists of the current state and of the next one.                     *)
LEMMA Lists ==
  /\ Control => /\ Pending \in Seq(Events) /\ Through \in Seq(Chunks)
                /\ received \in Seq(Chunks) /\ out \in Seq(Chunks) /\ todo \in Seq(Chunks)
                /\ shown \in Seq(Chunks) /\ received \o out \in Seq(Chunks)
                /\ hand = NoEvent /\ events = <<>> => Pending = <<>>
  /\ Control' => /\ Pending' \in Seq(Events)
                 /\ (hand = NoEvent /\ events = <<>>)' => Pending' = <<>>
<1>1. ASSUME Control
      PROVE  Pending \in Seq(Events) /\ (hand = NoEvent /\ events = <<>> => Pending = <<>>)
  BY <1>1, AppendProperties DEF Control, TypeOK, Pending
<1>2. ASSUME Control'
      PROVE  Pending' \in Seq(Events) /\ ((hand = NoEvent /\ events = <<>>)' => Pending' = <<>>)
  BY <1>2, AppendProperties DEF Control, TypeOK, Pending
<1>3. ASSUME Control
      PROVE  /\ received \in Seq(Chunks) /\ out \in Seq(Chunks) /\ todo \in Seq(Chunks)
             /\ shown \in Seq(Chunks)
  BY <1>3 DEF Control, TypeOK
<1>4. ASSUME Control
      PROVE  received \o out \in Seq(Chunks) /\ Through \in Seq(Chunks)
  BY <1>3, <1>4, ConcatProperties DEF Through
<1> QED
  BY <1>1, <1>2, <1>3, <1>4

(* What the producer is about to send comes after all that went through.   *)
LEMMA NewChunk ==
  ASSUME Control, todo = <<>>, UNCHANGED <<out, received>>
  PROVE  /\ todo' = <<>> => Through' = Through
         /\ \A x \in Chunks : todo' = <<x>> => Through' = Append(Through, x)
<1>1. Through = received \o out
  BY Lists, ConcatEmptySeq DEF Through
<1>2. ASSUME NEW x \in Chunks, todo' = <<x>>
      PROVE  Through' = Append(Through, x)
  <2>1. Through' = (received \o out) \o <<x>>
    BY <1>2 DEF Through
  <2> QED
    BY <1>1, <2>1, Lists, AppendIsConcat
<1> QED
  BY <1>2 DEF Through

(* A step that moves nothing but chunks and events further along.          *)
LEMMA DataKept ==
  ASSUME IInv,
         UNCHANGED <<Pending, Through, shown, sent, over, lastID, historyID>>,
         stage' \in Taking => stage \in Taking,
         stage' \in Ending => stage \in Ending /\ (reader = "ended" => reader' = "ended")
  PROVE  Data'
  BY DEF IInv, Data, Ordered, NothingLost, LastIDKnown

(* The reader reads an event.                                              *)
LEMMA ReadEventData ==
  ASSUME IInv, Control', ReadEvent
  PROVE  Data'
<1>1. PICK k \in Kinds :
        /\ hand' = [n |-> sent + 1, kind |-> k]
        /\ lastID' = IF k = "bare" THEN lastID ELSE sent + 1
        /\ over' <=> (over \/ k = "end")
        /\ shown' = IF k \in {"text", "bare"} /\ ~over THEN Append(shown, sent + 1) ELSE shown
  BY DEF ReadEvent
<1>2. /\ reader = "reading" /\ hand = NoEvent /\ sent' = sent + 1 /\ sent \in Nat
      /\ UNCHANGED <<stage, reader, historyID, todo, out, received, events>>
  BY StreamAssumption
  DEF ReadEvent, callVars, prodVars, outVars, IInv, Control, TypeOK, Chunks
<1> DEFINE e == hand'
           P == Pending
<1>3. /\ P \in Seq(Events) /\ e \in Events /\ e # NoEvent /\ Pending' = Append(P, e)
      /\ e.n = sent + 1 /\ e.kind = k /\ sent + 1 \in Chunks
  <2>1. e \in Events /\ sent + 1 \in Chunks
    BY <1>1, <1>2, StreamAssumption DEF ReadEvent, Events, Chunks, IInv, Control, TypeOK
  <2>2. e # NoEvent
    BY <1>1, <1>2 DEF NoEvent
  <2>3. Pending' = Append(P, e)
    BY <1>2, <2>2 DEF Pending
  <2> QED
    BY <1>1, <2>1, <2>2, <2>3, Lists DEF IInv
<1>4. /\ DOMAIN P = 1 .. Len(P) /\ DOMAIN Pending' = 1 .. Len(P) + 1 /\ Len(P) \in Nat
      /\ \A i \in DOMAIN P : Pending'[i] = P[i]
      /\ Pending'[Len(P) + 1] = e
  BY <1>3, AppendProperties, LenProperties
<1>5. Through' = Through
  BY <1>2 DEF Through
<1>6. shown \in Seq(Chunks) /\ Len(shown) \in Nat /\ DOMAIN shown = 1 .. Len(shown)
  BY Lists, LenProperties DEF IInv
<1>7. /\ Append(shown, sent + 1) \in Seq(Chunks)
      /\ Len(Append(shown, sent + 1)) = Len(shown) + 1
      /\ DOMAIN Append(shown, sent + 1) = 1 .. Len(shown) + 1
      /\ \A i \in 1 .. Len(shown) : Append(shown, sent + 1)[i] = shown[i]
      /\ Append(shown, sent + 1)[Len(shown) + 1] = sent + 1
  BY <1>3, <1>6, AppendProperties, LenProperties
<1> HIDE DEF e, P
<1>8. Ordered'
  <2>1. InOrder(Pending') /\ \A i \in DOMAIN Pending' : Pending'[i].n <= sent'
    <3>1. /\ \A i, j \in DOMAIN P : i < j => P[i].n < P[j].n
          /\ \A i \in DOMAIN P : P[i].n <= sent
      BY DEF IInv, Data, Ordered, InOrder, P
    <3>2. \A i \in DOMAIN P : P[i] \in Events
      BY <1>3, <1>4
    <3>3. \A i \in DOMAIN P : P[i].n \in Int
      BY <3>2, StreamAssumption DEF Events
    <3> QED
      BY <1>2, <1>3, <1>4, <3>1, <3>3 DEF InOrder
  <2>2. Increasing(shown') /\ \A i \in DOMAIN shown' : shown'[i] <= sent'
    <3>1. /\ \A i, j \in DOMAIN shown : i < j => shown[i] < shown[j]
          /\ \A i \in DOMAIN shown : shown[i] <= sent /\ shown[i] \in Int
      BY <1>6, StreamAssumption DEF IInv, Data, Ordered, Increasing, Chunks
    <3>2. CASE shown' = shown
      BY <1>2, <3>1, <3>2 DEF Increasing
    <3>3. CASE shown' = Append(shown, sent + 1)
      BY <1>2, <1>6, <1>7, <3>1, <3>3 DEF Increasing
    <3> QED
      BY <1>1, <3>2, <3>3
  <2> QED
    BY <2>1, <2>2 DEF Ordered
<1>9. stage \notin {"broken"} \union Unopened
  BY <1>2 DEF IInv, Control, ReaderFitsStage
<1>10. NothingLost'
  <2>1. CASE stage \in Taking
    <3>1. /\ IsBeginning(Through, shown) /\ Missing(Through, shown) = TextsBeforeEnd(P)
          /\ over <=> \E i \in DOMAIN P : P[i].kind = "end"
      BY <2>1 DEF IInv, Data, NothingLost, P
    <3>2. over' <=> \E i \in DOMAIN Pending' : Pending'[i].kind = "end"
      BY <1>1, <1>3, <1>4, <3>1
    <3>3. TextsBeforeEnd(Pending') = IF k \in {"text", "bare"} /\ ~over
                                       THEN TextsBeforeEnd(P) \union {sent + 1}
                                       ELSE TextsBeforeEnd(P)
      BY <1>3, <3>1, TextsOfAppend
    <3>4. Through \in Seq(Chunks) /\ Len(Through) \in Nat /\ DOMAIN Through = 1 .. Len(Through)
      BY Lists, LenProperties DEF IInv
    <3>5. IsBeginning(Through, Append(shown, sent + 1))
      BY <1>6, <1>7, <3>1, <3>4 DEF IsBeginning
    <3>6. Missing(Through, Append(shown, sent + 1)) = Missing(Through, shown) \union {sent + 1}
      <4>1. ASSUME NEW x
            PROVE  x \in Missing(Through, Append(shown, sent + 1)) <=>
                     x \in Missing(Through, shown) \/ x = sent + 1
        BY <1>6, <1>7, <3>1, <3>4 DEF Missing, IsBeginning
      <4> QED
        BY <4>1
    <3>7. IsBeginning(Through, shown') /\ Missing(Through, shown') = TextsBeforeEnd(Pending')
      <4>1. CASE k \in {"text", "bare"} /\ ~over
        BY <1>1, <3>1, <3>3, <3>5, <3>6, <4>1
      <4>2. CASE ~(k \in {"text", "bare"} /\ ~over)
        BY <1>1, <3>1, <3>3, <4>2
      <4> QED
        BY <4>1, <4>2
    <3> QED
      BY <1>2, <1>5, <2>1, <3>2, <3>7 DEF NothingLost, Taking, Ending
  <2>2. CASE stage \in Ending
    <3>1. over
      BY <1>2, <2>2 DEF IInv, Data, NothingLost
    <3> QED
      BY <1>1, <1>2, <1>5, <2>2, <3>1 DEF IInv, Data, NothingLost, Taking, Ending
  <2> QED
    BY <1>2, <1>9, <2>1, <2>2
    DEF IInv, Control, TypeOK, Stages, Taking, Ending, Unopened
<1>11. LastIDKnown'
  BY <1>1, <1>2, <1>3, <1>4 DEF IInv, Data, LastIDKnown, P
<1> QED
  BY <1>8, <1>10, <1>11 DEF Data

(* The producer takes the event that has been pending longest.             *)
LEMMA FirstPending ==
  ASSUME Control, events # <<>>, events' = Tail(events), hand' = hand
  PROVE  Pending # <<>> /\ Head(Pending) = Head(events) /\ Pending' = Tail(Pending)
<1>1. /\ events \in Seq(Events) /\ Len(events) \in Nat \ {0} /\ DOMAIN events = 1 .. Len(events)
      /\ Head(events) = events[1] /\ Tail(events) \in Seq(Events)
      /\ Len(Tail(events)) = Len(events) - 1
      /\ \A i \in 1 .. Len(events) - 1 : Tail(events)[i] = events[i + 1]
  BY HeadTailProperties, EmptySeq, LenProperties DEF Control, TypeOK
<1>2. CASE hand = NoEvent
  BY <1>2 DEF Pending
<1>3. CASE hand # NoEvent
  <2> DEFINE a == Append(events, hand)
             b == Append(Tail(events), hand)
  <2>1. hand \in Events
    BY <1>3 DEF Control, TypeOK
  <2>2. /\ a \in Seq(Events) /\ Len(a) = Len(events) + 1
        /\ \A i \in 1 .. Len(events) : a[i] = events[i]
        /\ a[Len(events) + 1] = hand
    BY <1>1, <2>1, AppendProperties
  <2>3. /\ b \in Seq(Events) /\ Len(b) = Len(events)
        /\ \A i \in 1 .. Len(events) - 1 : b[i] = events[i + 1]
        /\ b[Len(events)] = hand
    BY <1>1, <2>1, AppendProperties
  <2> HIDE DEF a, b
  <2>4. /\ a # <<>> /\ Head(a) = a[1] /\ Tail(a) \in Seq(Events) /\ Len(Tail(a)) = Len(events)
        /\ \A i \in 1 .. Len(events) : Tail(a)[i] = a[i + 1]
    BY <1>1, <2>2, HeadTailProperties, EmptySeq
  <2>5. ASSUME NEW i \in 1 .. Len(events) PROVE Tail(a)[i] = b[i]
    <3>1. CASE i = Len(events)
      BY <1>1, <2>2, <2>3, <2>4, <3>1
    <3>2. CASE i # Len(events)
      <4> DEFINE n == Len(events)
      <4>1. n \in Nat /\ i \in 1 .. n /\ i # n
        BY <1>1, <3>2
      <4> HIDE DEF n
      <4>2. i \in 1 .. n - 1 /\ i + 1 \in 1 .. n
        BY <4>1
      <4>3. i \in 1 .. Len(events) - 1 /\ i + 1 \in 1 .. Len(events)
        BY <4>2 DEF n
      <4>4. Tail(a)[i] = a[i + 1] /\ a[i + 1] = events[i + 1] /\ b[i] = events[i + 1]
        BY <2>2, <2>3, <2>4, <4>3
      <4> QED
        BY <4>4
    <3> QED
      BY <3>1, <3>2
  <2>6. Tail(a) = b
    BY <2>3, <2>4, <2>5, SeqEqual
  <2>7. Pending = a /\ Pending' = b
    BY <1>3 DEF Pending, a, b
  <2> QED
    BY <1>1, <2>2, <2>4, <2>6, <2>7
<1> QED
  BY <1>2, <1>3

(* The producer takes an event.                                            *)
LEMMA TakeEventData ==
  ASSUME IInv, Control', TakeEvent
  PROVE  Data'
<1> DEFINE P == Pending
           e == Head(P)
<1>1. /\ stage = "draining" /\ events # <<>> /\ events' = Tail(events)
      /\ historyID' = IF Head(events).kind = "bare" THEN historyID ELSE Head(events).n
      /\ UNCHANGED <<hand, shown, sent, over, lastID, out, received>>
      /\ todo = <<>>
  BY DEF TakeEvent, callVars, outVars, glmVars, IInv, Control, ReaderFitsStage
<1>2. P # <<>> /\ e = Head(events) /\ Pending' = Tail(P)
  BY <1>1, FirstPending DEF IInv
<1>3. P \in Seq(Events)
  BY Lists DEF IInv
<1>4. InOrder(P)
  BY DEF IInv, Data, Ordered
<1>5. /\ e = P[1] /\ e \in Events /\ 1 \in DOMAIN P
      /\ e.kind = "end" => TextsBeforeEnd(P) = {}
      /\ e.kind = "error" => TextsBeforeEnd(P) = TextsBeforeEnd(Tail(P))
      /\ e.kind \in {"text", "bare"} =>
           /\ TextsBeforeEnd(P) = TextsBeforeEnd(Tail(P)) \union {e.n}
           /\ \A x \in TextsBeforeEnd(Tail(P)) : e.n < x
  BY <1>2, <1>3, <1>4, TextsOfTail
<1>6. /\ Len(P) \in Nat \ {0} /\ DOMAIN P = 1 .. Len(P) /\ DOMAIN Tail(P) = 1 .. Len(P) - 1
      /\ \A i \in 1 .. Len(P) - 1 : Tail(P)[i] = P[i + 1]
  BY <1>2, <1>3, HeadTailProperties, EmptySeq, LenProperties
<1>7. /\ IsBeginning(Through, shown) /\ Missing(Through, shown) = TextsBeforeEnd(P)
      /\ over <=> \E i \in DOMAIN P : P[i].kind = "end"
      /\ Increasing(shown)
  BY <1>1 DEF IInv, Data, NothingLost, Ordered, Taking
<1>8. Through \in Seq(Chunks) /\ shown \in Seq(Chunks) /\ e.n \in Chunks /\ e.kind \in Kinds
  BY <1>5, Lists DEF IInv, Events, Chunks
<1>9. /\ todo' = <<>> => Through' = Through
      /\ \A x \in Chunks : todo' = <<x>> => Through' = Append(Through, x)
  BY <1>1, NewChunk DEF IInv
<1>10. e.kind # "end" => (over <=> \E i \in DOMAIN Tail(P) : Tail(P)[i].kind = "end")
  <2>1. ASSUME e.kind # "end", NEW i \in DOMAIN P, P[i].kind = "end"
        PROVE  \E j \in DOMAIN Tail(P) : Tail(P)[j].kind = "end"
    <3>1. i # 1
      BY <1>5, <2>1
    <3>2. i - 1 \in DOMAIN Tail(P) /\ Tail(P)[i - 1] = P[i]
      BY <1>6, <3>1
    <3> QED
      BY <2>1, <3>2
  <2>2. ASSUME NEW i \in DOMAIN Tail(P), Tail(P)[i].kind = "end"
        PROVE  \E j \in DOMAIN P : P[j].kind = "end"
    <3>1. i + 1 \in DOMAIN P /\ Tail(P)[i] = P[i + 1]
      BY <1>6
    <3> QED
      BY <2>2, <3>1
  <2> QED
    BY <1>7, <2>1, <2>2
<1>11. stage' \in Taking => LastIDKnown'
  <2>1. ASSUME \A i \in DOMAIN Tail(P) : Tail(P)[i].kind = "bare"
        PROVE  lastID' = historyID'
    <3>1. \A j \in DOMAIN P : j > 1 => P[j].kind = "bare"
      <4> SUFFICES ASSUME NEW j \in DOMAIN P, j > 1 PROVE P[j].kind = "bare"
        OBVIOUS
      <4>1. j - 1 \in DOMAIN Tail(P) /\ Tail(P)[j - 1] = P[j]
        BY <1>6
      <4> QED
        BY <2>1, <4>1
    <3>2. CASE e.kind = "bare"
      <4>1. \A j \in DOMAIN P : P[j].kind = "bare"
        BY <1>5, <1>6, <3>1, <3>2
      <4> QED
        BY <1>1, <1>2, <3>2, <4>1 DEF IInv, Data, LastIDKnown, Taking
    <3>3. CASE e.kind # "bare"
      <4>1. lastID = P[1].n
        BY <1>1, <1>5, <3>1, <3>3 DEF IInv, Data, LastIDKnown, Taking
      <4> QED
        BY <1>1, <1>2, <1>5, <3>3, <4>1
    <3> QED
      BY <3>2, <3>3
  <2>2. ASSUME NEW i \in DOMAIN Tail(P), Tail(P)[i].kind # "bare",
               \A j \in DOMAIN Tail(P) : j > i => Tail(P)[j].kind = "bare"
        PROVE  lastID' = Tail(P)[i].n
    <3>1. i + 1 \in DOMAIN P /\ Tail(P)[i] = P[i + 1]
      BY <1>6
    <3>2. \A j \in DOMAIN P : j > i + 1 => P[j].kind = "bare"
      <4> SUFFICES ASSUME NEW j \in DOMAIN P, j > i + 1 PROVE P[j].kind = "bare"
        OBVIOUS
      <4>1. j - 1 \in DOMAIN Tail(P) /\ Tail(P)[j - 1] = P[j] /\ j - 1 > i
        BY <1>6
      <4> QED
        BY <2>2, <4>1
    <3> QED
      BY <1>1, <2>2, <3>1, <3>2 DEF IInv, Data, LastIDKnown, Taking
  <2> QED
    BY <1>2, <2>1, <2>2 DEF LastIDKnown
<1>12. Ordered'
  <2>1. ASSUME NEW i \in DOMAIN Tail(P)
        PROVE  i + 1 \in DOMAIN P /\ Tail(P)[i] = P[i + 1] /\ i \in Int
    BY <1>6
  <2>2. InOrder(Tail(P)) /\ \A i \in DOMAIN Tail(P) : Tail(P)[i].n <= sent
    BY <2>1 DEF IInv, Data, Ordered, InOrder
  <2> QED
    BY <1>1, <1>2, <2>2 DEF IInv, Data, Ordered
<1> HIDE DEF P, e
<1>13. CASE e.kind = "error"
  <2>1. stage' = "draining" /\ todo' = <<>>
    BY <1>2, <1>13 DEF TakeEvent
  <2>2. NothingLost'
    BY <1>1, <1>2, <1>5, <1>7, <1>9, <1>10, <1>13, <2>1 DEF NothingLost, Taking, Ending
  <2> QED
    BY <1>11, <1>12, <2>1, <2>2 DEF Data, Taking
<1>14. CASE e.kind = "end"
  <2>1. stage' = "finishing" /\ todo' = <<Final>>
    BY <1>2, <1>14 DEF TakeEvent
  <2>2. Through = shown
    BY <1>5, <1>7, <1>8, <1>14, NoneMissing
  <2>3. Final \in Chunks
    BY StreamAssumption DEF Final, Chunks
  <2>4. Through' = Append(shown, Final)
    BY <1>9, <2>1, <2>2, <2>3
  <2>5. over
    BY <1>5, <1>7, <1>14
  <2>6. NothingLost'
    BY <1>1, <2>1, <2>4, <2>5 DEF NothingLost, Taking, Ending
  <2>7. LastIDKnown'
    BY <2>1 DEF LastIDKnown, Taking
  <2> QED
    BY <1>12, <2>6, <2>7 DEF Data
<1>15. CASE e.kind \in {"text", "bare"}
  <2>1. stage' = "sending" /\ todo' = <<e.n>>
    BY <1>2, <1>15 DEF TakeEvent
  <2>2. Through' = Append(Through, e.n)
    BY <1>8, <1>9, <2>1
  <2>3. /\ IsBeginning(Append(Through, e.n), shown)
        /\ Missing(Append(Through, e.n), shown) = TextsBeforeEnd(Tail(P))
    BY <1>5, <1>7, <1>8, <1>15, NextMissing
  <2>4. over <=> \E i \in DOMAIN Tail(P) : Tail(P)[i].kind = "end"
    BY <1>10, <1>15
  <2>5. NothingLost'
    BY <1>1, <1>2, <2>1, <2>2, <2>3, <2>4 DEF NothingLost, Taking, Ending
  <2> QED
    BY <1>11, <1>12, <2>1, <2>5 DEF Data, Taking
<1> QED
  BY <1>8, <1>13, <1>14, <1>15 DEF Kinds

(* The producer ends the answer when no event is pending.                  *)
LEMMA LastChunk ==
  ASSUME IInv, stage \in Taking, Pending = <<>>, Pending' = <<>>, todo = <<>>,
         stage' = "finishing", todo' = <<Final>>, reader' = "ended",
         UNCHANGED <<shown, sent, out, received>>
  PROVE  Data'
<1>1. IsBeginning(Through, shown) /\ Missing(Through, shown) = TextsBeforeEnd(<<>>)
  BY DEF IInv, Data, NothingLost
<1>2. TextsBeforeEnd(<<>>) = {}
  BY DEF TextsBeforeEnd
<1>3. Through = shown
  BY <1>1, <1>2, Lists, NoneMissing DEF IInv
<1>4. Final \in Chunks
  BY StreamAssumption DEF Final, Chunks
<1>5. Through' = Append(shown, Final)
  BY <1>3, <1>4, NewChunk DEF IInv
<1>6. NothingLost'
  BY <1>5 DEF NothingLost, Taking, Ending
<1>7. Ordered' /\ LastIDKnown'
  BY DEF IInv, Data, Ordered, LastIDKnown, Taking
<1> QED
  BY <1>6, <1>7 DEF Data

(* The stream ends, or breaks, with every event taken.                     *)
LEMMA StreamEndsData ==
  ASSUME IInv, Control', StreamEnds
  PROVE  Data'
<1>1. /\ stage = "draining" /\ events = <<>> /\ reader = "ended" /\ reader' = reader
      /\ UNCHANGED <<events, hand, shown, sent, over, lastID, historyID, out, received>>
      /\ todo = <<>> /\ hand = NoEvent
  BY DEF StreamEnds, callVars, outVars, glmVars, IInv, Control, ReaderFitsStage
<1>2. Pending = <<>> /\ Pending' = <<>>
  BY <1>1, Lists DEF IInv
<1>3. CASE scanErr = "broken" /\ historyID # 0 /\ attempt < MaxRetries
  <2>1. stage' = "broken" /\ todo' = todo
    BY <1>3 DEF StreamEnds
  <2>2. Through' = Through
    BY <1>1, <2>1 DEF Through
  <2> QED
    BY <1>1, <1>2, <2>1, <2>2, DataKept DEF Taking, Ending
<1>4. CASE ~(scanErr = "broken" /\ historyID # 0 /\ attempt < MaxRetries)
  <2>1. stage' = "finishing" /\ todo' = <<Final>>
    BY <1>4 DEF StreamEnds
  <2>2. stage \in Taking /\ reader' = "ended" /\ UNCHANGED <<shown, sent, out, received>>
    BY <1>1 DEF Taking
  <2> QED
    BY <1>1, <1>2, <2>1, <2>2, LastChunk, Zenon
<1> QED
  BY <1>3, <1>4

(* continue_stream fails: the answer ends with what was shown so far.      *)
LEMMA ContinueFailsData ==
  ASSUME IInv, Control', ContinueFails
  PROVE  Data'
<1>1. /\ stage = "broken" /\ stage' = "finishing" /\ todo' = <<Final>>
      /\ UNCHANGED <<events, hand, shown, sent, over, lastID, historyID, out, received, reader>>
      /\ todo = <<>> /\ events = <<>> /\ hand = NoEvent /\ reader = "ended"
  BY DEF ContinueFails, callVars, readerVars, outVars, glmVars, IInv, Control, ReaderFitsStage
<1>2. Pending = <<>> /\ Pending' = <<>>
  BY <1>1, Lists DEF IInv
<1>3. stage \in Taking /\ reader' = "ended" /\ UNCHANGED <<shown, sent, out, received>>
  BY <1>1 DEF Taking
<1> QED
  BY <1>1, <1>2, <1>3, LastChunk, Zenon

(* A new body, after the events of the old one.                            *)
LEMMA ContinueStreamData ==
  ASSUME IInv, Control', ContinueStream
  PROVE  Data'
<1>1. /\ stage = "broken" /\ stage' = "draining" /\ historyID' = 0 /\ lastID' = 0
      /\ UNCHANGED <<events, hand, shown, sent, over, todo, out, received>>
      /\ events = <<>> /\ hand = NoEvent
  BY DEF ContinueStream, outVars, IInv, Control, ReaderFitsStage
<1>2. Pending = <<>> /\ Pending' = <<>>
  BY <1>1, Lists DEF IInv
<1>3. Through' = Through
  BY <1>1 DEF Through
<1>4. NothingLost'
  BY <1>1, <1>2, <1>3 DEF IInv, Data, NothingLost, Taking, Ending
<1>5. Ordered'
  BY <1>1, <1>2 DEF IInv, Data, Ordered
<1>6. LastIDKnown'
  BY <1>1, <1>2 DEF LastIDKnown
<1> QED
  BY <1>4, <1>5, <1>6 DEF Data

(* The first body: nothing has been read.                                  *)
LEMMA OpenChatStreamData ==
  ASSUME IInv, Control', OpenChatStream
  PROVE  Data'
<1>1. /\ stage = "opening" /\ stage' = "draining"
      /\ UNCHANGED <<events, hand, shown, sent, over, lastID, historyID, todo, out, received>>
      /\ events = <<>> /\ todo = <<>> /\ out = <<>> /\ received = <<>> /\ shown = <<>>
      /\ ~over /\ historyID = 0 /\ lastID = 0 /\ hand = NoEvent
  BY DEF OpenChatStream, outVars, glmVars, IInv, Control, ReaderFitsStage, Unopened
<1>2. Pending = <<>> /\ Pending' = <<>>
  BY <1>1, Lists DEF IInv
<1>3. Through' = <<>> /\ Len(<<>>) = 0
  BY <1>1 DEF Through
<1>4. Ordered'
  BY <1>1, <1>2 DEF IInv, Data, Ordered
<1>5. LastIDKnown'
  BY <1>1, <1>2 DEF LastIDKnown
<1>6. IsBeginning(<<>>, <<>>) /\ Missing(<<>>, <<>>) = {} /\ TextsBeforeEnd(<<>>) = {}
  BY DEF IsBeginning, Missing, TextsBeforeEnd
<1>7. ~over' /\ shown' = <<>> /\ ~\E i \in DOMAIN Pending' : Pending'[i].kind = "end"
  BY <1>1, <1>2
<1>8. NothingLost'
  BY <1>1, <1>2, <1>3, <1>6, <1>7 DEF NothingLost, Taking, Ending
<1> QED
  BY <1>4, <1>5, <1>8 DEF Data

(* A chunk goes from the producer into the channel, and from there to the  *)
(* client; a reader's event goes into the channel of events.               *)
LEMMA PassEventMoves ==
  ASSUME Control, PassEvent
  PROVE  Pending' = Pending
BY DEF PassEvent, Pending

LEMMA SendChunkMoves ==
  ASSUME Control, SendChunk
  PROVE  Through' = Through
<1>1. /\ todo # <<>> /\ out' = Append(out, Head(todo)) /\ todo' = Tail(todo) /\ received' = received
      /\ out \in Seq(Chunks) /\ todo \in Seq(Chunks) /\ received \in Seq(Chunks)
      /\ received \o out \in Seq(Chunks)
  BY Lists DEF SendChunk
<1>2. Head(todo) \in Chunks
  BY <1>1, HeadTailProperties
<1>3. received \o Append(out, Head(todo)) = Append(received \o out, Head(todo))
  <2>1. <<Head(todo)>> \in Seq(Chunks)
    BY <1>2
  <2>2. received \o (out \o <<Head(todo)>>) = (received \o out) \o <<Head(todo)>>
    BY <1>1, <2>1, ConcatAssociative
  <2> QED
    BY <1>1, <1>2, <2>2, AppendIsConcat
<1>4. Append(received \o out, Head(todo)) \o Tail(todo) = (received \o out) \o todo
  BY <1>1, MovedChunk
<1> QED
  BY <1>1, <1>3, <1>4 DEF Through

LEMMA CopyChunkMoves ==
  ASSUME Control, CopyChunk
  PROVE  Through' = Through
<1>1. /\ out # <<>> /\ received' = Append(received, Head(out)) /\ out' = Tail(out) /\ todo' = todo
      /\ out \in Seq(Chunks) /\ received \in Seq(Chunks)
  BY Lists DEF CopyChunk, prodVars
<1>2. Append(received, Head(out)) \o Tail(out) = received \o out
  BY <1>1, MovedChunk
<1> QED
  BY <1>1, <1>2 DEF Through

(* Every other step leaves the events and the chunks where they are.       *)
LEMMA OtherData ==
  ASSUME IInv,
         \/ Acquire \/ OpenFails \/ OpenPanics \/ PassEvent \/ ReadEnds \/ SendChunk \/ Finished
         \/ CleanUp \/ CloseOut \/ Handler \/ ClientLeaves \/ UNCHANGED vars
  PROVE  Data'
<1>1. CASE PassEvent
  <2>1. /\ Pending' = Pending
        /\ UNCHANGED <<shown, sent, over, lastID, historyID, stage, reader>>
        /\ UNCHANGED <<received, out, todo>>
    BY <1>1, PassEventMoves DEF PassEvent, prodVars, outVars, glmVars, IInv
  <2>2. Through' = Through
    BY <2>1 DEF Through
  <2> QED
    BY <2>1, <2>2, DataKept
<1>2. CASE SendChunk
  <2>1. /\ Through' = Through
        /\ UNCHANGED <<shown, sent, over, lastID, historyID, reader>>
        /\ UNCHANGED <<events, hand>>
        /\ \/ stage = "sending" /\ stage' = "draining"
           \/ stage = "finishing" /\ stage' = "finishing"
    BY <1>2, SendChunkMoves DEF SendChunk, readerVars, glmVars, IInv
  <2>2. Pending' = Pending
    BY <2>1 DEF Pending
  <2> QED
    BY <2>1, <2>2, DataKept DEF Taking, Ending
<1>3. CASE CopyChunk
  <2>1. /\ Through' = Through
        /\ UNCHANGED <<shown, sent, over, lastID, historyID, reader, stage>>
        /\ UNCHANGED <<events, hand>>
    BY <1>3, CopyChunkMoves DEF CopyChunk, readerVars, prodVars, glmVars, IInv
  <2>2. Pending' = Pending
    BY <2>1 DEF Pending
  <2> QED
    BY <2>1, <2>2, DataKept
<1>4. CASE \/ Acquire \/ OpenFails \/ OpenPanics \/ ReadEnds \/ Finished \/ CleanUp \/ CloseOut
           \/ CopyEnds \/ CopyAborts \/ ClientLeaves \/ UNCHANGED vars
  <2>1. /\ UNCHANGED <<shown, sent, over, lastID, historyID>>
        /\ UNCHANGED <<events, hand, received, out, todo>>
    BY <1>4
    DEF Acquire, OpenFails, OpenPanics, ReadEnds, Finished, CleanUp, CloseOut, CopyEnds,
        CopyAborts, ClientLeaves, vars, callVars, prodVars, readerVars, outVars, glmVars
  <2>2. stage' \in Taking => stage \in Taking
    BY <1>4
    DEF Acquire, OpenFails, OpenPanics, ReadEnds, Finished, CleanUp, CloseOut, CopyEnds,
        CopyAborts, ClientLeaves, vars, callVars, prodVars, readerVars, outVars, glmVars, Taking
  <2>3. stage' \in Ending => stage \in Ending /\ (reader = "ended" => reader' = "ended")
    BY <1>4
    DEF Acquire, OpenFails, OpenPanics, ReadEnds, Finished, CleanUp, CloseOut, CopyEnds,
        CopyAborts, ClientLeaves, vars, callVars, prodVars, readerVars, outVars, glmVars, Ending
  <2>4. Pending' = Pending /\ Through' = Through
    BY <2>1 DEF Pending, Through
  <2> QED
    BY <2>1, <2>2, <2>3, <2>4, DataKept
<1> QED
  BY <1>1, <1>2, <1>3, <1>4 DEF Handler

-----------------------------------------------------------------------------
LEMMA InitInv == Init => IInv
<1> SUFFICES ASSUME Init PROVE IInv
  OBVIOUS
<1>1. /\ client \in {"loyal", "restless"} /\ handler = "calling" /\ lease = "none"
      /\ stage = "queued" /\ attempt = 0 /\ todo = <<>> /\ historyID = 0
      /\ body = "none" /\ reader = "none" /\ hand = NoEvent
      /\ events = <<>> /\ scanErr = "nil" /\ out = <<>> /\ deletions = 0 /\ received = <<>>
      /\ sent = 0 /\ lastID = 0 /\ shown = <<>>
  BY DEF Init
<1>2. hasModel \in BOOLEAN /\ canceled \in BOOLEAN /\ outClosed \in BOOLEAN /\ over \in BOOLEAN
  BY DEF Init
<1>3. /\ <<>> \in Seq(Events) /\ <<>> \in Seq(Chunks) /\ Len(<<>>) = 0
      /\ OutCap \in Nat /\ EventCap \in Nat /\ 0 \in 0 .. MaxRetries /\ 0 \in Chunks
  BY StreamAssumption, EmptySeq DEF Chunks
<1>4. TypeOK
  BY <1>1, <1>2, <1>3 DEF TypeOK, Stages
<1>5. ~outClosed /\ ~over
  BY DEF Init
<1>6. LeaseFitsStage /\ BodyFitsStage /\ HandlerFitsStage /\ ReaderFitsStage
  BY <1>1, <1>5
  DEF LeaseFitsStage, BodyFitsStage, HandlerFitsStage, ReaderFitsStage, Unopened, Taking
<1>7. Pending = <<>>
  BY <1>1 DEF Pending
<1>8. Ordered /\ NothingLost /\ LastIDKnown
  BY <1>1, <1>7
  DEF Ordered, InOrder, Increasing, NothingLost, LastIDKnown, Taking, Ending
<1> QED
  BY <1>4, <1>6, <1>8 DEF IInv, Control, Data

LEMMA StepInv == IInv /\ [Next]_vars => IInv'
<1> SUFFICES ASSUME IInv, [Next]_vars PROVE IInv'
  OBVIOUS
<1>1. Control'
  BY ControlStep DEF IInv
<1>2. Data'
  <2>1. CASE ReadEvent
    BY <1>1, <2>1, ReadEventData
  <2>2. CASE TakeEvent
    BY <1>1, <2>2, TakeEventData
  <2>3. CASE StreamEnds
    BY <1>1, <2>3, StreamEndsData
  <2>4. CASE ContinueFails
    BY <1>1, <2>4, ContinueFailsData
  <2>5. CASE ContinueStream
    BY <1>1, <2>5, ContinueStreamData
  <2>6. CASE OpenChatStream
    BY <1>1, <2>6, OpenChatStreamData
  <2>7. CASE \/ Acquire \/ OpenFails \/ OpenPanics \/ PassEvent \/ ReadEnds \/ SendChunk
             \/ Finished \/ CleanUp \/ CloseOut \/ Handler \/ ClientLeaves \/ UNCHANGED vars
    BY <2>7, OtherData
  <2> QED
    BY <2>1, <2>2, <2>3, <2>4, <2>5, <2>6, <2>7 DEF Next, Call, Reader, Producer
<1> QED
  BY <1>1, <1>2 DEF IInv

(* The inductive invariant holds in every reachable state. *)
THEOREM Invariance == Spec => []IInv
<1>1. Init => IInv
  BY InitInv
<1>2. IInv /\ [Next]_vars => IInv'
  BY StepInv
<1> QED
  BY <1>1, <1>2, PTL DEF Spec

(* Every variable keeps its type, the channels their capacity, and a       *)
(* conversation is deleted once at most (chat.go:39-112, client.go).       *)
THEOREM TypeCorrect == Spec => []TypeOK
<1>1. IInv => TypeOK
  BY DEF IInv, Control
<1> QED
  BY <1>1, Invariance, PTL

(* What the client got when the channel was closed is every text event GLM *)
(* sent before the end, in order, over all connections, and one Final      *)
(* (chat.go:96-160).                                                       *)
THEOREM AnswersAreComplete == Spec => []AnswerComplete
<1>1. IInv => AnswerComplete
  <2> SUFFICES ASSUME IInv, handler = "done" PROVE received = Append(shown, Final)
    BY DEF AnswerComplete
  <2>1. stage = "closed" /\ out = <<>> /\ todo = <<>>
    BY DEF IInv, Control, HandlerFitsStage, ReaderFitsStage
  <2>2. Through = received
    BY <2>1, Lists, ConcatEmptySeq DEF IInv, Through
  <2> QED
    BY <2>1, <2>2 DEF IInv, Data, NothingLost, Ending
<1> QED
  BY <1>1, Invariance, PTL

(* continue_stream is asked for what follows the last event with an id     *)
(* that the connection delivered, and no event waits then (chat.go:130-160)*)
THEOREM ResumptionsMissNothing == Spec => ResumesFromLastEvent
<1>1. IInv /\ [Next]_vars
        => [attempt' > attempt => historyID = lastID /\ events = <<>> /\ hand = NoEvent]_vars
  <2> SUFFICES ASSUME IInv, Next, attempt' > attempt
               PROVE  historyID = lastID /\ events = <<>> /\ hand = NoEvent
    OBVIOUS
  <2>1. attempt \in Int
    BY StreamAssumption DEF IInv, Control, TypeOK
  <2>2. ContinueStream
    <3>1. UNCHANGED attempt \/ ContinueStream
      BY DEF Next, Call, Reader, Producer, Handler, Acquire, OpenChatStream, OpenFails,
             OpenPanics, ReadEvent, PassEvent, ReadEnds, TakeEvent, SendChunk, StreamEnds,
             ContinueFails, Finished, CleanUp, CloseOut, CopyChunk, CopyEnds, CopyAborts,
             ClientLeaves, prodVars
    <3> QED
      BY <2>1, <3>1
  <2>3. stage = "broken" /\ events = <<>> /\ hand = NoEvent
    BY <2>2 DEF ContinueStream, IInv, Control, ReaderFitsStage
  <2>4. Pending = <<>>
    BY <2>3, Lists DEF IInv
  <2>5. lastID = historyID
    BY <2>3, <2>4 DEF IInv, Data, LastIDKnown, Taking
  <2> QED
    BY <2>3, <2>5
<1> QED
  BY <1>1, Invariance, PTL DEF Spec, ResumesFromLastEvent

-----------------------------------------------------------------------------
(* The promises of a request, RequestLife, read off the chat stream.       *)
Answered == CASE handler = "calling" -> "pending"
              [] handler = "copying" -> "streaming"
              [] handler = "done" -> "ended"
              [] OTHER -> handler

(* What the client sees of a handler, in a state and in the next one.      *)
LEMMA Answers ==
  /\ handler = "calling" => Answered = "pending"
  /\ handler = "copying" => Answered = "streaming"
  /\ handler' = "copying" => Answered' = "streaming"
  /\ handler' = "done" => Answered' = "ended"
  /\ handler' = "error" => Answered' = "error"
  /\ handler' = "aborted" => Answered' = "aborted"
  /\ UNCHANGED handler => UNCHANGED Answered
BY DEF Answered

LEMMA LifeStarts == Init => Life!LifeInit
<1> SUFFICES ASSUME Init PROVE Life!LifeInit
  OBVIOUS
<1>1. lease = "none" /\ body = "none" /\ handler = "calling" /\ attempt = 0 /\ deletions = 0
  BY DEF Init
<1>2. (attempt > 0) = FALSE /\ (deletions > 0) = FALSE
  BY <1>1
<1> QED
  BY <1>1, <1>2 DEF Life!LifeInit

(* A step that the rest of the gateway does not see.                       *)
LEMMA Unseen ==
  ASSUME UNCHANGED <<lease, body, handler, attempt, deletions>>
  PROVE  UNCHANGED Life!lifeVars
BY DEF Life!lifeVars

LEMMA StepRefines == IInv /\ IInv' /\ [Next]_vars => [Life!LifeNext]_(Life!lifeVars)
<1> SUFFICES ASSUME IInv, IInv', [Next]_vars PROVE [Life!LifeNext]_(Life!lifeVars)
  OBVIOUS
<1> DEFINE Still == UNCHANGED <<attempt, deletions>>
           Resumes == attempt > 0
           Deletes == deletions > 0
<1>0. /\ Still => UNCHANGED Resumes /\ UNCHANGED Deletes
      /\ UNCHANGED attempt => UNCHANGED Resumes
      /\ UNCHANGED deletions => UNCHANGED Deletes
  OBVIOUS
<1> HIDE DEF Resumes, Deletes
<1>1. CASE Acquire
  <2>1. /\ lease = "none" /\ handler = "calling" /\ UNCHANGED body /\ Still
        /\ \/ lease' = "held" /\ UNCHANGED handler
           \/ UNCHANGED lease /\ handler' = "error"
    BY <1>1
    DEF Acquire, prodVars, readerVars, outVars, IInv, Control, LeaseFitsStage, HandlerFitsStage
  <2>2. Life!Admitted \/ Life!Refused
    BY <1>0, <2>1, Answers DEF Life!Admitted, Life!Refused, Answered, Resumes, Deletes
  <2> QED
    BY <2>2 DEF Life!LifeNext
<1>2. CASE OpenChatStream
  <2>1. /\ lease = "held" /\ handler = "calling" /\ body = "none" /\ UNCHANGED lease /\ Still
        /\ body' = "open" /\ handler' = "copying"
    BY <1>2
    DEF OpenChatStream, outVars, IInv, Control, LeaseFitsStage, HandlerFitsStage,
        BodyFitsStage, Unopened
  <2>2. Life!Opened
    BY <1>0, <2>1, Answers DEF Life!Opened, Answered, Resumes, Deletes
  <2> QED
    BY <2>2 DEF Life!LifeNext
<1>3. CASE OpenFails \/ OpenPanics
  <2>1. /\ lease = "held" /\ handler = "calling" /\ body = "none" /\ UNCHANGED body /\ Still
        /\ handler' = "error" /\ (lease' = "released" \/ UNCHANGED lease)
    BY <1>3
    DEF OpenFails, OpenPanics, readerVars, outVars, IInv, Control, LeaseFitsStage,
        HandlerFitsStage, BodyFitsStage, Unopened
  <2>2. Life!NotOpened \/ Life!Panicked
    BY <1>0, <2>1, Answers DEF Life!NotOpened, Life!Panicked, Answered, Resumes, Deletes
  <2> QED
    BY <2>2 DEF Life!LifeNext
<1>4. CASE StreamEnds \/ Finished
  <2>1. /\ body \in {"open", "closed"} /\ body' = "closed" /\ UNCHANGED <<lease, handler>> /\ Still
    BY <1>4
    DEF StreamEnds, Finished, callVars, outVars, IInv, Control, TypeOK, BodyFitsStage, Unopened
  <2>2. CASE body = "open"
    <3>1. Life!Closed
      BY <1>0, <2>1, <2>2, Answers DEF Life!Closed, Answered, Resumes, Deletes
    <3> QED
      BY <3>1 DEF Life!LifeNext
  <2>3. CASE body = "closed"
    BY <2>1, <2>3, Unseen
  <2> QED
    BY <2>1, <2>2, <2>3
<1>5. CASE ContinueStream
  <2>1. /\ lease = "held" /\ body = "closed" /\ handler = "copying" /\ body' = "open"
        /\ UNCHANGED <<lease, handler, deletions>> /\ attempt' = attempt + 1
    BY <1>5
    DEF ContinueStream, callVars, outVars, IInv, Control, TypeOK, LeaseFitsStage,
        BodyFitsStage, HandlerFitsStage, Taking
  <2>2. Resumes' = TRUE
    <3>1. attempt \in Nat
      BY StreamAssumption DEF IInv, Control, TypeOK
    <3> QED
      BY <2>1, <3>1 DEF Resumes
  <2>3. Life!Resumed
    BY <1>0, <2>1, <2>2, Answers DEF Life!Resumed, Answered, Resumes, Deletes
  <2> QED
    BY <2>3 DEF Life!LifeNext
<1>6. CASE CleanUp
  <2>1. /\ lease = "held" /\ body = "closed" /\ lease' = "released"
        /\ UNCHANGED <<body, handler, attempt>>
        /\ deletions = 0 /\ deletions' = IF attempt = 0 THEN deletions + 1 ELSE deletions
    BY <1>6
    DEF CleanUp, readerVars, IInv, Control, LeaseFitsStage, BodyFitsStage, HandlerFitsStage
  <2>2. Deletes' = ~Resumes
    <3>1. attempt \in Nat
      BY StreamAssumption DEF IInv, Control, TypeOK
    <3>2. Deletes' <=> ~Resumes
      BY <2>1, <3>1 DEF Resumes, Deletes
    <3> QED
      BY <3>2 DEF Resumes, Deletes
  <2>3. Life!Returned
    BY <1>0, <2>1, <2>2, Answers DEF Life!Returned, Answered, Resumes, Deletes
  <2> QED
    BY <2>3 DEF Life!LifeNext
<1>7. CASE CopyEnds
  <2>1. /\ lease = "released" /\ handler = "copying" /\ handler' = "done"
        /\ UNCHANGED <<lease, body>> /\ Still
    BY <1>7
    DEF CopyEnds, prodVars, readerVars, outVars, IInv, Control, LeaseFitsStage, HandlerFitsStage
  <2>2. Life!Ended
    BY <1>0, <2>1, Answers DEF Life!Ended, Answered, Resumes, Deletes
  <2> QED
    BY <2>2 DEF Life!LifeNext
<1>8. CASE CopyAborts
  <2>1. handler = "copying" /\ handler' = "aborted" /\ UNCHANGED <<lease, body>> /\ Still
    BY <1>8 DEF CopyAborts, prodVars, readerVars, outVars
  <2>2. Life!Aborted
    BY <1>0, <2>1, Answers DEF Life!Aborted, Answered, Resumes, Deletes
  <2> QED
    BY <2>2 DEF Life!LifeNext
<1>9. CASE \/ Reader \/ TakeEvent \/ SendChunk \/ ContinueFails \/ CloseOut \/ CopyChunk
           \/ ClientLeaves \/ UNCHANGED vars
  <2>1. UNCHANGED <<lease, body, handler, attempt, deletions>>
    BY <1>9
    DEF Reader, ReadEvent, PassEvent, ReadEnds, TakeEvent, SendChunk, ContinueFails, CloseOut,
        CopyChunk, ClientLeaves, vars, callVars, prodVars, readerVars, outVars
  <2> QED
    BY <2>1, Unseen
<1> QED
  BY <1>1, <1>2, <1>3, <1>4, <1>5, <1>6, <1>7, <1>8, <1>9 DEF Next, Call, Producer, Handler

(* Through every interleaving of its goroutines a chat keeps the promises  *)
(* of RequestLife (chat.go:28-37, 39-112).                                 *)
THEOREM ChatKeepsItsPromises == Spec => ImplementsRequestLife
<1>1. IInv /\ IInv' /\ [Next]_vars => [Life!LifeNext]_(Life!lifeVars)
  BY StepRefines
<1> QED
  BY <1>1, LifeStarts, Invariance, PTL DEF Spec, ImplementsRequestLife, Life!LifeSpec
=============================================================================
