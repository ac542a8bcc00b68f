-------------------------- MODULE Conversion_proofs -------------------------
(***************************************************************************)
(* Proofs about the conversion of a history, for every set of ids, tools   *)
(* and messages, and for histories of any length.                          *)
(***************************************************************************)
EXTENDS Conversion, SequenceTheorems, WellFoundedInduction, TLAPS

(* The lines of a prompt; an assistant's holds its calls by their places.  *)
PlacedCalls == UNION {[places -> Calls] : places \in SUBSET (1 .. MaxCalls)}
PromptLines ==
    [from : Nat, role : {"system", "user", "context"}]
      \union [from : Nat, role : {"assistant"}, calls : PlacedCalls]
      \union [from : Nat, role : {"tool_result"}, id : IDs, name : Names \union {Unknown}]
LinesWellFormed ==
    /\ processed \in Seq(PromptLines)
    /\ \A k \in Lines : processed[k].from \in DOMAIN history

(* The tables are about the calls GLM is shown, no others.                 *)
ShownSoFar == UNION {ShownIn(k) : k \in Lines}
TablesMatch ==
    /\ validToolCallIDs = {call.id : call \in ShownSoFar} \intersect RealIDs
    /\ repairedToolCallIDs =
         {id \in RealIDs : \E call \in ShownSoFar : call.id = id /\ call.args = "mended"}
    /\ \A id \in validToolCallIDs :
         \E call \in ShownSoFar :
           call.id = id /\ call.name = toolCallIDToName[id] /\ call.name # NoName

(* The two properties, of one line and of one message.                     *)
HasItsCall(k) ==
    processed[k].role = "tool_result" /\ processed[k].id \in RealIDs =>
        \/ RealBefore(k) = {}
        \/ \E call \in RealBefore(k) :
             /\ call.id = processed[k].id
             /\ history[processed[k].from].name = NoName => processed[k].name = call.name
ItsCalls(n) ==
    {call \in UNION {ShownIn(k) : k \in {l \in Lines : processed[l].from < n}} :
        call.id = history[n].id}
HasItsLine(n) ==
    /\ history[n].role = "tool"
    /\ \/ history[n].id \notin RealIDs
       \/ ItsCalls(n) # {} /\ \A call \in ItsCalls(n) : call.args # "mended"
    => LineOf(n) # {}

IInv ==
    /\ TypeOK
    /\ LinesWellFormed
    /\ TablesMatch
    /\ \A k \in Lines : HasItsCall(k)
    /\ \A n \in DOMAIN history : HasItsLine(n)

-----------------------------------------------------------------------------
(* A set of numbers that is not empty has a least one.                     *)
LEMMA LeastNumber ==
  ASSUME NEW T, T \subseteq Nat, T # {}
  PROVE  \E m \in T : \A n \in T : m <= n
<1> DEFINE R == OpToRel(<, Nat)
<1>1. IsWellFoundedOn(R, Nat)
  BY NatLessThanWellFounded
<1> HIDE DEF R
<1>2. PICK m \in T : \A n \in T : ~(<<n, m>> \in R)
  BY <1>1, WFMin
<1>3. \A x, y \in Nat : x < y => <<x, y>> \in R
  BY DEF R, OpToRel
<1>4. ASSUME NEW n \in T PROVE m <= n
  <2>1. n \in Nat /\ m \in Nat /\ ~(<<n, m>> \in R)
    BY <1>2
  <2>2. ~(n < m)
    BY <1>3, <2>1, Zenon
  <2> QED
    BY <2>1, <2>2
<1> QED
  BY <1>4

(* Some places in a list are not none, so one is the last.                 *)
LEMMA LastPlace ==
  ASSUME NEW n \in Nat, NEW D \in SUBSET (1 .. n), D # {}
  PROVE  \E i \in D : \A j \in D : j <= i
<1> DEFINE T == {n - i : i \in D}
<1>1. T \subseteq Nat /\ T # {}
  <2>1. \A i \in D : n - i \in Nat
    OBVIOUS
  <2> QED
    BY <2>1
<1>2. PICK m \in T : \A x \in T : m <= x
  BY <1>1, LeastNumber
<1>3. PICK i \in D : m = n - i
  OBVIOUS
<1>4. ASSUME NEW j \in D PROVE j <= i
  <2>1. m <= n - j
    BY <1>2
  <2> QED
    BY <1>3, <2>1
<1> QED
  BY <1>4

(* What a message of either kind is.                                       *)
LEMMA Roles ==
  ASSUME NEW message \in Messages
  PROVE  /\ message.role = "assistant" =>
              /\ message \in Turns /\ message.calls \in Seq(Calls)
              /\ Len(message.calls) \in 0 .. MaxCalls
         /\ message.role = "tool" =>
              message \in Results /\ message.id \in IDs /\ message.name \in Names
         /\ message.role \notin {"assistant", "tool"} =>
              message \in Plain /\ message.role \in {"system", "user", "context"}
<1>1. message \in Plain \union Turns \union Results
  BY ConversionAssumption
<1>2. message.role = "assistant" => message \in Turns
  BY <1>1 DEF Plain, Turns, Results
<1>3. message \in Turns => message.calls \in Seq(Calls) /\ Len(message.calls) \in 0 .. MaxCalls
  BY ConversionAssumption, LenProperties DEF Turns
<1> QED
  BY <1>1, <1>2, <1>3 DEF Plain, Turns, Results

(* The calls shown of a message have names, and ids.                       *)
LEMMA ShownCallsType ==
  ASSUME NEW message \in Messages, message.role = "assistant"
  PROVE  /\ ShownCalls(message) \in PlacedCalls
         /\ DOMAIN ShownCalls(message) \subseteq 1 .. MaxCalls
         /\ \A i \in DOMAIN ShownCalls(message) :
              ShownCalls(message)[i] \in Calls /\ ShownCalls(message)[i].name # NoName
<1> DEFINE raw == message.calls
           shown == ShownCalls(message)
<1>1. raw \in Seq(Calls) /\ Len(raw) \in 0 .. MaxCalls /\ DOMAIN raw = 1 .. Len(raw)
      /\ MaxCalls \in Nat
  BY Roles, LenProperties, ConversionAssumption
<1>2. DOMAIN shown \subseteq DOMAIN raw
  BY DEF ShownCalls, SanitizeToolCalls
<1>3. ASSUME NEW i \in DOMAIN shown
      PROVE  shown[i] = Numbered(raw)[i] /\ Usable(raw[i]) /\ i \in DOMAIN raw
  BY DEF ShownCalls, SanitizeToolCalls
<1>4. ASSUME NEW i \in DOMAIN shown
      PROVE  shown[i] \in Calls /\ shown[i].name # NoName
  <2>1. i \in 1 .. MaxCalls /\ raw[i] \in Calls
    BY <1>1, <1>3
  <2>2. CallRepaired(i - 1) \in IDs /\ raw[i].id \in IDs
    BY <1>1, <2>1 DEF IDs, SyntheticIDs, Calls
  <2>3. shown[i] = [raw[i] EXCEPT !.id = IF raw[i].id = NoID THEN CallRepaired(i - 1) ELSE raw[i].id]
    BY <1>3 DEF Numbered
  <2>4. shown[i] \in Calls /\ shown[i].name = raw[i].name
    BY <2>1, <2>2, <2>3 DEF Calls
  <2> QED
    BY <1>3, <2>4 DEF Usable
<1>5. shown = [i \in DOMAIN shown |-> shown[i]]
  BY DEF ShownCalls
<1>6. DOMAIN shown \subseteq 1 .. MaxCalls
  BY <1>1, <1>2
<1> HIDE DEF shown
<1>7. shown \in [DOMAIN shown -> Calls]
  BY <1>4, <1>5
<1> QED
  BY <1>4, <1>6, <1>7 DEF PlacedCalls, shown

-----------------------------------------------------------------------------
(* A message read leaves those before it as they were.                     *)
LEMMA HistoryGrows ==
  ASSUME IInv, NEW message \in Messages, Read(message)
  PROVE  /\ history' \in Seq(Messages) /\ Len(history) \in Nat /\ Len(history') = Len(history) + 1
         /\ DOMAIN history' = DOMAIN history \union {Len(history) + 1}
         /\ DOMAIN history = 1 .. Len(history)
         /\ \A n \in DOMAIN history : history'[n] = history[n]
         /\ history'[Len(history) + 1] = message
<1>1. history \in Seq(Messages) /\ Len(history) \in Nat /\ DOMAIN history = 1 .. Len(history)
      /\ history' = Append(history, message)
  BY LenProperties DEF IInv, TypeOK, Read
<1>2. /\ history' \in Seq(Messages) /\ Len(history') = Len(history) + 1
      /\ \A n \in 1 .. Len(history) : history'[n] = history[n]
      /\ history'[Len(history) + 1] = message
  BY <1>1, AppendProperties
<1>3. DOMAIN history' = 1 .. Len(history) + 1
  BY <1>2, LenProperties
<1> QED
  BY <1>1, <1>2, <1>3

(* A line shown leaves those before it as they were, and comes after all   *)
(* the calls they show.                                                    *)
LEMMA LinesStay ==
  ASSUME IInv, NEW line \in PromptLines, Show(line), NEW N, N = Len(processed) + 1
  PROVE  /\ processed' \in Seq(PromptLines) /\ Len(processed) \in Nat /\ Len(processed') = N
         /\ Lines' = Lines \union {N} /\ Lines = 1 .. Len(processed)
         /\ processed'[N] = line
         /\ \A k \in Lines : processed'[k] = processed[k] /\ ShownIn(k)' = ShownIn(k)
         /\ \A k \in Lines : RealBefore(k)' = RealBefore(k)
         /\ RealBefore(N)' = {call \in ShownSoFar : call.id \in RealIDs}
         /\ ShownSoFar' = ShownSoFar \union ShownIn(N)'
<1>1. processed \in Seq(PromptLines) /\ Len(processed) \in Nat /\ Lines = 1 .. Len(processed)
      /\ processed' = Append(processed, line)
  BY LenProperties DEF IInv, LinesWellFormed, Lines, Show
<1>2. /\ processed' \in Seq(PromptLines) /\ Len(processed') = Len(processed) + 1
      /\ \A k \in 1 .. Len(processed) : processed'[k] = processed[k]
      /\ processed'[N] = line
  BY <1>1, AppendProperties
<1>3. Lines' = 1 .. N
  BY <1>2, LenProperties DEF Lines
<1>4. Lines' = Lines \union {N}
  BY <1>1, <1>3
<1>5. ASSUME NEW k \in Lines PROVE processed'[k] = processed[k] /\ ShownIn(k)' = ShownIn(k)
  BY <1>1, <1>2 DEF ShownIn
<1>6. ASSUME NEW k \in Lines' PROVE {l \in Lines' : l < k} = {l \in Lines : l < k}
  BY <1>1, <1>3
<1>7. ASSUME NEW k \in Lines' PROVE ShownBefore(k)' = ShownBefore(k)
  <2>1. \A l \in {x \in Lines : x < k} : ShownIn(l)' = ShownIn(l)
    BY <1>5
  <2> QED
    BY <1>6, <2>1 DEF ShownBefore
<1>8. {l \in Lines : l < N} = Lines
  BY <1>1
<1>9. ShownBefore(N) = ShownSoFar
  BY <1>8 DEF ShownBefore, ShownSoFar
<1>10. ShownSoFar' = ShownSoFar \union ShownIn(N)'
  BY <1>4, <1>5 DEF ShownSoFar
<1>11. \A k \in Lines' : RealBefore(k)' = {call \in ShownBefore(k) : call.id \in RealIDs}
  BY <1>7 DEF RealBefore
<1>12. \A k \in Lines : RealBefore(k)' = RealBefore(k)
  BY <1>4, <1>11 DEF RealBefore
<1>13. RealBefore(N)' = {call \in ShownSoFar : call.id \in RealIDs}
  BY <1>4, <1>9, <1>11
<1> QED
  BY <1>1, <1>2, <1>4, <1>5, <1>10, <1>12, <1>13

(* A message read, and a line shown of it, change nothing about the lines  *)
(* and the messages before.                                                *)
LEMMA PastKept ==
  ASSUME IInv, NEW message \in Messages, Read(message),
         \/ UNCHANGED processed
         \/ \E line \in PromptLines : line.from = Len(history) + 1 /\ Show(line)
  PROVE  /\ LinesWellFormed'
         /\ \A k \in Lines : HasItsCall(k)'
         /\ \A n \in DOMAIN history : HasItsLine(n)'
<1>1. /\ DOMAIN history' = DOMAIN history \union {Len(history) + 1}
      /\ DOMAIN history = 1 .. Len(history) /\ Len(history) \in Nat
      /\ \A n \in DOMAIN history : history'[n] = history[n]
  BY HistoryGrows
<1>2. /\ processed \in Seq(PromptLines)
      /\ \A k \in Lines : processed[k].from \in DOMAIN history
      /\ \A k \in Lines : HasItsCall(k)
      /\ \A n \in DOMAIN history : HasItsLine(n)
  BY DEF IInv, LinesWellFormed
<1>3. /\ processed' \in Seq(PromptLines)
      /\ Lines \subseteq Lines'
      /\ \A k \in Lines : processed'[k] = processed[k]
      /\ \A k \in Lines : ShownIn(k)' = ShownIn(k)
      /\ \A k \in Lines : RealBefore(k)' = RealBefore(k)
      /\ \A k \in Lines' \ Lines : processed'[k].from = Len(history) + 1
  <2>1. CASE UNCHANGED processed
    BY <1>2, <2>1 DEF Lines, ShownIn, RealBefore, ShownBefore
  <2>2. CASE \E line \in PromptLines : line.from = Len(history) + 1 /\ Show(line)
    <3>1. PICK line \in PromptLines : line.from = Len(history) + 1 /\ Show(line)
      BY <2>2
    <3>2. PICK N : N = Len(processed) + 1
      OBVIOUS
    <3>3. /\ processed' \in Seq(PromptLines) /\ Lines' = Lines \union {N} /\ processed'[N] = line
          /\ \A k \in Lines : processed'[k] = processed[k] /\ ShownIn(k)' = ShownIn(k)
          /\ \A k \in Lines : RealBefore(k)' = RealBefore(k)
      BY <3>1, <3>2, LinesStay
    <3> QED
      BY <3>1, <3>3
  <2> QED
    BY <2>1, <2>2
<1>4. LinesWellFormed'
  BY <1>1, <1>2, <1>3 DEF LinesWellFormed
<1>5. ASSUME NEW k \in Lines PROVE HasItsCall(k)'
  <2>1. /\ processed'[k] = processed[k] /\ RealBefore(k)' = RealBefore(k)
        /\ history'[processed[k].from] = history[processed[k].from]
    BY <1>1, <1>2, <1>3
  <2> QED
    BY <1>2, <2>1 DEF HasItsCall
<1>6. ASSUME NEW n \in DOMAIN history PROVE HasItsLine(n)'
  <2>1. {l \in Lines' : processed'[l].from < n} = {l \in Lines : processed[l].from < n}
    BY <1>1, <1>3
  <2>2. history'[n] = history[n]
    BY <1>1
  <2>3. ItsCalls(n)' = ItsCalls(n)
    <3>1. \A l \in {x \in Lines : processed[x].from < n} : ShownIn(l)' = ShownIn(l)
      BY <1>3
    <3> QED
      BY <2>1, <2>2, <3>1 DEF ItsCalls
  <2>4. LineOf(n) \subseteq LineOf(n)'
    BY <1>3 DEF LineOf
  <2>5. HasItsLine(n)
    BY <1>2
  <2> QED
    BY <2>2, <2>3, <2>4, <2>5 DEF HasItsLine
<1> QED
  BY <1>4, <1>5, <1>6

(* Only a line of the assistant shows calls.                               *)
LEMMA NoCallsAdded ==
  ASSUME IInv,
         \/ UNCHANGED processed
         \/ \E line \in PromptLines : line.role # "assistant" /\ Show(line),
         UNCHANGED <<validToolCallIDs, repairedToolCallIDs, toolCallIDToName>>
  PROVE  ShownSoFar' = ShownSoFar /\ TablesMatch'
<1>1. ShownSoFar' = ShownSoFar
  <2>1. CASE UNCHANGED processed
    BY <2>1 DEF ShownSoFar, Lines, ShownIn
  <2>2. CASE \E line \in PromptLines : line.role # "assistant" /\ Show(line)
    <3>1. PICK line \in PromptLines : line.role # "assistant" /\ Show(line)
      BY <2>2
    <3>2. PICK N : N = Len(processed) + 1
      OBVIOUS
    <3>3. processed'[N] = line /\ ShownSoFar' = ShownSoFar \union ShownIn(N)'
      BY <3>1, <3>2, LinesStay
    <3>4. ShownIn(N)' = {}
      BY <3>1, <3>3 DEF ShownIn
    <3> QED
      BY <3>3, <3>4
  <2> QED
    BY <2>1, <2>2
<1> QED
  BY <1>1 DEF TablesMatch, IInv

(* The message that was read is the last of the history.                   *)
LEMMA NewMessage ==
  ASSUME IInv, NEW message \in Messages, Read(message), NEW n, n = Len(history) + 1
  PROVE  /\ n \in Nat /\ history'[n] = message /\ DOMAIN history' = DOMAIN history \union {n}
         /\ DOMAIN history = 1 .. n - 1
<1>1. /\ Len(history) \in Nat /\ DOMAIN history' = DOMAIN history \union {Len(history) + 1}
      /\ DOMAIN history = 1 .. Len(history) /\ history'[Len(history) + 1] = message
  BY HistoryGrows
<1>2. n \in Nat /\ n - 1 = Len(history)
  BY <1>1
<1> QED
  BY <1>1, <1>2

(* The prompt has no more lines than the history has messages.             *)
LEMMA LengthsKept ==
  ASSUME IInv, NEW message \in Messages, Read(message), Len(history) < MaxMessages,
         UNCHANGED processed \/ \E line \in PromptLines : Show(line)
  PROVE  /\ history' \in Seq(Messages) /\ Len(history') <= MaxMessages
         /\ Len(processed') <= Len(history')
<1>1. /\ history' \in Seq(Messages) /\ Len(history') = Len(history) + 1 /\ Len(history) \in Nat
  BY HistoryGrows
<1>2. Len(processed') \in {Len(processed), Len(processed) + 1}
  <2>1. CASE UNCHANGED processed
    BY <2>1
  <2>2. CASE \E line \in PromptLines : Show(line)
    BY <2>2, LinesStay
  <2> QED
    BY <2>1, <2>2
<1>3. Len(processed) \in Nat /\ Len(processed) <= Len(history)
  BY LenProperties DEF IInv, TypeOK, LinesWellFormed
<1>4. MaxMessages \in Nat
  BY ConversionAssumption
<1> QED
  BY <1>1, <1>2, <1>3, <1>4

(* A message of a user, or of the system.                                  *)
LEMMA ConvertPlainStep ==
  ASSUME IInv, NEW message \in Messages, Len(history) < MaxMessages, ConvertPlain(message)
  PROVE  IInv'
<1>1. /\ message.role \in {"system", "user", "context"} /\ Read(message)
      /\ UNCHANGED <<validToolCallIDs, repairedToolCallIDs, toolCallIDToName>>
  BY Roles DEF ConvertPlain
<1>2. PICK n : n = Len(history) + 1
  OBVIOUS
<1>3. /\ n \in Nat /\ history'[n] = message /\ DOMAIN history' = DOMAIN history \union {n}
  BY <1>1, <1>2, NewMessage
<1>4. PICK line \in PromptLines : line = [from |-> n, role |-> message.role]
  BY <1>1, <1>3 DEF PromptLines
<1>5. line.from = Len(history) + 1 /\ line.role \notin {"assistant", "tool_result"}
  BY <1>1, <1>2, <1>4
<1>6. UNCHANGED processed \/ Show(line)
  BY <1>2, <1>4 DEF ConvertPlain
<1>7. /\ LinesWellFormed' /\ TablesMatch'
      /\ \A k \in Lines : HasItsCall(k)'
      /\ \A m \in DOMAIN history : HasItsLine(m)'
  BY <1>1, <1>5, <1>6, PastKept, NoCallsAdded
<1>8. TypeOK'
  <2>1. history' \in Seq(Messages) /\ Len(history') <= MaxMessages /\ Len(processed') <= Len(history')
    BY <1>1, <1>6, LengthsKept
  <2> QED
    BY <1>1, <2>1 DEF TypeOK, IInv
<1>9. \A k \in Lines' : HasItsCall(k)'
  <2>1. ASSUME NEW k \in Lines', k \notin Lines PROVE processed'[k].role # "tool_result"
    BY <1>5, <1>6, <2>1, LinesStay DEF Lines
  <2> QED
    BY <1>7, <2>1 DEF HasItsCall
<1>10. \A m \in DOMAIN history' : HasItsLine(m)'
  <2>1. HasItsLine(n)'
    BY <1>1, <1>3 DEF HasItsLine
  <2> QED
    BY <1>3, <1>7, <2>1
<1> QED
  BY <1>7, <1>8, <1>9, <1>10 DEF IInv

(* A result of a tool.                                                     *)
LEMMA ConvertResultStep ==
  ASSUME IInv, NEW message \in Messages, Len(history) < MaxMessages, ConvertResult(message)
  PROVE  IInv'
<1>1. /\ message.role = "tool" /\ message.id \in IDs /\ message.name \in Names /\ Read(message)
      /\ UNCHANGED <<validToolCallIDs, repairedToolCallIDs, toolCallIDToName>>
  BY Roles DEF ConvertResult
<1>2. PICK n : n = Len(history) + 1
  OBVIOUS
<1>3. /\ n \in Nat /\ history'[n] = message /\ DOMAIN history' = DOMAIN history \union {n}
      /\ DOMAIN history = 1 .. n - 1
  BY <1>1, <1>2, NewMessage
<1>4. /\ validToolCallIDs = {call.id : call \in ShownSoFar} \intersect RealIDs
      /\ repairedToolCallIDs =
           {id \in RealIDs : \E call \in ShownSoFar : call.id = id /\ call.args = "mended"}
      /\ \A id \in validToolCallIDs :
           \E call \in ShownSoFar :
             call.id = id /\ call.name = toolCallIDToName[id] /\ call.name # NoName
      /\ toolCallIDToName \in [RealIDs -> Names]
  BY DEF IInv, TablesMatch, TypeOK
<1>5. NameOf(message) \in Names \union {Unknown}
  BY <1>1, <1>4 DEF NameOf
<1>6. PICK line \in PromptLines :
        line = [from |-> n, role |-> "tool_result", id |-> message.id, name |-> NameOf(message)]
  BY <1>1, <1>3, <1>5 DEF PromptLines
<1>7. /\ line.from = Len(history) + 1 /\ line.role = "tool_result" /\ line.from = n
      /\ line.id = message.id /\ line.name = NameOf(message) /\ line.role # "assistant"
  BY <1>2, <1>6
<1>8. IF Skipped(message.id) THEN UNCHANGED processed ELSE Show(line)
  BY <1>2, <1>6 DEF ConvertResult
<1>9. UNCHANGED processed \/ Show(line)
  BY <1>8
<1>10. /\ LinesWellFormed' /\ TablesMatch' /\ ShownSoFar' = ShownSoFar
       /\ \A k \in Lines : HasItsCall(k)'
       /\ \A m \in DOMAIN history : HasItsLine(m)'
  BY <1>1, <1>7, <1>9, PastKept, NoCallsAdded
<1>11. TypeOK'
  <2>1. history' \in Seq(Messages) /\ Len(history') <= MaxMessages /\ Len(processed') <= Len(history')
    BY <1>1, <1>9, LengthsKept
  <2> QED
    BY <1>1, <2>1 DEF TypeOK, IInv
<1>12. \A k \in Lines' : HasItsCall(k)'
  <2> SUFFICES ASSUME ~Skipped(message.id), NEW N, N = Len(processed) + 1 PROVE HasItsCall(N)'
    BY <1>8, <1>10, LinesStay DEF Lines
  <2>1. /\ processed'[N] = line /\ RealBefore(N)' = {call \in ShownSoFar : call.id \in RealIDs}
    BY <1>8, LinesStay
  <2> SUFFICES ASSUME message.id \in RealIDs, RealBefore(N)' # {}
               PROVE  \E call \in RealBefore(N)' :
                        /\ call.id = message.id
                        /\ message.name = NoName => line.name = call.name
    BY <1>3, <1>7, <2>1 DEF HasItsCall
  <2>2. validToolCallIDs # {}
    BY <1>4, <2>1
  <2>3. message.id \in validToolCallIDs
    BY <2>2 DEF Skipped
  <2>4. PICK call \in ShownSoFar :
          /\ call.id = message.id /\ call.name = toolCallIDToName[message.id]
          /\ call.name # NoName
    BY <1>4, <2>3
  <2>5. message.name = NoName => NameOf(message) = call.name
    BY <2>4 DEF NameOf
  <2> QED
    BY <1>7, <2>1, <2>4, <2>5
<1>13. HasItsLine(n)'
  <2>1. ItsCalls(n)' = {call \in ShownSoFar : call.id = message.id}
    <3>1. {l \in Lines' : processed'[l].from < n} = Lines
      <4>1. \A k \in Lines : processed[k].from \in DOMAIN history
        BY DEF IInv, LinesWellFormed
      <4>2. CASE UNCHANGED processed
        <5>1. \A k \in Lines : processed[k].from < n
          BY <1>3, <4>1
        <5> QED
          BY <4>2, <5>1 DEF Lines
      <4>3. CASE Show(line)
        <5>1. PICK N : N = Len(processed) + 1
          OBVIOUS
        <5>2. /\ Lines' = Lines \union {N} /\ processed'[N] = line
              /\ \A k \in Lines : processed'[k] = processed[k]
          BY <4>3, <5>1, LinesStay
        <5> QED
          BY <1>3, <1>7, <4>1, <5>2
      <4> QED
        BY <1>9, <4>2, <4>3
    <3>2. \A l \in Lines : ShownIn(l)' = ShownIn(l)
      BY <1>9, LinesStay DEF ShownIn
    <3> QED
      BY <1>3, <3>1, <3>2 DEF ItsCalls, ShownSoFar
  <2>2. CASE Skipped(message.id)
    BY <1>3, <1>4, <2>1, <2>2 DEF HasItsLine, Skipped
  <2>3. CASE ~Skipped(message.id)
    <3>1. PICK N : N = Len(processed) + 1
      OBVIOUS
    <3>2. N \in Lines' /\ processed'[N] = line
      BY <1>8, <2>3, <3>1, LinesStay
    <3> QED
      BY <1>7, <3>2 DEF HasItsLine, LineOf
  <2> QED
    BY <2>2, <2>3
<1>14. \A m \in DOMAIN history' : HasItsLine(m)'
  BY <1>3, <1>10, <1>13
<1> QED
  BY <1>10, <1>11, <1>12, <1>14 DEF IInv

(* The name an id gets is that of the last call with the id.               *)
LEMMA LastName ==
  ASSUME NEW calls, DOMAIN calls \subseteq 1 .. MaxCalls, NEW id, CallsWith(calls, id) # {}
  PROVE  \E i \in DOMAIN calls : calls[i].id = id /\ LastNameOf(calls, id) = calls[i].name
<1>1. CallsWith(calls, id) \subseteq DOMAIN calls
      /\ \A i \in CallsWith(calls, id) : calls[i].id = id
  BY DEF CallsWith
<1>2. \E i \in CallsWith(calls, id) : \A j \in CallsWith(calls, id) : j <= i
  BY <1>1, LastPlace, ConversionAssumption
<1> QED
  BY <1>1, <1>2 DEF LastNameOf

(* The calls of a turn enter the tables as they enter the prompt.          *)
LEMMA TurnTables ==
  ASSUME IInv, NEW message \in Messages, ConvertTurn(message),
         NEW C, C = {ShownCalls(message)[i] : i \in DOMAIN ShownCalls(message)},
         ShownSoFar' = ShownSoFar \union C
  PROVE  /\ TablesMatch'
         /\ validToolCallIDs' \subseteq RealIDs /\ repairedToolCallIDs' \subseteq validToolCallIDs'
         /\ toolCallIDToName' \in [RealIDs -> Names]
<1> DEFINE calls == ShownCalls(message)
           ids == RealIDsOf(calls)
<1>1. /\ message.role = "assistant"
      /\ validToolCallIDs' = validToolCallIDs \union ids
      /\ repairedToolCallIDs' = repairedToolCallIDs \union
           {id \in ids : \E i \in CallsWith(calls, id) : calls[i].args = "mended"}
      /\ toolCallIDToName' = [id \in RealIDs |->
           IF id \in ids THEN LastNameOf(calls, id) ELSE toolCallIDToName[id]]
  BY DEF ConvertTurn, Recorded
<1>2. /\ DOMAIN calls \subseteq 1 .. MaxCalls
      /\ \A i \in DOMAIN calls : calls[i] \in Calls /\ calls[i].name # NoName
  BY <1>1, ShownCallsType
<1> HIDE DEF calls
<1>3. C = {calls[i] : i \in DOMAIN calls}
  BY DEF calls
<1>4. /\ validToolCallIDs = {call.id : call \in ShownSoFar} \intersect RealIDs
      /\ repairedToolCallIDs =
           {id \in RealIDs : \E call \in ShownSoFar : call.id = id /\ call.args = "mended"}
      /\ \A id \in validToolCallIDs :
           \E call \in ShownSoFar :
             call.id = id /\ call.name = toolCallIDToName[id] /\ call.name # NoName
      /\ toolCallIDToName \in [RealIDs -> Names]
  BY DEF IInv, TablesMatch, TypeOK
<1>5. ids = {call.id : call \in C} \intersect RealIDs
  BY <1>3 DEF RealIDsOf
<1>6. validToolCallIDs' = {call.id : call \in ShownSoFar'} \intersect RealIDs
  BY <1>1, <1>4, <1>5
<1>7. repairedToolCallIDs' =
        {id \in RealIDs : \E call \in ShownSoFar' : call.id = id /\ call.args = "mended"}
  <2>1. {id \in ids : \E i \in CallsWith(calls, id) : calls[i].args = "mended"}
          = {id \in RealIDs : \E call \in C : call.id = id /\ call.args = "mended"}
    BY <1>3 DEF CallsWith, RealIDsOf
  <2> QED
    BY <1>1, <1>4, <2>1
<1>8. ASSUME NEW id \in ids
      PROVE  \E call \in C : /\ call.id = id /\ call.name = LastNameOf(calls, id)
                             /\ call.name # NoName /\ call \in Calls
  <2>1. CallsWith(calls, id) # {}
    BY DEF RealIDsOf, CallsWith
  <2> QED
    BY <1>2, <1>3, <2>1, LastName
<1>9. ids \subseteq RealIDs /\ validToolCallIDs \subseteq RealIDs
  BY DEF RealIDsOf, IInv, TypeOK
<1>10. ASSUME NEW id \in validToolCallIDs'
       PROVE  \E call \in ShownSoFar' :
                call.id = id /\ call.name = toolCallIDToName'[id] /\ call.name # NoName
  <2>1. CASE id \in ids
    BY <1>1, <1>8, <1>9, <2>1
  <2>2. CASE id \notin ids
    BY <1>1, <1>4, <1>9, <2>2
  <2> QED
    BY <2>1, <2>2
<1>11. toolCallIDToName' \in [RealIDs -> Names]
  <2>1. ASSUME NEW id \in ids PROVE LastNameOf(calls, id) \in Names
    BY <1>8 DEF Calls
  <2> QED
    BY <1>1, <1>4, <2>1
<1>12. validToolCallIDs' \subseteq RealIDs /\ repairedToolCallIDs' \subseteq validToolCallIDs'
  BY <1>6, <1>7
<1> QED
  BY <1>6, <1>7, <1>10, <1>11, <1>12 DEF TablesMatch

(* A turn of the assistant.                                                *)
LEMMA ConvertTurnStep ==
  ASSUME IInv, NEW message \in Messages, Len(history) < MaxMessages, ConvertTurn(message)
  PROVE  IInv'
<1>1. message.role = "assistant" /\ Read(message)
  BY DEF ConvertTurn
<1>2. PICK n : n = Len(history) + 1
  OBVIOUS
<1>3. /\ n \in Nat /\ history'[n] = message /\ DOMAIN history' = DOMAIN history \union {n}
  BY <1>1, <1>2, NewMessage
<1>4. ShownCalls(message) \in PlacedCalls
  BY <1>1, ShownCallsType
<1>5. PICK line \in PromptLines :
        line = [from |-> n, role |-> "assistant", calls |-> ShownCalls(message)]
  BY <1>3, <1>4 DEF PromptLines
<1>6. /\ line.from = Len(history) + 1 /\ line.role = "assistant"
      /\ line.calls = ShownCalls(message) /\ line.role # "tool_result"
  BY <1>2, <1>5
<1>7. \/ Show(line)
      \/ UNCHANGED processed /\ DOMAIN ShownCalls(message) = {}
  BY <1>2, <1>5 DEF ConvertTurn
<1>8. /\ LinesWellFormed'
      /\ \A k \in Lines : HasItsCall(k)'
      /\ \A m \in DOMAIN history : HasItsLine(m)'
  BY <1>1, <1>6, <1>7, PastKept
<1>9. PICK C : C = {ShownCalls(message)[i] : i \in DOMAIN ShownCalls(message)}
  OBVIOUS
<1>10. ShownSoFar' = ShownSoFar \union C
  <2>1. CASE Show(line)
    <3>1. PICK N : N = Len(processed) + 1
      OBVIOUS
    <3>2. processed'[N] = line /\ ShownSoFar' = ShownSoFar \union ShownIn(N)'
      BY <2>1, <3>1, LinesStay
    <3>3. ShownIn(N)' = C
      BY <1>6, <1>9, <3>2 DEF ShownIn
    <3> QED
      BY <3>2, <3>3
  <2>2. CASE UNCHANGED processed /\ DOMAIN ShownCalls(message) = {}
    <3>1. C = {}
      BY <1>9, <2>2
    <3> QED
      BY <2>2, <3>1 DEF ShownSoFar, Lines, ShownIn
  <2> QED
    BY <1>7, <2>1, <2>2
<1>11. /\ TablesMatch'
       /\ validToolCallIDs' \subseteq RealIDs /\ repairedToolCallIDs' \subseteq validToolCallIDs'
       /\ toolCallIDToName' \in [RealIDs -> Names]
  BY <1>9, <1>10, TurnTables
<1>12. TypeOK'
  <2>1. history' \in Seq(Messages) /\ Len(history') <= MaxMessages /\ Len(processed') <= Len(history')
    BY <1>1, <1>7, LengthsKept
  <2> QED
    BY <1>11, <2>1 DEF TypeOK
<1>13. \A k \in Lines' : HasItsCall(k)'
  <2>1. ASSUME NEW k \in Lines', k \notin Lines PROVE processed'[k].role # "tool_result"
    BY <1>6, <1>7, <2>1, LinesStay DEF Lines
  <2> QED
    BY <1>8, <2>1 DEF HasItsCall
<1>14. \A m \in DOMAIN history' : HasItsLine(m)'
  <2>1. HasItsLine(n)'
    BY <1>1, <1>3 DEF HasItsLine
  <2> QED
    BY <1>3, <1>8, <2>1
<1> QED
  BY <1>8, <1>11, <1>12, <1>13, <1>14 DEF IInv

-----------------------------------------------------------------------------
LEMMA InitInv == Init => IInv
<1> SUFFICES ASSUME Init PROVE IInv
  OBVIOUS
<1>1. /\ history = <<>> /\ validToolCallIDs = {} /\ repairedToolCallIDs = {}
      /\ toolCallIDToName = [id \in RealIDs |-> NoName] /\ processed = <<>>
  BY DEF Init
<1>2. Lines = {} /\ DOMAIN history = {} /\ ShownSoFar = {}
  BY <1>1 DEF Lines, ShownSoFar
<1>3. TypeOK
  BY <1>1, ConversionAssumption DEF TypeOK, Names
<1>4. LinesWellFormed /\ TablesMatch
  BY <1>1, <1>2 DEF LinesWellFormed, TablesMatch
<1> QED
  BY <1>2, <1>3, <1>4 DEF IInv

LEMMA StepInv == IInv /\ [Next]_vars => IInv'
<1> SUFFICES ASSUME IInv, [Next]_vars PROVE IInv'
  OBVIOUS
<1>1. ASSUME NEW message \in Messages, Len(history) < MaxMessages, Convert(message)
      PROVE  IInv'
  BY <1>1, ConvertPlainStep, ConvertTurnStep, ConvertResultStep DEF Convert
<1>2. CASE UNCHANGED vars
  <2>1. UNCHANGED <<history, validToolCallIDs, repairedToolCallIDs, toolCallIDToName, processed>>
    BY <1>2 DEF vars
  <2>2. /\ Lines' = Lines /\ ShownSoFar' = ShownSoFar
        /\ \A k : RealBefore(k)' = RealBefore(k) /\ LineOf(k)' = LineOf(k) /\ ItsCalls(k)' = ItsCalls(k)
    BY <2>1 DEF Lines, ShownSoFar, ShownIn, RealBefore, ShownBefore, LineOf, ItsCalls
  <2>3. TypeOK' /\ LinesWellFormed' /\ TablesMatch'
    BY <2>1, <2>2 DEF IInv, TypeOK, LinesWellFormed, TablesMatch
  <2>4. \A k \in Lines' : HasItsCall(k)'
    BY <2>1, <2>2 DEF IInv, HasItsCall
  <2>5. \A n \in DOMAIN history' : HasItsLine(n)'
    BY <2>1, <2>2 DEF IInv, HasItsLine
  <2> QED
    BY <2>3, <2>4, <2>5 DEF IInv
<1> QED
  BY <1>1, <1>2 DEF Next

(* The inductive invariant holds in every reachable state. *)
THEOREM Invariance == Spec => []IInv
<1>1. Init => IInv
  BY InitInv
<1>2. IInv /\ [Next]_vars => IInv'
  BY StepInv
<1> QED
  BY <1>1, <1>2, PTL DEF Spec

(* The tables are about real ids only, a mended id is a valid one, and the *)
(* prompt has at most a line for each message (translator.go:793-1002).    *)
THEOREM TypeCorrect == Spec => []TypeOK
<1>1. IInv => TypeOK
  BY DEF IInv
<1> QED
  BY <1>1, Invariance, PTL

(* GLM sees no result out of the blue (translator.go:874-884, 906-923).    *)
THEOREM NoResultOutOfTheBlue == Spec => []ResultsHaveTheirCalls
<1>1. IInv => ResultsHaveTheirCalls
  BY DEF IInv, HasItsCall, ResultsHaveTheirCalls
<1> QED
  BY <1>1, Invariance, PTL

(* No result of a call that is shown unmended is lost                      *)
(* (translator.go:906-914).                                                *)
THEOREM NoResultLost == Spec => []CallsHaveTheirResults
<1>1. IInv => CallsHaveTheirResults
  BY DEF IInv, HasItsLine, ItsCalls, CallsHaveTheirResults
<1> QED
  BY <1>1, Invariance, PTL
=============================================================================
