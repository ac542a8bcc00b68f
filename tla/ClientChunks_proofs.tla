-------------------------- MODULE ClientChunks_proofs -----------------------
(***************************************************************************)
(* Proofs about the chunks of an answer, for any number of events and of   *)
(* calls.                                                                  *)
(***************************************************************************)
EXTENDS ClientChunks, Integers, SequenceTheorems, FiniteSetTheorems, TLAPS

AnswerFields == {"reasoning_content", "content"}
AllFields == AnswerFields \union {"role", "tool_calls", "finish stop",
                                  "finish tool_calls", "[DONE]"}
Chunks == [field : AllFields, role : BOOLEAN, index : Nat]

(* The role: at most one chunk has it, none that needs it comes earlier,   *)
(* and the flag says whether it was sent.                                  *)
RoleOnce == \A i, j \in DOMAIN chunks : chunks[i].role /\ chunks[j].role => i = j
RoleFirst ==
    \A i \in Fields({"content", "tool_calls"}) : \E j \in 1 .. i : chunks[j].role
RoleKnown == emittedRole <=> \E j \in DOMAIN chunks : chunks[j].role

(* What stands where: before the end only text and reasoning, then n       *)
(* chunks, the calls in their order, the reason and [DONE].                *)
StillOpen == \A i \in DOMAIN chunks : chunks[i].field \in AnswerFields
EndedAfter(n, calls) ==
    /\ Len(chunks) = n + calls + 2
    /\ \A i \in 1 .. n : chunks[i].field \in AnswerFields \union {"role"}
    /\ \A i \in (n + 1) .. (n + calls) :
         chunks[i].field = "tool_calls" /\ chunks[i].index = i - n - 1
    /\ chunks[n + calls + 1].field = IF calls > 0 THEN "finish tool_calls"
                                                  ELSE "finish stop"
    /\ chunks[n + calls + 2].field = "[DONE]"
EndKnown == IF finalized THEN \E n, calls \in Nat : EndedAfter(n, calls) ELSE StillOpen

ChunksTyped == chunks \in Seq(Chunks) /\ emittedRole \in BOOLEAN /\ finalized \in BOOLEAN

IInv == ChunksTyped /\ RoleOnce /\ RoleFirst /\ RoleKnown /\ EndKnown

-----------------------------------------------------------------------------
(***************************************************************************)
(* Sequences put together.                                                 *)
(***************************************************************************)

(* Where the elements of two sequences stand in the two joined.            *)
LEMMA Joined ==
  ASSUME NEW S, NEW a \in Seq(S), NEW b \in Seq(S)
  PROVE  /\ a \o b \in Seq(S)
         /\ Len(a \o b) = Len(a) + Len(b)
         /\ \A i \in 1 .. Len(a) : (a \o b)[i] = a[i]
         /\ \A i \in 1 .. Len(b) : (a \o b)[Len(a) + i] = b[i]
<1>1. Len(a) \in Nat /\ Len(b) \in Nat
  OBVIOUS
<1>2. /\ a \o b \in Seq(S)
      /\ Len(a \o b) = Len(a) + Len(b)
      /\ \A i \in 1 .. Len(a) + Len(b) :
           (a \o b)[i] = IF i <= Len(a) THEN a[i] ELSE b[i - Len(a)]
  BY ConcatProperties
<1>3. ASSUME NEW i \in 1 .. Len(a)
      PROVE  (a \o b)[i] = a[i]
  <2>1. i \in 1 .. Len(a) + Len(b) /\ i <= Len(a)
    BY <1>1, SMT
  <2>2. QED
    BY <1>2, <2>1, Zenon
<1>4. ASSUME NEW i \in 1 .. Len(b)
      PROVE  (a \o b)[Len(a) + i] = b[i]
  <2>1. /\ Len(a) + i \in 1 .. Len(a) + Len(b) /\ ~(Len(a) + i <= Len(a))
        /\ (Len(a) + i) - Len(a) = i
    BY <1>1, SMT
  <2>2. QED
    BY <1>2, <2>1, Zenon
<1>5. QED
  BY <1>2, <1>3, <1>4

(* The same for three.                                                     *)
LEMMA JoinedThree ==
  ASSUME NEW S, NEW a \in Seq(S), NEW b \in Seq(S), NEW c \in Seq(S)
  PROVE  LET all == a \o b \o c
         IN  /\ all \in Seq(S)
             /\ Len(all) = Len(a) + Len(b) + Len(c)
             /\ \A i \in 1 .. Len(a) : all[i] = a[i]
             /\ \A i \in 1 .. Len(b) : all[Len(a) + i] = b[i]
             /\ \A i \in 1 .. Len(c) : all[Len(a) + Len(b) + i] = c[i]
<1> DEFINE ab == a \o b
           all == ab \o c
<1>1. /\ ab \in Seq(S) /\ Len(ab) = Len(a) + Len(b)
      /\ \A i \in 1 .. Len(a) : ab[i] = a[i]
      /\ \A i \in 1 .. Len(b) : ab[Len(a) + i] = b[i]
  BY Joined
<1> HIDE DEF ab
<1>2. /\ all \in Seq(S) /\ Len(all) = Len(ab) + Len(c)
      /\ \A i \in 1 .. Len(ab) : all[i] = ab[i]
      /\ \A i \in 1 .. Len(c) : all[Len(ab) + i] = c[i]
  <2>1. ab \in Seq(S)
    BY <1>1
  <2>2. QED
    BY <2>1, Joined
<1> HIDE DEF all
<1>3. Len(a) \in Nat /\ Len(b) \in Nat
  OBVIOUS
<1>4. /\ \A i \in 1 .. Len(a) : i \in 1 .. Len(ab)
      /\ \A i \in 1 .. Len(b) : Len(a) + i \in 1 .. Len(ab)
  BY <1>1, <1>3, SMT
<1>5. /\ \A i \in 1 .. Len(a) : all[i] = a[i]
      /\ \A i \in 1 .. Len(b) : all[Len(a) + i] = b[i]
  BY <1>1, <1>2, <1>4, Zenon
<1>6. QED
  BY <1>1, <1>2, <1>5 DEF ab, all

-----------------------------------------------------------------------------
(***************************************************************************)
(* What a step adds.                                                       *)
(***************************************************************************)

(* The chunks of an event: reasoning, then content, each at most once.     *)
LEMMA EventShape ==
  ASSUME NEW think \in BOOLEAN, NEW visible \in BOOLEAN, emittedRole \in BOOLEAN
  PROVE  LET new == EventChunks(think, visible)
         IN  /\ new \in Seq(Chunks)
             /\ \A i \in DOMAIN new :
                  \/ new[i] = Chunk("reasoning_content", FALSE, 0)
                  \/ new[i] = Chunk("content", ~emittedRole, 0) /\ visible /\ i = Len(new)
             /\ visible => /\ Len(new) > 0
                           /\ new[Len(new)] = Chunk("content", ~emittedRole, 0)
<1>1. /\ Chunk("reasoning_content", FALSE, 0) \in Chunks
      /\ Chunk("content", ~emittedRole, 0) \in Chunks
  BY SMT DEF Chunk, Chunks, AllFields, AnswerFields
<1> DEFINE reasoning == Chunk("reasoning_content", FALSE, 0)
           content == Chunk("content", ~emittedRole, 0)
<1>2. EventChunks(think, visible) =
        (IF think THEN <<reasoning>> ELSE <<>>) \o (IF visible THEN <<content>> ELSE <<>>)
  BY DEF EventChunks
<1> HIDE DEF reasoning, content
<1>3. /\ reasoning \in Chunks /\ <<reasoning>> \in Seq(Chunks)
      /\ content \in Chunks /\ <<content>> \in Seq(Chunks)
      /\ <<>> \in Seq(Chunks)
  <2>1. reasoning \in Chunks /\ content \in Chunks
    BY <1>1 DEF reasoning, content
  <2>2. QED
    BY <2>1
<1>4. /\ <<reasoning>> \o <<>> = <<reasoning>>
      /\ <<>> \o <<content>> = <<content>>
      /\ <<>> \o <<>> = <<>>
  BY SMT
<1>5. CASE think /\ visible
  <2> DEFINE both == <<reasoning>> \o <<content>>
  <2>1. /\ both \in Seq(Chunks) /\ Len(both) = 2
        /\ both[1] = reasoning /\ both[2] = content
    <3>1. /\ Len(<<reasoning>>) = 1 /\ Len(<<content>>) = 1
          /\ <<reasoning>>[1] = reasoning /\ <<content>>[1] = content
          /\ 1 \in 1 .. 1 /\ 1 + 1 = 2
      OBVIOUS
    <3>2. /\ both \in Seq(Chunks)
          /\ Len(both) = Len(<<reasoning>>) + Len(<<content>>)
          /\ \A i \in 1 .. Len(<<reasoning>>) : both[i] = <<reasoning>>[i]
          /\ \A i \in 1 .. Len(<<content>>) : both[Len(<<reasoning>>) + i] = <<content>>[i]
      BY <1>3, Joined
    <3>3. QED
      BY <3>1, <3>2, Zenon
  <2>2. EventChunks(think, visible) = both
    BY <1>2, <1>5
  <2> HIDE DEF both
  <2>3. DOMAIN both = {1, 2}
    BY <2>1, SMT
  <2>4. 2 > 0
    OBVIOUS
  <2>5. QED
    BY <2>1, <2>2, <2>3, <2>4, <1>5, Zenon DEF reasoning, content
<1>6. CASE ~think /\ visible
  <2>1. EventChunks(think, visible) = <<content>>
    BY <1>2, <1>4, <1>6
  <2>2. /\ DOMAIN <<content>> = {1} /\ Len(<<content>>) = 1 /\ <<content>>[1] = content
        /\ 1 > 0
    OBVIOUS
  <2>3. QED
    BY <1>3, <1>6, <2>1, <2>2, Zenon DEF content
<1>7. CASE think /\ ~visible
  <2>1. EventChunks(think, visible) = <<reasoning>>
    BY <1>2, <1>4, <1>7
  <2>2. DOMAIN <<reasoning>> = {1} /\ <<reasoning>>[1] = reasoning
    OBVIOUS
  <2>3. QED
    BY <1>3, <1>7, <2>1, <2>2 DEF reasoning
<1>8. CASE ~think /\ ~visible
  <2>1. EventChunks(think, visible) = <<>>
    BY <1>2, <1>4, <1>8
  <2>2. DOMAIN <<>> = {}
    OBVIOUS
  <2>3. QED
    BY <1>3, <1>8, <2>1, <2>2
<1>9. QED
  BY <1>5, <1>6, <1>7, <1>8

(* The chunks of the end: the role if it is still missing, the calls, and  *)
(* the two that close the answer.                                          *)
RoleChunks(calls) == IF calls > 0 /\ ~emittedRole THEN 1 ELSE 0

LEMMA FinalShape ==
  ASSUME NEW calls \in Nat, emittedRole \in BOOLEAN
  PROVE  LET new == FinalChunks(calls)
             first == RoleChunks(calls)
         IN  /\ new \in Seq(Chunks)
             /\ Len(new) = first + calls + 2
             /\ first = 1 => new[1] = Chunk("role", TRUE, 0)
             /\ \A i \in (first + 1) .. (first + calls) :
                  new[i] = Chunk("tool_calls", FALSE, i - first - 1)
             /\ new[first + calls + 1] =
                  Chunk(IF calls > 0 THEN "finish tool_calls" ELSE "finish stop", FALSE, 0)
             /\ new[first + calls + 2] = Chunk("[DONE]", FALSE, 0)
<1> DEFINE role == Chunk("role", TRUE, 0)
           reason == Chunk(IF calls > 0 THEN "finish tool_calls" ELSE "finish stop",
                           FALSE, 0)
           done == Chunk("[DONE]", FALSE, 0)
           opening == IF calls > 0 /\ ~emittedRole THEN <<role>> ELSE <<>>
           middle == CallChunks(calls)
           end == EndChunks(calls)
           first == RoleChunks(calls)
           new == FinalChunks(calls)
<1>1. /\ role \in Chunks /\ reason \in Chunks /\ done \in Chunks
      /\ \A i \in Nat : Chunk("tool_calls", FALSE, i) \in Chunks
  BY SMT DEF Chunk, Chunks, AllFields
<1>2. new = opening \o middle \o end /\ end = <<reason, done>>
  BY DEF FinalChunks, EndChunks
<1> HIDE DEF role, reason, done, end, new
<1>3. /\ opening \in Seq(Chunks) /\ Len(opening) = first /\ first \in {0, 1}
      /\ first = 1 => opening[1] = role
  <2>1. <<role>> \in Seq(Chunks) /\ <<>> \in Seq(Chunks)
    BY <1>1
  <2>2. Len(<<role>>) = 1 /\ <<role>>[1] = role /\ Len(<<>>) = 0 /\ 0 # 1
    OBVIOUS
  <2>3. CASE calls > 0 /\ ~emittedRole
    <3>1. opening = <<role>> /\ first = 1
      BY <2>3 DEF RoleChunks
    <3>2. QED
      BY <2>1, <2>2, <3>1
  <2>4. CASE ~(calls > 0 /\ ~emittedRole)
    <3>1. opening = <<>> /\ first = 0
      BY <2>4, Zenon DEF RoleChunks
    <3>2. QED
      BY <2>1, <2>2, <3>1
  <2>5. QED
    BY <2>3, <2>4
<1>4. /\ middle \in Seq(Chunks) /\ Len(middle) = calls
      /\ \A i \in 1 .. calls : middle[i] = Chunk("tool_calls", FALSE, i - 1)
  <2>1. \A i \in 1 .. calls : i - 1 \in Nat
    BY SMT
  <2>2. middle \in [1 .. calls -> Chunks]
    BY <1>1, <2>1 DEF CallChunks
  <2>3. middle \in Seq(Chunks)
    BY <2>2, SeqDef
  <2>4. Len(middle) = calls
    BY <2>2, <2>3, LenProperties, SMT
  <2>5. QED
    BY <2>3, <2>4 DEF CallChunks
<1>5. /\ end \in Seq(Chunks) /\ Len(end) = 2 /\ end[1] = reason /\ end[2] = done
  BY <1>1, <1>2
<1> HIDE DEF opening, middle, first
<1>6. /\ new \in Seq(Chunks) /\ Len(new) = Len(opening) + Len(middle) + Len(end)
      /\ \A i \in 1 .. Len(opening) : new[i] = opening[i]
      /\ \A i \in 1 .. Len(middle) : new[Len(opening) + i] = middle[i]
      /\ \A i \in 1 .. Len(end) : new[Len(opening) + Len(middle) + i] = end[i]
  <2>1. opening \in Seq(Chunks) /\ middle \in Seq(Chunks) /\ end \in Seq(Chunks)
    BY <1>3, <1>4, <1>5
  <2>2. new = opening \o middle \o end
    BY <1>2
  <2>3. QED
    BY <2>1, <2>2, JoinedThree
<1>7. /\ Len(new) = first + calls + 2
      /\ \A i \in 1 .. first : new[i] = opening[i]
      /\ \A i \in 1 .. calls : new[first + i] = Chunk("tool_calls", FALSE, i - 1)
      /\ \A i \in 1 .. 2 : new[first + calls + i] = end[i]
  BY <1>3, <1>4, <1>5, <1>6, Zenon
<1>8. first = 1 => new[1] = role
  <2>1. 1 \in 1 .. 1
    OBVIOUS
  <2>2. QED
    BY <1>3, <1>7, <2>1, Zenon
<1>9. \A i \in (first + 1) .. (first + calls) :
        new[i] = Chunk("tool_calls", FALSE, i - first - 1)
  <2>1. TAKE i \in (first + 1) .. (first + calls)
  <2>2. i - first \in 1 .. calls /\ first + (i - first) = i
    BY <1>3, SMT
  <2>3. QED
    BY <1>7, <2>2, Zenon
<1>10. new[first + calls + 1] = reason /\ new[first + calls + 2] = done
  <2>1. 1 \in 1 .. 2 /\ 2 \in 1 .. 2
    OBVIOUS
  <2>2. QED
    BY <1>5, <1>7, <2>1, Zenon
<1>11. QED
  BY <1>6, <1>7, <1>8, <1>9, <1>10 DEF first, new, role, reason, done

(* A step adds its chunks behind those already sent.                       *)
LEMMA SentKept ==
  ASSUME NEW new \in Seq(Chunks), chunks \in Seq(Chunks), chunks' = chunks \o new
  PROVE  /\ chunks' \in Seq(Chunks)
         /\ Len(chunks') = Len(chunks) + Len(new)
         /\ DOMAIN chunks' = 1 .. Len(chunks')
         /\ \A i \in DOMAIN chunks : i \in DOMAIN chunks' /\ chunks'[i] = chunks[i]
         /\ \A j \in DOMAIN new : /\ Len(chunks) + j \in DOMAIN chunks'
                                  /\ chunks'[Len(chunks) + j] = new[j]
         /\ \A i \in DOMAIN chunks' :
              \/ i \in DOMAIN chunks
              \/ \E j \in DOMAIN new : i = Len(chunks) + j
<1> DEFINE both == chunks \o new
<1>1. /\ both \in Seq(Chunks) /\ Len(both) = Len(chunks) + Len(new)
      /\ \A i \in 1 .. Len(chunks) : both[i] = chunks[i]
      /\ \A i \in 1 .. Len(new) : both[Len(chunks) + i] = new[i]
  BY Joined
<1> HIDE DEF both
<1>2. chunks' = both
  BY DEF both
<1>3. /\ DOMAIN chunks = 1 .. Len(chunks) /\ DOMAIN new = 1 .. Len(new)
      /\ DOMAIN both = 1 .. Len(both)
      /\ Len(chunks) \in Nat /\ Len(new) \in Nat
  BY <1>1, LenProperties
<1>4. /\ \A i \in 1 .. Len(chunks) : i \in 1 .. Len(both)
      /\ \A i \in 1 .. Len(new) : Len(chunks) + i \in 1 .. Len(both)
      /\ \A i \in 1 .. Len(both) : \/ i \in 1 .. Len(chunks)
                                   \/ i - Len(chunks) \in 1 .. Len(new)
                                      /\ i = Len(chunks) + (i - Len(chunks))
  BY <1>1, <1>3, SMT
<1>5. QED
  BY <1>1, <1>2, <1>3, <1>4, Zenon

-----------------------------------------------------------------------------
(***************************************************************************)
(* The invariant.                                                          *)
(***************************************************************************)

LEMMA InitInv == ChunksInit => IInv
<1>1. SUFFICES ASSUME ChunksInit
               PROVE  IInv
  OBVIOUS
<1>2. chunks \in Seq(Chunks) /\ DOMAIN chunks = {} /\ emittedRole = FALSE /\ finalized = FALSE
  BY <1>1 DEF ChunksInit
<1>3. QED
  BY <1>2 DEF IInv, ChunksTyped, RoleOnce, RoleFirst, RoleKnown, EndKnown, StillOpen, Fields

(* The role comes with the first content, and with no other.               *)
LEMMA SendInv ==
  ASSUME IInv, NEW think \in BOOLEAN, NEW visible \in BOOLEAN, SendChunks(think, visible)
  PROVE  IInv'
<1> DEFINE new == EventChunks(think, visible)
           L == Len(chunks)
           reasoning == Chunk("reasoning_content", FALSE, 0)
           content == Chunk("content", ~emittedRole, 0)
<1>1. /\ chunks \in Seq(Chunks) /\ emittedRole \in BOOLEAN /\ finalized = FALSE
      /\ chunks' = chunks \o new /\ emittedRole' = (emittedRole \/ visible)
      /\ finalized' = FALSE /\ StillOpen
  BY DEF IInv, ChunksTyped, SendChunks, EndKnown
<1>2. /\ new \in Seq(Chunks)
      /\ \A i \in DOMAIN new : \/ new[i] = reasoning
                               \/ new[i] = content /\ visible /\ i = Len(new)
      /\ visible => Len(new) > 0 /\ new[Len(new)] = content
  BY <1>1, EventShape
<1>3. /\ reasoning.field = "reasoning_content" /\ reasoning.role = FALSE
      /\ content.field = "content" /\ content.role = ~emittedRole
  BY DEF Chunk
<1> HIDE DEF new, reasoning, content
<1>4. /\ chunks' \in Seq(Chunks)
      /\ DOMAIN chunks' = 1 .. Len(chunks')
      /\ \A i \in DOMAIN chunks : i \in DOMAIN chunks' /\ chunks'[i] = chunks[i]
      /\ \A j \in DOMAIN new : L + j \in DOMAIN chunks' /\ chunks'[L + j] = new[j]
      /\ \A i \in DOMAIN chunks' :
           i \in DOMAIN chunks \/ \E j \in DOMAIN new : i = L + j
  BY <1>1, <1>2, SentKept
<1>5. L \in Nat /\ DOMAIN chunks = 1 .. L /\ Len(new) \in Nat /\ DOMAIN new = 1 .. Len(new)
  BY <1>1, <1>2, LenProperties
<1> HIDE DEF L
<1>6. \A i \in DOMAIN chunks' :
        \/ i \in DOMAIN chunks /\ chunks'[i] = chunks[i]
        \/ chunks'[i] = reasoning
        \/ chunks'[i] = content /\ visible /\ i = L + Len(new)
  BY <1>2, <1>4, Zenon
<1>7. ChunksTyped'
  BY <1>1, <1>4 DEF ChunksTyped
<1>8. StillOpen'
  BY <1>1, <1>3, <1>6 DEF StillOpen, AnswerFields
<1>9. RoleOnce'
  <2>1. SUFFICES ASSUME NEW i \in DOMAIN chunks', NEW j \in DOMAIN chunks',
                        chunks'[i].role, chunks'[j].role
                 PROVE  i = j
    BY DEF RoleOnce
  <2>2. CASE emittedRole
    <3>1. i \in DOMAIN chunks /\ chunks[i].role /\ j \in DOMAIN chunks /\ chunks[j].role
      BY <2>1, <2>2, <1>3, <1>6
    <3>2. QED
      BY <3>1 DEF IInv, RoleOnce
  <2>3. CASE ~emittedRole
    <3>1. \A k \in DOMAIN chunks : ~chunks[k].role
      BY <2>3 DEF IInv, RoleKnown
    <3>2. i = L + Len(new) /\ j = L + Len(new)
      BY <2>1, <3>1, <1>3, <1>6
    <3>3. QED
      BY <3>2
  <2>4. QED
    BY <2>2, <2>3
<1>10. RoleFirst'
  <2>1. SUFFICES ASSUME NEW i \in DOMAIN chunks',
                        chunks'[i].field \in {"content", "tool_calls"}
                 PROVE  \E j \in 1 .. i : chunks'[j].role
    BY DEF RoleFirst, Fields
  <2>2. i \in Nat
    BY <1>4, SMT
  <2>3. CASE i \in DOMAIN chunks /\ chunks'[i] = chunks[i]
    <3>1. PICK j \in 1 .. i : chunks[j].role
      BY <2>1, <2>3 DEF IInv, RoleFirst, Fields
    <3>2. j \in DOMAIN chunks
      BY <2>3, <1>5, SMT
    <3>3. QED
      BY <3>1, <3>2, <1>4
  <2>4. CASE i \notin DOMAIN chunks /\ emittedRole
    <3>1. PICK j \in DOMAIN chunks : chunks[j].role
      BY <2>4 DEF IInv, RoleKnown
    <3>2. j \in 1 .. i
      BY <2>2, <2>4, <1>4, <1>5, SMT
    <3>3. QED
      BY <3>1, <3>2, <1>4
  <2>5. CASE i \notin DOMAIN chunks /\ ~emittedRole
    <3>1. chunks'[i].role
      BY <2>1, <2>5, <1>3, <1>6
    <3>2. i \in 1 .. i
      BY <1>4, SMT
    <3>3. QED
      BY <3>1, <3>2
  <2>6. QED
    BY <2>3, <2>4, <2>5, <1>4
<1>11. RoleKnown'
  <2>1. CASE emittedRole
    <3>1. PICK j \in DOMAIN chunks : chunks[j].role
      BY <2>1 DEF IInv, RoleKnown
    <3>2. j \in DOMAIN chunks' /\ chunks'[j].role
      BY <3>1, <1>4
    <3>3. QED
      BY <3>2, <2>1, <1>1 DEF RoleKnown
  <2>2. CASE ~emittedRole /\ visible
    <3>1. Len(new) \in DOMAIN new
      BY <2>2, <1>2, <1>5, SMT
    <3>2. L + Len(new) \in DOMAIN chunks' /\ chunks'[L + Len(new)].role
      BY <3>1, <2>2, <1>2, <1>3, <1>4
    <3>3. QED
      BY <3>2, <2>2, <1>1 DEF RoleKnown
  <2>3. CASE ~emittedRole /\ ~visible
    <3>1. \A k \in DOMAIN chunks : ~chunks[k].role
      BY <2>3 DEF IInv, RoleKnown
    <3>2. \A k \in DOMAIN chunks' : ~chunks'[k].role
      BY <3>1, <2>3, <1>3, <1>6
    <3>3. QED
      BY <3>2, <2>3, <1>1 DEF RoleKnown
  <2>4. QED
    BY <2>1, <2>2, <2>3
<1>12. EndKnown'
  BY <1>1, <1>8 DEF EndKnown
<1>13. QED
  BY <1>7, <1>9, <1>10, <1>11, <1>12 DEF IInv

(* The end: the role if calls need it, the calls, the reason and [DONE].   *)
LEMMA FinishInv ==
  ASSUME IInv, NEW calls \in Nat, FinishChunks(calls)
  PROVE  IInv'
<1> DEFINE new == FinalChunks(calls)
           first == RoleChunks(calls)
           L == Len(chunks)
           reason == Chunk(IF calls > 0 THEN "finish tool_calls" ELSE "finish stop",
                           FALSE, 0)
           done == Chunk("[DONE]", FALSE, 0)
<1>1. /\ chunks \in Seq(Chunks) /\ emittedRole \in BOOLEAN /\ StillOpen
      /\ chunks' = chunks \o new /\ emittedRole' = (emittedRole \/ calls > 0)
      /\ finalized' = TRUE
  BY DEF IInv, ChunksTyped, FinishChunks, EndKnown
<1>2. /\ new \in Seq(Chunks) /\ Len(new) = first + calls + 2
      /\ first = 1 => new[1] = Chunk("role", TRUE, 0)
      /\ \A i \in (first + 1) .. (first + calls) :
           new[i] = Chunk("tool_calls", FALSE, i - first - 1)
      /\ new[first + calls + 1] = reason /\ new[first + calls + 2] = done
  BY <1>1, FinalShape
<1>3. first \in {0, 1} /\ (first = 1 <=> calls > 0 /\ ~emittedRole)
  BY SMT DEF RoleChunks
<1>4. L \in Nat /\ DOMAIN chunks = 1 .. L /\ DOMAIN new = 1 .. Len(new)
  BY <1>1, <1>2, LenProperties
<1> HIDE DEF new
<1>5. /\ chunks' \in Seq(Chunks) /\ Len(chunks') = L + Len(new)
      /\ DOMAIN chunks' = 1 .. Len(chunks')
      /\ \A i \in DOMAIN chunks : i \in DOMAIN chunks' /\ chunks'[i] = chunks[i]
      /\ \A j \in DOMAIN new : L + j \in DOMAIN chunks' /\ chunks'[L + j] = new[j]
  BY <1>1, <1>2, SentKept
<1>6. /\ reason.field = IF calls > 0 THEN "finish tool_calls" ELSE "finish stop"
      /\ reason.role = FALSE /\ done.field = "[DONE]" /\ done.role = FALSE
  BY DEF Chunk
<1> HIDE DEF first, L, reason, done
<1>7. PICK n \in Nat : n = L + first
  <2>1. first \in Nat
    BY <1>3
  <2>2. L + first \in Nat
    BY <2>1, <1>4, SMT
  <2>3. QED
    BY <2>2
<1>8. /\ L \in Nat /\ n \in Nat /\ n = L + first
      /\ first = 0 \/ first = 1
      /\ DOMAIN chunks = 1 .. L
      /\ DOMAIN new = 1 .. (first + calls + 2)
      /\ Len(chunks') = n + calls + 2
      /\ DOMAIN chunks' = 1 .. (n + calls + 2)
  <2>1. /\ DOMAIN new = 1 .. (first + calls + 2)
        /\ Len(chunks') = L + (first + calls + 2)
    BY <1>2, <1>4, <1>5
  <2>2. L + (first + calls + 2) = n + calls + 2
    BY <1>3, <1>4, <1>7, SMT
  <2>3. QED
    BY <2>1, <2>2, <1>3, <1>4, <1>5, <1>7
<1>9. first = 1 => n \in DOMAIN chunks' /\ chunks'[n] = Chunk("role", TRUE, 0)
  <2>1. SUFFICES ASSUME first = 1
                 PROVE  n \in DOMAIN chunks' /\ chunks'[n] = Chunk("role", TRUE, 0)
    OBVIOUS
  <2>2. 1 \in DOMAIN new /\ n = L + 1
    BY <2>1, <1>8, SMT
  <2>3. QED
    BY <2>1, <2>2, <1>2, <1>5
<1>10. \A i \in (n + 1) .. (n + calls) :
        chunks'[i].field = "tool_calls" /\ chunks'[i].role = FALSE
          /\ chunks'[i].index = i - n - 1
  <2>1. TAKE i \in (n + 1) .. (n + calls)
  <2> DEFINE place == i - L
             call == Chunk("tool_calls", FALSE, place - first - 1)
  <2>2. /\ place \in DOMAIN new /\ place \in (first + 1) .. (first + calls)
        /\ L + place = i /\ place - first - 1 = i - n - 1
    BY <1>8, SMT
  <2>3. call.field = "tool_calls" /\ call.role = FALSE /\ call.index = place - first - 1
    BY DEF Chunk
  <2> HIDE DEF place
  <2>4. chunks'[L + place] = new[place]
    BY <2>2, <1>5
  <2>5. new[place] = call
    BY <2>2, <1>2
  <2> HIDE DEF call
  <2>6. QED
    BY <2>2, <2>3, <2>4, <2>5
<1>11. chunks'[n + calls + 1] = reason /\ chunks'[n + calls + 2] = done
  <2>1. /\ first + calls + 1 \in DOMAIN new /\ first + calls + 2 \in DOMAIN new
        /\ L + (first + calls + 1) = n + calls + 1
        /\ L + (first + calls + 2) = n + calls + 2
    BY <1>8, SMT
  <2>2. /\ chunks'[L + (first + calls + 1)] = new[first + calls + 1]
        /\ chunks'[L + (first + calls + 2)] = new[first + calls + 2]
    BY <2>1, <1>5
  <2>3. QED
    BY <2>1, <2>2, <1>2
<1>12. \A i \in DOMAIN chunks' :
         \/ i \in DOMAIN chunks /\ chunks'[i] = chunks[i]
         \/ i = n /\ first = 1 /\ i \notin DOMAIN chunks
         \/ i \in (n + 1) .. (n + calls)
         \/ i = n + calls + 1 \/ i = n + calls + 2
  <2>1. \A i \in DOMAIN chunks' :
          \/ i \in DOMAIN chunks
          \/ i = n /\ first = 1 /\ i \notin DOMAIN chunks
          \/ i \in (n + 1) .. (n + calls)
          \/ i = n + calls + 1 \/ i = n + calls + 2
    <3>1. TAKE i \in DOMAIN chunks'
    <3>2. i \in 1 .. (n + calls + 2) /\ i \in Int
      BY <1>8, SMT
    <3>3. \/ i \in 1 .. L
          \/ i = n /\ first = 1 /\ i > L
          \/ i \in (n + 1) .. (n + calls)
          \/ i = n + calls + 1 \/ i = n + calls + 2
      BY <3>2, <1>8, SMT
    <3>4. i > L => i \notin 1 .. L
      BY <3>2, <1>8, SMT
    <3>5. QED
      BY <3>3, <3>4, <1>8, Zenon
  <2>2. QED
    BY <2>1, <1>5
<1>13. \A i \in DOMAIN chunks' :
         chunks'[i].role => \/ i \in DOMAIN chunks /\ chunks[i].role
                            \/ i = n /\ first = 1 /\ i \notin DOMAIN chunks
  <2>1. /\ \A i \in (n + 1) .. (n + calls) : chunks'[i].role = FALSE
        /\ chunks'[n + calls + 1].role = FALSE /\ chunks'[n + calls + 2].role = FALSE
    BY <1>10, <1>11, <1>6
  <2>2. QED
    BY <2>1, <1>12, Zenon
<1>14. ChunksTyped'
  <2>1. emittedRole' \in BOOLEAN
    BY <1>1
  <2>2. QED
    BY <2>1, <1>1, <1>5 DEF ChunksTyped
<1>15. first = 1 => \A i \in DOMAIN chunks : ~chunks[i].role
  BY <1>3 DEF IInv, RoleKnown
<1>16. RoleOnce'
  BY <1>13, <1>15, Zenon DEF IInv, RoleOnce
<1>17. RoleKnown'
  <2>1. CASE emittedRole
    <3>1. PICK j \in DOMAIN chunks : chunks[j].role
      BY <2>1 DEF IInv, RoleKnown
    <3>2. j \in DOMAIN chunks' /\ chunks'[j].role
      BY <3>1, <1>5
    <3>3. QED
      BY <3>2, <2>1, <1>1 DEF RoleKnown
  <2>2. CASE first = 1
    <3>1. n \in DOMAIN chunks' /\ chunks'[n].role
      BY <2>2, <1>9 DEF Chunk
    <3>2. QED
      BY <3>1, <2>2, <1>1, <1>3 DEF RoleKnown
  <2>3. CASE ~emittedRole /\ first # 1
    <3>1. ~emittedRole' /\ \A k \in DOMAIN chunks : ~chunks[k].role
      BY <2>3, <1>1, <1>3 DEF IInv, RoleKnown
    <3>2. \A k \in DOMAIN chunks' : ~chunks'[k].role
      BY <3>1, <2>3, <1>13
    <3>3. QED
      BY <3>1, <3>2 DEF RoleKnown
  <2>4. QED
    BY <2>1, <2>2, <2>3
<1>18. RoleFirst'
  <2>1. SUFFICES ASSUME NEW i \in DOMAIN chunks',
                        chunks'[i].field \in {"content", "tool_calls"}
                 PROVE  \E j \in 1 .. i : chunks'[j].role
    BY DEF RoleFirst, Fields
  <2>2. CASE i \in DOMAIN chunks /\ chunks'[i] = chunks[i]
    <3>1. PICK j \in 1 .. i : chunks[j].role
      BY <2>1, <2>2 DEF IInv, RoleFirst, Fields
    <3>2. j \in DOMAIN chunks
      BY <2>2, <1>4, SMT
    <3>3. QED
      BY <3>1, <3>2, <1>5
  <2>3. CASE i = n /\ first = 1
    <3>1. chunks'[i].role
      BY <2>3, <1>9 DEF Chunk
    <3>2. i \in 1 .. i
      BY <1>5, SMT
    <3>3. QED
      BY <3>1, <3>2
  <2>4. CASE i \in (n + 1) .. (n + calls)
    <3>1. calls > 0
      BY <2>4, <1>8, SMT
    <3>2. emittedRole'
      BY <3>1, <1>1
    <3>3. PICK j \in DOMAIN chunks' : chunks'[j].role
      BY <3>2, <1>17 DEF RoleKnown
    <3>4. j \in 1 .. n
      BY <3>3, <1>13, <1>8, SMT
    <3>5. j \in 1 .. i
      BY <3>4, <2>4, <1>8, SMT
    <3>6. QED
      BY <3>3, <3>5
  <2>5. CASE i = n + calls + 1 \/ i = n + calls + 2
    <3>1. chunks'[i].field \in {"finish tool_calls", "finish stop", "[DONE]"}
      BY <2>5, <1>11, <1>6
    <3>2. QED
      BY <3>1, <2>1
  <2>6. QED
    BY <2>2, <2>3, <2>4, <2>5, <1>12
<1>19. EndedAfter(n, calls)'
  <2>1. \A i \in 1 .. n : chunks'[i].field \in AnswerFields \union {"role"}
    <3>1. TAKE i \in 1 .. n
    <3>2. i \in DOMAIN chunks \/ (i = n /\ first = 1)
      BY <1>8, SMT
    <3>3. QED
      BY <3>2, <1>1, <1>5, <1>9 DEF StillOpen, Chunk
  <2>2. \A i \in (n + 1) .. (n + calls) :
          chunks'[i].field = "tool_calls" /\ chunks'[i].index = i - n - 1
    BY <1>10
  <2>3. /\ chunks'[n + calls + 1].field = IF calls > 0 THEN "finish tool_calls"
                                                       ELSE "finish stop"
        /\ chunks'[n + calls + 2].field = "[DONE]"
    BY <1>11, <1>6
  <2>4. QED
    BY <2>1, <2>2, <2>3, <1>8 DEF EndedAfter
<1>20. EndKnown'
  BY <1>1, <1>8, <1>19 DEF EndKnown
<1>21. QED
  BY <1>14, <1>16, <1>17, <1>18, <1>20 DEF IInv

LEMMA NextInv == IInv /\ [ChunksNext]_chunkVars => IInv'
<1>1. SUFFICES ASSUME IInv, [ChunksNext]_chunkVars
               PROVE  IInv'
  OBVIOUS
<1>2. CASE \E think, visible \in BOOLEAN : SendChunks(think, visible)
  BY <1>1, <1>2, SendInv
<1>3. CASE \E calls \in Nat : FinishChunks(calls)
  BY <1>1, <1>3, FinishInv
<1>4. CASE UNCHANGED chunkVars
  <2>1. UNCHANGED <<emittedRole, finalized, chunks>>
    BY <1>4 DEF chunkVars
  <2>2. QED
    BY <2>1, <1>1 DEF IInv, ChunksTyped, RoleOnce, RoleFirst, RoleKnown, EndKnown,
                      StillOpen, EndedAfter, Fields
<1>5. QED
  BY <1>1, <1>2, <1>3, <1>4 DEF ChunksNext

(* However many events an answer has and however many calls are found in   *)
(* it, the invariant holds: the role is sent at most once and never late,  *)
(* and everything but text and reasoning stands at the end, in its place   *)
(* (translator.go:1246-1279, 1337-1414).                                   *)
THEOREM Invariance == ChunksSpec => []IInv
<1>1. QED
  BY InitInv, NextInv, PTL DEF ChunksSpec

-----------------------------------------------------------------------------
(***************************************************************************)
(* The well-formed stream of chunks.                                       *)
(***************************************************************************)

(* The role comes exactly once before each content and each call.          *)
LEMMA RoleCounted ==
  ASSUME IInv
  PROVE  \A i \in Fields({"content", "tool_calls"}) :
           Cardinality({j \in 1 .. i : chunks[j].role}) = 1
<1>1. TAKE i \in Fields({"content", "tool_calls"})
<1>2. PICK k \in 1 .. i : chunks[k].role
  BY DEF IInv, RoleFirst
<1>3. \A j \in 1 .. i : j \in DOMAIN chunks
  <2>1. chunks \in Seq(Chunks) /\ i \in DOMAIN chunks
    BY DEF IInv, ChunksTyped, Fields
  <2>2. Len(chunks) \in Nat /\ DOMAIN chunks = 1 .. Len(chunks)
    BY <2>1, LenProperties
  <2>3. QED
    BY <2>1, <2>2, SMT
<1>4. {j \in 1 .. i : chunks[j].role} = {k}
  BY <1>2, <1>3 DEF IInv, RoleOnce
<1>5. QED
  BY <1>4, FS_Singleton

(* At the end: where the calls, the reason and [DONE] stand.               *)
LEMMA EndCounted ==
  ASSUME IInv, NEW n \in Nat, NEW calls \in Nat, EndedAfter(n, calls)
  PROVE  /\ Fields({"tool_calls"}) = (n + 1) .. (n + calls)
         /\ Fields({"finish stop", "finish tool_calls"}) = {Len(chunks) - 1}
         /\ Fields({"[DONE]"}) = {Len(chunks)}
         /\ chunks[Len(chunks) - 1].field = "finish tool_calls" <=> calls > 0
<1>1. DOMAIN chunks = 1 .. (n + calls + 2) /\ Len(chunks) = n + calls + 2
  <2>1. chunks \in Seq(Chunks)
    BY DEF IInv, ChunksTyped
  <2>2. QED
    BY <2>1, LenProperties DEF EndedAfter
<1>2. /\ Len(chunks) - 1 = n + calls + 1 /\ Len(chunks) = n + calls + 2
      /\ n + calls + 1 # n + calls + 2
      /\ n + calls + 1 \in DOMAIN chunks /\ n + calls + 2 \in DOMAIN chunks
      /\ n + calls + 1 \notin (n + 1) .. (n + calls)
      /\ n + calls + 2 \notin (n + 1) .. (n + calls)
      /\ \A i \in (n + 1) .. (n + calls) : i \in DOMAIN chunks
  BY <1>1, SMT
<1>3. \A i \in DOMAIN chunks :
        \/ i \in 1 .. n \/ i \in (n + 1) .. (n + calls)
        \/ i = n + calls + 1 \/ i = n + calls + 2
  BY <1>1, SMT
<1>4. /\ \A i \in 1 .. n : chunks[i].field \in {"reasoning_content", "content", "role"}
      /\ \A i \in (n + 1) .. (n + calls) : chunks[i].field = "tool_calls"
      /\ chunks[n + calls + 1].field = IF calls > 0 THEN "finish tool_calls"
                                                    ELSE "finish stop"
      /\ chunks[n + calls + 2].field = "[DONE]"
  BY DEF EndedAfter, AnswerFields
<1>5. Fields({"tool_calls"}) = (n + 1) .. (n + calls)
  BY <1>2, <1>3, <1>4 DEF Fields
<1>6. Fields({"finish stop", "finish tool_calls"}) = {Len(chunks) - 1}
  BY <1>2, <1>3, <1>4 DEF Fields
<1>7. Fields({"[DONE]"}) = {Len(chunks)}
  BY <1>2, <1>3, <1>4 DEF Fields
<1>8. chunks[Len(chunks) - 1].field = "finish tool_calls" <=> calls > 0
  BY <1>2, <1>4
<1>9. QED
  BY <1>5, <1>6, <1>7, <1>8

LEMMA WellFormed == IInv => ChunksWellFormed
<1>1. SUFFICES ASSUME IInv
               PROVE  ChunksWellFormed
  OBVIOUS
<1> DEFINE callsSent == Fields({"tool_calls"})
           finishes == Fields({"finish stop", "finish tool_calls"})
<1>2. finalized \in BOOLEAN
  BY <1>1 DEF IInv, ChunksTyped
<1>3. CASE finalized
  <2>1. PICK n \in Nat, calls \in Nat : EndedAfter(n, calls)
    BY <1>1, <1>3 DEF IInv, EndKnown
  <2>2. /\ callsSent = (n + 1) .. (n + calls)
        /\ finishes = {Len(chunks) - 1}
        /\ Fields({"[DONE]"}) = {Len(chunks)}
        /\ chunks[Len(chunks) - 1].field = "finish tool_calls" <=> calls > 0
    BY <1>1, <2>1, EndCounted
  <2>3. \A i \in callsSent : chunks[i].index = Cardinality({j \in callsSent : j < i})
    <3>1. TAKE i \in callsSent
    <3>2. i \in (n + 1) .. (n + calls) /\ chunks[i].index = i - n - 1
      BY <2>1, <2>2 DEF EndedAfter
    <3>3. {j \in (n + 1) .. (n + calls) : j < i} = (n + 1) .. (i - 1)
      BY <3>2, SMT
    <3>4. Cardinality((n + 1) .. (i - 1)) = IF n + 1 > i - 1 THEN 0
                                            ELSE (i - 1) - (n + 1) + 1
      <4>1. n + 1 \in Int /\ i - 1 \in Int
        BY <3>2, SMT
      <4>2. QED
        BY <4>1, FS_Interval
    <3>5. (IF n + 1 > i - 1 THEN 0 ELSE (i - 1) - (n + 1) + 1) = i - n - 1
      BY <3>2, SMT
    <3>6. QED
      BY <2>2, <3>2, <3>3, <3>4, <3>5
  <2>4. calls > 0 <=> callsSent # {}
    <3>1. calls > 0 => n + 1 \in (n + 1) .. (n + calls)
      BY SMT
    <3>2. ~(calls > 0) => (n + 1) .. (n + calls) = {}
      BY SMT
    <3>3. QED
      BY <2>2, <3>1, <3>2
  <2>5. QED
    BY <1>1, <1>3, <2>2, <2>3, <2>4, RoleCounted, Zenon DEF ChunksWellFormed
<1>4. CASE ~finalized
  <2>1. StillOpen
    BY <1>1, <1>4 DEF IInv, EndKnown
  <2>2. callsSent = {} /\ finishes = {} /\ Fields({"[DONE]"}) = {}
    BY <2>1 DEF StillOpen, AnswerFields, Fields
  <2>3. {Len(chunks) - 1} # {}
    OBVIOUS
  <2>4. QED
    BY <1>1, <1>4, <2>2, <2>3, RoleCounted, Zenon DEF ChunksWellFormed
<1>5. QED
  BY <1>2, <1>3, <1>4

(* Every answer is a well-formed stream of chunks, whatever its events     *)
(* carry and however many calls it ends with: one role before any content  *)
(* or call, calls numbered from 0 on, one reason that agrees with them,    *)
(* [DONE] at the very end (translator.go:1262-1279, 1352-1411).            *)
THEOREM StreamsAreWellFormed == ChunksSpec => []ChunksWellFormed
<1>1. QED
  BY Invariance, WellFormed, PTL
=============================================================================
