---------------------------- MODULE ClientChunks ----------------------------
(***************************************************************************)
(* The chunks an answer becomes for the client                             *)
(* (internal/translator/translator.go:1246-1279, 1337-1414), apart from    *)
(* what is in them: which fields they have, who announces the role, how    *)
(* calls are numbered, what ends the answer.  Of the texts it only matters *)
(* here whether they are empty, of the calls how many there are.           *)
(* Accumulator takes these actions as part of its own.  A text of          *)
(* intervention (1340-1354) is never among them: its event has a last      *)
(* error, for which chat.go:138-141 drops it.                              *)
(***************************************************************************)
EXTENDS Naturals, Sequences, FiniteSets

VARIABLES emittedRole,
          finalized,            \* Finalize has run
          chunks                \* history: the chunks sent to the client

chunkVars == <<emittedRole, finalized, chunks>>

Chunk(field, role, index) == [field |-> field, role |-> role, index |-> index]

\* The chunks of an event; the first content comes with the role.
EventChunks(think, visible) ==
  (IF think THEN <<Chunk("reasoning_content", FALSE, 0)>> ELSE <<>>)
    \o (IF visible THEN <<Chunk("content", ~emittedRole, 0)>> ELSE <<>>)

SendChunks(think, visible) ==
  /\ ~finalized
  /\ chunks' = chunks \o EventChunks(think, visible)
  /\ emittedRole' = (emittedRole \/ visible)
  /\ UNCHANGED finalized

CallChunks(calls) == [i \in 1..calls |-> Chunk("tool_calls", FALSE, i - 1)]

EndChunks(calls) ==
  <<Chunk(IF calls > 0 THEN "finish tool_calls" ELSE "finish stop", FALSE, 0),
    Chunk("[DONE]", FALSE, 0)>>

FinalChunksRole(calls) ==               \* mutant: always announces the role
  (IF calls > 0 THEN <<Chunk("role", TRUE, 0)>> ELSE <<>>)
    \o CallChunks(calls) \o EndChunks(calls)

\* The chunks that end an answer; calls need the role before them.
FinalChunks(calls) ==
  (IF calls > 0 /\ ~emittedRole THEN <<Chunk("role", TRUE, 0)>> ELSE <<>>)
    \o CallChunks(calls) \o EndChunks(calls)

FinishChunks(calls) ==
  /\ ~finalized
  /\ chunks' = chunks \o FinalChunks(calls)
  /\ emittedRole' = (emittedRole \/ calls > 0)
  /\ finalized' = TRUE

ChunksInit == emittedRole = FALSE /\ finalized = FALSE /\ chunks = <<>>

ChunksNext == \/ \E think, visible \in BOOLEAN : SendChunks(think, visible)
              \/ \E calls \in Nat : FinishChunks(calls)

ChunksSpec == ChunksInit /\ [][ChunksNext]_chunkVars

-----------------------------------------------------------------------------
Fields(set) == {i \in DOMAIN chunks : chunks[i].field \in set}

\* What an OpenAI client relies on, whatever came in which event: the role is
\* announced once and before any content or tool call, the calls are numbered
\* from 0 on without a gap, one finish_reason follows them and agrees with
\* them, and [DONE] is last (translator.go:1262-1279, 1352-1411).
ChunksWellFormed ==
  LET calls == Fields({"tool_calls"})
      finishes == Fields({"finish stop", "finish tool_calls"})
  IN
  /\ \A i \in Fields({"content", "tool_calls"}) :
       Cardinality({j \in 1..i : chunks[j].role}) = 1
  /\ \A i \in calls : chunks[i].index = Cardinality({j \in calls : j < i})
  /\ finalized <=> finishes = {Len(chunks) - 1}
  /\ Fields({"[DONE]"}) = IF finalized THEN {Len(chunks)} ELSE {}
  /\ finalized => (chunks[Len(chunks) - 1].field = "finish tool_calls" <=> calls # {})
=============================================================================
