----------------------------- MODULE Conversion -----------------------------
(***************************************************************************)
(* ConvertMessages (internal/translator/translator.go:793-1002): the       *)
(* client's whole history becomes one prompt, message by message, with     *)
(* three tables that decide which tool results GLM gets to see.            *)
(*                                                                         *)
(* A text is there or not.  Of the arguments of a call only this matters:  *)
(* "clean" ones pass the cleaning unchanged, "mended" ones are changed by  *)
(* it (types, placeholder names, a URL filled in, nothing given at all),   *)
(* "unusable" ones are no object.                                          *)
(***************************************************************************)
EXTENDS Integers, Sequences

CONSTANTS RealIDs,     \* ids of tool calls that clients use
          NoID,        \* no id, or an empty one
          ToolNames,   \* names of tools that calls and results may carry
          NoName,      \* an empty name; of a result also none
          Available,   \* the names in the request's tools; all count if there are none
          Messages,    \* messages a history may hold
          MaxCalls,    \* bound: calls of one message
          MaxMessages  \* bound: messages of a history

CallRepaired(i) == <<"call_repaired_", i>>
SyntheticIDs == {CallRepaired(i) : i \in 0 .. MaxCalls - 1}
IDs == RealIDs \union SyntheticIDs \union {NoID}
Names == ToolNames \union {NoName}
Unknown == "unknown_tool"

Calls == [id : IDs, name : Names, args : {"clean", "mended", "unusable"}]
Plain == [role : {"system", "user", "context"}, text : BOOLEAN]
Turns == [role : {"assistant"}, text : BOOLEAN, calls : Seq(Calls)]
Results == [role : {"tool"}, id : IDs, name : Names]

ASSUME ConversionAssumption ==
    /\ MaxCalls \in Nat /\ MaxMessages \in Nat
    /\ Available \subseteq ToolNames
    /\ NoID \notin RealIDs \union SyntheticIDs /\ NoName \notin ToolNames
    /\ RealIDs \intersect SyntheticIDs = {}
    /\ Messages \subseteq Plain \union Turns \union Results
    /\ \A m \in Messages \intersect Turns : Len(m.calls) <= MaxCalls

VARIABLES history,              \* the messages converted so far
          validToolCallIDs,
          repairedToolCallIDs,
          toolCallIDToName,     \* NoName where the map has no entry
          processed             \* the lines of the prompt, each with its message's number

vars == <<history, validToolCallIDs, repairedToolCallIDs, toolCallIDToName, processed>>

Init ==
    /\ history = <<>>
    /\ validToolCallIDs = {} /\ repairedToolCallIDs = {}
    /\ toolCallIDToName = [id \in RealIDs |-> NoName]
    /\ processed = <<>>

-----------------------------------------------------------------------------
(* SanitizeToolCalls: calls without a name or with unusable arguments are  *)
(* left out, calls without an id are numbered.  A call that stays keeps    *)
(* its place in the message (the code's "index").                          *)
Numbered(calls) ==
    [i \in DOMAIN calls |->
        [calls[i] EXCEPT !.id = IF @ = NoID THEN CallRepaired(i - 1) ELSE @]]
Usable(call) == call.name # NoName /\ call.args # "unusable"
SanitizeToolCalls(calls) ==
    [i \in {k \in DOMAIN calls : Usable(calls[k])} |-> Numbered(calls)[i]]

(* Calls of tools the request does not offer are not shown. *)
Offered(call) == Available = {} \/ call.name \in Available
ShownCalls(message) ==
    LET calls == SanitizeToolCalls(message.calls)
    IN  [i \in {k \in DOMAIN calls : Offered(calls[k])} |-> calls[i]]

\* Bug: made-up ids are recorded as well.
AllIDsOf(calls) == {calls[i].id : i \in DOMAIN calls}

RealIDsOf(calls) == {calls[i].id : i \in DOMAIN calls} \intersect RealIDs

CallsWith(calls, id) == {i \in DOMAIN calls : calls[i].id = id}
LastNameOf(calls, id) ==
    calls[CHOOSE i \in CallsWith(calls, id) : \A j \in CallsWith(calls, id) : j <= i].name

\* Bug: ids are recorded before the check that drops calls of other tools.
RecordedUnchecked(message) == SanitizeToolCalls(message.calls)

(* The calls whose ids go into the tables. *)
Recorded(message) == ShownCalls(message)

(* A message that is not empty becomes a line. *)
Show(line) == processed' = Append(processed, line)
Read(message) == history' = Append(history, message)

ConvertPlain(message) ==
    /\ message.role \notin {"assistant", "tool"}
    /\ Read(message)
    /\ IF message.text
         THEN Show([from |-> Len(history) + 1, role |-> message.role])
         ELSE UNCHANGED processed
    /\ UNCHANGED <<validToolCallIDs, repairedToolCallIDs, toolCallIDToName>>

(* The shown calls become blocks of the line.  Real ids are valid from     *)
(* here on, and remembered if the arguments had to be mended.              *)
ConvertTurn(message) ==
    /\ message.role = "assistant"
    /\ Read(message)
    /\ LET calls == Recorded(message)
       IN  /\ validToolCallIDs' = validToolCallIDs \union RealIDsOf(calls)
           /\ repairedToolCallIDs' = repairedToolCallIDs \union
                {id \in RealIDsOf(calls) :
                    \E i \in CallsWith(calls, id) : calls[i].args = "mended"}
           /\ toolCallIDToName' = [id \in RealIDs |->
                IF id \in RealIDsOf(calls) THEN LastNameOf(calls, id)
                                           ELSE toolCallIDToName[id]]
    /\ IF message.text \/ DOMAIN ShownCalls(message) # {}
         THEN Show([from |-> Len(history) + 1, role |-> "assistant",
                    calls |-> ShownCalls(message)])
         ELSE UNCHANGED processed

\* Bug: an id the gateway made up is looked for among the real ones.
SkippedSynthetic(id) ==
    \/ id # NoID /\ validToolCallIDs # {} /\ id \notin validToolCallIDs
    \/ id \in repairedToolCallIDs

(* A result is skipped if its id is not one of the valid ones, once there  *)
(* are any, or if its call was mended.  A made-up id is never checked.     *)
Skipped(id) ==
    \/ id \in RealIDs /\ validToolCallIDs # {} /\ id \notin validToolCallIDs
    \/ id \in repairedToolCallIDs

NameOf(message) ==
    CASE message.name # NoName -> message.name
      [] message.name = NoName /\ message.id \in RealIDs
           /\ toolCallIDToName[message.id] # NoName -> toolCallIDToName[message.id]
      [] OTHER -> Unknown

ConvertResult(message) ==
    /\ message.role = "tool"
    /\ Read(message)
    /\ IF Skipped(message.id)
         THEN UNCHANGED processed
         ELSE Show([from |-> Len(history) + 1, role |-> "tool_result",
                    id |-> message.id, name |-> NameOf(message)])
    /\ UNCHANGED <<validToolCallIDs, repairedToolCallIDs, toolCallIDToName>>

Convert(message) == ConvertPlain(message) \/ ConvertTurn(message) \/ ConvertResult(message)

Next == Len(history) < MaxMessages /\ \E message \in Messages : Convert(message)

Spec == Init /\ [][Next]_vars

-----------------------------------------------------------------------------
Lines == DOMAIN processed
ShownIn(k) ==
    IF processed[k].role = "assistant"
      THEN {processed[k].calls[i] : i \in DOMAIN processed[k].calls} ELSE {}
ShownBefore(k) == UNION {ShownIn(j) : j \in {l \in Lines : l < k}}
RealBefore(k) == {call \in ShownBefore(k) : call.id \in RealIDs}
LineOf(n) == {k \in Lines : processed[k].from = n}

TypeOK ==
    /\ history \in Seq(Messages) /\ Len(history) <= MaxMessages
    /\ validToolCallIDs \subseteq RealIDs
    /\ repairedToolCallIDs \subseteq validToolCallIDs
    /\ toolCallIDToName \in [RealIDs -> Names]
    /\ Len(processed) <= Len(history)

(* GLM sees no result out of the blue: a result with a real id comes after *)
(* a call of that id which is shown too, and takes that call's tool name   *)
(* if it has none, unless no real id was shown at all before it            *)
(* (translator.go:874-884, 906-923).                                       *)
ResultsHaveTheirCalls ==
    \A k \in Lines :
        processed[k].role = "tool_result" /\ processed[k].id \in RealIDs =>
            \/ RealBefore(k) = {}
            \/ \E call \in RealBefore(k) :
                 /\ call.id = processed[k].id
                 /\ history[processed[k].from].name = NoName => processed[k].name = call.name

(* No result is lost (translator.go:906-908): it is shown if its id was    *)
(* made up by the gateway or is missing, and if its call is shown before   *)
(* it, unless a call of that id had to be mended.                          *)
CallsHaveTheirResults ==
    \A n \in DOMAIN history :
        LET id == history[n].id
            its == {call \in UNION {ShownIn(k) : k \in {l \in Lines : processed[l].from < n}} :
                      call.id = id}
        IN  /\ history[n].role = "tool"
            /\ \/ id \notin RealIDs
               \/ its # {} /\ \A call \in its : call.args # "mended"
            => LineOf(n) # {}
=============================================================================
