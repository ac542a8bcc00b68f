----------------------------- MODULE ToolParser -----------------------------
(***************************************************************************)
(* The streaming tool-call parser (internal/tools/parser.go).              *)
(*                                                                         *)
(* The model answers with text in which tool calls are embedded: in a      *)
(* [function_calls] block, in a tool_code fence, and (as an echo that   *)
(* is to be dropped) in a tool_result fence.  The parser gets the text  *)
(* in pieces cut anywhere and must hide the blocks, collect the calls and  *)
(* hold back no more text than it has to.                                  *)
(*                                                                         *)
(* Text is a sequence of tokens.  A token that begins or ends a marker is  *)
(* one place at which a chunk may be cut:                                  *)
(*   "[f" "f]"      the halves of [function_calls]                         *)
(*   "[/f" "/f]"    the halves of [/function_calls]                        *)
(*   "fence"          a fence; "tool_code", "tool_result" the words after it *)
(*   "nl", "sp"     a line break, blanks                                   *)
(*   "call"         one [call:name]{...}[/call] item                       *)
(*   "{" "}"        the halves of a {"tool_calls":[...]} object with one   *)
(*                  call; the first reaches past the name of the call      *)
(* Every other token is ordinary text.                                     *)
(***************************************************************************)
EXTENDS Naturals, FiniteSets, SequencesExt

VARIABLES PendingText,          \* StreamingToolParser.PendingText
          ToolCalls,            \* len(StreamingToolParser.ToolCalls)
          toolCallCompleted     \* StreamingToolParser._toolCallCompleted

parserVars == <<PendingText, ToolCalls, toolCallCompleted>>

-----------------------------------------------------------------------------
(***************************************************************************)
(* Markers.                                                                *)
(***************************************************************************)
FunctionCallsMarker    == <<"[f", "f]">>
FunctionCallsEndMarker == <<"[/f", "/f]">>
Fence == "fence"
Text == Seq(STRING)

From(text, i) == SubSeq(text, i, Len(text))
Holds(text, token) == token \in ToSet(text)
Stands(marker, text, i) == /\ i + Len(marker) - 1 <= Len(text)
                           /\ \A k \in DOMAIN marker : text[i + k - 1] = marker[k]
HowMany(text, token) == Cardinality({i \in DOMAIN text : text[i] = token})

\* text[i..j] is a start marker of the kind: FunctionCallsStartPattern, or
\* ToolCodeStartPattern and ToolResultStartPattern, which allow blanks
\* between the word and the line break.
StartsBlock(text, kind, i, j) ==
  \/ /\ kind = "function_calls"
     /\ Stands(FunctionCallsMarker, text, i) /\ j = i + 1
  \/ /\ kind \in {"tool_code", "tool_result"}
     /\ j >= i + 2
     /\ text[i] = Fence /\ text[i + 1] = kind
     /\ \A k \in (i + 2)..(j - 1) : text[k] = "sp"
     /\ text[j] = "nl"

Starts(text) ==
  {m \in [start : {i \in DOMAIN text : text[i] \in {Fence, "[f"}},
          end : DOMAIN text,
          kind : {"function_calls", "tool_code", "tool_result"}] :
     m.start < m.end /\ StartsBlock(text, m.kind, m.start, m.end)}

FirstOf(starts) == CHOOSE m \in starts : \A n \in starts : m.start <= n.start

\* Where the text ends in a marker that may still become complete, the
\* position at which it begins; otherwise 0.  A complete end marker counts
\* as one, and so does a fence with its word.
PartialMarkers ==
  { <<Fence>>, <<Fence, "tool_code">>, <<Fence, "tool_result">>,
    <<"[f">>, FunctionCallsMarker, <<"[/f">>, FunctionCallsEndMarker }

FindPartialMarkerHalves(text) ==       \* mutant: only half markers are held back
  IF \E m \in {<<"[f">>, <<"[/f">>} : IsSuffix(m, text) THEN Len(text) ELSE 0

FindPartialMarkerAnywhere(text) ==     \* mutant: not only at the end
  IF \E i \in DOMAIN text : text[i] \in {Fence, "[f", "[/f"}
  THEN CHOOSE i \in DOMAIN text : text[i] \in {Fence, "[f", "[/f"} /\
         \A j \in 1..(i - 1) : text[j] \notin {Fence, "[f", "[/f"}
  ELSE 0

FindPartialMarker(text) ==
  LET partial == {i \in DOMAIN text : From(text, i) \in PartialMarkers}
  IN  IF partial = {} THEN 0 ELSE Min(partial)

-----------------------------------------------------------------------------
(***************************************************************************)
(* Blocks.                                                                 *)
(***************************************************************************)
\* FindFenceClose from position i: the body before the closing fence, which
\* takes a line break in front of it along, and the position after it.
FindFenceClose(text, i) ==
  LET fences == {p \in i..Len(text) : text[p] = Fence}
      p == Min(fences)
      last == IF p > i /\ text[p - 1] = "nl" THEN p - 2 ELSE p - 1
  IN  IF fences = {} THEN [closed |-> FALSE, body |-> From(text, i), after |-> 0]
      ELSE [closed |-> TRUE, body |-> SubSeq(text, i, last), after |-> p + 1]

FindFunctionCallsEnd(text, i) ==
  LET ends == {p \in i..Len(text) : Stands(FunctionCallsEndMarker, text, p)}
      p == Min(ends)
  IN  IF ends = {} THEN [closed |-> FALSE, body |-> From(text, i), after |-> 0]
      ELSE [closed |-> TRUE, body |-> SubSeq(text, i, p - 1), after |-> p + 2]

CloseOf(text, m) == IF m.kind = "function_calls"
                    THEN FindFunctionCallsEnd(text, m.end + 1)
                    ELSE FindFenceClose(text, m.end + 1)

\* TryParseJSON: a body that is not JSON is repaired from its first opening
\* bracket on, and an object that breaks off is closed; a body without a
\* bracket is not parsed at all.  ExtractCallsFromPayload finds calls only in
\* an object with tool_calls.
Brackets == {"{", "call", "[f", "[/f"}
ObjectAt(text, i, others) ==
  text[i] = "{" /\ \A j \in 1..(i - 1) : text[j] \notin others

IsPayload(body) == \E i \in DOMAIN body : body[i] \in Brackets
PayloadCalls(body) == IF \E i \in DOMAIN body : ObjectAt(body, i, Brackets) THEN 1 ELSE 0
CallsOf(kind, body) == CASE kind = "function_calls" -> HowMany(body, "call")
                         [] kind = "tool_code" -> PayloadCalls(body)
                         [] OTHER -> 0

\* What a round of SplitStreamText makes of the text up to the end of the
\* first block: what of it is shown, how many calls it holds, and the text
\* behind it, with which the next round goes on.
FirstBlock(text) ==
  LET m == FirstOf(Starts(text))
      block == CloseOf(text, m)
      plain == m.kind = "tool_code" /\ ~IsPayload(block.body)
  IN  [visible |-> SubSeq(text, 1, (IF plain THEN block.after ELSE m.start) - 1),
       calls   |-> CallsOf(m.kind, block.body),
       behind  |-> From(text, block.after)]

HasClosedBlock(text) ==
  Starts(text) # {} /\ CloseOf(text, FirstOf(Starts(text))).closed

\* What the rounds so far and those that follow come to.
Joined(sofar, following) ==
  [visible |-> sofar.visible \o following.visible, rest |-> following.rest,
   calls |-> sofar.calls + following.calls]

\* All rounds that find a closed block; rest is what they leave.
ClosedBlocks[text \in Text] ==
  IF HasClosedBlock(text)
  THEN LET block == FirstBlock(text)
       IN  Joined(block, ClosedBlocks[block.behind])
  ELSE [visible |-> <<>>, rest |-> text, calls |-> 0]

\* The last round: there is no block in the text, or one without an end.
Unfinished(text, final) ==
  LET starts == Starts(text)
      partial == IF final THEN 0 ELSE FindPartialMarker(text)
      m == FirstOf(starts)
      before == SubSeq(text, 1, m.start - 1)
      calls == CallsOf(m.kind, CloseOf(text, m).body)
  IN  CASE starts = {} /\ partial = 0 ->
             [visible |-> text, rest |-> <<>>, calls |-> 0]
        [] starts = {} /\ partial # 0 ->
             [visible |-> SubSeq(text, 1, partial - 1),
              rest |-> From(text, partial), calls |-> 0]
        [] starts # {} /\ final /\ calls > 0 ->
             [visible |-> before, rest |-> <<>>, calls |-> calls]
        [] starts # {} /\ final /\ calls = 0 /\ m.kind # "tool_result" ->
             [visible |-> text, rest |-> <<>>, calls |-> 0]
        [] OTHER ->
             [visible |-> before, rest |-> From(text, m.start), calls |-> 0]

SplitStreamText(text, final) ==
  LET closed == ClosedBlocks[text]
  IN  Joined(closed, Unfinished(closed.rest, final))

\* ExtractFirstJSONObject wants a balanced object, and repairs nothing: it finds
\* the tool_calls object, unless the arguments of an item come before it.
Balanced(text, i) == text[i] = "{" /\ \E k \in (i + 1)..Len(text) : text[k] = "}"
PayloadFirst(text) ==
  \E i \in DOMAIN text : ObjectAt(text, i, {"{", "call"}) /\ Balanced(text, i)

\* SalvageIncompleteBlock: what Flush still finds in an unclosed tool_result
\* block, the only remainder a final split leaves.
SalvageIncompleteBlock(rest) ==
  LET begins == {i \in DOMAIN rest : Stands(FunctionCallsMarker, rest, i)}
      items == IF begins = {} THEN 0
               ELSE HowMany(FindFunctionCallsEnd(rest, Min(begins)).body, "call")
  IN  CASE items > 0 -> items
        [] items = 0 /\ PayloadFirst(rest) -> 1
        [] OTHER -> 0

\* Not code: what the properties take for a block, without any parsing.
\* text[i] lies behind a [function_calls] that no [/function_calls] has closed.
InFunctionCalls(text, i) ==
  \E j \in 1..i :
    /\ Stands(FunctionCallsMarker, text, j)
    /\ \A k \in j..i : ~Stands(FunctionCallsEndMarker, text, k)

-----------------------------------------------------------------------------
(***************************************************************************)
(* ParseToolCallsFromText: how many calls a complete text holds.  It looks *)
(* for each kind of block in the whole text, and only where no block holds *)
(* a call for one that was cut off, and then for an object without a block.*)
(***************************************************************************)
\* ExtractFencedBlocks: the items of all [function_calls] blocks ...
ItemCalls(text) ==
  Cardinality({i \in DOMAIN text : text[i] = "call" /\ InFunctionCalls(text, i)})

\* ... and the payloads of all tool_code blocks.
CodeCalls[text \in Text] ==
  LET starts == {m \in Starts(text) : m.kind = "tool_code"}
      block == FindFenceClose(text, FirstOf(starts).end + 1)
  IN  IF starts = {} \/ ~block.closed THEN 0
      ELSE PayloadCalls(block.body) + CodeCalls[From(text, block.after)]

\* SalvageIncompleteFencedBlocks: the tool_code block that the text breaks off
\* behind its object.  One that breaks off inside it is not repaired here.
CutOffCalls(text) ==
  LET cut == {m \in Starts(text) : /\ m.kind = "tool_code"
                                   /\ ~FindFenceClose(text, m.end + 1).closed}
  IN  IF \E m \in cut : PayloadFirst(From(text, m.end + 1)) THEN 1 ELSE 0

\* ExtractBareJSONBlocks: balanced objects that begin outside every fenced
\* block, whatever its word.
BareCalls[text \in Text] ==
  LET spans == {f \in (DOMAIN text) \X (DOMAIN text) :
                  /\ text[f[1]] = Fence /\ text[f[2]] = Fence
                  /\ \E n \in f[1]..f[2] : text[n] = "nl"}
      span == CHOOSE f \in spans : \A g \in spans :
                f[1] < g[1] \/ (f[1] = g[1] /\ f[2] <= g[2])
      outside == IF spans = {} THEN DOMAIN text ELSE 1..(span[1] - 1)
  IN  Cardinality({i \in outside : Balanced(text, i)})
        + (IF spans = {} THEN 0 ELSE BareCalls[From(text, span[2] + 1)])

ParseToolCallsFromText(text) ==
  LET fenced == ItemCalls(text) + CodeCalls[text]
  IN  CASE fenced > 0 -> fenced
        [] fenced = 0 /\ CutOffCalls(text) > 0 -> CutOffCalls(text)
        [] OTHER -> BareCalls[text]

-----------------------------------------------------------------------------
(***************************************************************************)
(* StreamingToolParser.                                                    *)
(***************************************************************************)
ParserInit == /\ PendingText = <<>>
              /\ ToolCalls = 0
              /\ toolCallCompleted = FALSE

ConsumeTextAlone(chunk) ==              \* mutant: the pending text is forgotten
  LET split == SplitStreamText(chunk, FALSE)
  IN  IF chunk = <<>> \/ toolCallCompleted THEN UNCHANGED parserVars
      ELSE /\ PendingText' = split.rest
           /\ ToolCalls' = ToolCalls + split.calls
           /\ toolCallCompleted' = (split.calls > 0)

ConsumeTextUnmarked(chunk) ==           \* mutant: completion is not remembered
  LET split == SplitStreamText(PendingText \o chunk, FALSE)
  IN  IF chunk = <<>> \/ toolCallCompleted THEN UNCHANGED parserVars
      ELSE /\ PendingText' = split.rest
           /\ ToolCalls' = ToolCalls + split.calls
           /\ UNCHANGED toolCallCompleted

\* What Consume(chunk) returns, and what it does.
Visible(chunk) == IF chunk = <<>> \/ toolCallCompleted THEN <<>>
                  ELSE SplitStreamText(PendingText \o chunk, FALSE).visible

ConsumeText(chunk) ==
  LET split == SplitStreamText(PendingText \o chunk, FALSE)
  IN  IF chunk = <<>> \/ toolCallCompleted THEN UNCHANGED parserVars
      ELSE /\ PendingText' = split.rest
           /\ ToolCalls' = ToolCalls + split.calls
           /\ toolCallCompleted' = (split.calls > 0)

\* Flush drops the visible text of its last split.
FlushText ==
  LET split == SplitStreamText(PendingText, TRUE)
      found == IF split.calls > 0 THEN split.calls
               ELSE SalvageIncompleteBlock(split.rest)
  IN  IF toolCallCompleted THEN UNCHANGED parserVars
      ELSE /\ ToolCalls' = ToolCalls + found
           /\ toolCallCompleted' = (found > 0)
           /\ PendingText' = <<>>
=============================================================================
