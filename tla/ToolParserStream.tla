-------------------------- MODULE ToolParserStream --------------------------
(***************************************************************************)
(* The parser as the accumulator drives it: Consume for every piece of     *)
(* text (translator.go:1262), Flush once at the end (translator.go:1304).  *)
(* fed, shown, cutInBlanks and flushed are history.                        *)
(***************************************************************************)
EXTENDS ToolParser

CONSTANTS Chunks,       \* the pieces of text that may arrive
          MaxChunks     \* bound: how many of them arrive

ASSUME ChunkAssumption == /\ Chunks \subseteq Text
                          /\ MaxChunks \in Nat

VARIABLES fed,          \* the pieces that arrived, joined
          arrived,      \* how many they were
          shown,        \* the text Consume has returned
          cutInBlanks,  \* some piece ended in the blanks of a start marker
          flushed       \* Flush has run

vars == <<parserVars, fed, arrived, shown, cutInBlanks, flushed>>

\* The text ends between the word after a fence and its line break: the blanks
\* belong to ToolCodeStartPattern, but to no marker FindPartialMarker knows.
EndsInBlanks(text) ==
  \E i \in DOMAIN text :
    /\ i + 2 <= Len(text)
    /\ text[i] = Fence /\ text[i + 1] \in {"tool_code", "tool_result"}
    /\ \A k \in (i + 2)..Len(text) : text[k] = "sp"

Init == /\ ParserInit
        /\ fed = <<>> /\ arrived = 0 /\ shown = <<>>
        /\ cutInBlanks = FALSE /\ flushed = FALSE

\* A model writes at most one tool_calls object.
Consume(chunk) ==
  /\ ~flushed /\ arrived < MaxChunks
  /\ HowMany(fed \o chunk, "{") <= 1
  /\ shown' = shown \o Visible(chunk)
  /\ ConsumeText(chunk)
  /\ fed' = fed \o chunk
  /\ cutInBlanks' = (cutInBlanks \/ EndsInBlanks(fed \o chunk))
  /\ arrived' = arrived + 1
  /\ UNCHANGED flushed

Flush ==
  /\ ~flushed
  /\ FlushText
  /\ flushed' = TRUE
  /\ UNCHANGED <<fed, arrived, shown, cutInBlanks>>

Next == (\E chunk \in Chunks : Consume(chunk)) \/ Flush

Spec == Init /\ [][Next]_vars

-----------------------------------------------------------------------------
TypeOK ==
  /\ {PendingText, fed, shown} \subseteq Text
  /\ ToolCalls \in 0..Len(fed)
  /\ toolCallCompleted = (ToolCalls > 0)
  /\ arrived \in 0..MaxChunks
  /\ {cutInBlanks, flushed} \subseteq BOOLEAN

\* Where the text was cut makes no difference to what is shown, held back and
\* recognised, as long as no call has been found (parser.go:639-645): it is
\* what one split of the whole text gives.  A call is found in the pieces when
\* the whole text has one, and nothing is shown that the whole would not show.
\* The one place where a cut is seen lies in the blanks of a start marker.
ChunkingInvisible ==
  LET whole == SplitStreamText(fed, FALSE)
  IN  ~flushed /\ ~cutInBlanks =>
        /\ toolCallCompleted <=> whole.calls > 0
        /\ ~toolCallCompleted => shown = whole.visible /\ PendingText = whole.rest
        /\ toolCallCompleted => IsPrefix(shown, whole.visible)

\* The parser holds text back only for a reason: it waits for the rest of a
\* marker, or for the end of a block that has begun (parser.go:716-720, 750, 783).
\* Until the answer ends nothing of a text without a block is lost: what is not
\* shown yet is what is held back.  What Flush then makes of it is another
\* matter (RemainingTextShown, MCToolParser).
OnlyMarkersWithheld ==
  /\ \/ PendingText = <<>> \/ toolCallCompleted
     \/ PendingText \in PartialMarkers
     \/ \E m \in Starts(PendingText) : m.start = 1 /\ ~CloseOf(PendingText, m).closed
  /\ ~flushed /\ Starts(fed) = {} => fed = shown \o PendingText

\* No block begins inside another one or with the fence that ends it.
BlocksApart(text) ==
  \A m \in Starts(text), n \in Starts(text) :
    m.start < n.start => LET block == CloseOf(text, m)
                         IN  block.closed /\ block.after <= n.start

\* The text breaks off inside the object of a tool_code block.
BreaksOffInObject(text) ==
  \E m \in Starts(text) :
    /\ m.kind = "tool_code" /\ ~CloseOf(text, m).closed
    /\ LET body == From(text, m.end + 1)
       IN  \E i \in DOMAIN body : ObjectAt(body, i, {"call"}) /\ ~Balanced(body, i)

\* However the text was cut, and whether its last block is closed or breaks
\* off, the stream ends with a tool call when the parser of complete texts
\* finds one in the blocks of a text that uses one of the two forms
\* (parser.go:653-674, 732-802 against 352-440, 501-535); and it makes none up,
\* but for the one it repairs: of a tool_code block that breaks off inside its
\* object the stream takes the call (parser.go:769, 141-150), and the parser of
\* complete texts, which wants a balanced object there (515-518), does not.
\* Of tool_code blocks it holds as long as they stay apart: the salvage of
\* cut-off blocks takes a fence that ends a block for one that begins the next.
CallsFound ==
  flushed =>
    /\ ~Holds(fed, Fence) => (ToolCalls > 0 <=> ItemCalls(fed) > 0)
    /\ {"[f", "[/f", "tool_result"} \cap ToSet(fed) = {} /\ BlocksApart(fed)
         /\ ~cutInBlanks
       => (ToolCalls > 0 <=> \/ CodeCalls[fed] + CutOffCalls(fed) > 0
                             \/ BreaksOffInObject(fed))
=============================================================================
