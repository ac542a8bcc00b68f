---------------------------- MODULE MCToolParser ----------------------------
EXTENDS ToolParserStream

\* Every token on its own, and the pieces in which markers are usually sent.
MCChunks ==
  { <<t>> : t \in {"w", "[f", "f]", "/f]", "fence", "tool_code", "sp", "nl", "call", "{", "}"} }
  \cup
  { <<"w", "[/f">>, <<"call">> \o FunctionCallsEndMarker, <<"fence", "tool_code", "nl">>,
    <<"fence", "tool_result", "nl">> }

\* translator.go:1293-1296: Finalize flushes the parser, which returns "the
\* remaining text and the tool calls", and "outputs the final text"
\* (parser.go:649: "all text that remains").  So of a text without a block the
\* client has seen everything once the parser is flushed.
RemainingTextShown == flushed /\ Starts(fed) = {} => shown = fed
=============================================================================
