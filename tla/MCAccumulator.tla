--------------------------- MODULE MCAccumulator ---------------------------
EXTENDS ImageAnswer

Piece(t)  == [type |-> "text",       text |-> t]
Think(t) == [type |-> "think",      text |-> t]
Code(t)  == [type |-> "code",       text |-> t]
Output(t) == [type |-> "execution_output", text |-> t]
Image(t) == [type |-> "image",      text |-> t]
Call(t)  == [type |-> "tool_calls", text |-> t]

\* Reasoning before text in one part, a second part beside it; a call in the
\* text cut in the middle of its markers; code; a call that was only thought;
\* calls GLM made itself, one of them twice, one without an id; images; text and
\* reasoning that go on after an item of another type; calls in all three forms.
MCAnswers ==
  { << <<Think(<<"r", "nl">>), Think(<<"s">>), Piece(<<"a">>)>>,
       <<Piece(<<"b", "nl">>), Piece(<<"nl", "c">>)>>,
       <<Piece(<<"d">>)>> >>,
    << <<Piece(<<"a", "[f">>), Piece(<<"f]", "nl", "call">>), Piece(<<"[/f", "/f]", "b">>)>>,
       <<Think(<<"r">>)>>,
       <<Piece(<<"c">>), Think(<<"s">>)>> >>,
    << <<Piece(<<"a">>), Code(<<"x">>)>>,
       <<Piece(<<"b", "[f">>), Piece(<<"g">>)>>,
       <<Piece(<<"nl">>), Piece(<<"c">>)>> >>,
    << <<Think(<<"[f", "f]">>), Think(<<"call", "[/f", "/f]">>)>>,
       <<Piece(<<"a">>)>>,
       <<Call(<<"finish">>)>> >>,
    << <<Think(<<"r", "{">>), Think(<<"}">>)>>, <<Piece(<<"a">>)>>, <<>> >>,
    << <<Piece(<<"a">>), Call(<<"1">>), Call(<<"2">>)>>,
       <<Call(<<"1">>), Think(<<"r">>)>>,
       <<Think(<<"[f", "f]", "call">>), Call(<<>>), Piece(<<"b">>)>> >>,
    << <<Piece(<<"a">>), Image(<<"u1", NoURL, "u2">>)>>,
       <<Image(<<"u3">>), Image(<<"u4">>)>>,
       <<Output(<<"x">>)>> >>,
    << <<Piece(<<"a">>), Code(<<"x">>), Piece(<<"b">>)>>,
       <<Think(<<"r">>), Piece(<<"c">>), Think(<<"s">>)>>,
       <<>> >>,
    << <<Piece(<<"[f", "f]", "call">>), Piece(<<"call", "[/f", "/f]">>), Call(<<"1">>)>>,
       <<Call(<<"2">>), Piece(<<"[f", "f]", "call">>)>>,
       <<Think(<<"[f", "f]", "call", "call">>)>> >> }
=============================================================================
