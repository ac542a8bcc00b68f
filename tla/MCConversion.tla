---------------------------- MODULE MCConversion ----------------------------
(***************************************************************************)
(* Histories of up to MaxMessages messages, with up to two calls in one.   *)
(***************************************************************************)
EXTENDS Conversion

CONSTANTS a, b, f, g

RealPair == {a, b}
Tools == {f, g}
OnlyF == {f}

Call(id, name, args) == [id |-> id, name |-> name, args |-> args]
Turn(text, calls) == [role |-> "assistant", text |-> text, calls |-> calls]
Result(id, name) == [role |-> "tool", id |-> id, name |-> name]

MCMessages ==
    {[role |-> "user", text |-> TRUE]}
      \union {Turn(FALSE, calls) : calls \in
                {<<>>,
                 <<Call(a, f, "clean")>>, <<Call(a, g, "clean")>>, <<Call(a, f, "mended")>>,
                 <<Call(b, f, "clean")>>, <<Call(b, f, "unusable")>>,
                 <<Call(NoID, f, "mended")>>,
                 <<Call(a, f, "clean"), Call(b, g, "clean")>>,
                 <<Call(a, f, "clean"), Call(b, f, "mended")>>,
                 <<Call(NoID, NoName, "clean"), Call(NoID, f, "clean")>>}}
      \union {Turn(TRUE, calls) : calls \in {<<>>, <<Call(b, f, "mended")>>}}
      \union {Result(id, NoName) : id \in {a, b, NoID, CallRepaired(0)}}
      \union {Result(a, f), Result(CallRepaired(1), f)}
=============================================================================
