------------------------------ MODULE MCPrintf ------------------------------
(* Every format of up to three pieces, with strings and numbers of several  *)
(* lengths.                                                                *)
EXTENDS Printf

Str(x) == [kind |-> "string", value |-> x]
Wide(n) == [kind |-> "wide", value |-> n]
Narrow(n) == [kind |-> "narrow", value |-> n]

Plain == {[fmt |-> f, args |-> <<>>] : f \in {<<"a">>, <<"%", "%">>, <<"%", "x">>, <<"%">>}}
Strings == {[fmt |-> <<"%", "s">>, args |-> <<Str(x)>>] : x \in {<<>>, <<"u", "v">>, <<"%", "d">>}}
Numbers ==
  {[fmt |-> <<"%", "d">>, args |-> <<Wide(n)>>] : n \in {0, 7, 10, 255}}
    \cup {[fmt |-> <<"%", "p">>, args |-> <<Wide(n)>>] : n \in {0, 10, 171}}
    \cup {[fmt |-> <<"%", "d">>, args |-> <<Narrow(n)>>] : n \in {0, 9}}
Pieces == {[fmt |-> <<>>, args |-> <<>>]} \cup Plain \cup Strings \cup Numbers

MCCalls ==
  {c \in {[fmt |-> x.fmt \o y.fmt \o z.fmt, args |-> x.args \o y.args \o z.args] :
            x \in Pieces, y \in Pieces, z \in Pieces} : WellFormedCall(c)}
=============================================================================
