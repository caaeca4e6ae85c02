------------------------------- MODULE MCLibc -------------------------------
(* Words of six and five bits, so all of them, with every kind of format.  *)
EXTENDS Libc

MCFlags == {<< >>, <<"0">>, <<"-">>, <<"+">>, <<" ">>, <<"#">>, <<"0", "#">>, <<"-", "+">>}
MCFormats == [flags : MCFlags, width : {-1, 0, 6}, precision : {-1, 3},
              spec : {"d", "u", "o", "X", "p"}]

Num(n) == [i |-> n, s |-> << >>]
Str(s) == [i |-> 0, s |-> s]
MCLogs ==
  {[fmt |-> <<"a", "%", "d", "%", "s">>, args |-> <<Num(-7), Str(<<"x", "NL">>)>>],
   [fmt |-> <<"%", "X", "NL">>, args |-> <<Num(-1)>>],
   [fmt |-> <<"%", "p", "%", "c">>, args |-> <<Num(27), Str(<<"NL">>)>>],
   [fmt |-> <<"%", "%", "d">>, args |-> <<Num(5)>>],
   [fmt |-> <<"%", "q", "%", "d">>, args |-> <<Num(9)>>],
   [fmt |-> <<"o", "%">>, args |-> << >>]}

MCTexts == UNION {[1 .. n -> {65, 97, 98}] : n \in 0 .. 3}
MCDelims == {{65}, {65, 98}, {}}
=============================================================================
