------------------------------- MODULE MCPrintf -------------------------------
(* Model values for Printf.  The types keep their proportions to the buffer of *)
(* numbers, 32 characters for 64 bits, at an eighth of their size.             *)
EXTENDS Printf

Dir(spec, length, flags, width, prec, arg) ==
  [spec |-> spec, length |-> length, flags |-> flags, width |-> width, prec |-> prec, arg |-> arg]

Plain(c) == Dir("plain", "", {}, 0, <<>>, c)

\* Every integer directive, one at a time.
MCNumbers ==
  {<<Dir(s, l, f, w, p, a)>> :
     s \in {"d", "u", "x", "o", "b"}, l \in {"hh", "h", "", "l"},
     f \in SUBSET {"ZEROPAD", "LEFT", "PLUS", "SPACE", "HASH"},
     w \in {-3, 0, 2, 3, 4, 6}, p \in {<<>>, <<-1>>, <<0>>, <<3>>},
     a \in {-8, -3, 0, 1, 5, 12}}

\* Short formats of all kinds of directive.
MCItems ==
  {Plain("h"), Dir("d", "", {}, 3, <<>>, -5), Dir("c", "", {"LEFT"}, 2, <<>>, "y"),
   Dir("s", "", {}, 0, <<>>, <<"o", "k">>), Dir("s", "", {}, 3, <<1>>, <<"o", "k">>),
   Dir("s", "", {"LEFT"}, 3, <<0>>, <<"o", "k">>), Dir("p", "", {}, 0, <<>>, 171)}

MCFormats == UNION {[1 .. n -> MCItems] : n \in 0 .. 3}

\* The numbers go nowhere, the short formats to every output.
MCCalls ==
  [format : MCNumbers, out : {"null"}, count : {0}]
    \cup [format : MCFormats, out : {"buffer", "function"}, count : {0, 1, 2, 4, 7}]
===============================================================================
