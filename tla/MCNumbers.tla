------------------------------ MODULE MCNumbers -----------------------------
(***************************************************************************)
(* Numbers with an int of 4 and a long of 8 bits, the numbers at the ends  *)
(* of both ranges, signed and unsigned, every literal of up to three of the*)
(* characters that matter to the reading functions and a few longer ones,  *)
(* and formats that cover each case of vsprintf's switch, complete, unknown*)
(* and cut short.                                                          *)
(***************************************************************************)
EXTENDS Numbers

MCValues == {-128, -9, -8, -1, 0, 1, 7, 8, 15, 127, 128, 255}
MCBases == {0, 1, 2, 8, 10, 16, 36, 37}
MCLiterals ==
  UNION {[1 .. n -> {" ", "-", "0", "1", "8", "x"}] : n \in 0 .. 3}
    \cup {<<"-", "0", "X", "f">>, <<" ", "+", "1", "0">>, <<"\t", "-", "1", "2", "8">>,
          <<"0", "x", "Z">>, <<"z", "Z", "!">>, <<"2", "5", "6", " ", "7">>}
MCFormats ==
  {<<"%", c>> : c \in {"d", "u", "x", "p", "c", "s", "%", "q", "l", "L"}}
    \cup {<<"%", l, c>> : l \in {"l", "L"}, c \in {"d", "u", "x", "q"}}
    \cup {<<"%">>, << >>, <<"a", "%">>, <<"%", "d", " ", "%", "l", "d">>,
          <<"%", "s", "%", "d">>, <<" ", "%", "l", "x", " ", "%", "L", "u">>, <<"%", "u", "%", "%">>}

\* These formats meet the condition under which what they print is proved to
\* be read back.
ASSUME FormatsMeetCondition == Formats = MCFormats => FormatsApart
=============================================================================
