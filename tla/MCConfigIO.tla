----------------------------- MODULE MCConfigIO -----------------------------
(* How files may begin, and the symbols that may follow. *)
EXTENDS ConfigIO

MCKeyOf == [x \in {"{n}", "{r}", "{t}"} |->
              IF x = "{n}" THEN <<"n">> ELSE IF x = "{r}" THEN <<"r">> ELSE <<"t">>]

\* "[n]" and a line feed.
Section == <<"[", "n", "]", "LF">>

AllFlags == [default : BOOLEAN, empty : BOOLEAN]

\* parseConfFile: parser_init(&parser, 0, 0).
ClientFlags == {[default |-> FALSE, empty |-> FALSE]}

\* Lines: the symbols the lexer of names tells apart, read from the beginning
\* and in a key.
Names == {"[", "]", "=", "#", "\\", "SP", "LF", "n"}

\* Values: the symbols the lexer of values tells apart.
Text == {"\"", "\\", "#", "SP", "LF", "CR", "n", "t", "0", "x"}

\* References: n = ${r} is there, the value of r is read.
References == Section \o <<"n", "=", "$", "{r}", "LF", "r", "=">>

MCWanted == {<<"n">>, <<"r">>}

MCFiles ==
  {[begin |-> <<>>, rest |-> Names, max |-> 4, flags |-> AllFlags],
   [begin |-> Section \o <<"p", "=">>, rest |-> Text, max |-> 4, flags |-> ClientFlags],
   [begin |-> Section \o <<"p", "=", "p", "LF", "p">>, rest |-> {"=", "\\", "SP", "0", "p", "]", "LF", "CR"},
    max |-> 4, flags |-> ClientFlags],
   [begin |-> References, rest |-> {"$", "{n}", "{r}", "{t}", "n", "=", "LF"},
    max |-> 5, flags |-> ClientFlags]}
=============================================================================
