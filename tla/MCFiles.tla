-------------------------------- MODULE MCFiles --------------------------------
(* The files that memorizer.c, memtwo.c and verticalizer.c are given, and what *)
(* is typed, in the instances for TLC.                                         *)
EXTENDS Integers, Sequences

TextOf(n) == UNION {[1 .. k -> {",", "x"}] : k \in 0 .. n}
LinesOf(n) == {Append(s, "\n") : s \in TextOf(n)}

\* Every file of one or two lines of up to four characters and of three lines
\* of up to three, well-formed or not, and some that do not end with a line.
const_File ==
  LinesOf(4) \cup {a \o b : a, b \in LinesOf(4)} \cup {a \o b \o c : a, b, c \in LinesOf(3)}
    \cup {<<>>, <<"x">>, <<",", ",", "\n", ",">>}

\* Others with spaces, ideographic commas and unterminated lines, which
\* memtwo.c reads differently.
const_TextFile ==
  const_File \cup UNION {[1 .. k -> {",", "U+3001", " ", "\n", "x"}] : k \in 0 .. 4}

\* Answers shorter and longer than any buffer.
const_Typed == UNION {[1 .. k -> {"x"}] : k \in 0 .. 4} \cup {<<",">>}
================================================================================
