------------------------------- MODULE Verticalizer -------------------------------
(***************************************************************************)
(* Verticalizer/verticalizer.c: a text is written into pages of width      *)
(* columns of height characters, and each page is printed row by row, the  *)
(* first column on the right.                                              *)
(***************************************************************************)
EXTENDS Integers, Sequences, SequencesExt

BLANK == "U+3000"    \* LOGOGRAPHIC_WHITESPACE

\* The state of the loops: the pages printed, the columns of the page that is
\* being filled, if any, and the place of the next character in it.
Start == [printed |-> <<>>, columns |-> <<>>, i |-> 0, j |-> 0]

BlankPage(width, height) == [i \in 0 .. width - 1 |-> [j \in 0 .. height - 1 |-> BLANK]]

\* The rows of a page as they are printed.
Rows(columns, width, height) ==
  [i \in 1 .. height |-> [k \in 1 .. width |-> columns[width - k][i - 1]]]

Printed(s, width, height) ==
  [s EXCEPT !.printed = Append(@, Rows(s.columns, width, height)), !.columns = <<>>]

\* A full column is left, and with the last one the page.
Turned(s, width, height) ==
  IF s.columns = <<>> \/ s.j < height THEN s
  ELSE IF s.i + 1 < width THEN [s EXCEPT !.i = @ + 1, !.j = 0]
  ELSE Printed(s, width, height)

\* Mutant of Put: a newline goes to the next column.
PutByLine(s, c, width, height) ==
  LET t == Turned(s, width, height)
      u == IF t.columns # <<>> THEN t
           ELSE [t EXCEPT !.columns = BlankPage(width, height), !.i = 0, !.j = 0]
  IN IF c = "\n" THEN [u EXCEPT !.j = height]
     ELSE [u EXCEPT !.columns[u.i][u.j] = c, !.j = @ + 1]

\* One character, on a new page if there is none; a newline only makes the page.
Put(s, c, width, height) ==
  LET t == Turned(s, width, height)
      u == IF t.columns # <<>> THEN t
           ELSE [t EXCEPT !.columns = BlankPage(width, height), !.i = 0, !.j = 0]
  IN IF c = "\n" THEN u
     ELSE [u EXCEPT !.columns[u.i][u.j] = c, !.j = @ + 1]

\* The pages printed for a text.
Pages(text, width, height) ==
  LET s == FoldLeft(LAMBDA t, c : Put(t, c, width, height), Start, text)
  IN IF s.columns = <<>> THEN s.printed ELSE Printed(s, width, height).printed
================================================================================
