--------------------------------- MODULE TermFile ---------------------------------
(***************************************************************************)
(* How Memorizer/memtwo.c reads its file of terms, character by character  *)
(* into three growing buffers, and how it reads what is typed.             *)
(***************************************************************************)
EXTENDS Integers, Sequences, SequencesExt

CONSTANT BUFF_SIZE   \* the initial size of a buffer (4 in the code)

Comma == {",", "U+3001"}
WEOF == "WEOF"
Larger(a, b) == IF a < b THEN b ELSE a

\* The reader before the first character.  Its text is what it has of the
\* current field: pos is the length.
Opened ==
  [state |-> "meaning", text |-> <<>>,
   meaning |-> <<>>, reading |-> <<>>,
   size |-> [f \in {"meaning", "reading", "writing"} |-> BUFF_SIZE],
   overrun |-> FALSE, terms |-> <<>>, outcome |-> "reading"]

\* Mutant of Roomy: the buffer grows one character later.
RoomyLate(r) ==
  IF Len(r.text) >= r.size[r.state] + 1 THEN [r EXCEPT !.size[r.state] = 2 * @] ELSE r

\* The buffer of the current field doubles when only its last cell is left.
Roomy(r) == IF Len(r.text) >= r.size[r.state] - 1 THEN [r EXCEPT !.size[r.state] = 2 * @] ELSE r

\* A store to cell pos.
Storing(r) == [r EXCEPT !.overrun = @ \/ Len(r.text) >= r.size[r.state]]

\* test_rand_insert of the term, whose writing is the reading if it has none.
Inserted(r) ==
  [r EXCEPT !.terms = Append(@, IF r.state = "reading" THEN <<r.meaning, r.text, r.text>>
                                ELSE <<r.meaning, r.reading, r.text>>),
            !.state = "meaning", !.text = <<>>]

\* Character c behind the text: it ends the field, the line, the file, or is text.
Field(r, c) ==
  IF r.state = "meaning" /\ c \in Comma
    THEN [r EXCEPT !.meaning = r.text, !.state = "reading", !.text = <<>>]
  ELSE IF r.state = "meaning" /\ c \in {WEOF, "\n"} THEN [r EXCEPT !.outcome = "rejected"]
  ELSE IF r.state = "reading" /\ c \in Comma
    THEN [r EXCEPT !.reading = r.text, !.state = "writing", !.text = <<>>]
  ELSE IF c = WEOF THEN [Inserted(r) EXCEPT !.outcome = "read"]
  ELSE IF c = "\n" THEN Inserted(r)
  ELSE [r EXCEPT !.text = Append(@, c)]

\* One iteration of the loop; spaces and newlines before a meaning are skipped.
ReadChar(r, c) ==
  LET first == r.state = "meaning" /\ r.text = <<>> IN
  IF r.outcome # "reading" \/ (first /\ c \in {"\n", " "}) THEN r
  ELSE IF first /\ c = WEOF THEN [r EXCEPT !.outcome = "read"]
  ELSE Field(Storing(Roomy(r)), c)

ReadFile(file) == FoldLeft(ReadChar, Opened, Append(file, WEOF))

-----------------------------------------------------------------------------

InputSize(r) == Larger(Larger(r.size["meaning"], r.size["reading"]), r.size["writing"])

\* What a typed line becomes: answers of at most size - 1 characters.  The
\* character that finds the buffer full is lost, the rest is the next answer.
Answers(line, size) ==
  LET from[k \in 1 .. Len(line) + 1] ==
        IF Len(line) - k + 1 < size THEN <<SubSeq(line, k, Len(line))>>
        ELSE <<SubSeq(line, k, k + size - 2)>> \o from[k + size]
  IN from[1]

-----------------------------------------------------------------------------
(* The same by the description of the lines. *)

Trimmed(l) ==
  LET k == SelectInSeq(l, LAMBDA c : c # " ")
  IN IF k = 0 THEN <<>> ELSE SubSeq(l, k, Len(l))

\* The lines that are not blank, without the spaces in front.
LinesOf(file) ==
  LET Step(s, c) == IF c = "\n" THEN Append(s, <<>>)
                    ELSE [s EXCEPT ![Len(s)] = Append(@, c)]
      all == FoldLeft(Step, <<<<>>>>, file)
  IN SelectSeq([n \in DOMAIN all |-> Trimmed(all[n])], LAMBDA l : l # <<>>)

IsTerm(l) == \E k \in DOMAIN l : l[k] \in Comma

TermOf(l) ==
  LET first == SelectInSeq(l, LAMBDA c : c \in Comma)
      rest == SubSeq(l, first + 1, Len(l))
      second == SelectInSeq(rest, LAMBDA c : c \in Comma)
      reading == IF second = 0 THEN rest ELSE SubSeq(rest, 1, second - 1)
  IN <<SubSeq(l, 1, first - 1), reading,
       IF second = 0 THEN reading ELSE SubSeq(rest, second + 1, Len(rest))>>
================================================================================
