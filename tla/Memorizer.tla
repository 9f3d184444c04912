------------------------------- MODULE Memorizer -------------------------------
(***************************************************************************)
(* Memorizer/memorizer.c: three passes over a file of terms, a shuffle,    *)
(* and a quiz over an array of indices.  Each pass is one step; within it  *)
(* the file is folded character by character, as the loop of the pass      *)
(* does.  The state of those loops (IN_MEANING, IN_KANA, IN_KANJI) is the  *)
(* field the next character belongs to.                                    *)
(***************************************************************************)
EXTENDS Integers, Sequences, FiniteSets, SequencesExt

CONSTANTS
  File,         \* the files the program may be given, as sequences of characters
  Typed,        \* what the user may type on one line
  Unset         \* a buffer nothing has been written to

VARIABLES
  file,
  term_count, max_size,
  sizes,        \* field -> term -> size of its buffer
  kana_only,    \* term -> whether it has no kanji, and no buffer for one
  text,         \* field -> term -> the string in its buffer
  term_order,
  i,            \* the loop variable of the shuffle and of the quiz
  phase         \* the loop main is in, or "failed", "crashed" or "end"

vars == <<file, term_count, max_size, sizes, kana_only, text, term_order, i, phase>>

Field == {"meaning", "kana", "kanji"}
Terms == 0 .. term_count - 1
Larger(a, b) == IF a < b THEN b ELSE a

\* Character c ends field f; a meaning ends only at a comma, and in a kanji
\* field a comma is text.
Ends(f, c) == (c = "\n" /\ f # "meaning") \/ (c = "," /\ f # "kanji")

After(f, c) == IF c = "\n" THEN "meaning" ELSE IF f = "meaning" THEN "kana" ELSE "kanji"

-----------------------------------------------------------------------------

Init ==
  /\ file \in File
  /\ term_count = 0 /\ max_size = 0
  /\ sizes = <<>> /\ kana_only = <<>> /\ text = <<>> /\ term_order = <<>>
  /\ i = 0
  /\ phase = "count"

\* First pass.  `prev', the last character, is uninitialised for an empty file.
Count ==
  /\ phase = "count"
  /\ \/ /\ file # <<>> => Last(file) = "\n"
        /\ term_count' = Len(SelectSeq(file, LAMBDA c : c = "\n"))
        /\ phase' = "measure"
     \/ /\ file # <<>> => Last(file) # "\n"
        /\ phase' = "failed"
        /\ UNCHANGED term_count
  /\ UNCHANGED <<file, max_size, sizes, kana_only, text, term_order, i>>

\* One iteration of the second pass.  Only the end of a kanji field advances i.
MeasureChar(m, c) ==
  IF m.bad \/ (m.state = "meaning" /\ c = "\n") THEN [m EXCEPT !.bad = TRUE]
  ELSE IF ~ Ends(m.state, c) THEN [m EXCEPT !.sizes[m.state][m.i] = @ + 1]
  ELSE [m EXCEPT !.max_size = Larger(@, m.sizes[m.state][m.i]),
                 !.kana_only[m.i] = @ \/ (m.state = "kana" /\ c = "\n"),
                 !.i = IF m.state = "kanji" THEN @ + 1 ELSE @,
                 !.state = After(m.state, c)]

\* Second pass: the sizes, with the null terminators, and the kana-only terms.
Measure ==
  LET m == FoldLeft(MeasureChar,
                    [state |-> "meaning", i |-> 0, bad |-> FALSE, max_size |-> 0,
                     sizes |-> [f \in Field |-> [t \in Terms |-> 1]],
                     kana_only |-> [t \in Terms |-> FALSE]],
                    file)
  IN
  /\ phase = "measure"
  /\ sizes' = m.sizes
  /\ kana_only' = m.kana_only
  /\ max_size' = m.max_size
  /\ phase' = IF m.bad THEN "failed" ELSE "store"
  /\ UNCHANGED <<file, term_count, text, term_order, i>>

\* The cells of the buffer for field f of term t: kanji[t] is a wild pointer
\* when term t is kana-only.
Room(f, t) == IF f = "kanji" /\ kana_only[t] THEN 0 ELSE sizes[f][t]

\* Mutant of StoreChar: j is not reset between the fields of a line.
StoreCharKeepingJ(s, c) ==
  LET old == s.text[s.state][s.i]
      kept == IF old = Unset THEN <<>> ELSE SubSeq(old, 1, s.j)
      wild == s.wild \/ s.j >= Room(s.state, s.i)
  IN
  IF Ends(s.state, c)
    THEN [s EXCEPT !.text[s.state][s.i] = kept, !.wild = wild,
                   !.j = IF c = "\n" THEN 0 ELSE @,
                   !.i = IF s.state = "kanji" THEN @ + 1 ELSE @,
                   !.state = After(s.state, c)]
    ELSE [s EXCEPT !.text[s.state][s.i] = Append(kept, c), !.wild = wild, !.j = @ + 1]

\* One iteration of the third pass: c, or the terminator, goes to cell j.
StoreChar(s, c) ==
  LET old == s.text[s.state][s.i]
      kept == IF old = Unset THEN <<>> ELSE SubSeq(old, 1, s.j)
      wild == s.wild \/ s.j >= Room(s.state, s.i)
  IN
  IF Ends(s.state, c)
    THEN [s EXCEPT !.text[s.state][s.i] = kept, !.wild = wild, !.j = 0,
                   !.i = IF s.state = "kanji" THEN @ + 1 ELSE @,
                   !.state = After(s.state, c)]
    ELSE [s EXCEPT !.text[s.state][s.i] = Append(kept, c), !.wild = wild, !.j = @ + 1]

Stored ==
  FoldLeft(StoreChar,
           [state |-> "meaning", i |-> 0, j |-> 0, wild |-> FALSE,
            text |-> [f \in Field |-> [t \in Terms |-> Unset]]],
           file)

\* Third pass, and the initial order.  A store outside its buffer may crash
\* the program, or happen to do no harm.
Store ==
  /\ phase = "store"
  /\ text' = Stored.text
  /\ term_order' = [k \in Terms |-> k]
  /\ i' = term_count - 1
  /\ \/ phase' = "shuffle"
     \/ Stored.wild /\ phase' = "crashed"
  /\ UNCHANGED <<file, term_count, max_size, sizes, kana_only>>

\* One iteration of the Fisher-Yates shuffle, rand() % (i+1) being j.
Shuffle(j) ==
  /\ phase = "shuffle"
  /\ i > 0
  /\ term_order' = [term_order EXCEPT ![i] = term_order[j], ![j] = term_order[i]]
  /\ i' = i - 1
  /\ UNCHANGED <<file, term_count, max_size, sizes, kana_only, text, phase>>

Begin ==
  /\ phase = "shuffle"
  /\ i <= 0
  /\ i' = 0
  /\ phase' = "quiz"
  /\ UNCHANGED <<file, term_count, max_size, sizes, kana_only, text, term_order>>

Asked == term_order[i]
WritingOf(t) == IF kana_only[t] THEN text["kana"][t] ELSE text["kanji"][t]

\* Mutant of Read: room is kept for the terminator that answer already has.
ReadShort(w) == SubSeq(w, 1, IF Len(w) < max_size - 1 THEN Len(w) ELSE max_size - 1)

\* read_answer keeps at most max_size characters of what is typed.
Read(w) == SubSeq(w, 1, IF Len(w) < max_size THEN Len(w) ELSE max_size)

\* The term goes to the back, all behind it move up.
Requeued ==
  [k \in Terms |-> IF k < i THEN term_order[k]
                   ELSE IF k = term_count - 1 THEN Asked ELSE term_order[k + 1]]

\* The comparison reads whatever is in a buffer that was never written.
Answer(w) ==
  /\ phase = "quiz"
  /\ i < term_count
  /\ \/ /\ WritingOf(Asked) \in {Read(w), Unset}
        /\ i' = i + 1
        /\ UNCHANGED term_order
     \/ /\ WritingOf(Asked) # Read(w)
        /\ term_order' = Requeued
        /\ UNCHANGED i
  /\ UNCHANGED <<file, term_count, max_size, sizes, kana_only, text, phase>>

Finish ==
  /\ phase = "quiz"
  /\ i = term_count
  /\ phase' = "end"
  /\ UNCHANGED <<file, term_count, max_size, sizes, kana_only, text, term_order, i>>

Next ==
  \/ Count \/ Measure \/ Store
  \/ \E j \in 0 .. i : Shuffle(j)
  \/ Begin
  \/ \E w \in Typed : Answer(w)
  \/ Finish

Spec == Init /\ [][Next]_vars

-----------------------------------------------------------------------------
(* The terms of a file, by the description of its lines. *)

\* Where character c occurs in s for the n-th time.
Nth(s, c, n) ==
  CHOOSE k \in DOMAIN s : s[k] = c /\ Cardinality({m \in 1 .. k : s[m] = c}) = n

Line(n) == SubSeq(file, IF n = 1 THEN 1 ELSE Nth(file, "\n", n - 1) + 1, Nth(file, "\n", n) - 1)

Commas(l) == Cardinality({k \in DOMAIN l : l[k] = ","})
MeaningOf(l) == SubSeq(l, 1, Nth(l, ",", 1) - 1)
KanaOf(l) == SubSeq(l, Nth(l, ",", 1) + 1, IF Commas(l) = 1 THEN Len(l) ELSE Nth(l, ",", 2) - 1)
KanjiOf(l) == SubSeq(l, Nth(l, ",", 2) + 1, Len(l))
IsKanaOnly(l) == Commas(l) = 1

Loaded == phase \in {"shuffle", "quiz", "end"}

\* Line n of the file has become term n - 1.
LineIsTerm(n) ==
  LET l == Line(n)
      t == n - 1
  IN
  /\ kana_only[t] = IsKanaOnly(l)
  /\ text["meaning"][t] = MeaningOf(l)
  /\ text["kana"][t] = KanaOf(l)
  /\ ~ IsKanaOnly(l) => text["kanji"][t] = KanjiOf(l)

\* Every line before the last has a kanji writing.
KanjiThroughout == \A n \in 1 .. term_count - 1 : Commas(Line(n)) >= 2

\* The sizes of the second pass (memorizer.c:105-153) and the stores of the
\* third (174-217) are two parsers of one format: as long as only the last
\* line lacks a kanji writing, no store leaves its buffer, and every line
\* becomes the term it describes.
LinesAreTerms ==
  KanjiThroughout =>
    /\ phase = "store" => ~ Stored.wild
    /\ phase # "crashed"
    /\ Loaded => \A n \in 1 .. term_count : LineIsTerm(n)

\* README.md:10: every line, with or without a kanji writing, is a term.
EveryLineIsATerm == Loaded => \A n \in 1 .. term_count : LineIsTerm(n)

\* The terms still to be answered, in the order they will be asked.
Queue == [k \in 1 .. term_count - i |-> term_order[i + k - 1]]

\* The quiz goes through a queue that starts with every term once.  A term
\* leaves it only when what was typed, which read_answer may have cut off
\* (memorizer.c:320-329), is its writing; otherwise it goes to the back.
AsksUntilRight ==
  [][/\ phase = "shuffle" /\ phase' = "quiz" => IsInjective(Queue') /\ Len(Queue') = term_count
     /\ \A w \in Typed :
          Answer(w) /\ WritingOf(Asked) # Unset =>
            Queue' = IF w = WritingOf(Asked) THEN Tail(Queue) ELSE Append(Tail(Queue), Head(Queue))
    ]_vars
================================================================================
