------------------------------ MODULE KanjiConverter ------------------------------
(***************************************************************************)
(* KanjiConverter/convert.c over Datastructs/Trie/kanjitrie.c: lines       *)
(* "word/writing", the most common first, are read character by character  *)
(* into a trie whose nodes hold the writings of a word, and the writings   *)
(* of what the user types are printed.  Reading one line is one step.      *)
(***************************************************************************)
EXTENDS Integers, Sequences, SequencesExt, FiniteSets

CONSTANTS
  Line,         \* lines of the file, without their newlines
  Input,        \* what the user may type on a line
  MaxLines,     \* bound on the lines of the file
  INT_MAX,
  MAX_SIZE,     \* room of word, writing and input (256 in the code)
  MaxWritings   \* writings printed at most (100 in the code)

T == INSTANCE Trie

VARIABLES
  tree, is_word,
  writing_list, \* node -> its writings
  order,        \* node -> commonality_order: the commonality of each writing
  reader,       \* the reader's flip, its word, what it has of the next field, and i
  lines,        \* the lines read so far
  shown,        \* the last answer
  phase         \* "load", "ask", "end" or "crashed"

trie == <<tree, is_word, writing_list, order>>
vars == <<trie, reader, lines, shown, phase>>

\* create_trie does not set is_word of the root.
Init ==
  /\ tree = T!EmptyTree
  /\ is_word \in {<<FALSE>>, <<TRUE>>}
  /\ writing_list = <<<<>>>> /\ order = <<<<>>>>
  /\ reader = [flip |-> FALSE, word |-> <<>>, field |-> <<>>, i |-> 0]
  /\ lines = <<>>
  /\ shown = [input |-> <<>>, writings |-> <<>>]
  /\ phase = "load"

\* The root is taken for a word although it has none: its pointers are wild.
WildRoot == is_word[T!Root] /\ writing_list[T!Root] = <<>>

-----------------------------------------------------------------------------

\* What fits into a buffer, its terminator included.
Cut(s) == IF Len(s) < MAX_SIZE THEN s ELSE SubSeq(s, 1, MAX_SIZE - 1)

\* Mutant of ReadChar: j is not reset, the writing goes on behind the word.
ReadCharKeepingJ(r, c) ==
  IF ~ r.flip /\ c = "/" THEN [r EXCEPT !.flip = TRUE, !.word = r.field]
  ELSE [r EXCEPT !.field = Cut(Append(@, c))]

\* One character of a line.  The field goes on behind a line without '/'.
ReadChar(r, c) ==
  IF ~ r.flip /\ c = "/" THEN [r EXCEPT !.flip = TRUE, !.word = r.field, !.field = <<>>]
  ELSE [r EXCEPT !.field = Cut(Append(@, c))]

\* The place of a writing behind those at least as common.
Place(n, commonality) ==
  LET k == SelectInSeq(order[n], LAMBDA c : c < commonality)
  IN IF k = 0 THEN Len(order[n]) + 1 ELSE k

\* add_word.  At a wild root, realloc is called with pointers that were never set.
AddWord(w, writing, commonality) ==
  LET g == T!Grown(tree, w)
      Extended(f, x) == [n \in DOMAIN g.tree |-> IF n \in DOMAIN tree THEN f[n] ELSE x]
      place == IF g.at \in DOMAIN tree THEN Place(g.at, commonality) ELSE 1
  IN
  /\ tree' = g.tree
  /\ is_word' = [Extended(is_word, FALSE) EXCEPT ![g.at] = TRUE]
  /\ writing_list' = [Extended(writing_list, <<>>) EXCEPT ![g.at] = InsertAt(@, place, writing)]
  /\ order' = [Extended(order, <<>>) EXCEPT ![g.at] = InsertAt(@, place, commonality)]
  /\ \/ UNCHANGED phase
     \/ g.at = T!Root /\ WildRoot /\ phase' = "crashed"

\* The characters of line l and its newline: a word is added if a '/' was read.
ReadLine(l) ==
  LET r == FoldLeft(ReadChar, reader, l) IN
  /\ phase = "load"
  /\ Len(lines) < MaxLines
  /\ lines' = Append(lines, l)
  /\ \/ /\ r.flip
        /\ AddWord(r.word, r.field, INT_MAX - r.i)
        /\ reader' = [r EXCEPT !.flip = FALSE, !.field = <<>>, !.i = @ + 1]
     \/ /\ ~ r.flip
        /\ reader' = ReadChar(r, "\n")
        /\ UNCHANGED <<trie, phase>>
  /\ UNCHANGED shown

Close ==
  /\ phase = "load"
  /\ phase' = "ask"
  /\ UNCHANGED <<trie, reader, lines, shown>>

\* get_writings.
Writings(w) ==
  LET n == T!Located(tree, w) IN
  IF n = T!NULL \/ ~ is_word[n] THEN <<>>
  ELSE SubSeq(writing_list[n], 1,
              IF Len(writing_list[n]) < MaxWritings THEN Len(writing_list[n]) ELSE MaxWritings)

Ask(w) ==
  /\ phase = "ask"
  /\ w # <<>>
  /\ shown' = [input |-> w, writings |-> Writings(Cut(w))]
  /\ UNCHANGED <<trie, reader, lines, phase>>

\* Nothing is typed: _destroy frees what a word holds, at a wild root too.
Stop ==
  /\ phase = "ask"
  /\ \/ phase' = "end"
     \/ WildRoot /\ phase' = "crashed"
  /\ UNCHANGED <<trie, reader, lines, shown>>

Next ==
  \/ \E l \in Line : ReadLine(l)
  \/ \E w \in Input : Ask(w)
  \/ Close
  \/ Stop

Spec == Init /\ [][Next]_vars

-----------------------------------------------------------------------------
(* The words of a file, by the description of its lines. *)

Slash(l) == SelectInSeq(l, LAMBDA c : c = "/")
WordOf(l) == Cut(SubSeq(l, 1, Slash(l) - 1))
WritingOf(l) == Cut(SubSeq(l, Slash(l) + 1, Len(l)))

WritingsInFile(w) ==
  LET OfWord == SelectSeq(lines, LAMBDA l : Slash(l) # 0 /\ WordOf(l) = Cut(w))
  IN [k \in DOMAIN OfWord |-> WritingOf(OfWord[k])]

\* README.md:30: the writings of a word are printed from the most to the least
\* common, that is in the order of the file, the first MaxWritings of them, for
\* every file in which each line has a '/', however long the fields are and
\* wherever the lines of a word stand (convert.c:41-67, kanjitrie.c:94-127).
\* The nodes of the trie are one tree.
WritingsInFileOrder ==
  (\A k \in DOMAIN lines : Slash(lines[k]) # 0) =>
    /\ T!IsTreeOf(tree, {WordOf(lines[k]) : k \in DOMAIN lines})
    /\ shown.input # <<>> =>
         LET all == WritingsInFile(shown.input)
         IN shown.writings = SubSeq(all, 1, IF Len(all) < MaxWritings THEN Len(all) ELSE MaxWritings)
================================================================================
