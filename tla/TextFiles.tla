--------------------------------- MODULE TextFiles ---------------------------------
(***************************************************************************)
(* The programs that read a text: memorizer.c, memtwo.c, which reads files *)
(* of the same format, and verticalizer.c, all given the same file.        *)
(***************************************************************************)
EXTENDS Memorizer

CONSTANT BUFF_SIZE

Memtwo == INSTANCE TermFile
Vertical == INSTANCE Verticalizer

\* The term t of memorizer.c.
TermOfMemorizer(t) == <<text["meaning"][t], text["kana"][t], WritingOf(t)>>

\* The files on which the two programs read one format: memorizer.c takes spaces
\* in front of a line and ideographic commas for text, and needs kanji (see
\* EveryLineIsATerm).
SameFormat == KanjiThroughout /\ ToSet(file) \cap {" ", "U+3001"} = {}

\* memtwo.c:125-241 turns the lines of its file into the terms they describe
\* and rejects the file at the first line without a comma; no store leaves its
\* buffer, however fields alternate in length; and wherever memorizer.c has
\* loaded a file of the common format, both programs ask for the same terms in
\* the same writing.  No writing is so long that typing it would be cut, and no
\* longer line is taken for it (memtwo.c:247-281).
ReadersAgree ==
  LET two == Memtwo!ReadFile(file)
      lines == Memtwo!LinesOf(file)
      bad == SelectInSeq(lines, LAMBDA l : ~ Memtwo!IsTerm(l))
      good == IF bad = 0 THEN lines ELSE SubSeq(lines, 1, bad - 1)
      Answers(w) == Memtwo!Answers(w, Memtwo!InputSize(two))
  IN
  /\ phase = "count" =>
       /\ two.outcome = IF bad = 0 THEN "read" ELSE "rejected"
       /\ two.terms = [n \in DOMAIN good |-> Memtwo!TermOf(good[n])]
       /\ ~ two.overrun
       /\ \A n \in DOMAIN two.terms :
            LET writing == two.terms[n][3] IN
            /\ Answers(writing) = <<writing>>
            /\ \A w \in Typed : Head(Answers(w)) = writing => w = writing
  /\ phase = "shuffle" /\ i = term_count - 1 /\ SameFormat =>
       two.terms = [n \in 1 .. term_count |-> TermOfMemorizer(n - 1)]

\* verticalizer.c:48-94: read column by column from the right, the pages hold
\* the text without its newlines, then blanks.  Every page is needed, but for a
\* blank one where newlines follow a page that is just full.
PagesHoldText ==
  phase = "count" =>
    \A width, height \in 1 .. 2 :
      LET pages == Vertical!Pages(file, width, height)
          chars == SelectSeq(file, LAMBDA c : c # "\n")
          room == width * height
          At(k) == pages[k \div room + 1][(k % height) + 1][width - (k % room) \div height]
          spare == file # <<>> /\ Last(file) = "\n" /\ Len(chars) % room = 0
      IN
      /\ Len(pages) = (Len(chars) + room - 1) \div room + (IF spare THEN 1 ELSE 0)
      /\ \A k \in 0 .. Len(pages) * room - 1 :
           At(k) = IF k < Len(chars) THEN chars[k + 1] ELSE Vertical!BLANK
================================================================================
