------------------------------ MODULE MCMemorizers ------------------------------
(* Instances of Memtwo and of TextFiles.  A behavior is one of the program     *)
(* named by `using', while the variables of the other stay as they are.        *)
EXTENDS Memtwo, MCFiles, TLC

CONSTANTS t1, t2, t3, t4, w1, w2, w3, other, Unset

VARIABLES
  using,
  file, term_count, max_size, sizes, kana_only, text, term_order, i, loop    \* TextFiles

textPart == <<file, term_count, max_size, sizes, kana_only, text, term_order, i, loop>>

\* Two terms are written alike; an answer may also be no term's writing.
const_Term == {t1, t2, t3, t4}
const_Word == {w1, w2, w3, other}
const_Writing == t1 :> w1 @@ t2 :> w2 @@ t3 :> w3 @@ t4 :> w3

T == INSTANCE TextFiles WITH
       phase <- loop, File <- const_TextFile, Typed <- const_Typed, BUFF_SIZE <- 2

AllInit ==
  /\ using \in {"memtwo", "text"}
  /\ Init
  /\ T!Init /\ (using # "text" => file = <<>>)

AllNext ==
  /\ UNCHANGED using
  /\ \/ using = "memtwo" /\ Next /\ UNCHANGED textPart
     \/ using = "text" /\ T!Next /\ UNCHANGED vars

AllSpec == AllInit /\ [][AllNext]_<<using, vars, textPart>>

\* The passes of memorizer.c agree with each other and with the file's format.
LinesAreTerms == T!LinesAreTerms

\* memtwo.c reads the terms that the lines describe, and memorizer.c the same.
ReadersAgree == T!ReadersAgree

\* verticalizer.c prints every character of the text once and in its place.
PagesHoldText == T!PagesHoldText

\* A term leaves memorizer.c's queue only when its writing was typed.
AsksUntilRight == T!AsksUntilRight
================================================================================
