------------------------------- MODULE MCSmallPrograms -------------------------------
(* Instances of SmallPrograms and of three more programs that have nothing to  *)
(* do with each other: BST, Autocomplete and KanjiConverter.  A behavior is    *)
(* one of the program named by `using', while the variables of the others stay *)
(* as they are.  Variables that two programs can share are declared once.      *)
EXTENDS SmallPrograms

VARIABLES
  top, bst, inserted, twoChildren,      \* BST
  trie, is_word, lines, phase,          \* Autocomplete and KanjiConverter
  value, said,                          \* Autocomplete
  writing_list, order, reader, shown    \* KanjiConverter

bstPart == <<top, bst, inserted, twoChildren>>
triePart == <<trie, is_word, lines, phase>>
autoPart == <<value, said>>
kanjiPart == <<writing_list, order, reader, shown>>
filePart == <<bstPart, triePart, autoPart, kanjiPart>>

const_Data == {<<1>>, <<1, 4>>, <<1, 3, 5>>, <<2, 2, 5>>}
const_Inputs == {<<1, 2, 3, 4>>, <<3, 1, 2>>, <<2, 1, 2, 3>>, <<1, 1>>, <<4, 2, 1, 5, 3>>}
const_Depths == <<2, 0>>
const_Text == UNION {[1 .. n -> {"a", "b"}] : n \in 0 .. 6}

Typeable == {<<>>, <<"a">>, <<"b">>, <<"a", "a">>, <<"a", "b">>, <<"b", "a">>, <<"a", "b", "a">>}
Entries == {<<>>, <<"a">>, <<"b">>, <<"b", "a">>, <<"b", "a", "a">>}
Written == {<<"x">>, <<"y">>, <<"x", "/", "x">>}
EntryLines == {e \o <<"/">> \o w : e \in Entries, w \in Written} \cup {<<>>, <<"b">>}

S == INSTANCE BST WITH tree <- bst, members <- inserted, Value <- 1 .. 4, MaxNodes <- 4
A == INSTANCE Autocomplete WITH
       tree <- trie, Word <- Typeable, MaxLines <- 3, INT_MAX <- 9, BufferSize <- 4
K == INSTANCE KanjiConverter WITH
       tree <- trie, Line <- EntryLines, Input <- Entries, MaxLines <- 3, INT_MAX <- 9,
       MAX_SIZE <- 3, MaxWritings <- 2

ASSUME BSTAssumption == S!Assumptions

AllInit ==
  /\ Init /\ S!Init /\ A!Init /\ K!Init
  /\ using \notin {"autocomplete", "converter"} => is_word = <<FALSE>>

AllNext ==
  \/ Next /\ UNCHANGED filePart
  \/ /\ UNCHANGED allVars
     /\ \/ using = "bst" /\ S!Next /\ UNCHANGED <<triePart, autoPart, kanjiPart>>
        \/ using = "autocomplete" /\ A!Next /\ UNCHANGED <<bstPart, kanjiPart>>
        \/ using = "converter" /\ K!Next /\ UNCHANGED <<bstPart, autoPart>>

\* Only PiEstimation's Prints rests on the system's running the threads.
AllSpec ==
  /\ AllInit /\ [][AllNext]_<<allVars, filePart>>
  /\ WF_<<allVars, filePart>>(using = "pi" /\ AllNext)

\* The nodes of bst.c are those of one tree.
IsTree == S!IsTree

\* Until a node with two children is removed, bst.c finds what was inserted.
SetUntilTwoChildren == S!SetUntilTwoChildren

\* The trie of auto.c is the map from the words of the file to their last line.
TrieOfFile == using = "autocomplete" => A!TrieOfFile

\* auto.c answers from its file, completing to the topmost of distinct words.
AnswersFromFile == using = "autocomplete" => A!AnswersFromFile

\* The completion comes first in the file, repeated words or not (README.md:26).
PredictsMostCommon == using = "autocomplete" => A!PredictsMostCommon

\* convert.c prints the writings of a word in the order of the file.
WritingsInFileOrder == using = "converter" => K!WritingsInFileOrder
================================================================================
