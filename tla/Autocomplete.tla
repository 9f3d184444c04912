------------------------------- MODULE Autocomplete -------------------------------
(***************************************************************************)
(* Autocomplete/auto.c over Datastructs/Trie/trie.c: a file of words, the  *)
(* most common first, is read into a trie with falling values, and what    *)
(* the user types is looked up or completed.                               *)
(***************************************************************************)
EXTENDS Integers, Sequences, SequencesExt, FiniteSets

CONSTANTS
  Word,         \* what fgets can leave of a line, in the file or typed
  MaxLines,     \* bound on the lines of the file
  INT_MAX,
  BufferSize    \* room of `highest' (256 in the code)

T == INSTANCE Trie

VARIABLES
  tree, is_word, value,   \* the trie
  lines,        \* the words read so far; auto.c keeps their number i
  said,         \* what was answered last
  phase         \* "load", "ask", "end", or "crashed"

vars == <<tree, is_word, value, lines, said, phase>>

INT_MIN == -INT_MAX - 1
Root == T!Root
Wild == T!NULL     \* true_max before anything is assigned to it
Nothing == [input |-> <<>>, answer |-> "nothing", word |-> <<>>]

\* create_trie does not set is_word of the root.  A value is not set, and not
\* read either, before its node is a word.
Init ==
  /\ tree = T!EmptyTree
  /\ is_word \in {<<FALSE>>, <<TRUE>>}
  /\ value = <<INT_MIN>>
  /\ lines = <<>>
  /\ said = Nothing
  /\ phase = "load"

-----------------------------------------------------------------------------

\* add_word: new nodes are no words; only the last node of w is marked.
AddWord(w, v) ==
  LET g == T!Grown(tree, w)
      New == Len(tree) + 1 .. Len(g.tree)
      Extended(f, x) == [n \in DOMAIN g.tree |-> IF n \in New THEN x ELSE f[n]]
  IN
  /\ tree' = g.tree
  /\ is_word' = [Extended(is_word, FALSE) EXCEPT ![g.at] = TRUE]
  /\ value' = [Extended(value, INT_MIN) EXCEPT ![g.at] = v]

ReadWord(w) ==
  /\ phase = "load"
  /\ Len(lines) < MaxLines
  /\ AddWord(w, INT_MAX - Len(lines))
  /\ lines' = Append(lines, w)
  /\ UNCHANGED <<said, phase>>

Close ==
  /\ phase = "load"
  /\ phase' = "ask"
  /\ UNCHANGED <<tree, is_word, value, lines, said>>

HasKey(w) == LET n == T!Located(tree, w) IN n # T!NULL /\ is_word[n]

\* What index_of returns; it ends the program where there is no such key.
IndexOf(w) == value[T!Located(tree, w)]

\* Mutant of HighestNode: a node that is a word hides those below it.
HighestNodeHiding(root) ==
  LET high[n \in DOMAIN tree] ==
        LET Own == IF is_word[n] /\ value[n] > INT_MIN THEN [node |-> n, max |-> value[n]]
                   ELSE [node |-> Wild, max |-> INT_MIN]
            Step(s, c) ==
              IF high[c] # Wild /\ value[high[c]] >= s.max /\ ~ is_word[n]
                THEN [node |-> high[c], max |-> value[high[c]]] ELSE s
        IN FoldLeft(Step, Own, tree[n].children).node
  IN high[root]

\* _get_highest_node: true_max is assigned only where a value is large enough.
\* Reading the value of a wild true_max of a child is a wild read.
HighestNode(root) ==
  LET high[n \in DOMAIN tree] ==
        LET Own == IF is_word[n] /\ value[n] > INT_MIN THEN [node |-> n, max |-> value[n]]
                   ELSE [node |-> Wild, max |-> INT_MIN]
            Step(s, c) ==
              IF high[c] = Wild THEN [s EXCEPT !.node = Wild, !.max = INT_MAX + 1]
              ELSE IF value[high[c]] >= s.max
                THEN [node |-> high[c], max |-> value[high[c]]] ELSE s
        IN FoldLeft(Step, Own, tree[n].children).node
  IN high[root]

Say(input, answer, word) == said' = [input |-> input, answer |-> answer, word |-> word]

AskWord(w) ==
  /\ phase = "ask"
  /\ HasKey(w)
  /\ Say(w, "found", w)
  /\ UNCHANGED <<tree, is_word, value, lines, phase>>

AskNothing(w) ==
  /\ phase = "ask"
  /\ T!Located(tree, w) = T!NULL
  /\ Say(w, "none", <<>>)
  /\ UNCHANGED <<tree, is_word, value, lines, phase>>

\* get_highest_key: the node's path, as far as the buffer takes it.
AskPrefix(w) ==
  LET n == T!Located(tree, w)
      max == HighestNode(n)
  IN
  /\ phase = "ask"
  /\ n # T!NULL /\ ~ HasKey(w)
  /\ IF max = Wild
       THEN phase' = "crashed" /\ said' = [Nothing EXCEPT !.input = w]
       ELSE Say(w, "prediction", T!Spelled(tree, max, BufferSize - 1)) /\ UNCHANGED phase
  /\ UNCHANGED <<tree, is_word, value, lines>>

\* "stop": the trie is destroyed.
Stop ==
  /\ phase = "ask"
  /\ phase' = "end"
  /\ UNCHANGED <<tree, is_word, value, lines, said>>

Next ==
  \/ \E w \in Word : ReadWord(w) \/ AskWord(w) \/ AskNothing(w) \/ AskPrefix(w)
  \/ Close
  \/ Stop

Spec == Init /\ [][Next]_vars

-----------------------------------------------------------------------------

Stored == ToSet(lines)
LastLine(w) == SelectLastInSeq(lines, LAMBDA x : x = w)

\* The trie is the map from every word of the file to the value of the last
\* line it stands on, whatever the order of the lines (trie.c:44-86); its nodes
\* are one tree, which _destroy therefore frees node by node.
TrieOfFile ==
  /\ T!IsTreeOf(tree, Stored)
  /\ \A w \in Word \ {<<>>} : HasKey(w) <=> w \in Stored
  /\ \A w \in Stored : HasKey(w) /\ IndexOf(w) = INT_MAX - (LastLine(w) - 1)

FirstLine(w) == SelectInSeq(lines, LAMBDA x : x = w)
Candidates(w) == {c \in Stored : IsPrefix(w, c)}

\* What is typed is found, or completed to a word that has it as prefix; in a
\* file without repeated words, which it is made for (README.md:26), to the one
\* nearest to the top.  _get_highest_node never returns its uninitialised
\* true_max (trie.c:157-181) but for the empty input to an empty trie, and only
\* the empty input depends on the uninitialised flag of the root.
AnswersFromFile ==
  LET w == said.input IN
  /\ said.answer = "found" => w \in Stored \/ w = <<>>
  /\ said.answer = "none" => Candidates(w) = {}
  /\ said.answer = "prediction" =>
       /\ w \notin Stored
       /\ said.word \in Candidates(w)
       /\ IsInjective(lines) => \A c \in Candidates(w) : FirstLine(said.word) <= FirstLine(c)
  /\ phase = "crashed" => Stored = {} /\ w = <<>>

\* README.md:26: the word at the top of the file is the most common, so the
\* prediction is the word that comes first in the file.
PredictsMostCommon ==
  said.answer = "prediction" =>
    \A c \in Candidates(said.input) : FirstLine(said.word) <= FirstLine(c)
================================================================================
