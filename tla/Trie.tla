----------------------------------- MODULE Trie -----------------------------------
(***************************************************************************)
(* The tree of Datastructs/Trie/trie.c: the nodes in the order in which    *)
(* they are allocated, the root first.  What add_word leaves at the node   *)
(* of a word belongs to the programs; kanjitrie.c has the same tree with   *)
(* other words.                                                            *)
(***************************************************************************)
EXTENDS Integers, Sequences, SequencesExt, FiniteSets

Root == 1
NULL == 0

NewNode(c, parent) ==
  [key_part |-> c, parent |-> parent, children |-> <<>>, child_size |-> 1]

\* create_trie.  The key of the root is never read.
EmptyTree == <<NewNode(NULL, NULL)>>

\* The first child of node n for character c, or NULL.
ChildFor(tree, n, c) ==
  LET j == SelectInSeq(tree[n].children, LAMBDA m : tree[m].key_part = c)
  IN IF j = 0 THEN NULL ELSE tree[n].children[j]

\* Mutant of WithChild: the array of children is doubled one child too late.
WithChildLate(tree, n, c) ==
  LET new == Len(tree) + 1
      Doubled(size) == IF Len(tree[n].children) > size THEN 2 * size ELSE size
  IN Append([tree EXCEPT ![n].children = Append(@, new), ![n].child_size = Doubled(@)],
            NewNode(c, n))

\* A new node as the last child of n, whose array of children doubles when it is full.
WithChild(tree, n, c) ==
  LET new == Len(tree) + 1
      Doubled(size) == IF Len(tree[n].children) >= size THEN 2 * size ELSE size
  IN Append([tree EXCEPT ![n].children = Append(@, new), ![n].child_size = Doubled(@)],
            NewNode(c, n))

\* The tree with the nodes of word, and the node where word ends.
Grown(tree, word) ==
  LET Step(s, c) ==
        LET n == ChildFor(s.tree, s.at, c) IN
        IF n # NULL THEN [s EXCEPT !.at = n]
        ELSE [tree |-> WithChild(s.tree, s.at, c), at |-> Len(s.tree) + 1]
  IN FoldLeft(Step, [tree |-> tree, at |-> Root], word)

\* The node where word ends, or NULL.
Located(tree, word) ==
  FoldLeft(LAMBDA n, c : IF n = NULL THEN NULL ELSE ChildFor(tree, n, c), Root, word)

\* The last `room' characters on the path from the root to node n.
Spelled(tree, n, room) ==
  LET up[m \in 0 .. Len(tree), k \in 0 .. room] ==
        IF k = 0 \/ tree[m].parent = NULL THEN <<>>
        ELSE Append(up[tree[m].parent, k - 1], tree[m].key_part)
  IN up[n, room]

\* What every node is reached from: the tree of the words ws has one node for
\* each of their prefixes and no other, each the child of its parent only, and
\* no array of children is overrun.
IsTreeOf(tree, ws) ==
  LET Room == Len(tree)
      Path(n) == Spelled(tree, n, Room)
      Node == DOMAIN tree
  IN
  /\ IsInjective([n \in Node |-> Path(n)])
  /\ {Path(n) : n \in Node} = {<<>>} \cup UNION {Prefixes(w) : w \in ws}
  /\ \A n \in Node :
       /\ IsInjective(tree[n].children)
       /\ ToSet(tree[n].children) = {m \in Node : tree[m].parent = n}
       /\ Len(tree[n].children) <= tree[n].child_size
================================================================================
