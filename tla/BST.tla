----------------------------------- MODULE BST -----------------------------------
(***************************************************************************)
(* Datastructs/BST/bst.c: a binary search tree of integers, used by one    *)
(* client that inserts, looks up and removes values.                       *)
(***************************************************************************)
EXTENDS Integers, FiniteSets, FiniteSetsExt

CONSTANTS
  Value,
  MaxNodes      \* bound on the nodes that can be allocated at a time

Assumptions == Value \subseteq Int /\ MaxNodes \in Nat

VARIABLES
  top,
  tree,         \* the allocated nodes: their value, left and right
  members,      \* the values inserted and not removed since
  twoChildren   \* whether a node with two children has ever been removed

vars == <<top, tree, members, twoChildren>>

NULL == 0
Node == DOMAIN tree.value

\* The side of n on which v has to be looked for.
Child(t, n, v) == IF v < t.value[n] THEN t.left[n] ELSE t.right[n]

\* Mutant of WithChild: the new child always goes to the right.
WithRightChild(t, n, v, c) == [t EXCEPT !.right[n] = c]

WithChild(t, n, v, c) ==
  IF v < t.value[n] THEN [t EXCEPT !.left[n] = c] ELSE [t EXCEPT !.right[n] = c]

Freed(t, n) ==
  LET rest == DOMAIN t.value \ {n} IN
  [value |-> [x \in rest |-> t.value[x]],
   left  |-> [x \in rest |-> t.left[x]],
   right |-> [x \in rest |-> t.right[x]]]

Allocated(t, n, v) ==
  LET all == DOMAIN t.value \cup {n} IN
  [value |-> [x \in all |-> IF x = n THEN v ELSE t.value[x]],
   left  |-> [x \in all |-> IF x = n THEN NULL ELSE t.left[x]],
   right |-> [x \in all |-> IF x = n THEN NULL ELSE t.right[x]]]

\* The last node on the search path for v: the one that holds v if any does.
SearchEnd(v) ==
  LET end[n \in Node] ==
        IF tree.value[n] = v \/ Child(tree, n, v) = NULL THEN n ELSE end[Child(tree, n, v)]
  IN end[top]

Contains(v) == top # NULL /\ tree.value[SearchEnd(v)] = v

\* _BST_minimum goes on to the right where it cannot go left.
Minimum(t, root) ==
  LET min[n \in DOMAIN t.value] ==
        IF t.left[n] # NULL THEN min[t.left[n]]
        ELSE IF t.right[n] # NULL THEN min[t.right[n]] ELSE n
  IN min[root]

TwoChildren(t, n) == t.left[n] # NULL /\ t.right[n] # NULL

\* The trees that _BST_remove(n, v) may leave.  The value of the minimum is
\* read after the node that held it may have been freed.
RECURSIVE Removals(_, _, _)
Removals(t, n, v) ==
  LET c == Child(t, n, v) IN
  IF v = t.value[n] \/ c = NULL THEN {t}
  ELSE IF t.value[c] # v THEN Removals(t, c, v)
  ELSE IF ~ TwoChildren(t, c) THEN
         {Freed(WithChild(t, n, v, IF t.left[c] = NULL THEN t.right[c] ELSE t.left[c]), c)}
  ELSE LET min == Minimum(t, t.right[c])
           Copied(u) == IF min \in DOMAIN u.value THEN {u.value[min]} ELSE Value
       IN UNION {{[u EXCEPT !.value[c] = x] : x \in Copied(u)} :
                   u \in Removals(t, t.right[c], t.value[min])}

-----------------------------------------------------------------------------

Init ==
  /\ top = NULL
  /\ tree = [value |-> <<>>, left |-> <<>>, right |-> <<>>]
  /\ members = {}
  /\ twoChildren = FALSE

NewNode == Min(1 .. MaxNodes \ Node)

Insert(v) ==
  /\ Node # 1 .. MaxNodes
  /\ top' = IF top = NULL THEN NewNode ELSE top
  /\ LET n == SearchEnd(v) IN
     tree' = IF top = NULL THEN Allocated(tree, NewNode, v)
             ELSE IF tree.value[n] = v THEN tree
             ELSE WithChild(Allocated(tree, NewNode, v), n, v, NewNode)
  /\ members' = members \cup {v}
  /\ UNCHANGED twoChildren

\* Mutant of RemoveTop: the left subtree is not hung below the minimum of the right one.
RemoveTopDroppingLeft(v) ==
  /\ top # NULL
  /\ tree.value[top] = v
  /\ top' = IF tree.right[top] = NULL THEN tree.left[top] ELSE tree.right[top]
  /\ tree' = Freed(tree, top)
  /\ members' = members \ {v}
  /\ twoChildren' = (twoChildren \/ TwoChildren(tree, top))

\* BST_remove of the value at the top.
RemoveTop(v) ==
  LET l == tree.left[top]
      r == tree.right[top]
  IN
  /\ top # NULL
  /\ tree.value[top] = v
  /\ top' = IF r = NULL THEN l ELSE r
  /\ tree' = Freed(IF TwoChildren(tree, top) THEN [tree EXCEPT !.left[Minimum(tree, r)] = l]
                   ELSE tree, top)
  /\ members' = members \ {v}
  /\ twoChildren' = (twoChildren \/ TwoChildren(tree, top))

\* BST_remove of any other value.
RemoveBelow(v) ==
  /\ top # NULL
  /\ tree.value[top] # v
  /\ tree' \in Removals(tree, top, v)
  /\ members' = members \ {v}
  /\ twoChildren' = (twoChildren \/ \E n \in Node : tree.value[n] = v /\ TwoChildren(tree, n))
  /\ UNCHANGED top

Next == \E v \in Value : Insert(v) \/ RemoveTop(v) \/ RemoveBelow(v)

Spec == Init /\ [][Next]_vars

-----------------------------------------------------------------------------

Edges == {<<n, s>> \in Node \X {"left", "right"} : tree[s][n] # NULL}

\* The nodes are those of one binary tree: no node is lost, linked twice or
\* linked after it was freed, even where a removal has gone wrong.
IsTree ==
  LET below[k \in 0 .. MaxNodes] ==
        IF k = 0 THEN {top} \ {NULL}
        ELSE below[k - 1] \cup ({tree.left[n] : n \in below[k - 1]} \ {NULL})
                          \cup ({tree.right[n] : n \in below[k - 1]} \ {NULL})
  IN /\ below[MaxNodes] = Node
     /\ Node # {} => Cardinality(Edges) = Cardinality(Node) - 1

\* Until a node with two children is removed, the values found are exactly
\* those inserted and not removed.
SetUntilTwoChildren == ~ twoChildren => {v \in Value : Contains(v)} = members

\* README.md:18: values can be inserted, checked for, and removed.
RemovesValues == {v \in Value : Contains(v)} = members
================================================================================
