------------------------------- MODULE DecisionTree -------------------------------
(***************************************************************************)
(* The trees of Threads/GradientBoosting/dt.c and the rounds of its main:  *)
(* create_tree, gen_children (one stack of calls, as it recurses first to  *)
(* the left), fit and predict.  An output is known by its sample.  The     *)
(* result of cost() is never initialised (dt.c:100-101), so any sample may *)
(* become the split of a node.                                             *)
(***************************************************************************)
EXTENDS Integers, FiniteSets, SequencesExt

CONSTANTS
  Inputs,       \* the arrays of inputs main may draw
  Depths        \* the depths of the successive trees (<<4, 3, 3>> in the code)

VARIABLES
  inputs,       \* sample -> its input
  round,        \* the trees created so far
  samples,      \* node -> its samples; those of inner nodes are freed, and kept here as history
  split,        \* inner node -> the input it is split at
  calls,        \* the calls of gen_children to come, the next one first
  predictions   \* sample -> for every round, the samples whose outputs are averaged

vars == <<inputs, round, samples, split, calls, predictions>>

Assumptions == Inputs \subseteq Seq(Int) \ {<<>>} /\ Depths \in Seq(Int)

Sample == DOMAIN inputs

\* A node is named by the path that leads to it from the head.
Root == <<>>
LeftOf(node) == Append(node, "left")
RightOf(node) == Append(node, "right")
Leaves == DOMAIN samples \ DOMAIN split

Init ==
  /\ inputs \in Inputs
  /\ round = 0
  /\ samples = <<>> /\ split = <<>>
  /\ calls = <<>>
  /\ predictions = [s \in Sample |-> <<>>]

\* main has predicted every sample with the current tree.
Predicted == \A s \in Sample : Len(predictions[s]) = round

\* create_tree, and the call of gen_children by fit.
Create ==
  /\ round < Len(Depths)
  /\ Predicted
  /\ round' = round + 1
  /\ samples' = [node \in {Root} |-> Sample]
  /\ split' = <<>>
  /\ calls' = <<[node |-> Root, depth |-> Depths[round + 1]]>>
  /\ UNCHANGED <<inputs, predictions>>

Returns(call) == call.depth < 0 \/ Cardinality(samples[call.node]) < 2

\* Mutant of Parts: the sample of the split always goes to the left.
PartsLeft(all, s) ==
  [left |-> {k \in all : inputs[k] < inputs[s]} \cup {s},
   right |-> {k \in all : inputs[k] > inputs[s]}]

\* The parts of a node that is split at the input of s, itself on the right
\* only if nothing else is.  Others with the same input are in neither part.
Parts(all, s) ==
  LET below == {k \in all : inputs[k] < inputs[s]}
      above == {k \in all : inputs[k] > inputs[s]}
  IN  IF above = {} THEN [left |-> below, right |-> {s}]
                    ELSE [left |-> below \cup {s}, right |-> above]

\* gen_children when it returns at once.
Return ==
  /\ calls # <<>> /\ Returns(Head(calls))
  /\ calls' = Tail(calls)
  /\ UNCHANGED <<inputs, round, samples, split, predictions>>

\* gen_children up to its two calls of itself.
Split ==
  /\ calls # <<>> /\ ~ Returns(Head(calls))
  /\ LET node == Head(calls).node
         children == {LeftOf(node), RightOf(node)}
         Child(n) == [node |-> n, depth |-> Head(calls).depth - 1]
     IN  /\ \E s \in samples[node] :
              /\ samples' = [n \in DOMAIN samples \cup children |->
                               IF n \in children THEN Parts(samples[node], s)[Last(n)] ELSE samples[n]]
              /\ split' = [n \in DOMAIN split \cup {node} |-> IF n = node THEN inputs[s] ELSE split[n]]
         /\ calls' = <<Child(LeftOf(node)), Child(RightOf(node))>> \o Tail(calls)
  /\ UNCHANGED <<inputs, round, predictions>>

\* The leaf where predict ends, from the root.
LeafFor(input) ==
  CHOOSE leaf \in Leaves :
    \A d \in 1 .. Len(leaf) :
      leaf[d] = IF input > split[SubSeq(leaf, 1, d - 1)] THEN "right" ELSE "left"

\* One iteration of main's loop of predictions.
Predict ==
  /\ round > 0 /\ calls = <<>>
  /\ \E s \in Sample :
       /\ \A k \in Sample : Len(predictions[k]) < round <=> k >= s
       /\ predictions' = [predictions EXCEPT ![s] = Append(@, samples[LeafFor(inputs[s])])]
  /\ UNCHANGED <<inputs, round, samples, split, calls>>

Next == Create \/ Return \/ Split \/ Predict

Spec == Init /\ [][Next]_vars

-----------------------------------------------------------------------------

\* The nodes that s could have gone through, and were split at its own input
\* because no sample of theirs has a greater one.
GreatestOf(s) ==
  {node \in DOMAIN split :
     s \in samples[node] /\ \A k \in samples[node] : inputs[k] <= inputs[s]}

\* Once a tree is fitted to distinct inputs, its leaves share out all the
\* samples whatever splits were chosen, none of them is empty (predict divides
\* by the length, dt.c:317), and predict, which sends an input equal to the
\* split to the left (dt.c:306), averages a leaf that holds the very sample
\* unless it was put on the right as the greatest of a node split at it
\* (dt.c:231-236).  With repeated inputs samples may get lost (dt.c:218-230),
\* but any two leaves still hold different inputs, one all below the other.
SamplesInLeaves ==
  calls = <<>> /\ round > 0 =>
    /\ \A leaf \in Leaves : \A other \in Leaves \ {leaf} :
         \/ \A k \in samples[leaf], m \in samples[other] : inputs[k] < inputs[m]
         \/ \A k \in samples[leaf], m \in samples[other] : inputs[k] > inputs[m]
    /\ IsInjective(inputs) =>
         /\ UNION {samples[leaf] : leaf \in Leaves} = Sample
         /\ \A leaf \in Leaves : samples[leaf] # {}
         /\ \A s \in Sample :
              s \in samples[LeafFor(inputs[s])] \/ \E node \in GreatestOf(s) : split[node] = inputs[s]
===================================================================================
