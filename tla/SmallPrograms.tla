-------------------------------- MODULE SmallPrograms --------------------------------
(***************************************************************************)
(* PiEstimation, Cost, DecisionTree, BitSet and Strings.  They have        *)
(* nothing to do with each other: a behavior is one of the program that    *)
(* `using' names, "pi", "cost", "tree", "set" or "string", while the       *)
(* variables of the others stay as they are.                               *)
(***************************************************************************)
EXTENDS Integers, Sequences

CONSTANTS
  Programs,                                        \* those that may run
  None, Garbage,
  THREADS, POINTS_PER_THREAD, size, Contribution,  \* PiEstimation
  Data,                                            \* Cost
  Inputs, Depths,                                  \* DecisionTree
  Handle, Num, Bytes, UnsetBytes,                  \* BitSet
  Text, Slack                                      \* Strings

VARIABLES
  using,
  program, item, place, next, local, unset, seen, sum, lock, created, joined, freed,
  data, before, global_mean, global_cost, r, region, pc, i, cost, factor, raced,
  inputs, round, samples, split, calls, predictions,
  bytes, members, elements, sized, sound,
  length, capacity, content, room, text, state

piPart == <<program, item, place, next, local, unset, seen, sum, lock, created, joined, freed>>
costPart == <<data, before, global_mean, global_cost, r, region, pc, i, cost, factor, raced>>
treePart == <<inputs, round, samples, split, calls, predictions>>
setPart == <<bytes, members, elements, sized, sound>>
stringPart == <<length, capacity, content, room, text, state>>
allVars == <<using, piPart, costPart, treePart, setPart, stringPart>>

P == INSTANCE PiEstimation WITH pc <- place
C == INSTANCE Cost
D == INSTANCE DecisionTree
B == INSTANCE BitSet WITH Garbage <- UnsetBytes
Str == INSTANCE Strings WITH size <- capacity

ASSUME ProgramsAssumption ==
  P!Assumptions /\ C!Assumptions /\ D!Assumptions /\ B!Assumptions /\ Str!Assumptions

One(set) == CHOOSE x \in set : TRUE

\* A program that does not run starts in one of its initial states only.
Init ==
  /\ using \in Programs
  /\ P!Init /\ (using # "pi" => program = "monte" /\ item = [k \in P!Item |-> One(Contribution)])
  /\ C!Init /\ (using # "cost" => data = One(Data) /\ before = [mean |-> One(Garbage), cost |-> One(Garbage)])
  /\ D!Init /\ (using # "tree" => inputs = One(Inputs))
  /\ B!Init
  /\ Str!Init

Next ==
  /\ UNCHANGED using
  /\ \/ using = "pi" /\ P!Next /\ UNCHANGED <<costPart, treePart, setPart, stringPart>>
     \/ using = "cost" /\ C!Next /\ UNCHANGED <<piPart, treePart, setPart, stringPart>>
     \/ using = "tree" /\ D!Next /\ UNCHANGED <<piPart, costPart, setPart, stringPart>>
     \/ using = "set" /\ B!Next /\ UNCHANGED <<piPart, costPart, treePart, stringPart>>
     \/ using = "string" /\ Str!Next /\ UNCHANGED <<piPart, costPart, treePart, setPart>>

Spec == Init /\ [][Next]_allVars

\* The threads of monte.c and integ.c add every share of the items once.
SumOfShares == P!SumOfShares

\* What they print is the sum of all items (README.md:34).
CalculatesPi == P!CalculatesPi

\* The threads of cost() add the share of every element once.
CostOfShares == C!CostOfShares

\* The leaves of a fitted tree share out the samples by their inputs.
SamplesInLeaves == D!SamplesInLeaves

\* A set of set.c that may be used holds its elements.
HoldsElements == B!HoldsElements

\* A string of strings.c reads as what it was made of and sliced to.
ReadsAsText == Str!ReadsAsText

\* PiEstimation's threads all get the mutex and end, so that main prints.
Prints == using = "pi" => P!Prints
================================================================================
