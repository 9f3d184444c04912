------------------------------- MODULE SplitSort -------------------------------
(***************************************************************************)
(* What the parallel quicksorts of this repository promise, without        *)
(* processes, threads, calls or a schedule.                                *)
(*                                                                         *)
(* `work' is the set of segments that still have to be put in order: they  *)
(* are disjoint, and everything outside them is in its final place.  A     *)
(* segment may be rearranged by exchanging two of its own elements, and it *)
(* is replaced by two smaller ones once one of its elements separates it.  *)
(* When no segment is left the array is sorted.                            *)
(*                                                                         *)
(* ForkSort (Sorting/quick.c) and ThreadSort (Threads/threadsort.c) are    *)
(* shown to implement this specification.                                  *)
(***************************************************************************)
EXTENDS Integers, Functions

CONSTANTS
  N,            \* number of elements to sort: argv[1] of quick.c, SIZE of threadsort.c
  Value         \* the values the elements are drawn from

ASSUME NAssumption == N \in Nat
ASSUME ValueAssumption == Value \subseteq Int

VARIABLES
  input,        \* the array as it was loaded
  arr,          \* the array being sorted
  work          \* the segments not yet in order

vars == <<input, arr, work>>

Index == 0 .. N - 1

\* A segment with fewer than two elements needs no work: the `low >= high'
\* early return of every quicksort of the repository.
Segment == {s \in [lo : Index, hi : Index] : s.lo < s.hi}

\* Mutant of Piece: two-element segments are taken to be in order.
PieceOfThree(l, h) == IF l + 1 < h THEN {[lo |-> l, hi |-> h]} ELSE {}

Piece(l, h) == IF l < h THEN {[lo |-> l, hi |-> h]} ELSE {}

In(s) == s.lo .. s.hi

\* Mutant of Exchanged: the swap forgets to save the first element.
Overwritten(a, p, q) == [a EXCEPT ![p] = a[q]]

Exchanged(a, p, q) == [a EXCEPT ![p] = a[q], ![q] = a[p]]

\* Every element left of p is at most a[p], every element right of it at least a[p].
Separates(a, s, p) ==
  /\ \A x \in s.lo .. p - 1 : a[x] <= a[p]
  /\ \A y \in p + 1 .. s.hi : a[p] <= a[y]

-----------------------------------------------------------------------------

Init ==
  /\ input \in [Index -> Value]
  /\ arr = input
  /\ work = Piece(0, N - 1)

Exchange(s, p, q) ==
  /\ arr' = Exchanged(arr, p, q)
  /\ UNCHANGED <<input, work>>

\* Mutant of Split: the segment is split at any of its elements.
SplitAnywhere(s, p, q) ==
  /\ arr' = Exchanged(arr, p, q)
  /\ work' = (work \ {s}) \cup Piece(s.lo, p - 1) \cup Piece(p + 1, s.hi)
  /\ UNCHANGED input

\* The last exchange of a partition puts the pivot p in place and splits s around it.
Split(s, p, q) ==
  /\ arr' = Exchanged(arr, p, q)
  /\ Separates(arr', s, p)
  /\ work' = (work \ {s}) \cup Piece(s.lo, p - 1) \cup Piece(p + 1, s.hi)
  /\ UNCHANGED input

\* The client loads the same input again and sorts it anew.
Restart ==
  /\ arr' = input
  /\ work' = Piece(0, N - 1)
  /\ UNCHANGED input

Next ==
  \/ \E s \in work : \E p, q \in In(s) : Exchange(s, p, q) \/ Split(s, p, q)
  \/ Restart

Spec == Init /\ [][Next]_vars

-----------------------------------------------------------------------------

TypeOK ==
  /\ input \in [Index -> Value]
  /\ arr \in [Index -> Value]
  /\ work \subseteq Segment

\* Two segments of work never overlap.
Disjoint == \A s, t \in work : s # t => s.hi < t.lo \/ t.hi < s.lo

\* Two elements that no segment holds together are already in the right order.
Ordered ==
  \A a, b \in Index :
    a < b => \/ \E s \in work : a \in In(s) /\ b \in In(s)
             \/ arr[a] <= arr[b]

IInv == TypeOK /\ Disjoint /\ Ordered

IsSorted(a) == \A x, y \in Index : x < y => a[x] <= a[y]

\* With no segment left to work on, the whole array is sorted.
SortedWhenIdle == work = {} => IsSorted(arr)

\* The array only ever holds the elements of its input: nothing is lost or duplicated.
IsPermutation == \E f \in Bijection(Index, Index) : arr = [x \in Index |-> input[f[x]]]
================================================================================
