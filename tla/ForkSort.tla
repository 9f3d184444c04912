-------------------------------- MODULE ForkSort --------------------------------
(***************************************************************************)
(* Sorting/quick.c: quicksort over a System V shared memory segment, in    *)
(* which the right part of every partition above depth MaxDepth is sorted  *)
(* by a forked process, the left part by the process that forked it.       *)
(*                                                                         *)
(* Every call of quicksort_fork or quicksort_vanilla is a node of a binary *)
(* tree, numbered like a heap: the call for the left part of call c is     *)
(* 2c, the one for its right part 2c+1.  A process has the number of the   *)
(* first call it runs.  One iteration of the partition loop is one step.   *)
(***************************************************************************)
EXTENDS Integers, FiniteSets, Functions

CONSTANTS
  N,            \* `max': the number of elements
  Value,        \* the values rand() is drawn from
  MaxDepth,     \* 8 in the code: no forks from this depth on
  ForkMayFail   \* whether fork() may return -1

ASSUME NAssumption == N \in Nat
ASSUME ValueAssumption == Value \subseteq Int
ASSUME DepthAssumption == MaxDepth \in Nat
ASSUME FailAssumption == ForkMayFail \in BOOLEAN

VARIABLES
  nums,         \* the private copy of the input
  arr,          \* the shared memory segment
  calls,        \* call number -> activation record
  proc,         \* process number -> its state
  phase,        \* how far main has come
  badcount      \* what main has last printed as `Unsorted items'

vars == <<nums, arr, calls, proc, phase, badcount>>

Index == 0 .. N - 1
Root == 1
CallId == Nat \ {0}

Parts == INSTANCE SplitSort WITH input <- nums, work <- {}
Piece(l, h) == Parts!Piece(l, h)
Exchanged(a, p, q) == Parts!Exchanged(a, p, q)

\* An activation record.  `lost' remembers that the fork of this call failed.
NewCall(kind, low, high, depth, pid) ==
  [kind |-> kind, low |-> low, high |-> high, depth |-> depth, pid |-> pid,
   i |-> low, j |-> low, pivot |-> 0, pc |-> "enter", lost |-> FALSE]

\* quick.c:106.  At MaxDepth and in quicksort_vanilla both parts are plain calls.
Forks(f) == f.kind = "fork" /\ f.depth < MaxDepth

\* Mutant of Halves: both parts keep the pivot.
HalvesSharingPivot(f) == [left |-> <<f.low, f.i>>, right |-> <<f.i, f.high>>]

\* The two parts a partition leaves, on either side of the pivot at i.
Halves(f) == [left |-> <<f.low, f.i - 1>>, right |-> <<f.i + 1, f.high>>]

Child(f, part, pid) ==
  LET kind == IF Forks(f) THEN "fork" ELSE "vanilla"
      depth == IF Forks(f) THEN f.depth + 1 ELSE f.depth
  IN NewCall(kind, part[1], part[2], depth, pid)

\* Call c is updated to f, and a new call n starts as g.
WithCall(c, f, n, g) ==
  [x \in DOMAIN calls \cup {n} |-> IF x = n THEN g ELSE IF x = c THEN f ELSE calls[x]]

ChildrenOf(p) == {q \in DOMAIN proc : q # Root /\ calls[q \div 2].pid = p}
Unreaped(p) == {q \in ChildrenOf(p) : proc[q].status # "reaped"}

Unsorted == Cardinality({x \in 0 .. N - 2 : arr[x + 1] < arr[x]})

-----------------------------------------------------------------------------

\* main fills nums and the segment and calls quicksort_fork(shm_id, 0, max-1, 0).
Init ==
  /\ nums \in [Index -> Value]
  /\ arr = nums
  /\ calls = [c \in {Root} |-> NewCall("fork", 0, N - 1, 0, Root)]
  /\ proc = [p \in {Root} |-> [status |-> "running", attached |-> 1]]
  /\ phase = "forking"
  /\ badcount = 0

\* quicksort_fork attaches the segment before it looks at the bounds, and its
\* early return does not detach it again.
Enter(c) ==
  LET f == calls[c] IN
  /\ f.pc = "enter"
  /\ proc' = IF f.kind = "fork" THEN [proc EXCEPT ![f.pid].attached = @ + 1] ELSE proc
  /\ \/ /\ f.low >= f.high
        /\ calls' = [calls EXCEPT ![c].pc = "done"]
     \/ /\ f.low < f.high
        /\ calls' = [calls EXCEPT ![c].pc = "loop", ![c].pivot = arr[f.high]]
  /\ UNCHANGED <<nums, arr, phase, badcount>>

\* One iteration of the partition loop.
Scan(c) ==
  LET f == calls[c] IN
  /\ f.pc = "loop"
  /\ f.j <= f.high - 1
  /\ IF arr[f.j] < f.pivot
       THEN /\ arr' = Exchanged(arr, f.i, f.j)
            /\ calls' = [calls EXCEPT ![c].i = @ + 1, ![c].j = @ + 1]
       ELSE /\ calls' = [calls EXCEPT ![c].j = @ + 1]
            /\ UNCHANGED arr
  /\ UNCHANGED <<nums, proc, phase, badcount>>

\* Mutant of Place: the pivot is never put in its place.
PlaceForgotten(c) ==
  LET f == calls[c] IN
  /\ f.pc = "loop"
  /\ f.j > f.high - 1
  /\ calls' = [calls EXCEPT ![c].pc = IF Forks(f) THEN "fork" ELSE "left"]
  /\ UNCHANGED <<nums, arr, proc, phase, badcount>>

\* The pivot goes between the two parts.
Place(c) ==
  LET f == calls[c] IN
  /\ f.pc = "loop"
  /\ f.j > f.high - 1
  /\ arr' = Exchanged(arr, f.i, f.j)
  /\ calls' = [calls EXCEPT ![c].pc = IF Forks(f) THEN "fork" ELSE "left"]
  /\ UNCHANGED <<nums, proc, phase, badcount>>

\* Mutant of Fork: the shmdt before fork is forgotten.
ForkAttached(c) ==
  LET f == calls[c]
      n == 2 * c + 1
  IN
  /\ f.pc = "fork"
  /\ \/ /\ calls' = WithCall(c, [f EXCEPT !.pc = "left"], n, Child(f, Halves(f).right, n))
        /\ proc' = [p \in DOMAIN proc \cup {n} |->
                      IF p = n THEN [status |-> "running", attached |-> proc[f.pid].attached]
                      ELSE proc[p]]
     \/ /\ ForkMayFail
        /\ calls' = [calls EXCEPT ![c].pc = "left", ![c].lost = TRUE]
        /\ UNCHANGED proc
  /\ UNCHANGED <<nums, arr, phase, badcount>>

\* shmdt, then fork: the new process sorts the right part, with the
\* attachments it inherits.  A failed fork returns -1, which is not 0: the
\* caller goes on as if the right part had been given away.
Fork(c) ==
  LET f == calls[c]
      n == 2 * c + 1
      detached == [proc EXCEPT ![f.pid].attached = @ - 1]
  IN
  /\ f.pc = "fork"
  /\ \/ /\ calls' = WithCall(c, [f EXCEPT !.pc = "left"], n, Child(f, Halves(f).right, n))
        /\ proc' = [p \in DOMAIN proc \cup {n} |->
                      IF p = n THEN [status |-> "running", attached |-> detached[f.pid].attached]
                      ELSE detached[p]]
     \/ /\ ForkMayFail
        /\ calls' = [calls EXCEPT ![c].pc = "left", ![c].lost = TRUE]
        /\ proc' = detached
  /\ UNCHANGED <<nums, arr, phase, badcount>>

\* The call for the left part, in the same process.
CallLeft(c) ==
  LET f == calls[c] IN
  /\ f.pc = "left"
  /\ calls' = WithCall(c, [f EXCEPT !.pc = "inLeft"], 2 * c, Child(f, Halves(f).left, f.pid))
  /\ UNCHANGED <<nums, arr, proc, phase, badcount>>

LeftReturned(c) ==
  LET f == calls[c] IN
  /\ f.pc = "inLeft"
  /\ calls[2 * c].pc = "done"
  /\ calls' = [calls EXCEPT ![c].pc = IF Forks(f) THEN "wait" ELSE "right"]
  /\ UNCHANGED <<nums, arr, proc, phase, badcount>>

\* The call for the right part, where it is not forked.
CallRight(c) ==
  LET f == calls[c] IN
  /\ f.pc = "right"
  /\ calls' = WithCall(c, [f EXCEPT !.pc = "inRight"], 2 * c + 1, Child(f, Halves(f).right, f.pid))
  /\ UNCHANGED <<nums, arr, proc, phase, badcount>>

\* quicksort_fork at MaxDepth detaches the segment before it returns.
RightReturned(c) ==
  LET f == calls[c] IN
  /\ f.pc = "inRight"
  /\ calls[2 * c + 1].pc = "done"
  /\ calls' = [calls EXCEPT ![c].pc = "done"]
  /\ proc' = IF f.kind = "fork" THEN [proc EXCEPT ![f.pid].attached = @ - 1] ELSE proc
  /\ UNCHANGED <<nums, arr, phase, badcount>>

\* Mutant of Wait: only the outermost call waits.
WaitOnlyAtRoot(c) ==
  LET f == calls[c] IN
  /\ f.pc = "wait"
  /\ calls' = [calls EXCEPT ![c].pc = "done"]
  /\ \/ /\ f.depth > 0 \/ Unreaped(f.pid) = {}
        /\ UNCHANGED proc
     \/ \E q \in Unreaped(f.pid) :
          /\ f.depth = 0
          /\ proc[q].status = "zombie"
          /\ proc' = [proc EXCEPT ![q].status = "reaped"]
  /\ UNCHANGED <<nums, arr, phase, badcount>>

\* Mutant of Wait: without a child it waits for ever.
WaitWithoutECHILD(c) ==
  LET f == calls[c] IN
  /\ f.pc = "wait"
  /\ calls' = [calls EXCEPT ![c].pc = "done"]
  /\ \E q \in Unreaped(f.pid) :
       /\ proc[q].status = "zombie"
       /\ proc' = [proc EXCEPT ![q].status = "reaped"]
  /\ UNCHANGED <<nums, arr, phase, badcount>>

\* wait(NULL) reaps whichever child has exited, not the one this call forked.
\* Without any child it fails at once, and the call returns all the same.
Wait(c) ==
  LET f == calls[c] IN
  /\ f.pc = "wait"
  /\ calls' = [calls EXCEPT ![c].pc = "done"]
  /\ \/ /\ Unreaped(f.pid) = {}
        /\ UNCHANGED proc
     \/ \E q \in Unreaped(f.pid) :
          /\ proc[q].status = "zombie"
          /\ proc' = [proc EXCEPT ![q].status = "reaped"]
  /\ UNCHANGED <<nums, arr, phase, badcount>>

\* exit(0) of a forked process, when its first call has returned.
Exit(p) ==
  /\ p # Root
  /\ proc[p].status = "running"
  /\ calls[p].pc = "done"
  /\ proc' = [proc EXCEPT ![p] = [status |-> "zombie", attached |-> 0]]
  /\ UNCHANGED <<nums, arr, calls, phase, badcount>>

\* main: quicksort_fork has returned, the unsorted elements are counted.
CountForked ==
  /\ phase = "forking"
  /\ calls[Root].pc = "done"
  /\ badcount' = Unsorted
  /\ phase' = "counted"
  /\ UNCHANGED <<nums, arr, calls, proc>>

\* main loads the input again and calls quicksort_vanilla(shm_ptr, 0, max-1).
Reload ==
  /\ phase = "counted"
  /\ arr' = nums
  /\ calls' = [c \in {Root} |-> NewCall("vanilla", 0, N - 1, 0, Root)]
  /\ phase' = "vanilla"
  /\ UNCHANGED <<nums, proc, badcount>>

\* main counts again, removes the segment and returns.
CountVanilla ==
  /\ phase = "vanilla"
  /\ calls[Root].pc = "done"
  /\ badcount' = Unsorted
  /\ phase' = "end"
  /\ proc' = [proc EXCEPT ![Root] = [status |-> "zombie", attached |-> 0]]
  /\ UNCHANGED <<nums, arr, calls>>

Call(c) ==
  \/ Enter(c) \/ Scan(c) \/ Place(c) \/ Fork(c) \/ CallLeft(c) \/ LeftReturned(c)
  \/ CallRight(c) \/ RightReturned(c) \/ Wait(c)

Next ==
  \/ \E c \in DOMAIN calls : Call(c)
  \/ \E p \in DOMAIN proc \cap DOMAIN calls : Exit(p)
  \/ CountForked \/ Reload \/ CountVanilla

Spec == Init /\ [][Next]_vars

\* Some runnable process always gets the processor.
FairSpec == Spec /\ WF_vars(Next)

-----------------------------------------------------------------------------

Pcs == {"enter", "loop", "fork", "left", "inLeft", "wait", "right", "inRight", "done"}

\* Types of the activation records, the processes and main's state.
TypeOK ==
  /\ nums \in [Index -> Value]
  /\ arr \in [Index -> Value]
  /\ \A c \in DOMAIN calls :
       /\ c \in CallId
       /\ calls[c].kind \in {"fork", "vanilla"}
       /\ calls[c].low \in 0 .. N /\ calls[c].high \in -1 .. N - 1
       /\ calls[c].depth \in 0 .. MaxDepth
       /\ calls[c].pid \in DOMAIN proc
       /\ calls[c].pc \in Pcs
       /\ calls[c].pc = "enter" => calls[c].i = calls[c].low /\ calls[c].j = calls[c].low
       /\ calls[c].pc # "enter" /\ calls[c].low < calls[c].high =>
            /\ calls[c].i \in calls[c].low .. calls[c].j
            /\ calls[c].j \in calls[c].low .. calls[c].high
  /\ \A p \in DOMAIN proc :
       /\ proc[p].status \in {"running", "zombie", "reaped"}
       /\ proc[p].attached \in Nat
  /\ phase \in {"forking", "counted", "vanilla", "end"}
  /\ badcount \in 0 .. N

\* The cells a call may still read or write itself.
Touches(c) ==
  LET f == calls[c] IN IF f.pc \in {"enter", "loop"} THEN f.low .. f.high ELSE {}

\* The parts of a partition for which no call has been made yet.  The right
\* part stays pending for ever when the fork that should have taken it failed.
LeftPending(f) == f.pc \in {"fork", "left"}
RightPending(f) ==
  \/ f.pc = "fork"
  \/ ~ Forks(f) /\ f.pc \in {"left", "inLeft", "right"}
  \/ f.lost

Pending(c) ==
  LET f == calls[c] IN
  (IF f.pc \in {"enter", "loop"} THEN Piece(f.low, f.high) ELSE {})
    \cup (IF LeftPending(f) THEN Piece(f.low, f.i - 1) ELSE {})
    \cup (IF RightPending(f) THEN Piece(f.i + 1, f.high) ELSE {})

\* No cell is shared by two processes that have not finished with it: the
\* exchanges of concurrent partitions (quick.c:91-104) cannot interfere, with
\* no lock anywhere in the program.
NoSharedCell ==
  \A c, d \in DOMAIN calls : c # d => Touches(c) \cap Touches(d) = {}

\* Every process that is still there has a parent that will wait for it, and
\* main counts and reloads the array (quick.c:53-61) only when no other
\* process is left: although wait(NULL) may reap the child of an outer call
\* (quick.c:117), every process has reaped all its children when it exits.
NoOrphans ==
  /\ phase = "forking" =>
       \A q \in DOMAIN proc \ {Root} :
         proc[q].status # "reaped" => proc[calls[q \div 2].pid].status = "running"
  /\ phase # "forking" => \A q \in DOMAIN proc \ {Root} : proc[q].status = "reaped"

NothingLost == \A c \in DOMAIN calls : ~ calls[c].lost

\* Unless a fork has failed, a process leaves its whole segment sorted when it
\* exits, although its inner calls may return earlier than that (quick.c:109-117),
\* and main prints `Unsorted items: 0' for both sorts (quick.c:58, 74).
ExitedMeansSorted ==
  NothingLost =>
    /\ phase = "forking" =>
         \A p \in DOMAIN proc : proc[p].status # "running" =>
           \A x, y \in calls[p].low .. calls[p].high : x < y => arr[x] <= arr[y]
    /\ phase \in {"counted", "end"} => badcount = 0

\* README.md:13: 8 layers of forks make 256 processes, and never more; and
\* although the early return (quick.c:86-88) skips shmdt, no process ever holds
\* more than one attachment besides the one it inherited from main.
ResourceBound ==
  /\ Cardinality(DOMAIN proc) <= 2 ^ MaxDepth
  /\ \A p \in DOMAIN proc : proc[p].attached <= 2

\* quick.c implements the abstract parallel sort.
Work == UNION {Pending(c) : c \in DOMAIN calls}
Abstract == INSTANCE SplitSort WITH input <- nums, work <- Work
Implements == Abstract!Spec

\* The program comes to its end whatever the schedule, and also when forks
\* fail and wait(NULL) has nothing to wait for (quick.c:117).
Termination == <>(phase = "end")
================================================================================
