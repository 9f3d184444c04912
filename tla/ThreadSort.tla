------------------------------- MODULE ThreadSort -------------------------------
(***************************************************************************)
(* Threads/threadsort.c: quicksort of a global array in which both parts   *)
(* of a partition get a thread of their own while depth <= MaxDepth, and   *)
(* are sorted by plain calls from there on.                                *)
(*                                                                         *)
(* Calls are numbered like a heap: 2c for the left part of call c, 2c+1    *)
(* for the right part.  A call that is a thread finds its bounds in a      *)
(* struct thread_data that its creator allocated, and that its creator     *)
(* frees once it has joined both threads.                                  *)
(***************************************************************************)
EXTENDS Integers, FiniteSets

CONSTANTS
  N,            \* SIZE
  Value,        \* the values rand() is drawn from
  MaxDepth      \* 4 in the code: deeper calls create no threads

ASSUME NAssumption == N \in Nat
ASSUME ValueAssumption == Value \subseteq Int
ASSUME DepthAssumption == MaxDepth \in Nat

VARIABLES
  vals,         \* the numbers main has drawn
  arr,          \* the global array, sorted by the threads
  arr2,         \* its copy, sorted by quicksort_vanilla
  calls,        \* call number -> activation record of a thread or a plain call
  data,         \* call number -> live struct thread_data
  phase,        \* how far main has come
  bad_count     \* what main has last printed as `Unsorted elements'

vars == <<vals, arr, arr2, calls, data, phase, bad_count>>

Index == 0 .. N - 1
Root == 1

Parts == INSTANCE SplitSort WITH input <- vals, work <- {}
Piece(l, r) == Parts!Piece(l, r)
Exchanged(a, p, q) == Parts!Exchanged(a, p, q)

NewData(l, r, depth) == [l |-> l, r |-> r, depth |-> depth]

\* `l' and `r' are the arguments of a plain call; a thread has them in its struct.
NewCall(kind, l, r) ==
  [kind |-> kind, l |-> l, r |-> r, i |-> l, j |-> l, pivot |-> 0, pc |-> "start"]

Low(c)  == IF calls[c].kind = "threaded" THEN data[c].l ELSE calls[c].l
High(c) == IF calls[c].kind = "threaded" THEN data[c].r ELSE calls[c].r

\* threadsort.c:108, `depth > 4'.
Spawns(c) == calls[c].kind = "threaded" /\ data[c].depth <= MaxDepth

\* quicksort_vanilla works on arr2, everything else on the global array.
ArrayOf(c) == IF calls[c].kind = "vanilla" THEN arr2 ELSE arr

Store(c, a) ==
  IF calls[c].kind = "vanilla" THEN arr2' = a /\ UNCHANGED arr
                               ELSE arr' = a /\ UNCHANGED arr2

Goto(c, pc) == calls' = [calls EXCEPT ![c].pc = pc]

\* Call c goes to pc, and a new call n starts as g.
Start(c, pc, n, g) ==
  calls' = [x \in DOMAIN calls \cup {n} |->
              IF x = n THEN g ELSE IF x = c THEN [calls[c] EXCEPT !.pc = pc] ELSE calls[x]]

Unsorted(a) == Cardinality({x \in 0 .. N - 2 : a[x] > a[x + 1]})

-----------------------------------------------------------------------------

Init ==
  /\ vals \in [Index -> Value]
  /\ arr = vals
  /\ arr2 = vals
  /\ calls = [c \in {Root} |-> NewCall("threaded", 0, N - 1)]
  /\ data = [c \in {Root} |-> NewData(0, N - 1, 0)]
  /\ phase = "threaded"
  /\ bad_count = 0

\* The bounds check, the pivot and the start of the loop.
Enter(c) ==
  /\ calls[c].pc = "start"
  /\ IF High(c) <= Low(c)
       THEN Goto(c, "done")
       ELSE calls' = [calls EXCEPT ![c].pc = "loop", ![c].pivot = ArrayOf(c)[High(c)],
                                   ![c].i = Low(c), ![c].j = Low(c)]
  /\ UNCHANGED <<vals, arr, arr2, data, phase, bad_count>>

\* Mutant of Scan: j advances only on an exchange.
ScanAdvancingOnExchange(c) ==
  LET f == calls[c] IN
  /\ f.pc = "loop"
  /\ f.j < High(c)
  /\ ArrayOf(c)[f.j] < f.pivot
  /\ Store(c, Exchanged(ArrayOf(c), f.i, f.j))
  /\ calls' = [calls EXCEPT ![c].i = @ + 1, ![c].j = @ + 1]
  /\ UNCHANGED <<vals, data, phase, bad_count>>

\* One iteration of the partition loop.
Scan(c) ==
  LET f == calls[c] IN
  /\ f.pc = "loop"
  /\ f.j < High(c)
  /\ IF ArrayOf(c)[f.j] < f.pivot
       THEN /\ Store(c, Exchanged(ArrayOf(c), f.i, f.j))
            /\ calls' = [calls EXCEPT ![c].i = @ + 1, ![c].j = @ + 1]
       ELSE /\ calls' = [calls EXCEPT ![c].j = @ + 1]
            /\ UNCHANGED <<arr, arr2>>
  /\ UNCHANGED <<vals, data, phase, bad_count>>

\* The pivot goes between the two parts.
Place(c) ==
  /\ calls[c].pc = "loop"
  /\ calls[c].j >= High(c)
  /\ Store(c, Exchanged(ArrayOf(c), calls[c].i, High(c)))
  /\ Goto(c, IF Spawns(c) THEN "allocate" ELSE "left")
  /\ UNCHANGED <<vals, data, phase, bad_count>>

\* Call c allocates the structs of its left and its right part.
WithData(c, left, right) ==
  [x \in DOMAIN data \cup {2 * c, 2 * c + 1} |->
     IF x = 2 * c THEN left ELSE IF x = 2 * c + 1 THEN right ELSE data[x]]

\* Mutant of Allocate: both parts keep the pivot.
AllocateOverlapping(c) ==
  LET depth == data[c].depth + 1 IN
  /\ calls[c].pc = "allocate"
  /\ data' = WithData(c, NewData(Low(c), calls[c].i, depth), NewData(calls[c].i, High(c), depth))
  /\ Goto(c, "createLeft")
  /\ UNCHANGED <<vals, arr, arr2, phase, bad_count>>

\* The two structs of the threads to come.
Allocate(c) ==
  LET depth == data[c].depth + 1 IN
  /\ calls[c].pc = "allocate"
  /\ data' = WithData(c, NewData(Low(c), calls[c].i - 1, depth), NewData(calls[c].i + 1, High(c), depth))
  /\ Goto(c, "createLeft")
  /\ UNCHANGED <<vals, arr, arr2, phase, bad_count>>

CreateLeft(c) ==
  /\ calls[c].pc = "createLeft"
  /\ Start(c, "createRight", 2 * c, NewCall("threaded", 0, 0))
  /\ UNCHANGED <<vals, arr, arr2, data, phase, bad_count>>

CreateRight(c) ==
  /\ calls[c].pc = "createRight"
  /\ Start(c, "joinLeft", 2 * c + 1, NewCall("threaded", 0, 0))
  /\ UNCHANGED <<vals, arr, arr2, data, phase, bad_count>>

JoinLeft(c) ==
  /\ calls[c].pc = "joinLeft"
  /\ calls[2 * c].pc = "done"
  /\ Goto(c, "joinRight")
  /\ UNCHANGED <<vals, arr, arr2, data, phase, bad_count>>

\* Mutant of JoinRight: the left thread is joined a second time, the right one never.
JoinLeftTwice(c) ==
  /\ calls[c].pc = "joinRight"
  /\ Goto(c, "done")
  /\ UNCHANGED <<vals, arr, arr2, data, phase, bad_count>>

\* Mutant of JoinRight: the structs are not freed.
JoinRightNoFree(c) ==
  /\ calls[c].pc = "joinRight"
  /\ calls[2 * c + 1].pc = "done"
  /\ Goto(c, "done")
  /\ UNCHANGED <<vals, arr, arr2, data, phase, bad_count>>

\* The second join; then both structs are freed and the thread exits.
JoinRight(c) ==
  /\ calls[c].pc = "joinRight"
  /\ calls[2 * c + 1].pc = "done"
  /\ data' = [x \in DOMAIN data \ {2 * c, 2 * c + 1} |-> data[x]]
  /\ Goto(c, "done")
  /\ UNCHANGED <<vals, arr, arr2, phase, bad_count>>

\* Plain calls for the two parts, from the last threads on and in quicksort_vanilla.
PlainKind(c) == IF calls[c].kind = "vanilla" THEN "vanilla" ELSE "global"

CallLeft(c) ==
  /\ calls[c].pc = "left"
  /\ Start(c, "inLeft", 2 * c, NewCall(PlainKind(c), Low(c), calls[c].i - 1))
  /\ UNCHANGED <<vals, arr, arr2, data, phase, bad_count>>

LeftReturned(c) ==
  /\ calls[c].pc = "inLeft"
  /\ calls[2 * c].pc = "done"
  /\ Start(c, "inRight", 2 * c + 1, NewCall(PlainKind(c), calls[c].i + 1, High(c)))
  /\ UNCHANGED <<vals, arr, arr2, data, phase, bad_count>>

RightReturned(c) ==
  /\ calls[c].pc = "inRight"
  /\ calls[2 * c + 1].pc = "done"
  /\ Goto(c, "done")
  /\ UNCHANGED <<vals, arr, arr2, data, phase, bad_count>>

\* main: the join of the first thread, the count, and quicksort_vanilla.
MainJoin ==
  /\ phase = "threaded"
  /\ calls[Root].pc = "done"
  /\ bad_count' = Unsorted(arr)
  /\ calls' = [c \in {Root} |-> NewCall("vanilla", 0, N - 1)]
  /\ phase' = "vanilla"
  /\ UNCHANGED <<vals, arr, arr2, data>>

\* main counts again and frees what it has allocated.
MainEnd ==
  /\ phase = "vanilla"
  /\ calls[Root].pc = "done"
  /\ bad_count' = Unsorted(arr2)
  /\ data' = [x \in DOMAIN data \ {Root} |-> data[x]]
  /\ phase' = "end"
  /\ UNCHANGED <<vals, arr, arr2, calls>>

Call(c) ==
  \/ Enter(c) \/ Scan(c) \/ Place(c)
  \/ Allocate(c) \/ CreateLeft(c) \/ CreateRight(c) \/ JoinLeft(c) \/ JoinRight(c)
  \/ CallLeft(c) \/ LeftReturned(c) \/ RightReturned(c)

Next == (\E c \in DOMAIN calls : Call(c)) \/ MainJoin \/ MainEnd

Spec == Init /\ [][Next]_vars

\* Some thread that can run always gets the processor.
FairSpec == Spec /\ WF_vars(Next)

-----------------------------------------------------------------------------

Pcs == {"start", "loop", "allocate", "createLeft", "createRight", "joinLeft", "joinRight",
        "left", "inLeft", "inRight", "done"}

Running(c) == calls[c].pc # "done"
Thread(c) == calls[c].kind = "threaded"

\* Types of the arrays, the activation records and the structs.
TypeOK ==
  /\ {vals, arr, arr2} \subseteq [Index -> Value]
  /\ \A c \in DOMAIN calls :
       /\ c \in Nat \ {0}
       /\ calls[c].kind \in {"threaded", "global", "vanilla"}
       /\ calls[c].pc \in Pcs
       /\ calls[c].pc = "loop" =>
            Low(c) <= calls[c].i /\ calls[c].i <= calls[c].j /\ calls[c].j <= High(c)
  /\ \A c \in DOMAIN data :
       /\ data[c].l \in 0 .. N
       /\ data[c].r \in -1 .. N - 1
       /\ data[c].depth \in 0 .. MaxDepth + 1
  /\ phase \in {"threaded", "vanilla", "end"}
  /\ bad_count \in 0 .. N

\* The cells of the global array that a call may still read or write itself.
Touches(c) ==
  IF calls[c].kind # "vanilla" /\ calls[c].pc \in {"start", "loop"} THEN Low(c) .. High(c) ELSE {}

\* No two threads are ever at work on the same cell: the unlocked exchanges
\* on the global array (threadsort.c:95-107, 146-158) are free of data races.
NoSharedCell ==
  \A c, d \in DOMAIN calls : c # d => Touches(c) \cap Touches(d) = {}

\* A thread dereferences its struct until it exits (threadsort.c:91-122),
\* and finds it allocated: nobody frees it before.  When no thread is left
\* only the struct of main is, and at the end of main none.
DataLifetime ==
  /\ \A c \in DOMAIN calls : Thread(c) /\ Running(c) => c \in DOMAIN data
  /\ phase # "threaded" => DOMAIN data \subseteq {Root}
  /\ phase = "end" => data = <<>>

\* A thread has sorted the whole segment of its struct when it exits, so its
\* creator may rely on it once it has joined it (threadsort.c:125-130), and main
\* prints `Unsorted elements 0' for both sorts (threadsort.c:50-55, 62-66).
ExitedMeansSorted ==
  /\ \A c \in DOMAIN calls :
       Thread(c) /\ ~ Running(c) /\ c \in DOMAIN data =>
         \A x, y \in data[c].l .. data[c].r : x < y => arr[x] <= arr[y]
  /\ bad_count = 0

\* The parts of a partition that no call has been made for yet.
Pending(c) ==
  CASE calls[c].pc \in {"start", "loop"} -> Piece(Low(c), High(c))
    [] calls[c].pc \in {"allocate", "createLeft", "left"} ->
         Piece(Low(c), calls[c].i - 1) \cup Piece(calls[c].i + 1, High(c))
    [] calls[c].pc \in {"createRight", "inLeft"} -> Piece(calls[c].i + 1, High(c))
    [] OTHER -> {}

Work(kinds) == UNION {Pending(c) : c \in {d \in DOMAIN calls : calls[d].kind \in kinds}}

\* Both sorts implement the abstract parallel sort, each on its own array.
Threaded ==
  INSTANCE SplitSort WITH input <- vals, work <- Work({"threaded", "global"})
Vanilla ==
  INSTANCE SplitSort WITH input <- vals, arr <- arr2,
                          work <- IF phase = "threaded" THEN Piece(0, N - 1) ELSE Work({"vanilla"})
Implements == Threaded!Spec /\ Vanilla!Spec

\* All threads are joined and the program comes to its end.
Termination == <>(phase = "end")
================================================================================
