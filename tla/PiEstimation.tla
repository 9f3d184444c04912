------------------------------- MODULE PiEstimation -------------------------------
(***************************************************************************)
(* Threads/monte.c and Threads/integ.c: threads add up their shares of a   *)
(* sum, of points or of rectangles, each in a local variable first and     *)
(* then, under a mutex, in the global one.  What an item contributes is a  *)
(* number; the doubles of integ.c are exact here.                          *)
(***************************************************************************)
EXTENDS Integers, FiniteSets, Functions

CONSTANTS
  THREADS,      \* the number of threads (100 and 30 in the code)
  POINTS_PER_THREAD,  \* of monte.c
  size,         \* the rectangles of integ.c, as the user has asked for
  Contribution, \* what an item can contribute
  Garbage,      \* what the unset `area' of a thread of integ.c may hold
  None          \* no thread

VARIABLES
  program,      \* "monte" or "integ"
  item,         \* item -> its contribution
  pc,           \* thread -> where it is
  next,         \* thread -> the loop variable i
  local,        \* thread -> in_count or area
  unset,        \* thread -> what local held before anything was assigned to it
  seen,         \* thread -> sum as it has read it
  sum, lock,
  created, joined,   \* how far main is
  freed         \* the threads whose struct thread_data is freed

vars == <<program, item, pc, next, local, unset, seen, sum, lock, created, joined, freed>>

Thread == 0 .. THREADS - 1
Item == 0 .. (IF program = "monte" THEN THREADS * POINTS_PER_THREAD ELSE size) - 1

Assumptions ==
  /\ THREADS \in Nat \ {0} /\ POINTS_PER_THREAD \in Nat /\ size \in Int
  /\ Contribution \subseteq Int /\ Garbage \subseteq Int
  /\ None \notin Thread

\* The first item of thread t, the step to the next, and where its share ends.
First(t) == IF program = "monte" THEN t * POINTS_PER_THREAD ELSE t
Step == IF program = "monte" THEN 1 ELSE THREADS
End(t) == IF program = "monte" THEN First(t) + POINTS_PER_THREAD ELSE size

Init ==
  /\ program \in {"monte", "integ"}
  /\ item \in [Item -> Contribution]
  /\ pc = [t \in Thread |-> "none"]
  /\ next = [t \in Thread |-> 0]
  /\ unset \in IF program = "monte" THEN [Thread -> {0}] ELSE [Thread -> Garbage]
  /\ local = unset
  /\ seen = [t \in Thread |-> 0]
  /\ sum = 0
  /\ lock = None
  /\ created = 0 /\ joined = 0
  /\ freed = {}

At(t, here, there) == pc[t] = here /\ pc' = [pc EXCEPT ![t] = there]

\* main starts the next thread; those before it are running.
Create(t) ==
  /\ t = created
  /\ At(t, "none", "add")
  /\ created' = created + 1
  /\ next' = [next EXCEPT ![t] = First(t)]
  /\ UNCHANGED <<program, item, local, unset, seen, sum, lock, joined, freed>>

\* One iteration of the loop of monte or integ.
AddItem(t) ==
  /\ next[t] < End(t)
  /\ At(t, "add", "add")
  /\ local' = [local EXCEPT ![t] = @ + item[next[t]]]
  /\ next' = [next EXCEPT ![t] = @ + Step]
  /\ UNCHANGED <<program, item, unset, seen, sum, lock, created, joined, freed>>

\* Mutant of Lock: the mutex is taken although another thread holds it.
LockAnyway(t) ==
  /\ next[t] >= End(t)
  /\ At(t, "add", "read")
  /\ lock' = t
  /\ UNCHANGED <<program, item, next, local, unset, seen, sum, created, joined, freed>>

Lock(t) ==
  /\ next[t] >= End(t)
  /\ lock = None
  /\ At(t, "add", "read")
  /\ lock' = t
  /\ UNCHANGED <<program, item, next, local, unset, seen, sum, created, joined, freed>>

\* The statement sum += ... reads sum, and then writes it.
ReadSum(t) ==
  /\ At(t, "read", "write")
  /\ seen' = [seen EXCEPT ![t] = sum]
  /\ UNCHANGED <<program, item, next, local, unset, sum, lock, created, joined, freed>>

WriteSum(t) ==
  /\ At(t, "write", "unlock")
  /\ sum' = seen[t] + local[t]
  /\ UNCHANGED <<program, item, next, local, unset, seen, lock, created, joined, freed>>

\* Mutant of Unlock: the mutex is kept.
UnlockNothing(t) ==
  /\ At(t, "unlock", "exit")
  /\ UNCHANGED <<program, item, next, local, unset, seen, sum, lock, created, joined, freed>>

Unlock(t) ==
  /\ At(t, "unlock", "exit")
  /\ lock' = None
  /\ UNCHANGED <<program, item, next, local, unset, seen, sum, created, joined, freed>>

\* main joins the threads in the order of their creation; monte.c frees the
\* struct of each.
Join(t) ==
  /\ created = THREADS
  /\ t = joined
  /\ At(t, "exit", "joined")
  /\ joined' = joined + 1
  /\ freed' = IF program = "monte" THEN freed \cup {t} ELSE freed
  /\ UNCHANGED <<program, item, next, local, unset, seen, sum, lock, created>>

Next ==
  \E t \in Thread :
    \/ Create(t) \/ Join(t)
    \/ AddItem(t) \/ Lock(t) \/ ReadSum(t) \/ WriteSum(t) \/ Unlock(t)

Spec == Init /\ [][Next]_vars

-----------------------------------------------------------------------------

\* As long as the threads of integ.c find 0 in `area', which is never
\* initialised, sum holds every item exactly once when main prints
\* (integ.c:46-62; monte.c:64-77): no update is lost, no rectangle is left
\* out or counted by two threads whatever the number of threads.  And main
\* frees no struct that its thread still reads (monte.c:48).
SumOfShares ==
  /\ joined = THREADS /\ (\A t \in Thread : unset[t] = 0) => sum = SumFunction(item)
  /\ \A t \in freed : pc[t] = "joined"

\* README.md:34: both programs calculate pi, so main prints the sum of all
\* points or rectangles, whatever memory held before.
CalculatesPi == joined = THREADS => sum = SumFunction(item)

\* Every thread gets the mutex and ends, so that main prints, as long as the
\* system goes on running some thread that can run.
Prints == <>(joined = THREADS)
================================================================================
