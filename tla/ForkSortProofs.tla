------------------------------ MODULE ForkSortProofs ------------------------------
(***************************************************************************)
(* Proofs about ForkSort, for every number of elements, every set of       *)
(* values, every depth of forks, and with and without failing forks: no    *)
(* two processes ever work on the same cell, no process outlives the one   *)
(* that waits for it, the program implements the abstract parallel sort,   *)
(* what a process was given is sorted when it exits, and there are never   *)
(* more than 2^MaxDepth processes.                                         *)
(*                                                                         *)
(* The inductive invariant has three parts.  The shape of the calls and    *)
(* processes; the ownership of the cells, as in ThreadSortProofs: no cell  *)
(* has two owners, and a placed pivot has none; and a count: a process has *)
(* never more children to reap than calls that are still to wait.  The     *)
(* limits on processes and attachments are an invariant of their own.      *)
(***************************************************************************)
EXTENDS ForkSort, FiniteSetTheorems, WellFoundedInduction, TLAPS

Frame ==
  [kind : {"fork", "vanilla"}, low : Int, high : Int, depth : Int, pid : Int,
   i : Int, j : Int, pivot : Int, pc : Pcs, lost : BOOLEAN]

Process == [status : {"running", "zombie", "reaped"}, attached : Int]

TypesOK ==
  /\ nums \in [Index -> Value] /\ arr \in [Index -> Value]
  /\ calls \in [DOMAIN calls -> Frame]
  /\ DOMAIN calls \subseteq Nat \ {0} /\ DOMAIN proc \subseteq Nat \ {0}
  /\ IsFiniteSet(DOMAIN calls) /\ IsFiniteSet(DOMAIN proc)
  /\ proc \in [DOMAIN proc -> Process]
  /\ phase \in {"forking", "counted", "vanilla", "end"}

Running(c) == calls[c].pc # "done"
Forking(c) == Forks(calls[c])

\* Call c has partitioned its segment.
Parted(c) == calls[c].low < calls[c].high /\ calls[c].pc \notin {"enter", "loop"}

CallOK(c) ==
  /\ 0 <= calls[c].low /\ calls[c].high <= N - 1
  /\ calls[c].pc = "enter" => calls[c].i = calls[c].low /\ calls[c].j = calls[c].low
  /\ calls[c].pc = "loop" =>
       /\ calls[c].low <= calls[c].i /\ calls[c].i <= calls[c].j /\ calls[c].j <= calls[c].high
       /\ calls[c].low < calls[c].high
  /\ calls[c].pc \notin {"enter", "loop", "done"} => Parted(c)
  /\ Parted(c) => calls[c].low <= calls[c].i /\ calls[c].i <= calls[c].high
  /\ calls[c].pc \in {"fork", "wait"} => Forking(c)
  /\ calls[c].pc \in {"right", "inRight"} => ~ Forking(c)
  /\ calls[c].lost => Forking(c) /\ Parted(c) /\ calls[c].pc # "fork"

\* Call c has started its left part, its right part.
LeftStarted(c) == Parted(c) /\ calls[c].pc \notin {"fork", "left"}
RightStarted(c) ==
  /\ Parted(c)
  /\ IF Forking(c) THEN calls[c].pc # "fork" /\ ~ calls[c].lost ELSE calls[c].pc \in {"inRight", "done"}

\* What a call has given to the parts it has started, and whether it waits for them.
LeftGiven(c) ==
  LeftStarted(c) =>
    /\ 2 * c \in DOMAIN calls
    /\ calls[2 * c].low = calls[c].low /\ calls[2 * c].high = calls[c].i - 1
    /\ calls[2 * c].pid = calls[c].pid
    /\ calls[c].pc # "inLeft" => ~ Running(2 * c)

RightGiven(c) ==
  RightStarted(c) =>
    /\ 2 * c + 1 \in DOMAIN calls
    /\ calls[2 * c + 1].low = calls[c].i + 1 /\ calls[2 * c + 1].high = calls[c].high
    /\ IF Forking(c) THEN /\ calls[2 * c + 1].pid = 2 * c + 1
                          /\ 2 * c + 1 \in DOMAIN proc
                     ELSE /\ calls[2 * c + 1].pid = calls[c].pid
                          /\ calls[c].pc # "inRight" => ~ Running(2 * c + 1)

\* Call c has started d.
IsParent(c, d) == (LeftStarted(c) /\ d = 2 * c) \/ (RightStarted(c) /\ d = 2 * c + 1)

HasParent(d) == d = Root \/ \E c \in DOMAIN calls : IsParent(c, d)

\* The process of a call is one that there is, and runs an earlier call first.
PidOK(c) == calls[c].pid \in DOMAIN proc /\ calls[c].pid \in DOMAIN calls /\ calls[c].pid <= c

\* A process, until main starts the second sort: its first call, and the call that forked it.
ProcOK(q) ==
  /\ q \in DOMAIN calls /\ calls[q].pid = q
  /\ proc[q].status # "running" => ~ Running(q)
  /\ q = Root \/ \E c \in DOMAIN calls : q = 2 * c + 1 /\ RightStarted(c) /\ Forking(c)

PhaseOK ==
  /\ Root \in DOMAIN calls /\ Root \in DOMAIN proc
  /\ calls[Root].low = 0 /\ calls[Root].high = N - 1 /\ calls[Root].pid = Root
  /\ phase \in {"vanilla", "end"} => \A c \in DOMAIN calls : calls[c].kind = "vanilla" /\ calls[c].pid = Root
  /\ phase \in {"counted", "end"} => \A c \in DOMAIN calls : ~ Running(c)
  /\ phase # "forking" => \A q \in DOMAIN proc \ {Root} : proc[q].status = "reaped"
  /\ phase \in {"forking", "counted"} => \A q \in DOMAIN proc : ProcOK(q)
  /\ phase # "end" => proc[Root].status = "running"

TreeInv ==
  \A c \in DOMAIN calls : CallOK(c) /\ LeftGiven(c) /\ RightGiven(c) /\ HasParent(c) /\ PidOK(c)

Shape == TypesOK /\ PhaseOK /\ TreeInv

\* The cells that call c may still change, itself or through calls to come.
Owns(c, x) ==
  \/ calls[c].pc \in {"enter", "loop"} /\ calls[c].low <= x /\ x <= calls[c].high
  \/ LeftPending(calls[c]) /\ calls[c].low <= x /\ x < calls[c].i
  \/ RightPending(calls[c]) /\ calls[c].i < x /\ x <= calls[c].high

Owned(x) == \E d \in DOMAIN calls : Owns(d, x)

Apart == \A c, d \in DOMAIN calls : c # d => \A x \in Int : ~ (Owns(c, x) /\ Owns(d, x))

\* Nobody owns a pivot in its place, nor the only cell of a call that is done.
Settled(c) ==
  /\ Parted(c) => ~ Owned(calls[c].i)
  /\ ~ Running(c) /\ ~ Parted(c) => \A x \in Int : calls[c].low <= x /\ x <= calls[c].high => ~ Owned(x)

Safety == Apart /\ \A c \in DOMAIN calls : Settled(c)

\* The invariant of the partition loop.
LoopInv(c) ==
  calls[c].pc = "loop" =>
    /\ calls[c].pivot = arr[calls[c].high]
    /\ \A x \in Int : calls[c].low <= x /\ x < calls[c].i => arr[x] <= calls[c].pivot
    /\ \A x \in Int : calls[c].i <= x /\ x < calls[c].j => calls[c].pivot <= arr[x]

Loops == \A c \in DOMAIN calls : LoopInv(c)

\* The calls of process p that are still to wait for a child, if there is one.
ToWait(p) ==
  {c \in DOMAIN calls : calls[c].pid = p /\ Forking(c) /\ calls[c].pc \in {"left", "inLeft", "wait"}}

Counted ==
  phase = "forking" => \A p \in DOMAIN proc : Cardinality(Unreaped(p)) <= Cardinality(ToWait(p))

-----------------------------------------------------------------------------

\* A call that has not started a part has no call below it there.
LEMMA Fresh ==
  ASSUME Shape, NEW c \in DOMAIN calls
  PROVE  /\ ~ LeftStarted(c) => 2 * c \notin DOMAIN calls
         /\ ~ RightStarted(c) => 2 * c + 1 \notin DOMAIN calls
<1>1. DOMAIN calls \subseteq Nat \ {0}
  BY DEF Shape, TypesOK
<1>2. \A d \in DOMAIN calls : HasParent(d)
  BY DEF Shape, TreeInv
<1>3. ASSUME NEW d \in DOMAIN calls, d # Root PROVE \E e \in DOMAIN calls : IsParent(e, d)
  BY <1>2, <1>3 DEF HasParent
<1>4. ASSUME 2 * c \in DOMAIN calls PROVE LeftStarted(c)
  <2>1. PICK e \in DOMAIN calls : IsParent(e, 2 * c)
    BY <1>1, <1>3, <1>4 DEF Root
  <2>2. e = c
    BY <1>1, <2>1 DEF IsParent
  <2> QED
    BY <1>1, <2>1, <2>2 DEF IsParent
<1>5. ASSUME 2 * c + 1 \in DOMAIN calls PROVE RightStarted(c)
  <2>1. PICK e \in DOMAIN calls : IsParent(e, 2 * c + 1)
    BY <1>1, <1>3, <1>5 DEF Root
  <2>2. e = c
    BY <1>1, <2>1 DEF IsParent
  <2> QED
    BY <1>1, <2>1, <2>2 DEF IsParent
<1> QED
  BY <1>4, <1>5

\* The record of call c afterwards: what it was called with stays.
Becomes(c, i, j, pivot, pc, lost) ==
  /\ calls'[c].kind = calls[c].kind /\ calls'[c].low = calls[c].low /\ calls'[c].high = calls[c].high
  /\ calls'[c].depth = calls[c].depth /\ calls'[c].pid = calls[c].pid
  /\ calls'[c].i = i /\ calls'[c].j = j /\ calls'[c].pivot = pivot /\ calls'[c].pc = pc
  /\ calls'[c].lost = lost

\* Call c only gets to pc.
Reaches(c, pc) == Becomes(c, calls[c].i, calls[c].j, calls[c].pivot, pc, calls[c].lost)

\* A step of call c that starts the calls in new.
Steps(c, new) ==
  /\ DOMAIN calls' = DOMAIN calls \cup new
  /\ \A d \in DOMAIN calls : d # c => calls'[d] = calls[d]

\* No process starts or ends.
SameProcs == DOMAIN proc' = DOMAIN proc /\ \A p \in DOMAIN proc : proc'[p].status = proc[p].status

\* Calls have integer bounds in the array.
LEMMA Bounds ==
  ASSUME Shape, NEW c \in DOMAIN calls
  PROVE  /\ calls[c] \in Frame /\ c \in Nat \ {0} /\ CallOK(c)
         /\ calls[c].low \in Int /\ calls[c].high \in Int /\ 0 <= calls[c].low /\ calls[c].high <= N - 1
         /\ calls[c].i \in Int /\ calls[c].j \in Int /\ calls[c].pivot \in Int
         /\ calls[c].lost \in BOOLEAN /\ calls[c].pc \in Pcs
BY DEF Shape, TypesOK, TreeInv, CallOK, Frame

\* The effect of each action, without EXCEPT.
EnterEffect(c) ==
  /\ Steps(c, {}) /\ SameProcs /\ UNCHANGED arr /\ calls[c].pc = "enter"
  /\ \/ calls[c].high <= calls[c].low /\ Reaches(c, "done")
     \/ /\ calls[c].low < calls[c].high
        /\ Becomes(c, calls[c].i, calls[c].j, arr[calls[c].high], "loop", calls[c].lost)

ScanEffect(c) ==
  LET f == calls[c] IN
  /\ Steps(c, {}) /\ SameProcs /\ f.pc = "loop" /\ f.j < f.high
  /\ \/ /\ arr[f.j] < f.pivot
        /\ Becomes(c, f.i + 1, f.j + 1, f.pivot, "loop", f.lost)
        /\ arr' = Exchanged(arr, f.i, f.j)
     \/ /\ f.pivot <= arr[f.j]
        /\ Becomes(c, f.i, f.j + 1, f.pivot, "loop", f.lost)
        /\ UNCHANGED arr

PlaceEffect(c) ==
  /\ Steps(c, {}) /\ SameProcs /\ calls[c].pc = "loop" /\ calls[c].high <= calls[c].j
  /\ arr' = Exchanged(arr, calls[c].i, calls[c].j)
  /\ \/ Forking(c) /\ Reaches(c, "fork")
     \/ ~ Forking(c) /\ Reaches(c, "left")

\* Call n starts, for a part of call c.
Starts(n, c, low, high, pid) ==
  /\ n \notin DOMAIN calls
  /\ IF Forking(c) THEN calls'[n].kind = "fork" /\ calls'[n].depth = calls[c].depth + 1
                   ELSE calls'[n].kind = "vanilla" /\ calls'[n].depth = calls[c].depth
  /\ calls'[n].low = low /\ calls'[n].high = high /\ calls'[n].i = low /\ calls'[n].j = low
  /\ calls'[n].pid = pid /\ calls'[n].pc = "enter" /\ calls'[n].lost = FALSE

ForkEffect(c) ==
  LET n == 2 * c + 1 IN
  /\ Steps(c, {n}) /\ UNCHANGED arr /\ calls[c].pc = "fork" /\ Reaches(c, "left")
  /\ Starts(n, c, calls[c].i + 1, calls[c].high, n)
  /\ n \notin DOMAIN proc /\ DOMAIN proc' = DOMAIN proc \cup {n} /\ proc'[n].status = "running"
  /\ \A p \in DOMAIN proc : proc'[p].status = proc[p].status

LostEffect(c) ==
  /\ Steps(c, {}) /\ SameProcs /\ UNCHANGED arr /\ calls[c].pc = "fork"
  /\ Becomes(c, calls[c].i, calls[c].j, calls[c].pivot, "left", TRUE)

LeftEffect(c) ==
  /\ Steps(c, {2 * c}) /\ SameProcs /\ UNCHANGED arr /\ calls[c].pc = "left" /\ Reaches(c, "inLeft")
  /\ Starts(2 * c, c, calls[c].low, calls[c].i - 1, calls[c].pid)

LeftDoneEffect(c) ==
  /\ Steps(c, {}) /\ SameProcs /\ UNCHANGED arr /\ calls[c].pc = "inLeft" /\ calls[2 * c].pc = "done"
  /\ \/ Forking(c) /\ Reaches(c, "wait")
     \/ ~ Forking(c) /\ Reaches(c, "right")

RightEffect(c) ==
  /\ Steps(c, {2 * c + 1}) /\ SameProcs /\ UNCHANGED arr /\ calls[c].pc = "right" /\ Reaches(c, "inRight")
  /\ Starts(2 * c + 1, c, calls[c].i + 1, calls[c].high, calls[c].pid)

RightDoneEffect(c) ==
  /\ Steps(c, {}) /\ SameProcs /\ UNCHANGED arr /\ calls[c].pc = "inRight" /\ calls[2 * c + 1].pc = "done"
  /\ Reaches(c, "done")

\* Process q is reaped.
Reaps(q) ==
  /\ q \in DOMAIN proc /\ proc[q].status = "zombie"
  /\ DOMAIN proc' = DOMAIN proc /\ proc'[q].status = "reaped"
  /\ \A p \in DOMAIN proc \ {q} : proc'[p].status = proc[p].status

WaitEffect(c) ==
  /\ Steps(c, {}) /\ UNCHANGED arr /\ calls[c].pc = "wait" /\ Reaches(c, "done")
  /\ \/ Unreaped(calls[c].pid) = {} /\ SameProcs
     \/ \E q \in Unreaped(calls[c].pid) : Reaps(q)

CallEffect(c) ==
  \/ EnterEffect(c) \/ ScanEffect(c) \/ PlaceEffect(c) \/ ForkEffect(c) \/ LostEffect(c)
  \/ LeftEffect(c) \/ LeftDoneEffect(c) \/ RightEffect(c) \/ RightDoneEffect(c) \/ WaitEffect(c)

\* The elements of the segment are integers.
LEMMA Elements == ASSUME Shape PROVE arr \in [Index -> Int] /\ nums \in [Index -> Value]
BY ValueAssumption DEF Shape, TypesOK

\* The first call of a process is numbered like its process: a fork makes a new one.
LEMMA FreshProcess ==
  ASSUME Shape, NEW c \in DOMAIN calls, calls[c].pc = "fork"
  PROVE  2 * c + 1 \notin DOMAIN proc /\ 2 * c + 1 \notin DOMAIN calls /\ phase = "forking" /\ Forking(c)
<1>1. 2 * c + 1 \notin DOMAIN calls
  BY Fresh DEF RightStarted
<1>2. Forking(c) /\ Running(c)
  BY Bounds DEF CallOK, Running
<1>3. phase = "forking"
  BY <1>2 DEF Shape, TypesOK, PhaseOK, Forking, Forks
<1> QED
  BY <1>1, <1>2, <1>3 DEF Shape, PhaseOK, ProcOK

\* The start of a call.
LEMMA Started ==
  ASSUME Shape, NEW c \in DOMAIN calls, NEW n \in Nat, n \notin DOMAIN calls, NEW pc \in Pcs,
         NEW low \in Int, NEW high \in Int, NEW pid \in Nat,
         calls' = WithCall(c, [calls[c] EXCEPT !.pc = pc], n, Child(calls[c], <<low, high>>, pid))
  PROVE  /\ calls' \in [DOMAIN calls' -> Frame] /\ Steps(c, {n}) /\ Reaches(c, pc)
         /\ Starts(n, c, low, high, pid)
<1>1. calls[c] \in Frame /\ calls \in [DOMAIN calls -> Frame]
  BY Bounds DEF Shape, TypesOK
<1> DEFINE g == Child(calls[c], <<low, high>>, pid)
           f == [calls[c] EXCEPT !.pc = pc]
<1>2. /\ g \in Frame
      /\ IF Forking(c) THEN g.kind = "fork" /\ g.depth = calls[c].depth + 1
                       ELSE g.kind = "vanilla" /\ g.depth = calls[c].depth
      /\ g.low = low /\ g.high = high /\ g.i = low /\ g.j = low
      /\ g.pid = pid /\ g.pc = "enter" /\ g.lost = FALSE
  BY <1>1 DEF Child, NewCall, Forking, Frame, Pcs
<1>3. f \in Frame /\ f = [calls[c] EXCEPT !.pc = pc]
  BY <1>1 DEF Frame
<1> HIDE DEF g
<1>4. calls' = [x \in DOMAIN calls \cup {n} |-> IF x = n THEN g ELSE IF x = c THEN f ELSE calls[x]]
  BY DEF WithCall, g
<1>5. /\ f.kind = calls[c].kind /\ f.low = calls[c].low /\ f.high = calls[c].high
      /\ f.depth = calls[c].depth /\ f.pid = calls[c].pid /\ f.i = calls[c].i /\ f.j = calls[c].j
      /\ f.pivot = calls[c].pivot /\ f.pc = pc /\ f.lost = calls[c].lost
  BY <1>1 DEF Frame
<1> HIDE DEF f
<1>6. calls' \in [DOMAIN calls' -> Frame]
  BY <1>1, <1>2, <1>3, <1>4
<1>7. calls'[c] = f /\ calls'[n] = g /\ Steps(c, {n})
  BY <1>4 DEF Steps
<1> QED
  BY <1>2, <1>5, <1>6, <1>7 DEF Reaches, Becomes, Starts

\* Each step of a call has its effect, and keeps the records of their type.
LEMMA PartitionEffects ==
  ASSUME Shape, NEW c \in DOMAIN calls
  PROVE  /\ Enter(c) => EnterEffect(c) /\ calls' \in [DOMAIN calls' -> Frame]
         /\ Scan(c) => ScanEffect(c) /\ calls' \in [DOMAIN calls' -> Frame]
         /\ Place(c) => PlaceEffect(c) /\ calls' \in [DOMAIN calls' -> Frame]
<1> DEFINE f == calls[c]
<1>0. /\ calls \in [DOMAIN calls -> Frame] /\ f \in Frame /\ CallOK(c) /\ arr \in [Index -> Int]
      /\ f.low \in Int /\ f.high \in Int /\ 0 <= f.low /\ f.high <= N - 1
      /\ f.i \in Int /\ f.j \in Int /\ f.pivot \in Int /\ f.lost \in BOOLEAN
  BY Bounds, Elements DEF Shape, TypesOK
<1>a. ASSUME NEW i \in Int, NEW j \in Int, calls' = [calls EXCEPT ![c].i = i, ![c].j = j]
      PROVE  /\ calls' \in [DOMAIN calls' -> Frame] /\ Steps(c, {})
             /\ Becomes(c, i, j, calls[c].pivot, calls[c].pc, calls[c].lost)
  BY <1>0, <1>a DEF Steps, Becomes, Frame, Pcs
<1>1. ASSUME Enter(c) PROVE EnterEffect(c) /\ calls' \in [DOMAIN calls' -> Frame]
  <2>0. SameProcs /\ UNCHANGED arr /\ f.pc = "enter"
    BY <1>1 DEF Enter, SameProcs
  <2>1. CASE f.low >= f.high /\ calls' = [calls EXCEPT ![c].pc = "done"]
    <3>1. calls' \in [DOMAIN calls' -> Frame] /\ Steps(c, {}) /\ Reaches(c, "done")
      BY <1>0, <2>1 DEF Frame, Pcs, Steps, Reaches, Becomes
    <3> QED
      BY <1>0, <2>0, <2>1, <3>1 DEF EnterEffect
  <2>2. CASE f.low < f.high /\ calls' = [calls EXCEPT ![c].pc = "loop", ![c].pivot = arr[f.high]]
    <3>1. arr[f.high] \in Int
      BY <1>0, <2>2, NAssumption DEF Index
    <3>2. /\ calls' \in [DOMAIN calls' -> Frame] /\ Steps(c, {})
          /\ Becomes(c, f.i, f.j, arr[f.high], "loop", f.lost)
      BY <1>0, <2>2, <3>1 DEF Frame, Pcs, Steps, Becomes
    <3> QED
      BY <2>0, <2>2, <3>2 DEF EnterEffect
  <2> QED
    BY <1>1, <2>1, <2>2 DEF Enter
<1>2. ASSUME Scan(c) PROVE ScanEffect(c) /\ calls' \in [DOMAIN calls' -> Frame]
  <2>0. SameProcs /\ f.pc = "loop" /\ f.j < f.high /\ arr[f.j] \in Int
    BY <1>0, <1>2, NAssumption DEF Scan, SameProcs, CallOK, Index
  <2>1. CASE arr[f.j] < f.pivot
    <3>1. calls' = [calls EXCEPT ![c].i = f.i + 1, ![c].j = f.j + 1] /\ arr' = Exchanged(arr, f.i, f.j)
      BY <1>2, <2>1 DEF Scan
    <3>i. f.i + 1 \in Int /\ f.j + 1 \in Int
      BY <1>0
    <3> HIDE DEF f
    <3>2. /\ calls' \in [DOMAIN calls' -> Frame] /\ Steps(c, {})
          /\ Becomes(c, f.i + 1, f.j + 1, calls[c].pivot, calls[c].pc, calls[c].lost)
      BY <1>a, <3>i, <3>1
    <3> USE DEF f
    <3> QED
      BY <2>0, <2>1, <3>1, <3>2 DEF ScanEffect
  <2>2. CASE ~ (arr[f.j] < f.pivot)
    <3>1. calls' = [calls EXCEPT ![c].j = @ + 1] /\ UNCHANGED arr
      BY <1>2, <2>2 DEF Scan
    <3>2. /\ calls' \in [DOMAIN calls' -> Frame] /\ Steps(c, {})
          /\ Becomes(c, f.i, f.j + 1, f.pivot, "loop", f.lost)
      BY <1>0, <2>0, <3>1 DEF Frame, Pcs, Steps, Becomes
    <3> QED
      BY <1>0, <2>0, <2>2, <3>1, <3>2 DEF ScanEffect
  <2> QED
    BY <2>1, <2>2
<1>3. ASSUME Place(c) PROVE PlaceEffect(c) /\ calls' \in [DOMAIN calls' -> Frame]
  <2>1. /\ SameProcs /\ f.pc = "loop" /\ f.high <= f.j /\ arr' = Exchanged(arr, f.i, f.j)
        /\ calls' = [calls EXCEPT ![c].pc = IF Forks(f) THEN "fork" ELSE "left"]
    BY <1>0, <1>3 DEF Place, SameProcs
  <2>2. CASE Forking(c)
    <3>1. calls' = [calls EXCEPT ![c].pc = "fork"]
      BY <2>1, <2>2 DEF Forking
    <3>2. calls' \in [DOMAIN calls' -> Frame] /\ Steps(c, {}) /\ Reaches(c, "fork")
      BY <1>0, <3>1 DEF Frame, Pcs, Steps, Reaches, Becomes
    <3> QED
      BY <2>1, <2>2, <3>2 DEF PlaceEffect
  <2>3. CASE ~ Forking(c)
    <3>1. calls' = [calls EXCEPT ![c].pc = "left"]
      BY <2>1, <2>3 DEF Forking
    <3>2. calls' \in [DOMAIN calls' -> Frame] /\ Steps(c, {}) /\ Reaches(c, "left")
      BY <1>0, <3>1 DEF Frame, Pcs, Steps, Reaches, Becomes
    <3> QED
      BY <2>1, <2>3, <3>2 DEF PlaceEffect
  <2> QED
    BY <2>2, <2>3
<1> QED
  BY <1>1, <1>2, <1>3

\* The effect of a fork that succeeds, and of one that fails.
LEMMA ForkEffects ==
  ASSUME Shape, NEW c \in DOMAIN calls, Fork(c)
  PROVE  /\ ForkEffect(c) \/ LostEffect(c)
         /\ calls' \in [DOMAIN calls' -> Frame]
<1> DEFINE f == calls[c]
           n == 2 * c + 1
           detached == [proc EXCEPT ![f.pid].attached = @ - 1]
<1>0. /\ calls \in [DOMAIN calls -> Frame] /\ f \in Frame
      /\ f.high \in Int /\ f.i \in Int /\ c \in Nat /\ f.pc = "fork"
  BY Bounds DEF Shape, TypesOK, Fork
<1>1. n \notin DOMAIN proc /\ n \notin DOMAIN calls /\ n \in Nat
  BY <1>0, FreshProcess
<1>2. DOMAIN detached = DOMAIN proc /\ \A p \in DOMAIN proc : detached[p].status = proc[p].status
  OBVIOUS
<1>3. CASE /\ calls' = WithCall(c, [f EXCEPT !.pc = "left"], n, Child(f, Halves(f).right, n))
           /\ proc' = [p \in DOMAIN proc \cup {n} |->
                         IF p = n THEN [status |-> "running", attached |-> detached[f.pid].attached]
                         ELSE detached[p]]
  <2>1. Halves(f).right = <<f.i + 1, f.high>>
    BY DEF Halves
  <2>2. calls' = WithCall(c, [f EXCEPT !.pc = "left"], n, Child(f, <<f.i + 1, f.high>>, n))
    BY <1>3, <2>1
  <2>3. f.i + 1 \in Int /\ "left" \in Pcs
    BY <1>0 DEF Pcs
  <2>4. /\ calls' \in [DOMAIN calls' -> Frame] /\ Steps(c, {n}) /\ Reaches(c, "left")
        /\ Starts(n, c, f.i + 1, f.high, n)
    BY <1>0, <1>1, <2>2, <2>3, Started
  <2> HIDE DEF detached
  <2>5. /\ DOMAIN proc' = DOMAIN proc \cup {n} /\ proc'[n].status = "running"
        /\ \A p \in DOMAIN proc : proc'[p].status = proc[p].status
    BY <1>1, <1>2, <1>3
  <2> QED
    BY <1>0, <1>1, <2>4, <2>5 DEF Fork, ForkEffect
<1>4. CASE calls' = [calls EXCEPT ![c].pc = "left", ![c].lost = TRUE] /\ proc' = detached
  <2>1. /\ calls' \in [DOMAIN calls' -> Frame] /\ Steps(c, {})
        /\ Becomes(c, calls[c].i, calls[c].j, calls[c].pivot, "left", TRUE)
    BY <1>0, <1>4 DEF Frame, Pcs, Steps, Becomes
  <2> QED
    BY <1>0, <1>2, <1>4, <2>1 DEF Fork, LostEffect, SameProcs
<1> QED
  BY <1>3, <1>4 DEF Fork

\* The effects of the calls of the two parts, of their returns, and of wait.
LEMMA PartEffects ==
  ASSUME Shape, NEW c \in DOMAIN calls
  PROVE  /\ CallLeft(c) => LeftEffect(c) /\ calls' \in [DOMAIN calls' -> Frame]
         /\ LeftReturned(c) => LeftDoneEffect(c) /\ calls' \in [DOMAIN calls' -> Frame]
         /\ CallRight(c) => RightEffect(c) /\ calls' \in [DOMAIN calls' -> Frame]
         /\ RightReturned(c) => RightDoneEffect(c) /\ calls' \in [DOMAIN calls' -> Frame]
         /\ Wait(c) => WaitEffect(c) /\ calls' \in [DOMAIN calls' -> Frame]
<1> DEFINE f == calls[c]
<1>0. /\ calls \in [DOMAIN calls -> Frame] /\ f \in Frame /\ c \in Nat
      /\ f.low \in Int /\ f.high \in Int /\ f.i \in Int /\ f.pid \in Nat
      /\ proc \in [DOMAIN proc -> Process] /\ f.pid \in DOMAIN proc
  BY Bounds DEF Shape, TypesOK, TreeInv, PidOK
<1>r. ASSUME NEW pc \in Pcs, calls' = [calls EXCEPT ![c].pc = pc]
      PROVE  calls' \in [DOMAIN calls' -> Frame] /\ Steps(c, {}) /\ Reaches(c, pc)
  BY <1>0, <1>r DEF Frame, Steps, Reaches, Becomes
<1>1. ASSUME CallLeft(c) PROVE LeftEffect(c) /\ calls' \in [DOMAIN calls' -> Frame]
  <2>1. 2 * c \notin DOMAIN calls /\ f.i - 1 \in Int /\ "inLeft" \in Pcs /\ 2 * c \in Nat
    BY <1>0, <1>1, Fresh DEF CallLeft, LeftStarted, Pcs
  <2>2. Halves(f).left = <<f.low, f.i - 1>>
    BY DEF Halves
  <2>3. calls' = WithCall(c, [f EXCEPT !.pc = "inLeft"], 2 * c, Child(f, <<f.low, f.i - 1>>, f.pid))
    BY <1>1, <2>2 DEF CallLeft
  <2>4. /\ calls' \in [DOMAIN calls' -> Frame] /\ Steps(c, {2 * c}) /\ Reaches(c, "inLeft")
        /\ Starts(2 * c, c, f.low, f.i - 1, f.pid)
    BY <1>0, <2>1, <2>3, Started
  <2> QED
    BY <1>1, <2>4 DEF CallLeft, LeftEffect, SameProcs
<1>2. ASSUME LeftReturned(c) PROVE LeftDoneEffect(c) /\ calls' \in [DOMAIN calls' -> Frame]
  <2>1. CASE Forking(c)
    <3>1. calls' = [calls EXCEPT ![c].pc = "wait"]
      BY <1>2, <2>1 DEF LeftReturned, Forking
    <3> QED
      BY <1>2, <1>r, <2>1, <3>1 DEF LeftReturned, LeftDoneEffect, SameProcs, Pcs
  <2>2. CASE ~ Forking(c)
    <3>1. calls' = [calls EXCEPT ![c].pc = "right"]
      BY <1>2, <2>2 DEF LeftReturned, Forking
    <3> QED
      BY <1>2, <1>r, <2>2, <3>1 DEF LeftReturned, LeftDoneEffect, SameProcs, Pcs
  <2> QED
    BY <2>1, <2>2
<1>3. ASSUME CallRight(c) PROVE RightEffect(c) /\ calls' \in [DOMAIN calls' -> Frame]
  <2>1. 2 * c + 1 \notin DOMAIN calls /\ f.i + 1 \in Int /\ "inRight" \in Pcs /\ 2 * c + 1 \in Nat
    BY <1>0, <1>3, Bounds, Fresh DEF CallRight, RightStarted, CallOK, Pcs
  <2>2. Halves(f).right = <<f.i + 1, f.high>>
    BY DEF Halves
  <2>3. calls' = WithCall(c, [f EXCEPT !.pc = "inRight"], 2 * c + 1, Child(f, <<f.i + 1, f.high>>, f.pid))
    BY <1>3, <2>2 DEF CallRight
  <2>4. /\ calls' \in [DOMAIN calls' -> Frame] /\ Steps(c, {2 * c + 1}) /\ Reaches(c, "inRight")
        /\ Starts(2 * c + 1, c, f.i + 1, f.high, f.pid)
    BY <1>0, <2>1, <2>3, Started
  <2> QED
    BY <1>3, <2>4 DEF CallRight, RightEffect, SameProcs
<1>4. ASSUME RightReturned(c) PROVE RightDoneEffect(c) /\ calls' \in [DOMAIN calls' -> Frame]
  <2>1. SameProcs
    <3>1. proc' = proc \/ proc' = [proc EXCEPT ![f.pid].attached = @ - 1]
      BY <1>4 DEF RightReturned
    <3> QED
      BY <1>0, <3>1 DEF SameProcs, Process
  <2> QED
    BY <1>4, <1>r, <2>1 DEF RightReturned, RightDoneEffect, Pcs
<1>5. ASSUME Wait(c) PROVE WaitEffect(c) /\ calls' \in [DOMAIN calls' -> Frame]
  <2>1. /\ f.pc = "wait" /\ UNCHANGED arr /\ calls' = [calls EXCEPT ![c].pc = "done"]
    BY <1>5 DEF Wait
  <2>2. CASE Unreaped(f.pid) = {} /\ UNCHANGED proc
    BY <1>r, <2>1, <2>2 DEF WaitEffect, SameProcs, Pcs
  <2>3. ASSUME NEW q \in Unreaped(f.pid), proc[q].status = "zombie",
               proc' = [proc EXCEPT ![q].status = "reaped"]
        PROVE  WaitEffect(c) /\ calls' \in [DOMAIN calls' -> Frame]
    <3>1. q \in DOMAIN proc
      BY DEF Unreaped, ChildrenOf
    <3>2. DOMAIN proc' = DOMAIN proc /\ \A p \in DOMAIN proc \ {q} : proc'[p].status = proc[p].status
      BY <2>3
    <3>3. proc'[q].status = "reaped"
      BY <1>0, <2>3, <3>1 DEF Process
    <3>4. Reaps(q)
      BY <2>3, <3>1, <3>2, <3>3 DEF Reaps
    <3> QED
      BY <1>r, <2>1, <3>4 DEF WaitEffect, Pcs
  <2> QED
    BY <1>5, <2>2, <2>3 DEF Wait
<1> QED
  BY <1>1, <1>2, <1>3, <1>4, <1>5

\* Every step of a call has one of the effects, and leaves alone what belongs to main.
LEMMA Effects ==
  ASSUME Shape, NEW c \in DOMAIN calls, Call(c)
  PROVE  /\ CallEffect(c) /\ calls' \in [DOMAIN calls' -> Frame]
         /\ UNCHANGED <<nums, phase, badcount>> /\ Running(c)
<1>1. CASE Enter(c)
  BY <1>1, PartitionEffects DEF CallEffect, Enter, Running
<1>2. CASE Scan(c)
  BY <1>2, PartitionEffects DEF CallEffect, Scan, Running
<1>3. CASE Place(c)
  BY <1>3, PartitionEffects DEF CallEffect, Place, Running
<1>4. CASE Fork(c)
  BY <1>4, ForkEffects DEF CallEffect, Fork, Running
<1>5. CASE CallLeft(c)
  BY <1>5, PartEffects DEF CallEffect, CallLeft, Running
<1>6. CASE LeftReturned(c)
  BY <1>6, PartEffects DEF CallEffect, LeftReturned, Running
<1>7. CASE CallRight(c)
  BY <1>7, PartEffects DEF CallEffect, CallRight, Running
<1>8. CASE RightReturned(c)
  BY <1>8, PartEffects DEF CallEffect, RightReturned, Running
<1>9. CASE Wait(c)
  BY <1>9, PartEffects DEF CallEffect, Wait, Running
<1> QED
  BY <1>1, <1>2, <1>3, <1>4, <1>5, <1>6, <1>7, <1>8, <1>9 DEF Call

\* What a step of call c does to the attachments of the processes.
Attaches(c) ==
  LET p == calls[c].pid
      change == IF calls[c].kind = "fork" /\ calls[c].pc = "enter" THEN 1
                ELSE IF calls[c].kind = "fork" /\ calls[c].pc \in {"fork", "inRight"} THEN -1 ELSE 0
  IN /\ proc'[p].attached = proc[p].attached + change
     /\ \A q \in DOMAIN proc \ {p} : proc'[q].attached = proc[q].attached
     /\ \A q \in DOMAIN proc' \ DOMAIN proc : proc'[q].attached = proc[p].attached + change

\* The processes keep their type, and one of them attaches or detaches the segment.
LEMMA AttachEffects ==
  ASSUME Shape, NEW c \in DOMAIN calls, Call(c)
  PROVE  proc' \in [DOMAIN proc' -> Process] /\ Attaches(c)
<1> DEFINE f == calls[c]  p == f.pid
<1>0. /\ proc \in [DOMAIN proc -> Process] /\ p \in DOMAIN proc /\ proc[p].attached \in Int
      /\ CallOK(c)
  BY DEF Shape, TypesOK, TreeInv, PidOK, Process
<1>1. ASSUME NEW change \in {1, -1, 0}, proc' = [proc EXCEPT ![p].attached = @ + change]
      PROVE  /\ proc' \in [DOMAIN proc' -> Process] /\ proc'[p].attached = proc[p].attached + change
             /\ \A q \in DOMAIN proc \ {p} : proc'[q].attached = proc[q].attached
             /\ DOMAIN proc' = DOMAIN proc
  BY <1>0, <1>1 DEF Process
<1>2. ASSUME proc' = proc, ~ (f.kind = "fork" /\ f.pc \in {"enter", "fork", "inRight"})
      PROVE  proc' \in [DOMAIN proc' -> Process] /\ Attaches(c)
  BY <1>0, <1>2 DEF Attaches
<1>3. CASE Enter(c)
  <2>1. CASE f.kind = "fork"
    <3>1. proc' = [proc EXCEPT ![p].attached = @ + 1] /\ f.pc = "enter"
      BY <1>3, <2>1 DEF Enter
    <3> QED
      BY <1>1, <2>1, <3>1 DEF Attaches
  <2> QED
    BY <1>2, <1>3, <2>1 DEF Enter
<1>4. CASE Scan(c) \/ Place(c)
  BY <1>2, <1>4 DEF Scan, Place
<1>5. CASE Fork(c)
  <2> DEFINE detached == [proc EXCEPT ![p].attached = @ - 1]
             n == 2 * c + 1
  <2>1. f.pc = "fork" /\ f.kind = "fork" /\ n \notin DOMAIN proc
    BY <1>5, FreshProcess DEF Fork, Forking, Forks
  <2>2. /\ detached \in [DOMAIN proc -> Process] /\ detached[p].attached = proc[p].attached - 1
        /\ \A q \in DOMAIN proc \ {p} : detached[q].attached = proc[q].attached
    BY <1>0 DEF Process
  <2>3. detached[p].attached \in Int
    BY <1>0, <2>2
  <2>4. \/ proc' = [q \in DOMAIN proc \cup {n} |->
                      IF q = n THEN [status |-> "running", attached |-> detached[p].attached]
                      ELSE detached[q]]
        \/ proc' = detached
    BY <1>5 DEF Fork
  <2> HIDE DEF detached
  <2>5. /\ proc' \in [DOMAIN proc' -> Process]
        /\ proc'[p].attached = proc[p].attached - 1
        /\ \A q \in DOMAIN proc \ {p} : proc'[q].attached = proc[q].attached
        /\ \A q \in DOMAIN proc' \ DOMAIN proc : proc'[q].attached = proc[p].attached - 1
    BY <1>0, <2>1, <2>2, <2>3, <2>4 DEF Process
  <2> QED
    BY <1>0, <2>1, <2>5 DEF Attaches
<1>6. CASE CallLeft(c) \/ LeftReturned(c) \/ CallRight(c)
  BY <1>2, <1>6 DEF CallLeft, LeftReturned, CallRight
<1>7. CASE RightReturned(c)
  <2>1. CASE f.kind = "fork"
    <3>1. proc' = [proc EXCEPT ![p].attached = @ - 1] /\ f.pc = "inRight"
      BY <1>7, <2>1 DEF RightReturned
    <3>2. proc' = [proc EXCEPT ![p].attached = @ + (-1)]
      BY <1>0, <3>1
    <3> QED
      BY <1>1, <2>1, <3>1, <3>2 DEF Attaches
  <2> QED
    BY <1>2, <1>7, <2>1 DEF RightReturned
<1>8. CASE Wait(c)
  <2>1. ASSUME NEW q \in Unreaped(p), proc' = [proc EXCEPT ![q].status = "reaped"]
        PROVE  /\ proc' \in [DOMAIN proc' -> Process] /\ DOMAIN proc' = DOMAIN proc
               /\ \A r \in DOMAIN proc : proc'[r].attached = proc[r].attached
    <3>1. q \in DOMAIN proc
      BY DEF Unreaped, ChildrenOf
    <3> QED
      BY <1>0, <2>1, <3>1 DEF Process
  <2>2. f.pc = "wait"
    BY <1>8 DEF Wait
  <2>3. ASSUME NEW q \in Unreaped(p), proc' = [proc EXCEPT ![q].status = "reaped"]
        PROVE  proc' \in [DOMAIN proc' -> Process] /\ Attaches(c)
    <3>1. /\ proc' \in [DOMAIN proc' -> Process] /\ DOMAIN proc' = DOMAIN proc
          /\ \A r \in DOMAIN proc : proc'[r].attached = proc[r].attached
      BY <2>1, <2>3
    <3> QED
      BY <1>0, <2>2, <3>1 DEF Attaches
  <2> QED
    BY <1>2, <1>8, <2>2, <2>3 DEF Wait
<1> QED
  BY <1>3, <1>4, <1>5, <1>6, <1>7, <1>8 DEF Call

-----------------------------------------------------------------------------

\* The records of all calls but c stay; c keeps its arguments, what it has
\* placed, and that it has lost its right part.
LEMMA OthersStay ==
  ASSUME Shape, NEW c \in DOMAIN calls, Call(c)
  PROVE  /\ DOMAIN calls \subseteq DOMAIN calls'
         /\ \A d \in DOMAIN calls : d # c => calls'[d] = calls[d]
         /\ \A d \in DOMAIN calls : /\ calls'[d].kind = calls[d].kind /\ calls'[d].depth = calls[d].depth
                                    /\ calls'[d].low = calls[d].low /\ calls'[d].high = calls[d].high
                                    /\ calls'[d].pid = calls[d].pid /\ (Forking(d)' <=> Forking(d))
                                    /\ Parted(d) => Parted(d)' /\ calls'[d].i = calls[d].i
                                    /\ calls[d].lost => calls'[d].lost
                                    /\ ~ Running(d) => ~ Running(d)' /\ d # c
<1>1. CallEffect(c) /\ Running(c) /\ CallOK(c)
  BY Effects DEF Shape, TreeInv
<1>2. /\ DOMAIN calls \subseteq DOMAIN calls'
      /\ \A d \in DOMAIN calls : d # c => calls'[d] = calls[d]
      /\ calls'[c].kind = calls[c].kind /\ calls'[c].depth = calls[c].depth
      /\ calls'[c].low = calls[c].low /\ calls'[c].high = calls[c].high
      /\ calls'[c].pid = calls[c].pid
  BY <1>1 DEF CallEffect, EnterEffect, ScanEffect, PlaceEffect, ForkEffect, LostEffect,
     LeftEffect, LeftDoneEffect, RightEffect, RightDoneEffect, WaitEffect, Steps, Reaches, Becomes
<1>3. /\ Parted(c) => Parted(c)' /\ calls'[c].i = calls[c].i
      /\ calls[c].lost => calls'[c].lost
  BY <1>1, <1>2 DEF CallEffect, EnterEffect, ScanEffect, PlaceEffect, ForkEffect, LostEffect,
     LeftEffect, LeftDoneEffect, RightEffect, RightDoneEffect, WaitEffect, Steps, Reaches, Becomes, Parted
<1> QED
  BY <1>1, <1>2, <1>3 DEF Forking, Forks, Running, Parted

\* Call c gets from one program counter to another.
Moves(c, from, to) == calls[c].pc = from /\ calls'[c].pc = to

\* The steps there are, and what they wait for or start.
LEMMA PcStep ==
  ASSUME Shape, NEW c \in DOMAIN calls, Call(c)
  PROVE  \/ calls[c].pc \in {"enter", "loop"} /\ calls'[c].pc = "loop" /\ DOMAIN calls' = DOMAIN calls
         \/ calls[c].pc = "enter" /\ calls'[c].pc = "done" /\ DOMAIN calls' = DOMAIN calls
         \/ Moves(c, "loop", "fork") /\ Forking(c) /\ DOMAIN calls' = DOMAIN calls /\ PlaceEffect(c)
         \/ Moves(c, "loop", "left") /\ ~ Forking(c) /\ DOMAIN calls' = DOMAIN calls /\ PlaceEffect(c)
         \/ Moves(c, "fork", "left") /\ ForkEffect(c)
         \/ Moves(c, "fork", "left") /\ LostEffect(c)
         \/ Moves(c, "left", "inLeft") /\ LeftEffect(c)
         \/ Moves(c, "inLeft", "wait") /\ LeftDoneEffect(c) /\ Forking(c)
         \/ Moves(c, "inLeft", "right") /\ LeftDoneEffect(c) /\ ~ Forking(c)
         \/ Moves(c, "right", "inRight") /\ RightEffect(c)
         \/ Moves(c, "inRight", "done") /\ RightDoneEffect(c)
         \/ Moves(c, "wait", "done") /\ WaitEffect(c)
<1> USE DEF Reaches, Becomes, Steps, Moves
<1>1. CASE EnterEffect(c) \/ ScanEffect(c) \/ PlaceEffect(c)
  BY <1>1 DEF EnterEffect, ScanEffect, PlaceEffect
<1>2. CASE ForkEffect(c) \/ LostEffect(c)
  BY <1>2 DEF ForkEffect, LostEffect
<1>3. CASE LeftEffect(c) \/ LeftDoneEffect(c)
  BY <1>3 DEF LeftEffect, LeftDoneEffect
<1>4. CASE RightEffect(c) \/ RightDoneEffect(c) \/ WaitEffect(c)
  BY <1>4 DEF RightEffect, RightDoneEffect, WaitEffect
<1> QED
  BY <1>1, <1>2, <1>3, <1>4, Effects DEF CallEffect

\* The call that a step starts, if it starts one.
LEMMA NewCalls ==
  ASSUME Shape, NEW c \in DOMAIN calls, Call(c), NEW n \in DOMAIN calls' \ DOMAIN calls
  PROVE  /\ calls'[n].pc = "enter" /\ calls'[n].lost = FALSE
         /\ calls'[n].i = calls'[n].low /\ calls'[n].j = calls'[n].low
         /\ IF Forking(c) THEN calls'[n].kind = "fork" /\ calls'[n].depth = calls[c].depth + 1
                          ELSE calls'[n].kind = "vanilla" /\ calls'[n].depth = calls[c].depth
         /\ \/ /\ n = 2 * c /\ LeftEffect(c) /\ Moves(c, "left", "inLeft")
               /\ calls'[n].low = calls[c].low /\ calls'[n].high = calls[c].i - 1
               /\ calls'[n].pid = calls[c].pid
            \/ /\ n = 2 * c + 1 /\ ForkEffect(c) /\ Moves(c, "fork", "left") /\ ~ calls'[c].lost
               /\ calls'[n].low = calls[c].i + 1 /\ calls'[n].high = calls[c].high
               /\ calls'[n].pid = n /\ n \in DOMAIN proc' /\ n \notin DOMAIN proc /\ Forking(c)
            \/ /\ n = 2 * c + 1 /\ RightEffect(c) /\ Moves(c, "right", "inRight")
               /\ calls'[n].low = calls[c].i + 1 /\ calls'[n].high = calls[c].high
               /\ calls'[n].pid = calls[c].pid /\ ~ Forking(c)
<1>1. CallOK(c) /\ CallEffect(c)
  BY Effects DEF Shape, TreeInv
<1>2. CASE LeftEffect(c)
  BY <1>2 DEF LeftEffect, Steps, Starts, Reaches, Becomes, Moves
<1>3. CASE ForkEffect(c)
  <2>1. calls[c].pc = "fork" /\ ~ calls[c].lost /\ Forking(c)
    BY <1>1, <1>3 DEF ForkEffect, CallOK
  <2> QED
    BY <1>3, <2>1 DEF ForkEffect, Steps, Starts, Reaches, Becomes, Moves
<1>4. CASE RightEffect(c)
  <2>1. ~ Forking(c)
    BY <1>1, <1>4 DEF RightEffect, CallOK
  <2> QED
    BY <1>4, <2>1 DEF RightEffect, Steps, Starts, Reaches, Becomes, Moves
<1> QED
  BY <1>1, <1>2, <1>3, <1>4 DEF CallEffect, EnterEffect, ScanEffect, PlaceEffect, LostEffect,
     LeftDoneEffect, RightDoneEffect, WaitEffect, Steps

-----------------------------------------------------------------------------

\* An exchange keeps the array's type.
LEMMA ExchangeTypes ==
  ASSUME Shape, NEW p \in Index, NEW q \in Index, arr' = Exchanged(arr, p, q)
  PROVE  /\ arr' \in [Index -> Value]
         /\ \A x \in Index : arr'[x] = IF x = q THEN arr[p] ELSE IF x = p THEN arr[q] ELSE arr[x]
BY DEF Shape, TypesOK, Exchanged, Parts!Exchanged

\* A step of a call keeps the types.
LEMMA TypesStep ==
  ASSUME Shape, NEW c \in DOMAIN calls, Call(c)
  PROVE  TypesOK'
<1>1. /\ CallEffect(c) /\ calls' \in [DOMAIN calls' -> Frame] /\ UNCHANGED <<nums, phase, badcount>>
      /\ proc' \in [DOMAIN proc' -> Process]
      /\ calls[c] \in Frame /\ c \in Nat \ {0} /\ CallOK(c)
  BY Effects, AttachEffects, Bounds
<1>2. /\ DOMAIN calls' \subseteq Nat \ {0} /\ DOMAIN proc' \subseteq Nat \ {0}
      /\ IsFiniteSet(DOMAIN calls') /\ IsFiniteSet(DOMAIN proc')
  <2>1. \E n \in {2 * c, 2 * c + 1} : /\ DOMAIN calls' \in {DOMAIN calls, DOMAIN calls \cup {n}}
                                      /\ DOMAIN proc' \in {DOMAIN proc, DOMAIN proc \cup {n}}
    BY <1>1 DEF CallEffect, EnterEffect, ScanEffect, PlaceEffect, ForkEffect, LostEffect,
       LeftEffect, LeftDoneEffect, RightEffect, RightDoneEffect, WaitEffect, Steps, SameProcs, Reaps
  <2>2. 2 * c \in Nat \ {0} /\ 2 * c + 1 \in Nat \ {0}
    BY <1>1
  <2> QED
    BY <2>1, <2>2, FS_AddElement DEF Shape, TypesOK
<1>3. arr' \in [Index -> Value]
  <2>1. CASE UNCHANGED arr
    BY <2>1 DEF Shape, TypesOK
  <2>2. CASE calls[c].pc = "loop" /\ arr' = Exchanged(arr, calls[c].i, calls[c].j)
    <3>1. calls[c].i \in Index /\ calls[c].j \in Index
      BY <1>1, <2>2, NAssumption DEF CallOK, Frame, Index
    <3> QED
      BY <2>2, <3>1, ExchangeTypes
  <2> QED
    BY <1>1, <2>1, <2>2 DEF CallEffect, EnterEffect, ScanEffect, PlaceEffect, ForkEffect, LostEffect,
       LeftEffect, LeftDoneEffect, RightEffect, RightDoneEffect, WaitEffect
<1> QED
  BY <1>1, <1>2, <1>3 DEF Shape, TypesOK

\* Every call keeps its loop variables and its flags in order.
LEMMA CallOKStep ==
  ASSUME Shape, NEW c \in DOMAIN calls, Call(c), NEW d \in DOMAIN calls'
  PROVE  CallOK(d)'
<1>0. /\ CallEffect(c) /\ calls[c] \in Frame /\ CallOK(c)
      /\ calls'[c].low = calls[c].low /\ calls'[c].high = calls[c].high /\ (Forking(c)' <=> Forking(c))
      /\ Parted(c) => Parted(c)' /\ calls'[c].i = calls[c].i
      /\ calls[c].low \in Int /\ calls[c].high \in Int /\ calls[c].i \in Int /\ calls[c].j \in Int
  BY Effects, Bounds, OthersStay
<1>1. CASE d \in DOMAIN calls /\ d # c
  BY <1>1, OthersStay DEF Shape, TreeInv, CallOK, Parted, Forking, Forks
<1>2. CASE d \notin DOMAIN calls
  <2>1. Parted(c) /\ calls[c].low <= calls[c].i /\ calls[c].i <= calls[c].high
    BY <1>0, <1>2, NewCalls DEF Moves, CallOK
  <2>2. 0 <= calls'[d].low /\ calls'[d].high <= N - 1
    <3>1. 0 <= calls[c].low /\ calls[c].high <= N - 1
      BY <1>0 DEF CallOK
    <3>2. \/ calls'[d].low = calls[c].low /\ calls'[d].high = calls[c].i - 1
          \/ calls'[d].low = calls[c].i + 1 /\ calls'[d].high = calls[c].high
      BY ZenonT(60), <1>2, NewCalls
    <3> QED
      BY <1>0, <2>1, <3>1, <3>2, NAssumption
  <2> QED
    BY <1>2, <2>2, NewCalls DEF CallOK, Parted
<1>3. CASE d = c
  <2>1. CASE EnterEffect(c)
    BY <1>0, <1>3, <2>1 DEF EnterEffect, Reaches, Becomes, CallOK, Parted
  <2>2. CASE ScanEffect(c)
    BY <1>0, <1>3, <2>2 DEF ScanEffect, Reaches, Becomes, CallOK, Parted
  <2>3. CASE PlaceEffect(c)
    BY <1>0, <1>3, <2>3 DEF PlaceEffect, Reaches, Becomes, CallOK, Parted
  <2>4. CASE ForkEffect(c) \/ LostEffect(c)
    BY <1>0, <1>3, <2>4 DEF ForkEffect, LostEffect, Reaches, Becomes, CallOK, Parted
  <2>5. CASE LeftEffect(c) \/ LeftDoneEffect(c)
    BY <1>0, <1>3, <2>5 DEF LeftEffect, LeftDoneEffect, Reaches, Becomes, CallOK, Parted
  <2>6. CASE RightEffect(c) \/ RightDoneEffect(c) \/ WaitEffect(c)
    BY <1>0, <1>3, <2>6 DEF RightEffect, RightDoneEffect, WaitEffect, Reaches, Becomes, CallOK, Parted
  <2> QED
    BY <1>0, <2>1, <2>2, <2>3, <2>4, <2>5, <2>6 DEF CallEffect
<1> QED
  BY <1>1, <1>2, <1>3

\* The parts that a call has started, before and after a step.
LEMMA StartedStep ==
  ASSUME Shape, NEW c \in DOMAIN calls, Call(c), NEW d \in DOMAIN calls
  PROVE  /\ LeftStarted(d) => LeftStarted(d)'
         /\ RightStarted(d) => RightStarted(d)'
         /\ LeftStarted(d)' => LeftStarted(d) \/ (d = c /\ LeftEffect(c))
         /\ RightStarted(d)' => RightStarted(d) \/ (d = c /\ (ForkEffect(c) \/ RightEffect(c)))
<1>0. CallOK(c) /\ CallOK(c)' /\ (Forking(c)' <=> Forking(c)) /\ (Parted(c) => Parted(c)')
  BY CallOKStep, OthersStay DEF Shape, TreeInv
<1>1. CASE d # c
  BY <1>1, OthersStay DEF LeftStarted, RightStarted, Parted, Forking, Forks
<1>2. CASE d = c
  <2>2. CASE calls[c].pc \in {"enter", "loop"}
    <3>1. ~ LeftStarted(c) /\ ~ RightStarted(c)
      BY <2>2 DEF LeftStarted, RightStarted, Parted
    <3>2. calls'[c].pc \in {"fork", "left"} => ~ LeftStarted(c)' /\ ~ RightStarted(c)'
      <4>1. \/ calls'[c].pc = "fork" /\ Forking(c)
            \/ calls'[c].pc = "left" /\ ~ Forking(c)
            \/ calls'[c].pc \notin {"fork", "left"}
        BY <2>2, PcStep DEF Moves
      <4>2. CASE calls'[c].pc = "fork" /\ Forking(c)
        BY <1>0, <4>2 DEF LeftStarted, RightStarted
      <4>3. CASE calls'[c].pc = "left" /\ ~ Forking(c)
        BY <1>0, <4>3 DEF LeftStarted, RightStarted
      <4> QED
        BY <4>1, <4>2, <4>3
    <3>3. calls'[c].pc = "done" => ~ Parted(c)'
      <4> SUFFICES ASSUME calls'[c].pc = "done" PROVE ~ Parted(c)'
        OBVIOUS
      <4>1. CallEffect(c) /\ calls[c].pc # "done"
        BY Effects DEF Running
      <4>2. EnterEffect(c)
        BY <2>2, <4>1 DEF CallEffect, ScanEffect, PlaceEffect, ForkEffect, LostEffect, LeftEffect,
           LeftDoneEffect, RightEffect, RightDoneEffect, WaitEffect, Becomes, Reaches
      <4>3. calls[c].high <= calls[c].low
        BY <4>2 DEF EnterEffect, Becomes, Reaches
      <4> QED
        BY <4>3, OthersStay, Bounds DEF Parted
    <3>4. calls'[c].pc \in {"loop", "fork", "left", "done"}
      BY <2>2, PcStep DEF Moves
    <3>5. ~ LeftStarted(c)' /\ ~ RightStarted(c)'
      <4>1. CASE calls'[c].pc = "loop"
        BY <4>1 DEF LeftStarted, RightStarted, Parted
      <4>2. CASE calls'[c].pc = "done"
        BY <3>3, <4>2 DEF LeftStarted, RightStarted
      <4> QED
        BY <3>2, <3>4, <4>1, <4>2
    <3> QED
      BY <1>2, <3>1, <3>5
  <2>3. CASE Moves(c, "fork", "left")
    BY <1>0, <1>2, <2>3, PcStep DEF Moves, ForkEffect, LostEffect, Reaches, Becomes, LeftStarted,
       RightStarted, CallOK
  <2>4. CASE Moves(c, "left", "inLeft")
    BY <1>0, <1>2, <2>4, PcStep DEF Moves, LeftEffect, Reaches, Becomes, LeftStarted, RightStarted, CallOK
  <2>5. CASE Moves(c, "inLeft", "wait") \/ Moves(c, "inLeft", "right") \/ Moves(c, "wait", "done")
    BY <1>0, <1>2, <2>5, PcStep DEF Moves, LeftDoneEffect, WaitEffect, Reaches, Becomes, LeftStarted,
       RightStarted, CallOK
  <2>6. CASE Moves(c, "right", "inRight") \/ Moves(c, "inRight", "done")
    BY <1>0, <1>2, <2>6, PcStep DEF Moves, RightEffect, RightDoneEffect, Reaches, Becomes, LeftStarted,
       RightStarted, CallOK
  <2> QED
    BY <2>2, <2>3, <2>4, <2>5, <2>6, PcStep DEF Moves
<1> QED
  BY <1>1, <1>2

\* No process disappears.
LEMMA ProcsStay ==
  ASSUME Shape, NEW c \in DOMAIN calls, Call(c)
  PROVE  /\ DOMAIN proc \subseteq DOMAIN proc'
         /\ \A p \in DOMAIN proc : \/ proc'[p].status = proc[p].status
                                   \/ /\ proc[p].status = "zombie" /\ proc'[p].status = "reaped"
                                      /\ WaitEffect(c)
         /\ \A p \in DOMAIN proc' \ DOMAIN proc : p = 2 * c + 1 /\ proc'[p].status = "running" /\ ForkEffect(c)
BY Effects DEF CallEffect, EnterEffect, ScanEffect, PlaceEffect, ForkEffect, LostEffect,
   LeftEffect, LeftDoneEffect, RightEffect, RightDoneEffect, WaitEffect, SameProcs, Reaps

\* The left parts that calls have started stay as they were given.
LEMMA LeftGivenStep ==
  ASSUME Shape, NEW c \in DOMAIN calls, Call(c), NEW d \in DOMAIN calls'
  PROVE  LeftGiven(d)'
<1>0. c \in Nat /\ CallOK(c)
  BY Bounds
<1>1. CASE d \notin DOMAIN calls
  BY <1>1, NewCalls DEF LeftGiven, LeftStarted, Parted
<1>2. CASE d \in DOMAIN calls /\ LeftStarted(d)
  <2>1. /\ 2 * d \in DOMAIN calls
        /\ calls[2 * d].low = calls[d].low /\ calls[2 * d].high = calls[d].i - 1
        /\ calls[2 * d].pid = calls[d].pid
        /\ calls[d].pc # "inLeft" => ~ Running(2 * d)
    BY <1>2 DEF Shape, TreeInv, LeftGiven
  <2>2. /\ 2 * d \in DOMAIN calls'
        /\ calls'[2 * d].low = calls'[d].low /\ calls'[2 * d].high = calls'[d].i - 1
        /\ calls'[2 * d].pid = calls'[d].pid
    BY <1>2, <2>1, OthersStay DEF LeftStarted
  <2>3. calls'[d].pc # "inLeft" => ~ Running(2 * d)'
    <3>1. CASE calls[d].pc # "inLeft"
      BY <2>1, <3>1, OthersStay
    <3>2. CASE calls[d].pc = "inLeft" /\ d # c
      BY <1>2, <3>2, OthersStay
    <3>3. CASE calls[d].pc = "inLeft" /\ d = c
      <4>1. calls[2 * c].pc = "done"
        BY <3>3, PcStep DEF Moves, LeftDoneEffect
      <4> QED
        BY <2>1, <3>3, <4>1, OthersStay DEF Running
    <3> QED
      BY <3>1, <3>2, <3>3
  <2> QED
    BY <2>2, <2>3 DEF LeftGiven
<1>3. CASE d \in DOMAIN calls /\ ~ LeftStarted(d)
  <2> SUFFICES ASSUME LeftStarted(d)' PROVE LeftGiven(d)'
    BY DEF LeftGiven
  <2>1. d = c /\ LeftEffect(c)
    BY <1>3, StartedStep
  <2>2. 2 * c \in DOMAIN calls' \ DOMAIN calls /\ calls'[c].pc = "inLeft"
    BY <2>1 DEF LeftEffect, Steps, Starts, Reaches, Becomes
  <2>3. /\ calls'[2 * c].low = calls[c].low /\ calls'[2 * c].high = calls[c].i - 1
        /\ calls'[2 * c].pid = calls[c].pid
    BY <2>1 DEF LeftEffect, Starts
  <2>4. Parted(c)
    BY <1>0, <2>1 DEF LeftEffect, CallOK
  <2> QED
    BY <2>1, <2>2, <2>3, <2>4, OthersStay DEF LeftGiven
<1> QED
  BY <1>1, <1>2, <1>3

\* The right parts that calls have started stay as they were given.
LEMMA RightGivenStep ==
  ASSUME Shape, NEW c \in DOMAIN calls, Call(c), NEW d \in DOMAIN calls'
  PROVE  RightGiven(d)'
<1>0. c \in Nat /\ CallOK(c)
  BY Bounds
<1>1. CASE d \notin DOMAIN calls
  BY <1>1, NewCalls DEF RightGiven, RightStarted, Parted
<1>2. CASE d \in DOMAIN calls /\ RightStarted(d)
  <2>1. /\ 2 * d + 1 \in DOMAIN calls
        /\ calls[2 * d + 1].low = calls[d].i + 1 /\ calls[2 * d + 1].high = calls[d].high
    BY <1>2 DEF Shape, TreeInv, RightGiven
  <2>2. /\ 2 * d + 1 \in DOMAIN calls'
        /\ calls'[2 * d + 1].low = calls'[d].i + 1 /\ calls'[2 * d + 1].high = calls'[d].high
        /\ calls'[d].pid = calls[d].pid /\ calls'[2 * d + 1].pid = calls[2 * d + 1].pid
        /\ (Forking(d)' <=> Forking(d))
    BY <1>2, <2>1, OthersStay DEF RightStarted
  <2>3. CASE Forking(d)
    <3>1. calls[2 * d + 1].pid = 2 * d + 1 /\ 2 * d + 1 \in DOMAIN proc
      BY <1>2, <2>3 DEF Shape, TreeInv, RightGiven
    <3> QED
      BY <2>2, <2>3, <3>1, ProcsStay DEF RightGiven
  <2>4. CASE ~ Forking(d)
    <3>1. calls[2 * d + 1].pid = calls[d].pid /\ (calls[d].pc # "inRight" => ~ Running(2 * d + 1))
      BY <1>2, <2>4 DEF Shape, TreeInv, RightGiven
    <3>2. calls'[d].pc # "inRight" => ~ Running(2 * d + 1)'
      <4>1. CASE calls[d].pc # "inRight"
        BY <2>1, <3>1, <4>1, OthersStay
      <4>2. CASE calls[d].pc = "inRight" /\ d # c
        BY <1>2, <4>2, OthersStay
      <4>3. CASE calls[d].pc = "inRight" /\ d = c
        <5>1. calls[2 * c + 1].pc = "done"
          BY <4>3, PcStep DEF Moves, RightDoneEffect
        <5> QED
          BY <2>1, <4>3, <5>1, OthersStay DEF Running
      <4> QED
        BY <4>1, <4>2, <4>3
    <3> QED
      BY <2>2, <2>4, <3>1, <3>2 DEF RightGiven
  <2> QED
    BY <2>3, <2>4
<1>3. CASE d \in DOMAIN calls /\ ~ RightStarted(d)
  <2> SUFFICES ASSUME RightStarted(d)' PROVE RightGiven(d)'
    BY DEF RightGiven
  <2>1. d = c /\ (ForkEffect(c) \/ RightEffect(c))
    BY <1>3, StartedStep
  <2>2. 2 * c + 1 \in DOMAIN calls' \ DOMAIN calls
    BY <2>1 DEF ForkEffect, RightEffect, Steps, Starts
  <2>3. Parted(c) /\ calls'[c].i = calls[c].i /\ calls'[c].high = calls[c].high
        /\ calls'[c].pid = calls[c].pid /\ (Forking(c)' <=> Forking(c))
    BY <1>0, <2>1, OthersStay DEF ForkEffect, RightEffect, CallOK
  <2>4. /\ calls'[2 * c + 1].low = calls[c].i + 1 /\ calls'[2 * c + 1].high = calls[c].high
    BY <2>1 DEF ForkEffect, RightEffect, Starts
  <2>5. CASE ForkEffect(c)
    <3>1. Forking(c) /\ calls'[2 * c + 1].pid = 2 * c + 1 /\ 2 * c + 1 \in DOMAIN proc'
      BY <1>0, <2>5 DEF ForkEffect, Starts, CallOK
    <3> QED
      BY <2>1, <2>2, <2>3, <2>4, <3>1 DEF RightGiven
  <2>6. CASE RightEffect(c)
    <3>1. ~ Forking(c) /\ calls'[2 * c + 1].pid = calls[c].pid /\ calls'[c].pc = "inRight"
      BY <1>0, <2>6 DEF RightEffect, Starts, CallOK, Reaches, Becomes
    <3> QED
      BY <2>1, <2>2, <2>3, <2>4, <3>1 DEF RightGiven
  <2> QED
    BY <2>1, <2>5, <2>6
<1> QED
  BY <1>1, <1>2, <1>3

\* Every call keeps the one that started it, and its process.
LEMMA HasParentStep ==
  ASSUME Shape, NEW c \in DOMAIN calls, Call(c), NEW d \in DOMAIN calls'
  PROVE  HasParent(d)' /\ PidOK(d)'
<1>0. c \in Nat \ {0} /\ CallOK(c) /\ PidOK(c) /\ DOMAIN calls \subseteq Nat \ {0}
      /\ DOMAIN calls \subseteq DOMAIN calls' /\ DOMAIN proc \subseteq DOMAIN proc'
  BY Bounds, OthersStay, ProcsStay DEF Shape, TreeInv, TypesOK
<1>1. CASE d \notin DOMAIN calls
  <2>1. \/ d = 2 * c /\ LeftEffect(c) /\ calls'[d].pid = calls[c].pid
        \/ d = 2 * c + 1 /\ ForkEffect(c) /\ calls'[d].pid = d /\ d \in DOMAIN proc' /\ Forking(c)
        \/ d = 2 * c + 1 /\ RightEffect(c) /\ calls'[d].pid = calls[c].pid /\ ~ Forking(c)
    BY <1>1, NewCalls
  <2>2. PidOK(d)'
    BY <1>0, <2>1 DEF PidOK
  <2>3. Parted(c)' /\ calls'[c].lost = calls[c].lost /\ (Forking(c)' <=> Forking(c))
    BY <1>0, <2>1, OthersStay DEF LeftEffect, ForkEffect, RightEffect, Reaches, Becomes, CallOK
  <2>4. IsParent(c, d)'
    <3>1. CASE d = 2 * c /\ LeftEffect(c)
      <4>1. LeftStarted(c)'
        BY <2>3, <3>1 DEF LeftEffect, Reaches, Becomes, LeftStarted
      <4> QED
        BY <3>1, <4>1 DEF IsParent
    <3>2. CASE d = 2 * c + 1 /\ ForkEffect(c) /\ Forking(c)
      <4>1. RightStarted(c)'
        BY <1>0, <2>3, <3>2 DEF ForkEffect, Reaches, Becomes, RightStarted, CallOK
      <4> QED
        BY <3>2, <4>1 DEF IsParent
    <3>3. CASE d = 2 * c + 1 /\ RightEffect(c) /\ ~ Forking(c)
      <4>1. RightStarted(c)'
        BY <1>0, <2>3, <3>3 DEF RightEffect, Reaches, Becomes, RightStarted, CallOK
      <4> QED
        BY <3>3, <4>1 DEF IsParent
    <3> QED
      BY <2>1, <3>1, <3>2, <3>3
  <2> QED
    BY <1>0, <2>2, <2>4 DEF HasParent
<1>2. CASE d \in DOMAIN calls
  <2>1. PidOK(d)'
    BY <1>0, <1>2, OthersStay DEF Shape, TreeInv, PidOK
  <2>2. HasParent(d)'
    <3>1. CASE d = Root
      BY <3>1 DEF HasParent
    <3>2. CASE d # Root
      <4>1. PICK e \in DOMAIN calls : IsParent(e, d)
        BY <1>2, <3>2 DEF Shape, TreeInv, HasParent
      <4>2. IsParent(e, d)'
        BY <4>1, StartedStep DEF IsParent
      <4> QED
        BY <1>0, <4>2 DEF HasParent
    <3> QED
      BY <3>1, <3>2
  <2> QED
    BY <2>1, <2>2
<1> QED
  BY <1>1, <1>2

\* The phase of main, and the processes of the first sort, stay in order.
LEMMA PhaseStep ==
  ASSUME Shape, NEW c \in DOMAIN calls, Call(c)
  PROVE  PhaseOK'
<1>0. /\ PhaseOK /\ phase' = phase /\ Running(c) /\ CallOK(c) /\ phase \in {"forking", "vanilla"}
      /\ DOMAIN calls \subseteq DOMAIN calls' /\ DOMAIN proc \subseteq DOMAIN proc'
  BY Effects, OthersStay, ProcsStay DEF Shape, TypesOK, TreeInv, PhaseOK
<1>1. /\ Root \in DOMAIN calls' /\ Root \in DOMAIN proc'
      /\ calls'[Root].low = 0 /\ calls'[Root].high = N - 1 /\ calls'[Root].pid = Root
      /\ proc'[Root].status = "running"
  BY <1>0, OthersStay, ProcsStay DEF PhaseOK
<1>2. CASE phase = "vanilla"
  <2>1. \A d \in DOMAIN calls : calls[d].kind = "vanilla" /\ calls[d].pid = Root
    BY <1>2 DEF Shape, PhaseOK
  <2>2. ~ Forking(c) /\ calls[c].pc # "fork"
    BY <1>0, <2>1 DEF Forking, Forks, CallOK
  <2>3. ASSUME NEW d \in DOMAIN calls' PROVE calls'[d].kind = "vanilla" /\ calls'[d].pid = Root
    <3>1. CASE d \in DOMAIN calls
      BY <2>1, <3>1, OthersStay
    <3>2. CASE d \notin DOMAIN calls
      <4>1. calls'[d].kind = "vanilla" /\ calls'[d].pid = calls[c].pid
        BY <2>2, <3>2, NewCalls
      <4> QED
        BY <2>1, <4>1
    <3> QED
      BY <3>1, <3>2
  <2>4. \A q \in DOMAIN proc' \ {Root} : proc'[q].status = "reaped"
    BY <1>0, <1>2, <2>2, ProcsStay DEF PhaseOK, ForkEffect
  <2> QED
    BY <1>0, <1>1, <1>2, <2>3, <2>4 DEF PhaseOK
<1>3. CASE phase = "forking"
  <2>1. ASSUME NEW q \in DOMAIN proc' PROVE ProcOK(q)'
    <3>1. CASE q \in DOMAIN proc
      <4>1. ProcOK(q)
        BY <1>3, <3>1 DEF Shape, PhaseOK
      <4>2. q \in DOMAIN calls' /\ calls'[q].pid = q /\ (proc'[q].status # "running" => ~ Running(q)')
        BY <1>0, <3>1, <4>1, OthersStay, ProcsStay DEF ProcOK
      <4>3. ASSUME NEW d \in DOMAIN calls, q = 2 * d + 1, RightStarted(d), Forking(d)
            PROVE  d \in DOMAIN calls' /\ q = 2 * d + 1 /\ RightStarted(d)' /\ Forking(d)'
        BY <4>3, OthersStay, StartedStep
      <4> QED
        BY <4>1, <4>2, <4>3 DEF ProcOK
    <3>2. CASE q \notin DOMAIN proc
      <4>1. q = 2 * c + 1 /\ ForkEffect(c) /\ proc'[q].status = "running"
        BY <3>2, ProcsStay
      <4>2. q \in DOMAIN calls' \ DOMAIN calls /\ calls'[q].pid = q
        BY <4>1 DEF ForkEffect, Steps, Starts
      <4>3. RightStarted(c)' /\ Forking(c)'
        <5>1. calls[c].pc = "fork" /\ Forking(c) /\ Parted(c) /\ ~ calls[c].lost
          BY <1>0, <4>1 DEF ForkEffect, CallOK
        <5>2. Forking(c)' /\ Parted(c)' /\ ~ calls'[c].lost /\ calls'[c].pc = "left"
          BY <4>1, <5>1, OthersStay DEF ForkEffect, Reaches, Becomes
        <5> QED
          BY <5>2 DEF RightStarted
      <4> QED
        BY <1>0, <4>1, <4>2, <4>3 DEF ProcOK
    <3> QED
      BY <3>1, <3>2
  <2> QED
    BY <1>0, <1>1, <1>3, <2>1 DEF PhaseOK
<1> QED
  BY <1>0, <1>2, <1>3

\* The shape of the calls and processes stays in order.
LEMMA ShapeStep ==
  ASSUME Shape, NEW c \in DOMAIN calls, Call(c)
  PROVE  Shape'
BY TypesStep, PhaseStep, CallOKStep, LeftGivenStep, RightGivenStep, HasParentStep DEF Shape, TreeInv

-----------------------------------------------------------------------------

\* How a step of call c changes the cells that c owns.
LEMMA OwnCells ==
  ASSUME Shape, NEW c \in DOMAIN calls, Call(c)
  PROVE  /\ \A x \in Int : Owns(c, x)' => Owns(c, x)
         /\ \A x \in Int, n \in DOMAIN calls' \ DOMAIN calls : Owns(n, x)' => Owns(c, x) /\ ~ Owns(c, x)'
<1>0. /\ CallEffect(c) /\ CallOK(c) /\ CallOK(c)' /\ calls'[c].low = calls[c].low /\ calls'[c].high = calls[c].high
      /\ calls[c].low \in Int /\ calls[c].high \in Int /\ calls[c].i \in Int
      /\ (Forking(c)' <=> Forking(c))
      /\ Parted(c) => calls'[c].i = calls[c].i
      /\ calls[c].lost \in BOOLEAN
  BY Effects, Bounds, OthersStay, CallOKStep
<1> USE DEF Forking
<1>1. CASE EnterEffect(c) \/ ScanEffect(c)
  BY <1>0, <1>1 DEF EnterEffect, ScanEffect, Steps, Reaches, Becomes, Owns, LeftPending, RightPending, CallOK
<1>2. CASE PlaceEffect(c)
  BY <1>0, <1>2 DEF PlaceEffect, Steps, Reaches, Becomes, Owns, LeftPending, RightPending, CallOK
<1>3. CASE ForkEffect(c)
  <2>1. /\ calls[c].pc = "fork" /\ calls'[c].pc = "left" /\ ~ calls'[c].lost /\ ~ calls[c].lost
        /\ Forks(calls[c]) /\ Forks(calls'[c])
        /\ calls[c].low <= calls[c].i /\ calls[c].i <= calls[c].high /\ calls'[c].i = calls[c].i
    BY <1>0, <1>3 DEF ForkEffect, Reaches, Becomes, CallOK
  <2>2. \A n \in DOMAIN calls' \ DOMAIN calls :
          /\ calls'[n].pc = "enter" /\ ~ calls'[n].lost
          /\ calls'[n].low = calls[c].i + 1 /\ calls'[n].high = calls[c].high
    BY <1>3 DEF ForkEffect, Steps, Starts
  <2> QED
    BY <1>0, <2>1, <2>2 DEF Owns, LeftPending, RightPending
<1>4. CASE LostEffect(c)
  BY <1>0, <1>4 DEF LostEffect, Steps, Becomes, Owns, LeftPending, RightPending, CallOK
<1>5. CASE LeftEffect(c)
  <2>1. /\ calls[c].pc = "left" /\ calls'[c].pc = "inLeft" /\ (calls'[c].lost <=> calls[c].lost)
        /\ (Forks(calls[c]) <=> Forks(calls'[c]))
        /\ calls[c].low <= calls[c].i /\ calls[c].i <= calls[c].high /\ calls'[c].i = calls[c].i
    BY <1>0, <1>5 DEF LeftEffect, Reaches, Becomes, CallOK
  <2>2. \A n \in DOMAIN calls' \ DOMAIN calls :
          /\ calls'[n].pc = "enter" /\ ~ calls'[n].lost
          /\ calls'[n].low = calls[c].low /\ calls'[n].high = calls[c].i - 1
    BY <1>5 DEF LeftEffect, Steps, Starts
  <2> QED
    BY <1>0, <2>1, <2>2 DEF Owns, LeftPending, RightPending
<1>6. CASE LeftDoneEffect(c)
  BY <1>0, <1>6 DEF LeftDoneEffect, Steps, Reaches, Becomes, Owns, LeftPending, RightPending, CallOK
<1>7. CASE RightEffect(c)
  <2>1. /\ calls[c].pc = "right" /\ calls'[c].pc = "inRight" /\ ~ calls'[c].lost /\ ~ calls[c].lost
        /\ ~ Forks(calls[c]) /\ ~ Forks(calls'[c])
        /\ calls[c].low <= calls[c].i /\ calls[c].i <= calls[c].high /\ calls'[c].i = calls[c].i
    BY <1>0, <1>7 DEF RightEffect, Reaches, Becomes, CallOK
  <2>2. \A n \in DOMAIN calls' \ DOMAIN calls :
          /\ calls'[n].pc = "enter" /\ ~ calls'[n].lost
          /\ calls'[n].low = calls[c].i + 1 /\ calls'[n].high = calls[c].high
    BY <1>7 DEF RightEffect, Steps, Starts
  <2> QED
    BY <1>0, <2>1, <2>2 DEF Owns, LeftPending, RightPending
<1>8. CASE RightDoneEffect(c) \/ WaitEffect(c)
  BY <1>0, <1>8 DEF RightDoneEffect, WaitEffect, Steps, Reaches, Becomes, Owns, LeftPending, RightPending, CallOK
<1> QED
  BY <1>0, <1>1, <1>2, <1>3, <1>4, <1>5, <1>6, <1>7, <1>8 DEF CallEffect

\* No step of a call gives a cell a second owner, or an owner to a cell that
\* had none.
LEMMA Ownership ==
  ASSUME Shape, NEW c \in DOMAIN calls, Call(c)
  PROVE  /\ Apart => Apart'
         /\ \A x \in Int : Owned(x)' => Owned(x)
         /\ \A d \in DOMAIN calls, x \in Int : d # c => (Owns(d, x)' <=> Owns(d, x))
<1>1. /\ DOMAIN calls \subseteq DOMAIN calls'
      /\ \A d \in DOMAIN calls : d # c => calls'[d] = calls[d]
      /\ \A m, n \in DOMAIN calls' \ DOMAIN calls : m = n
  <2>1. \A m, n \in DOMAIN calls' \ DOMAIN calls : m = n
    BY Effects DEF CallEffect, EnterEffect, ScanEffect, PlaceEffect, ForkEffect, LostEffect,
       LeftEffect, LeftDoneEffect, RightEffect, RightDoneEffect, WaitEffect, Steps
  <2> QED
    BY <2>1, OthersStay
<1>2. \A d \in DOMAIN calls, x \in Int : d # c => (Owns(d, x)' <=> Owns(d, x))
  BY <1>1 DEF Owns, LeftPending, RightPending, Forks
<1>3. \A d \in DOMAIN calls' : \/ d \in DOMAIN calls /\ d # c
                             \/ d = c
                             \/ d \in DOMAIN calls' \ DOMAIN calls
  OBVIOUS
<1>4. /\ \A x \in Int : Owns(c, x)' => Owns(c, x)
      /\ \A x \in Int, n \in DOMAIN calls' \ DOMAIN calls : Owns(n, x)' => Owns(c, x) /\ ~ Owns(c, x)'
  BY OwnCells
<1>5. \A x \in Int : Owned(x)' => Owned(x)
  <2> SUFFICES ASSUME NEW x \in Int, NEW d \in DOMAIN calls', Owns(d, x)' PROVE \E e \in DOMAIN calls : Owns(e, x)
    BY DEF Owned
  <2> QED
    BY <1>2, <1>3, <1>4
<1>6. Apart => Apart'
  <2> SUFFICES ASSUME Apart, NEW d \in DOMAIN calls', NEW e \in DOMAIN calls', d # e,
                      NEW x \in Int, Owns(d, x)', Owns(e, x)'
               PROVE  FALSE
    BY DEF Apart
  <2> QED
    BY <1>1, <1>2, <1>3, <1>4 DEF Apart
<1> QED
  BY <1>2, <1>5, <1>6

\* What is in its final place stays there.
LEMMA SettledStep ==
  ASSUME Shape, Safety, NEW c \in DOMAIN calls, Call(c)
  PROVE  Safety'
<1>1. Apart /\ \A d \in DOMAIN calls : Settled(d)
  BY DEF Safety
<1>2. Apart' /\ \A x \in Int : Owned(x)' => Owned(x)
  BY <1>1, Ownership
<1>3. ASSUME NEW d \in DOMAIN calls' PROVE Settled(d)'
  <2>1. CASE d \in DOMAIN calls /\ d # c
    <3>1. calls'[d] = calls[d] /\ calls[d].i \in Int
      BY <2>1, OthersStay, Bounds
    <3> QED
      BY <1>1, <1>2, <2>1, <3>1 DEF Settled, Running, Parted
  <2>2. CASE d \notin DOMAIN calls
    BY <2>2, NewCalls DEF Settled, Running, Parted
  <2>3. CASE d = c
    <3>0. /\ Running(c) /\ CallOK(c) /\ calls'[c].low = calls[c].low /\ calls'[c].high = calls[c].high
          /\ calls[c].low \in Int /\ calls[c].high \in Int /\ calls[c].i \in Int
      BY Effects, Bounds, OthersStay
    <3>1. CASE Parted(c)
      <4>1. Parted(c)' /\ calls'[c].i = calls[c].i
        BY <3>1, OthersStay
      <4> QED
        BY <1>1, <1>2, <2>3, <3>0, <3>1, <4>1 DEF Settled
    <3>2. CASE calls[c].pc = "enter" /\ calls'[c].pc = "done" /\ DOMAIN calls' = DOMAIN calls
      <4>1. ~ Parted(c)' /\ \A x \in Int : ~ Owns(c, x)'
        <5>1. EnterEffect(c)
          BY <3>2, Effects DEF CallEffect, ScanEffect, PlaceEffect, ForkEffect, LostEffect, LeftEffect,
             LeftDoneEffect, RightEffect, RightDoneEffect, WaitEffect, Becomes, Reaches
        <5>2. calls[c].high <= calls[c].low /\ calls'[c].lost = calls[c].lost
          BY <3>2, <5>1 DEF EnterEffect, Becomes, Reaches
        <5>3. ~ calls[c].lost
          BY <3>0, <3>2 DEF CallOK, Parted
        <5> QED
          BY <3>0, <3>2, <5>2, <5>3 DEF Parted, Owns, LeftPending, RightPending
      <4>2. ASSUME NEW x \in Int, calls[c].low <= x, x <= calls[c].high PROVE ~ Owned(x)'
        <5>1. Owns(c, x)
          BY <3>2, <4>2 DEF Owns
        <5> QED
          BY <1>1, <3>2, <4>1, <5>1, Ownership DEF Owned, Apart
      <4> QED
        BY <2>3, <3>0, <4>1, <4>2 DEF Settled
    <3>3. CASE PlaceEffect(c) /\ calls'[c].pc \in {"fork", "left"} /\ DOMAIN calls' = DOMAIN calls
      <4>1. /\ calls'[c].i = calls[c].i /\ calls[c].low <= calls[c].i /\ calls[c].i <= calls[c].high
            /\ calls[c].pc = "loop"
        BY <3>0, <3>3, Bounds DEF PlaceEffect, Reaches, Becomes, CallOK
      <4>x. PICK x \in Int : x = calls[c].i
        BY <3>0
      <4>2. Owns(c, x) /\ calls'[c].i = x
        BY <4>1, <4>x DEF Owns
      <4>3. ~ Owns(c, x)'
        BY <3>3, <4>2 DEF Owns
      <4>4. ~ \E e \in DOMAIN calls' : Owns(e, x)'
        <5> SUFFICES ASSUME NEW e \in DOMAIN calls, Owns(e, x)' PROVE FALSE
          BY <3>3
        <5>1. e # c
          BY <4>3
        <5>2. Owns(e, x)
          BY <4>2, <5>1, Ownership
        <5> QED
          BY <1>1, <4>2, <5>1, <5>2 DEF Apart
      <4>5. ~ Owned(calls[c].i)'
        BY <4>2, <4>4 DEF Owned
      <4> QED
        BY <2>3, <3>3, <4>5 DEF Settled, Running
    <3>4. CASE calls'[c].pc = "loop"
      BY <2>3, <3>4 DEF Settled, Running, Parted
    <3> QED
      BY <3>0, <3>1, <3>2, <3>3, <3>4, PcStep DEF Moves, CallOK
  <2> QED
    BY <2>1, <2>2, <2>3
<1> QED
  BY <1>2, <1>3 DEF Safety

-----------------------------------------------------------------------------

\* A call of the partition loop only writes to its own segment.
LEMMA Writes ==
  ASSUME Shape, NEW c \in DOMAIN calls, Call(c), NEW x \in Index, arr'[x] # arr[x]
  PROVE  calls[c].pc = "loop" /\ calls[c].low <= x /\ x <= calls[c].high
<1>1. /\ CallEffect(c) /\ CallOK(c) /\ calls[c].i \in Int /\ calls[c].j \in Int
      /\ calls[c].low \in Int /\ calls[c].high \in Int /\ 0 <= calls[c].low /\ calls[c].high <= N - 1
  BY Effects, Bounds
<1>2. calls[c].pc = "loop" /\ arr' = Exchanged(arr, calls[c].i, calls[c].j)
  BY <1>1 DEF CallEffect, EnterEffect, ScanEffect, PlaceEffect, ForkEffect, LostEffect,
     LeftEffect, LeftDoneEffect, RightEffect, RightDoneEffect, WaitEffect
<1>3. /\ calls[c].i \in Index /\ calls[c].j \in Index
      /\ calls[c].low <= calls[c].i /\ calls[c].i <= calls[c].j /\ calls[c].j <= calls[c].high
  BY <1>1, <1>2, NAssumption DEF CallOK, Index
<1>4. x \in {calls[c].i, calls[c].j}
  BY <1>2, <1>3, ExchangeTypes
<1> QED
  BY <1>1, <1>2, <1>3, <1>4 DEF Index

\* Every loop keeps its invariant: the other calls write to other cells.
LEMMA LoopsStep ==
  ASSUME Shape, Safety, Loops, NEW c \in DOMAIN calls, Call(c), NEW d \in DOMAIN calls'
  PROVE  LoopInv(d)'
<1>0. /\ CallEffect(c) /\ CallOK(c) /\ arr \in [Index -> Int]
      /\ calls[c].low \in Int /\ calls[c].high \in Int /\ 0 <= calls[c].low /\ calls[c].high <= N - 1
      /\ calls[c].i \in Int /\ calls[c].j \in Int /\ calls[c].pivot \in Int
      /\ calls'[c].low = calls[c].low /\ calls'[c].high = calls[c].high
      /\ LoopInv(c)
  BY Effects, Bounds, OthersStay, Elements DEF Loops
<1>1. CASE d \in DOMAIN calls /\ d # c
  <2>1. calls'[d] = calls[d] /\ LoopInv(d) /\ CallOK(d)
        /\ calls[d].low \in Int /\ calls[d].high \in Int /\ 0 <= calls[d].low /\ calls[d].high <= N - 1
        /\ calls[d].i \in Int /\ calls[d].j \in Int
    BY <1>1, OthersStay, Bounds DEF Loops
  <2>2. SUFFICES ASSUME calls[d].pc = "loop"
                 PROVE  LoopInv(d)'
    BY <2>1 DEF LoopInv
  <2>3. /\ calls[d].low <= calls[d].i /\ calls[d].i <= calls[d].j /\ calls[d].j <= calls[d].high
        /\ calls[d].low < calls[d].high
    BY <2>1, <2>2 DEF CallOK
  <2>4. \A x \in Int : calls[d].low <= x /\ x <= calls[d].high => arr'[x] = arr[x]
    <3> SUFFICES ASSUME NEW x \in Int, calls[d].low <= x, x <= calls[d].high, arr'[x] # arr[x]
                 PROVE  FALSE
      OBVIOUS
    <3>1. x \in Index
      BY <2>1, NAssumption DEF Index
    <3>2. Owns(c, x)
      BY <3>1, Writes DEF Owns
    <3>3. Owns(d, x)
      BY <2>2 DEF Owns
    <3> QED
      BY <1>1, <3>2, <3>3 DEF Safety, Apart
  <2> QED
    BY <2>1, <2>2, <2>3, <2>4 DEF LoopInv
<1>2. CASE d \notin DOMAIN calls
  BY <1>2, NewCalls DEF LoopInv
<1>3. CASE d = c
  <2>1. CASE EnterEffect(c)
    BY <1>0, <1>3, <2>1 DEF EnterEffect, Reaches, Becomes, LoopInv, CallOK
  <2>2. CASE ScanEffect(c)
    <3> DEFINE i == calls[c].i  j == calls[c].j  pivot == calls[c].pivot  low == calls[c].low  high == calls[c].high
    <3>1. /\ calls[c].pc = "loop" /\ calls'[c].pc = "loop" /\ calls'[c].pivot = pivot
          /\ calls'[c].j = j + 1 /\ low <= i /\ i <= j /\ j < high
      BY <1>0, <2>2 DEF ScanEffect, Becomes, CallOK
    <3>2. /\ i \in Index /\ j \in Index /\ high \in Index
          /\ \A x \in Int : low <= x /\ x <= high => x \in Index
      BY SMTT(30), <1>0, <3>1, NAssumption DEF Index
    <3>3. CASE UNCHANGED arr /\ pivot <= arr[j] /\ calls'[c].i = i
      <4>1. \A x \in Int : i <= x /\ x < j + 1 => pivot <= arr[x]
        <5> SUFFICES ASSUME NEW x \in Int, i <= x, x < j + 1 PROVE pivot <= arr[x]
          OBVIOUS
        <5>1. x = j \/ x < j
          BY <1>0
        <5> QED
          BY <1>0, <3>1, <3>3, <5>1 DEF LoopInv
      <4> QED
        BY <1>0, <1>3, <3>1, <3>3, <4>1 DEF LoopInv
    <3>4. CASE arr[j] < pivot /\ calls'[c].i = i + 1 /\ arr' = Exchanged(arr, i, j)
      <4>1. \A x \in Index : arr'[x] = IF x = j THEN arr[i] ELSE IF x = i THEN arr[j] ELSE arr[x]
        BY <3>2, <3>4, ExchangeTypes
      <4>2. pivot = arr'[high]
        BY <1>0, <3>1, <3>2, <4>1 DEF LoopInv
      <4>3. ASSUME NEW x \in Int, low <= x, x < i + 1 PROVE arr'[x] <= pivot
        <5>1. x \in Index /\ (x = i \/ x < i)
          BY <1>0, <3>1, <3>2, <4>3
        <5>2. CASE x = i
          <6>1. arr'[x] = arr[j]
            BY <4>1, <5>1, <5>2
          <6> QED
            BY <1>0, <3>1, <3>2, <3>4, <6>1
        <5>3. CASE x < i
          <6>1. arr'[x] = arr[x]
            BY <1>0, <3>1, <4>1, <5>1, <5>3
          <6> QED
            BY <1>0, <3>1, <4>3, <5>3, <6>1 DEF LoopInv
        <5> QED
          BY <5>1, <5>2, <5>3
      <4>4. ASSUME NEW x \in Int, i + 1 <= x, x < j + 1 PROVE pivot <= arr'[x]
        <5>1. x \in Index /\ x # i /\ (x = j \/ x < j)
          BY <1>0, <3>1, <3>2, <4>4
        <5>2. CASE x = j
          <6>1. arr'[x] = arr[i] /\ i < j
            BY <1>0, <3>1, <4>1, <4>4, <5>1, <5>2
          <6> QED
            BY <1>0, <3>1, <6>1 DEF LoopInv
        <5>3. CASE x < j
          <6>1. arr'[x] = arr[x] /\ i <= x
            BY <1>0, <3>1, <4>1, <4>4, <5>1, <5>3
          <6> QED
            BY <1>0, <3>1, <5>3, <6>1 DEF LoopInv
        <5> QED
          BY <5>1, <5>2, <5>3
      <4> QED
        BY <1>0, <1>3, <3>1, <3>4, <4>2, <4>3, <4>4 DEF LoopInv
    <3> QED
      BY <2>2, <3>3, <3>4 DEF ScanEffect, Becomes
  <2>3. CASE calls'[c].pc # "loop"
    BY <1>3, <2>3 DEF LoopInv
  <2> QED
    BY <1>0, <2>1, <2>2, <2>3 DEF CallEffect, PlaceEffect, ForkEffect, LostEffect, LeftEffect,
       LeftDoneEffect, RightEffect, RightDoneEffect, WaitEffect, Reaches, Becomes
<1> QED
  BY <1>1, <1>2, <1>3

-----------------------------------------------------------------------------

\* The members of what a call has pending, and what they hold: cells it owns.
LEMMA PendingMembers ==
  ASSUME NEW c
  PROVE  \A t : t \in Pending(c) <=>
           \/ calls[c].pc \in {"enter", "loop"} /\ t \in Piece(calls[c].low, calls[c].high)
           \/ LeftPending(calls[c]) /\ t \in Piece(calls[c].low, calls[c].i - 1)
           \/ RightPending(calls[c]) /\ t \in Piece(calls[c].i + 1, calls[c].high)
BY DEF Pending

\* The same after a step.
LEMMA PendingMembersAfter ==
  ASSUME NEW c
  PROVE  \A t : t \in Pending(c)' <=>
           \/ calls'[c].pc \in {"enter", "loop"} /\ t \in Piece(calls'[c].low, calls'[c].high)
           \/ LeftPending(calls'[c]) /\ t \in Piece(calls'[c].low, calls'[c].i - 1)
           \/ RightPending(calls'[c]) /\ t \in Piece(calls'[c].i + 1, calls'[c].high)
BY DEF Pending, LeftPending, RightPending, Piece, Parts!Piece, Forks

\* The members of the work, before and after a step.
LEMMA WorkMembers ==
  /\ \A t : t \in Work <=> \E d \in DOMAIN calls : t \in Pending(d)
  /\ \A t : t \in Work' <=> \E d \in DOMAIN calls' : t \in Pending(d)'
BY DEF Work

\* The segments that call c and the call it starts have pending after a step.
NewWork(c, t) == t \in Pending(c)' \/ \E n \in DOMAIN calls' \ DOMAIN calls : t \in Pending(n)'

\* A step of call c replaces what c had pending.
LEMMA WorkStep ==
  ASSUME Shape, NEW c \in DOMAIN calls, Call(c), NEW t
  PROVE  t \in Work' <=> NewWork(c, t) \/ \E d \in DOMAIN calls \ {c} : t \in Pending(d)
<1>1. \A d \in DOMAIN calls' : d = c \/ d \in DOMAIN calls \ {c} \/ d \in DOMAIN calls' \ DOMAIN calls
  OBVIOUS
<1>2. ASSUME NEW d \in DOMAIN calls \ {c} PROVE t \in Pending(d)' <=> t \in Pending(d)
  <2>1. calls'[d] = calls[d]
    BY OthersStay
  <2> QED
    BY <2>1, PendingMembers, PendingMembersAfter
<1>3. DOMAIN calls \subseteq DOMAIN calls'
  BY OthersStay
<1> QED
  BY <1>1, <1>2, <1>3, WorkMembers DEF NewWork

\* A segment that a call has pending holds only cells that it owns.
LEMMA PendingOwned ==
  ASSUME Shape, NEW c \in DOMAIN calls, NEW s \in Pending(c)
  PROVE  s.lo \in Int /\ s.hi \in Int /\ s.lo < s.hi /\ \A x \in s.lo .. s.hi : Owns(c, x)
<1>1. /\ calls[c].low \in Int /\ calls[c].high \in Int /\ calls[c].i \in Int
  BY Bounds
<1>2. \A l, h \in Int : \A t \in Piece(l, h) : t.lo = l /\ t.hi = h /\ l < h
  BY DEF Piece, Parts!Piece
<1>3. \/ calls[c].pc \in {"enter", "loop"} /\ s \in Piece(calls[c].low, calls[c].high)
      \/ LeftPending(calls[c]) /\ s \in Piece(calls[c].low, calls[c].i - 1)
      \/ RightPending(calls[c]) /\ s \in Piece(calls[c].i + 1, calls[c].high)
  BY PendingMembers
<1>4. CASE calls[c].pc \in {"enter", "loop"} /\ s \in Piece(calls[c].low, calls[c].high)
  BY <1>1, <1>2, <1>4 DEF Owns
<1>5. CASE LeftPending(calls[c]) /\ s \in Piece(calls[c].low, calls[c].i - 1)
  <2>1. s.lo = calls[c].low /\ s.hi = calls[c].i - 1 /\ s.lo < s.hi
    BY <1>1, <1>2, <1>5
  <2> QED
    BY <1>1, <1>5, <2>1 DEF Owns
<1>6. CASE RightPending(calls[c]) /\ s \in Piece(calls[c].i + 1, calls[c].high)
  <2>1. s.lo = calls[c].i + 1 /\ s.hi = calls[c].high /\ s.lo < s.hi
    BY <1>1, <1>2, <1>6
  <2> QED
    BY <1>1, <1>6, <2>1 DEF Owns
<1> QED
  BY <1>3, <1>4, <1>5, <1>6

\* A step that does not place a pivot leaves the work as it is.
LEMMA SameWork ==
  ASSUME Shape, NEW c \in DOMAIN calls, Call(c), ~ PlaceEffect(c)
  PROVE  Work' = Work
<1>0. /\ CallEffect(c) /\ CallOK(c) /\ CallOK(c)'
      /\ calls'[c].low = calls[c].low /\ calls'[c].high = calls[c].high
      /\ (Parted(c) => calls'[c].i = calls[c].i) /\ (Forks(calls'[c]) <=> Forks(calls[c]))
      /\ calls[c].low \in Int /\ calls[c].high \in Int /\ calls[c].lost \in BOOLEAN
  BY Effects, OthersStay, CallOKStep, Bounds DEF Forking
<1> DEFINE L == Piece(calls[c].low, calls[c].i - 1)
           R == Piece(calls[c].i + 1, calls[c].high)
<1>1. SUFFICES ASSUME NEW t PROVE NewWork(c, t) <=> t \in Pending(c)
  <2>1. \A t : t \in Work' <=> t \in Pending(c) \/ \E d \in DOMAIN calls \ {c} : t \in Pending(d)
    BY <1>1, WorkStep
  <2>2. \A t : t \in Work <=> t \in Pending(c) \/ \E d \in DOMAIN calls \ {c} : t \in Pending(d)
    BY WorkMembers
  <2>3. \A t : t \in Work' <=> t \in Work
    BY <2>1, <2>2
  <2> QED
    BY <2>3
<1>p. /\ t \in Pending(c) <=>
           \/ calls[c].pc \in {"enter", "loop"} /\ t \in Piece(calls[c].low, calls[c].high)
           \/ LeftPending(calls[c]) /\ t \in L
           \/ RightPending(calls[c]) /\ t \in R
      /\ t \in Pending(c)' <=>
           \/ calls'[c].pc \in {"enter", "loop"} /\ t \in Piece(calls[c].low, calls[c].high)
           \/ LeftPending(calls'[c]) /\ t \in Piece(calls[c].low, calls'[c].i - 1)
           \/ RightPending(calls'[c]) /\ t \in Piece(calls'[c].i + 1, calls[c].high)
  BY <1>0, PendingMembers, PendingMembersAfter
<1>n. ASSUME NEW n \in DOMAIN calls' \ DOMAIN calls
      PROVE  t \in Pending(n)' <=> t \in Piece(calls'[n].low, calls'[n].high)
  <2>1. calls'[n].pc = "enter" /\ calls'[n].lost = FALSE
    BY NewCalls
  <2> QED
    BY <2>1, PendingMembersAfter DEF LeftPending, RightPending
<1> HIDE DEF L, R
<1>2. CASE EnterEffect(c)
  <2>1. calls[c].pc = "enter" /\ DOMAIN calls' = DOMAIN calls /\ ~ calls[c].lost
    BY <1>0, <1>2 DEF EnterEffect, Steps, CallOK, Parted
  <2>2. CASE calls'[c].pc = "loop" /\ ~ calls'[c].lost
    BY <1>p, <2>1, <2>2 DEF NewWork, LeftPending, RightPending
  <2>3. CASE calls'[c].pc = "done" /\ calls[c].high <= calls[c].low /\ ~ calls'[c].lost
    <3>1. Piece(calls[c].low, calls[c].high) = {}
      BY <1>0, <2>3 DEF Piece, Parts!Piece
    <3> QED
      BY <1>p, <2>1, <2>3, <3>1 DEF NewWork, LeftPending, RightPending
  <2> QED
    BY <1>2, <2>1, <2>2, <2>3 DEF EnterEffect, Reaches, Becomes
<1>3. CASE ScanEffect(c)
  <2>1. /\ calls[c].pc = "loop" /\ calls'[c].pc = "loop" /\ DOMAIN calls' = DOMAIN calls
        /\ ~ calls[c].lost /\ ~ calls'[c].lost
    BY <1>0, <1>3 DEF ScanEffect, Steps, Becomes, CallOK, Parted
  <2> QED
    BY <1>p, <2>1 DEF NewWork, LeftPending, RightPending
<1>4. ASSUME calls[c].pc \notin {"enter", "loop"}
      PROVE  t \in Pending(c)' <=> \/ calls'[c].pc \in {"enter", "loop"} /\ t \in Piece(calls[c].low, calls[c].high)
                                   \/ LeftPending(calls'[c]) /\ t \in L
                                   \/ RightPending(calls'[c]) /\ t \in R
  <2>1. calls[c].pc # "done"
    BY Effects DEF Running
  <2>2. calls'[c].i = calls[c].i
    BY <1>0, <1>4, <2>1 DEF CallOK
  <2> QED
    BY <1>p, <2>2 DEF L, R
<1>5. CASE ForkEffect(c)
  <2>1. /\ calls[c].pc = "fork" /\ calls'[c].pc = "left" /\ ~ calls[c].lost /\ ~ calls'[c].lost
        /\ Forks(calls[c]) /\ Forks(calls'[c]) /\ 2 * c + 1 \in DOMAIN calls' \ DOMAIN calls
    BY <1>0, <1>5 DEF ForkEffect, Steps, Starts, Reaches, Becomes, CallOK, Forking
  <2>2. \A n \in DOMAIN calls' \ DOMAIN calls : t \in Pending(n)' <=> t \in R
    BY <1>5, <1>n DEF ForkEffect, Steps, Starts, R
  <2> QED
    BY <1>p, <1>4, <2>1, <2>2 DEF NewWork, LeftPending, RightPending
<1>6. CASE LostEffect(c)
  <2>1. calls[c].pc = "fork" /\ calls'[c].pc = "left" /\ calls'[c].lost /\ DOMAIN calls' = DOMAIN calls
    BY <1>6 DEF LostEffect, Steps, Becomes
  <2> QED
    BY <1>p, <1>4, <2>1 DEF NewWork, LeftPending, RightPending
<1>7. CASE LeftEffect(c)
  <2>1. /\ calls[c].pc = "left" /\ calls'[c].pc = "inLeft" /\ calls'[c].lost = calls[c].lost
        /\ 2 * c \in DOMAIN calls' \ DOMAIN calls
    BY <1>7 DEF LeftEffect, Steps, Starts, Reaches, Becomes
  <2>2. \A n \in DOMAIN calls' \ DOMAIN calls : t \in Pending(n)' <=> t \in L
    BY <1>7, <1>n DEF LeftEffect, Steps, Starts, L
  <2> QED
    BY <1>0, <1>p, <1>4, <2>1, <2>2 DEF NewWork, LeftPending, RightPending
<1>8. CASE LeftDoneEffect(c)
  <2>1. /\ calls[c].pc = "inLeft" /\ calls'[c].lost = calls[c].lost /\ DOMAIN calls' = DOMAIN calls
        /\ \/ Forks(calls[c]) /\ calls'[c].pc = "wait"
           \/ ~ Forks(calls[c]) /\ calls'[c].pc = "right"
    BY <1>8 DEF LeftDoneEffect, Steps, Reaches, Becomes, Forking
  <2> QED
    BY <1>0, <1>p, <1>4, <2>1 DEF NewWork, LeftPending, RightPending
<1>9. CASE RightEffect(c)
  <2>1. /\ calls[c].pc = "right" /\ calls'[c].pc = "inRight" /\ ~ calls[c].lost /\ ~ calls'[c].lost
        /\ ~ Forks(calls[c]) /\ 2 * c + 1 \in DOMAIN calls' \ DOMAIN calls
    BY <1>0, <1>9 DEF RightEffect, Steps, Starts, Reaches, Becomes, CallOK, Forking
  <2>2. \A n \in DOMAIN calls' \ DOMAIN calls : t \in Pending(n)' <=> t \in R
    BY <1>9, <1>n DEF RightEffect, Steps, Starts, R
  <2> QED
    BY <1>0, <1>p, <1>4, <2>1, <2>2 DEF NewWork, LeftPending, RightPending
<1>10. CASE RightDoneEffect(c) \/ WaitEffect(c)
  <2>1. /\ calls[c].pc \in {"inRight", "wait"} /\ calls'[c].lost = calls[c].lost
        /\ calls'[c].pc = "done" /\ DOMAIN calls' = DOMAIN calls
    BY <1>10 DEF RightDoneEffect, WaitEffect, Steps, Reaches, Becomes
  <2> QED
    BY <1>0, <1>p, <1>4, <2>1 DEF NewWork, LeftPending, RightPending
<1> QED
  BY <1>0, <1>2, <1>3, <1>5, <1>6, <1>7, <1>8, <1>9, <1>10 DEF CallEffect

\* A placed pivot splits the segment of its call.
LEMMA SplitWork ==
  ASSUME Shape, Safety, NEW c \in DOMAIN calls, Call(c), PlaceEffect(c),
         NEW s, s = [lo |-> calls[c].low, hi |-> calls[c].high]
  PROVE  /\ s \in Work
         /\ Work' = (Work \ {s}) \cup Piece(s.lo, calls[c].i - 1) \cup Piece(calls[c].i + 1, s.hi)
<1>0. /\ calls'[c].low = calls[c].low /\ calls'[c].high = calls[c].high
      /\ calls[c].low \in Int /\ calls[c].high \in Int
      /\ calls[c].pc = "loop" /\ calls[c].low < calls[c].high /\ ~ calls[c].lost
      /\ DOMAIN calls' = DOMAIN calls
      /\ s.lo = calls[c].low /\ s.hi = calls[c].high
  BY Bounds, OthersStay DEF PlaceEffect, Steps, CallOK, Parted
<1>a. /\ calls'[c].i = calls[c].i /\ ~ calls'[c].lost
      /\ \/ calls'[c].pc = "fork" /\ Forks(calls'[c])
         \/ calls'[c].pc = "left" /\ ~ Forks(calls'[c])
  BY <1>0, OthersStay DEF PlaceEffect, Reaches, Becomes, Forking
<1>1. \A t : t \in Pending(c) <=> t = s
  BY <1>0, PendingMembers DEF LeftPending, RightPending, Piece, Parts!Piece
<1>2. \A t : t \in Pending(c)' <=> t \in Piece(s.lo, calls[c].i - 1) \cup Piece(calls[c].i + 1, s.hi)
  BY <1>0, <1>a, PendingMembersAfter DEF LeftPending, RightPending
<1>3. ASSUME NEW d \in DOMAIN calls \ {c} PROVE s \notin Pending(d)
  <2>1. s.lo \in s.lo .. s.hi
    BY <1>0
  <2>2. Owns(c, s.lo) /\ (s \in Pending(d) => Owns(d, s.lo))
    BY <1>1, <2>1, PendingOwned
  <2> QED
    BY <1>0, <2>2 DEF Safety, Apart
<1>4. \A t : t \in Work <=> t = s \/ \E d \in DOMAIN calls \ {c} : t \in Pending(d)
  BY <1>1, WorkMembers
<1>5. \A t : t \in Work' <=> t \in Pending(c)' \/ \E d \in DOMAIN calls \ {c} : t \in Pending(d)
  BY <1>0, WorkStep DEF NewWork
<1>6. \A t : t \in Work' <=>
        t \in (Work \ {s}) \cup Piece(s.lo, calls[c].i - 1) \cup Piece(calls[c].i + 1, s.hi)
  BY <1>2, <1>3, <1>4, <1>5
<1> QED
  BY <1>4, <1>6

\* A step of a call exchanges two elements of one of its segments, or puts a
\* pivot in place and splits the segment around it, or changes neither the
\* array nor the segments.
LEMMA CallRefines ==
  ASSUME Shape, Safety, Loops, NEW c \in DOMAIN calls, Call(c)
  PROVE  \/ arr' = arr /\ Work' = Work
         \/ \E s \in Work : \E p, q \in s.lo .. s.hi :
              /\ arr' = Exchanged(arr, p, q)
              /\ \/ Work' = Work
                 \/ /\ Parts!Separates(arr', s, p)
                    /\ Work' = (Work \ {s}) \cup Piece(s.lo, p - 1) \cup Piece(p + 1, s.hi)
<1> DEFINE i == calls[c].i  j == calls[c].j  pivot == calls[c].pivot
           low == calls[c].low  high == calls[c].high
           s == [lo |-> low, hi |-> high]
<1>0. /\ CallEffect(c) /\ CallOK(c) /\ LoopInv(c) /\ arr \in [Index -> Int]
      /\ low \in Int /\ high \in Int /\ 0 <= low /\ high <= N - 1
      /\ i \in Int /\ j \in Int /\ pivot \in Int
      /\ s.lo = low /\ s.hi = high
  BY Effects, Bounds, Elements DEF Loops
<1>1. ASSUME calls[c].pc = "loop"
      PROVE  /\ low <= i /\ i <= j /\ j <= high /\ low < high
             /\ i \in Index /\ j \in Index /\ high \in Index
             /\ \A x \in low .. high : x \in Index
  BY <1>0, <1>1, NAssumption DEF CallOK, Index
<1>3. CASE ScanEffect(c) /\ arr[j] < pivot
  <2>1. s \in Work /\ Work' = Work
    <3>1. ~ PlaceEffect(c)
      BY <1>0, <1>3 DEF ScanEffect, PlaceEffect
    <3>2. s \in Pending(c)
      BY <1>1, <1>3, PendingMembers DEF ScanEffect, Piece, Parts!Piece
    <3> QED
      BY <3>1, <3>2, SameWork, WorkMembers
  <2>2. i \in s.lo .. s.hi /\ j \in s.lo .. s.hi
    BY <1>0, <1>1, <1>3 DEF ScanEffect
  <2>3. arr' = Exchanged(arr, i, j)
    BY <1>0, <1>1, <1>3 DEF ScanEffect, Index
  <2> QED
    BY <2>1, <2>2, <2>3
<1>4. CASE PlaceEffect(c)
  <2>1. /\ s \in Work
        /\ Work' = (Work \ {s}) \cup Piece(s.lo, i - 1) \cup Piece(i + 1, s.hi)
    BY <1>4, SplitWork
  <2>2. /\ i \in s.lo .. s.hi /\ high \in s.lo .. s.hi /\ j = high
        /\ low <= i /\ i <= high /\ i \in Index /\ high \in Index /\ calls[c].pc = "loop"
    BY <1>0, <1>1, <1>4 DEF PlaceEffect
  <2>3. arr' = Exchanged(arr, i, high)
    BY <1>4, <2>2 DEF PlaceEffect
  <2>4. \A x \in Index : arr'[x] = IF x = high THEN arr[i] ELSE IF x = i THEN arr[high] ELSE arr[x]
    BY <2>2, <2>3, ExchangeTypes
  <2>5. /\ pivot = arr[high]
        /\ \A x \in Int : low <= x /\ x < i => arr[x] <= pivot
        /\ \A x \in Int : i <= x /\ x < high => pivot <= arr[x]
    BY <1>0, <1>4, <2>2 DEF LoopInv, PlaceEffect
  <2>6. arr'[i] = pivot
    BY <2>2, <2>4, <2>5
  <2>7. ASSUME NEW x \in s.lo .. i - 1 PROVE arr'[x] <= arr'[i]
    <3>1. x \in Index /\ x # i /\ x # high /\ x \in Int /\ low <= x /\ x < i
      BY <1>0, <1>1, <2>2, <2>7
    <3> QED
      BY <2>4, <2>5, <2>6, <3>1
  <2>8. ASSUME NEW y \in i + 1 .. s.hi PROVE arr'[i] <= arr'[y]
    <3>1. y \in Index /\ y # i /\ y \in Int /\ i < y /\ y <= high /\ i < high
      BY <1>0, <1>1, <2>2, <2>8
    <3>2. CASE y = high
      <4>1. arr'[y] = arr[i]
        BY <2>4, <3>1, <3>2
      <4> QED
        BY <1>0, <2>5, <2>6, <3>1, <4>1
    <3>3. CASE y # high
      <4>1. arr'[y] = arr[y]
        BY <2>4, <3>1, <3>3
      <4> QED
        BY <1>0, <2>5, <2>6, <3>1, <3>3, <4>1
    <3> QED
      BY <3>2, <3>3
  <2>9. Parts!Separates(arr', s, i)
    BY <2>7, <2>8 DEF Parts!Separates
  <2> QED
    BY <2>1, <2>2, <2>3, <2>9
<1>5. CASE ~ PlaceEffect(c) /\ UNCHANGED arr
  BY <1>5, SameWork
<1> QED
  BY <1>0, <1>3, <1>4, <1>5 DEF CallEffect, EnterEffect, ScanEffect, ForkEffect, LostEffect, LeftEffect,
     LeftDoneEffect, RightEffect, RightDoneEffect, WaitEffect

-----------------------------------------------------------------------------

\* A set of natural numbers that is not empty has a least element.
LEMMA Least ==
  ASSUME NEW S, S \subseteq Nat, S # {}
  PROVE  \E x \in S : \A y \in S : ~ (y < x)
<1> DEFINE R == OpToRel(<, Nat)
<1>1. IsWellFoundedOn(R, Nat)
  BY NatLessThanWellFounded
<1>2. \A x, y \in Nat : <<y, x>> \in R <=> y < x
  BY DEF OpToRel
<1> HIDE DEF R
<1>3. PICK x \in S : \A y \in S : ~ (<<y, x>> \in R)
  BY <1>1, WFMin
<1> QED
  BY <1>2, <1>3

\* When the first call of a process is done, all its calls are: of those that
\* still run, the one with the least number would have a caller that waits for it.
LEMMA ProcessDone ==
  ASSUME Shape, NEW p \in DOMAIN calls, calls[p].pid = p, ~ Running(p),
         NEW d \in DOMAIN calls, calls[d].pid = p
  PROVE  ~ Running(d)
<1> SUFFICES ASSUME Running(d) PROVE FALSE
  OBVIOUS
<1>0. DOMAIN calls \subseteq Nat \ {0} /\ \A c \in DOMAIN calls : HasParent(c)
  BY DEF Shape, TypesOK, TreeInv
<1> DEFINE S == {c \in DOMAIN calls : calls[c].pid = p /\ Running(c)}
<1>1. PICK c \in S : \A e \in S : ~ (e < c)
  BY <1>0, Least
<1>2. c # Root
  BY <1>1 DEF Shape, PhaseOK
<1>3. PICK e \in DOMAIN calls : IsParent(e, c)
  BY <1>0, <1>1, <1>2 DEF HasParent
<1>4. e < c
  BY <1>0, <1>3 DEF IsParent
<1>5. LeftGiven(e) /\ RightGiven(e) /\ CallOK(e)
  BY DEF Shape, TreeInv
<1>6. CASE LeftStarted(e) /\ c = 2 * e
  <2>1. calls[e].pid = p /\ (calls[e].pc # "inLeft" => ~ Running(c))
    BY <1>1, <1>5, <1>6 DEF LeftGiven
  <2> QED
    BY <1>1, <1>4, <2>1 DEF Running
<1>7. CASE RightStarted(e) /\ c = 2 * e + 1 /\ Forking(e)
  <2>1. calls[c].pid = c
    BY <1>5, <1>7 DEF RightGiven
  <2> QED
    BY <1>1, <2>1
<1>8. CASE RightStarted(e) /\ c = 2 * e + 1 /\ ~ Forking(e)
  <2>1. calls[e].pid = p /\ (calls[e].pc # "inRight" => ~ Running(c))
    BY <1>1, <1>5, <1>8 DEF RightGiven
  <2> QED
    BY <1>1, <1>4, <2>1 DEF Running
<1> QED
  BY <1>3, <1>6, <1>7, <1>8 DEF IsParent

\* A forked process belongs to a call of another process, with a smaller number.
LEMMA Parent ==
  ASSUME Shape, phase \in {"forking", "counted"}, NEW q \in DOMAIN proc, q # Root
  PROVE  /\ q \div 2 \in DOMAIN calls /\ calls[q \div 2].pid \in DOMAIN proc
         /\ calls[q \div 2].pid < q
         /\ q = 2 * (q \div 2) + 1 /\ RightStarted(q \div 2) /\ Forking(q \div 2)
<1>1. DOMAIN calls \subseteq Nat \ {0}
  BY DEF Shape, TypesOK
<1>2. PICK c \in DOMAIN calls : q = 2 * c + 1 /\ RightStarted(c) /\ Forking(c)
  BY DEF Shape, PhaseOK, ProcOK
<1>3. q \div 2 = c
  BY <1>1, <1>2
<1>4. calls[c].pid \in DOMAIN proc /\ calls[c].pid \in Nat /\ calls[c].pid <= c
  BY <1>1 DEF Shape, TreeInv, PidOK
<1> QED
  BY <1>1, <1>2, <1>3, <1>4

\* The sets that are counted are finite.
LEMMA FiniteCounts ==
  ASSUME TypesOK, NEW p
  PROVE  /\ IsFiniteSet(Unreaped(p)) /\ Cardinality(Unreaped(p)) \in Nat
         /\ IsFiniteSet(ToWait(p)) /\ Cardinality(ToWait(p)) \in Nat
<1>1. Unreaped(p) \subseteq DOMAIN proc /\ ToWait(p) \subseteq DOMAIN calls
  BY DEF Unreaped, ChildrenOf, ToWait
<1> QED
  BY <1>1, FS_Subset, FS_CardinalityType DEF TypesOK

\* The same after a step.
LEMMA FiniteCountsAfter ==
  ASSUME TypesOK', NEW p
  PROVE  /\ IsFiniteSet(Unreaped(p)') /\ Cardinality(Unreaped(p)') \in Nat
         /\ IsFiniteSet(ToWait(p)') /\ Cardinality(ToWait(p)') \in Nat
<1>1. Unreaped(p)' \subseteq DOMAIN proc' /\ ToWait(p)' \subseteq DOMAIN calls'
  BY DEF Unreaped, ChildrenOf, ToWait
<1> QED
  BY <1>1, FS_Subset, FS_CardinalityType DEF TypesOK

\* What a step of a call does to the processes to reap.
LEMMA UnreapedStep ==
  ASSUME Shape, phase = "forking", NEW c \in DOMAIN calls, Call(c), NEW p
  PROVE  /\ SameProcs => Unreaped(p)' = Unreaped(p)
         /\ ForkEffect(c) => /\ p = calls[c].pid => Unreaped(p)' = Unreaped(p) \cup {2 * c + 1}
                             /\ p # calls[c].pid => Unreaped(p)' = Unreaped(p)
         /\ \A q \in Unreaped(calls[c].pid) :
              Reaps(q) => /\ p = calls[c].pid => Unreaped(p)' = Unreaped(p) \ {q}
                          /\ p # calls[c].pid => Unreaped(p)' = Unreaped(p)
<1>0. c \in Nat /\ calls'[c].pid = calls[c].pid
  BY Bounds, OthersStay
<1>1. ASSUME NEW q \in DOMAIN proc, q # Root PROVE calls'[q \div 2].pid = calls[q \div 2].pid
  BY <1>1, Parent, OthersStay
<1>2. \A q : q \in Unreaped(p)' <=>
         q \in DOMAIN proc' /\ q # Root /\ calls'[q \div 2].pid = p /\ proc'[q].status # "reaped"
  BY DEF Unreaped, ChildrenOf
<1>3. \A q : q \in Unreaped(p) <=>
         q \in DOMAIN proc /\ q # Root /\ calls[q \div 2].pid = p /\ proc[q].status # "reaped"
  BY DEF Unreaped, ChildrenOf
<1>4. ASSUME SameProcs PROVE Unreaped(p)' = Unreaped(p)
  <2>1. \A q : q \in Unreaped(p)' <=> q \in Unreaped(p)
    BY <1>1, <1>2, <1>3, <1>4 DEF SameProcs
  <2> QED
    BY <2>1
<1>5. ASSUME ForkEffect(c)
      PROVE  /\ p = calls[c].pid => Unreaped(p)' = Unreaped(p) \cup {2 * c + 1}
             /\ p # calls[c].pid => Unreaped(p)' = Unreaped(p)
  <2> DEFINE n == 2 * c + 1
  <2>1. n \div 2 = c /\ n # Root
    BY <1>0, Bounds DEF Root
  <2> HIDE DEF n
  <2>2. /\ n \notin DOMAIN proc /\ DOMAIN proc' = DOMAIN proc \cup {n} /\ proc'[n].status = "running"
        /\ \A q \in DOMAIN proc : proc'[q].status = proc[q].status
    BY <1>5 DEF ForkEffect, n
  <2>3. \A q : q \in Unreaped(p)' <=> q \in Unreaped(p) \/ (q = n /\ p = calls[c].pid)
    BY <1>0, <1>1, <1>2, <1>3, <2>1, <2>2
  <2> QED
    BY <2>3 DEF n
<1>6. ASSUME NEW q \in Unreaped(calls[c].pid), Reaps(q)
      PROVE  /\ p = calls[c].pid => Unreaped(p)' = Unreaped(p) \ {q}
             /\ p # calls[c].pid => Unreaped(p)' = Unreaped(p)
  <2>1. q \in DOMAIN proc /\ calls[q \div 2].pid = calls[c].pid
    BY DEF Unreaped, ChildrenOf
  <2>2. \A r : r \in Unreaped(p)' <=> r \in Unreaped(p) /\ r # q
    BY <1>1, <1>2, <1>3, <1>6, <2>1 DEF Reaps
  <2> QED
    BY <2>1, <2>2, <1>3
<1> QED
  BY <1>4, <1>5, <1>6

\* What a step of a call does to the calls that are still to wait.
LEMMA ToWaitStep ==
  ASSUME Shape, NEW c \in DOMAIN calls, Call(c), NEW p
  PROVE  /\ p # calls[c].pid \/ ~ WaitEffect(c) => ToWait(p) \subseteq ToWait(p)'
         /\ ForkEffect(c) /\ p = calls[c].pid => ToWait(p) \cup {c} \subseteq ToWait(p)' /\ c \notin ToWait(p)
         /\ WaitEffect(c) /\ p = calls[c].pid => ToWait(p) \ {c} \subseteq ToWait(p)' /\ c \in ToWait(p)
<1>0. CallOK(c) /\ DOMAIN calls \subseteq DOMAIN calls' /\ calls'[c].pid = calls[c].pid
      /\ (Forking(c)' <=> Forking(c))
  BY Bounds, OthersStay
<1>1. \A d : d \in ToWait(p)' <=> /\ d \in DOMAIN calls' /\ calls'[d].pid = p /\ Forking(d)'
                                 /\ calls'[d].pc \in {"left", "inLeft", "wait"}
  BY DEF ToWait, Forking, Forks
<1>2. \A d : d \in ToWait(p) <=> /\ d \in DOMAIN calls /\ calls[d].pid = p /\ Forking(d)
                                /\ calls[d].pc \in {"left", "inLeft", "wait"}
  BY DEF ToWait
<1>3. ASSUME NEW d \in ToWait(p), d # c PROVE d \in ToWait(p)'
  BY <1>0, <1>1, <1>2, <1>3, OthersStay
<1>4. ASSUME c \in ToWait(p), ~ WaitEffect(c) PROVE c \in ToWait(p)'
  <2>1. calls'[c].pc \in {"left", "inLeft", "wait"}
    BY <1>2, <1>4, PcStep DEF Moves
  <2> QED
    BY <1>0, <1>1, <1>2, <1>4, <2>1
<1>5. ASSUME ForkEffect(c), p = calls[c].pid PROVE c \in ToWait(p)' /\ c \notin ToWait(p)
  <2>1. calls[c].pc = "fork" /\ calls'[c].pc = "left" /\ Forking(c)
    BY <1>0, <1>5 DEF ForkEffect, Reaches, Becomes, CallOK
  <2> QED
    BY <1>0, <1>1, <1>2, <1>5, <2>1
<1>6. ASSUME WaitEffect(c), p = calls[c].pid PROVE c \in ToWait(p)
  BY <1>0, <1>2, <1>6 DEF WaitEffect, CallOK
<1>7. c \in ToWait(p) => p = calls[c].pid
  BY <1>2
<1>8. ForkEffect(c) => ~ WaitEffect(c)
  BY DEF ForkEffect, WaitEffect
<1> QED
  BY <1>3, <1>4, <1>5, <1>6, <1>7, <1>8

\* A process never has more children to reap than calls that are still to wait.
LEMMA CountedStep ==
  ASSUME Shape, Counted, NEW c \in DOMAIN calls, Call(c)
  PROVE  Counted'
<1>1. SUFFICES ASSUME phase = "forking", NEW p \in DOMAIN proc'
               PROVE  Cardinality(Unreaped(p)') <= Cardinality(ToWait(p)')
  BY Effects DEF Counted
<1>2. /\ IsFiniteSet(Unreaped(p)) /\ Cardinality(Unreaped(p)) \in Nat
      /\ IsFiniteSet(ToWait(p)) /\ Cardinality(ToWait(p)) \in Nat
      /\ IsFiniteSet(Unreaped(p)') /\ Cardinality(Unreaped(p)') \in Nat
      /\ IsFiniteSet(ToWait(p)') /\ Cardinality(ToWait(p)') \in Nat
  BY FiniteCounts, FiniteCountsAfter, TypesStep DEF Shape
<1>3. p \in DOMAIN proc => Cardinality(Unreaped(p)) <= Cardinality(ToWait(p))
  BY <1>1 DEF Counted
<1>4. ASSUME Unreaped(p)' = Unreaped(p), ToWait(p) \subseteq ToWait(p)', p \in DOMAIN proc
      PROVE  Cardinality(Unreaped(p)') <= Cardinality(ToWait(p)')
  <2>1. Cardinality(ToWait(p)) <= Cardinality(ToWait(p)')
    BY <1>2, <1>4, FS_Subset
  <2> QED
    BY <1>2, <1>3, <1>4, <2>1
<1>5. CASE ForkEffect(c)
  <2> DEFINE n == 2 * c + 1
  <2>1. n \notin DOMAIN proc /\ n \notin DOMAIN calls /\ (p \in DOMAIN proc \/ p = n)
    BY <1>5, FreshProcess DEF ForkEffect
  <2> HIDE DEF n
  <2>2. CASE p = n
    <3>1. p # calls[c].pid
      BY <2>1, <2>2 DEF Shape, TreeInv, PidOK
    <3>2. Unreaped(p)' = Unreaped(p)
      BY <1>1, <1>5, <3>1, UnreapedStep
    <3>3. Unreaped(p) = {}
      <4> SUFFICES ASSUME NEW q \in Unreaped(p) PROVE FALSE
        OBVIOUS
      <4>1. q \in DOMAIN proc /\ q # Root /\ calls[q \div 2].pid = p
        BY DEF Unreaped, ChildrenOf
      <4>2. calls[q \div 2].pid \in DOMAIN proc
        BY <1>1, <4>1, Parent
      <4> QED
        BY <2>1, <2>2, <4>1, <4>2
    <3>4. Cardinality(Unreaped(p)') = 0
      BY <3>2, <3>3, FS_EmptySet
    <3> QED
      BY <1>2, <3>4
  <2>3. CASE p \in DOMAIN proc /\ p # calls[c].pid
    <3>1. ~ WaitEffect(c)
      BY <1>5 DEF ForkEffect, WaitEffect
    <3> QED
      BY <1>1, <1>4, <1>5, <2>3, <3>1, UnreapedStep, ToWaitStep
  <2>4. CASE p \in DOMAIN proc /\ p = calls[c].pid
    <3>0. n \notin Unreaped(p)
      BY <2>1 DEF Unreaped, ChildrenOf
    <3>1. Unreaped(p)' = Unreaped(p) \cup {n} /\ n \notin Unreaped(p)
      BY <1>1, <1>5, <2>4, <3>0, UnreapedStep DEF n
    <3>2. ToWait(p) \cup {c} \subseteq ToWait(p)' /\ c \notin ToWait(p)
      BY <1>5, <2>4, ToWaitStep
    <3>3. Cardinality(Unreaped(p)') = Cardinality(Unreaped(p)) + 1
      BY <1>2, <3>1, FS_AddElement
    <3>4. Cardinality(ToWait(p) \cup {c}) = Cardinality(ToWait(p)) + 1 /\ IsFiniteSet(ToWait(p) \cup {c})
      BY <1>2, <3>2, FS_AddElement
    <3>5. Cardinality(ToWait(p) \cup {c}) <= Cardinality(ToWait(p)')
      BY <1>2, <3>2, <3>4, FS_Subset
    <3> QED
      BY <1>2, <1>3, <2>4, <3>3, <3>4, <3>5
  <2> QED
    BY <2>1, <2>2, <2>3, <2>4
<1>6. CASE WaitEffect(c)
  <2>0. p \in DOMAIN proc
    BY <1>6 DEF WaitEffect, SameProcs, Reaps
  <2>1. CASE Unreaped(calls[c].pid) = {} /\ SameProcs
    <3>1. Unreaped(p)' = Unreaped(p)
      BY <1>1, <2>1, UnreapedStep
    <3>2. CASE p = calls[c].pid
      <4>1. Cardinality(Unreaped(p)') = 0
        BY <2>1, <3>1, <3>2, FS_EmptySet
      <4> QED
        BY <1>2, <4>1
    <3>3. CASE p # calls[c].pid
      BY <1>4, <2>0, <3>1, <3>3, ToWaitStep
    <3> QED
      BY <3>2, <3>3
  <2>2. ASSUME NEW q \in Unreaped(calls[c].pid), Reaps(q)
        PROVE  Cardinality(Unreaped(p)') <= Cardinality(ToWait(p)')
    <3>1. CASE p = calls[c].pid
      <4>1. Unreaped(p)' = Unreaped(p) \ {q} /\ q \in Unreaped(p)
        BY <1>1, <2>2, <3>1, UnreapedStep
      <4>2. ToWait(p) \ {c} \subseteq ToWait(p)' /\ c \in ToWait(p)
        BY <1>6, <3>1, ToWaitStep
      <4>3. Cardinality(Unreaped(p)') = Cardinality(Unreaped(p)) - 1
        BY <1>2, <4>1, FS_RemoveElement
      <4>4. Cardinality(ToWait(p) \ {c}) = Cardinality(ToWait(p)) - 1 /\ IsFiniteSet(ToWait(p) \ {c})
        BY <1>2, <4>2, FS_RemoveElement
      <4>5. Cardinality(ToWait(p) \ {c}) <= Cardinality(ToWait(p)')
        BY <1>2, <4>2, <4>4, FS_Subset
      <4> QED
        BY <1>2, <1>3, <2>0, <4>3, <4>4, <4>5
    <3>2. CASE p # calls[c].pid
      BY <1>1, <1>4, <2>0, <2>2, <3>2, UnreapedStep, ToWaitStep
    <3> QED
      BY <3>1, <3>2
  <2> QED
    BY <1>6, <2>1, <2>2 DEF WaitEffect
<1>7. CASE SameProcs /\ ~ WaitEffect(c)
  BY <1>1, <1>4, <1>7, UnreapedStep, ToWaitStep DEF SameProcs
<1> QED
  BY <1>5, <1>6, <1>7, Effects DEF CallEffect, EnterEffect, ScanEffect, PlaceEffect, LostEffect,
     LeftEffect, LeftDoneEffect, RightEffect, RightDoneEffect

\* A process with a child to reap is still running: one of its calls is to wait.
LEMMA ParentRuns ==
  ASSUME Shape, Counted, phase = "forking", NEW q \in DOMAIN proc, q # Root, proc[q].status # "reaped"
  PROVE  LET p == calls[q \div 2].pid IN
         p \in DOMAIN proc /\ p < q /\ proc[p].status = "running" /\ Running(p)
<1> DEFINE p == calls[q \div 2].pid
<1>1. p \in DOMAIN proc /\ p < q
  BY Parent
<1>2. q \in Unreaped(p)
  BY DEF Unreaped, ChildrenOf
<1>3. /\ IsFiniteSet(Unreaped(p)) /\ Cardinality(Unreaped(p)) \in Nat
      /\ IsFiniteSet(ToWait(p)) /\ Cardinality(ToWait(p)) \in Nat
      /\ Cardinality(Unreaped(p)) <= Cardinality(ToWait(p))
  BY <1>1, FiniteCounts DEF Shape, Counted
<1>4. Cardinality(Unreaped(p)) # 0
  BY <1>2, <1>3, FS_EmptySet
<1>5. ToWait(p) # {}
  BY <1>3, <1>4, FS_EmptySet
<1>6. PICK c \in DOMAIN calls : calls[c].pid = p /\ Running(c)
  BY <1>5 DEF ToWait, Running
<1>7. ProcOK(p)
  BY <1>1 DEF Shape, PhaseOK
<1>8. Running(p)
  BY <1>6, <1>7, ProcessDone DEF ProcOK
<1>9. proc[p].status = "running"
  BY <1>7, <1>8 DEF ProcOK
<1> QED
  BY <1>1, <1>8, <1>9

\* When the first call of main is done, every other process has been reaped,
\* and no call runs.
LEMMA AllDone ==
  ASSUME Shape, Counted, ~ Running(Root)
  PROVE  /\ \A q \in DOMAIN proc \ {Root} : proc[q].status = "reaped"
         /\ \A c \in DOMAIN calls : ~ Running(c)
<1>0. /\ DOMAIN proc \subseteq Nat /\ Root \in DOMAIN calls /\ calls[Root].pid = Root
      /\ phase \in {"forking", "counted", "vanilla", "end"}
  BY DEF Shape, TypesOK, PhaseOK
<1>1. CASE phase = "forking"
  <2>1. \A q \in DOMAIN proc \ {Root} : proc[q].status = "reaped"
    <3> SUFFICES ASSUME NEW r \in DOMAIN proc \ {Root}, proc[r].status # "reaped" PROVE FALSE
      OBVIOUS
    <3> DEFINE S == {q \in DOMAIN proc \ {Root} : proc[q].status # "reaped"}
    <3>1. PICK q \in S : \A e \in S : ~ (e < q)
      BY <1>0, Least
    <3> DEFINE p == calls[q \div 2].pid
    <3>2. p \in DOMAIN proc /\ p < q /\ proc[p].status = "running" /\ Running(p)
      BY <1>1, <3>1, ParentRuns
    <3>3. p # Root
      BY <3>2
    <3> QED
      BY <3>1, <3>2, <3>3
  <2>2. ASSUME NEW c \in DOMAIN calls PROVE ~ Running(c)
    <3> DEFINE p == calls[c].pid
    <3>1. p \in DOMAIN proc
      BY DEF Shape, TreeInv, PidOK
    <3>2. p \in DOMAIN calls /\ calls[p].pid = p /\ ~ Running(p)
      <4>1. ProcOK(p)
        BY <1>1, <3>1 DEF Shape, PhaseOK
      <4>2. p = Root \/ proc[p].status = "reaped"
        BY <2>1, <3>1
      <4> QED
        BY <4>1, <4>2 DEF ProcOK
    <3> QED
      BY <3>2, ProcessDone
  <2> QED
    BY <2>1, <2>2
<1>2. CASE phase = "vanilla"
  <2>1. \A c \in DOMAIN calls : calls[c].pid = Root
    BY <1>2 DEF Shape, PhaseOK
  <2> QED
    BY <1>0, <1>2, <2>1, ProcessDone DEF Shape, PhaseOK
<1>3. CASE phase \in {"counted", "end"}
  BY <1>3 DEF Shape, PhaseOK
<1> QED
  BY <1>0, <1>1, <1>2, <1>3

-----------------------------------------------------------------------------

\* A forked process exits: no call and no count changes.
LEMMA ExitStep ==
  ASSUME Shape, Safety, Loops, Counted, NEW p \in DOMAIN proc \cap DOMAIN calls, Exit(p)
  PROVE  Shape' /\ Safety' /\ Loops' /\ Counted' /\ Work' = Work
<1>1. /\ p # Root /\ proc[p].status = "running" /\ ~ Running(p)
      /\ UNCHANGED <<nums, arr, calls, phase, badcount>>
      /\ proc' = [proc EXCEPT ![p] = [status |-> "zombie", attached |-> 0]]
  BY DEF Exit, Running
<1>2. phase = "forking" \/ phase = "counted"
  BY <1>1 DEF Shape, TypesOK, PhaseOK
<1>3. phase = "forking"
  BY <1>1, <1>2 DEF Shape, PhaseOK
<1>4. /\ DOMAIN proc' = DOMAIN proc /\ proc' \in [DOMAIN proc' -> Process]
      /\ proc'[p].status = "zombie" /\ \A q \in DOMAIN proc \ {p} : proc'[q] = proc[q]
  BY <1>1 DEF Shape, TypesOK, Process
<1>5. TypesOK'
  BY <1>1, <1>4 DEF Shape, TypesOK
<1>6. PhaseOK'
  <2>1. ASSUME NEW q \in DOMAIN proc' PROVE ProcOK(q)'
    <3>1. ProcOK(q)
      BY <1>3, <1>4, <2>1 DEF Shape, PhaseOK
    <3>2. proc'[q].status # "running" => ~ Running(q)'
      BY <1>1, <1>4, <3>1 DEF ProcOK, Running
    <3> QED
      BY <1>1, <3>1, <3>2 DEF ProcOK, RightStarted, Parted, Forking, Running
  <2>2. Root \in DOMAIN proc' /\ proc'[Root].status = "running"
    BY <1>1, <1>3, <1>4 DEF Shape, PhaseOK
  <2> QED
    BY <1>1, <1>3, <2>1, <2>2 DEF Shape, PhaseOK
<1>7. TreeInv'
  <2>1. \A c \in DOMAIN calls : CallOK(c)' /\ LeftGiven(c)' /\ HasParent(c)'
    BY <1>1 DEF Shape, TreeInv, CallOK, LeftGiven, HasParent, IsParent, LeftStarted, RightStarted, Parted, Forking, Running
  <2>2. \A c \in DOMAIN calls : RightGiven(c)' /\ PidOK(c)'
    BY <1>1, <1>4 DEF Shape, TreeInv, RightGiven, RightStarted, PidOK, Parted, Forking, Running
  <2> QED
    BY <1>1, <2>1, <2>2 DEF TreeInv
<1>8. Safety'
  BY <1>1 DEF Safety, Apart, Settled, Owned, Owns, Parted, Running
<1>9. Loops'
  BY <1>1 DEF Loops, LoopInv
<1>10. Counted'
  <2> SUFFICES ASSUME NEW r \in DOMAIN proc PROVE Cardinality(Unreaped(r)') <= Cardinality(ToWait(r)')
    BY <1>4 DEF Counted
  <2>1. \A q : q \in Unreaped(r)' <=> q \in Unreaped(r)
    BY <1>1, <1>4 DEF Unreaped, ChildrenOf
  <2>2. \A c : c \in ToWait(r)' <=> c \in ToWait(r)
    BY <1>1 DEF ToWait, Forking
  <2>3. Unreaped(r)' = Unreaped(r) /\ ToWait(r)' = ToWait(r)
    BY <2>1, <2>2
  <2> QED
    BY <1>3, <2>3 DEF Counted
<1>11. Work' = Work
  <2>1. \A c : Pending(c)' = Pending(c)
    BY <1>1 DEF Pending
  <2>2. \A t : t \in Work' <=> t \in Work
    BY <1>1, <2>1, WorkMembers
  <2> QED
    BY <2>2
<1> QED
  BY <1>5, <1>6, <1>7, <1>8, <1>9, <1>10, <1>11 DEF Shape

\* Main counts: when the first call is done, every process has been reaped.
LEMMA CountStep ==
  ASSUME Shape, Safety, Loops, Counted, CountForked \/ CountVanilla
  PROVE  Shape' /\ Safety' /\ Loops' /\ Counted' /\ Work' = Work
<1>1. /\ UNCHANGED <<nums, arr, calls>> /\ ~ Running(Root)
      /\ \/ phase = "forking" /\ phase' = "counted" /\ proc' = proc
         \/ /\ phase = "vanilla" /\ phase' = "end"
            /\ proc' = [proc EXCEPT ![Root] = [status |-> "zombie", attached |-> 0]]
  BY DEF CountForked, CountVanilla, Running
<1>2. /\ \A q \in DOMAIN proc \ {Root} : proc[q].status = "reaped"
      /\ \A c \in DOMAIN calls : ~ Running(c)
  BY <1>1, AllDone
<1>3. /\ DOMAIN proc' = DOMAIN proc /\ proc' \in [DOMAIN proc' -> Process]
      /\ \A q \in DOMAIN proc \ {Root} : proc'[q] = proc[q]
      /\ phase' = "counted" => proc' = proc
  BY <1>1 DEF Shape, TypesOK, Process
<1>4. TypesOK'
  BY <1>1, <1>3 DEF Shape, TypesOK
<1>5. PhaseOK'
  <2>1. Root \in DOMAIN calls /\ Root \in DOMAIN proc /\ calls[Root].low = 0
        /\ calls[Root].high = N - 1 /\ calls[Root].pid = Root
    BY DEF Shape, PhaseOK
  <2>2. ASSUME phase' = "end" PROVE \A c \in DOMAIN calls : calls[c].kind = "vanilla" /\ calls[c].pid = Root
    BY <1>1, <2>2 DEF Shape, PhaseOK
  <2>3. ASSUME phase' = "counted" PROVE (\A q \in DOMAIN proc : ProcOK(q)') /\ proc'[Root].status = "running"
    <3>1. phase = "forking" /\ proc' = proc
      BY <1>1, <2>3
    <3>2. \A q \in DOMAIN proc : ProcOK(q)
      BY <3>1 DEF Shape, PhaseOK
    <3> QED
      BY <1>1, <3>1, <3>2 DEF Shape, PhaseOK, ProcOK, RightStarted, Parted, Forking, Running
  <2>4. \A c \in DOMAIN calls : ~ Running(c)'
    BY <1>1, <1>2 DEF Running
  <2> QED
    BY <1>1, <1>2, <1>3, <2>1, <2>2, <2>3, <2>4 DEF PhaseOK
<1>6. TreeInv'
  <2>1. \A c \in DOMAIN calls : CallOK(c)' /\ LeftGiven(c)' /\ HasParent(c)'
    BY <1>1 DEF Shape, TreeInv, CallOK, LeftGiven, HasParent, IsParent, LeftStarted, RightStarted, Parted, Forking, Running
  <2>2. \A c \in DOMAIN calls : RightGiven(c)' /\ PidOK(c)'
    BY <1>1, <1>3 DEF Shape, TreeInv, RightGiven, RightStarted, PidOK, Parted, Forking, Running
  <2> QED
    BY <1>1, <2>1, <2>2 DEF TreeInv
<1>7. Safety'
  BY <1>1 DEF Safety, Apart, Settled, Owned, Owns, Parted, Running
<1>8. Loops'
  BY <1>1 DEF Loops, LoopInv
<1>9. Counted'
  BY <1>1 DEF Counted
<1>10. Work' = Work
  <2>1. \A c : Pending(c)' = Pending(c)
    BY <1>1 DEF Pending
  <2>2. \A t : t \in Work' <=> t \in Work
    BY <1>1, <2>1, WorkMembers
  <2> QED
    BY <2>2
<1> QED
  BY <1>4, <1>5, <1>6, <1>7, <1>8, <1>9, <1>10 DEF Shape

\* The state of a sort that has just one call, which has not begun.
FirstCall(kind) == calls = [c \in {Root} |-> NewCall(kind, 0, N - 1, 0, Root)] /\ Root \in DOMAIN proc

\* Nobody but that call owns cells, and its segment is all the work.
LEMMA FirstCallFacts ==
  ASSUME NEW kind \in {"fork", "vanilla"}
  PROVE  FirstCall(kind) =>
           /\ DOMAIN calls = {Root} /\ calls \in [{Root} -> Frame] /\ IsFiniteSet(DOMAIN calls)
           /\ calls[Root].kind = kind /\ calls[Root].low = 0 /\ calls[Root].high = N - 1
           /\ calls[Root].pid = Root /\ calls[Root].pc = "enter"
           /\ TreeInv /\ Safety /\ Loops /\ Work = Piece(0, N - 1)
<1> SUFFICES ASSUME FirstCall(kind)
             PROVE  /\ DOMAIN calls = {Root} /\ calls \in [{Root} -> Frame] /\ IsFiniteSet(DOMAIN calls)
                    /\ calls[Root].kind = kind /\ calls[Root].low = 0 /\ calls[Root].high = N - 1
                    /\ calls[Root].pid = Root /\ calls[Root].pc = "enter"
                    /\ TreeInv /\ Safety /\ Loops /\ Work = Piece(0, N - 1)
  OBVIOUS
<1>0. IsFiniteSet({Root}) /\ calls = [c \in {Root} |-> NewCall(kind, 0, N - 1, 0, Root)] /\ Root \in DOMAIN proc
  BY FS_Singleton DEF FirstCall
<1>1. /\ DOMAIN calls = {Root} /\ calls \in [{Root} -> Frame] /\ IsFiniteSet(DOMAIN calls)
      /\ calls[Root].kind = kind /\ calls[Root].low = 0 /\ calls[Root].high = N - 1
      /\ calls[Root].pid = Root /\ calls[Root].pc = "enter" /\ ~ calls[Root].lost
      /\ calls[Root].i = 0 /\ calls[Root].j = 0
  BY <1>0, NAssumption DEF NewCall, Frame, Pcs, Root
<1>2. TreeInv
  <2>1. CallOK(Root)
    BY <1>1, NAssumption DEF CallOK, Parted
  <2>2. LeftGiven(Root) /\ RightGiven(Root) /\ HasParent(Root) /\ PidOK(Root)
    BY <1>0, <1>1 DEF LeftGiven, RightGiven, LeftStarted, RightStarted, Parted, HasParent, PidOK, Root
  <2> QED
    BY <1>1, <2>1, <2>2 DEF TreeInv
<1>3. Safety /\ Loops
  BY <1>1 DEF Safety, Apart, Settled, Loops, LoopInv, Running, Parted
<1>4. Work = Piece(0, N - 1)
  <2>1. \A t : t \in Pending(Root) <=> t \in Piece(0, N - 1)
    BY <1>1, PendingMembers DEF LeftPending, RightPending
  <2>2. \A t : t \in Work <=> t \in Piece(0, N - 1)
    BY <1>1, <2>1, WorkMembers
  <2> QED
    BY <2>2
<1> QED
  BY <1>1, <1>2, <1>3, <1>4

\* The same of the second sort, after main has loaded the input again.
LEMMA FirstCallAfter ==
  ( FirstCall("vanilla") =>
      /\ DOMAIN calls = {Root} /\ calls \in [{Root} -> Frame] /\ IsFiniteSet(DOMAIN calls)
      /\ calls[Root].kind = "vanilla" /\ calls[Root].low = 0 /\ calls[Root].high = N - 1
      /\ calls[Root].pid = Root /\ calls[Root].pc = "enter"
      /\ TreeInv /\ Safety /\ Loops /\ Work = Piece(0, N - 1) )'
<1>1. FirstCall("vanilla") =>
         /\ DOMAIN calls = {Root} /\ calls \in [{Root} -> Frame] /\ IsFiniteSet(DOMAIN calls)
         /\ calls[Root].kind = "vanilla" /\ calls[Root].low = 0 /\ calls[Root].high = N - 1
         /\ calls[Root].pid = Root /\ calls[Root].pc = "enter"
         /\ TreeInv /\ Safety /\ Loops /\ Work = Piece(0, N - 1)
  BY FirstCallFacts
<1> QED
  BY <1>1, PTL

\* The first state.
LEMMA InitStep ==
  ASSUME Init
  PROVE  Shape /\ Safety /\ Loops /\ Counted /\ Work = Piece(0, N - 1)
<1>0. IsFiniteSet({Root})
  BY FS_Singleton
<1>1. /\ nums \in [Index -> Value] /\ arr = nums /\ phase = "forking"
      /\ calls = [c \in {Root} |-> NewCall("fork", 0, N - 1, 0, Root)]
      /\ DOMAIN proc = {Root} /\ proc \in [{Root} -> Process] /\ proc[Root].status = "running"
      /\ IsFiniteSet(DOMAIN proc)
  BY <1>0 DEF Init, Process
<1>2. /\ DOMAIN calls = {Root} /\ calls \in [{Root} -> Frame] /\ IsFiniteSet(DOMAIN calls)
      /\ calls[Root].low = 0 /\ calls[Root].high = N - 1
      /\ calls[Root].pid = Root /\ calls[Root].pc = "enter"
      /\ TreeInv /\ Safety /\ Loops /\ Work = Piece(0, N - 1)
  BY <1>1, FirstCallFacts DEF FirstCall
<1>3. TypesOK
  BY <1>1, <1>2 DEF TypesOK, Root
<1>4. PhaseOK
  BY <1>1, <1>2 DEF PhaseOK, ProcOK
<1>5. Counted
  <2>1. Unreaped(Root) = {} /\ IsFiniteSet(ToWait(Root)) /\ Cardinality(ToWait(Root)) \in Nat
    <3>1. Unreaped(Root) = {}
      BY <1>1 DEF Unreaped, ChildrenOf
    <3> QED
      BY <3>1, <1>3, FiniteCounts
  <2>2. Cardinality(Unreaped(Root)) = 0
    BY <2>1, FS_EmptySet
  <2> QED
    BY <1>1, <2>1, <2>2 DEF Counted
<1> QED
  BY <1>2, <1>3, <1>4, <1>5 DEF Shape

\* Main loads the input again: the second sort begins.
LEMMA ReloadStep ==
  ASSUME Shape, Safety, Loops, Counted, Reload
  PROVE  Shape' /\ Safety' /\ Loops' /\ Counted' /\ Work' = Piece(0, N - 1)
<1>1. /\ phase = "counted" /\ phase' = "vanilla" /\ arr' = nums /\ UNCHANGED <<nums, proc, badcount>>
      /\ calls' = [c \in {Root} |-> NewCall("vanilla", 0, N - 1, 0, Root)]
  BY DEF Reload
<1>2. Root \in DOMAIN proc /\ proc[Root].status = "running" /\ \A q \in DOMAIN proc \ {Root} : proc[q].status = "reaped"
  BY <1>1 DEF Shape, PhaseOK
<1>3. FirstCall("vanilla")'
  BY <1>1, <1>2 DEF FirstCall, NewCall, Root
<1>4. /\ DOMAIN calls' = {Root} /\ calls' \in [{Root} -> Frame] /\ IsFiniteSet(DOMAIN calls')
      /\ calls'[Root].kind = "vanilla" /\ calls'[Root].low = 0 /\ calls'[Root].high = N - 1
      /\ calls'[Root].pid = Root /\ calls'[Root].pc = "enter"
      /\ TreeInv' /\ Safety' /\ Loops' /\ Work' = Piece(0, N - 1)'
  BY <1>3, FirstCallAfter
<1>5. TypesOK'
  BY <1>1, <1>4 DEF Shape, TypesOK, Root
<1>6. PhaseOK'
  BY <1>1, <1>2, <1>4 DEF PhaseOK
<1>7. Counted'
  BY <1>1 DEF Counted
<1>8. Piece(0, N - 1)' = Piece(0, N - 1)
  BY DEF Piece, Parts!Piece
<1> QED
  BY <1>4, <1>5, <1>6, <1>7, <1>8 DEF Shape

\* The shape of the calls and processes, the ownership of the cells, the loops
\* and the count of children: an inductive invariant.
Ownerships == Shape /\ Safety /\ Loops /\ Counted

\* Every step keeps it.
LEMMA OwnershipsStep == Ownerships /\ [Next]_vars => Ownerships'
<1> SUFFICES ASSUME Ownerships, [Next]_vars PROVE Ownerships'
  OBVIOUS
<1>0. Shape /\ Safety /\ Loops /\ Counted
  BY DEF Ownerships
<1>1. ASSUME NEW c \in DOMAIN calls, Call(c) PROVE Ownerships'
  BY <1>0, <1>1, ShapeStep, SettledStep, LoopsStep, CountedStep DEF Ownerships, Loops
<1>2. ASSUME NEW p \in DOMAIN proc \cap DOMAIN calls, Exit(p) PROVE Ownerships'
  BY <1>0, <1>2, ExitStep DEF Ownerships
<1>3. CASE CountForked \/ CountVanilla
  BY <1>0, <1>3, CountStep DEF Ownerships
<1>4. CASE Reload
  BY <1>0, <1>4, ReloadStep DEF Ownerships
<1>5. CASE UNCHANGED vars
  <2>0. UNCHANGED <<nums, arr, calls, proc, phase, badcount>>
    BY <1>5 DEF vars
  <2>1. TypesOK' /\ PhaseOK'
    BY <1>0, <2>0 DEF Shape, TypesOK, PhaseOK, ProcOK, RightStarted, Parted, Forking, Running
  <2>2. TreeInv'
    BY <1>0, <2>0 DEF Shape, TreeInv, CallOK, LeftGiven, RightGiven, HasParent, PidOK, IsParent,
       LeftStarted, RightStarted, Parted, Forking, Running
  <2>3. Safety' /\ Loops'
    BY <1>0, <2>0 DEF Safety, Apart, Settled, Owned, Owns, Parted, Running, Loops, LoopInv
  <2>4. Counted'
    BY <1>0, <2>0 DEF Counted, Unreaped, ChildrenOf, ToWait, Forking
  <2> QED
    BY <2>1, <2>2, <2>3, <2>4 DEF Ownerships, Shape
<1> QED
  BY <1>1, <1>2, <1>3, <1>4, <1>5 DEF Next

-----------------------------------------------------------------------------

\* What SplitSortProofs proves of the abstract sort.
OnArr == INSTANCE SplitSortProofs WITH input <- nums, work <- Work

\* Every step of the program is a step of the abstract sort.
LEMMA SortStep == Ownerships /\ [Next]_vars => [OnArr!Next]_OnArr!vars
<1> SUFFICES ASSUME Ownerships, [Next]_vars PROVE [OnArr!Next]_OnArr!vars
  OBVIOUS
<1>0. Shape /\ Safety /\ Loops /\ Counted
  BY DEF Ownerships
<1>1. ASSUME NEW c \in DOMAIN calls, Call(c) PROVE [OnArr!Next]_OnArr!vars
  <2>1. nums' = nums
    BY <1>0, <1>1, Effects
  <2>2. \/ arr' = arr /\ Work' = Work
        \/ \E s \in Work : \E p, q \in s.lo .. s.hi :
             /\ arr' = Exchanged(arr, p, q)
             /\ \/ Work' = Work
                \/ /\ Parts!Separates(arr', s, p)
                   /\ Work' = (Work \ {s}) \cup Piece(s.lo, p - 1) \cup Piece(p + 1, s.hi)
    BY <1>0, <1>1, CallRefines
  <2> QED
    BY <2>1, <2>2 DEF OnArr!Next, OnArr!vars, OnArr!In, OnArr!Exchange, OnArr!Split, OnArr!Separates,
       OnArr!Exchanged, OnArr!Piece, Exchanged, Piece, Parts!Separates, Parts!Exchanged, Parts!Piece
<1>2. ASSUME NEW p \in DOMAIN proc \cap DOMAIN calls, Exit(p) PROVE UNCHANGED OnArr!vars
  BY <1>0, <1>2, ExitStep DEF Exit, OnArr!vars
<1>3. ASSUME CountForked \/ CountVanilla PROVE UNCHANGED OnArr!vars
  BY <1>0, <1>3, CountStep DEF CountForked, CountVanilla, OnArr!vars
<1>4. ASSUME Reload PROVE OnArr!Next
  BY <1>0, <1>4, ReloadStep DEF Reload, OnArr!Next, OnArr!Restart, OnArr!Piece, Piece, Parts!Piece
<1>5. ASSUME UNCHANGED vars PROVE UNCHANGED OnArr!vars
  <2>0. UNCHANGED <<nums, arr, calls, proc, phase, badcount>>
    BY <1>5 DEF vars
  <2>1. \A c : Pending(c)' = Pending(c)
    BY <2>0 DEF Pending
  <2>2. \A t : t \in Work' <=> t \in Work
    BY <2>0, <2>1, WorkMembers
  <2>3. Work' = Work
    BY <2>2
  <2> QED
    BY <2>0, <2>3 DEF OnArr!vars
<1> QED
  BY <1>1, <1>2, <1>3, <1>4, <1>5 DEF Next

-----------------------------------------------------------------------------

\* When the first call of a process is done, and no fork has failed, nobody owns
\* a cell of what its calls were given: not even the processes it forked, which
\* it has reaped.  Of the calls that would hold such a cell, one has the fewest.
LEMMA QuietCells ==
  ASSUME Shape, Safety, Counted, NothingLost, phase \in {"forking", "vanilla"},
         NEW c \in DOMAIN calls, ~ Running(calls[c].pid),
         NEW x \in Int, calls[c].low <= x, x <= calls[c].high
  PROVE  ~ Owned(x)
<1> SUFFICES ASSUME Owned(x) PROVE FALSE
  OBVIOUS
<1> DEFINE Holds(d) == /\ d \in DOMAIN calls /\ ~ Running(calls[d].pid)
                       /\ calls[d].low <= x /\ x <= calls[d].high
           Sizes == {n \in Nat : \E d \in DOMAIN calls : Holds(d) /\ n = calls[d].high - calls[d].low}
<1>1. calls[c].high - calls[c].low \in Sizes
  BY Bounds
<1>2. PICK n \in Sizes : \A m \in Sizes : ~ (m < n)
  BY <1>1, Least
<1>3. PICK d \in DOMAIN calls : Holds(d) /\ n = calls[d].high - calls[d].low
  BY <1>2
<1>4. ASSUME NEW e, Holds(e) PROVE ~ (calls[e].high - calls[e].low < calls[d].high - calls[d].low)
  <2>1. calls[e].high - calls[e].low \in Sizes
    BY <1>4, Bounds
  <2> QED
    BY <1>2, <1>3, <2>1
<1> HIDE DEF Sizes
<1> DEFINE p == calls[d].pid
<1>5. /\ d \in Nat \ {0} /\ CallOK(d) /\ LeftGiven(d) /\ RightGiven(d) /\ PidOK(d) /\ Settled(d)
      /\ calls[d].low \in Int /\ calls[d].high \in Int /\ calls[d].i \in Int /\ ~ calls[d].lost
      /\ calls[d].low <= x /\ x <= calls[d].high
  BY <1>3, Bounds DEF Shape, TreeInv, Safety, NothingLost
<1>6. p \in DOMAIN calls /\ calls[p].pid = p /\ ~ Running(p)
  BY <1>3, <1>5 DEF Shape, PhaseOK, ProcOK, PidOK
<1>7. \A e \in DOMAIN calls : calls[e].pid = p => ~ Running(e)
  BY <1>6, ProcessDone
<1>8. Parted(d) /\ calls[d].pc = "done" /\ x # calls[d].i
  BY <1>5, <1>7 DEF Settled, Running
<1>9. CASE x < calls[d].i
  <2>1. LeftStarted(d)
    BY <1>8 DEF LeftStarted
  <2>2. /\ 2 * d \in DOMAIN calls /\ calls[2 * d].low = calls[d].low /\ calls[2 * d].high = calls[d].i - 1
        /\ calls[2 * d].pid = p
    BY <1>5, <2>1 DEF LeftGiven
  <2>3. Holds(2 * d)
    BY <1>5, <1>6, <1>9, <2>2
  <2> QED
    BY <1>4, <1>5, <1>8, <2>2, <2>3 DEF CallOK
<1>10. CASE calls[d].i < x
  <2>1. RightStarted(d)
    BY <1>5, <1>8 DEF RightStarted
  <2>2. /\ 2 * d + 1 \in DOMAIN calls
        /\ calls[2 * d + 1].low = calls[d].i + 1 /\ calls[2 * d + 1].high = calls[d].high
    BY <1>5, <2>1 DEF RightGiven
  <2>3. ~ Running(calls[2 * d + 1].pid)
    <3>1. CASE ~ Forking(d)
      BY <1>5, <1>6, <2>1, <3>1 DEF RightGiven
    <3>2. CASE Forking(d)
      <4> DEFINE q == 2 * d + 1
      <4>1. q \in DOMAIN proc /\ calls[q].pid = q /\ q # Root /\ q \div 2 = d /\ phase = "forking"
        BY <1>5, <2>1, <3>2 DEF RightGiven, Root, Shape, PhaseOK, Forking, Forks
      <4> HIDE DEF q
      <4>2. ToWait(p) = {}
        BY <1>7 DEF ToWait, Running
      <4>3. Cardinality(Unreaped(p)) <= 0 /\ Cardinality(Unreaped(p)) \in Nat /\ IsFiniteSet(Unreaped(p))
        BY <1>5, <4>1, <4>2, FiniteCounts, FS_EmptySet DEF Counted, PidOK, Shape
      <4>4. Unreaped(p) = {}
        BY <4>3, FS_EmptySet
      <4>5. proc[q].status = "reaped"
        BY <4>1, <4>4 DEF Unreaped, ChildrenOf
      <4>6. ~ Running(q)
        BY <4>1, <4>5 DEF Shape, PhaseOK, ProcOK
      <4> QED
        BY <4>1, <4>6 DEF q
    <3> QED
      BY <3>1, <3>2
  <2>4. Holds(2 * d + 1)
    BY <1>5, <1>10, <2>2, <2>3
  <2> QED
    BY <1>4, <1>5, <1>8, <2>2, <2>4 DEF CallOK
<1> QED
  BY <1>5, <1>8, <1>9, <1>10

\* Then what its first call was given is sorted.
LEMMA QuietSorted ==
  ASSUME Shape, Safety, Counted, NothingLost, phase \in {"forking", "vanilla"}, OnArr!Ordered,
         NEW c \in DOMAIN calls, ~ Running(calls[c].pid),
         NEW x \in calls[c].low .. calls[c].high, NEW y \in calls[c].low .. calls[c].high, x < y
  PROVE  arr[x] <= arr[y]
<1>1. calls[c].low \in Int /\ calls[c].high \in Int /\ 0 <= calls[c].low /\ calls[c].high <= N - 1
  BY Bounds
<1>2. x \in Index /\ y \in Index /\ x \in Int
  BY <1>1, NAssumption DEF Index
<1>3. ~ Owned(x)
  BY <1>1, <1>2, QuietCells
<1>4. ASSUME NEW s \in Work PROVE x \notin OnArr!In(s)
  <2>1. PICK d \in DOMAIN calls : s \in Pending(d)
    BY <1>4, WorkMembers
  <2> QED
    BY <1>3, <2>1, PendingOwned DEF Owned, OnArr!In
<1> QED
  BY <1>2, <1>4 DEF OnArr!Ordered, OnArr!Index, Index

\* Main counts no unsorted element when the array is sorted.
LEMMA NothingUnsorted ==
  ASSUME arr \in [Index -> Value], \A x, y \in Index : x < y => arr[x] <= arr[y]
  PROVE  Unsorted = 0
<1>1. ASSUME NEW x \in 0 .. N - 2 PROVE ~ (arr[x + 1] < arr[x])
  <2>1. x \in Index /\ x + 1 \in Index /\ x < x + 1
    BY <1>1, NAssumption DEF Index
  <2>2. arr[x] \in Int /\ arr[x + 1] \in Int /\ arr[x] <= arr[x + 1]
    BY <2>1, ValueAssumption
  <2> QED
    BY <2>2
<1>2. {x \in 0 .. N - 2 : arr[x + 1] < arr[x]} = {}
  BY <1>1
<1> QED
  BY <1>2, FS_EmptySet DEF Unsorted

\* The inductive invariant: besides the shape, the ownership and the count, the
\* abstract sort in its own invariant, and nothing found unsorted by main.
CountsRight == NothingLost /\ phase \in {"counted", "end"} => badcount = 0
Inv == Ownerships /\ OnArr!IInv /\ CountsRight

\* It holds in the first state, which the abstract sort may start in.
LEMMA InvInit == Init => Inv /\ OnArr!Init
<1> SUFFICES ASSUME Init PROVE Inv /\ OnArr!Init
  OBVIOUS
<1>1. Ownerships /\ Work = Piece(0, N - 1)
  BY InitStep DEF Ownerships
<1>2. OnArr!Init
  BY <1>1 DEF Init, OnArr!Init, OnArr!Piece, Piece, Parts!Piece, OnArr!Index, Index
<1>3. OnArr!IInv
  BY <1>2, OnArr!InitIInv, NAssumption, ValueAssumption
<1> QED
  BY <1>1, <1>2, <1>3 DEF Inv, Init, CountsRight

\* Every step keeps it.
LEMMA InvStep == Inv /\ [Next]_vars => Inv'
<1> SUFFICES ASSUME Inv, [Next]_vars PROVE Inv'
  OBVIOUS
<1>1. Ownerships' /\ [OnArr!Next]_OnArr!vars
  BY OwnershipsStep, SortStep DEF Inv
<1>2. OnArr!IInv'
  BY <1>1, OnArr!StepIInv, NAssumption, ValueAssumption DEF Inv
<1>3. Shape /\ Safety /\ Counted /\ OnArr!Ordered
  BY DEF Inv, Ownerships, OnArr!IInv
<1>4. ASSUME NEW c \in DOMAIN calls, Call(c) PROVE CountsRight'
  <2>1. phase' = phase /\ Running(c)
    BY <1>3, <1>4, Effects
  <2>2. phase' \notin {"counted", "end"}
    BY <1>3, <2>1 DEF Shape, PhaseOK
  <2> QED
    BY <2>2 DEF CountsRight
<1>5. ASSUME NEW p \in DOMAIN proc \cap DOMAIN calls, Exit(p) PROVE CountsRight'
  BY <1>5 DEF Exit, CountsRight, NothingLost, Inv
<1>6. ASSUME CountForked \/ CountVanilla PROVE CountsRight'
  <2>1. /\ UNCHANGED <<nums, arr, calls>> /\ ~ Running(Root) /\ phase \in {"forking", "vanilla"}
        /\ badcount' = Unsorted
    BY <1>6 DEF CountForked, CountVanilla, Running
  <2>2. SUFFICES ASSUME NothingLost PROVE Unsorted = 0
    BY <2>1 DEF CountsRight, NothingLost
  <2>3. /\ Root \in DOMAIN calls /\ calls[Root].pid = Root /\ calls[Root].low = 0 /\ calls[Root].high = N - 1
        /\ arr \in [Index -> Value]
    BY <1>3 DEF Shape, PhaseOK, TypesOK
  <2>4. \A x, y \in Index : x < y => arr[x] <= arr[y]
    BY <1>3, <2>1, <2>2, <2>3, QuietSorted DEF Index
  <2> QED
    BY <2>3, <2>4, NothingUnsorted
<1>7. ASSUME Reload PROVE CountsRight'
  BY <1>7 DEF Reload, CountsRight
<1>8. ASSUME UNCHANGED vars PROVE CountsRight'
  BY <1>8 DEF vars, CountsRight, NothingLost, Inv
<1> QED
  BY <1>1, <1>2, <1>4, <1>5, <1>6, <1>7, <1>8 DEF Next, Inv

\* The invariant holds in every reachable state.
LEMMA Invariance == Spec => []Inv
BY InvInit, InvStep, PTL DEF Spec

\* Whatever the number of elements and however the processes interleave, no two
\* calls work on the same cell of the shared segment (quick.c:91-104).
THEOREM NoSharedCellThm == Spec => []NoSharedCell
<1>1. Inv => NoSharedCell
  <2> SUFFICES ASSUME Inv, NEW c \in DOMAIN calls, NEW d \in DOMAIN calls, c # d,
                      NEW x, x \in Touches(c), x \in Touches(d)
               PROVE  FALSE
    BY DEF NoSharedCell
  <2>1. ASSUME NEW e \in DOMAIN calls, x \in Touches(e) PROVE x \in Int /\ Owns(e, x)
    <3>1. calls[e].pc \in {"enter", "loop"} /\ x \in calls[e].low .. calls[e].high
      BY <2>1 DEF Touches
    <3>2. calls[e].low \in Int /\ calls[e].high \in Int
      BY Bounds DEF Inv, Ownerships
    <3> QED
      BY <3>1, <3>2 DEF Owns
  <2> QED
    BY <2>1 DEF Inv, Ownerships, Safety, Apart
<1> QED
  BY <1>1, Invariance, PTL

\* Although wait(NULL) may reap the child of an outer call (quick.c:117), the
\* parent of every process that is still there runs, and main counts only when
\* every other process has been reaped (quick.c:53-61).
THEOREM NoOrphansThm == Spec => []NoOrphans
<1>1. Inv => NoOrphans
  <2> SUFFICES ASSUME Inv PROVE NoOrphans
    OBVIOUS
  <2>1. Shape /\ Counted
    BY DEF Inv, Ownerships
  <2>2. ASSUME phase = "forking", NEW q \in DOMAIN proc \ {Root}, proc[q].status # "reaped"
        PROVE  proc[calls[q \div 2].pid].status = "running"
    BY <2>1, <2>2, ParentRuns
  <2>3. phase # "forking" => \A q \in DOMAIN proc \ {Root} : proc[q].status = "reaped"
    BY <2>1 DEF Shape, PhaseOK
  <2> QED
    BY <2>2, <2>3 DEF NoOrphans
<1> QED
  BY <1>1, Invariance, PTL

\* Unless a fork has failed, a process leaves its whole segment sorted when it
\* exits (quick.c:109-117), and main finds nothing unsorted (quick.c:58, 74).
THEOREM ExitedMeansSortedThm == Spec => []ExitedMeansSorted
<1>1. Inv => ExitedMeansSorted
  <2> SUFFICES ASSUME Inv PROVE ExitedMeansSorted
    OBVIOUS
  <2>1. Shape /\ Safety /\ Counted /\ OnArr!Ordered /\ CountsRight
    BY DEF Inv, Ownerships, OnArr!IInv
  <2>2. ASSUME NothingLost, phase = "forking", NEW p \in DOMAIN proc, proc[p].status # "running",
               NEW x \in calls[p].low .. calls[p].high, NEW y \in calls[p].low .. calls[p].high, x < y
        PROVE  arr[x] <= arr[y]
    <3>1. p \in DOMAIN calls /\ calls[p].pid = p /\ ~ Running(p)
      BY <2>1, <2>2 DEF Shape, PhaseOK, ProcOK
    <3> QED
      BY <2>1, <2>2, <3>1, QuietSorted
  <2> QED
    BY <2>1, <2>2 DEF ExitedMeansSorted, CountsRight
<1> QED
  BY <1>1, Invariance, PTL

\* quick.c implements the abstract parallel sort, twice in a row.
THEOREM ImplementsThm == Spec => Implements
<1>1. Init => Abstract!Init
  BY InvInit DEF OnArr!Init, Abstract!Init, OnArr!Piece, Abstract!Piece, OnArr!Index, Abstract!Index
<1>2. [OnArr!Next]_OnArr!vars => [Abstract!Next]_Abstract!vars
  BY DEF OnArr!Next, OnArr!vars, OnArr!In, OnArr!Exchange, OnArr!Split, OnArr!Separates,
     OnArr!Exchanged, OnArr!Piece, OnArr!Restart,
     Abstract!Next, Abstract!vars, Abstract!In, Abstract!Exchange, Abstract!Split, Abstract!Separates,
     Abstract!Exchanged, Abstract!Piece, Abstract!Restart
<1>3. Inv /\ [Next]_vars => [Abstract!Next]_Abstract!vars
  BY <1>2, SortStep DEF Inv
<1> QED
  BY <1>1, <1>3, Invariance, PTL DEF Spec, Implements, Abstract!Spec

\* The segment always holds the elements that main has drawn.
THEOREM PermutationThm == Spec => []OnArr!IsPermutation
<1>1. OnArr!Spec => []OnArr!IsPermutation
  BY OnArr!PermutationThm, NAssumption, ValueAssumption
<1>2. Inv /\ [Next]_vars => [OnArr!Next]_OnArr!vars
  BY SortStep DEF Inv
<1> QED
  BY <1>1, <1>2, InvInit, Invariance, PTL DEF Spec, OnArr!Spec

-----------------------------------------------------------------------------

\* The powers of two are natural numbers, double and grow: subsets are counted,
\* for the provers know nothing else of them.
LEMMA Powers ==
  ASSUME NEW n \in Nat
  PROVE  /\ 2 ^ n \in Nat /\ 2 ^ (n + 1) = 2 * 2 ^ n
         /\ \A m \in 0 .. n : 2 ^ m <= 2 ^ n
<1>1. ASSUME NEW m \in Nat
      PROVE  /\ IsFiniteSet(1 .. m) /\ IsFiniteSet(SUBSET (1 .. m))
             /\ Cardinality(SUBSET (1 .. m)) = 2 ^ m /\ 2 ^ m \in Nat
  <2>1. IsFiniteSet(1 .. m) /\ Cardinality(1 .. m) = m
    BY FS_Interval
  <2>2. IsFiniteSet(SUBSET (1 .. m)) /\ Cardinality(SUBSET (1 .. m)) = 2 ^ Cardinality(1 .. m)
    BY <2>1, FS_SUBSET
  <2>3. Cardinality(SUBSET (1 .. m)) \in Nat
    BY <2>2, FS_CardinalityType
  <2> QED
    BY <2>1, <2>2, <2>3
<1>2. ASSUME NEW m \in 0 .. n PROVE 2 ^ m <= 2 ^ n
  <2>1. SUBSET (1 .. m) \in SUBSET (SUBSET (1 .. n))
    OBVIOUS
  <2>2. Cardinality(SUBSET (1 .. m)) <= Cardinality(SUBSET (1 .. n))
    BY <1>1, <2>1, FS_Subset
  <2>3. m \in Nat
    OBVIOUS
  <2> QED
    BY <1>1, <2>2, <2>3
<1>3. 2 ^ (n + 1) = 2 * 2 ^ n
  <2> DEFINE S == SUBSET (1 .. n)
             T == {s \cup {n + 1} : s \in S}
             f == [s \in S |-> s \cup {n + 1}]
  <2>1. S \cup T = SUBSET (1 .. n + 1)
    <3>1. ASSUME NEW s \in SUBSET (1 .. n + 1), n + 1 \in s PROVE s \in T
      <4>1. s \ {n + 1} \in S
        OBVIOUS
      <4>2. s = (s \ {n + 1}) \cup {n + 1}
        BY <3>1
      <4> QED
        BY <4>1, <4>2
    <3>2. ASSUME NEW s \in SUBSET (1 .. n + 1), n + 1 \notin s PROVE s \in S
      BY <3>2
    <3>3. S \subseteq SUBSET (1 .. n + 1) /\ T \subseteq SUBSET (1 .. n + 1)
      <4> DEFINE U == SUBSET (1 .. n + 1)
      <4>1. \A s \in S : s \in U /\ s \cup {n + 1} \in U
        OBVIOUS
      <4> HIDE DEF U, S
      <4>2. \A t \in T : t \in U
        BY <4>1
      <4> QED
        BY <4>1, <4>2 DEF U
    <3> QED
      BY <3>1, <3>2, <3>3
  <2>2. \A s \in S : n + 1 \notin s
    OBVIOUS
  <2>3. S \cap T = {}
    BY <2>2
  <2>4. ExistsBijection(S, T)
    <3>1. \A s, t \in S : f[s] = f[t] => s = t
      <4> SUFFICES ASSUME NEW s \in S, NEW t \in S, s \cup {n + 1} = t \cup {n + 1} PROVE s = t
        OBVIOUS
      <4>1. n + 1 \notin s /\ n + 1 \notin t
        BY <2>2
      <4>2. \A x : x \in s <=> x \in t
        BY <4>1
      <4> QED
        BY <4>2
    <3>2. f \in [S -> T] /\ \A t \in T : \E s \in S : f[s] = t
      OBVIOUS
    <3>3. f \in Bijection(S, T)
      BY <3>1, <3>2 DEF Bijection, Injection, Surjection, IsInjective
    <3> QED
      BY <3>3 DEF ExistsBijection
  <2>5. IsFiniteSet(S) /\ Cardinality(S) = 2 ^ n /\ 2 ^ n \in Nat
    BY <1>1, Zenon
  <2>6. Cardinality(SUBSET (1 .. n + 1)) = 2 ^ (n + 1) /\ 2 ^ (n + 1) \in Nat
    <3>1. n + 1 \in Nat
      OBVIOUS
    <3> HIDE DEF S, T, f
    <3> QED
      BY ONLY <1>1, <3>1, Zenon
  <2> HIDE DEF S, T
  <2>7. IsFiniteSet(T) /\ Cardinality(T) = 2 ^ n
    BY <2>4, <2>5, FS_Bijection
  <2>8. Cardinality(S \cup T) = Cardinality(S) + Cardinality(T) - Cardinality({})
    BY <2>3, <2>5, <2>7, FS_Union
  <2>9. Cardinality({}) = 0
    BY FS_EmptySet
  <2> DEFINE a == 2 ^ n
             b == 2 ^ (n + 1)
  <2>10. a \in Nat /\ b \in Nat /\ b = a + a - 0
    BY <2>1, <2>5, <2>6, <2>7, <2>8, <2>9
  <2> HIDE DEF a, b
  <2>11. b = 2 * a
    BY <2>10
  <2> QED
    BY <2>11 DEF a, b
<1> QED
  BY <1>1, <1>2, <1>3

\* The numbers of the calls that may fork: at depth d, those below 2^(d+1).
Levels ==
  \A c \in DOMAIN calls : calls[c].kind = "fork" =>
    /\ calls[c].depth \in 0 .. MaxDepth
    /\ c < 2 ^ (calls[c].depth + 1)

\* The processes have odd numbers, below twice 2^MaxDepth.
Numbered == \A q \in DOMAIN proc : \E k \in 0 .. 2 ^ MaxDepth - 1 : q = 2 * k + 1

\* A process has at most one call of quicksort_fork that has not called for its left part.
Early(c) == calls[c].kind = "fork" /\ calls[c].pc \in {"enter", "loop", "fork", "left"}
OneEarly == \A c, d \in DOMAIN calls : Early(c) /\ Early(d) /\ calls[c].pid = calls[d].pid => c = d

\* A process holds two attachments at the most, and one while it is to attach again.
Detached(c) ==
  calls[c].kind = "fork" /\ (calls[c].pc = "enter" \/ (calls[c].pc = "left" /\ Forking(c)))
Attached ==
  /\ \A p \in DOMAIN proc : proc[p].attached <= 2
  /\ \A c \in DOMAIN calls : Detached(c) => proc[calls[c].pid].attached <= 1

Limits == Levels /\ Numbered /\ OneEarly /\ Attached

\* At most 2^MaxDepth processes have such numbers.
LEMMA ProcessCount == ASSUME Numbered PROVE Cardinality(DOMAIN proc) <= 2 ^ MaxDepth
<1> DEFINE S == DOMAIN proc
           T == 0 .. 2 ^ MaxDepth - 1
           f == [q \in S |-> CHOOSE k \in T : q = 2 * k + 1]
<1>1. 2 ^ MaxDepth \in Nat
  BY DepthAssumption, Powers
<1>2. IsFiniteSet(T) /\ Cardinality(T) = 2 ^ MaxDepth
  <2>1. 2 ^ MaxDepth - 1 \in Int
    BY <1>1
  <2>2. /\ IsFiniteSet(T)
        /\ Cardinality(T) = IF 0 > 2 ^ MaxDepth - 1 THEN 0 ELSE (2 ^ MaxDepth - 1) - 0 + 1
    BY <2>1, FS_Interval
  <2> QED
    BY <1>1, <2>2
<1>3. \A q \in S : f[q] \in T /\ q = 2 * f[q] + 1
  BY DEF Numbered
<1>4. f \in [S -> T]
  BY <1>3
<1> HIDE DEF f, T
<1>5. f \in Injection(S, T)
  BY <1>3, <1>4 DEF Injection, IsInjective
<1> QED
  BY <1>2, <1>5, FS_Injection

\* The process that a step of a call starts, if it starts one.
LEMMA NewProcess ==
  ASSUME Shape, NEW c \in DOMAIN calls, Call(c)
  PROVE  /\ DOMAIN proc \subseteq DOMAIN proc'
         /\ \A q \in DOMAIN proc' \ DOMAIN proc :
              q = 2 * c + 1 /\ calls[c].pc = "fork" /\ calls[c].kind = "fork" /\ calls[c].depth < MaxDepth
<1>1. ASSUME NEW q \in DOMAIN proc' \ DOMAIN proc PROVE q = 2 * c + 1 /\ calls[c].pc = "fork"
  BY ProcsStay DEF ForkEffect
<1> QED
  BY <1>1, ProcsStay, FreshProcess DEF Forking, Forks

\* A step of a call keeps the numbers of the calls and of the processes.
LEMMA NumbersStep ==
  ASSUME Shape, Levels, Numbered, NEW c \in DOMAIN calls, Call(c)
  PROVE  Levels' /\ Numbered'
<1>1. calls[c] \in Frame /\ c \in Nat \ {0} /\ calls[c].depth \in Int
  BY Bounds DEF Frame
<1> DEFINE d == calls[c].depth
           b == 2 ^ (d + 1)
<1>2. Forking(c) => /\ d \in Nat /\ d < MaxDepth /\ c < b
                    /\ b \in Nat /\ b <= 2 ^ MaxDepth /\ 2 ^ (d + 2) = 2 * b
  <2> SUFFICES ASSUME Forking(c) PROVE /\ d \in Nat /\ d < MaxDepth /\ c < b
                                       /\ b \in Nat /\ b <= 2 ^ MaxDepth /\ 2 ^ (d + 2) = 2 * b
    OBVIOUS
  <2>1. calls[c].kind = "fork" /\ d < MaxDepth
    BY DEF Forking, Forks
  <2>2. d \in 0 .. MaxDepth /\ c < b
    BY <2>1 DEF Levels
  <2>3. d \in Nat /\ d + 1 \in Nat /\ d + 1 \in 0 .. MaxDepth /\ (d + 1) + 1 = d + 2
    BY <2>1, <2>2, DepthAssumption
  <2>4. b \in Nat /\ 2 ^ ((d + 1) + 1) = 2 * b
    BY <2>3, Powers
  <2>5. b <= 2 ^ MaxDepth
    BY <2>3, DepthAssumption, Powers
  <2> QED
    BY <2>1, <2>2, <2>3, <2>4, <2>5
<1>3. Levels'
  <2> SUFFICES ASSUME NEW e \in DOMAIN calls', calls'[e].kind = "fork"
               PROVE  calls'[e].depth \in 0 .. MaxDepth /\ e < 2 ^ (calls'[e].depth + 1)
    BY DEF Levels
  <2>1. CASE e \in DOMAIN calls
    BY <2>1, OthersStay DEF Levels
  <2>2. CASE e \notin DOMAIN calls
    <3>1. Forking(c) /\ calls'[e].depth = d + 1 /\ e \in {2 * c, 2 * c + 1}
      BY <2>2, NewCalls
    <3>2. e < 2 * b /\ d + 1 \in 0 .. MaxDepth /\ (d + 1) + 1 = d + 2
      <4> HIDE DEF b
      <4> QED
        BY <1>1, <1>2, <3>1, DepthAssumption
    <3>3. 2 ^ (calls'[e].depth + 1) = 2 * b
      BY <1>2, <3>1, <3>2
    <3> QED
      BY <3>1, <3>2, <3>3
  <2> QED
    BY <2>1, <2>2
<1>4. Numbered'
  <2> SUFFICES ASSUME NEW q \in DOMAIN proc' PROVE \E k \in 0 .. 2 ^ MaxDepth - 1 : q = 2 * k + 1
    BY DEF Numbered
  <2>1. CASE q \in DOMAIN proc
    BY <2>1 DEF Numbered
  <2>2. CASE q \notin DOMAIN proc
    <3>1. q = 2 * c + 1 /\ Forking(c)
      BY <2>2, NewProcess DEF Forking, Forks
    <3> DEFINE m == 2 ^ MaxDepth
    <3>2. m \in Nat
      BY DepthAssumption, Powers
    <3>3. b \in Nat /\ b <= m /\ c < b
      BY <1>2, <3>1
    <3> HIDE DEF b, m
    <3>4. c \in 0 .. m - 1
      BY <1>1, <3>2, <3>3
    <3> QED
      BY <3>1, <3>4 DEF m
  <2> QED
    BY <2>1, <2>2
<1> QED
  BY <1>3, <1>4

\* A step of a call keeps the early calls apart.
LEMMA EarlyStep ==
  ASSUME Shape, OneEarly, NEW c \in DOMAIN calls, Call(c)
  PROVE  OneEarly'
<1>1. ASSUME NEW e \in DOMAIN calls, Early(e)' PROVE Early(e) /\ (e = c => calls[c].pc # "left")
  <2>1. calls'[e].kind = calls[e].kind /\ (e # c => calls'[e] = calls[e])
    BY OthersStay
  <2>2. calls'[c].pc \in {"enter", "loop", "fork", "left"} => calls[c].pc \in {"enter", "loop", "fork"}
    BY PcStep DEF Moves
  <2> QED
    BY <1>1, <2>1, <2>2 DEF Early
<1>2. ASSUME NEW n \in DOMAIN calls', n \notin DOMAIN calls, Early(n)'
      PROVE  /\ Forking(c)
             /\ \/ n = 2 * c /\ calls[c].pc = "left" /\ calls'[n].pid = calls[c].pid
                \/ n = 2 * c + 1 /\ calls[c].pc = "fork" /\ calls'[n].pid = n /\ n \notin DOMAIN proc
  <2>1. Forking(c)
    BY <1>2, NewCalls DEF Early
  <2> QED
    BY <1>2, <2>1, NewCalls DEF Moves
<1>3. ASSUME NEW e \in DOMAIN calls, NEW n \in DOMAIN calls', n \notin DOMAIN calls, Early(e)', Early(n)',
             calls'[e].pid = calls'[n].pid
      PROVE  FALSE
  <2>1. calls'[e].pid = calls[e].pid /\ calls[e].pid \in DOMAIN proc /\ Early(e)
    BY <1>1, <1>3, OthersStay DEF Shape, TreeInv, PidOK
  <2>2. Forking(c) /\ calls[c].pc = "left" /\ calls[e].pid = calls[c].pid
    BY <1>2, <1>3, <2>1
  <2>3. Early(c)
    BY <2>2 DEF Early, Forking, Forks
  <2>4. e = c
    BY <2>1, <2>2, <2>3 DEF OneEarly
  <2> QED
    BY <1>1, <1>3, <2>2, <2>4
<1>4. ASSUME NEW m \in DOMAIN calls', m \notin DOMAIN calls, NEW n \in DOMAIN calls', n \notin DOMAIN calls,
             Early(m)', Early(n)'
      PROVE  m = n
  BY <1>2, <1>4
<1>5. ASSUME NEW e \in DOMAIN calls', NEW g \in DOMAIN calls', Early(e)', Early(g)',
             calls'[e].pid = calls'[g].pid
      PROVE  e = g
  BY <1>1, <1>3, <1>4, <1>5, OthersStay DEF OneEarly
<1> QED
  BY <1>5 DEF OneEarly, Early

\* A step of a call keeps the attachments in their limits.
LEMMA AttachedStep ==
  ASSUME Shape, OneEarly, Attached, NEW c \in DOMAIN calls, Call(c)
  PROVE  Attached'
<1> DEFINE p == calls[c].pid
           entering == calls[c].kind = "fork" /\ calls[c].pc = "enter"
           leaving == calls[c].kind = "fork" /\ calls[c].pc \in {"fork", "inRight"}
           change == IF entering THEN 1 ELSE IF leaving THEN -1 ELSE 0
<1>1. /\ p \in DOMAIN proc /\ \A q \in DOMAIN proc : proc[q].attached \in Int
      /\ DOMAIN proc \subseteq DOMAIN proc'
  BY NewProcess DEF Shape, TypesOK, TreeInv, PidOK, Process
<1>2. /\ proc'[p].attached = proc[p].attached + change
      /\ \A q \in DOMAIN proc \ {p} : proc'[q].attached = proc[q].attached
      /\ \A q \in DOMAIN proc' \ DOMAIN proc : proc'[q].attached = proc[p].attached + change
  BY AttachEffects DEF Attaches
<1>3. entering => change = 1 /\ proc[p].attached <= 1
  BY DEF Attached, Detached
<1>4. leaving => change = -1
  OBVIOUS
<1>5. ~ entering => change <= 0 /\ change \in Int
  OBVIOUS
<1>6. proc[p].attached <= 2 /\ \A q \in DOMAIN proc : proc[q].attached <= 2
  BY <1>1 DEF Attached
<1>7. ASSUME NEW q \in DOMAIN proc' \ DOMAIN proc PROVE leaving
  BY NewProcess
<1> HIDE DEF change
<1>8. ASSUME NEW q \in DOMAIN proc' PROVE proc'[q].attached <= 2
  <2>1. CASE q = p
    BY <1>1, <1>2, <1>3, <1>5, <1>6, <2>1
  <2>2. CASE q \in DOMAIN proc \ {p}
    BY <1>2, <1>6, <2>2
  <2>3. CASE q \notin DOMAIN proc
    BY <1>1, <1>2, <1>4, <1>6, <1>7, <2>3
  <2> QED
    BY <2>1, <2>2, <2>3
<1>9. ASSUME NEW d \in DOMAIN calls', Detached(d)' PROVE proc'[calls'[d].pid].attached <= 1
  <2>1. CASE d \in DOMAIN calls /\ d # c
    <3>1. Detached(d) /\ calls'[d].pid = calls[d].pid /\ calls[d].pid \in DOMAIN proc
      BY <1>9, <2>1, OthersStay DEF Detached, Shape, TreeInv, PidOK
    <3>2. proc[calls[d].pid].attached <= 1
      BY <2>1, <3>1 DEF Attached
    <3>3. CASE calls[d].pid = p
      <4>1. ~ entering
        BY <2>1, <3>1, <3>3 DEF Detached, OneEarly, Early
      <4> QED
        BY <1>1, <1>2, <1>5, <3>1, <3>2, <3>3, <4>1
    <3> QED
      BY <1>2, <3>1, <3>2, <3>3
  <2>2. CASE d = c
    <3>1. calls'[c].pid = p /\ calls[c].kind = "fork" /\ (Forking(c)' <=> Forking(c))
      BY <1>9, <2>2, OthersStay DEF Detached
    <3>2. calls'[c].pc \in {"enter", "left"} /\ (calls'[c].pc = "left" => Forking(c))
      BY <1>9, <2>2, <3>1 DEF Detached
    <3>3. calls[c].pc = "fork"
      BY <3>2, PcStep DEF Moves
    <3> QED
      BY <1>1, <1>2, <1>4, <1>6, <2>2, <3>1, <3>3
  <2>3. CASE d \notin DOMAIN calls
    <3>1. calls'[d].kind = "fork"
      BY <1>9 DEF Detached
    <3>2. /\ Forking(c)
          /\ \/ calls[c].pc = "left" /\ calls'[d].pid = p
             \/ calls[c].pc = "fork" /\ calls'[d].pid \in DOMAIN proc' \ DOMAIN proc
      <4>1. Forking(c)
        BY <2>3, <3>1, NewCalls
      <4>2. \/ calls[c].pc = "left" /\ calls'[d].pid = p
            \/ /\ calls[c].pc = "fork" /\ calls'[d].pid = d
               /\ d \in DOMAIN proc' /\ d \notin DOMAIN proc
        BY <2>3, <4>1, NewCalls DEF Moves
      <4> QED
        BY <4>1, <4>2
    <3>3. CASE calls[c].pc = "left" /\ calls'[d].pid = p
      <4>1. proc[p].attached <= 1 /\ ~ entering
        BY <3>2, <3>3 DEF Attached, Detached, Forking, Forks
      <4> QED
        BY <1>1, <1>2, <1>5, <3>3, <4>1
    <3>4. CASE calls[c].pc = "fork" /\ calls'[d].pid \in DOMAIN proc' \ DOMAIN proc
      BY <1>1, <1>2, <1>4, <1>6, <1>7, <3>4
    <3> QED
      BY <3>2, <3>3, <3>4
  <2> QED
    BY <2>1, <2>2, <2>3
<1> QED
  BY <1>8, <1>9 DEF Attached, Detached

\* The limits hold in the first state.
LEMMA LimitsInit == Init => Limits
<1> SUFFICES ASSUME Init PROVE Limits
  OBVIOUS
<1>1. /\ DOMAIN calls = {Root} /\ calls[Root].kind = "fork" /\ calls[Root].depth = 0
      /\ calls[Root].pc = "enter" /\ calls[Root].pid = Root
      /\ DOMAIN proc = {Root} /\ proc[Root].attached = 1
  BY DEF Init, NewCall
<1>2. 2 ^ 0 = 1 /\ 2 ^ MaxDepth \in Nat /\ 1 <= 2 ^ MaxDepth /\ 2 ^ (0 + 1) = 2 * 2 ^ 0
  <2>1. 2 ^ 0 = 1
    OBVIOUS
  <2>2. 0 \in Nat /\ 0 \in 0 .. MaxDepth
    BY DepthAssumption
  <2>3. 2 ^ (0 + 1) = 2 * 2 ^ 0
    BY <2>2, Powers
  <2>4. 2 ^ MaxDepth \in Nat /\ 2 ^ 0 <= 2 ^ MaxDepth
    BY <2>2, DepthAssumption, Powers
  <2> QED
    BY <2>1, <2>3, <2>4
<1>3. Levels
  <2>1. 0 \in 0 .. MaxDepth /\ calls[Root].depth + 1 = 0 + 1 /\ 2 ^ (0 + 1) = 2 /\ Root < 2
    BY <1>1, <1>2, DepthAssumption DEF Root
  <2>2. Root < 2 ^ (calls[Root].depth + 1)
    BY <2>1
  <2> QED
    BY <1>1, <2>1, <2>2 DEF Levels
<1>4. Numbered
  <2> DEFINE m == 2 ^ MaxDepth
  <2>1. m \in Nat /\ 1 <= m
    BY <1>2
  <2> HIDE DEF m
  <2>2. 0 \in 0 .. m - 1 /\ Root = 2 * 0 + 1
    BY <2>1 DEF Root
  <2> QED
    BY <1>1, <2>2 DEF Numbered, m
<1>5. OneEarly /\ Attached
  BY <1>1 DEF OneEarly, Attached
<1> QED
  BY <1>3, <1>4, <1>5 DEF Limits

\* Every step keeps them.
LEMMA LimitsStep == Shape /\ Limits /\ [Next]_vars => Limits'
<1> SUFFICES ASSUME Shape, Limits, [Next]_vars PROVE Limits'
  OBVIOUS
<1>0. Levels /\ Numbered /\ OneEarly /\ Attached
  BY DEF Limits
<1>1. ASSUME NEW c \in DOMAIN calls, Call(c) PROVE Limits'
  BY <1>0, <1>1, NumbersStep, EarlyStep, AttachedStep DEF Limits
<1>2. ASSUME UNCHANGED calls, DOMAIN proc' = DOMAIN proc,
             \A q \in DOMAIN proc : proc'[q].attached = proc[q].attached \/ proc'[q].attached = 0
      PROVE  Limits'
  <2>1. Levels' /\ Numbered' /\ OneEarly'
    BY <1>0, <1>2 DEF Levels, Numbered, OneEarly, Early
  <2>2. \A c \in DOMAIN calls : calls[c].pid \in DOMAIN proc
    BY DEF Shape, TreeInv, PidOK
  <2>3. Attached'
    BY <1>0, <1>2, <2>2 DEF Attached, Detached, Forking
  <2> QED
    BY <2>1, <2>3 DEF Limits
<1>3. ASSUME NEW p \in DOMAIN proc \cap DOMAIN calls, Exit(p) PROVE Limits'
  BY <1>2, <1>3 DEF Exit
<1>4. CASE CountForked \/ CountVanilla
  BY <1>2, <1>4 DEF CountForked, CountVanilla
<1>5. CASE Reload
  <2>1. UNCHANGED proc /\ DOMAIN calls' = {Root} /\ calls'[Root].kind = "vanilla"
    BY <1>5 DEF Reload, NewCall
  <2> QED
    BY <1>0, <2>1 DEF Limits, Levels, Numbered, OneEarly, Early, Attached, Detached
<1>6. CASE UNCHANGED vars
  BY <1>2, <1>6 DEF vars
<1> QED
  BY <1>1, <1>3, <1>4, <1>5, <1>6 DEF Next

\* There are never more than 2^MaxDepth processes (README.md:13), and although
\* the early return skips shmdt (quick.c:86-88), none ever holds more than one
\* attachment besides the one it inherited.
THEOREM ResourceBoundThm == Spec => []ResourceBound
<1>1. Inv => Shape
  BY DEF Inv, Ownerships
<1>2. Limits => ResourceBound
  BY ProcessCount DEF Limits, Attached, ResourceBound
<1> QED
  BY <1>1, <1>2, Invariance, LimitsInit, LimitsStep, PTL DEF Spec
==================================================================================
