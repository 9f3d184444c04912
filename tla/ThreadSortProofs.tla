---------------------------- MODULE ThreadSortProofs ----------------------------
(***************************************************************************)
(* Proofs about ThreadSort, for every number of elements, every set of     *)
(* values and every depth of threads: no two threads ever work on the same *)
(* cell, no struct is used after it was freed, both sorts implement the    *)
(* abstract parallel sort, and what a thread was given is sorted when it   *)
(* exits.                                                                  *)
(*                                                                         *)
(* The inductive invariant follows the ownership of the cells.  A call     *)
(* owns its whole segment until it has started its left part, its right    *)
(* part until it has started that one, and nothing from then on.  No two   *)
(* calls own the same cell, and a cell that nobody owns is never owned     *)
(* again: it is in its final place.                                        *)
(***************************************************************************)
EXTENDS ThreadSort, FiniteSetTheorems, WellFoundedInduction, TLAPS

\* What a call does, by its program counter.
Partitioning == {"start", "loop"}
Undivided == {"start", "loop", "allocate", "createLeft", "left"}
Placed == {"allocate", "createLeft", "createRight", "joinLeft", "joinRight", "left", "inLeft", "inRight"}
HoldsStructs == {"createLeft", "createRight", "joinLeft", "joinRight"}

Frame ==
  [kind : {"threaded", "global", "vanilla"}, l : Int, r : Int, i : Int, j : Int, pivot : Int, pc : Pcs]
Struct == [l : 0 .. N, r : -1 .. N - 1, depth : 0 .. MaxDepth + 1]

TypesOK ==
  /\ {vals, arr, arr2} \subseteq [Index -> Value]
  /\ calls \in [DOMAIN calls -> Frame]
  /\ data \in [DOMAIN data -> Struct]
  /\ DOMAIN calls \subseteq Nat \ {0}
  /\ phase \in {"threaded", "vanilla", "end"}

\* The bounds of call c can be read: its struct, if it has one, is allocated.
Known(c) == Thread(c) => c \in DOMAIN data

\* The bounds, the loop variables and the kind of one call.
CallOK(c) ==
  /\ Running(c) => Known(c) /\ 0 <= Low(c) /\ High(c) <= N - 1
  /\ calls[c].pc = "loop" =>
       Low(c) <= calls[c].i /\ calls[c].i <= calls[c].j /\ calls[c].j <= High(c) /\ Low(c) < High(c)
  /\ calls[c].pc \in Placed => Low(c) <= calls[c].i /\ calls[c].i <= High(c)
  /\ calls[c].pc \in HoldsStructs \cup {"allocate"} => Thread(c) /\ data[c].depth <= MaxDepth

\* What call c has given to its two parts, as far as it has.
StructsGiven(c) ==
  calls[c].pc \in HoldsStructs =>
    /\ {2 * c, 2 * c + 1} \subseteq DOMAIN data
    /\ data[2 * c].l = Low(c) /\ data[2 * c].r = calls[c].i - 1
    /\ data[2 * c + 1].l = calls[c].i + 1 /\ data[2 * c + 1].r = High(c)

LeftGiven(c) ==
  calls[c].pc \in {"createRight", "joinLeft", "joinRight", "inLeft", "inRight"} =>
    /\ 2 * c \in DOMAIN calls
    /\ Known(2 * c) /\ Low(2 * c) = Low(c) /\ High(2 * c) = calls[c].i - 1
    /\ Thread(2 * c) <=> calls[c].pc \in HoldsStructs
    /\ calls[c].pc \in {"joinRight", "inRight"} => ~ Running(2 * c)

RightGiven(c) ==
  calls[c].pc \in {"joinLeft", "joinRight", "inRight"} =>
    /\ 2 * c + 1 \in DOMAIN calls
    /\ Known(2 * c + 1) /\ Low(2 * c + 1) = calls[c].i + 1 /\ High(2 * c + 1) = High(c)
    /\ Thread(2 * c + 1) <=> calls[c].pc \in HoldsStructs

\* Call c is the creator of d, and waits for it as long as d runs.
IsParent(c, d) ==
  \/ /\ d = 2 * c
     /\ calls[c].pc \in {"createRight", "joinLeft", "inLeft"} \/ ~ Running(d)
     /\ calls[c].pc \notin Undivided
  \/ /\ d = 2 * c + 1
     /\ calls[c].pc \in {"joinLeft", "joinRight", "inRight"} \/ ~ Running(d)
     /\ calls[c].pc \notin Undivided \cup {"createRight", "inLeft"}

HasParent(d) == d = Root \/ \E c \in DOMAIN calls : IsParent(c, d)

\* A struct belongs to a call that has yet to free it, but for main's own.
HasHolder(d) ==
  \/ d = Root
  \/ \E c \in DOMAIN calls : calls[c].pc \in HoldsStructs /\ d \in {2 * c, 2 * c + 1}

\* The cells that call c may still change, itself or through calls to come.
Owns(c, x) ==
  \/ calls[c].pc \in Undivided /\ Low(c) <= x /\ x <= High(c)
  \/ calls[c].pc \in {"createRight", "inLeft"} /\ calls[c].i + 1 <= x /\ x <= High(c)

Owned(x) == \E d \in DOMAIN calls : Owns(d, x)

\* No cell has two owners.
Apart == \A c, d \in DOMAIN calls : c # d => \A x \in Int : ~ (Owns(c, x) /\ Owns(d, x))

\* Nobody owns the segment of a call that is done, nor the pivot of a call
\* that has handed out one of its parts.
Settled(c) ==
  /\ ~ Running(c) /\ Known(c) => \A x \in Int : Low(c) <= x /\ x <= High(c) => ~ Owned(x)
  /\ calls[c].pc \in Placed \ Undivided => ~ Owned(calls[c].i)

\* The invariant of the partition loop.
LoopInv(c) ==
  calls[c].pc = "loop" =>
    /\ calls[c].pivot = ArrayOf(c)[High(c)]
    /\ \A x \in Int : Low(c) <= x /\ x < calls[c].i => ArrayOf(c)[x] <= calls[c].pivot
    /\ \A x \in Int : calls[c].i <= x /\ x < calls[c].j => calls[c].pivot <= ArrayOf(c)[x]

\* The calls and the structs there are in each phase of main.
PhaseOK ==
  /\ Root \in DOMAIN calls
  /\ \A c \in DOMAIN calls : calls[c].kind = "vanilla" <=> phase # "threaded"
  /\ phase = "threaded" => Thread(Root) /\ arr2 = vals
  /\ Low(Root) = 0 /\ High(Root) = N - 1
  /\ Root \in DOMAIN data <=> phase # "end"
  /\ phase # "threaded" => DOMAIN data \subseteq {Root}
  /\ phase = "end" => ~ Running(Root)

TreeInv == \A c \in DOMAIN calls :
             CallOK(c) /\ StructsGiven(c) /\ LeftGiven(c) /\ RightGiven(c) /\ HasParent(c)
DataInv == \A c \in DOMAIN data : HasHolder(c)

Shape == TypesOK /\ PhaseOK /\ TreeInv /\ DataInv
Safety == Apart /\ \A c \in DOMAIN calls : Settled(c)
Loops == \A c \in DOMAIN calls : LoopInv(c)

-----------------------------------------------------------------------------

\* A call that has not started a part has no call below it there.
LEMMA Fresh ==
  ASSUME Shape, NEW c \in DOMAIN calls
  PROVE  /\ calls[c].pc \in Undivided => 2 * c \notin DOMAIN calls
         /\ calls[c].pc \in Undivided \cup {"createRight", "inLeft"} => 2 * c + 1 \notin DOMAIN calls
<1>1. DOMAIN calls \subseteq Nat \ {0}
  BY DEF Shape, TypesOK
<1>2. \A d \in DOMAIN calls : HasParent(d)
  BY DEF Shape, TreeInv
<1> QED
  BY <1>1, <1>2 DEF HasParent, IsParent, Root

\* The record of call c afterwards: its kind and its arguments stay.
Becomes(c, i, j, pivot, pc) ==
  /\ calls'[c].kind = calls[c].kind /\ calls'[c].l = calls[c].l /\ calls'[c].r = calls[c].r
  /\ calls'[c].i = i /\ calls'[c].j = j /\ calls'[c].pivot = pivot /\ calls'[c].pc = pc

\* Call c only gets to pc.
Reaches(c, pc) == Becomes(c, calls[c].i, calls[c].j, calls[c].pivot, pc)

\* A step of call c that starts the calls in new.
Steps(c, new) ==
  /\ DOMAIN calls' = DOMAIN calls \cup new
  /\ \A d \in DOMAIN calls : d # c => calls'[d] = calls[d]

\* What Goto does to the records of the calls.
LEMMA GotoFacts ==
  ASSUME TypesOK, NEW c \in DOMAIN calls, NEW pc \in Pcs, Goto(c, pc)
  PROVE  calls' \in [DOMAIN calls' -> Frame] /\ Steps(c, {}) /\ Reaches(c, pc)
BY DEF TypesOK, Goto, Frame, Becomes, Reaches, Steps

\* Calls have integer bounds, and those of a running call lie in the array.
LEMMA Bounds ==
  ASSUME Shape, NEW c \in DOMAIN calls
  PROVE  /\ calls[c] \in Frame /\ c \in Nat \ {0}
         /\ Known(c) => Low(c) \in Int /\ High(c) \in Int
         /\ Running(c) => Known(c) /\ 0 <= Low(c) /\ High(c) <= N - 1
BY NAssumption DEF Shape, TypesOK, TreeInv, CallOK, Known, Low, High, Thread, Frame, Struct

\* The elements of the array that a call works on are integers.
LEMMA Elements ==
  ASSUME Shape, NEW c \in DOMAIN calls
  PROVE  ArrayOf(c) \in [Index -> Value] /\ ArrayOf(c) \in [Index -> Int]
BY ValueAssumption DEF Shape, TypesOK, ArrayOf

\* The effect of each action, without EXCEPT.
EnterEffect(c) ==
  /\ Steps(c, {}) /\ UNCHANGED <<arr, arr2, data>> /\ calls[c].pc = "start"
  /\ \/ High(c) <= Low(c) /\ Reaches(c, "done")
     \/ Low(c) < High(c) /\ Becomes(c, Low(c), Low(c), ArrayOf(c)[High(c)], "loop")

ScanEffect(c) ==
  LET f == calls[c] IN
  /\ Steps(c, {}) /\ UNCHANGED data /\ f.pc = "loop" /\ f.j < High(c)
  /\ \/ /\ ArrayOf(c)[f.j] < f.pivot
        /\ Becomes(c, f.i + 1, f.j + 1, f.pivot, "loop")
        /\ Store(c, Exchanged(ArrayOf(c), f.i, f.j))
     \/ /\ f.pivot <= ArrayOf(c)[f.j]
        /\ Becomes(c, f.i, f.j + 1, f.pivot, "loop")
        /\ UNCHANGED <<arr, arr2>>

PlaceEffect(c) ==
  /\ Steps(c, {}) /\ UNCHANGED data /\ calls[c].pc = "loop" /\ High(c) <= calls[c].j
  /\ Store(c, Exchanged(ArrayOf(c), calls[c].i, High(c)))
  /\ \/ Spawns(c) /\ Reaches(c, "allocate")
     \/ ~ Spawns(c) /\ Reaches(c, "left")

AllocateEffect(c) ==
  /\ Steps(c, {}) /\ UNCHANGED <<arr, arr2>> /\ calls[c].pc = "allocate" /\ Reaches(c, "createLeft")
  /\ DOMAIN data' = DOMAIN data \cup {2 * c, 2 * c + 1}
  /\ data'[2 * c] = NewData(Low(c), calls[c].i - 1, data[c].depth + 1)
  /\ data'[2 * c + 1] = NewData(calls[c].i + 1, High(c), data[c].depth + 1)
  /\ \A d \in DOMAIN data \ {2 * c, 2 * c + 1} : data'[d] = data[d]
  /\ data' \in [DOMAIN data' -> Struct]
  /\ {2 * c, 2 * c + 1} \cap DOMAIN calls = {}

JoinRightEffect(c) ==
  /\ Steps(c, {}) /\ UNCHANGED <<arr, arr2>> /\ calls[c].pc = "joinRight" /\ Reaches(c, "done")
  /\ calls[2 * c + 1].pc = "done"
  /\ DOMAIN data' = DOMAIN data \ {2 * c, 2 * c + 1}
  /\ \A d \in DOMAIN data \ {2 * c, 2 * c + 1} : data'[d] = data[d]
  /\ data' \in [DOMAIN data' -> Struct]

\* Call c starts call n at pc and gets to there.
StartEffect(c, pc, there, n, kind, l, r) ==
  /\ Steps(c, {n}) /\ UNCHANGED <<arr, arr2, data>> /\ calls[c].pc = pc /\ Reaches(c, there)
  /\ n \notin DOMAIN calls
  /\ calls'[n].kind = kind /\ calls'[n].l = l /\ calls'[n].r = r /\ calls'[n].pc = "start"

\* Call c, with call n done, gets from pc to there.
WaitEffect(c, pc, there, n) ==
  /\ Steps(c, {}) /\ UNCHANGED <<arr, arr2, data>> /\ calls[c].pc = pc /\ Reaches(c, there)
  /\ calls[n].pc = "done"

CallEffect(c) ==
  \/ EnterEffect(c) \/ ScanEffect(c) \/ PlaceEffect(c) \/ AllocateEffect(c) \/ JoinRightEffect(c)
  \/ StartEffect(c, "createLeft", "createRight", 2 * c, "threaded", 0, 0)
  \/ StartEffect(c, "createRight", "joinLeft", 2 * c + 1, "threaded", 0, 0)
  \/ WaitEffect(c, "joinLeft", "joinRight", 2 * c)
  \/ StartEffect(c, "left", "inLeft", 2 * c, PlainKind(c), Low(c), calls[c].i - 1)
  \/ /\ StartEffect(c, "inLeft", "inRight", 2 * c + 1, PlainKind(c), calls[c].i + 1, High(c))
     /\ calls[2 * c].pc = "done"
  \/ WaitEffect(c, "inRight", "done", 2 * c + 1)

\* The first step of a call and a step of the partition loop have their effects.
LEMMA PartitionEffects ==
  ASSUME Shape, NEW c \in DOMAIN calls
  PROVE  /\ Enter(c) => EnterEffect(c) /\ calls' \in [DOMAIN calls' -> Frame]
         /\ Scan(c) => ScanEffect(c) /\ calls' \in [DOMAIN calls' -> Frame]
<1>0. calls \in [DOMAIN calls -> Frame] /\ calls[c] \in Frame /\ ArrayOf(c) \in [Index -> Int]
  BY Bounds, Elements DEF Shape, TypesOK
<1>1. ASSUME NEW i \in Int, NEW j \in Int, NEW pivot \in Int,
             calls' = [calls EXCEPT ![c].pc = "loop", ![c].pivot = pivot, ![c].i = i, ![c].j = j]
      PROVE  calls' \in [DOMAIN calls' -> Frame] /\ Steps(c, {}) /\ Becomes(c, i, j, pivot, "loop")
  BY <1>0, <1>1 DEF Steps, Becomes, Frame, Pcs
<1>a. ASSUME NEW i \in Int, NEW j \in Int, calls' = [calls EXCEPT ![c].i = i, ![c].j = j]
      PROVE  calls' \in [DOMAIN calls' -> Frame] /\ Steps(c, {})
             /\ Becomes(c, i, j, calls[c].pivot, calls[c].pc)
  BY <1>0, <1>a DEF Steps, Becomes, Frame, Pcs
<1>2. ASSUME Enter(c) PROVE EnterEffect(c) /\ calls' \in [DOMAIN calls' -> Frame]
  <2>1. Low(c) \in Int /\ High(c) \in Int /\ 0 <= Low(c) /\ High(c) <= N - 1
    BY <1>2, Bounds DEF Enter, Running
  <2>2. CASE High(c) <= Low(c)
    BY <1>2, <2>2, GotoFacts DEF Enter, EnterEffect, Shape, Pcs
  <2>3. CASE ~ (High(c) <= Low(c))
    <3>1. ArrayOf(c)[High(c)] \in Int
      BY <1>0, <2>1, <2>3, NAssumption DEF Index
    <3>2. calls' = [calls EXCEPT ![c].pc = "loop", ![c].pivot = ArrayOf(c)[High(c)],
                                 ![c].i = Low(c), ![c].j = Low(c)]
      BY <1>2, <2>3 DEF Enter
    <3>3. calls' \in [DOMAIN calls' -> Frame] /\ Steps(c, {})
          /\ Becomes(c, Low(c), Low(c), ArrayOf(c)[High(c)], "loop")
      BY <1>1, <2>1, <3>1, <3>2
    <3> QED
      BY <1>2, <2>1, <2>3, <3>3 DEF Enter, EnterEffect
  <2> QED
    BY <1>2, <2>2, <2>3
<1>3. ASSUME Scan(c) PROVE ScanEffect(c) /\ calls' \in [DOMAIN calls' -> Frame]
  <2> DEFINE f == calls[c]
  <2>1. f.j \in Int /\ f.i \in Int /\ f.pivot \in Int /\ f.pc = "loop"
    BY <1>0, <1>3 DEF Frame, Scan
  <2>2. ArrayOf(c)[f.j] \in Int
    BY <1>0, <1>3, <2>1, Bounds, NAssumption DEF Scan, Shape, TreeInv, CallOK, Running, Index
  <2>3. CASE ArrayOf(c)[f.j] < f.pivot
    <3>1. calls' = [calls EXCEPT ![c].i = f.i + 1, ![c].j = f.j + 1]
      BY <1>3, <2>3 DEF Scan
    <3>i. f.i + 1 \in Int /\ f.j + 1 \in Int
      BY <2>1
    <3> HIDE DEF f
    <3>2. calls' \in [DOMAIN calls' -> Frame] /\ Steps(c, {})
          /\ Becomes(c, f.i + 1, f.j + 1, calls[c].pivot, calls[c].pc)
      BY <1>a, <3>i, <3>1
    <3> USE DEF f
    <3> QED
      BY <1>3, <2>1, <2>3, <3>2 DEF Scan, ScanEffect
  <2>4. CASE ~ (ArrayOf(c)[f.j] < f.pivot)
    <3>1. calls' = [calls EXCEPT ![c].j = f.j + 1]
      BY <1>3, <2>4 DEF Scan
    <3>2. calls' \in [DOMAIN calls' -> Frame] /\ Steps(c, {})
          /\ Becomes(c, f.i, f.j + 1, f.pivot, "loop")
      BY <1>0, <2>1, <3>1 DEF Steps, Becomes, Frame
    <3> QED
      BY <1>3, <2>1, <2>2, <2>4, <3>2 DEF Scan, ScanEffect
  <2> QED
    BY <2>3, <2>4
<1> QED
  BY <1>2, <1>3

\* Every step of a call has one of the effects, keeps the records of their type,
\* and leaves alone what belongs to main.
LEMMA Effects ==
  ASSUME Shape, NEW c \in DOMAIN calls, Call(c)
  PROVE  CallEffect(c) /\ calls' \in [DOMAIN calls' -> Frame] /\ UNCHANGED <<vals, phase, bad_count>>
<1>0. /\ TypesOK /\ calls[c] \in Frame /\ data \in [DOMAIN data -> Struct]
      /\ Running(c) => Known(c) /\ 0 <= Low(c) /\ High(c) <= N - 1 /\ Low(c) \in Int /\ High(c) \in Int
      /\ calls[c].i \in Int
      /\ PlainKind(c) \in {"threaded", "global", "vanilla"}
  BY Bounds DEF Shape, TypesOK, Frame, PlainKind
<1>1. CASE Enter(c)
  BY <1>1, PartitionEffects DEF CallEffect, Enter
<1>2. CASE Scan(c)
  BY <1>2, PartitionEffects DEF CallEffect, Scan
<1>3. CASE Place(c)
  <2>1. CASE Spawns(c)
    <3>1. Goto(c, "allocate")
      BY <1>3, <2>1 DEF Place
    <3> QED
      BY <1>0, <1>3, <2>1, <3>1, GotoFacts DEF Place, CallEffect, PlaceEffect, Pcs
  <2>2. CASE ~ Spawns(c)
    <3>1. Goto(c, "left")
      BY <1>3, <2>2 DEF Place
    <3> QED
      BY <1>0, <1>3, <2>2, <3>1, GotoFacts DEF Place, CallEffect, PlaceEffect, Pcs
  <2> QED
    BY <2>1, <2>2
<1>4. CASE Allocate(c)
  <2>1. calls' \in [DOMAIN calls' -> Frame] /\ Steps(c, {}) /\ Reaches(c, "createLeft")
    BY <1>0, <1>4, GotoFacts DEF Allocate, Pcs
  <2>2. data[c].depth \in 0 .. MaxDepth
    BY <1>0, <1>4, DepthAssumption DEF Allocate, Shape, TreeInv, CallOK, Struct, Known, Running
  <2>3. 0 <= Low(c) /\ Low(c) <= calls[c].i /\ calls[c].i <= High(c) /\ High(c) <= N - 1
    BY <1>0, <1>4 DEF Allocate, Shape, TreeInv, CallOK, Placed, Running
  <2>4. /\ NewData(Low(c), calls[c].i - 1, data[c].depth + 1) \in Struct
        /\ NewData(calls[c].i + 1, High(c), data[c].depth + 1) \in Struct
    BY <1>0, <1>4, <2>2, <2>3, NAssumption, DepthAssumption DEF NewData, Struct, Allocate, Running
  <2>5. {2 * c, 2 * c + 1} \cap DOMAIN calls = {}
    BY <1>4, Fresh DEF Allocate, Undivided
  <2> HIDE DEF Struct
  <2>6. AllocateEffect(c)
    BY <1>0, <1>4, <2>1, <2>4, <2>5, Bounds DEF Allocate, AllocateEffect, WithData
  <2> QED
    BY <1>4, <2>1, <2>6 DEF CallEffect, Allocate
<1>5. CASE CreateLeft(c)
  <2>1. 2 * c \notin DOMAIN calls
    BY <1>5, Fresh DEF CreateLeft, Undivided
  <2>2. 0 \in Int /\ 0 \in Int
    BY <1>0, <1>5 DEF CreateLeft, Running
  <2>3. Start(c, "createRight", 2 * c, NewCall("threaded", 0, 0)) /\ calls[c].pc = "createLeft"
    BY <1>5 DEF CreateLeft
  <2>4. calls' \in [DOMAIN calls' -> Frame] /\ StartEffect(c, "createLeft", "createRight", 2 * c, "threaded", 0, 0)
    BY <1>0, <1>5, <2>1, <2>2 DEF CreateLeft, TypesOK, Start, NewCall, Frame, Steps, Becomes, Reaches, StartEffect, Pcs
  <2> QED
    BY <1>5, <2>4 DEF CreateLeft, CallEffect
<1>6. CASE CallLeft(c)
  <2>1. 2 * c \notin DOMAIN calls
    BY <1>6, Fresh DEF CallLeft, Undivided
  <2>2. Low(c) \in Int /\ calls[c].i - 1 \in Int
    BY <1>0, <1>6 DEF CallLeft, Running
  <2>3. Start(c, "inLeft", 2 * c, NewCall(PlainKind(c), Low(c), calls[c].i - 1)) /\ calls[c].pc = "left"
    BY <1>6 DEF CallLeft
  <2>4. calls' \in [DOMAIN calls' -> Frame] /\ StartEffect(c, "left", "inLeft", 2 * c, PlainKind(c), Low(c), calls[c].i - 1)
    BY <1>0, <1>6, <2>1, <2>2 DEF CallLeft, TypesOK, Start, NewCall, Frame, Steps, Becomes, Reaches, StartEffect, Pcs
  <2> QED
    BY <1>6, <2>4 DEF CallLeft, CallEffect
<1>7. CASE CreateRight(c)
  <2>1. 2 * c + 1 \notin DOMAIN calls
    BY <1>7, Fresh DEF CreateRight, Undivided
  <2>2. 0 \in Int /\ 0 \in Int
    BY <1>0, <1>7 DEF CreateRight, Running
  <2>3. Start(c, "joinLeft", 2 * c + 1, NewCall("threaded", 0, 0)) /\ calls[c].pc = "createRight"
    BY <1>7 DEF CreateRight
  <2>4. calls' \in [DOMAIN calls' -> Frame] /\ StartEffect(c, "createRight", "joinLeft", 2 * c + 1, "threaded", 0, 0)
    BY <1>0, <1>7, <2>1, <2>2 DEF CreateRight, TypesOK, Start, NewCall, Frame, Steps, Becomes, Reaches, StartEffect, Pcs
  <2> QED
    BY <1>7, <2>4 DEF CreateRight, CallEffect
<1>8. CASE LeftReturned(c)
  <2>1. 2 * c + 1 \notin DOMAIN calls
    BY <1>8, Fresh DEF LeftReturned, Undivided
  <2>2. calls[c].i + 1 \in Int /\ High(c) \in Int
    BY <1>0, <1>8 DEF LeftReturned, Running
  <2>3. Start(c, "inRight", 2 * c + 1, NewCall(PlainKind(c), calls[c].i + 1, High(c))) /\ calls[c].pc = "inLeft"
    BY <1>8 DEF LeftReturned
  <2>4. calls' \in [DOMAIN calls' -> Frame] /\ StartEffect(c, "inLeft", "inRight", 2 * c + 1, PlainKind(c), calls[c].i + 1, High(c))
    BY <1>0, <1>8, <2>1, <2>2 DEF LeftReturned, TypesOK, Start, NewCall, Frame, Steps, Becomes, Reaches, StartEffect, Pcs
  <2> QED
    BY <1>8, <2>4 DEF LeftReturned, CallEffect
<1>9. CASE JoinLeft(c) \/ RightReturned(c)
  BY <1>0, <1>9, GotoFacts DEF JoinLeft, RightReturned, CallEffect, WaitEffect, Pcs
<1>10. CASE JoinRight(c)
  BY <1>0, <1>10, GotoFacts DEF JoinRight, CallEffect, JoinRightEffect, Pcs
<1> QED
  BY <1>1, <1>2, <1>3, <1>4, <1>5, <1>6, <1>7, <1>8, <1>9, <1>10 DEF Call

-----------------------------------------------------------------------------

\* A step of call c leaves the bounds of every call that still has some, and
\* takes none from a running call.
LEMMA BoundsStay ==
  ASSUME Shape, NEW c \in DOMAIN calls, Call(c)
  PROVE  \A d \in DOMAIN calls :
           /\ calls'[d].kind = calls[d].kind
           /\ Running(d) => Known(d)'
           /\ Known(d)' => Known(d) /\ Low(d)' = Low(d) /\ High(d)' = High(d)
           /\ Known(d)' /\ Thread(d) => d \in DOMAIN data' /\ data'[d] = data[d]
<1> USE DEF Known, Low, High, Thread, Running
<1>1. CallEffect(c) /\ \A d \in DOMAIN calls : Running(d) => Known(d)
  BY Effects, Bounds
<1>2. CASE AllocateEffect(c)
  BY <1>1, <1>2 DEF AllocateEffect, Steps, Reaches, Becomes
<1>3. CASE JoinRightEffect(c)
  <2>1. ~ Running(2 * c) /\ ~ Running(2 * c + 1)
    BY <1>3 DEF JoinRightEffect, Shape, TreeInv, LeftGiven
  <2> QED
    BY <1>1, <1>3, <2>1 DEF JoinRightEffect, Steps, Reaches, Becomes
<1>4. CASE ~ AllocateEffect(c) /\ ~ JoinRightEffect(c)
  <2>1. /\ data' = data
        /\ \A d \in DOMAIN calls : d # c => calls'[d] = calls[d]
        /\ calls'[c].kind = calls[c].kind /\ calls'[c].l = calls[c].l /\ calls'[c].r = calls[c].r
    BY <1>1, <1>4 DEF CallEffect, EnterEffect, ScanEffect, PlaceEffect, StartEffect, WaitEffect,
       Steps, Reaches, Becomes
  <2> QED
    BY <1>1, <2>1
<1> QED
  BY <1>2, <1>3, <1>4

\* The call that a step starts, if it starts one, and its bounds.
LEMMA NewCalls ==
  ASSUME Shape, NEW c \in DOMAIN calls, Call(c)
  PROVE  \A n \in DOMAIN calls' \ DOMAIN calls :
           /\ calls'[n].pc = "start" /\ Known(n)' /\ (Thread(n)' <=> calls'[c].pc \in HoldsStructs)
           /\ \/ /\ n = 2 * c
                 /\ calls[c].pc \in {"createLeft", "left"} /\ calls'[c].pc \in {"createRight", "inLeft"}
                 /\ Low(n)' = Low(c) /\ High(n)' = calls[c].i - 1
              \/ /\ n = 2 * c + 1
                 /\ calls[c].pc \in {"createRight", "inLeft"} /\ calls'[c].pc \in {"joinLeft", "inRight"}
                 /\ Low(n)' = calls[c].i + 1 /\ High(n)' = High(c)
<1> USE DEF Known, Low, High, Thread
<1>1. CallEffect(c) /\ StructsGiven(c) /\ CallOK(c) /\ PlainKind(c) # "threaded"
  BY Effects DEF Shape, TreeInv, PlainKind
<1>2. SUFFICES ASSUME NEW n \in DOMAIN calls' \ DOMAIN calls
               PROVE  /\ calls'[n].pc = "start" /\ Known(n)' /\ (Thread(n)' <=> calls'[c].pc \in HoldsStructs)
                      /\ \/ /\ n = 2 * c
                            /\ calls[c].pc \in {"createLeft", "left"} /\ calls'[c].pc \in {"createRight", "inLeft"}
                            /\ Low(n)' = Low(c) /\ High(n)' = calls[c].i - 1
                         \/ /\ n = 2 * c + 1
                            /\ calls[c].pc \in {"createRight", "inLeft"} /\ calls'[c].pc \in {"joinLeft", "inRight"}
                            /\ Low(n)' = calls[c].i + 1 /\ High(n)' = High(c)
  OBVIOUS
<1>3. CASE StartEffect(c, "createLeft", "createRight", 2 * c, "threaded", 0, 0)
  BY <1>1, <1>3 DEF StartEffect, Steps, Reaches, Becomes, StructsGiven, CallOK, HoldsStructs
<1>4. CASE StartEffect(c, "createRight", "joinLeft", 2 * c + 1, "threaded", 0, 0)
  BY <1>1, <1>4 DEF StartEffect, Steps, Reaches, Becomes, StructsGiven, CallOK, HoldsStructs
<1>5. CASE StartEffect(c, "left", "inLeft", 2 * c, PlainKind(c), Low(c), calls[c].i - 1)
  BY <1>1, <1>5 DEF StartEffect, Steps, Reaches, Becomes, HoldsStructs
<1>6. CASE StartEffect(c, "inLeft", "inRight", 2 * c + 1, PlainKind(c), calls[c].i + 1, High(c))
  BY <1>1, <1>6 DEF StartEffect, Steps, Reaches, Becomes, HoldsStructs
<1> QED
  BY <1>1, <1>3, <1>4, <1>5, <1>6 DEF CallEffect, EnterEffect, ScanEffect, PlaceEffect,
     AllocateEffect, JoinRightEffect, WaitEffect, Steps

\* How a step of call c changes the cells that c owns.
LEMMA OwnCells ==
  ASSUME Shape, NEW c \in DOMAIN calls, Call(c)
  PROVE  /\ \A x \in Int : Owns(c, x)' => Owns(c, x)
         /\ \A x \in Int, n \in DOMAIN calls' \ DOMAIN calls : Owns(n, x)' => Owns(c, x) /\ ~ Owns(c, x)'
<1>1. /\ CallEffect(c) /\ Running(c)
      /\ Low(c) \in Int /\ High(c) \in Int /\ Low(c)' = Low(c) /\ High(c)' = High(c)
      /\ calls[c].i \in Int
      /\ calls[c].pc \in Placed => Low(c) <= calls[c].i /\ calls[c].i <= High(c)
  <2>1. Running(c)
    BY DEF Call, Enter, Scan, Place, Allocate, CreateLeft, CreateRight, JoinLeft, JoinRight,
       CallLeft, LeftReturned, RightReturned, Running
  <2> QED
    BY <2>1, Effects, BoundsStay, Bounds DEF Shape, TreeInv, CallOK, Frame
<1>2. CASE EnterEffect(c) \/ ScanEffect(c) \/ PlaceEffect(c)
  <2>1. /\ calls[c].pc \in Partitioning /\ DOMAIN calls' = DOMAIN calls
        /\ calls'[c].pc \in Undivided \cup {"done"}
    BY <1>2 DEF EnterEffect, ScanEffect, PlaceEffect, Steps, Reaches, Becomes, Partitioning, Undivided
  <2> QED
    BY <1>1, <2>1 DEF Owns, Partitioning, Undivided
<1>3. CASE AllocateEffect(c) \/ JoinRightEffect(c) \/ WaitEffect(c, "joinLeft", "joinRight", 2 * c)
           \/ WaitEffect(c, "inRight", "done", 2 * c + 1)
  <2>1. /\ DOMAIN calls' = DOMAIN calls
        /\ \/ calls[c].pc = "allocate" /\ calls'[c].pc = "createLeft"
           \/ calls'[c].pc \in {"joinRight", "done"}
    BY <1>3 DEF AllocateEffect, JoinRightEffect, WaitEffect, Steps, Reaches, Becomes
  <2> QED
    BY <1>1, <2>1 DEF Owns, Undivided
<1>4. CASE \/ StartEffect(c, "createLeft", "createRight", 2 * c, "threaded", 0, 0)
           \/ StartEffect(c, "left", "inLeft", 2 * c, PlainKind(c), Low(c), calls[c].i - 1)
  <2>1. calls'[c].i = calls[c].i /\ calls'[c].pc \in {"createRight", "inLeft"}
        /\ calls[c].pc \in {"createLeft", "left"}
    BY <1>4 DEF StartEffect, Reaches, Becomes
  <2>2. \A n \in DOMAIN calls' \ DOMAIN calls :
          calls'[n].pc = "start" /\ Low(n)' = Low(c) /\ High(n)' = calls[c].i - 1
    BY <2>1, NewCalls
  <2> QED
    BY <1>1, <2>1, <2>2 DEF Owns, Undivided, Placed
<1>5. CASE \/ StartEffect(c, "createRight", "joinLeft", 2 * c + 1, "threaded", 0, 0)
           \/ StartEffect(c, "inLeft", "inRight", 2 * c + 1, PlainKind(c), calls[c].i + 1, High(c))
  <2>1. calls'[c].pc \in {"joinLeft", "inRight"} /\ calls[c].pc \in {"createRight", "inLeft"}
    BY <1>5 DEF StartEffect, Reaches, Becomes
  <2>2. \A n \in DOMAIN calls' \ DOMAIN calls :
          calls'[n].pc = "start" /\ Low(n)' = calls[c].i + 1 /\ High(n)' = High(c)
    BY <2>1, NewCalls
  <2> QED
    BY <1>1, <2>1, <2>2 DEF Owns, Undivided
<1> QED
  BY <1>1, <1>2, <1>3, <1>4, <1>5 DEF CallEffect

\* No step of a call gives a cell a second owner, or an owner to a cell that
\* had none.
LEMMA Ownership ==
  ASSUME Shape, NEW c \in DOMAIN calls, Call(c)
  PROVE  /\ Apart => Apart'
         /\ \A x \in Int : Owned(x)' => Owned(x)
         /\ \A d \in DOMAIN calls, x \in Int : d # c => (Owns(d, x)' <=> Owns(d, x))
<1>1. /\ DOMAIN calls \subseteq DOMAIN calls'
      /\ \A d \in DOMAIN calls : d # c => calls'[d] = calls[d]
      /\ \A m, n \in DOMAIN calls' \ DOMAIN calls : m = n
  BY Effects DEF CallEffect, EnterEffect, ScanEffect, PlaceEffect, AllocateEffect, JoinRightEffect,
     StartEffect, WaitEffect, Steps
<1>2. \A d \in DOMAIN calls, x \in Int : d # c => (Owns(d, x)' <=> Owns(d, x))
  BY <1>1, BoundsStay DEF Owns, Undivided, Running
<1>3. \A d \in DOMAIN calls' : \/ d \in DOMAIN calls /\ d # c
                             \/ d = c
                             \/ d \in DOMAIN calls' \ DOMAIN calls
  OBVIOUS
<1>4. /\ \A x \in Int : Owns(c, x)' => Owns(c, x)
      /\ \A x \in Int, n \in DOMAIN calls' \ DOMAIN calls : Owns(n, x)' => Owns(c, x) /\ ~ Owns(c, x)'
  BY OwnCells
<1>5. \A x \in Int : Owned(x)' => Owned(x)
  <2> SUFFICES ASSUME NEW x \in Int, NEW d \in DOMAIN calls', Owns(d, x)' PROVE \E e \in DOMAIN calls : Owns(e, x)
    BY DEF Owned
  <2> QED
    BY <1>2, <1>3, <1>4
<1>6. Apart => Apart'
  <2> SUFFICES ASSUME Apart, NEW d \in DOMAIN calls', NEW e \in DOMAIN calls', d # e,
                      NEW x \in Int, Owns(d, x)', Owns(e, x)'
               PROVE  FALSE
    BY DEF Apart
  <2> QED
    BY <1>1, <1>2, <1>3, <1>4 DEF Apart
<1> QED
  BY <1>2, <1>5, <1>6

\* What is in its final place stays there.
LEMMA SettledStep ==
  ASSUME Shape, Safety, NEW c \in DOMAIN calls, Call(c)
  PROVE  Safety'
<1>1. Apart /\ \A d \in DOMAIN calls : Settled(d)
  BY DEF Safety
<1>2. Apart' /\ \A x \in Int : Owned(x)' => Owned(x)
  BY <1>1, Ownership
<1>3. ASSUME NEW d \in DOMAIN calls' PROVE Settled(d)'
  <2>1. CASE d \in DOMAIN calls /\ d # c
    <3>1. calls'[d] = calls[d]
      BY <2>1, Effects DEF CallEffect, EnterEffect, ScanEffect, PlaceEffect, AllocateEffect, JoinRightEffect,
         StartEffect, WaitEffect, Steps
    <3>2. calls[d].i \in Int
      BY <2>1, Bounds DEF Frame
    <3> QED
      BY <1>1, <1>2, <2>1, <3>1, <3>2, BoundsStay DEF Settled, Running
  <2>2. CASE d \notin DOMAIN calls
    BY <2>2, NewCalls DEF Settled, Running, Placed
  <2>3. CASE d = c
    <3>0. /\ Running(c) /\ Known(c)' /\ Low(c)' = Low(c) /\ High(c)' = High(c)
          /\ Low(c) \in Int /\ High(c) \in Int /\ calls[c].i \in Int
          /\ calls[c].pc \in Placed => Low(c) <= calls[c].i /\ calls[c].i <= High(c)
      <4>1. Running(c)
        BY DEF Call, Enter, Scan, Place, Allocate, CreateLeft, CreateRight, JoinLeft, JoinRight,
           CallLeft, LeftReturned, RightReturned, Running
      <4> QED
        BY <4>1, BoundsStay, Bounds DEF Shape, TreeInv, CallOK, Frame
    <3>1. CASE EnterEffect(c) \/ ScanEffect(c) \/ PlaceEffect(c) \/ AllocateEffect(c)
      <4>1. \/ calls'[c].pc \in Undivided
            \/ DOMAIN calls' = DOMAIN calls /\ calls[c].pc = "start" /\ calls'[c].pc = "done"
        BY <3>1 DEF EnterEffect, ScanEffect, PlaceEffect, AllocateEffect, Steps, Reaches, Becomes, Undivided
      <4>2. CASE calls'[c].pc \in Undivided
        BY <2>3, <4>2 DEF Settled, Running, Undivided, Placed
      <4>3. CASE DOMAIN calls' = DOMAIN calls /\ calls[c].pc = "start" /\ calls'[c].pc = "done"
        <5>1. \A x \in Int : ~ Owns(c, x)'
          BY <4>3 DEF Owns, Undivided
        <5>2. ASSUME NEW x \in Int, Low(c) <= x, x <= High(c) PROVE ~ Owned(x)'
          <6>1. Owns(c, x)
            BY <4>3, <5>2 DEF Owns, Undivided
          <6> QED
            BY <1>1, <4>3, <5>1, <6>1, Ownership DEF Owned, Apart
        <5> QED
          BY <2>3, <3>0, <4>3, <5>2 DEF Settled, Placed
      <4> QED
        BY <4>1, <4>2, <4>3
    <3>2. CASE JoinRightEffect(c) \/ WaitEffect(c, "inRight", "done", 2 * c + 1)
      <4>1. /\ calls[c].pc \in {"joinRight", "inRight"} /\ calls'[c].pc = "done"
            /\ calls[2 * c + 1].pc = "done"
        BY <3>2 DEF JoinRightEffect, WaitEffect, Reaches, Becomes
      <4>2. /\ 2 * c \in DOMAIN calls /\ 2 * c + 1 \in DOMAIN calls
            /\ ~ Running(2 * c) /\ Known(2 * c) /\ Low(2 * c) = Low(c) /\ High(2 * c) = calls[c].i - 1
            /\ ~ Running(2 * c + 1) /\ Known(2 * c + 1)
            /\ Low(2 * c + 1) = calls[c].i + 1 /\ High(2 * c + 1) = High(c)
        BY <4>1 DEF Shape, TreeInv, LeftGiven, RightGiven, Running
      <4>3. ~ Owned(calls[c].i)
        BY <1>1, <4>1 DEF Settled, Placed, Undivided
      <4>4. ASSUME NEW x \in Int, Low(c) <= x, x <= High(c) PROVE ~ Owned(x)
        <5>1. x < calls[c].i \/ x = calls[c].i \/ x > calls[c].i
          BY <3>0
        <5> QED
          BY <1>1, <3>0, <4>2, <4>3, <4>4, <5>1 DEF Settled
      <4> QED
        BY <1>2, <2>3, <3>0, <4>1, <4>4 DEF Settled, Placed
    <3>3. CASE WaitEffect(c, "joinLeft", "joinRight", 2 * c)
               \/ StartEffect(c, "createRight", "joinLeft", 2 * c + 1, "threaded", 0, 0)
               \/ StartEffect(c, "inLeft", "inRight", 2 * c + 1, PlainKind(c), calls[c].i + 1, High(c))
      <4>1. /\ calls[c].pc \in {"joinLeft", "createRight", "inLeft"} /\ calls'[c].pc # "done"
            /\ calls'[c].i = calls[c].i
        BY <3>3 DEF WaitEffect, StartEffect, Reaches, Becomes
      <4>2. ~ Owned(calls[c].i)
        BY <1>1, <4>1 DEF Settled, Placed, Undivided
      <4> QED
        BY <1>2, <2>3, <3>0, <4>1, <4>2 DEF Settled, Running
    <3>4. CASE StartEffect(c, "createLeft", "createRight", 2 * c, "threaded", 0, 0)
               \/ StartEffect(c, "left", "inLeft", 2 * c, PlainKind(c), Low(c), calls[c].i - 1)
      <4>1. /\ calls[c].pc \in {"createLeft", "left"} /\ calls'[c].pc \in {"createRight", "inLeft"}
            /\ calls'[c].i = calls[c].i
        BY <3>4 DEF StartEffect, Reaches, Becomes
      <4>2. Owns(c, calls[c].i) /\ ~ Owns(c, calls[c].i)'
        BY <3>0, <4>1 DEF Owns, Undivided, Placed
      <4>3. \A n \in DOMAIN calls' \ DOMAIN calls :
              calls'[n].pc = "start" /\ Low(n)' = Low(c) /\ High(n)' = calls[c].i - 1
        BY <4>1, NewCalls
      <4>4. \A n \in DOMAIN calls' \ DOMAIN calls : ~ Owns(n, calls[c].i)'
        BY <3>0, <4>1, <4>3 DEF Owns, Undivided
      <4>5. ~ Owned(calls[c].i)'
        BY <1>1, <3>0, <4>1, <4>2, <4>4, Ownership DEF Owned, Apart
      <4> QED
        BY <2>3, <4>1, <4>5 DEF Settled, Running
    <3> QED
      BY <3>1, <3>2, <3>3, <3>4, Effects DEF CallEffect
  <2> QED
    BY <2>1, <2>2, <2>3
<1> QED
  BY <1>2, <1>3 DEF Safety

-----------------------------------------------------------------------------

\* Only a running call takes steps.
LEMMA OnlyRunning == ASSUME NEW c, Call(c) PROVE Running(c)
BY DEF Call, Enter, Scan, Place, Allocate, CreateLeft, CreateRight, JoinLeft, JoinRight,
   CallLeft, LeftReturned, RightReturned, Running

\* The structs of all calls but the parts of c stay, and so do the records of
\* all calls but c; c keeps its kind and, but for the partition, its pivot.
LEMMA OthersStay ==
  ASSUME Shape, NEW c \in DOMAIN calls, Call(c)
  PROVE  /\ \A x \in DOMAIN data \ {2 * c, 2 * c + 1} : x \in DOMAIN data' /\ data'[x] = data[x]
         /\ DOMAIN data' \subseteq DOMAIN data \cup {2 * c, 2 * c + 1}
         /\ data' \in [DOMAIN data' -> Struct]
         /\ DOMAIN calls \subseteq DOMAIN calls'
         /\ \A d \in DOMAIN calls : d # c => calls'[d] = calls[d]
         /\ calls[c].pc \in Placed => calls'[c].i = calls[c].i
<1>1. CallEffect(c) /\ data \in [DOMAIN data -> Struct]
  BY Effects DEF Shape, TypesOK
<1> HIDE DEF Struct
<1>2. CASE AllocateEffect(c) \/ JoinRightEffect(c)
  BY <1>1, <1>2 DEF AllocateEffect, JoinRightEffect, Steps, Reaches, Becomes
<1>3. CASE ~ AllocateEffect(c) /\ ~ JoinRightEffect(c)
  BY <1>1, <1>3 DEF CallEffect, EnterEffect, ScanEffect, PlaceEffect, StartEffect, WaitEffect,
     Steps, Reaches, Becomes, Placed
<1> QED
  BY <1>2, <1>3

\* An exchange of two cells of the array that call c works on.
LEMMA StoreTypes ==
  ASSUME Shape, NEW c \in DOMAIN calls, NEW p \in Index, NEW q \in Index,
         Store(c, Exchanged(ArrayOf(c), p, q))
  PROVE  {arr', arr2'} \subseteq [Index -> Value] /\ (~ (calls[c].kind = "vanilla") => arr2' = arr2)
BY DEF Shape, TypesOK, Store, ArrayOf, Exchanged, Parts!Exchanged

\* A step of a call keeps the types, and only changes the array of its sort.
LEMMA TypesStep ==
  ASSUME Shape, NEW c \in DOMAIN calls, Call(c)
  PROVE  /\ TypesOK'
         /\ calls[c].kind # "vanilla" => arr2' = arr2
         /\ calls[c].kind = "vanilla" => arr' = arr
<1>1. /\ CallEffect(c) /\ calls' \in [DOMAIN calls' -> Frame] /\ UNCHANGED <<vals, phase, bad_count>>
      /\ data' \in [DOMAIN data' -> Struct]
      /\ calls[c] \in Frame /\ c \in Nat \ {0} /\ CallOK(c)
      /\ Low(c) \in Int /\ High(c) \in Int /\ 0 <= Low(c) /\ High(c) <= N - 1
  BY Effects, OthersStay, Bounds, OnlyRunning DEF Shape, TreeInv
<1>2. DOMAIN calls' \subseteq Nat \ {0}
  BY <1>1, NewCalls DEF Shape, TypesOK
<1>3. /\ {arr', arr2'} \subseteq [Index -> Value]
      /\ calls[c].kind # "vanilla" => arr2' = arr2
      /\ calls[c].kind = "vanilla" => arr' = arr
  <2>1. CASE UNCHANGED <<arr, arr2>>
    BY <2>1 DEF Shape, TypesOK
  <2>2. CASE ~ UNCHANGED <<arr, arr2>>
    <3>1. /\ calls[c].pc = "loop"
          /\ \/ Store(c, Exchanged(ArrayOf(c), calls[c].i, calls[c].j))
             \/ Store(c, Exchanged(ArrayOf(c), calls[c].i, High(c)))
      BY <1>1, <2>2 DEF CallEffect, EnterEffect, ScanEffect, PlaceEffect, AllocateEffect, JoinRightEffect,
         StartEffect, WaitEffect
    <3>2. calls[c].i \in Index /\ calls[c].j \in Index /\ High(c) \in Index
      BY <1>1, <3>1, NAssumption DEF CallOK, Index, Frame
    <3> QED
      BY <3>1, <3>2, StoreTypes DEF Store
  <2> QED
    BY <2>1, <2>2
<1> QED
  BY <1>1, <1>2, <1>3 DEF Shape, TypesOK

\* A step of a call keeps what main relies on in each of its phases.
LEMMA PhaseStep ==
  ASSUME Shape, NEW c \in DOMAIN calls, Call(c)
  PROVE  PhaseOK'
<1>0. /\ CallEffect(c) /\ UNCHANGED <<vals, phase, bad_count>> /\ c \in Nat \ {0}
      /\ DOMAIN data' \subseteq DOMAIN data \cup {2 * c, 2 * c + 1}
      /\ Root \in DOMAIN data => Root \in DOMAIN data' /\ data'[Root] = data[Root]
      /\ DOMAIN calls \subseteq DOMAIN calls'
  BY Effects, Bounds, OthersStay DEF Root
<1>1. PhaseOK /\ TreeInv
  BY DEF Shape
<1>2. \A d \in DOMAIN calls' : calls'[d].kind = "vanilla" <=> phase # "threaded"
  <2>1. \A d \in DOMAIN calls : calls'[d].kind = calls[d].kind
    BY BoundsStay
  <2>2. \A d \in DOMAIN calls' \ DOMAIN calls : calls'[d].kind = "vanilla" <=> calls[c].kind = "vanilla"
    BY <1>0, <1>1, BoundsStay DEF CallEffect, EnterEffect, ScanEffect, PlaceEffect, AllocateEffect, JoinRightEffect,
       StartEffect, WaitEffect, Steps, PlainKind, TreeInv, CallOK, Thread, HoldsStructs
  <2> QED
    BY <1>1, <2>1, <2>2 DEF PhaseOK
<1>3. phase # "threaded" => DOMAIN data' \subseteq {Root}
  <2>1. phase # "threaded" => ~ Thread(c)
    BY <1>1 DEF PhaseOK, Thread
  <2> QED
    BY <1>0, <1>1, <2>1 DEF CallEffect, EnterEffect, ScanEffect, PlaceEffect, AllocateEffect, JoinRightEffect,
       StartEffect, WaitEffect, PhaseOK, TreeInv, CallOK, HoldsStructs
<1>4. Low(Root)' = 0 /\ High(Root)' = N - 1
  <2>1. Known(Root)'
    BY <1>0, <1>1, BoundsStay DEF PhaseOK, Known, Thread
  <2> QED
    BY <1>1, <2>1, BoundsStay DEF PhaseOK
<1>5. Root \in DOMAIN data' <=> phase # "end"
  BY <1>0, <1>1 DEF PhaseOK, Root
<1>6. phase = "threaded" => Thread(Root)' /\ arr2' = vals
  BY <1>1, BoundsStay, TypesStep DEF PhaseOK, Thread
<1>7. phase = "end" => ~ Running(Root)'
  BY <1>1, OnlyRunning, OthersStay DEF PhaseOK, Running
<1> QED
  BY <1>0, <1>1, <1>2, <1>3, <1>4, <1>5, <1>6, <1>7 DEF PhaseOK

\* A step of call c keeps the bounds and the loop variables of every call in order.
LEMMA CallOKStep ==
  ASSUME Shape, NEW c \in DOMAIN calls, Call(c), NEW d \in DOMAIN calls'
  PROVE  CallOK(d)'
<1>0. /\ CallEffect(c) /\ c \in Nat \ {0} /\ CallOK(c) /\ Running(c)
      /\ Low(c) \in Int /\ High(c) \in Int /\ 0 <= Low(c) /\ High(c) <= N - 1
      /\ calls[c].i \in Int /\ calls[c].j \in Int
      /\ Known(c)' /\ Low(c)' = Low(c) /\ High(c)' = High(c)
  BY Effects, Bounds, OnlyRunning, BoundsStay DEF Shape, TreeInv, Frame
<1>1. CASE d \in DOMAIN calls /\ d # c
  <2>1. calls'[d] = calls[d] /\ CallOK(d)
    BY <1>1, OthersStay DEF Shape, TreeInv
  <2>2. Running(d) => Known(d)' /\ Low(d)' = Low(d) /\ High(d)' = High(d)
    BY <1>1, BoundsStay
  <2>3. Thread(d) /\ Running(d) => d \in DOMAIN data' /\ data'[d] = data[d]
    BY <1>1, <2>2, BoundsStay
  <2> QED
    BY <2>1, <2>2, <2>3 DEF CallOK, Running, Placed, HoldsStructs, Thread
<1>2. CASE d \notin DOMAIN calls
  <2>1. /\ calls'[d].pc = "start" /\ Known(d)'
        /\ \/ Low(d)' = Low(c) /\ High(d)' = calls[c].i - 1
           \/ Low(d)' = calls[c].i + 1 /\ High(d)' = High(c)
        /\ calls[c].pc \in Placed
    BY <1>2, NewCalls DEF Placed
  <2> QED
    BY <1>0, <2>1, NAssumption DEF CallOK, Placed, HoldsStructs
<1>3. CASE d = c
  <2>1. CASE EnterEffect(c)
    BY <1>0, <1>3, <2>1 DEF EnterEffect, Reaches, Becomes, CallOK, Placed, HoldsStructs
  <2>2. CASE ScanEffect(c)
    BY <1>0, <1>3, <2>2 DEF ScanEffect, Reaches, Becomes, CallOK, Placed, HoldsStructs
  <2>3. CASE PlaceEffect(c)
    BY <1>0, <1>3, <2>3 DEF PlaceEffect, Reaches, Becomes, CallOK, Placed, HoldsStructs, Spawns, Thread
  <2>4. CASE ~ EnterEffect(c) /\ ~ ScanEffect(c) /\ ~ PlaceEffect(c)
    <3>1. /\ calls[c].pc \in Placed /\ calls'[c].pc \in Placed \cup {"done"}
          /\ calls'[c].pc \in HoldsStructs => calls[c].pc \in HoldsStructs \cup {"allocate"}
          /\ calls'[c].pc # "allocate" /\ calls'[c].kind = calls[c].kind
          /\ calls'[c].i = calls[c].i
      BY <1>0, <2>4 DEF CallEffect, AllocateEffect, JoinRightEffect, StartEffect, WaitEffect, Reaches,
         Becomes, Placed, HoldsStructs
    <3>2. Thread(c) => data'[c] = data[c]
      BY <1>0, BoundsStay
    <3> QED
      BY <1>0, <1>3, <3>1, <3>2 DEF CallOK, Thread, Placed
  <2> QED
    BY <2>1, <2>2, <2>3, <2>4
<1> QED
  BY <1>1, <1>2, <1>3

\* Call c gets from one program counter to another.
Moves(c, from, to) == calls[c].pc = from /\ calls'[c].pc = to

\* The steps there are, and what they wait for or start.
LEMMA PcStep ==
  ASSUME Shape, NEW c \in DOMAIN calls, Call(c)
  PROVE  \/ calls[c].pc \in Partitioning /\ calls'[c].pc \in {"loop", "allocate", "left", "done"}
         \/ Moves(c, "allocate", "createLeft") /\ AllocateEffect(c)
         \/ Moves(c, "createLeft", "createRight") /\ 2 * c \in DOMAIN calls'
         \/ Moves(c, "createRight", "joinLeft") /\ 2 * c + 1 \in DOMAIN calls'
         \/ Moves(c, "joinLeft", "joinRight") /\ calls[2 * c].pc = "done"
         \/ Moves(c, "joinRight", "done") /\ calls[2 * c + 1].pc = "done" /\ JoinRightEffect(c)
         \/ Moves(c, "left", "inLeft") /\ 2 * c \in DOMAIN calls'
         \/ Moves(c, "inLeft", "inRight") /\ calls[2 * c].pc = "done" /\ 2 * c + 1 \in DOMAIN calls'
         \/ Moves(c, "inRight", "done") /\ calls[2 * c + 1].pc = "done"
<1> USE DEF Reaches, Becomes, Steps, Moves
<1>1. CASE EnterEffect(c) \/ ScanEffect(c) \/ PlaceEffect(c)
  BY <1>1 DEF EnterEffect, ScanEffect, PlaceEffect, Partitioning
<1>2. CASE AllocateEffect(c) \/ JoinRightEffect(c)
  BY <1>2 DEF AllocateEffect, JoinRightEffect
<1>3. CASE StartEffect(c, "createLeft", "createRight", 2 * c, "threaded", 0, 0)
  BY <1>3 DEF StartEffect
<1>4. CASE StartEffect(c, "createRight", "joinLeft", 2 * c + 1, "threaded", 0, 0)
  BY <1>4 DEF StartEffect
<1>5. CASE WaitEffect(c, "joinLeft", "joinRight", 2 * c) \/ WaitEffect(c, "inRight", "done", 2 * c + 1)
  BY <1>5 DEF WaitEffect
<1>6. CASE StartEffect(c, "left", "inLeft", 2 * c, PlainKind(c), Low(c), calls[c].i - 1)
  BY <1>6 DEF StartEffect
<1>7. CASE /\ StartEffect(c, "inLeft", "inRight", 2 * c + 1, PlainKind(c), calls[c].i + 1, High(c))
           /\ calls[2 * c].pc = "done"
  BY <1>7 DEF StartEffect
<1> QED
  BY <1>1, <1>2, <1>3, <1>4, <1>5, <1>6, <1>7, Effects DEF CallEffect

\* Only Allocate and JoinRight change the structs.
LEMMA DataStep ==
  ASSUME Shape, NEW c \in DOMAIN calls, Call(c)
  PROVE  AllocateEffect(c) \/ JoinRightEffect(c) \/ data' = data
BY Effects DEF CallEffect, EnterEffect, ScanEffect, PlaceEffect, StartEffect, WaitEffect

\* The structs that a call holds stay as it filled them.
LEMMA StructsGivenStep ==
  ASSUME Shape, NEW c \in DOMAIN calls, Call(c), NEW d \in DOMAIN calls'
  PROVE  StructsGiven(d)'
<1>1. CASE d \in DOMAIN calls /\ d # c
  <2>1. calls'[d] = calls[d] /\ StructsGiven(d) /\ c \in Nat /\ d \in Nat
    BY <1>1, OthersStay, Bounds DEF Shape, TreeInv
  <2>2. Running(d) => Low(d)' = Low(d) /\ High(d)' = High(d)
    BY <1>1, BoundsStay
  <2>3. {2 * d, 2 * d + 1} \cap {2 * c, 2 * c + 1} = {}
    BY <1>1, <2>1
  <2> QED
    BY <2>1, <2>2, <2>3, OthersStay DEF StructsGiven, HoldsStructs, Running
<1>2. CASE d \notin DOMAIN calls
  BY <1>2, NewCalls DEF StructsGiven, HoldsStructs
<1>3. CASE d = c
  <2>0. /\ StructsGiven(c) /\ c \in Nat
        /\ calls[c].pc \in Placed => calls'[c].i = calls[c].i
        /\ Low(c)' = Low(c) /\ High(c)' = High(c)
    BY Bounds, OnlyRunning, BoundsStay, OthersStay DEF Shape, TreeInv
  <2>1. CASE AllocateEffect(c)
    <3>1. 2 * c # 2 * c + 1 /\ calls'[c].i = calls[c].i
      BY <2>0, <2>1 DEF AllocateEffect, Placed
    <3> QED
      BY <1>3, <2>0, <2>1, <3>1 DEF AllocateEffect, StructsGiven, NewData
  <2>2. CASE JoinRightEffect(c)
    BY <1>3, <2>2 DEF JoinRightEffect, Reaches, Becomes, StructsGiven, HoldsStructs
  <2>3. CASE data' = data
    <3>1. CASE calls'[c].pc \notin HoldsStructs
      BY <1>3, <3>1 DEF StructsGiven
    <3>2. CASE calls'[c].pc \in HoldsStructs
      <4>1. calls[c].pc \in HoldsStructs \/ AllocateEffect(c)
        BY <3>2, PcStep DEF Partitioning, HoldsStructs, Moves
      <4>2. CASE calls[c].pc \in HoldsStructs
        <5>1. calls[c].pc \in Placed
          BY <4>2 DEF Placed, HoldsStructs
        <5> QED
          BY <1>3, <2>0, <2>3, <4>2, <5>1 DEF StructsGiven
      <4> QED
        BY <2>1, <4>1, <4>2
    <3> QED
      BY <3>1, <3>2
  <2> QED
    BY <2>1, <2>2, <2>3, DataStep
<1> QED
  BY <1>1, <1>2, <1>3

\* A part that is done stays so, and keeps the bounds it has.
LEMMA PartStays ==
  ASSUME Shape, NEW c \in DOMAIN calls, Call(c), NEW d \in DOMAIN calls
  PROVE  /\ d \in DOMAIN calls' /\ (Thread(d)' <=> Thread(d))
         /\ Known(d)' => Known(d) /\ Low(d)' = Low(d) /\ High(d)' = High(d)
         /\ ~ Running(d) => ~ Running(d)' /\ d # c
BY OthersStay, BoundsStay, OnlyRunning DEF Running, Thread

\* The calls that a call has started keep the parts it gave them.
LEMMA PartsGivenStep ==
  ASSUME Shape, NEW c \in DOMAIN calls, Call(c), NEW d \in DOMAIN calls'
  PROVE  LeftGiven(d)' /\ RightGiven(d)'
<1>0. StructsGiven(d)'
  BY StructsGivenStep
<1>1. CASE d \notin DOMAIN calls
  BY <1>1, NewCalls DEF LeftGiven, RightGiven
<1>2. CASE d \in DOMAIN calls
  <2>1. LeftGiven(d) /\ RightGiven(d) /\ CallOK(d)
    BY <1>2 DEF Shape, TreeInv
  <2>2. Running(d) => Known(d)' /\ Low(d)' = Low(d) /\ High(d)' = High(d)
    BY <1>2, BoundsStay
  <2>3. ASSUME NEW n \in {2 * d, 2 * d + 1}, n \in DOMAIN calls,
               calls'[d].pc \in Placed, Thread(n) => calls'[d].pc \in HoldsStructs
        PROVE  /\ n \in DOMAIN calls' /\ (Thread(n)' <=> Thread(n)) /\ Known(n)'
               /\ Low(n)' = Low(n) /\ High(n)' = High(n) /\ (~ Running(n) => ~ Running(n)')
    BY <1>0, <2>3, PartStays DEF StructsGiven, HoldsStructs, Known, Thread
  <2>4. CASE d # c
    <3>1. calls'[d] = calls[d]
      BY <1>2, <2>4, OthersStay
    <3>2. LeftGiven(d)'
      BY <2>1, <2>2, <2>3, <3>1 DEF LeftGiven, Placed, HoldsStructs, Running
    <3>3. RightGiven(d)'
      BY <2>1, <2>2, <2>3, <3>1 DEF RightGiven, Placed, HoldsStructs, Running
    <3> QED
      BY <3>2, <3>3
  <2>5. CASE d = c
    <3>0. /\ Low(c)' = Low(c) /\ High(c)' = High(c)
          /\ calls[c].pc \in Placed => calls'[c].i = calls[c].i
      BY <2>2, <2>5, OnlyRunning, OthersStay
    <3>1. CASE Moves(c, "createLeft", "createRight") \/ Moves(c, "left", "inLeft")
      <4>1. 2 * c \in DOMAIN calls' \ DOMAIN calls
        BY <3>1, PcStep, Fresh DEF Moves, Partitioning, Undivided
      <4>2. /\ Known(2 * c)' /\ (Thread(2 * c)' <=> calls'[c].pc \in HoldsStructs)
            /\ Low(2 * c)' = Low(c) /\ High(2 * c)' = calls[c].i - 1
        BY <3>1, <4>1, NewCalls DEF Moves
      <4> QED
        BY <2>5, <3>0, <3>1, <4>1, <4>2 DEF LeftGiven, RightGiven, Moves, Placed
    <3>2. CASE Moves(c, "createRight", "joinLeft") \/ Moves(c, "inLeft", "inRight")
      <4>1. 2 * c + 1 \in DOMAIN calls' \ DOMAIN calls
        BY <3>2, PcStep, Fresh DEF Moves, Partitioning, Undivided
      <4>2. /\ Known(2 * c + 1)' /\ (Thread(2 * c + 1)' <=> calls'[c].pc \in HoldsStructs)
            /\ Low(2 * c + 1)' = calls[c].i + 1 /\ High(2 * c + 1)' = High(c)
        BY <3>2, <4>1, NewCalls DEF Moves
      <4>3. RightGiven(c)'
        BY <3>0, <3>2, <4>1, <4>2 DEF RightGiven, Moves, Placed
      <4>4. calls'[c].pc = "inRight" => ~ Running(2 * c)
        BY <3>2, PcStep DEF Moves, Running, Partitioning
      <4>5. LeftGiven(c)'
        BY <2>1, <2>3, <2>5, <3>0, <3>2, <4>4 DEF LeftGiven, Moves, Placed, HoldsStructs
      <4> QED
        BY <2>5, <4>3, <4>5
    <3>3. CASE Moves(c, "joinLeft", "joinRight")
      <4>1. ~ Running(2 * c)
        BY <3>3, PcStep DEF Moves, Running, Partitioning
      <4>2. LeftGiven(c)'
        BY <2>1, <2>3, <2>5, <3>0, <3>3, <4>1 DEF LeftGiven, Moves, Placed, HoldsStructs
      <4>3. RightGiven(c)'
        BY <2>1, <2>3, <2>5, <3>0, <3>3 DEF RightGiven, Moves, Placed, HoldsStructs
      <4> QED
        BY <2>5, <4>2, <4>3
    <3>4. CASE calls'[c].pc \in Undivided \cup {"done"}
      BY <2>5, <3>4 DEF LeftGiven, RightGiven, Undivided
    <3> QED
      BY <3>1, <3>2, <3>3, <3>4, PcStep DEF Moves, Undivided
  <2> QED
    BY <2>4, <2>5
<1> QED
  BY <1>1, <1>2

\* Every call keeps a creator, which waits for it as long as it runs.
LEMMA HasParentStep ==
  ASSUME Shape, NEW c \in DOMAIN calls, Call(c), NEW d \in DOMAIN calls'
  PROVE  HasParent(d)'
<1>0. /\ c \in Nat \ {0} /\ Running(c) /\ DOMAIN calls \subseteq Nat \ {0} /\ DOMAIN calls \subseteq DOMAIN calls'
      /\ \A e \in DOMAIN calls : e # c => calls'[e] = calls[e]
  BY Bounds, OnlyRunning, OthersStay
<1>1. CASE d \notin DOMAIN calls
  BY <1>0, <1>1, NewCalls DEF HasParent, IsParent, Undivided
<1>2. CASE d \in DOMAIN calls /\ d # Root
  <2>1. PICK e \in DOMAIN calls : IsParent(e, d)
    BY <1>2 DEF HasParent, Shape, TreeInv
  <2>2. Running(d)' => Running(d)
    BY <1>0, <1>2 DEF Running
  <2>3. CASE e # c
    BY <1>0, <2>1, <2>2, <2>3 DEF HasParent, IsParent
  <2>4. CASE e = c
    <3>1. d # c /\ calls'[d] = calls[d]
      BY <1>0, <1>2, <2>1, <2>4 DEF IsParent
    <3>2. IsParent(c, d)'
      BY <2>1, <2>4, <3>1, PcStep DEF IsParent, Undivided, Partitioning, Running, Moves
    <3> QED
      BY <1>0, <3>2 DEF HasParent
  <2> QED
    BY <2>3, <2>4
<1>3. CASE d = Root
  BY <1>3 DEF HasParent
<1> QED
  BY <1>1, <1>2, <1>3

\* Every struct keeps a call that has yet to free it.
LEMMA HasHolderStep ==
  ASSUME Shape, NEW c \in DOMAIN calls, Call(c), NEW d \in DOMAIN data'
  PROVE  HasHolder(d)'
<1>0. c \in Nat \ {0} /\ c \in DOMAIN calls' /\ DOMAIN calls \subseteq Nat \ {0}
  BY Bounds, OthersStay DEF Shape, TypesOK
<1>1. CASE d = Root
  BY <1>1 DEF HasHolder
<1>2. CASE d # Root /\ d \in {2 * c, 2 * c + 1}
  <2>1. CASE AllocateEffect(c)
    BY <1>0, <1>2, <2>1 DEF AllocateEffect, Reaches, Becomes, HasHolder, HoldsStructs
  <2>2. CASE JoinRightEffect(c)
    BY <1>2, <2>2 DEF JoinRightEffect
  <2>3. CASE data' = data /\ ~ AllocateEffect(c) /\ ~ JoinRightEffect(c)
    <3>1. PICK e \in DOMAIN calls : calls[e].pc \in HoldsStructs /\ d \in {2 * e, 2 * e + 1}
      BY <1>2, <2>3 DEF HasHolder, Shape, DataInv
    <3>2. e = c
      BY <1>0, <1>2, <3>1
    <3>3. calls'[c].pc \in HoldsStructs
      BY <2>3, <3>1, <3>2, PcStep DEF Partitioning, HoldsStructs, Moves
    <3> QED
      BY <1>0, <1>2, <3>3 DEF HasHolder
  <2> QED
    BY <2>1, <2>2, <2>3, DataStep
<1>3. CASE d # Root /\ d \notin {2 * c, 2 * c + 1}
  <2>1. d \in DOMAIN data
    BY <1>3, OthersStay
  <2>2. PICK e \in DOMAIN calls : calls[e].pc \in HoldsStructs /\ d \in {2 * e, 2 * e + 1}
    BY <1>3, <2>1 DEF HasHolder, Shape, DataInv
  <2> QED
    BY <1>3, <2>2, OthersStay DEF HasHolder
<1> QED
  BY <1>1, <1>2, <1>3

-----------------------------------------------------------------------------

\* An exchange of two elements changes those two only.
LEMMA StoreFacts ==
  ASSUME Shape, NEW c \in DOMAIN calls, NEW p \in Index, NEW q \in Index,
         Store(c, Exchanged(ArrayOf(c), p, q)), calls'[c].kind = calls[c].kind
  PROVE  \A x \in Index : ArrayOf(c)'[x] =
           IF x = q THEN ArrayOf(c)[p] ELSE IF x = p THEN ArrayOf(c)[q] ELSE ArrayOf(c)[x]
BY Elements DEF Store, ArrayOf, Exchanged, Parts!Exchanged

\* A call of the partition loop only writes to its own segment.
LEMMA Writes ==
  ASSUME Shape, NEW c \in DOMAIN calls, Call(c), NEW d \in DOMAIN calls, NEW x \in Index,
         ArrayOf(d)'[x] # ArrayOf(d)[x]
  PROVE  calls[c].pc = "loop" /\ Low(c) <= x /\ x <= High(c)
<1>1. /\ CallEffect(c) /\ CallOK(c) /\ calls[c] \in Frame
      /\ Low(c) \in Int /\ High(c) \in Int /\ 0 <= Low(c) /\ High(c) <= N - 1
      /\ \A e \in DOMAIN calls : calls'[e].kind = calls[e].kind
  BY Effects, Bounds, OnlyRunning, BoundsStay DEF Shape, TreeInv
<1>2. ~ UNCHANGED <<arr, arr2>>
  BY <1>1 DEF ArrayOf
<1>3. /\ calls[c].pc = "loop"
      /\ \/ Store(c, Exchanged(ArrayOf(c), calls[c].i, calls[c].j))
         \/ Store(c, Exchanged(ArrayOf(c), calls[c].i, High(c)))
  BY <1>1, <1>2 DEF CallEffect, EnterEffect, ScanEffect, PlaceEffect, AllocateEffect, JoinRightEffect,
     StartEffect, WaitEffect
<1>4. /\ calls[c].i \in Index /\ calls[c].j \in Index /\ High(c) \in Index
      /\ Low(c) <= calls[c].i /\ calls[c].i <= calls[c].j /\ calls[c].j <= High(c)
  BY <1>1, <1>3, NAssumption DEF CallOK, Index, Frame
<1>5. ArrayOf(c)'[x] # ArrayOf(c)[x]
  BY <1>1, <1>3 DEF ArrayOf, Store
<1>6. x \in {calls[c].i, calls[c].j, High(c)}
  BY <1>1, <1>3, <1>4, <1>5, StoreFacts
<1> QED
  BY <1>1, <1>3, <1>4, <1>6 DEF Index

\* Every loop keeps its invariant: the other calls write to other cells.
LEMMA LoopsStep ==
  ASSUME Shape, Safety, Loops, NEW c \in DOMAIN calls, Call(c), NEW d \in DOMAIN calls'
  PROVE  LoopInv(d)'
<1>0. /\ CallEffect(c) /\ CallOK(c) /\ calls[c] \in Frame /\ ArrayOf(c) \in [Index -> Int]
      /\ Low(c) \in Int /\ High(c) \in Int /\ 0 <= Low(c) /\ High(c) <= N - 1
      /\ Low(c)' = Low(c) /\ High(c)' = High(c) /\ calls'[c].kind = calls[c].kind
      /\ LoopInv(c)
  BY Effects, Bounds, OnlyRunning, BoundsStay, Elements DEF Shape, TreeInv, Loops
<1>1. CASE d \in DOMAIN calls /\ d # c
  <2>1. calls'[d] = calls[d] /\ LoopInv(d) /\ CallOK(d) /\ calls[d] \in Frame
    BY <1>1, OthersStay, Bounds DEF Loops, Shape, TreeInv
  <2>2. SUFFICES ASSUME calls[d].pc = "loop"
                 PROVE  LoopInv(d)'
    BY <2>1 DEF LoopInv
  <2>3. /\ Low(d) \in Int /\ High(d) \in Int /\ 0 <= Low(d) /\ High(d) <= N - 1
        /\ Low(d)' = Low(d) /\ High(d)' = High(d)
        /\ Low(d) <= calls[d].i /\ calls[d].i <= calls[d].j /\ calls[d].j <= High(d) /\ Low(d) < High(d)
    BY <1>1, <2>1, <2>2, Bounds, BoundsStay DEF CallOK, Running
  <2>4. \A x \in Int : Low(d) <= x /\ x <= High(d) => ArrayOf(d)'[x] = ArrayOf(d)[x]
    <3> SUFFICES ASSUME NEW x \in Int, Low(d) <= x, x <= High(d), ArrayOf(d)'[x] # ArrayOf(d)[x]
                 PROVE  FALSE
      OBVIOUS
    <3>1. x \in Index
      BY <2>3, NAssumption DEF Index
    <3>2. Owns(c, x)
      BY <1>1, <3>1, Writes DEF Owns, Undivided
    <3>3. Owns(d, x)
      BY <2>2 DEF Owns, Undivided
    <3> QED
      BY <1>1, <3>2, <3>3 DEF Safety, Apart
  <2> QED
    BY <2>1, <2>2, <2>3, <2>4 DEF LoopInv, Frame
<1>2. CASE d \notin DOMAIN calls
  BY <1>2, NewCalls DEF LoopInv
<1>3. CASE d = c
  <2>1. CASE EnterEffect(c)
    BY <1>0, <1>3, <2>1 DEF EnterEffect, Reaches, Becomes, LoopInv, ArrayOf
  <2>2. CASE ScanEffect(c)
    <3> DEFINE i == calls[c].i  j == calls[c].j  pivot == calls[c].pivot  a == ArrayOf(c)
    <3>1. /\ calls[c].pc = "loop" /\ calls'[c].pc = "loop" /\ calls'[c].pivot = pivot
          /\ i \in Int /\ j \in Int /\ pivot \in Int /\ calls'[c].j = j + 1
          /\ Low(c) <= i /\ i <= j /\ j < High(c)
      BY <1>0, <2>2 DEF ScanEffect, Becomes, CallOK, Frame
    <3>2. /\ i \in Index /\ j \in Index /\ High(c) \in Index
          /\ \A x \in Int : Low(c) <= x /\ x <= High(c) => x \in Index
      BY SMTT(30), <1>0, <3>1, NAssumption DEF Index
    <3>3. CASE UNCHANGED <<arr, arr2>> /\ pivot <= a[j] /\ calls'[c].i = i
      <4>1. ArrayOf(c)' = a
        BY <1>0, <3>3 DEF ArrayOf
      <4>2. \A x \in Int : calls'[c].i <= x /\ x < j + 1 => pivot <= a[x]
        <5> SUFFICES ASSUME NEW x \in Int, calls'[c].i <= x, x < j + 1 PROVE pivot <= a[x]
          OBVIOUS
        <5>1. x = j \/ x < j
          BY <3>1
        <5> QED
          BY <1>0, <3>1, <3>3, <5>1 DEF LoopInv
      <4> QED
        BY <1>0, <1>3, <3>1, <3>3, <4>1, <4>2 DEF LoopInv
    <3>4. CASE a[j] < pivot /\ calls'[c].i = i + 1 /\ Store(c, Exchanged(a, i, j))
      <4>1. \A x \in Index : ArrayOf(c)'[x] = IF x = j THEN a[i] ELSE IF x = i THEN a[j] ELSE a[x]
        BY <1>0, <3>2, <3>4, StoreFacts
      <4>2. pivot = ArrayOf(c)'[High(c)]
        BY <1>0, <3>1, <3>2, <4>1 DEF LoopInv
      <4>3. ASSUME NEW x \in Int, Low(c) <= x, x < i + 1 PROVE ArrayOf(c)'[x] <= pivot
        <5>1. x \in Index /\ (x = i \/ x < i)
          BY <1>0, <3>1, <3>2, <4>3
        <5>2. CASE x = i
          <6>1. ArrayOf(c)'[x] = a[j]
            BY <4>1, <5>1, <5>2
          <6> QED
            BY <1>0, <3>1, <3>2, <3>4, <6>1
        <5>3. CASE x < i
          <6>1. ArrayOf(c)'[x] = a[x]
            BY <3>1, <4>1, <5>1, <5>3
          <6> QED
            BY <1>0, <3>1, <4>3, <5>3, <6>1 DEF LoopInv
        <5> QED
          BY <5>1, <5>2, <5>3
      <4>4. ASSUME NEW x \in Int, i + 1 <= x, x < j + 1 PROVE pivot <= ArrayOf(c)'[x]
        <5>1. x \in Index /\ x # i /\ (x = j \/ x < j)
          BY <1>0, <3>1, <3>2, <4>4
        <5>2. CASE x = j
          <6>1. ArrayOf(c)'[x] = a[i] /\ i < j
            BY <3>1, <4>1, <4>4, <5>1, <5>2
          <6> QED
            BY <1>0, <3>1, <6>1 DEF LoopInv
        <5>3. CASE x < j
          <6>1. ArrayOf(c)'[x] = a[x] /\ i <= x
            BY <3>1, <4>1, <4>4, <5>1, <5>3
          <6> QED
            BY <1>0, <3>1, <5>3, <6>1 DEF LoopInv
        <5> QED
          BY <5>1, <5>2, <5>3
      <4> QED
        BY <1>0, <1>3, <3>1, <3>4, <4>2, <4>3, <4>4 DEF LoopInv
    <3> QED
      BY <2>2, <3>3, <3>4 DEF ScanEffect, Becomes
  <2>3. CASE calls'[c].pc # "loop"
    BY <1>3, <2>3 DEF LoopInv
  <2> QED
    BY <1>0, <2>1, <2>2, <2>3 DEF CallEffect, PlaceEffect, AllocateEffect, JoinRightEffect, StartEffect,
       WaitEffect, Reaches, Becomes
<1> QED
  BY <1>1, <1>2, <1>3

-----------------------------------------------------------------------------

\* The segments of all calls, pending in the array that main has them sort.
AllWork == UNION {Pending(c) : c \in DOMAIN calls}

\* What a call has pending, by its program counter.
LEMMA PendingFacts ==
  ASSUME NEW c
  PROVE  /\ calls[c].pc \in Partitioning => Pending(c) = Piece(Low(c), High(c))
         /\ calls[c].pc \in {"allocate", "createLeft", "left"} =>
              Pending(c) = Piece(Low(c), calls[c].i - 1) \cup Piece(calls[c].i + 1, High(c))
         /\ calls[c].pc \in {"createRight", "inLeft"} => Pending(c) = Piece(calls[c].i + 1, High(c))
         /\ calls[c].pc \in {"joinLeft", "joinRight", "inRight", "done"} => Pending(c) = {}
BY DEF Pending, Partitioning

\* The same after a step.
LEMMA PendingAfter ==
  ASSUME NEW c
  PROVE  /\ calls'[c].pc \in Partitioning => Pending(c)' = Piece(Low(c)', High(c)')
         /\ calls'[c].pc \in {"allocate", "createLeft", "left"} =>
              Pending(c)' = Piece(Low(c)', calls'[c].i - 1) \cup Piece(calls'[c].i + 1, High(c)')
         /\ calls'[c].pc \in {"createRight", "inLeft"} => Pending(c)' = Piece(calls'[c].i + 1, High(c)')
         /\ calls'[c].pc \in {"joinLeft", "joinRight", "inRight", "done"} => Pending(c)' = {}
BY DEF Pending, Partitioning, Piece, Parts!Piece

\* A step of call c changes what c has pending, and what the call has that it starts.
LEMMA OthersPending ==
  ASSUME Shape, NEW c \in DOMAIN calls, Call(c), NEW d \in DOMAIN calls, d # c
  PROVE  Pending(d)' = Pending(d)
<1>1. calls'[d] = calls[d] /\ calls[d] \in Frame
  BY OthersStay, Bounds
<1>2. Running(d) => Low(d)' = Low(d) /\ High(d)' = High(d)
  BY BoundsStay
<1>3. calls[d].pc \in Partitioning \cup {"allocate", "createLeft", "left", "createRight", "inLeft",
                                          "joinLeft", "joinRight", "inRight", "done"}
  BY <1>1 DEF Frame, Pcs, Partitioning
<1>4. CASE calls[d].pc \in Partitioning
  BY <1>1, <1>2, <1>4, PendingFacts, PendingAfter DEF Running, Partitioning
<1>5. CASE calls[d].pc \in {"allocate", "createLeft", "left"}
  BY <1>1, <1>2, <1>5, PendingFacts, PendingAfter DEF Running
<1>6. CASE calls[d].pc \in {"createRight", "inLeft"}
  BY <1>1, <1>2, <1>6, PendingFacts, PendingAfter DEF Running
<1>7. CASE calls[d].pc \in {"joinLeft", "joinRight", "inRight", "done"}
  BY <1>1, <1>7, PendingFacts, PendingAfter
<1> QED
  BY <1>3, <1>4, <1>5, <1>6, <1>7

\* The members of the work, before and after a step.
LEMMA AllWorkMembers ==
  /\ \A t : t \in AllWork <=> \E d \in DOMAIN calls : t \in Pending(d)
  /\ \A t : t \in AllWork' <=> \E d \in DOMAIN calls' : t \in Pending(d)'
BY DEF AllWork

\* The segments that call c and the call it starts have pending after a step.
NewWork(c, t) == t \in Pending(c)' \/ \E n \in DOMAIN calls' \ DOMAIN calls : t \in Pending(n)'

\* A step of call c replaces what c had pending.
LEMMA AllWorkStep ==
  ASSUME Shape, NEW c \in DOMAIN calls, Call(c), NEW t
  PROVE  t \in AllWork' <=> NewWork(c, t) \/ \E d \in DOMAIN calls \ {c} : t \in Pending(d)
<1>1. \A d \in DOMAIN calls' : d = c \/ d \in DOMAIN calls \ {c} \/ d \in DOMAIN calls' \ DOMAIN calls
  OBVIOUS
<1>2. DOMAIN calls \subseteq DOMAIN calls' /\ \A d \in DOMAIN calls \ {c} : Pending(d)' = Pending(d)
  BY OthersStay, OthersPending
<1> QED
  BY <1>1, <1>2, AllWorkMembers DEF NewWork

\* A step that does not place a pivot leaves the work as it is.
LEMMA SameWork ==
  ASSUME Shape, NEW c \in DOMAIN calls, Call(c), ~ PlaceEffect(c)
  PROVE  AllWork' = AllWork
<1>0. /\ c \in DOMAIN calls /\ Low(c)' = Low(c) /\ High(c)' = High(c) /\ Low(c) \in Int /\ High(c) \in Int
      /\ calls[c].pc \in Placed => calls'[c].i = calls[c].i
      /\ CallEffect(c)
  BY Bounds, OnlyRunning, BoundsStay, OthersStay, Effects
<1>1. SUFFICES \A t : NewWork(c, t) <=> t \in Pending(c)
  <2>1. \A t : t \in AllWork' <=> t \in Pending(c) \/ \E d \in DOMAIN calls \ {c} : t \in Pending(d)
    BY <1>1, AllWorkStep
  <2>2. \A t : t \in AllWork <=> t \in Pending(c) \/ \E d \in DOMAIN calls \ {c} : t \in Pending(d)
    BY AllWorkMembers
  <2> QED
    BY <2>1, <2>2
<1>2. CASE Moves(c, "createLeft", "createRight") \/ Moves(c, "left", "inLeft")
  <2>1. 2 * c \in DOMAIN calls' \ DOMAIN calls
    BY <1>2, PcStep, Fresh DEF Moves, Partitioning, Undivided
  <2>2. \A n \in DOMAIN calls' \ DOMAIN calls : Pending(n)' = Piece(Low(c), calls[c].i - 1)
    BY <1>2, NewCalls, PendingAfter DEF Moves, Partitioning
  <2>3. Pending(c)' = Piece(calls[c].i + 1, High(c))
    BY <1>0, <1>2, PendingAfter DEF Moves, Placed
  <2>4. Pending(c) = Piece(Low(c), calls[c].i - 1) \cup Piece(calls[c].i + 1, High(c))
    BY <1>2, PendingFacts DEF Moves
  <2> QED
    BY <2>1, <2>2, <2>3, <2>4 DEF NewWork
<1>3. CASE Moves(c, "createRight", "joinLeft") \/ Moves(c, "inLeft", "inRight")
  <2>1. 2 * c + 1 \in DOMAIN calls' \ DOMAIN calls
    BY <1>3, PcStep, Fresh DEF Moves, Partitioning, Undivided
  <2>2. \A n \in DOMAIN calls' \ DOMAIN calls : Pending(n)' = Piece(calls[c].i + 1, High(c))
    BY <1>3, NewCalls, PendingAfter DEF Moves, Partitioning
  <2>3. Pending(c)' = {}
    BY <1>3, PendingAfter DEF Moves
  <2>4. Pending(c) = Piece(calls[c].i + 1, High(c))
    BY <1>3, PendingFacts DEF Moves
  <2> QED
    BY <2>1, <2>2, <2>3, <2>4 DEF NewWork
<1>4. CASE EnterEffect(c) \/ ScanEffect(c) \/ AllocateEffect(c) \/ JoinRightEffect(c)
           \/ WaitEffect(c, "joinLeft", "joinRight", 2 * c) \/ WaitEffect(c, "inRight", "done", 2 * c + 1)
  <2>1. DOMAIN calls' = DOMAIN calls
    BY <1>4 DEF EnterEffect, ScanEffect, AllocateEffect, JoinRightEffect, WaitEffect, Steps
  <2>2. Pending(c)' = Pending(c)
    <3>1. CASE EnterEffect(c)
      <4>1. calls[c].pc \in Partitioning
        BY <3>1 DEF EnterEffect, Partitioning
      <4>2. Pending(c) = Piece(Low(c), High(c))
        BY <4>1, PendingFacts
      <4>3. CASE calls'[c].pc = "done" /\ High(c) <= Low(c)
        BY <1>0, <4>2, <4>3, PendingAfter DEF Piece, Parts!Piece
      <4>4. CASE calls'[c].pc = "loop"
        BY <1>0, <4>2, <4>4, PendingAfter DEF Partitioning
      <4> QED
        BY <3>1, <4>3, <4>4 DEF EnterEffect, Reaches, Becomes
    <3>2. CASE ScanEffect(c)
      <4>1. calls[c].pc = "loop" /\ calls'[c].pc = "loop"
        BY <3>2 DEF ScanEffect, Becomes
      <4>2. Pending(c) = Piece(Low(c), High(c))
        BY <4>1, PendingFacts DEF Partitioning
      <4>3. Pending(c)' = Piece(Low(c)', High(c)')
        BY <4>1, PendingAfter DEF Partitioning
      <4> QED
        BY <1>0, <4>2, <4>3
    <3>3. CASE AllocateEffect(c)
      <4>1. calls[c].pc = "allocate" /\ calls'[c].pc = "createLeft"
        BY <3>3 DEF AllocateEffect, Reaches, Becomes
      <4>2. Pending(c) = Piece(Low(c), calls[c].i - 1) \cup Piece(calls[c].i + 1, High(c))
        BY <4>1, PendingFacts
      <4>3. Pending(c)' = Piece(Low(c)', calls'[c].i - 1) \cup Piece(calls'[c].i + 1, High(c)')
        BY <4>1, PendingAfter
      <4>4. calls'[c].i = calls[c].i
        BY <1>0, <4>1 DEF Placed
      <4> QED
        BY <1>0, <4>2, <4>3, <4>4
    <3>4. CASE JoinRightEffect(c) \/ WaitEffect(c, "joinLeft", "joinRight", 2 * c)
               \/ WaitEffect(c, "inRight", "done", 2 * c + 1)
      BY <3>4, PendingFacts, PendingAfter DEF JoinRightEffect, WaitEffect, Reaches, Becomes
    <3> QED
      BY <1>4, <3>1, <3>2, <3>3, <3>4
  <2> QED
    BY <2>1, <2>2 DEF NewWork
<1> QED
  BY <1>0, <1>2, <1>3, <1>4 DEF CallEffect, StartEffect, Moves, Reaches, Becomes

\* A segment that a call has pending holds only cells that it owns.
LEMMA PendingOwned ==
  ASSUME Shape, NEW c \in DOMAIN calls, NEW s \in Pending(c)
  PROVE  s.lo \in Int /\ s.hi \in Int /\ s.lo < s.hi /\ \A x \in s.lo .. s.hi : Owns(c, x)
<1>1. /\ calls[c] \in Frame /\ CallOK(c)
      /\ Running(c) => Low(c) \in Int /\ High(c) \in Int
  BY Bounds DEF Shape, TreeInv
<1>2. /\ calls[c].i \in Int
      /\ calls[c].pc \in Partitioning \cup {"allocate", "createLeft", "left", "createRight", "inLeft",
                                          "joinLeft", "joinRight", "inRight", "done"}
  BY <1>1 DEF Frame, Pcs, Partitioning
<1>3. \A l, h \in Int : \A t \in Piece(l, h) : t.lo = l /\ t.hi = h /\ l < h
  BY DEF Piece, Parts!Piece
<1>4. CASE calls[c].pc \in Partitioning
  <2>1. s \in Piece(Low(c), High(c)) /\ Low(c) \in Int /\ High(c) \in Int
    BY <1>1, <1>4, PendingFacts DEF Partitioning, Running
  <2>2. s.lo = Low(c) /\ s.hi = High(c) /\ Low(c) < High(c)
    BY <1>3, <2>1
  <2> QED
    BY <1>4, <2>1, <2>2 DEF Owns, Partitioning, Undivided
<1>5. CASE calls[c].pc \in {"allocate", "createLeft", "left"}
  <2>1. s \in Piece(Low(c), calls[c].i - 1) \cup Piece(calls[c].i + 1, High(c))
    BY <1>5, PendingFacts
  <2>2. /\ Low(c) \in Int /\ High(c) \in Int /\ Low(c) <= calls[c].i /\ calls[c].i <= High(c)
    BY <1>1, <1>5 DEF Running, CallOK, Placed
  <2>3. \/ s.lo = Low(c) /\ s.hi = calls[c].i - 1 /\ s.lo < s.hi
        \/ s.lo = calls[c].i + 1 /\ s.hi = High(c) /\ s.lo < s.hi
    BY <1>2, <1>3, <2>1, <2>2
  <2> QED
    BY <1>2, <1>5, <2>2, <2>3 DEF Owns, Undivided
<1>6. CASE calls[c].pc \in {"createRight", "inLeft"}
  <2>1. s \in Piece(calls[c].i + 1, High(c)) /\ High(c) \in Int
    BY <1>1, <1>6, PendingFacts DEF Running
  <2>2. s.lo = calls[c].i + 1 /\ s.hi = High(c) /\ s.lo < s.hi
    BY <1>2, <1>3, <2>1
  <2> QED
    BY <1>2, <1>6, <2>1, <2>2 DEF Owns
<1>7. CASE calls[c].pc \in {"joinLeft", "joinRight", "inRight", "done"}
  BY <1>7, PendingFacts
<1> QED
  BY <1>2, <1>4, <1>5, <1>6, <1>7

\* A placed pivot splits the segment of its call.
LEMMA SplitWork ==
  ASSUME Shape, Safety, NEW c \in DOMAIN calls, Call(c), PlaceEffect(c),
         NEW s, s = [lo |-> Low(c), hi |-> High(c)]
  PROVE  /\ s \in AllWork
         /\ AllWork' = (AllWork \ {s}) \cup Piece(s.lo, calls[c].i - 1) \cup Piece(calls[c].i + 1, s.hi)
<1>0. /\ Low(c)' = Low(c) /\ High(c)' = High(c) /\ Low(c) \in Int /\ High(c) \in Int
      /\ calls[c].pc = "loop" /\ Low(c) < High(c) /\ calls'[c].pc \in {"allocate", "left"}
      /\ calls'[c].i = calls[c].i /\ DOMAIN calls' = DOMAIN calls
  BY Bounds, OnlyRunning, BoundsStay DEF PlaceEffect, Reaches, Becomes, Steps, Shape, TreeInv, CallOK
<1>1. Pending(c) = {s}
  BY <1>0, PendingFacts DEF Partitioning, Piece, Parts!Piece
<1>2. Pending(c)' = Piece(s.lo, calls[c].i - 1) \cup Piece(calls[c].i + 1, s.hi)
  BY <1>0, PendingAfter
<1>3. ASSUME NEW d \in DOMAIN calls \ {c} PROVE s \notin Pending(d)
  <2>1. s.lo \in s.lo .. s.hi
    BY <1>0
  <2>2. Owns(c, s.lo) /\ (s \in Pending(d) => Owns(d, s.lo))
    BY <1>1, <2>1, PendingOwned
  <2> QED
    BY <1>0, <2>2 DEF Safety, Apart
<1>4. \A t : t \in AllWork <=> t = s \/ \E d \in DOMAIN calls \ {c} : t \in Pending(d)
  BY <1>1, AllWorkMembers
<1>5. \A t : t \in AllWork' <=> t \in Pending(c)' \/ \E d \in DOMAIN calls \ {c} : t \in Pending(d)
  BY <1>0, AllWorkStep DEF NewWork
<1>6. \A t : t \in AllWork' <=>
        t \in (AllWork \ {s}) \cup Piece(s.lo, calls[c].i - 1) \cup Piece(calls[c].i + 1, s.hi)
  BY <1>2, <1>3, <1>4, <1>5
<1> QED
  BY <1>4, <1>6

\* A step of a call exchanges two elements of one of its segments, or puts a
\* pivot in place and splits the segment around it, or changes neither the
\* array nor the segments.
LEMMA CallRefines ==
  ASSUME Shape, Safety, Loops, NEW c \in DOMAIN calls, Call(c)
  PROVE  \/ ArrayOf(c)' = ArrayOf(c) /\ AllWork' = AllWork
         \/ \E s \in AllWork : \E p, q \in s.lo .. s.hi :
              /\ ArrayOf(c)' = Exchanged(ArrayOf(c), p, q)
              /\ \/ AllWork' = AllWork
                 \/ /\ Parts!Separates(ArrayOf(c)', s, p)
                    /\ AllWork' = (AllWork \ {s}) \cup Piece(s.lo, p - 1) \cup Piece(p + 1, s.hi)
<1> DEFINE i == calls[c].i  j == calls[c].j  pivot == calls[c].pivot  a == ArrayOf(c)
           s == [lo |-> Low(c), hi |-> High(c)]
<1>0. /\ CallEffect(c) /\ CallOK(c) /\ LoopInv(c) /\ a \in [Index -> Int]
      /\ Low(c) \in Int /\ High(c) \in Int /\ 0 <= Low(c) /\ High(c) <= N - 1
      /\ i \in Int /\ j \in Int /\ pivot \in Int /\ calls'[c].kind = calls[c].kind
      /\ s.lo = Low(c) /\ s.hi = High(c)
  BY Effects, Bounds, OnlyRunning, Elements, BoundsStay DEF Shape, TreeInv, Loops, Frame
<1>1. ASSUME calls[c].pc = "loop"
      PROVE  /\ Low(c) <= i /\ i <= j /\ j <= High(c) /\ Low(c) < High(c)
             /\ i \in Index /\ j \in Index /\ High(c) \in Index
             /\ \A x \in Low(c) .. High(c) : x \in Index
  BY <1>0, <1>1, NAssumption DEF CallOK, Index
<1>2. ASSUME NEW b, Store(c, b) PROVE ArrayOf(c)' = b
  BY <1>0, <1>2 DEF Store, ArrayOf
<1>3. CASE ScanEffect(c) /\ a[j] < pivot
  <2>1. s \in AllWork /\ AllWork' = AllWork
    <3>1. ~ PlaceEffect(c)
      BY <1>0, <1>3 DEF ScanEffect, PlaceEffect
    <3>2. s \in Pending(c)
      <4>1. calls[c].pc = "loop" /\ Low(c) < High(c)
        BY <1>1, <1>3 DEF ScanEffect
      <4>2. Pending(c) = Piece(Low(c), High(c))
        BY <4>1, PendingFacts DEF Partitioning
      <4> QED
        BY <4>1, <4>2 DEF Piece, Parts!Piece
    <3>3. s \in AllWork
      BY <3>2 DEF AllWork
    <3> QED
      BY <3>1, <3>3, SameWork
  <2>2. i \in s.lo .. s.hi /\ j \in s.lo .. s.hi
    BY <1>0, <1>1, <1>3 DEF ScanEffect
  <2>3. ArrayOf(c)' = Exchanged(ArrayOf(c), i, j)
    BY <1>0, <1>1, <1>2, <1>3 DEF ScanEffect, Index
  <2> QED
    BY <2>1, <2>2, <2>3
<1>4. CASE PlaceEffect(c)
  <2>1. /\ s \in AllWork
        /\ AllWork' = (AllWork \ {s}) \cup Piece(s.lo, i - 1) \cup Piece(i + 1, s.hi)
    BY <1>4, SplitWork
  <2>2. i \in s.lo .. s.hi /\ High(c) \in s.lo .. s.hi /\ j = High(c)
    BY <1>0, <1>1, <1>4 DEF PlaceEffect
  <2>3. ArrayOf(c)' = Exchanged(ArrayOf(c), i, High(c))
    BY <1>2, <1>4 DEF PlaceEffect
  <2>4. \A x \in Index : ArrayOf(c)'[x] = IF x = High(c) THEN a[i] ELSE IF x = i THEN a[High(c)] ELSE a[x]
    BY <1>0, <1>1, <1>4, StoreFacts DEF PlaceEffect
  <2>5. /\ pivot = a[High(c)]
        /\ \A x \in Int : Low(c) <= x /\ x < i => a[x] <= pivot
        /\ \A x \in Int : i <= x /\ x < High(c) => pivot <= a[x]
    BY <1>0, <1>4, <2>2 DEF LoopInv, PlaceEffect
  <2>6. ArrayOf(c)'[i] = pivot
    BY <1>1, <1>4, <2>4, <2>5 DEF PlaceEffect
  <2>7. ASSUME NEW x \in s.lo .. i - 1 PROVE ArrayOf(c)'[x] <= ArrayOf(c)'[i]
    <3>1. x \in Index /\ x # i /\ x # High(c) /\ x \in Int /\ Low(c) <= x /\ x < i
      BY <1>0, <1>1, <1>4, <2>7 DEF PlaceEffect
    <3> QED
      BY <2>4, <2>5, <2>6, <3>1
  <2>8. ASSUME NEW y \in i + 1 .. s.hi PROVE ArrayOf(c)'[i] <= ArrayOf(c)'[y]
    <3>1. y \in Index /\ y # i /\ y \in Int /\ i < y /\ y <= High(c) /\ i < High(c)
      BY <1>0, <1>1, <1>4, <2>8 DEF PlaceEffect
    <3>2. CASE y = High(c)
      <4>1. ArrayOf(c)'[y] = a[i]
        BY <2>4, <3>1, <3>2
      <4> QED
        BY <1>0, <2>5, <2>6, <3>1, <4>1
    <3>3. CASE y # High(c)
      <4>1. ArrayOf(c)'[y] = a[y]
        BY <2>4, <3>1, <3>3
      <4> QED
        BY <1>0, <2>5, <2>6, <3>1, <3>3, <4>1
    <3> QED
      BY <3>2, <3>3
  <2>9. Parts!Separates(ArrayOf(c)', s, i)
    BY <2>7, <2>8 DEF Parts!Separates
  <2> QED
    BY <2>1, <2>2, <2>3, <2>9
<1>5. CASE ~ PlaceEffect(c) /\ UNCHANGED <<arr, arr2>>
  <2>1. ArrayOf(c)' = ArrayOf(c)
    BY <1>0, <1>5 DEF ArrayOf
  <2> QED
    BY <1>5, <2>1, SameWork
<1> QED
  BY <1>0, <1>3, <1>4, <1>5 DEF CallEffect, EnterEffect, ScanEffect, AllocateEffect, JoinRightEffect,
     StartEffect, WaitEffect

-----------------------------------------------------------------------------

\* What SplitSortProofs proves, for both sorts.
Global == {"threaded", "global"}
Plain == {"vanilla"}
OnArr == INSTANCE SplitSortProofs WITH input <- vals, work <- Work(Global)
VanillaWork == IF phase = "threaded" THEN Piece(0, N - 1) ELSE Work(Plain)
OnArr2 == INSTANCE SplitSortProofs WITH input <- vals, arr <- arr2, work <- VanillaWork

\* All calls of a phase of main work on the same array.
LEMMA WorkFacts ==
  ASSUME Shape
  PROVE  /\ phase = "threaded" => Work(Global) = AllWork
         /\ phase # "threaded" => Work(Global) = {} /\ VanillaWork = AllWork
<1>1. \A c \in DOMAIN calls : /\ calls[c].kind \in {"threaded", "global", "vanilla"}
                              /\ calls[c].kind = "vanilla" <=> phase # "threaded"
  BY DEF Shape, TypesOK, PhaseOK, Frame
<1>2. /\ \A t : t \in Work(Global) <=> \E c \in DOMAIN calls : calls[c].kind \in Global /\ t \in Pending(c)
      /\ \A t : t \in Work(Plain) <=> \E c \in DOMAIN calls : calls[c].kind \in Plain /\ t \in Pending(c)
  BY DEF Work
<1>3. CASE phase = "threaded"
  <2>1. \A c \in DOMAIN calls : calls[c].kind \in Global
    BY <1>1, <1>3 DEF Global
  <2>2. \A t : t \in Work(Global) <=> t \in AllWork
    BY <1>2, <2>1, AllWorkMembers
  <2> QED
    BY <1>3, <2>2
<1>4. CASE phase # "threaded"
  <2>1. \A t : t \notin Work(Global)
    BY <1>1, <1>2, <1>4 DEF Global
  <2>2. \A c \in DOMAIN calls : calls[c].kind \in Plain
    BY <1>1, <1>4 DEF Plain
  <2>3. \A t : t \in Work(Plain) <=> t \in AllWork
    BY <1>2, <2>2, AllWorkMembers
  <2> QED
    BY <1>4, <2>1, <2>3 DEF VanillaWork
<1> QED
  BY <1>3, <1>4

\* The same after a step.
LEMMA WorkFactsAfter ==
  ASSUME Shape'
  PROVE  /\ phase' = "threaded" => Work(Global)' = AllWork'
         /\ phase' # "threaded" => Work(Global)' = {} /\ VanillaWork' = AllWork'
<1>1. \A c \in DOMAIN calls' : /\ calls'[c].kind \in {"threaded", "global", "vanilla"}
                               /\ calls'[c].kind = "vanilla" <=> phase' # "threaded"
  BY DEF Shape, TypesOK, PhaseOK, Frame
<1>2. /\ \A t : t \in Work(Global)' <=> \E c \in DOMAIN calls' : calls'[c].kind \in Global /\ t \in Pending(c)'
      /\ \A t : t \in Work(Plain)' <=> \E c \in DOMAIN calls' : calls'[c].kind \in Plain /\ t \in Pending(c)'
  BY DEF Work, Global, Plain
<1>3. CASE phase' = "threaded"
  <2>1. \A c \in DOMAIN calls' : calls'[c].kind \in Global
    BY <1>1, <1>3 DEF Global
  <2>2. \A t : t \in Work(Global)' <=> t \in AllWork'
    BY <1>2, <2>1, AllWorkMembers
  <2> QED
    BY <1>3, <2>2
<1>4. CASE phase' # "threaded"
  <2>1. \A t : t \notin Work(Global)'
    BY <1>1, <1>2, <1>4 DEF Global
  <2>2. \A c \in DOMAIN calls' : calls'[c].kind \in Plain
    BY <1>1, <1>4 DEF Plain
  <2>3. \A t : t \in Work(Plain)' <=> t \in AllWork'
    BY <1>2, <2>2, AllWorkMembers
  <2> QED
    BY <1>4, <2>1, <2>3 DEF VanillaWork
<1> QED
  BY <1>3, <1>4

-----------------------------------------------------------------------------

\* A set of natural numbers that is not empty has a least element.
LEMMA Least ==
  ASSUME NEW S, S \subseteq Nat, S # {}
  PROVE  \E x \in S : \A y \in S : ~ (y < x)
<1> DEFINE R == OpToRel(<, Nat)
<1>1. IsWellFoundedOn(R, Nat)
  BY NatLessThanWellFounded
<1>2. \A x, y \in Nat : <<y, x>> \in R <=> y < x
  BY DEF OpToRel
<1> HIDE DEF R
<1>3. PICK x \in S : \A y \in S : ~ (<<y, x>> \in R)
  BY <1>1, WFMin
<1> QED
  BY <1>2, <1>3

\* When the first call is done all are, and only main's own struct is left: of
\* the calls that still run, the one with the least number would have a
\* creator that waits for it.
LEMMA AllDone ==
  ASSUME Shape, ~ Running(Root)
  PROVE  /\ \A c \in DOMAIN calls : ~ Running(c)
         /\ DOMAIN data \subseteq {Root}
         /\ AllWork = {}
<1>1. DOMAIN calls \subseteq Nat \ {0} /\ \A c \in DOMAIN calls : HasParent(c)
  BY DEF Shape, TypesOK, TreeInv
<1>2. ASSUME NEW d \in DOMAIN calls, Running(d) PROVE FALSE
  <2> DEFINE S == {c \in DOMAIN calls : Running(c)}
  <2>1. PICK c \in S : \A e \in S : ~ (e < c)
    BY <1>1, <1>2, Least
  <2>2. PICK e \in DOMAIN calls : IsParent(e, c)
    BY <1>1, <2>1 DEF HasParent
  <2>3. Running(e)
    BY <2>1, <2>2 DEF IsParent, Running
  <2>4. e < c
    BY <1>1, <2>2 DEF IsParent
  <2> QED
    BY <2>1, <2>3, <2>4
<1>3. DOMAIN data \subseteq {Root}
  BY <1>2 DEF Shape, DataInv, HasHolder, Running, HoldsStructs
<1>4. \A t : t \notin AllWork
  BY <1>2, PendingFacts, AllWorkMembers DEF Running
<1> QED
  BY <1>2, <1>3, <1>4

\* main joins the first thread and calls quicksort_vanilla.
LEMMA MainJoinStep ==
  ASSUME Shape, MainJoin
  PROVE  Shape' /\ Safety' /\ Loops' /\ AllWork' = Piece(0, N - 1)
<1>1. /\ ~ Running(Root) /\ Root \in DOMAIN data /\ DOMAIN data \subseteq {Root}
  BY AllDone DEF MainJoin, Running, Shape, PhaseOK
<1>2. /\ DOMAIN calls' = {Root}
      /\ calls'[Root] = NewCall("vanilla", 0, N - 1)
      /\ calls' \in [{Root} -> Frame]
      /\ phase' = "vanilla" /\ UNCHANGED <<vals, arr, arr2, data>>
  BY NAssumption DEF MainJoin, NewCall, Frame, Pcs
<1>3. /\ calls'[Root].kind = "vanilla" /\ calls'[Root].pc = "start"
      /\ calls'[Root].l = 0 /\ calls'[Root].r = N - 1
  BY <1>2 DEF NewCall
<1>4. Low(Root)' = 0 /\ High(Root)' = N - 1 /\ ~ Thread(Root)'
  BY <1>3 DEF Low, High, Thread
<1>5. TypesOK'
  BY <1>2 DEF Shape, TypesOK, Root
<1>6. PhaseOK'
  BY <1>1, <1>2, <1>3, <1>4 DEF PhaseOK
<1>7. TreeInv'
  <2>1. CallOK(Root)'
    BY <1>3, <1>4, NAssumption DEF CallOK, Known, Placed, HoldsStructs
  <2>2. StructsGiven(Root)' /\ LeftGiven(Root)' /\ RightGiven(Root)'
    BY <1>3 DEF StructsGiven, LeftGiven, RightGiven, HoldsStructs
  <2>3. HasParent(Root)'
    BY DEF HasParent
  <2> QED
    BY <1>2, <2>1, <2>2, <2>3 DEF TreeInv
<1>8. DataInv'
  BY <1>1, <1>2 DEF DataInv, HasHolder
<1>9. Safety' /\ Loops'
  BY <1>2, <1>3 DEF Safety, Apart, Settled, Loops, LoopInv, Running, Placed
<1>10. AllWork' = Piece(0, N - 1)
  <2>1. Pending(Root)' = Piece(0, N - 1)
    BY <1>3, <1>4, PendingAfter DEF Partitioning
  <2>2. \A t : t \in AllWork' <=> t \in Piece(0, N - 1)
    BY <1>2, <2>1, AllWorkMembers
  <2> QED
    BY <2>2
<1> QED
  BY <1>5, <1>6, <1>7, <1>8, <1>9, <1>10 DEF Shape

\* main ends.
LEMMA MainEndStep ==
  ASSUME Shape, Safety, Loops, MainEnd
  PROVE  Shape' /\ Safety' /\ Loops' /\ AllWork' = {}
<1>1. /\ phase = "vanilla" /\ ~ Running(Root) /\ phase' = "end" /\ UNCHANGED <<vals, arr, arr2, calls>>
      /\ data' = [x \in DOMAIN data \ {Root} |-> data[x]]
      /\ \A c \in DOMAIN calls : ~ Running(c)
      /\ AllWork = {} /\ DOMAIN data \subseteq {Root}
  BY AllDone DEF MainEnd, Running
<1>2. \A c \in DOMAIN calls : calls[c].kind = "vanilla"
  BY <1>1 DEF Shape, PhaseOK
<1>3. \A c \in DOMAIN calls : /\ ~ Thread(c) /\ ~ Thread(c)' /\ Low(c)' = Low(c) /\ High(c)' = High(c)
                              /\ Known(c) /\ Known(c)' /\ ~ Running(c)'
  BY <1>1, <1>2 DEF Thread, Low, High, Known, Running
<1>4. DOMAIN data' = {} /\ data' \in [DOMAIN data' -> Struct]
  BY <1>1
<1>5. TypesOK'
  BY <1>1, <1>4 DEF Shape, TypesOK
<1>6. PhaseOK'
  BY <1>1, <1>2, <1>3, <1>4 DEF Shape, PhaseOK
<1>7. ASSUME NEW c \in DOMAIN calls
      PROVE  (CallOK(c) /\ StructsGiven(c) /\ LeftGiven(c) /\ RightGiven(c) /\ HasParent(c))'
  <2>1. CallOK(c)' /\ StructsGiven(c)' /\ LeftGiven(c)' /\ RightGiven(c)'
    BY <1>3 DEF CallOK, StructsGiven, LeftGiven, RightGiven, Running, Placed, HoldsStructs
  <2>2. HasParent(c)'
    BY <1>1 DEF Shape, TreeInv, HasParent, IsParent, Running
  <2> QED
    BY <2>1, <2>2
<1>8. TreeInv' /\ DataInv'
  BY <1>1, <1>4, <1>7 DEF TreeInv, DataInv
<1>9. \A c \in DOMAIN calls : \A x : ~ Owns(c, x) /\ ~ Owns(c, x)'
  BY <1>1, <1>3 DEF Owns, Running, Undivided
<1>10. Safety'
  BY <1>1, <1>9 DEF Safety, Apart, Settled, Owned
<1>11. Loops'
  BY <1>1, <1>3 DEF Loops, LoopInv, Running
<1>12. AllWork' = {}
  <2>1. \A t : t \notin AllWork'
    BY <1>1, <1>3, PendingAfter, AllWorkMembers DEF Running
  <2> QED
    BY <2>1
<1> QED
  BY <1>5, <1>6, <1>8, <1>10, <1>11, <1>12 DEF Shape

\* The first state.
LEMMA InitStep ==
  ASSUME Init
  PROVE  Shape /\ Safety /\ Loops /\ AllWork = Piece(0, N - 1)
<1>1. /\ DOMAIN calls = {Root} /\ calls[Root] = NewCall("threaded", 0, N - 1)
      /\ calls \in [{Root} -> Frame]
      /\ DOMAIN data = {Root} /\ data[Root] = NewData(0, N - 1, 0)
      /\ data \in [{Root} -> Struct]
      /\ phase = "threaded" /\ vals \in [Index -> Value] /\ arr = vals /\ arr2 = vals
  BY NAssumption, DepthAssumption DEF Init, NewCall, NewData, Frame, Struct, Pcs
<1>2. /\ calls[Root].kind = "threaded" /\ calls[Root].pc = "start"
      /\ Low(Root) = 0 /\ High(Root) = N - 1 /\ Thread(Root)
  BY <1>1 DEF NewCall, NewData, Low, High, Thread
<1>3. TypesOK
  BY <1>1 DEF TypesOK, Root
<1>4. PhaseOK
  BY <1>1, <1>2 DEF PhaseOK
<1>5. TreeInv
  <2>1. CallOK(Root)
    BY <1>1, <1>2, NAssumption DEF CallOK, Known, Placed, HoldsStructs
  <2>2. StructsGiven(Root) /\ LeftGiven(Root) /\ RightGiven(Root)
    BY <1>2 DEF StructsGiven, LeftGiven, RightGiven, HoldsStructs
  <2> QED
    BY <1>1, <2>1, <2>2 DEF TreeInv, HasParent
<1>6. DataInv
  BY <1>1 DEF DataInv, HasHolder
<1>7. Safety /\ Loops
  BY <1>1, <1>2 DEF Safety, Apart, Settled, Loops, LoopInv, Running, Placed
<1>8. AllWork = Piece(0, N - 1)
  <2>1. Pending(Root) = Piece(0, N - 1)
    BY <1>2, PendingFacts DEF Partitioning
  <2>2. \A t : t \in AllWork <=> t \in Piece(0, N - 1)
    BY <1>1, <2>1, AllWorkMembers
  <2> QED
    BY <2>2
<1> QED
  BY <1>3, <1>4, <1>5, <1>6, <1>7, <1>8 DEF Shape

\* The ownership of the cells, the structs and the loops: an inductive invariant.
Ownerships == Shape /\ Safety /\ Loops

\* Every step keeps it.
LEMMA OwnershipsStep == Ownerships /\ [Next]_vars => Ownerships'
<1> SUFFICES ASSUME Ownerships, [Next]_vars PROVE Ownerships'
  OBVIOUS
<1>1. ASSUME NEW c \in DOMAIN calls, Call(c) PROVE Ownerships'
  <2>1. TypesOK' /\ PhaseOK'
    BY <1>1, TypesStep, PhaseStep DEF Ownerships
  <2>2. TreeInv'
    BY <1>1, CallOKStep, StructsGivenStep, PartsGivenStep, HasParentStep DEF Ownerships, TreeInv
  <2>3. DataInv'
    BY <1>1, HasHolderStep DEF Ownerships, DataInv
  <2>4. Safety' /\ Loops'
    BY <1>1, SettledStep, LoopsStep DEF Ownerships, Loops
  <2> QED
    BY <2>1, <2>2, <2>3, <2>4 DEF Ownerships, Shape
<1>2. CASE MainJoin
  BY <1>2, MainJoinStep DEF Ownerships
<1>3. CASE MainEnd
  BY <1>3, MainEndStep DEF Ownerships
<1>4. CASE UNCHANGED vars
  <2>1. TypesOK' /\ PhaseOK' /\ DataInv'
    BY <1>4 DEF vars, Ownerships, Shape, TypesOK, PhaseOK, DataInv, HasHolder, Thread, Low, High, Running
  <2>2. TreeInv'
    BY <1>4 DEF vars, Ownerships, Shape, TreeInv, CallOK, StructsGiven, LeftGiven, RightGiven,
       HasParent, IsParent, Known, Thread, Low, High, Running
  <2>3. Safety'
    BY <1>4 DEF vars, Ownerships, Safety, Apart, Settled, Owned, Owns, Known, Thread, Low, High, Running
  <2>4. Loops'
    BY <1>4 DEF vars, Ownerships, Loops, LoopInv, ArrayOf, Thread, Low, High
  <2> QED
    BY <2>1, <2>2, <2>3, <2>4 DEF Ownerships, Shape
<1> QED
  BY <1>1, <1>2, <1>3, <1>4 DEF Next

-----------------------------------------------------------------------------

\* Every step of the program is a step of the abstract sort on one of the two
\* arrays, and leaves the other one alone.
LEMMA SortsStep ==
  Ownerships /\ [Next]_vars => [OnArr!Next]_OnArr!vars /\ [OnArr2!Next]_OnArr2!vars
<1> SUFFICES ASSUME Ownerships, [Next]_vars
             PROVE  [OnArr!Next]_OnArr!vars /\ [OnArr2!Next]_OnArr2!vars
  OBVIOUS
<1>0. Shape /\ Safety /\ Loops /\ Shape'
  BY OwnershipsStep DEF Ownerships
<1>1. ASSUME NEW c \in DOMAIN calls, Call(c)
      PROVE  [OnArr!Next]_OnArr!vars /\ [OnArr2!Next]_OnArr2!vars
  <2>1. UNCHANGED <<vals, phase>> /\ calls'[c].kind = calls[c].kind
    BY <1>0, <1>1, Effects, BoundsStay
  <2>2. \/ ArrayOf(c)' = ArrayOf(c) /\ AllWork' = AllWork
        \/ \E s \in AllWork : \E p, q \in s.lo .. s.hi :
             /\ ArrayOf(c)' = Exchanged(ArrayOf(c), p, q)
             /\ \/ AllWork' = AllWork
                \/ /\ Parts!Separates(ArrayOf(c)', s, p)
                   /\ AllWork' = (AllWork \ {s}) \cup Piece(s.lo, p - 1) \cup Piece(p + 1, s.hi)
    BY <1>0, <1>1, CallRefines
  <2>3. CASE phase = "threaded"
    <3>1. calls[c].kind # "vanilla"
      BY <1>0, <2>3 DEF Shape, PhaseOK
    <3>2. ArrayOf(c) = arr /\ ArrayOf(c)' = arr' /\ arr2' = arr2
      BY <1>0, <1>1, <2>1, <3>1, TypesStep DEF ArrayOf
    <3>3. Work(Global) = AllWork /\ Work(Global)' = AllWork' /\ VanillaWork' = VanillaWork
      BY <1>0, <2>1, <2>3, WorkFacts, WorkFactsAfter DEF VanillaWork, Piece, Parts!Piece
    <3>4. UNCHANGED OnArr2!vars
      BY <2>1, <3>2, <3>3 DEF OnArr2!vars
    <3>5. \/ arr' = arr /\ Work(Global)' = Work(Global)
          \/ \E s \in Work(Global) : \E p, q \in s.lo .. s.hi :
               /\ arr' = Exchanged(arr, p, q)
               /\ \/ Work(Global)' = Work(Global)
                  \/ /\ Parts!Separates(arr', s, p)
                     /\ Work(Global)' = (Work(Global) \ {s}) \cup Piece(s.lo, p - 1) \cup Piece(p + 1, s.hi)
      BY <2>2, <3>2, <3>3
    <3>6. [OnArr!Next]_OnArr!vars
      BY <2>1, <3>5 DEF OnArr!Next, OnArr!vars, OnArr!In, OnArr!Exchange, OnArr!Split, OnArr!Separates,
         OnArr!Exchanged, OnArr!Piece, Exchanged, Piece, Parts!Separates, Parts!Exchanged, Parts!Piece
    <3> QED
      BY <3>4, <3>6
  <2>4. CASE phase # "threaded"
    <3>1. calls[c].kind = "vanilla"
      BY <1>0, <2>4 DEF Shape, PhaseOK
    <3>2. ArrayOf(c) = arr2 /\ ArrayOf(c)' = arr2' /\ arr' = arr
      BY <1>0, <1>1, <2>1, <3>1, TypesStep DEF ArrayOf
    <3>3. VanillaWork = AllWork /\ VanillaWork' = AllWork' /\ Work(Global)' = Work(Global)
      BY <1>0, <2>1, <2>4, WorkFacts, WorkFactsAfter
    <3>4. UNCHANGED OnArr!vars
      BY <2>1, <3>2, <3>3 DEF OnArr!vars
    <3>5. \/ arr2' = arr2 /\ VanillaWork' = VanillaWork
          \/ \E s \in VanillaWork : \E p, q \in s.lo .. s.hi :
               /\ arr2' = Exchanged(arr2, p, q)
               /\ \/ VanillaWork' = VanillaWork
                  \/ /\ Parts!Separates(arr2', s, p)
                     /\ VanillaWork' = (VanillaWork \ {s}) \cup Piece(s.lo, p - 1) \cup Piece(p + 1, s.hi)
      BY <2>2, <3>2, <3>3
    <3>6. [OnArr2!Next]_OnArr2!vars
      BY <2>1, <3>5 DEF OnArr2!Next, OnArr2!vars, OnArr2!In, OnArr2!Exchange, OnArr2!Split, OnArr2!Separates,
         OnArr2!Exchanged, OnArr2!Piece, Exchanged, Piece, Parts!Separates, Parts!Exchanged, Parts!Piece
    <3> QED
      BY <3>4, <3>6
  <2> QED
    BY <2>3, <2>4
<1>2. CASE MainJoin
  <2>1. /\ phase = "threaded" /\ phase' = "vanilla" /\ UNCHANGED <<vals, arr, arr2>>
        /\ AllWork = {} /\ AllWork' = Piece(0, N - 1)
    BY <1>0, <1>2, AllDone, MainJoinStep DEF MainJoin, Running
  <2>2. Work(Global)' = Work(Global) /\ VanillaWork' = VanillaWork
    BY <1>0, <2>1, WorkFacts, WorkFactsAfter DEF VanillaWork
  <2> QED
    BY <2>1, <2>2 DEF OnArr!vars, OnArr2!vars
<1>3. CASE MainEnd
  <2>1. /\ phase # "threaded" /\ phase' # "threaded" /\ UNCHANGED <<vals, arr, arr2>>
        /\ AllWork = {} /\ AllWork' = {}
    BY <1>0, <1>3, AllDone, MainEndStep DEF MainEnd, Running
  <2>2. Work(Global)' = Work(Global) /\ VanillaWork' = VanillaWork
    BY <1>0, <2>1, WorkFacts, WorkFactsAfter
  <2> QED
    BY <2>1, <2>2 DEF OnArr!vars, OnArr2!vars
<1>4. CASE UNCHANGED vars
  <2>1. UNCHANGED <<vals, arr, arr2, calls, data, phase>>
    BY <1>4 DEF vars
  <2>2. \A c : Pending(c)' = Pending(c)
    BY <2>1 DEF Pending, Low, High
  <2>3. \A t : t \in AllWork' <=> t \in AllWork
    BY <2>1, <2>2, AllWorkMembers
  <2>4. AllWork' = AllWork
    BY <2>3
  <2>5. Work(Global)' = Work(Global) /\ VanillaWork' = VanillaWork
    BY <1>0, <2>1, <2>4, WorkFacts, WorkFactsAfter DEF VanillaWork, Piece, Parts!Piece
  <2> QED
    BY <2>1, <2>5 DEF OnArr!vars, OnArr2!vars
<1> QED
  BY <1>1, <1>2, <1>3, <1>4 DEF Next

\* Main counts no unsorted element in an array with no segment left.
LEMMA NothingUnsorted ==
  ASSUME NEW a \in [Index -> Value], \A x, y \in Index : x < y => a[x] <= a[y]
  PROVE  Unsorted(a) = 0
<1>1. ASSUME NEW x \in 0 .. N - 2 PROVE ~ (a[x] > a[x + 1])
  <2>1. x \in Index /\ x + 1 \in Index /\ x < x + 1
    BY <1>1, NAssumption DEF Index
  <2>2. a[x] \in Int /\ a[x + 1] \in Int /\ a[x] <= a[x + 1]
    BY <2>1, ValueAssumption
  <2> QED
    BY <2>2
<1>2. {x \in 0 .. N - 2 : a[x] > a[x + 1]} = {}
  BY <1>1
<1> QED
  BY <1>2, FS_EmptySet DEF Unsorted

\* The inductive invariant: the ownership of the cells, both abstract sorts in
\* their own invariant, and nothing found unsorted.
Inv == Ownerships /\ OnArr!IInv /\ OnArr2!IInv /\ bad_count = 0

\* It holds in the first state, which both abstract sorts may start in.
LEMMA InvInit == Init => Inv /\ OnArr!Init /\ OnArr2!Init
<1> SUFFICES ASSUME Init PROVE Inv /\ OnArr!Init /\ OnArr2!Init
  OBVIOUS
<1>1. Ownerships /\ AllWork = Piece(0, N - 1)
  BY InitStep DEF Ownerships
<1>2. Work(Global) = Piece(0, N - 1) /\ VanillaWork = Piece(0, N - 1)
  BY <1>1, WorkFacts DEF Ownerships, Init, VanillaWork
<1>3. OnArr!Init /\ OnArr2!Init
  BY <1>2 DEF Init, OnArr!Init, OnArr2!Init, OnArr!Piece, OnArr2!Piece, Piece, Parts!Piece,
     OnArr!Index, OnArr2!Index, Index
<1>4. OnArr!IInv /\ OnArr2!IInv
  BY <1>3, OnArr!InitIInv, OnArr2!InitIInv, NAssumption, ValueAssumption
<1> QED
  BY <1>1, <1>3, <1>4 DEF Inv, Init

\* Every step keeps it.
LEMMA InvStep == Inv /\ [Next]_vars => Inv'
<1> SUFFICES ASSUME Inv, [Next]_vars PROVE Inv'
  OBVIOUS
<1>1. Ownerships' /\ [OnArr!Next]_OnArr!vars /\ [OnArr2!Next]_OnArr2!vars
  BY OwnershipsStep, SortsStep DEF Inv
<1>2. OnArr!IInv' /\ OnArr2!IInv'
  BY <1>1, OnArr!StepIInv, OnArr2!StepIInv, NAssumption, ValueAssumption DEF Inv
<1>3. ASSUME NEW c \in DOMAIN calls, Call(c) PROVE bad_count' = 0
  BY <1>3, Effects DEF Inv, Ownerships
<1>4. ASSUME MainJoin PROVE bad_count' = 0
  <2>1. Work(Global) = {} /\ arr \in [Index -> Value] /\ bad_count' = Unsorted(arr)
    BY <1>4, AllDone, WorkFacts DEF MainJoin, Running, Inv, Ownerships, Shape, TypesOK
  <2>2. \A x, y \in Index : x < y => arr[x] <= arr[y]
    BY <2>1 DEF Inv, OnArr!IInv, OnArr!Ordered, OnArr!Index, Index
  <2> QED
    BY <2>1, <2>2, NothingUnsorted
<1>5. ASSUME MainEnd PROVE bad_count' = 0
  <2>1. VanillaWork = {} /\ arr2 \in [Index -> Value] /\ bad_count' = Unsorted(arr2)
    BY <1>5, AllDone, WorkFacts DEF MainEnd, Running, Inv, Ownerships, Shape, TypesOK
  <2>2. \A x, y \in Index : x < y => arr2[x] <= arr2[y]
    BY <2>1 DEF Inv, OnArr2!IInv, OnArr2!Ordered, OnArr2!Index, Index
  <2> QED
    BY <2>1, <2>2, NothingUnsorted
<1>6. ASSUME UNCHANGED vars PROVE bad_count' = 0
  BY <1>6 DEF vars, Inv
<1> QED
  BY <1>1, <1>2, <1>3, <1>4, <1>5, <1>6 DEF Next, Inv

\* The invariant holds in every reachable state.
LEMMA Invariance == Spec => []Inv
BY InvInit, InvStep, PTL DEF Spec

\* Arrays, activation records and structs keep their types, and the loop
\* variables of a partition stay within its segment.
THEOREM TypeOKThm == Spec => []TypeOK
<1>1. Inv => TypeOK
  <2> SUFFICES ASSUME Inv PROVE TypeOK
    OBVIOUS
  <2>1. TypesOK /\ TreeInv /\ bad_count = 0
    BY DEF Inv, Ownerships, Shape
  <2>2. \A c \in DOMAIN calls : calls[c] \in Frame /\ CallOK(c)
    BY <2>1 DEF TypesOK, TreeInv
  <2>3. \A c \in DOMAIN data : data[c] \in Struct
    BY <2>1 DEF TypesOK
  <2> QED
    BY <2>1, <2>2, <2>3, NAssumption DEF TypeOK, TypesOK, CallOK, Frame, Struct
<1> QED
  BY <1>1, Invariance, PTL

\* Whatever the number of elements and however the threads interleave, no two
\* of them work on the same cell of the global array (threadsort.c:95-107, 146-158).
THEOREM NoSharedCellThm == Spec => []NoSharedCell
<1>1. Inv => NoSharedCell
  <2> SUFFICES ASSUME Inv, NEW c \in DOMAIN calls, NEW d \in DOMAIN calls, c # d,
                      NEW x, x \in Touches(c), x \in Touches(d)
               PROVE  FALSE
    BY DEF NoSharedCell
  <2>1. ASSUME NEW e \in DOMAIN calls, x \in Touches(e) PROVE x \in Int /\ Owns(e, x)
    <3>1. calls[e].pc \in {"start", "loop"} /\ x \in Low(e) .. High(e)
      BY <2>1 DEF Touches
    <3>2. Low(e) \in Int /\ High(e) \in Int
      BY <3>1, Bounds DEF Inv, Ownerships, Running
    <3> QED
      BY <3>1, <3>2 DEF Owns, Undivided
  <2> QED
    BY <2>1 DEF Inv, Ownerships, Safety, Apart
<1> QED
  BY <1>1, Invariance, PTL

\* A running thread finds its struct allocated (threadsort.c:91-122), and at
\* the end no struct is left.
THEOREM DataLifetimeThm == Spec => []DataLifetime
<1>1. Inv => DataLifetime
  <2> SUFFICES ASSUME Inv PROVE DataLifetime
    OBVIOUS
  <2>1. Shape
    BY DEF Inv, Ownerships
  <2>2. \A c \in DOMAIN calls : Thread(c) /\ Running(c) => c \in DOMAIN data
    BY <2>1, Bounds DEF Known
  <2>3. phase # "threaded" => DOMAIN data \subseteq {Root}
    BY <2>1 DEF Shape, PhaseOK
  <2>4. ASSUME phase = "end" PROVE data = <<>>
    <3>1. DOMAIN data = {} /\ data = [x \in DOMAIN data |-> data[x]]
      BY <2>1, <2>4 DEF Shape, PhaseOK, TypesOK
    <3> QED
      BY <3>1
  <2> QED
    BY <2>2, <2>3, <2>4 DEF DataLifetime
<1> QED
  BY <1>1, Invariance, PTL

\* A thread that exits leaves its whole segment sorted (threadsort.c:125-130),
\* and main finds nothing unsorted (threadsort.c:50-55, 62-66).
THEOREM ExitedMeansSortedThm == Spec => []ExitedMeansSorted
<1>1. Inv => ExitedMeansSorted
  <2> SUFFICES ASSUME Inv, NEW c \in DOMAIN calls, Thread(c), ~ Running(c), c \in DOMAIN data,
                      NEW x \in data[c].l .. data[c].r, NEW y \in data[c].l .. data[c].r, x < y
               PROVE  arr[x] <= arr[y]
    BY DEF ExitedMeansSorted, Inv
  <2>1. Shape /\ Settled(c) /\ OnArr!Ordered
    BY DEF Inv, Ownerships, Safety, OnArr!IInv
  <2>2. data[c] \in Struct
    BY <2>1 DEF Shape, TypesOK
  <2>3. x \in Index /\ y \in Index /\ x \in Int
    BY <2>2, NAssumption DEF Struct, Index
  <2>4. ~ Owned(x)
    BY <2>1, <2>2, <2>3 DEF Settled, Known, Low, High, Thread, Struct
  <2>5. ASSUME NEW s \in Work(Global) PROVE x \notin OnArr!In(s)
    <3>1. PICK d \in DOMAIN calls : s \in Pending(d)
      BY <2>5 DEF Work
    <3> QED
      BY <2>1, <2>4, <3>1, PendingOwned DEF Owned, OnArr!In
  <2> QED
    BY <2>1, <2>3, <2>5 DEF OnArr!Ordered, OnArr!Index, Index
<1> QED
  BY <1>1, Invariance, PTL

\* Both sorts implement the abstract parallel sort, each on its own array.
THEOREM ImplementsThm == Spec => Implements
<1>1. Init => Threaded!Init /\ Vanilla!Init
  BY InvInit DEF Global, VanillaWork, Plain, OnArr!Init, OnArr2!Init, Threaded!Init, Vanilla!Init,
     OnArr!Piece, OnArr2!Piece, Threaded!Piece, Vanilla!Piece, OnArr!Index, OnArr2!Index,
     Threaded!Index, Vanilla!Index
<1>2. [OnArr!Next]_OnArr!vars => [Threaded!Next]_Threaded!vars
  BY DEF Global, OnArr!Next, OnArr!vars, OnArr!In, OnArr!Exchange, OnArr!Split, OnArr!Separates,
     OnArr!Exchanged, OnArr!Piece, OnArr!Restart,
     Threaded!Next, Threaded!vars, Threaded!In, Threaded!Exchange, Threaded!Split, Threaded!Separates,
     Threaded!Exchanged, Threaded!Piece, Threaded!Restart
<1>3. [OnArr2!Next]_OnArr2!vars => [Vanilla!Next]_Vanilla!vars
  BY DEF VanillaWork, Plain, OnArr2!Next, OnArr2!vars, OnArr2!In, OnArr2!Exchange, OnArr2!Split, OnArr2!Separates,
     OnArr2!Exchanged, OnArr2!Piece, OnArr2!Restart,
     Vanilla!Next, Vanilla!vars, Vanilla!In, Vanilla!Exchange, Vanilla!Split, Vanilla!Separates,
     Vanilla!Exchanged, Vanilla!Piece, Vanilla!Restart
<1>4. Inv /\ [Next]_vars => [OnArr!Next]_OnArr!vars /\ [OnArr2!Next]_OnArr2!vars
  BY SortsStep DEF Inv
<1>5. Inv /\ [Next]_vars => [Threaded!Next]_Threaded!vars /\ [Vanilla!Next]_Vanilla!vars
  BY <1>2, <1>3, <1>4
<1> QED
  BY <1>1, <1>5, Invariance, PTL DEF Spec, Implements, Threaded!Spec, Vanilla!Spec

\* Neither sort loses or duplicates an element of what main has drawn.
THEOREM PermutationsThm == Spec => [](OnArr!IsPermutation /\ OnArr2!IsPermutation)
<1>1. OnArr!Spec => []OnArr!IsPermutation
  BY OnArr!PermutationThm, NAssumption, ValueAssumption
<1>2. OnArr2!Spec => []OnArr2!IsPermutation
  BY OnArr2!PermutationThm, NAssumption, ValueAssumption
<1>3. Inv /\ [Next]_vars => [OnArr!Next]_OnArr!vars /\ [OnArr2!Next]_OnArr2!vars
  BY SortsStep DEF Inv
<1> QED
  BY <1>1, <1>2, <1>3, InvInit, Invariance, PTL DEF Spec, OnArr!Spec, OnArr2!Spec
=================================================================================
