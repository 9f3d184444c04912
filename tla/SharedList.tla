------------------------------- MODULE SharedList -------------------------------
(***************************************************************************)
(* Datastructs/SharedLinkedLists/shared_list.c: a linked list whose head   *)
(* and nodes are shared memory segments that name each other by id.        *)
(*                                                                         *)
(* A forked child pushes values, the parent waits for it, pops values and  *)
(* looks some up, and destroys the list.  A shmget that fails ends the     *)
(* child after it has destroyed the list.                                  *)
(***************************************************************************)
EXTENDS Integers, Sequences, SharedMemory

CONSTANTS
  Value,
  MaxPushes,    \* pushes of the child, 10 in main
  MaxReads      \* pops and lookups of the parent, 3 in main

ASSUME ValueAssumption == Value \subseteq Nat
ASSUME BoundsAssumption == MaxPushes \in Nat /\ MaxReads \in Nat
ASSUME ProcAssumption == Proc = {"child", "parent"}

VARIABLES
  shm,          \* the existing segments
  head,         \* list->head, the content of segment List
  node,         \* id -> content of the segment of a node, ever
  child,        \* "pushing" or "ended"
  parent,       \* "waiting", "reading", "ended" or "crashed"
  reads,
  out           \* the index the parent has asked for last, and the value returned

vars == <<shm, head, node, child, parent, reads, out>>

List == 0
End == -1       \* no next segment

\* The ids of the nodes behind id.
Chain[id \in {End} \cup DOMAIN node] ==
  IF id = End THEN <<>> ELSE <<id>> \o Chain[node[id].next_shm_id]

Nodes == {Chain[head][k] : k \in 1 .. Len(Chain[head])}

\* The segments after process p has called destroy, with list attached before.
DestroyedNodes(s) == Removed(s, Nodes \cup {List})

\* The nodes with a new one, which points to next.
WithNode(id, v, next) ==
  [x \in DOMAIN node \cup {id} |->
     IF x = id THEN [value |-> v, next_shm_id |-> next] ELSE node[x]]

-----------------------------------------------------------------------------

\* create_list, then fork; a failed fork leaves no child to wait for.
Init ==
  /\ shm = Created(<<>>, List)
  /\ head = End
  /\ node = <<>>
  /\ child \in {"pushing", "ended"}
  /\ parent = "waiting"
  /\ reads = 0
  /\ out = <<0, 0>>

\* Mutant of Push: the new node does not point to the old head.
PushUnlinked(v) ==
  LET new_id == Cardinality(DOMAIN node) + 1 IN
  /\ child = "pushing"
  /\ Cardinality(DOMAIN node) < MaxPushes
  /\ shm' = Created(shm, new_id)
  /\ node' = WithNode(new_id, v, End)
  /\ head' = new_id
  /\ UNCHANGED <<child, parent, reads, out>>

Push(v) ==
  LET new_id == Cardinality(DOMAIN node) + 1 IN
  /\ child = "pushing"
  /\ Cardinality(DOMAIN node) < MaxPushes
  /\ shm' = Created(shm, new_id)
  /\ node' = WithNode(new_id, v, head)
  /\ head' = new_id
  /\ UNCHANGED <<child, parent, reads, out>>

PushFails ==
  /\ child = "pushing"
  /\ shm' = Ended(DestroyedNodes(Attached(shm, List, "child")), "child")
  /\ head' = End
  /\ child' = "ended"
  /\ UNCHANGED <<node, parent, reads, out>>

ChildReturns ==
  /\ child = "pushing"
  /\ shm' = Ended(shm, "child")
  /\ child' = "ended"
  /\ UNCHANGED <<head, node, parent, reads, out>>

Wait ==
  /\ parent = "waiting"
  /\ child = "ended"
  /\ parent' = "reading"
  /\ UNCHANGED <<shm, head, node, child, reads, out>>

Reading == parent = "reading" /\ List \in DOMAIN shm /\ reads < MaxReads

\* Mutant of Destroy: the nodes are not destroyed.
DestroyListOnly ==
  /\ shm' = Ended(Removed(shm, {List}), "parent")
  /\ head' = End
  /\ parent' = "ended"
  /\ UNCHANGED <<node, child, reads, out>>

\* destroy, after a complaint or at the end of main, and the exit of the parent.
Destroy ==
  /\ shm' = Ended(DestroyedNodes(shm), "parent")
  /\ head' = End
  /\ parent' = "ended"
  /\ UNCHANGED <<node, child, reads, out>>

Pop ==
  /\ Reading
  /\ head # End
  /\ out' = <<0, node[head].value>>
  /\ head' = node[head].next_shm_id
  /\ shm' = Removed(shm, {head})
  /\ reads' = reads + 1
  /\ UNCHANGED <<node, child, parent>>

\* Mutant of GetAtIndex: indices are counted from 1.
GetAtIndexOffByOne(index) ==
  /\ Reading
  /\ index >= 1 /\ index <= Len(Chain[head])
  /\ out' = <<index, node[Chain[head][index]].value>>
  /\ shm' = Attached(shm, List, "parent")
  /\ reads' = reads + 1
  /\ UNCHANGED <<head, node, child, parent>>

\* get_at_index never detaches the list itself.
GetAtIndex(index) ==
  /\ Reading
  /\ index >= 0 /\ index < Len(Chain[head])
  /\ out' = <<index, node[Chain[head][index + 1]].value>>
  /\ shm' = Attached(shm, List, "parent")
  /\ reads' = reads + 1
  /\ UNCHANGED <<head, node, child, parent>>

\* A pop of the empty list, or a lookup out of bounds.
Complain(index) ==
  /\ Reading
  /\ head = End \/ index < 0 \/ index >= Len(Chain[head])
  /\ Destroy

Finish ==
  /\ parent = "reading"
  /\ List \in DOMAIN shm
  /\ Destroy

\* shmat of a destroyed list returns -1, which every operation dereferences.
Crash ==
  /\ parent = "reading"
  /\ List \notin DOMAIN shm
  /\ shm' = Ended(shm, "parent")
  /\ parent' = "crashed"
  /\ UNCHANGED <<head, node, child, reads, out>>

Next ==
  \/ (\E v \in Value : Push(v)) \/ PushFails \/ ChildReturns
  \/ Wait \/ Pop
  \/ \E index \in -1 .. MaxPushes : GetAtIndex(index) \/ Complain(index)
  \/ Finish \/ Crash

Spec == Init /\ [][Next]_vars

-----------------------------------------------------------------------------

\* While the list exists, the segments are its head and the nodes it links,
\* each once: a pop removes the segment it has unlinked (shared_list.c:107-115)
\* and no push or pop leaves one behind or removes one that is still linked.
SegmentsAreLinked ==
  List \in DOMAIN shm => DOMAIN shm = {List} \cup Nodes /\ Cardinality(Nodes) = Len(Chain[head])

\* No segment outlives the program, although get_at_index leaves the list
\* attached (shared_list.c:134, 155), and also where a failed shmget, a
\* complaint or a crash cuts it short.
NoneLeft == child = "ended" /\ parent \in {"ended", "crashed"} => shm = <<>>

\* The list is a stack, across the two processes that work on it.
Abstract ==
  INSTANCE Stack WITH
    items <- [k \in 1 .. Len(Chain[head]) |-> node[Chain[head][k]].value],
    open  <- List \in DOMAIN shm
Implements == Abstract!Spec
================================================================================
