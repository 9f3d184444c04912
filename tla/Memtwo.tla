--------------------------------- MODULE Memtwo ---------------------------------
(***************************************************************************)
(* Memorizer/memtwo.c: a quiz over a doubly linked list of terms.  The     *)
(* nodes before `focus' are answered, a wrong answer moves the node in     *)
(* focus behind the tail, and a stack of outcomes allows to take answers   *)
(* back.  One iteration of test_revert and of test_destroy is one step;    *)
(* the node of a term is named by the term.                                *)
(***************************************************************************)
EXTENDS Integers, Sequences, FiniteSets, Functions

CONSTANTS
  Term,         \* the lines of the file
  Word,         \* what the user may type, numbers aside
  Writing,      \* the writing of each term
  Null,         \* the null pointer
  MaxAnswers    \* bound on the recall stack

ASSUME NullAssumption == Null \notin Term
ASSUME WritingAssumption == Writing \in [Term -> Word]
ASSUME MaxAnswersAssumption == MaxAnswers \in Nat

VARIABLES
  next, prev,   \* the links of the nodes
  head, tail, focus,
  len,          \* list.len: after the first answer, the terms that remain
  stack,        \* outcomes on the recall stack, the top first
  slen,         \* stack.len
  todo,         \* iterations that the loop of test_revert still has to make
  phase,        \* "load", "quiz", "complete", "destroy" or "end"
  cursor,       \* `current' of test_destroy
  alive         \* the nodes that are allocated

links == <<next, prev, head, tail, focus, len>>
recall == <<stack, slen, todo>>
vars == <<links, recall, phase, cursor, alive>>

Node == DOMAIN next
Pointer == Term \cup {Null}

\* o lists every node once, from head to tail, and every link agrees with it.
IsOrder(o) ==
  LET n == Cardinality(Node) IN
  /\ IF n = 0 THEN head = Null /\ tail = Null ELSE head = o[1] /\ tail = o[n]
  /\ \A k \in 1 .. n :
       /\ next[o[k]] = IF k = n THEN Null ELSE o[k + 1]
       /\ prev[o[k]] = IF k = 1 THEN Null ELSE o[k - 1]
  /\ IsInjective(o) /\ Range(o) = Node

Orders == [1 .. Cardinality(Node) -> Node]
Order == CHOOSE o \in Orders : IsOrder(o)

-----------------------------------------------------------------------------

Init ==
  /\ next = [t \in {} |-> Null]
  /\ prev = [t \in {} |-> Null]
  /\ head = Null /\ tail = Null /\ focus = Null
  /\ len = 0
  /\ stack = <<>> /\ slen = 0 /\ todo = 0
  /\ phase = "load"
  /\ cursor = Null
  /\ alive = {}

\* f with node t added, and then field t and field u set to a and b.
With(f, t, a, u, b) ==
  [x \in DOMAIN f \cup {t} |-> IF x = t THEN a ELSE IF x = u THEN b ELSE f[x]]

\* test_rand_insert: the new node goes to a random place.
InsertFirst(t) ==
  /\ next' = With(next, t, head, Null, Null)
  /\ prev' = With(prev, t, Null, head, t)
  /\ head' = t
  /\ tail' = IF tail = Null THEN t ELSE tail
  /\ focus' = t

InsertLast(t) ==
  /\ next' = With(next, t, Null, tail, t)
  /\ prev' = With(prev, t, tail, Null, Null)
  /\ tail' = t
  /\ UNCHANGED <<head, focus>>

\* Mutant of InsertAfter: the node behind does not point back.
InsertAfterOneWay(t, current) ==
  /\ next' = With(next, t, next[current], current, t)
  /\ prev' = With(prev, t, current, Null, Null)
  /\ UNCHANGED <<head, tail, focus>>

InsertAfter(t, current) ==
  /\ next' = With(next, t, next[current], current, t)
  /\ prev' = With(prev, t, current, next[current], t)
  /\ UNCHANGED <<head, tail, focus>>

Insert(t, pos) ==
  /\ phase = "load"
  /\ t \notin Node
  /\ \/ pos = 0 /\ InsertFirst(t)
     \/ pos # 0 /\ pos = len /\ InsertLast(t)
     \/ pos # 0 /\ pos < len /\ InsertAfter(t, Order[pos])
  /\ len' = len + 1
  /\ alive' = alive \cup {t}
  /\ UNCHANGED <<recall, phase, cursor>>

\* The file is read; without a term the first peek ends the program.
Begin ==
  /\ phase = "load"
  /\ phase' = IF len = 0 THEN "end" ELSE "quiz"
  /\ UNCHANGED <<links, recall, cursor, alive>>

\* Mutant of Destroy: the loop starts at the tail.
DestroyFromTail ==
  /\ phase' = IF tail = Null THEN "end" ELSE "destroy"
  /\ cursor' = tail

Destroy ==
  /\ phase' = IF tail = Null THEN "end" ELSE "destroy"
  /\ cursor' = IF tail = Null THEN Null ELSE prev[tail]

\* A badly formatted line.
Reject ==
  /\ phase = "load"
  /\ Destroy
  /\ UNCHANGED <<links, recall, alive>>

Asking == phase = "quiz" /\ todo = 0 /\ slen < MaxAnswers

Push(outcome) ==
  /\ stack' = <<outcome>> \o stack
  /\ slen' = slen + 1
  /\ UNCHANGED todo

\* test_submit, the answer right: the focus moves on, or the set is complete.
SubmitRight(w) ==
  /\ Asking
  /\ w = Writing[focus]
  /\ \/ /\ next[focus] = Null
        /\ Push(2)
        /\ phase' = "complete"
        /\ UNCHANGED links
     \/ /\ next[focus] # Null
        /\ Push(1)
        /\ focus' = next[focus]
        /\ len' = len - 1
        /\ UNCHANGED <<next, prev, head, tail, phase>>
  /\ UNCHANGED <<cursor, alive>>

\* The node in focus is linked out and behind the tail.
Move ==
  LET temp == focus IN
  /\ focus' = next[temp]
  /\ head' = IF prev[temp] = Null THEN next[temp] ELSE head
  /\ next' = [x \in Node |->
                IF x = temp THEN Null
                ELSE IF x = tail THEN temp
                ELSE IF x = prev[temp] THEN next[temp] ELSE next[x]]
  /\ prev' = [x \in Node |->
                IF x = temp THEN tail ELSE IF x = next[temp] THEN prev[temp] ELSE prev[x]]
  /\ tail' = temp

\* Mutant of SubmitWrong: the term is not moved to the back.
SubmitWrongSkipping(w) ==
  /\ Asking
  /\ w # Writing[focus]
  /\ Push(0)
  /\ focus' = IF len = 1 THEN focus ELSE next[focus]
  /\ len' = IF len = 1 THEN len ELSE len - 1
  /\ UNCHANGED <<next, prev, head, tail, phase, cursor, alive>>

SubmitWrong(w) ==
  /\ Asking
  /\ w # Writing[focus]
  /\ IF len = 1 THEN UNCHANGED <<next, prev, head, tail, focus>> ELSE Move
  /\ Push(0)
  /\ UNCHANGED <<len, phase, cursor, alive>>

\* test_revert: too large a number changes nothing, nor does one that `ac * 10'
\* has overflowed to a negative one.
RevertBegin(n) ==
  /\ phase = "quiz"
  /\ todo = 0
  /\ todo' = IF n > slen \/ n < 0 THEN 0 ELSE n
  /\ UNCHANGED <<links, stack, slen, phase, cursor, alive>>

\* One right answer is taken back.
Unadvance ==
  /\ focus' = prev[focus]
  /\ len' = len + 1
  /\ UNCHANGED <<next, prev, head, tail>>

\* One wrong answer is taken back: the tail goes where the focus is.
Unmove ==
  LET temp == prev[tail]
      before == prev[focus]
  IN
  /\ prev' = [x \in Node |-> IF x = focus THEN tail ELSE IF x = tail THEN before ELSE prev[x]]
  /\ next' = [x \in Node |->
                IF x = before THEN tail
                ELSE IF x = temp THEN Null
                ELSE IF x = tail THEN focus ELSE next[x]]
  /\ head' = IF before = Null THEN tail ELSE head
  /\ focus' = tail
  /\ tail' = temp
  /\ UNCHANGED len

\* Mutant of RevertStep: the case of a single remaining term is forgotten.
RevertStepAlwaysMoving ==
  /\ phase = "quiz"
  /\ todo > 0
  /\ IF Head(stack) = 1 THEN Unadvance ELSE Unmove
  /\ stack' = Tail(stack)
  /\ slen' = slen - 1
  /\ todo' = todo - 1
  /\ UNCHANGED <<phase, cursor, alive>>

\* Mutant of RevertStep: stack.len is not decremented.
RevertStepKeepingLen ==
  /\ phase = "quiz"
  /\ todo > 0
  /\ IF Head(stack) = 1 THEN Unadvance
     ELSE IF next[focus] = Null THEN UNCHANGED links ELSE Unmove
  /\ stack' = Tail(stack)
  /\ todo' = todo - 1
  /\ UNCHANGED <<slen, phase, cursor, alive>>

RevertStep ==
  /\ phase = "quiz"
  /\ todo > 0
  /\ IF Head(stack) = 1 THEN Unadvance
     ELSE IF next[focus] = Null THEN UNCHANGED links ELSE Unmove
  /\ stack' = Tail(stack)
  /\ slen' = slen - 1
  /\ todo' = todo - 1
  /\ UNCHANGED <<phase, cursor, alive>>

\* The set is complete: the stack is freed (its len stays), then the list.
Finish ==
  /\ phase = "complete"
  /\ stack' = <<>>
  /\ Destroy
  /\ UNCHANGED <<links, slen, todo, alive>>

DestroyStep ==
  /\ phase = "destroy"
  /\ cursor # Null
  /\ alive' = alive \ {next[cursor]}
  /\ cursor' = prev[cursor]
  /\ UNCHANGED <<links, recall, phase>>

DestroyHead ==
  /\ phase = "destroy"
  /\ cursor = Null
  /\ alive' = alive \ {head}
  /\ phase' = "end"
  /\ UNCHANGED <<links, recall, cursor>>

Next ==
  \/ \E t \in Term, pos \in 0 .. len : Insert(t, pos)
  \/ Begin \/ Reject
  \/ \E w \in Word : SubmitRight(w) \/ SubmitWrong(w)
  \/ \E n \in -1 .. MaxAnswers + 1 : RevertBegin(n)
  \/ RevertStep
  \/ Finish \/ DestroyStep \/ DestroyHead

Spec == Init /\ [][Next]_vars

-----------------------------------------------------------------------------

\* Types of the links, the counters and the recall stack.
TypeOK ==
  /\ Node \subseteq Term
  /\ {next, prev} \subseteq [Node -> Pointer]
  /\ {head, tail, focus, cursor} \subseteq Pointer
  /\ len \in Nat /\ slen \in Nat /\ todo \in Nat
  /\ stack \in Seq(0 .. 2)
  /\ phase \in {"load", "quiz", "complete", "destroy", "end"}
  /\ alive \subseteq Node

\* The nodes form one doubly linked list, in which no node is lost or met
\* twice, whatever has been inserted, moved and moved back.  list.len counts
\* the nodes from the focus to the tail, which test_submit and test_revert
\* rely on where they follow focus->next (memtwo.c:480, 491, 557).
Linked ==
  \E o \in Orders :
    /\ IsOrder(o)
    /\ IF Node = {} THEN len = 0 /\ focus = Null
                    ELSE len > 0 /\ focus = o[Cardinality(Node) - len + 1]

\* The recall stack holds one right answer for every node before the focus,
\* and stack.len, which recall_pop leaves alone, is kept right by its callers:
\* focus->prev (memtwo.c:552) is never null and the stack never popped empty.
Recalled ==
  phase \in {"load", "quiz", "complete"} =>
    /\ slen = Len(stack) /\ todo <= slen
    /\ Cardinality({k \in 1 .. Len(stack) : stack[k] = 1}) = Cardinality(Node) - len

\* test_destroy frees every node once and reads no link of a node it has freed.
FreedOnce ==
  /\ phase \notin {"destroy", "end"} => alive = Node
  /\ phase = "destroy" => IF cursor = Null THEN alive = {head} ELSE {cursor, next[cursor]} \subseteq alive
  /\ phase = "end" => alive = {}

-----------------------------------------------------------------------------
(* The quiz that the list stands for. *)

Size == Cardinality(Node)

Row[i \in 1 .. Size] == IF i = 1 THEN head ELSE next[Row[i - 1]]

\* How many terms were answered k answers ago.
RightAgo(k) == Size - len - Cardinality({m \in 1 .. k : stack[m] = 1})

\* The row k answers ago.  A wrong answer has since moved the term it was
\* about from behind the answered ones to the end.
RowAgo[k \in 0 .. Len(stack)] ==
  [i \in 1 .. Size |->
     IF k = 0 THEN Row[i]
     ELSE RowAgo[k - 1][IF stack[k] # 0 \/ i <= RightAgo(k) THEN i
                        ELSE IF i = RightAgo(k) + 1 THEN Size ELSE i - 1]]

OrderAgo(k) == SubSeq(RowAgo[k], 1, Size)

\* The k-th answer from the top of the stack, and the quiz before it.
Answer(k) == [order |-> OrderAgo(k), right |-> RightAgo(k), correct |-> stack[k] # 0]

QuizOrder == OrderAgo(todo)
QuizRight == RightAgo(todo)
QuizPast == SubSeq([k \in 1 .. Len(stack) |-> Answer(Len(stack) - k + 1)], 1, Len(stack) - todo)
QuizPhase == IF phase \in {"destroy", "end"} THEN "over" ELSE phase

\* A number typed by the user reverts the quiz to the state of that many
\* answers ago, a right answer removes the term that was asked, a wrong one
\* sends it to the back, and nothing else changes the quiz (README.md:10).
\* The iterations of test_revert take effect at once, when it is called.
Abstract ==
  INSTANCE Quiz WITH order <- QuizOrder, right <- QuizRight, past <- QuizPast, phase <- QuizPhase
Implements == Abstract!Spec

\* `Set complete' is printed only when the last answer given for every term
\* was right, with the answers that were taken back not counted.
AllKnown == Abstract!AllKnown
================================================================================
