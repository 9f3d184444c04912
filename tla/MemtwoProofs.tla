------------------------------- MODULE MemtwoProofs -------------------------------
(***************************************************************************)
(* Proofs about Memtwo, for every set of terms and any number of answers:  *)
(* whatever is inserted, answered and taken back, the nodes form one       *)
(* doubly linked list, the recall stack agrees with the focus, and every   *)
(* node is freed once.                                                     *)
(*                                                                         *)
(* The second half proves that Memtwo implements Quiz, and so that `Set    *)
(* complete' is printed only of a set that is known.  Quiz remembers the   *)
(* row before each answer; Memtwo remembers outcomes and moves nodes back. *)
(* RowAgo computes the former from the latter.  Its rows are shifted by    *)
(* one place when an outcome is pushed, and shifted back when it is        *)
(* popped, whatever has been moved meanwhile.                              *)
(***************************************************************************)
EXTENDS Memtwo, FiniteSetTheorems, WellFoundedInduction, TLAPS

\* o is the order of the nodes, from head to tail.
Ordered(o) ==
  /\ o \in [1 .. Size -> Node]
  /\ \A i, j \in 1 .. Size : o[i] = o[j] => i = j
  /\ \A x \in Node : \E k \in 1 .. Size : o[k] = x
  /\ head = (IF Size = 0 THEN Null ELSE o[1])
  /\ tail = (IF Size = 0 THEN Null ELSE o[Size])
  /\ \A k \in 1 .. Size :
       /\ next[o[k]] = IF k = Size THEN Null ELSE o[k + 1]
       /\ prev[o[k]] = IF k = 1 THEN Null ELSE o[k - 1]

NodesOK ==
  /\ IsFiniteSet(Node) /\ Size \in Nat /\ Node \subseteq Term /\ DOMAIN prev = Node

\* The place of the node in focus.
Place == Size - len + 1

FocusOK ==
  IF Size = 0 THEN len = 0 /\ focus = Null
              ELSE len \in 1 .. Size /\ focus = Row[Place]

\* How many of the k last answers were right, and moved the focus.
Ones(s, k) == {m \in 1 .. k : s[m] = 1}

RecallOK ==
  /\ stack \in Seq(0 .. 2) /\ slen \in Nat /\ todo \in Nat
  /\ phase = "load" => stack = <<>> /\ len = Size
  /\ phase = "quiz" => Size # 0 /\ \A m \in 1 .. Len(stack) : stack[m] # 2
  /\ phase \in {"load", "quiz", "complete"} =>
       slen = Len(stack) /\ todo <= slen /\ Cardinality(Ones(stack, Len(stack))) = Size - len
  /\ phase = "complete" => Size # 0 /\ len = 1 /\ todo = 0 /\ stack # <<>> /\ stack[1] = 2

\* The nodes that test_destroy has not freed are those up to the cursor's next.
AliveOK ==
  /\ phase \in {"load", "quiz", "complete", "destroy", "end"}
  /\ phase \notin {"destroy", "end"} => alive = Node
  /\ phase = "destroy" =>
       \E j \in 0 .. Size - 1 : /\ cursor = IF j = 0 THEN Null ELSE Row[j]
                                /\ alive = {Row[k] : k \in 1 .. j + 1}
  /\ phase = "end" => alive = {}

IInv == NodesOK /\ Ordered(Row) /\ FocusOK /\ RecallOK /\ AliveOK

-----------------------------------------------------------------------------

\* A set of natural numbers that is not empty has a least element.
LEMMA Least ==
  ASSUME NEW S, S \subseteq Nat, S # {}
  PROVE  \E x \in S : \A y \in S : ~ (y < x)
<1> DEFINE R == OpToRel(<, Nat)
<1>1. IsWellFoundedOn(R, Nat)
  BY NatLessThanWellFounded
<1>2. \A x, y \in Nat : <<y, x>> \in R <=> y < x
  BY DEF OpToRel
<1> HIDE DEF R
<1>3. PICK x \in S : \A y \in S : ~ (<<y, x>> \in R)
  BY <1>1, WFMin
<1> QED
  BY <1>2, <1>3

\* There is only one order, and Row finds it by following the links.
LEMMA RowIs ==
  Size \in Nat => \A o : Ordered(o) => Row = o
<1> SUFFICES ASSUME Size \in Nat, NEW o, Ordered(o) PROVE Row = o
  OBVIOUS
<1>1. o = [i \in 1 .. Size |-> IF i = 1 THEN head ELSE next[o[i - 1]]]
  <2>1. o = [i \in 1 .. Size |-> o[i]]
    BY DEF Ordered
  <2>2. \A i \in 1 .. Size : o[i] = IF i = 1 THEN head ELSE next[o[i - 1]]
    <3> TAKE i \in 1 .. Size
    <3>1. CASE i = 1
      BY <3>1 DEF Ordered
    <3>2. CASE i # 1
      <4>1. i - 1 \in 1 .. Size /\ i - 1 # Size /\ i - 1 + 1 = i
        BY <3>2
      <4> QED
        BY <3>2, <4>1 DEF Ordered
    <3> QED
      BY <3>1, <3>2
  <2> QED
    BY <2>1, <2>2
<1>2. Row = [i \in 1 .. Size |-> IF i = 1 THEN head ELSE next[Row[i - 1]]]
  BY <1>1 DEF Row
<1> DEFINE Bad == {i \in 1 .. Size : Row[i] # o[i]}
<1>3. CASE Bad = {}
  <2>1. \A i \in 1 .. Size : Row[i] = o[i]
    BY <1>3
  <2>2. o = [i \in 1 .. Size |-> o[i]] /\ Row = [i \in 1 .. Size |-> Row[i]]
    BY <1>1, <1>2
  <2> QED
    BY <2>1, <2>2
<1>4. CASE Bad # {}
  <2>1. PICK i \in Bad : \A j \in Bad : ~ (j < i)
    <3>1. Bad \subseteq Nat
      OBVIOUS
    <3> HIDE DEF Bad
    <3> QED
      BY <1>4, <3>1, Least
  <2>2. i # 1
    BY <1>1, <1>2, <2>1
  <2>3. i \in 1 .. Size /\ i - 1 \in 1 .. Size /\ i - 1 < i
    BY <2>1, <2>2
  <2>4. Row[i - 1] = o[i - 1]
    BY <2>1, <2>3
  <2>5. Row[i] = next[Row[i - 1]] /\ o[i] = next[o[i - 1]]
    BY <1>1, <1>2, <2>2, <2>3
  <2> QED
    BY <2>1, <2>4, <2>5
<1> QED
  BY <1>3, <1>4

LEMMA RowIsAfter ==
  (Size \in Nat => \A o : Ordered(o) => Row = o)'
<1>1. Size \in Nat => \A o : Ordered(o) => Row = o
  BY RowIs
<1> QED
  BY <1>1, PTL

\* Ordered says what IsOrder says.
LEMMA OrderedIs ==
  Size \in Nat => \A o \in Orders : Ordered(o) <=> IsOrder(o)
<1> SUFFICES ASSUME Size \in Nat, NEW o \in Orders PROVE Ordered(o) <=> IsOrder(o)
  OBVIOUS
<1>1. o \in [1 .. Size -> Node] /\ DOMAIN o = 1 .. Size
  BY DEF Orders, Size
<1>2. IsInjective(o) <=> \A i, j \in 1 .. Size : o[i] = o[j] => i = j
  BY <1>1 DEF IsInjective
<1>3. Range(o) = Node <=> \A x \in Node : \E k \in 1 .. Size : o[k] = x
  BY <1>1 DEF Range
<1> QED
  BY <1>1, <1>2, <1>3 DEF Ordered, IsOrder, Size

\* So the order that test_rand_insert walks along is Row as well.
LEMMA OrderIsRow ==
  IInv => Order = Row
<1> SUFFICES ASSUME IInv PROVE Order = Row
  OBVIOUS
<1>1. Size \in Nat /\ Ordered(Row)
  BY DEF IInv, NodesOK
<1>2. Row \in Orders
  BY <1>1 DEF Ordered, Orders, Size
<1>3. \E o \in Orders : IsOrder(o)
  BY <1>1, <1>2, OrderedIs
<1>4. Order \in Orders /\ IsOrder(Order)
  BY <1>3 DEF Order
<1> QED
  BY <1>1, <1>4, OrderedIs, RowIs

-----------------------------------------------------------------------------

\* Counting the right answers after a push.
LEMMA OnesFinite ==
  ASSUME NEW s, NEW k \in Nat
  PROVE  IsFiniteSet(Ones(s, k)) /\ Cardinality(Ones(s, k)) \in 0 .. k
<1>1. IsFiniteSet(1 .. k) /\ Cardinality(1 .. k) = k
  BY FS_Interval
<1>2. Ones(s, k) \in SUBSET (1 .. k)
  BY DEF Ones
<1>3. IsFiniteSet(Ones(s, k)) /\ Cardinality(Ones(s, k)) <= k
  BY <1>1, <1>2, FS_Subset
<1> QED
  BY <1>3, FS_CardinalityType

LEMMA OnesStep ==
  ASSUME NEW s, NEW k \in Nat
  PROVE  Cardinality(Ones(s, k + 1)) = Cardinality(Ones(s, k)) + IF s[k + 1] = 1 THEN 1 ELSE 0
<1>1. IsFiniteSet(Ones(s, k)) /\ Cardinality(Ones(s, k)) \in Nat
  BY OnesFinite
<1>2. k + 1 \notin Ones(s, k)
  BY DEF Ones
<1>3. CASE s[k + 1] = 1
  <2>1. Ones(s, k + 1) = Ones(s, k) \cup {k + 1}
    BY <1>3 DEF Ones
  <2>2. Cardinality(Ones(s, k) \cup {k + 1}) = Cardinality(Ones(s, k)) + 1
    BY <1>1, <1>2, FS_AddElement
  <2> QED
    BY <1>3, <2>1, <2>2
<1>4. CASE s[k + 1] # 1
  <2>1. Ones(s, k + 1) = Ones(s, k)
    BY <1>4 DEF Ones
  <2> QED
    BY <1>1, <1>4, <2>1
<1> QED
  BY <1>3, <1>4

\* t is s with x on top.
Pushed(s, x, t) ==
  /\ s \in Seq(0 .. 2) /\ t \in Seq(0 .. 2) /\ Len(t) = Len(s) + 1
  /\ t[1] = x /\ \A k \in 1 .. Len(s) : t[k + 1] = s[k]

LEMMA PushIs ==
  ASSUME NEW s \in Seq(0 .. 2), NEW x \in 0 .. 2
  PROVE  Pushed(s, x, <<x>> \o s)
BY DEF Pushed

LEMMA PopIs ==
  ASSUME NEW s \in Seq(0 .. 2), Len(s) # 0
  PROVE  Pushed(Tail(s), Head(s), s) /\ Head(s) = s[1] /\ Tail(s) \in Seq(0 .. 2) /\ Len(Tail(s)) = Len(s) - 1
BY DEF Pushed

LEMMA OnesPushed ==
  ASSUME NEW s, NEW x, NEW t, Pushed(s, x, t)
  PROVE  \A k \in 0 .. Len(s) :
           Cardinality(Ones(t, k + 1)) = Cardinality(Ones(s, k)) + IF x = 1 THEN 1 ELSE 0
<1> DEFINE P(k) == Cardinality(Ones(t, k + 1)) = Cardinality(Ones(s, k)) + IF x = 1 THEN 1 ELSE 0
           Bad == {k \in 0 .. Len(s) : ~ P(k)}
<1>1. Len(s) \in Nat
  BY DEF Pushed
<1> SUFFICES ASSUME Bad # {} PROVE FALSE
  OBVIOUS
<1>2. PICK k \in Bad : \A j \in Bad : ~ (j < k)
  <2>1. Bad \subseteq Nat
    OBVIOUS
  <2> HIDE DEF Bad
  <2> QED
    BY <2>1, Least
<1>3. Cardinality(Ones(s, 0)) = 0 /\ Cardinality(Ones(t, 0)) = 0
  <2>1. Ones(s, 0) = {} /\ Ones(t, 0) = {}
    BY DEF Ones
  <2> QED
    BY <2>1, FS_EmptySet
<1>4. CASE k = 0
  <2>1. Cardinality(Ones(t, 0 + 1)) = Cardinality(Ones(t, 0)) + IF t[0 + 1] = 1 THEN 1 ELSE 0
    BY OnesStep
  <2> QED
    BY <1>2, <1>3, <1>4, <2>1 DEF Pushed
<1>5. CASE k # 0
  <2>1. k \in Nat /\ k - 1 \in Nat /\ k - 1 \in 0 .. Len(s) /\ k \in 1 .. Len(s) /\ k - 1 < k
    BY <1>1, <1>2, <1>5
  <2>2. P(k - 1)
    BY <1>2, <2>1
  <2>3. Cardinality(Ones(t, k + 1)) = Cardinality(Ones(t, k)) + IF t[k + 1] = 1 THEN 1 ELSE 0
    BY <2>1, OnesStep
  <2>4. Cardinality(Ones(s, (k - 1) + 1)) = Cardinality(Ones(s, k - 1)) + IF s[(k - 1) + 1] = 1 THEN 1 ELSE 0
    BY <2>1, OnesStep
  <2>5. (k - 1) + 1 = k /\ t[k + 1] = s[k]
    BY <2>1 DEF Pushed
  <2>6. Cardinality(Ones(s, k)) \in Nat /\ Cardinality(Ones(s, k - 1)) \in Nat /\ Cardinality(Ones(t, k)) \in Nat
    BY <2>1, OnesFinite
  <2>7. P(k)
    BY <2>2, <2>3, <2>4, <2>5, <2>6
  <2> QED
    BY <1>2, <2>7
<1> QED
  BY <1>4, <1>5

-----------------------------------------------------------------------------

\* What IInv says of the links, in the form that the steps need.
LinksBy(o, n) ==
  /\ n \in Nat /\ o \in [1 .. n -> Node]
  /\ \A i, j \in 1 .. n : o[i] = o[j] => i = j
  /\ \A x \in Node : \E k \in 1 .. n : o[k] = x
  /\ head = (IF n = 0 THEN Null ELSE o[1])
  /\ tail = (IF n = 0 THEN Null ELSE o[n])
  /\ \A k \in 1 .. n : next[o[k]] = IF k = n THEN Null ELSE o[k + 1]
  /\ \A k \in 1 .. n : prev[o[k]] = IF k = 1 THEN Null ELSE o[k - 1]

LEMMA LinksAre ==
  ASSUME IInv
  PROVE  /\ LinksBy(Row, Size) /\ Null \notin Node /\ Node \subseteq Term
         /\ DOMAIN next = Node /\ DOMAIN prev = Node
         /\ Size # 0 => len \in 1 .. Size /\ Place \in 1 .. Size /\ focus = Row[Place] /\ focus \in Node
         /\ Size = 0 => len = 0 /\ Node = {}
<1>1. Size \in Nat
  BY DEF IInv, NodesOK
<1>2. LinksBy(Row, Size)
  BY <1>1 DEF IInv, Ordered, LinksBy
<1>3. Null \notin Node /\ Node \subseteq Term /\ DOMAIN next = Node /\ DOMAIN prev = Node
  BY NullAssumption DEF IInv, NodesOK, Node
<1>4. Size # 0 => len \in 1 .. Size /\ Place \in 1 .. Size /\ focus = Row[Place]
  BY <1>1 DEF IInv, FocusOK, Place
<1>5. Size # 0 => focus \in Node
  BY <1>4, <1>2 DEF LinksBy
<1>6. Size = 0 => len = 0 /\ Node = {}
  <2>1. Size = 0 => Node = {}
    BY FS_EmptySet DEF IInv, NodesOK, Size
  <2> QED
    BY <2>1 DEF IInv, FocusOK
<1> QED
  BY <1>2, <1>3, <1>4, <1>5, <1>6

\* A step that leaves the links as they are for an order o leaves Row equal to it.
LEMMA NewOrder ==
  ASSUME NEW o, NEW n \in Nat, Size' = n, LinksBy(o, n)'
  PROVE  Ordered(Row)' /\ Row' = o
<1>1. (Size \in Nat /\ Ordered(o))'
  BY DEF LinksBy, Ordered
<1>2. Row' = o
  BY <1>1, RowIsAfter
<1> QED
  BY <1>1, <1>2 DEF Ordered

\* A new node between those at places pos and pos + 1 of the order.
Inserted(o, n, pos, t) ==
  [k \in 1 .. n + 1 |-> IF k <= pos THEN o[k] ELSE IF k = pos + 1 THEN t ELSE o[k - 1]]

LEMMA InsertLinks ==
  ASSUME NEW o, NEW n, LinksBy(o, n), NEW pos \in 0 .. n, NEW t, t \notin Node, Node' = Node \cup {t},
         next'[t] = (IF pos = n THEN Null ELSE o[pos + 1]),
         prev'[t] = (IF pos = 0 THEN Null ELSE o[pos]),
         \A k \in 1 .. n : next'[o[k]] = IF k = pos THEN t ELSE next[o[k]],
         \A k \in 1 .. n : prev'[o[k]] = IF k = pos + 1 THEN t ELSE prev[o[k]],
         head' = (IF pos = 0 THEN t ELSE head), tail' = (IF pos = n THEN t ELSE tail)
  PROVE  LinksBy(Inserted(o, n, pos, t), n + 1)'
<1> DEFINE p == Inserted(o, n, pos, t)
<1>1. n \in Nat /\ pos \in Nat /\ pos <= n /\ n + 1 \in Nat
  BY DEF LinksBy
<1>2. /\ \A k \in 1 .. pos : p[k] = o[k]
      /\ p[pos + 1] = t
      /\ \A k \in pos + 2 .. n + 1 : p[k] = o[k - 1]
      /\ DOMAIN p = 1 .. n + 1 /\ p \in [1 .. n + 1 -> Node']
  BY <1>1 DEF Inserted, LinksBy
<1> HIDE DEF p
<1>3. \A k \in 1 .. n : o[k] \in Node /\ o[k] # t
  BY DEF LinksBy
<1>4. \A i, j \in 1 .. n + 1 : p[i] = p[j] => i = j
  <2> TAKE i, j \in 1 .. n + 1
  <2>1. i \in 1 .. pos \/ i = pos + 1 \/ (i \in pos + 2 .. n + 1 /\ i - 1 \in 1 .. n)
    BY <1>1
  <2>2. j \in 1 .. pos \/ j = pos + 1 \/ (j \in pos + 2 .. n + 1 /\ j - 1 \in 1 .. n)
    BY <1>1
  <2>3. \A k \in 1 .. pos : k \in 1 .. n
    BY <1>1
  <2>4. \A a, b \in 1 .. n : o[a] = o[b] => a = b
    BY DEF LinksBy
  <2> QED
    BY <1>1, <1>2, <1>3, <2>1, <2>2, <2>3, <2>4
<1>5. \A x \in Node' : \E k \in 1 .. n + 1 : p[k] = x
  <2> TAKE x \in Node'
  <2>1. CASE x = t
    BY <1>1, <1>2, <2>1
  <2>2. CASE x # t
    <3>1. PICK k \in 1 .. n : o[k] = x
      BY <2>2 DEF LinksBy
    <3>2. CASE k <= pos
      BY <1>1, <1>2, <3>1, <3>2
    <3>3. CASE k > pos
      <4>1. k + 1 \in pos + 2 .. n + 1 /\ k + 1 \in 1 .. n + 1 /\ (k + 1) - 1 = k
        BY <1>1, <3>3
      <4> QED
        BY <1>2, <3>1, <4>1
    <3> QED
      BY <1>1, <3>2, <3>3
  <2> QED
    BY <2>1, <2>2
<1>6. head' = p[1] /\ tail' = p[n + 1]
  <2>1. head' = p[1]
    <3>1. CASE pos = 0
      BY <1>2, <3>1
    <3>2. CASE pos # 0
      BY <1>1, <1>2, <3>2 DEF LinksBy
    <3> QED
      BY <3>1, <3>2
  <2>2. tail' = p[n + 1]
    <3>1. CASE pos = n
      BY <1>2, <3>1
    <3>2. CASE pos # n
      <4>1. n + 1 \in pos + 2 .. n + 1 /\ (n + 1) - 1 = n /\ n # 0
        BY <1>1, <3>2
      <4> QED
        BY <1>2, <3>2, <4>1 DEF LinksBy
    <3> QED
      BY <3>1, <3>2
  <2> QED
    BY <2>1, <2>2
<1>7. ASSUME NEW k \in 1 .. n + 1
      PROVE  /\ next'[p[k]] = IF k = n + 1 THEN Null ELSE p[k + 1]
             /\ prev'[p[k]] = IF k = 1 THEN Null ELSE p[k - 1]
  <2>1. CASE k \in 1 .. pos
    <3>1. k \in 1 .. n /\ p[k] = o[k] /\ k # n + 1 /\ k # pos + 1
      BY <1>1, <1>2, <2>1
    <3>2. next'[o[k]] = p[k + 1]
      <4>1. CASE k = pos
        BY <1>2, <3>1, <4>1
      <4>2. CASE k # pos
        <5>1. k + 1 \in 1 .. pos /\ k # n
          BY <1>1, <2>1, <4>2
        <5> QED
          BY <1>2, <3>1, <4>2, <5>1 DEF LinksBy
      <4> QED
        BY <4>1, <4>2
    <3>3. prev'[o[k]] = IF k = 1 THEN Null ELSE p[k - 1]
      <4>1. prev'[o[k]] = IF k = 1 THEN Null ELSE o[k - 1]
        BY <3>1 DEF LinksBy
      <4>2. k # 1 => k - 1 \in 1 .. pos
        BY <1>1, <2>1
      <4> QED
        BY <1>2, <4>1, <4>2
    <3> QED
      BY <3>1, <3>2, <3>3
  <2>2. CASE k = pos + 1
    <3>1. p[k] = t
      BY <1>2, <2>2
    <3>2. next'[t] = IF k = n + 1 THEN Null ELSE p[k + 1]
      <4>1. CASE pos = n
        BY <1>1, <2>2, <4>1
      <4>2. CASE pos # n
        <5>1. k + 1 \in pos + 2 .. n + 1 /\ (k + 1) - 1 = pos + 1 /\ k # n + 1
          BY <1>1, <2>2, <4>2
        <5> QED
          BY <1>2, <4>2, <5>1
      <4> QED
        BY <4>1, <4>2
    <3>3. prev'[t] = IF k = 1 THEN Null ELSE p[k - 1]
      <4>1. pos # 0 => pos \in 1 .. pos /\ k - 1 = pos /\ k # 1
        BY <1>1, <2>2
      <4>2. pos = 0 => k = 1
        BY <2>2
      <4> QED
        BY <1>2, <4>1, <4>2
    <3> QED
      BY <3>1, <3>2, <3>3
  <2>3. CASE k \in pos + 2 .. n + 1
    <3>1. k - 1 \in 1 .. n /\ p[k] = o[k - 1] /\ k - 1 # pos /\ k # 1
      BY <1>1, <1>2, <2>3
    <3>2. next'[o[k - 1]] = IF k = n + 1 THEN Null ELSE p[k + 1]
      <4>1. next'[o[k - 1]] = IF k - 1 = n THEN Null ELSE o[(k - 1) + 1]
        <5>1. next'[o[k - 1]] = next[o[k - 1]]
          BY <3>1
        <5>2. \A x \in 1 .. n : next[o[x]] = IF x = n THEN Null ELSE o[x + 1]
          BY DEF LinksBy
        <5> QED
          BY <3>1, <5>1, <5>2
      <4>2. k # n + 1 => k + 1 \in pos + 2 .. n + 1 /\ k - 1 # n /\ (k - 1) + 1 = (k + 1) - 1
        BY <1>1, <2>3
      <4>3. k = n + 1 => k - 1 = n
        BY <1>1
      <4> QED
        BY <1>2, <4>1, <4>2, <4>3
    <3>3. prev'[o[k - 1]] = p[k - 1]
      <4>1. CASE k = pos + 2
        <5>1. k - 1 = pos + 1
          BY <1>1, <4>1
        <5> QED
          BY <1>2, <3>1, <5>1
      <4>2. CASE k # pos + 2
        <5>1. k - 1 \in pos + 2 .. n + 1 /\ k - 1 # pos + 1 /\ k - 1 # 1
          BY <1>1, <2>3, <4>2
        <5>2. prev[o[k - 1]] = o[(k - 1) - 1]
          BY <3>1, <5>1 DEF LinksBy
        <5>3. prev'[o[k - 1]] = prev[o[k - 1]]
          BY <3>1, <5>1
        <5>4. p[k - 1] = o[(k - 1) - 1]
          BY <1>2, <5>1
        <5> QED
          BY <5>2, <5>3, <5>4
      <4> QED
        BY <4>1, <4>2
    <3> QED
      BY <3>1, <3>2, <3>3
  <2> QED
    BY <1>1, <2>1, <2>2, <2>3
<1> QED
  BY <1>1, <1>2, <1>4, <1>5, <1>6, <1>7 DEF LinksBy, p

\* The order after the node at place f has gone behind the last one, and the
\* order after the last node has gone before the one at place f.
ToEnd(o, n, f) ==
  [k \in 1 .. n |-> IF k < f THEN o[k] ELSE IF k < n THEN o[k + 1] ELSE o[f]]
FromEnd(o, n, f) ==
  [k \in 1 .. n |-> IF k < f THEN o[k] ELSE IF k = f THEN o[n] ELSE o[k - 1]]

LEMMA MoveLinks ==
  ASSUME NEW o, NEW n, LinksBy(o, n), NEW f \in 1 .. n - 1, Node' = Node,
         \A k \in 1 .. n : next'[o[k]] = IF k = f THEN Null ELSE IF k = n THEN o[f]
                                          ELSE IF k = f - 1 THEN o[f + 1] ELSE o[k + 1],
         \A k \in 1 .. n : prev'[o[k]] = IF k = f THEN o[n] ELSE IF k = f + 1 /\ f = 1 THEN Null
                                          ELSE IF k = f + 1 THEN o[f - 1] ELSE IF k = 1 THEN Null ELSE o[k - 1],
         head' = (IF f = 1 THEN o[2] ELSE o[1]), tail' = o[f]
  PROVE  LinksBy(ToEnd(o, n, f), n)'
<1> DEFINE p == ToEnd(o, n, f)
<1>1. n \in Nat /\ f \in Nat /\ 1 <= f /\ f < n /\ n # 0
  BY DEF LinksBy
<1>2. /\ \A k \in 1 .. f - 1 : p[k] = o[k] /\ k \in 1 .. n /\ k # f
      /\ \A k \in f .. n - 1 : p[k] = o[k + 1] /\ k + 1 \in 1 .. n /\ k + 1 # f
      /\ p[n] = o[f]
      /\ p \in [1 .. n -> Node]
  <2>1. \A k \in 1 .. f - 1 : p[k] = o[k] /\ k \in 1 .. n /\ k # f
    BY <1>1 DEF ToEnd
  <2>2. \A k \in f .. n - 1 : p[k] = o[k + 1] /\ k + 1 \in 1 .. n /\ k + 1 # f
    BY <1>1 DEF ToEnd
  <2>3. p[n] = o[f]
    BY <1>1 DEF ToEnd
  <2>4. p \in [1 .. n -> Node]
    <3>1. \A k \in 1 .. n : o[k] \in Node
      BY DEF LinksBy
    <3>2. \A k \in 1 .. n : k < n => k + 1 \in 1 .. n
      BY <1>1
    <3>3. f \in 1 .. n
      BY <1>1
    <3> QED
      BY <3>1, <3>2, <3>3 DEF ToEnd
  <2> QED
    BY <2>1, <2>2, <2>3, <2>4
<1> HIDE DEF p
<1>3. \A a, b \in 1 .. n : o[a] = o[b] => a = b
  BY DEF LinksBy
<1>4. \A i, j \in 1 .. n : p[i] = p[j] => i = j
  <2> TAKE i, j \in 1 .. n
  <2>1. i \in 1 .. f - 1 \/ i \in f .. n - 1 \/ i = n
    BY <1>1
  <2>2. j \in 1 .. f - 1 \/ j \in f .. n - 1 \/ j = n
    BY <1>1
  <2>3. f \in 1 .. n
    BY <1>1
  <2> QED
    BY <1>1, <1>2, <1>3, <2>1, <2>2, <2>3
<1>5. \A k \in 1 .. n : \E j \in 1 .. n : p[j] = o[k]
  <2> TAKE k \in 1 .. n
  <2>1. CASE k < f
    BY <1>1, <1>2, <2>1
  <2>2. CASE k = f
    BY <1>1, <1>2, <2>2
  <2>3. CASE k > f
    <3>1. k - 1 \in f .. n - 1 /\ k - 1 \in 1 .. n /\ (k - 1) + 1 = k
      BY <1>1, <2>3
    <3> QED
      BY <1>2, <3>1
  <2> QED
    BY <1>1, <2>1, <2>2, <2>3
<1>6. head' = p[1] /\ tail' = p[n]
  <2>1. CASE f = 1
    <3>1. 1 \in f .. n - 1
      BY <1>1, <2>1
    <3> QED
      BY <1>2, <2>1, <3>1
  <2>2. CASE f # 1
    <3>1. 1 \in 1 .. f - 1
      BY <1>1, <2>2
    <3> QED
      BY <1>2, <2>2, <3>1
  <2> QED
    BY <2>1, <2>2
<1>7. ASSUME NEW k \in 1 .. n
      PROVE  /\ next'[p[k]] = IF k = n THEN Null ELSE p[k + 1]
             /\ prev'[p[k]] = IF k = 1 THEN Null ELSE p[k - 1]
  <2>1. CASE k \in 1 .. f - 1
    <3>1. k \in 1 .. n /\ p[k] = o[k] /\ k # n /\ k # f /\ k # f + 1
      BY <1>1, <1>2, <2>1
    <3>2. next'[o[k]] = p[k + 1]
      <4>1. CASE k = f - 1
        <5>1. k + 1 \in f .. n - 1 /\ (k + 1) + 1 = f + 1
          BY <1>1, <4>1
        <5> QED
          BY <1>2, <3>1, <4>1, <5>1
      <4>2. CASE k # f - 1
        <5>1. k + 1 \in 1 .. f - 1
          BY <1>1, <2>1, <4>2
        <5> QED
          BY <1>2, <3>1, <4>2, <5>1
      <4> QED
        BY <4>1, <4>2
    <3>3. prev'[o[k]] = IF k = 1 THEN Null ELSE p[k - 1]
      <4>1. k # 1 => k - 1 \in 1 .. f - 1
        BY <1>1, <2>1
      <4> QED
        BY <1>2, <3>1, <4>1
    <3> QED
      BY <3>1, <3>2, <3>3
  <2>2. CASE k \in f .. n - 1
    <3>1. k + 1 \in 1 .. n /\ p[k] = o[k + 1] /\ k # n /\ k + 1 # f /\ k + 1 # f - 1 /\ k + 1 # 1
      BY <1>1, <1>2, <2>2
    <3>2. next'[o[k + 1]] = p[k + 1]
      <4>1. CASE k = n - 1
        <5>1. k + 1 = n
          BY <1>1, <4>1
        <5> QED
          BY <1>2, <3>1, <5>1
      <4>2. CASE k # n - 1
        <5>1. k + 1 \in f .. n - 1 /\ k + 1 # n
          BY <1>1, <2>2, <4>2
        <5> QED
          BY <1>2, <3>1, <5>1
      <4> QED
        BY <4>1, <4>2
    <3>3. prev'[o[k + 1]] = IF k = 1 THEN Null ELSE p[k - 1]
      <4>1. CASE k = f
        <5>1. f # 1 => k - 1 \in 1 .. f - 1
          BY <1>1, <4>1
        <5> QED
          BY <1>2, <3>1, <4>1, <5>1
      <4>2. CASE k # f
        <5>1. k - 1 \in f .. n - 1 /\ (k - 1) + 1 = (k + 1) - 1 /\ k # 1 /\ k + 1 # f + 1
          BY <1>1, <2>2, <4>2
        <5> QED
          BY <1>2, <3>1, <5>1
      <4> QED
        BY <4>1, <4>2
    <3> QED
      BY <3>1, <3>2, <3>3
  <2>3. CASE k = n
    <3>1. f \in 1 .. n /\ p[k] = o[f] /\ n - 1 \in f .. n - 1 /\ (n - 1) + 1 = n /\ k # 1
      BY <1>1, <1>2, <2>3
    <3> QED
      BY <1>2, <2>3, <3>1
  <2> QED
    BY <1>1, <2>1, <2>2, <2>3
<1>8. \A x \in Node : \E k \in 1 .. n : p[k] = x
  <2> TAKE x \in Node
  <2>1. PICK k \in 1 .. n : o[k] = x
    BY DEF LinksBy
  <2> QED
    BY <1>5, <2>1
<1>9. LinksBy(p, n)'
  BY <1>1, <1>2, <1>4, <1>6, <1>7, <1>8 DEF LinksBy
<1> QED
  BY <1>9 DEF p

LEMMA UnmoveLinks ==
  ASSUME NEW o, NEW n, LinksBy(o, n), NEW f \in 1 .. n - 1, Node' = Node,
         \A k \in 1 .. n : next'[o[k]] = IF k = f - 1 THEN o[n] ELSE IF k = n - 1 THEN Null
                                          ELSE IF k = n THEN o[f] ELSE o[k + 1],
         \A k \in 1 .. n : prev'[o[k]] = IF k = f THEN o[n] ELSE IF k = n /\ f = 1 THEN Null
                                          ELSE IF k = n THEN o[f - 1] ELSE IF k = 1 THEN Null ELSE o[k - 1],
         head' = (IF f = 1 THEN o[n] ELSE o[1]), tail' = o[n - 1]
  PROVE  LinksBy(FromEnd(o, n, f), n)'
<1> DEFINE p == FromEnd(o, n, f)
<1>1. n \in Nat /\ f \in Nat /\ 1 <= f /\ f < n /\ n # 0
  BY DEF LinksBy
<1>2. /\ \A k \in 1 .. f - 1 : p[k] = o[k] /\ k \in 1 .. n - 1
      /\ p[f] = o[n]
      /\ \A k \in f + 1 .. n : p[k] = o[k - 1] /\ k - 1 \in 1 .. n - 1
      /\ p \in [1 .. n -> Node]
  <2>1. \A k \in 1 .. f - 1 : p[k] = o[k] /\ k \in 1 .. n - 1
    BY <1>1 DEF FromEnd
  <2>2. p[f] = o[n]
    BY <1>1 DEF FromEnd
  <2>3. \A k \in f + 1 .. n : p[k] = o[k - 1] /\ k - 1 \in 1 .. n - 1
    BY <1>1 DEF FromEnd
  <2>4. p \in [1 .. n -> Node]
    <3>1. \A k \in 1 .. n : o[k] \in Node
      BY DEF LinksBy
    <3>2. \A k \in 1 .. n : k > f => k - 1 \in 1 .. n
      BY <1>1
    <3>3. n \in 1 .. n
      BY <1>1
    <3> QED
      BY <3>1, <3>2, <3>3 DEF FromEnd
  <2> QED
    BY <2>1, <2>2, <2>3, <2>4
<1> HIDE DEF p
<1>3. \A a, b \in 1 .. n : o[a] = o[b] => a = b
  BY DEF LinksBy
<1>4. \A i, j \in 1 .. n : p[i] = p[j] => i = j
  <2> TAKE i, j \in 1 .. n
  <2>1. i \in 1 .. f - 1 \/ i = f \/ i \in f + 1 .. n
    BY <1>1
  <2>2. j \in 1 .. f - 1 \/ j = f \/ j \in f + 1 .. n
    BY <1>1
  <2>3. n \in 1 .. n /\ n \notin 1 .. n - 1 /\ \A k \in 1 .. n - 1 : k \in 1 .. n
    BY <1>1
  <2> QED
    BY <1>1, <1>2, <1>3, <2>1, <2>2, <2>3
<1>5. \A k \in 1 .. n : \E j \in 1 .. n : p[j] = o[k]
  <2> TAKE k \in 1 .. n
  <2>1. CASE k < f
    BY <1>1, <1>2, <2>1
  <2>2. CASE k = n
    BY <1>1, <1>2, <2>2
  <2>3. CASE k >= f /\ k # n
    <3>1. k + 1 \in f + 1 .. n /\ k + 1 \in 1 .. n /\ (k + 1) - 1 = k
      BY <1>1, <2>3
    <3> QED
      BY <1>2, <3>1
  <2> QED
    BY <1>1, <2>1, <2>2, <2>3
<1>6. head' = p[1] /\ tail' = p[n]
  <2>1. n \in f + 1 .. n
    BY <1>1
  <2>2. f # 1 => 1 \in 1 .. f - 1
    BY <1>1
  <2> QED
    BY <1>2, <2>1, <2>2
<1>7. ASSUME NEW k \in 1 .. n
      PROVE  /\ next'[p[k]] = IF k = n THEN Null ELSE p[k + 1]
             /\ prev'[p[k]] = IF k = 1 THEN Null ELSE p[k - 1]
  <2>1. CASE k \in 1 .. f - 1
    <3>1. k \in 1 .. n /\ p[k] = o[k] /\ k # n /\ k # f /\ k # n - 1
      BY <1>1, <1>2, <2>1
    <3>2. next'[o[k]] = p[k + 1]
      <4>1. CASE k = f - 1
        <5>1. k + 1 = f
          BY <1>1, <4>1
        <5> QED
          BY <1>2, <3>1, <4>1, <5>1
      <4>2. CASE k # f - 1
        <5>1. k + 1 \in 1 .. f - 1
          BY <1>1, <2>1, <4>2
        <5> QED
          BY <1>2, <3>1, <4>2, <5>1
      <4> QED
        BY <4>1, <4>2
    <3>3. prev'[o[k]] = IF k = 1 THEN Null ELSE p[k - 1]
      <4>1. k # 1 => k - 1 \in 1 .. f - 1
        BY <1>1, <2>1
      <4> QED
        BY <1>2, <3>1, <4>1
    <3> QED
      BY <3>1, <3>2, <3>3
  <2>2. CASE k = f
    <3>1. n \in 1 .. n /\ p[k] = o[n] /\ k # n /\ n # f - 1 /\ n # n - 1 /\ n # f
      BY <1>1, <1>2, <2>2
    <3>2. next'[o[n]] = p[k + 1]
      <4>1. f + 1 \in f + 1 .. n /\ (f + 1) - 1 = f
        BY <1>1
      <4> QED
        BY <1>2, <2>2, <3>1, <4>1
    <3>3. prev'[o[n]] = IF k = 1 THEN Null ELSE p[k - 1]
      <4>1. f # 1 => f - 1 \in 1 .. f - 1
        BY <1>1
      <4> QED
        BY <1>2, <2>2, <3>1, <4>1
    <3> QED
      BY <3>1, <3>2, <3>3
  <2>3. CASE k \in f + 1 .. n
    <3>1. k - 1 \in 1 .. n /\ p[k] = o[k - 1] /\ k # 1 /\ k - 1 # f - 1 /\ k - 1 # n
      BY <1>1, <1>2, <2>3
    <3>2. next'[o[k - 1]] = IF k = n THEN Null ELSE p[k + 1]
      <4>1. CASE k = n
        <5>1. k - 1 = n - 1
          BY <4>1
        <5> QED
          BY <3>1, <4>1, <5>1
      <4>2. CASE k # n
        <5>1. k + 1 \in f + 1 .. n /\ (k + 1) - 1 = (k - 1) + 1 /\ k - 1 # n - 1
          BY <1>1, <2>3, <4>2
        <5> QED
          BY <1>2, <3>1, <4>2, <5>1
      <4> QED
        BY <4>1, <4>2
    <3>3. prev'[o[k - 1]] = p[k - 1]
      <4>1. CASE k = f + 1
        <5>1. k - 1 = f
          BY <1>1, <4>1
        <5> QED
          BY <1>2, <3>1, <5>1
      <4>2. CASE k # f + 1
        <5>1. k - 1 \in f + 1 .. n /\ k - 1 # f /\ k - 1 # 1
          BY <1>1, <2>3, <4>2
        <5> QED
          BY <1>2, <3>1, <5>1
      <4> QED
        BY <4>1, <4>2
    <3> QED
      BY <3>1, <3>2, <3>3
  <2> QED
    BY <1>1, <2>1, <2>2, <2>3
<1>8. \A x \in Node : \E k \in 1 .. n : p[k] = x
  <2> TAKE x \in Node
  <2>1. PICK k \in 1 .. n : o[k] = x
    BY DEF LinksBy
  <2> QED
    BY <1>5, <2>1
<1>9. LinksBy(p, n)'
  BY <1>1, <1>2, <1>4, <1>6, <1>7, <1>8 DEF LinksBy
<1> QED
  BY <1>9 DEF p

-----------------------------------------------------------------------------

\* Where the links stay as they are, so does the order.
LEMMA SameRow ==
  ASSUME UNCHANGED <<next, prev, head, tail>>
  PROVE  /\ Node' = Node /\ Size' = Size /\ Row' = Row
         /\ NodesOK => NodesOK' /\ \A o : Ordered(o) => Ordered(o)'
<1>1. Node' = Node
  BY DEF Node
<1>2. Size' = Size
  BY <1>1 DEF Size
<1>3. Row' = Row
  BY <1>2 DEF Row
<1>4. NodesOK => NodesOK'
  BY <1>1, <1>2 DEF NodesOK
<1>5. \A o : Ordered(o) => Ordered(o)'
  BY <1>1, <1>2 DEF Ordered
<1> QED
  BY <1>1, <1>2, <1>3, <1>4, <1>5

\* The invariant holds before the first line is read.
LEMMA InitIInv == Init => IInv
<1> SUFFICES ASSUME Init PROVE IInv
  OBVIOUS
<1>1. /\ next = [t \in {} |-> Null] /\ prev = [t \in {} |-> Null]
      /\ head = Null /\ tail = Null /\ focus = Null /\ len = 0
      /\ stack = <<>> /\ slen = 0 /\ todo = 0 /\ phase = "load" /\ alive = {}
  BY DEF Init
<1>2. Node = {} /\ IsFiniteSet(Node) /\ Size = 0
  BY <1>1, FS_EmptySet DEF Node, Size
<1>3. NodesOK
  BY <1>1, <1>2 DEF NodesOK
<1>4. Ordered(Row)
  <2> DEFINE o == [k \in 1 .. 0 |-> Null]
  <2>1. 1 .. 0 = {}
    OBVIOUS
  <2>2. Ordered(o)
    BY <1>1, <1>2, <2>1 DEF Ordered
  <2> HIDE DEF o
  <2>3. Row = o
    BY <1>2, <2>2, RowIs
  <2> QED
    BY <2>2, <2>3
<1>5. FocusOK
  BY <1>1, <1>2 DEF FocusOK
<1>6. RecallOK
  <2>1. Ones(stack, Len(stack)) = {} /\ stack \in Seq(0 .. 2) /\ Len(stack) = 0
    BY <1>1 DEF Ones
  <2>2. Cardinality(Ones(stack, Len(stack))) = 0
    BY <2>1, FS_EmptySet
  <2> QED
    BY <1>1, <1>2, <2>1, <2>2 DEF RecallOK
<1>7. AliveOK
  BY <1>1, <1>2 DEF AliveOK
<1> QED
  BY <1>3, <1>4, <1>5, <1>6, <1>7 DEF IInv

\* What IInv says while the file is read.
LEMMA LoadFacts ==
  ASSUME IInv, phase = "load"
  PROVE  len = Size /\ stack = <<>> /\ slen = 0 /\ todo = 0 /\ alive = Node /\ Size \in Nat
<1>1. len = Size /\ stack = <<>> /\ slen = Len(stack) /\ todo <= slen /\ todo \in Nat
  BY DEF IInv, RecallOK
<1> QED
  BY <1>1 DEF IInv, AliveOK, NodesOK

\* The three ways to insert a node differ in the place only.
LEMMA InsertPointers ==
  ASSUME IInv, NEW t \in Term, NEW pos \in 0 .. len, Insert(t, pos)
  PROVE  /\ pos \in 0 .. Size /\ t \notin Node /\ DOMAIN next' = Node \cup {t} /\ DOMAIN prev' = Node \cup {t}
         /\ next'[t] = IF pos = Size THEN Null ELSE Row[pos + 1]
         /\ prev'[t] = IF pos = 0 THEN Null ELSE Row[pos]
         /\ \A k \in 1 .. Size : next'[Row[k]] = IF k = pos THEN t ELSE next[Row[k]]
         /\ \A k \in 1 .. Size : prev'[Row[k]] = IF k = pos + 1 THEN t ELSE prev[Row[k]]
         /\ head' = IF pos = 0 THEN t ELSE head
         /\ tail' = IF pos = Size THEN t ELSE tail
         /\ focus' = IF pos = 0 THEN t ELSE focus
<1> DEFINE o == Row
           n == Size
<1>1. phase = "load" /\ t \notin Node /\ len = n /\ n \in Nat
  BY LoadFacts DEF Insert
<1>2. /\ LinksBy(o, n) /\ Null \notin Node /\ Node \subseteq Term
      /\ DOMAIN next = Node /\ DOMAIN prev = Node
  BY LinksAre
<1> HIDE DEF o, n
<1>3. /\ \A k \in 1 .. n : o[k] \in Node /\ o[k] # Null
      /\ \A i, j \in 1 .. n : o[i] = o[j] => i = j
      /\ head = (IF n = 0 THEN Null ELSE o[1]) /\ tail = (IF n = 0 THEN Null ELSE o[n])
      /\ \A k \in 1 .. n : next[o[k]] = IF k = n THEN Null ELSE o[k + 1]
  BY SMTT(30), <1>2 DEF LinksBy
<1>4. \/ pos = 0 /\ InsertFirst(t)
      \/ pos # 0 /\ pos = n /\ InsertLast(t)
      \/ pos # 0 /\ pos < n /\ InsertAfter(t, o[pos])
  BY <1>1, OrderIsRow DEF Insert, o
<1>5. pos \in 0 .. n
  BY <1>1
<1>6. CASE pos = 0 /\ InsertFirst(t)
  <2>1. /\ next' = With(next, t, head, Null, Null) /\ prev' = With(prev, t, Null, head, t)
        /\ head' = t /\ tail' = (IF tail = Null THEN t ELSE tail) /\ focus' = t
    BY <1>6 DEF InsertFirst
  <2>2. /\ DOMAIN next' = Node \cup {t} /\ next'[t] = head
        /\ \A x \in Node : next'[x] = IF x = Null THEN Null ELSE next[x]
    BY <1>1, <1>2, <2>1 DEF With
  <2>3. /\ DOMAIN prev' = Node \cup {t} /\ prev'[t] = Null
        /\ \A x \in Node : prev'[x] = IF x = head THEN t ELSE prev[x]
    BY <1>1, <1>2, <2>1 DEF With
  <2>4. tail = Null <=> n = 0
    BY <1>1, <1>3
  <2>5. \A k \in 1 .. n : o[k] = head <=> k = 1
    BY <1>1, <1>3
  <2>6. /\ pos \in 0 .. n /\ t \notin Node /\ DOMAIN next' = Node \cup {t} /\ DOMAIN prev' = Node \cup {t}
        /\ next'[t] = IF pos = n THEN Null ELSE o[pos + 1]
        /\ prev'[t] = IF pos = 0 THEN Null ELSE o[pos]
        /\ head' = IF pos = 0 THEN t ELSE head
        /\ tail' = IF pos = n THEN t ELSE tail
        /\ focus' = IF pos = 0 THEN t ELSE focus
    BY <1>1, <1>3, <1>5, <1>6, <2>1, <2>2, <2>3, <2>4
  <2>7. \A k \in 1 .. n : next'[o[k]] = IF k = pos THEN t ELSE next[o[k]]
    BY <1>3, <1>6, <2>2
  <2>8. \A k \in 1 .. n : prev'[o[k]] = IF k = pos + 1 THEN t ELSE prev[o[k]]
    BY <1>3, <1>6, <2>3, <2>5
  <2> QED
    BY <2>6, <2>7, <2>8 DEF o, n
<1>7. CASE pos # 0 /\ pos = n /\ InsertLast(t)
  <2>1. /\ next' = With(next, t, Null, tail, t) /\ prev' = With(prev, t, tail, Null, Null)
        /\ tail' = t /\ head' = head /\ focus' = focus
    BY <1>7 DEF InsertLast
  <2>2. /\ DOMAIN next' = Node \cup {t} /\ next'[t] = Null
        /\ \A x \in Node : next'[x] = IF x = tail THEN t ELSE next[x]
    BY <1>1, <1>2, <2>1 DEF With
  <2>3. /\ DOMAIN prev' = Node \cup {t} /\ prev'[t] = tail
        /\ \A x \in Node : prev'[x] = IF x = Null THEN Null ELSE prev[x]
    BY <1>1, <1>2, <2>1 DEF With
  <2>4. \A k \in 1 .. n : o[k] = tail <=> k = n
    BY <1>1, <1>3
  <2>5. /\ pos \in 0 .. n /\ t \notin Node /\ DOMAIN next' = Node \cup {t} /\ DOMAIN prev' = Node \cup {t}
        /\ next'[t] = IF pos = n THEN Null ELSE o[pos + 1]
        /\ prev'[t] = IF pos = 0 THEN Null ELSE o[pos]
        /\ head' = IF pos = 0 THEN t ELSE head
        /\ tail' = IF pos = n THEN t ELSE tail
        /\ focus' = IF pos = 0 THEN t ELSE focus
    BY <1>1, <1>3, <1>5, <1>7, <2>1, <2>2, <2>3
  <2>6. \A k \in 1 .. n : next'[o[k]] = IF k = pos THEN t ELSE next[o[k]]
    BY <1>3, <1>7, <2>2, <2>4
  <2>7. \A k \in 1 .. n : prev'[o[k]] = IF k = pos + 1 THEN t ELSE prev[o[k]]
    BY <1>1, <1>3, <1>7, <2>3
  <2> QED
    BY <2>5, <2>6, <2>7 DEF o, n
<1>8. CASE pos # 0 /\ pos < n /\ InsertAfter(t, o[pos])
  <2>0. pos \in 1 .. n /\ pos # n /\ pos + 1 \in 1 .. n /\ n # 0
    BY <1>1, <1>5, <1>8
  <2>1. /\ next' = With(next, t, next[o[pos]], o[pos], t)
        /\ prev' = With(prev, t, o[pos], next[o[pos]], t)
        /\ tail' = tail /\ head' = head /\ focus' = focus
    BY <1>8 DEF InsertAfter
  <2>2. next[o[pos]] = o[pos + 1]
    BY <1>3, <2>0
  <2>3. /\ DOMAIN next' = Node \cup {t} /\ next'[t] = o[pos + 1]
        /\ \A x \in Node : next'[x] = IF x = o[pos] THEN t ELSE next[x]
    BY <1>1, <1>2, <2>1, <2>2 DEF With
  <2>4. /\ DOMAIN prev' = Node \cup {t} /\ prev'[t] = o[pos]
        /\ \A x \in Node : prev'[x] = IF x = o[pos + 1] THEN t ELSE prev[x]
    BY <1>1, <1>2, <2>1, <2>2 DEF With
  <2>5. /\ pos \in 0 .. n /\ t \notin Node /\ DOMAIN next' = Node \cup {t} /\ DOMAIN prev' = Node \cup {t}
        /\ next'[t] = IF pos = n THEN Null ELSE o[pos + 1]
        /\ prev'[t] = IF pos = 0 THEN Null ELSE o[pos]
        /\ head' = IF pos = 0 THEN t ELSE head
        /\ tail' = IF pos = n THEN t ELSE tail
        /\ focus' = IF pos = 0 THEN t ELSE focus
    BY <1>1, <1>5, <1>8, <2>0, <2>1, <2>3, <2>4
  <2>6. \A k \in 1 .. n : next'[o[k]] = IF k = pos THEN t ELSE next[o[k]]
    BY <1>3, <2>0, <2>3
  <2>7. \A k \in 1 .. n : prev'[o[k]] = IF k = pos + 1 THEN t ELSE prev[o[k]]
    BY <1>3, <2>0, <2>4
  <2> QED
    BY <2>5, <2>6, <2>7 DEF o, n
<1> QED
  BY <1>4, <1>6, <1>7, <1>8

\* A line of the file becomes a node at its place.
LEMMA InsertStep ==
  ASSUME IInv, NEW t \in Term, NEW pos \in 0 .. len, Insert(t, pos)
  PROVE  /\ IInv' /\ Size' = Size + 1 /\ Row' = Inserted(Row, Size, pos, t)
         /\ pos \in 0 .. Size /\ t \notin Node /\ phase' = "load"
<1>1. /\ pos \in 0 .. Size /\ t \notin Node /\ DOMAIN next' = Node \cup {t} /\ DOMAIN prev' = Node \cup {t}
      /\ next'[t] = IF pos = Size THEN Null ELSE Row[pos + 1]
      /\ prev'[t] = IF pos = 0 THEN Null ELSE Row[pos]
      /\ \A k \in 1 .. Size : next'[Row[k]] = IF k = pos THEN t ELSE next[Row[k]]
      /\ \A k \in 1 .. Size : prev'[Row[k]] = IF k = pos + 1 THEN t ELSE prev[Row[k]]
      /\ head' = IF pos = 0 THEN t ELSE head
      /\ tail' = IF pos = Size THEN t ELSE tail
      /\ focus' = IF pos = 0 THEN t ELSE focus
  BY InsertPointers
<1>2. /\ phase = "load" /\ phase' = phase /\ len' = len + 1 /\ alive' = alive \cup {t}
      /\ UNCHANGED <<stack, slen, todo>>
  BY DEF Insert, recall
<1>3. len = Size /\ stack = <<>> /\ slen = 0 /\ todo = 0 /\ alive = Node /\ Size \in Nat
  BY <1>2, LoadFacts
<1>4. LinksBy(Row, Size) /\ (Size # 0 => Place \in 1 .. Size /\ focus = Row[Place])
  BY LinksAre
<1>5. Node' = Node \cup {t}
  BY <1>1 DEF Node
<1>6. Size' = Size + 1 /\ IsFiniteSet(Node')
  BY <1>1, <1>5, FS_AddElement DEF IInv, NodesOK, Size
<1>7. PICK o, n : o = Row /\ n = Size
  OBVIOUS
<1>8. LinksBy(Inserted(o, n, pos, t), n + 1)'
  BY <1>1, <1>4, <1>5, <1>7, InsertLinks
<1>9. Ordered(Row)' /\ Row' = Inserted(o, n, pos, t)
  BY <1>3, <1>6, <1>7, <1>8, NewOrder
<1>10. NodesOK'
  BY <1>1, <1>3, <1>5, <1>6 DEF IInv, NodesOK
<1>11. FocusOK'
  <2>1. Size' # 0 /\ len' = Size' /\ len' \in 1 .. Size' /\ Place' = 1
    BY <1>2, <1>3, <1>6 DEF Place
  <2>2. focus' = Inserted(o, n, pos, t)[1]
    <3>1. CASE pos = 0
      BY <1>1, <1>3, <1>7, <3>1 DEF Inserted
    <3>2. CASE pos # 0
      <4>1. Size # 0 /\ Place = 1
        BY <1>1, <1>3, <3>2 DEF Place
      <4> QED
        BY <1>1, <1>3, <1>4, <1>7, <3>2, <4>1 DEF Inserted
    <3> QED
      BY <3>1, <3>2
  <2> QED
    BY <1>9, <2>1, <2>2 DEF FocusOK
<1>12. RecallOK'
  <2>1. len' = Size' /\ Size' - len' = Size - len /\ phase' = "load"
    BY <1>2, <1>3, <1>6
  <2>2. Ones(stack, Len(stack)) = Ones(stack, Len(stack))'
    BY <1>2 DEF Ones
  <2> QED
    BY <1>2, <2>1, <2>2 DEF IInv, RecallOK
<1>13. AliveOK'
  BY <1>2, <1>3, <1>5 DEF AliveOK
<1> QED
  BY <1>1, <1>2, <1>6, <1>7, <1>9, <1>10, <1>11, <1>12, <1>13 DEF IInv

-----------------------------------------------------------------------------

\* A step of the phases leaves the list as it is.
LEMMA SameList ==
  ASSUME IInv, UNCHANGED links
  PROVE  /\ Node' = Node /\ Size' = Size /\ Row' = Row /\ len' = len
         /\ NodesOK' /\ Ordered(Row)' /\ FocusOK'
<1>1. UNCHANGED <<next, prev, head, tail>> /\ len' = len /\ focus' = focus
  BY DEF links
<1>2. /\ Node' = Node /\ Size' = Size /\ Row' = Row
      /\ NodesOK' /\ \A o : Ordered(o) => Ordered(o)'
  BY <1>1, SameRow DEF IInv
<1>3. Ordered(Row)'
  <2>1. PICK o : o = Row
    OBVIOUS
  <2>2. Ordered(o)'
    BY <1>2, <2>1 DEF IInv
  <2>3. Row' = o
    BY <1>2, <2>1
  <2> QED
    BY <2>2, <2>3 DEF Ordered
<1>4. Place' = Place
  BY <1>1, <1>2 DEF Place
<1>5. FocusOK'
  BY <1>1, <1>2, <1>4 DEF IInv, FocusOK
<1> QED
  BY <1>1, <1>2, <1>3, <1>5

\* test_destroy begins at the tail, with all nodes allocated.
LEMMA DestroyBegins ==
  ASSUME IInv, phase \in {"load", "complete"}, Destroy, UNCHANGED links, UNCHANGED alive
  PROVE  AliveOK' /\ phase' \in {"destroy", "end"}
<1>1. /\ phase' = IF tail = Null THEN "end" ELSE "destroy"
      /\ cursor' = IF tail = Null THEN Null ELSE prev[tail]
  BY DEF Destroy
<1>2. alive = Node /\ alive' = Node
  BY DEF IInv, AliveOK
<1>3. /\ LinksBy(Row, Size) /\ Null \notin Node /\ (Size = 0 => Node = {})
  BY LinksAre
<1>4. Row' = Row /\ Size' = Size /\ Size \in Nat
  BY SameList DEF IInv, NodesOK
<1>5. CASE Size = 0
  BY <1>1, <1>2, <1>3, <1>5 DEF LinksBy, AliveOK
<1>6. CASE Size # 0
  <2>1. Size \in 1 .. Size /\ Size - 1 \in 0 .. Size - 1 /\ (Size - 1) + 1 = Size
    BY <1>4, <1>6
  <2>2. tail = Row[Size] /\ tail \in Node /\ tail # Null
    BY <1>3, <1>6, <2>1 DEF LinksBy
  <2>3. prev[tail] = IF Size = 1 THEN Null ELSE Row[Size - 1]
    BY <1>3, <2>1, <2>2 DEF LinksBy
  <2>4. phase' = "destroy" /\ cursor' = IF Size - 1 = 0 THEN Null ELSE Row[Size - 1]
    BY <1>1, <1>4, <2>2, <2>3
  <2>5. alive' = {Row[k] : k \in 1 .. (Size - 1) + 1}
    BY <1>2, <1>3, <2>1 DEF LinksBy
  <2> QED
    BY <1>4, <2>1, <2>4, <2>5 DEF AliveOK
<1> QED
  BY <1>1, <1>5, <1>6

\* The quiz begins; an empty file ends the program.
LEMMA BeginStep ==
  ASSUME IInv, Begin
  PROVE  IInv' /\ (phase' = "quiz" <=> Size # 0)
<1>1. /\ phase = "load" /\ phase' = (IF len = 0 THEN "end" ELSE "quiz")
      /\ UNCHANGED links /\ UNCHANGED <<stack, slen, todo, alive>>
  BY DEF Begin, recall
<1>2. len = Size /\ stack = <<>> /\ slen = 0 /\ todo = 0 /\ alive = Node
  BY <1>1, LoadFacts
<1>3. /\ Node' = Node /\ Size' = Size /\ Row' = Row /\ len' = len
      /\ NodesOK' /\ Ordered(Row)' /\ FocusOK'
  BY <1>1, SameList
<1>4. RecallOK'
  <2>1. (Ones(stack, Len(stack)))' = Ones(stack, Len(stack))
    BY <1>1 DEF Ones
  <2>2. \A m \in 1 .. Len(stack') : stack'[m] # 2
    BY <1>1, <1>2
  <2> QED
    BY <1>1, <1>2, <1>3, <2>1, <2>2 DEF IInv, RecallOK
<1>5. AliveOK'
  <2>1. Size = 0 => Node = {}
    BY LinksAre
  <2> QED
    BY <1>1, <1>2, <1>3, <2>1 DEF AliveOK
<1> QED
  BY <1>1, <1>2, <1>3, <1>4, <1>5 DEF IInv

\* A badly formatted line and a complete set lead to test_destroy.
LEMMA RejectStep ==
  ASSUME IInv, Reject
  PROVE  IInv' /\ phase' \in {"destroy", "end"}
<1>1. /\ phase = "load" /\ Destroy /\ UNCHANGED links /\ UNCHANGED <<stack, slen, todo, alive>>
  BY DEF Reject, recall
<1>2. /\ Node' = Node /\ Size' = Size /\ Row' = Row /\ len' = len
      /\ NodesOK' /\ Ordered(Row)' /\ FocusOK'
  BY <1>1, SameList
<1>3. AliveOK' /\ phase' \in {"destroy", "end"}
  BY <1>1, DestroyBegins
<1>4. RecallOK'
  BY <1>1, <1>3 DEF IInv, RecallOK
<1> QED
  BY <1>2, <1>3, <1>4 DEF IInv

LEMMA FinishStep ==
  ASSUME IInv, Finish
  PROVE  IInv' /\ phase' \in {"destroy", "end"}
<1>1. /\ phase = "complete" /\ Destroy /\ stack' = <<>> /\ UNCHANGED links
      /\ UNCHANGED <<slen, todo, alive>>
  BY DEF Finish
<1>2. /\ Node' = Node /\ Size' = Size /\ Row' = Row /\ len' = len
      /\ NodesOK' /\ Ordered(Row)' /\ FocusOK'
  BY <1>1, SameList
<1>3. AliveOK' /\ phase' \in {"destroy", "end"}
  BY <1>1, DestroyBegins
<1>4. RecallOK'
  BY <1>1, <1>3 DEF IInv, RecallOK
<1> QED
  BY <1>2, <1>3, <1>4 DEF IInv

\* test_destroy frees the last node left, and reads only nodes that are left.
LEMMA DestroyStepStep ==
  ASSUME IInv, DestroyStep
  PROVE  IInv'
<1>1. /\ phase = "destroy" /\ phase' = phase /\ cursor # Null /\ alive' = alive \ {next[cursor]}
      /\ cursor' = prev[cursor] /\ UNCHANGED links /\ UNCHANGED <<stack, slen, todo>>
  BY DEF DestroyStep, recall
<1>2. /\ Node' = Node /\ Size' = Size /\ Row' = Row /\ len' = len
      /\ NodesOK' /\ Ordered(Row)' /\ FocusOK'
  BY <1>1, SameList
<1>3. RecallOK'
  BY <1>1 DEF IInv, RecallOK
<1>4. PICK j \in 0 .. Size - 1 : /\ cursor = IF j = 0 THEN Null ELSE Row[j]
                                 /\ alive = {Row[k] : k \in 1 .. j + 1}
  BY <1>1 DEF IInv, AliveOK
<1>5. LinksBy(Row, Size) /\ Size \in Nat
  BY LinksAre DEF LinksBy
<1>6. j \in 1 .. Size /\ j # Size /\ j + 1 \in 1 .. Size /\ cursor = Row[j] /\ j - 1 \in 0 .. Size - 1
  BY <1>1, <1>4, <1>5
<1>7. next[cursor] = Row[j + 1] /\ cursor' = IF j - 1 = 0 THEN Null ELSE Row[j - 1]
  <2>1. next[Row[j]] = Row[j + 1]
    BY <1>5, <1>6 DEF LinksBy
  <2>2. prev[Row[j]] = IF j = 1 THEN Null ELSE Row[j - 1]
    BY <1>5, <1>6 DEF LinksBy
  <2>3. j = 1 <=> j - 1 = 0
    BY <1>6
  <2> QED
    BY <1>1, <1>6, <2>1, <2>2, <2>3
<1>8. alive' = {Row[k] : k \in 1 .. (j - 1) + 1}
  <2>1. \A k \in 1 .. j + 1 : k \in 1 .. Size /\ (k \in 1 .. (j - 1) + 1 <=> k # j + 1)
    BY <1>5, <1>6
  <2>2. \A k \in 1 .. (j - 1) + 1 : k \in 1 .. j + 1
    BY <1>6
  <2>3. \A i, k \in 1 .. Size : Row[i] = Row[k] => i = k
    BY <1>5 DEF LinksBy
  <2>4. \A x : x \in alive' <=> \E k \in 1 .. j + 1 : x = Row[k] /\ Row[k] # Row[j + 1]
    BY <1>1, <1>4, <1>7
  <2>5. \A k \in 1 .. j + 1 : Row[k] # Row[j + 1] <=> k # j + 1
    BY <1>6, <2>1, <2>3
  <2>6. \A x : x \in alive' <=> \E k \in 1 .. (j - 1) + 1 : x = Row[k]
    BY <2>1, <2>2, <2>4, <2>5
  <2> QED
    BY <2>6
<1>9. AliveOK'
  BY <1>1, <1>2, <1>6, <1>7, <1>8 DEF AliveOK
<1> QED
  BY <1>2, <1>3, <1>9 DEF IInv

LEMMA DestroyHeadStep ==
  ASSUME IInv, DestroyHead
  PROVE  IInv'
<1>1. /\ phase = "destroy" /\ phase' = "end" /\ cursor = Null /\ alive' = alive \ {head}
      /\ UNCHANGED links /\ UNCHANGED <<stack, slen, todo>>
  BY DEF DestroyHead, recall
<1>2. /\ Node' = Node /\ Size' = Size /\ Row' = Row /\ len' = len
      /\ NodesOK' /\ Ordered(Row)' /\ FocusOK'
  BY <1>1, SameList
<1>3. RecallOK'
  BY <1>1 DEF IInv, RecallOK
<1>4. PICK j \in 0 .. Size - 1 : /\ cursor = IF j = 0 THEN Null ELSE Row[j]
                                 /\ alive = {Row[k] : k \in 1 .. j + 1}
  BY <1>1 DEF IInv, AliveOK
<1>5. LinksBy(Row, Size) /\ Size \in Nat /\ Null \notin Node
  BY LinksAre DEF LinksBy
<1>6. j = 0
  <2>1. j # 0 => j \in 1 .. Size
    BY <1>5
  <2>2. j # 0 => Row[j] \in Node
    BY <1>5, <2>1 DEF LinksBy
  <2> QED
    BY <1>1, <1>4, <1>5, <2>2
<1>7. head = Row[1] /\ 1 .. j + 1 = {1}
  BY <1>4, <1>5, <1>6 DEF LinksBy
<1>8. alive' = {}
  BY <1>1, <1>4, <1>7
<1>9. AliveOK'
  BY <1>1, <1>8 DEF AliveOK
<1> QED
  BY <1>2, <1>3, <1>9 DEF IInv

-----------------------------------------------------------------------------

\* What IInv says during the quiz.
LEMMA QuizFacts ==
  ASSUME IInv, phase = "quiz"
  PROVE  /\ LinksBy(Row, Size) /\ Null \notin Node /\ Size \in Nat /\ Size # 0
         /\ len \in 1 .. Size /\ Place \in 1 .. Size /\ Place = Size - len + 1
         /\ focus = Row[Place] /\ focus \in Node
         /\ next[focus] = (IF Place = Size THEN Null ELSE Row[Place + 1])
         /\ prev[focus] = (IF Place = 1 THEN Null ELSE Row[Place - 1])
         /\ stack \in Seq(0 .. 2) /\ slen = Len(stack) /\ todo \in Nat /\ todo <= slen
         /\ \A m \in 1 .. Len(stack) : stack[m] # 2
         /\ Cardinality(Ones(stack, Len(stack))) = Size - len /\ alive = Node
<1>1. /\ Size # 0 /\ stack \in Seq(0 .. 2) /\ slen = Len(stack) /\ todo \in Nat /\ todo <= slen
      /\ \A m \in 1 .. Len(stack) : stack[m] # 2
      /\ Cardinality(Ones(stack, Len(stack))) = Size - len
  BY DEF IInv, RecallOK
<1>2. /\ LinksBy(Row, Size) /\ Null \notin Node
      /\ len \in 1 .. Size /\ Place \in 1 .. Size /\ focus = Row[Place] /\ focus \in Node
  BY <1>1, LinksAre
<1>3. /\ next[focus] = (IF Place = Size THEN Null ELSE Row[Place + 1])
      /\ prev[focus] = (IF Place = 1 THEN Null ELSE Row[Place - 1])
  BY <1>2 DEF LinksBy
<1>4. alive = Node
  BY DEF IInv, AliveOK
<1> QED
  BY <1>1, <1>2, <1>3, <1>4 DEF IInv, NodesOK, Place

\* The recall stack agrees with the focus after a push, and after a pop.
LEMMA RecallPushed ==
  ASSUME IInv, phase = "quiz", todo = 0, NEW x \in 0 .. 2, Push(x), Size' = Size,
         phase' = (IF x = 2 THEN "complete" ELSE "quiz"), x = 2 => len = 1,
         len' = IF x = 1 THEN len - 1 ELSE len
  PROVE  RecallOK' /\ Pushed(stack, x, stack')
<1>1. stack' = <<x>> \o stack /\ slen' = slen + 1 /\ todo' = 0
  BY DEF Push
<1>2. /\ stack \in Seq(0 .. 2) /\ slen = Len(stack) /\ Size \in Nat /\ Size # 0 /\ len \in 1 .. Size
      /\ \A m \in 1 .. Len(stack) : stack[m] # 2
      /\ Cardinality(Ones(stack, Len(stack))) = Size - len
  BY QuizFacts
<1>3. Pushed(stack, x, stack')
  BY <1>1, <1>2, PushIs
<1>4. stack' \in Seq(0 .. 2) /\ Len(stack') = Len(stack) + 1 /\ stack'[1] = x /\ Len(stack) \in Nat
  BY <1>3, <1>2 DEF Pushed
<1>5. Cardinality(Ones(stack', Len(stack) + 1)) = Cardinality(Ones(stack, Len(stack))) + IF x = 1 THEN 1 ELSE 0
  BY <1>3, <1>4, OnesPushed
<1>6. Cardinality(Ones(stack', Len(stack'))) = Size - len'
  BY <1>2, <1>4, <1>5
<1>7. x # 2 => \A m \in 1 .. Len(stack') : stack'[m] # 2
  <2> SUFFICES ASSUME x # 2, NEW m \in 1 .. Len(stack') PROVE stack'[m] # 2
    OBVIOUS
  <2>1. CASE m = 1
    BY <1>4, <2>1
  <2>2. CASE m # 1
    <3>1. m - 1 \in 1 .. Len(stack) /\ (m - 1) + 1 = m
      BY <1>4, <2>2
    <3> QED
      BY <1>2, <1>3, <3>1 DEF Pushed
  <2> QED
    BY <2>1, <2>2
<1>8. (Ones(stack, Len(stack)))' = Ones(stack', Len(stack'))
  BY DEF Ones
<1>9. RecallOK'
  <2>1. stack' # <<>>
    BY <1>4
  <2> QED
    BY <1>1, <1>2, <1>4, <1>6, <1>7, <1>8, <2>1 DEF RecallOK
<1> QED
  BY <1>3, <1>9

LEMMA RecallPopped ==
  ASSUME IInv, phase = "quiz", todo > 0, phase' = phase, Size' = Size,
         stack' = Tail(stack), slen' = slen - 1, todo' = todo - 1,
         len' = IF Head(stack) = 1 THEN len + 1 ELSE len
  PROVE  /\ RecallOK' /\ Pushed(stack', Head(stack), stack) /\ Head(stack) \in {0, 1}
         /\ Head(stack) = 1 => len < Size
<1>1. /\ stack \in Seq(0 .. 2) /\ slen = Len(stack) /\ Size \in Nat /\ Size # 0 /\ len \in 1 .. Size
      /\ todo \in Nat /\ todo <= slen
      /\ \A m \in 1 .. Len(stack) : stack[m] # 2
      /\ Cardinality(Ones(stack, Len(stack))) = Size - len
  BY QuizFacts
<1>2. Len(stack) # 0 /\ Len(stack) \in Nat
  BY <1>1
<1>3. /\ Pushed(stack', Head(stack), stack) /\ Head(stack) = stack[1]
      /\ stack' \in Seq(0 .. 2) /\ Len(stack') = Len(stack) - 1 /\ Len(stack') \in Nat
  BY <1>1, <1>2, PopIs
<1>4. Head(stack) \in {0, 1}
  <2>1. 1 \in 1 .. Len(stack)
    BY <1>2
  <2> QED
    BY <1>1, <1>3, <2>1
<1>5. Cardinality(Ones(stack, Len(stack') + 1)) = Cardinality(Ones(stack', Len(stack'))) + IF Head(stack) = 1 THEN 1 ELSE 0
  <2>1. Len(stack') \in 0 .. Len(stack')
    BY <1>3
  <2> QED
    BY <1>3, <2>1, OnesPushed
<1>6. Cardinality(Ones(stack', Len(stack'))) \in Nat
  BY <1>3, OnesFinite
<1>7. Cardinality(Ones(stack', Len(stack'))) = Size - len'
  BY <1>1, <1>2, <1>3, <1>5, <1>6
<1>8. \A m \in 1 .. Len(stack') : stack'[m] # 2
  BY <1>1, <1>2, <1>3 DEF Pushed
<1>9. (Ones(stack, Len(stack)))' = Ones(stack', Len(stack'))
  BY DEF Ones
<1>10. RecallOK'
  BY <1>1, <1>3, <1>7, <1>8, <1>9 DEF RecallOK
<1>11. Head(stack) = 1 => len < Size
  BY <1>1, <1>2, <1>3, <1>5, <1>6
<1> QED
  BY <1>3, <1>4, <1>10, <1>11

\* A right answer moves the focus, and the last one completes the set.
LEMMA SubmitRightStep ==
  ASSUME IInv, NEW w \in Word, SubmitRight(w)
  PROVE  /\ IInv' /\ Size' = Size /\ Row' = Row
         /\ \/ Place = Size /\ Pushed(stack, 2, stack') /\ phase' = "complete" /\ len' = len
            \/ Place # Size /\ Pushed(stack, 1, stack') /\ phase' = "quiz" /\ len' = len - 1
<1>1. /\ phase = "quiz" /\ todo = 0 /\ UNCHANGED <<cursor, alive>>
      /\ \/ next[focus] = Null /\ Push(2) /\ phase' = "complete" /\ UNCHANGED links
         \/ /\ next[focus] # Null /\ Push(1) /\ phase' = "quiz" /\ focus' = next[focus] /\ len' = len - 1
            /\ UNCHANGED <<next, prev, head, tail>>
  BY DEF SubmitRight, Asking
<1>2. /\ LinksBy(Row, Size) /\ Null \notin Node /\ Size \in Nat /\ Size # 0
      /\ len \in 1 .. Size /\ Place \in 1 .. Size /\ Place = Size - len + 1
      /\ focus = Row[Place] /\ next[focus] = (IF Place = Size THEN Null ELSE Row[Place + 1]) /\ alive = Node
  BY <1>1, QuizFacts
<1>3. next[focus] = Null <=> Place = Size
  <2>1. Place # Size => Place + 1 \in 1 .. Size
    BY <1>2
  <2>2. Place # Size => Row[Place + 1] \in Node
    BY <1>2, <2>1 DEF LinksBy
  <2> QED
    BY <1>2, <2>2
<1>4. CASE next[focus] = Null
  <2>1. Push(2) /\ phase' = "complete" /\ UNCHANGED links /\ len = 1
    BY <1>1, <1>2, <1>3, <1>4
  <2>2. /\ Node' = Node /\ Size' = Size /\ Row' = Row /\ len' = len
        /\ NodesOK' /\ Ordered(Row)' /\ FocusOK'
    BY <2>1, SameList
  <2>3. RecallOK' /\ Pushed(stack, 2, stack')
    BY <1>1, <2>1, <2>2, RecallPushed
  <2>4. AliveOK'
    BY <1>1, <1>2, <2>1, <2>2 DEF AliveOK
  <2> QED
    BY <1>3, <1>4, <2>1, <2>2, <2>3, <2>4 DEF IInv
<1>5. CASE next[focus] # Null
  <2>1. /\ Push(1) /\ phase' = "quiz" /\ focus' = Row[Place + 1] /\ len' = len - 1 /\ Place # Size
        /\ UNCHANGED <<next, prev, head, tail>>
    BY <1>1, <1>2, <1>3, <1>5
  <2>2. /\ Node' = Node /\ Size' = Size /\ Row' = Row
        /\ NodesOK' /\ \A o : Ordered(o) => Ordered(o)'
    BY <2>1, SameRow DEF IInv
  <2>3. Ordered(Row)'
    <3>1. PICK o : o = Row
      OBVIOUS
    <3>2. Ordered(o)' /\ Row' = o
      BY <2>2, <3>1 DEF IInv
    <3> QED
      BY <3>2 DEF Ordered
  <2>4. FocusOK'
    <3>1. len' \in 1 .. Size /\ Place' = Place + 1
      BY <1>2, <2>1, <2>2 DEF Place
    <3> QED
      BY <1>2, <2>1, <2>2, <3>1 DEF FocusOK
  <2>5. RecallOK' /\ Pushed(stack, 1, stack')
    BY <1>1, <2>1, <2>2, RecallPushed
  <2>6. AliveOK'
    BY <1>1, <1>2, <2>1, <2>2 DEF AliveOK
  <2> QED
    BY <2>1, <2>2, <2>3, <2>4, <2>5, <2>6 DEF IInv
<1> QED
  BY <1>4, <1>5

\* A wrong answer moves the node in focus behind the tail.
LEMMA MovePointers ==
  ASSUME IInv, phase = "quiz", Place # Size, Move, NEW o, o = Row, NEW n, n = Size, NEW f, f = Place
  PROVE  /\ Node' = Node /\ DOMAIN prev' = Node /\ n \in Nat /\ f \in 1 .. n - 1 /\ LinksBy(o, n)
         /\ \A k \in 1 .. n : next'[o[k]] = IF k = f THEN Null ELSE IF k = n THEN o[f]
                                             ELSE IF k = f - 1 THEN o[f + 1] ELSE o[k + 1]
         /\ \A k \in 1 .. n : prev'[o[k]] = IF k = f THEN o[n] ELSE IF k = f + 1 /\ f = 1 THEN Null
                                             ELSE IF k = f + 1 THEN o[f - 1] ELSE IF k = 1 THEN Null ELSE o[k - 1]
         /\ head' = (IF f = 1 THEN o[2] ELSE o[1]) /\ tail' = o[f] /\ focus' = o[f + 1]
<1>1. /\ LinksBy(o, n) /\ Null \notin Node /\ n \in Nat /\ n # 0 /\ f \in 1 .. n /\ f # n
      /\ focus = o[f] /\ next[focus] = (IF f = n THEN Null ELSE o[f + 1])
      /\ prev[focus] = (IF f = 1 THEN Null ELSE o[f - 1])
  BY QuizFacts
<1>2. f \in 1 .. n - 1 /\ f + 1 \in 1 .. n /\ (f # 1 => f - 1 \in 1 .. n) /\ n \in 1 .. n
  BY <1>1
<1>3. /\ \A k \in 1 .. n : o[k] \in Node /\ o[k] # Null
      /\ \A i, j \in 1 .. n : o[i] = o[j] => i = j
      /\ \A k \in 1 .. n : next[o[k]] = IF k = n THEN Null ELSE o[k + 1]
      /\ \A k \in 1 .. n : prev[o[k]] = IF k = 1 THEN Null ELSE o[k - 1]
      /\ head = o[1] /\ tail = o[n]
  BY <1>1 DEF LinksBy
<1>4. next[o[f]] = o[f + 1] /\ prev[o[f]] = IF f = 1 THEN Null ELSE o[f - 1]
  BY <1>1
<1>5. /\ focus' = o[f + 1]
      /\ head' = IF prev[o[f]] = Null THEN o[f + 1] ELSE o[1]
      /\ next' = [x \in Node |-> IF x = o[f] THEN Null ELSE IF x = o[n] THEN o[f]
                                 ELSE IF x = prev[o[f]] THEN o[f + 1] ELSE next[x]]
      /\ prev' = [x \in Node |-> IF x = o[f] THEN o[n] ELSE IF x = o[f + 1] THEN prev[o[f]] ELSE prev[x]]
      /\ tail' = o[f]
  BY <1>1, <1>3, <1>4 DEF Move
<1>6. Node' = Node /\ DOMAIN prev' = Node
  BY <1>5 DEF Node
<1>7. head' = IF f = 1 THEN o[2] ELSE o[1]
  BY <1>1, <1>2, <1>3, <1>4, <1>5
<1>8. ASSUME NEW k \in 1 .. n
      PROVE  next'[o[k]] = IF k = f THEN Null ELSE IF k = n THEN o[f]
                           ELSE IF k = f - 1 THEN o[f + 1] ELSE o[k + 1]
  <2>1. o[k] = o[f] <=> k = f
    BY <1>2, <1>3
  <2>2. o[k] = o[n] <=> k = n
    BY <1>2, <1>3
  <2>3. o[k] = prev[o[f]] <=> k = f - 1
    BY <1>1, <1>2, <1>3, <1>4
  <2>4. next'[o[k]] = IF o[k] = o[f] THEN Null ELSE IF o[k] = o[n] THEN o[f]
                      ELSE IF o[k] = prev[o[f]] THEN o[f + 1] ELSE next[o[k]]
    BY <1>3, <1>5
  <2> QED
    BY <1>3, <2>1, <2>2, <2>3, <2>4
<1>9. ASSUME NEW k \in 1 .. n
      PROVE  prev'[o[k]] = IF k = f THEN o[n] ELSE IF k = f + 1 /\ f = 1 THEN Null
                           ELSE IF k = f + 1 THEN o[f - 1] ELSE IF k = 1 THEN Null ELSE o[k - 1]
  <2>1. o[k] = o[f] <=> k = f
    BY <1>2, <1>3
  <2>2. o[k] = o[f + 1] <=> k = f + 1
    BY <1>2, <1>3
  <2>3. prev'[o[k]] = IF o[k] = o[f] THEN o[n] ELSE IF o[k] = o[f + 1] THEN prev[o[f]] ELSE prev[o[k]]
    BY <1>3, <1>5
  <2> QED
    BY <1>3, <1>4, <2>1, <2>2, <2>3
<1> QED
  BY <1>1, <1>2, <1>5, <1>6, <1>7, <1>8, <1>9

LEMMA SubmitWrongStep ==
  ASSUME IInv, NEW w \in Word, SubmitWrong(w)
  PROVE  /\ IInv' /\ Size' = Size /\ phase' = "quiz" /\ len' = len /\ Pushed(stack, 0, stack')
         /\ Row' = IF Place = Size THEN Row ELSE ToEnd(Row, Size, Place)
<1>1. /\ phase = "quiz" /\ phase' = "quiz" /\ todo = 0 /\ Push(0) /\ UNCHANGED <<len, cursor, alive>>
      /\ IF len = 1 THEN UNCHANGED <<next, prev, head, tail, focus>> ELSE Move
  BY DEF SubmitWrong, Asking
<1>2. /\ Size \in Nat /\ Size # 0 /\ len \in 1 .. Size /\ Place \in 1 .. Size /\ Place = Size - len + 1
      /\ alive = Node
  BY <1>1, QuizFacts
<1>3. len = 1 <=> Place = Size
  BY <1>2
<1>4. CASE len = 1
  <2>1. UNCHANGED links
    BY <1>1, <1>4 DEF links
  <2>2. /\ Node' = Node /\ Size' = Size /\ Row' = Row /\ len' = len
        /\ NodesOK' /\ Ordered(Row)' /\ FocusOK'
    BY <2>1, SameList
  <2>3. RecallOK' /\ Pushed(stack, 0, stack')
    BY <1>1, <2>2, RecallPushed
  <2>4. AliveOK'
    BY <1>1, <1>2, <2>2 DEF AliveOK
  <2> QED
    BY <1>1, <1>3, <1>4, <2>2, <2>3, <2>4 DEF IInv
<1>5. CASE len # 1
  <2>1. PICK o, n, f : o = Row /\ n = Size /\ f = Place
    OBVIOUS
  <2>2. /\ Node' = Node /\ DOMAIN prev' = Node /\ n \in Nat /\ f \in 1 .. n - 1 /\ LinksBy(o, n)
        /\ \A k \in 1 .. n : next'[o[k]] = IF k = f THEN Null ELSE IF k = n THEN o[f]
                                            ELSE IF k = f - 1 THEN o[f + 1] ELSE o[k + 1]
        /\ \A k \in 1 .. n : prev'[o[k]] = IF k = f THEN o[n] ELSE IF k = f + 1 /\ f = 1 THEN Null
                                            ELSE IF k = f + 1 THEN o[f - 1] ELSE IF k = 1 THEN Null ELSE o[k - 1]
        /\ head' = (IF f = 1 THEN o[2] ELSE o[1]) /\ tail' = o[f] /\ focus' = o[f + 1]
    BY <1>1, <1>3, <1>5, <2>1, MovePointers
  <2>3. Size' = n
    BY <2>1, <2>2 DEF Size
  <2>4. LinksBy(ToEnd(o, n, f), n)'
    BY <2>2, MoveLinks
  <2>5. Ordered(Row)' /\ Row' = ToEnd(o, n, f)
    BY <2>2, <2>3, <2>4, NewOrder
  <2>6. NodesOK'
    BY <2>1, <2>2, <2>3 DEF IInv, NodesOK
  <2>7. FocusOK'
    <3>1. len' \in 1 .. Size' /\ Place' = f /\ Size' # 0 /\ f \in 1 .. n /\ f < n
      BY <1>1, <1>2, <2>1, <2>2, <2>3 DEF Place
    <3>2. ToEnd(o, n, f)[f] = o[f + 1]
      BY <3>1, <2>2 DEF ToEnd
    <3> QED
      BY <2>2, <2>5, <3>1, <3>2 DEF FocusOK
  <2>8. RecallOK' /\ Pushed(stack, 0, stack')
    BY <1>1, <2>1, <2>3, RecallPushed
  <2>9. AliveOK'
    BY <1>1, <1>2, <2>2 DEF AliveOK
  <2> QED
    BY <1>1, <1>3, <1>5, <2>1, <2>3, <2>5, <2>6, <2>7, <2>8, <2>9 DEF IInv
<1> QED
  BY <1>4, <1>5

\* test_revert looks at its argument.
LEMMA RevertBeginStep ==
  ASSUME IInv, NEW k \in Int, RevertBegin(k)
  PROVE  /\ IInv' /\ Size' = Size /\ Row' = Row /\ len' = len /\ stack' = stack /\ phase' = phase
         /\ todo = 0 /\ todo' = IF k > Len(stack) \/ k < 0 THEN 0 ELSE k
<1>1. /\ phase = "quiz" /\ todo = 0 /\ todo' = (IF k > slen \/ k < 0 THEN 0 ELSE k)
      /\ UNCHANGED links /\ UNCHANGED <<stack, slen, phase, alive>>
  BY DEF RevertBegin
<1>2. /\ Node' = Node /\ Size' = Size /\ Row' = Row /\ len' = len
      /\ NodesOK' /\ Ordered(Row)' /\ FocusOK'
  BY <1>1, SameList
<1>3. slen = Len(stack) /\ stack \in Seq(0 .. 2)
  BY <1>1, QuizFacts
<1>4. todo' \in Nat /\ todo' <= slen
  BY <1>1, <1>3
<1>5. RecallOK'
  <2>1. (Ones(stack, Len(stack)))' = Ones(stack, Len(stack))
    BY <1>1 DEF Ones
  <2> QED
    BY <1>1, <1>2, <1>4, <2>1 DEF IInv, RecallOK
<1>6. AliveOK'
  BY <1>1, <1>2 DEF IInv, AliveOK
<1> QED
  BY <1>1, <1>2, <1>3, <1>5, <1>6 DEF IInv

\* Taking back a wrong answer moves the tail before the focus.
LEMMA UnmovePointers ==
  ASSUME IInv, phase = "quiz", Place # Size, Unmove, NEW o, o = Row, NEW n, n = Size, NEW f, f = Place
  PROVE  /\ Node' = Node /\ DOMAIN prev' = Node /\ n \in Nat /\ f \in 1 .. n - 1 /\ LinksBy(o, n)
         /\ \A k \in 1 .. n : next'[o[k]] = IF k = f - 1 THEN o[n] ELSE IF k = n - 1 THEN Null
                                             ELSE IF k = n THEN o[f] ELSE o[k + 1]
         /\ \A k \in 1 .. n : prev'[o[k]] = IF k = f THEN o[n] ELSE IF k = n /\ f = 1 THEN Null
                                             ELSE IF k = n THEN o[f - 1] ELSE IF k = 1 THEN Null ELSE o[k - 1]
         /\ head' = (IF f = 1 THEN o[n] ELSE o[1]) /\ tail' = o[n - 1] /\ focus' = o[n] /\ len' = len
<1>1. /\ LinksBy(o, n) /\ Null \notin Node /\ n \in Nat /\ n # 0 /\ f \in 1 .. n /\ f # n
      /\ focus = o[f] /\ prev[focus] = (IF f = 1 THEN Null ELSE o[f - 1])
  BY QuizFacts
<1>2. f \in 1 .. n - 1 /\ f \in 1 .. n /\ (f # 1 => f - 1 \in 1 .. n) /\ n \in 1 .. n /\ n # 1 /\ n - 1 \in 1 .. n
  BY <1>1
<1>3. /\ \A k \in 1 .. n : o[k] \in Node /\ o[k] # Null
      /\ \A i, j \in 1 .. n : o[i] = o[j] => i = j
      /\ \A k \in 1 .. n : next[o[k]] = IF k = n THEN Null ELSE o[k + 1]
      /\ \A k \in 1 .. n : prev[o[k]] = IF k = 1 THEN Null ELSE o[k - 1]
      /\ head = o[1] /\ tail = o[n]
  BY <1>1 DEF LinksBy
<1>4. prev[o[n]] = o[n - 1] /\ prev[o[f]] = IF f = 1 THEN Null ELSE o[f - 1]
  BY <1>1, <1>2, <1>3
<1>5. /\ prev' = [x \in Node |-> IF x = o[f] THEN o[n] ELSE IF x = o[n] THEN prev[o[f]] ELSE prev[x]]
      /\ next' = [x \in Node |-> IF x = prev[o[f]] THEN o[n] ELSE IF x = o[n - 1] THEN Null
                                 ELSE IF x = o[n] THEN o[f] ELSE next[x]]
      /\ head' = IF prev[o[f]] = Null THEN o[n] ELSE o[1]
      /\ focus' = o[n] /\ tail' = o[n - 1] /\ len' = len
  BY <1>1, <1>3, <1>4 DEF Unmove
<1>6. Node' = Node /\ DOMAIN prev' = Node
  BY <1>5 DEF Node
<1>7. head' = IF f = 1 THEN o[n] ELSE o[1]
  BY <1>1, <1>2, <1>3, <1>4, <1>5
<1>8. ASSUME NEW k \in 1 .. n
      PROVE  next'[o[k]] = IF k = f - 1 THEN o[n] ELSE IF k = n - 1 THEN Null
                           ELSE IF k = n THEN o[f] ELSE o[k + 1]
  <2>1. o[k] = prev[o[f]] <=> k = f - 1
    BY <1>1, <1>2, <1>3, <1>4
  <2>2. o[k] = o[n - 1] <=> k = n - 1
    BY <1>2, <1>3
  <2>3. o[k] = o[n] <=> k = n
    BY <1>2, <1>3
  <2>4. next'[o[k]] = IF o[k] = prev[o[f]] THEN o[n] ELSE IF o[k] = o[n - 1] THEN Null
                      ELSE IF o[k] = o[n] THEN o[f] ELSE next[o[k]]
    BY <1>3, <1>5
  <2> QED
    BY <1>3, <2>1, <2>2, <2>3, <2>4
<1>9. ASSUME NEW k \in 1 .. n
      PROVE  prev'[o[k]] = IF k = f THEN o[n] ELSE IF k = n /\ f = 1 THEN Null
                           ELSE IF k = n THEN o[f - 1] ELSE IF k = 1 THEN Null ELSE o[k - 1]
  <2>1. o[k] = o[f] <=> k = f
    BY <1>2, <1>3
  <2>2. o[k] = o[n] <=> k = n
    BY <1>2, <1>3
  <2>3. prev'[o[k]] = IF o[k] = o[f] THEN o[n] ELSE IF o[k] = o[n] THEN prev[o[f]] ELSE prev[o[k]]
    BY <1>3, <1>5
  <2> QED
    BY <1>3, <1>4, <2>1, <2>2, <2>3
<1> QED
  BY <1>1, <1>2, <1>5, <1>6, <1>7, <1>8, <1>9

LEMMA RevertStepStep ==
  ASSUME IInv, RevertStep
  PROVE  /\ IInv' /\ Size' = Size /\ phase' = "quiz" /\ phase = "quiz" /\ Pushed(stack', Head(stack), stack)
         /\ Head(stack) \in {0, 1} /\ todo > 0 /\ todo' = todo - 1
         /\ len' = IF Head(stack) = 1 THEN len + 1 ELSE len
         /\ Row' = IF Head(stack) = 1 \/ Place = Size THEN Row ELSE FromEnd(Row, Size, Place)
<1>1. /\ phase = "quiz" /\ phase' = "quiz" /\ todo > 0 /\ stack' = Tail(stack) /\ slen' = slen - 1
      /\ todo' = todo - 1 /\ UNCHANGED alive
      /\ IF Head(stack) = 1 THEN Unadvance ELSE IF next[focus] = Null THEN UNCHANGED links ELSE Unmove
  BY DEF RevertStep
<1>2. /\ LinksBy(Row, Size) /\ Null \notin Node /\ Size \in Nat /\ Size # 0
      /\ len \in 1 .. Size /\ Place \in 1 .. Size /\ Place = Size - len + 1
      /\ focus = Row[Place] /\ next[focus] = (IF Place = Size THEN Null ELSE Row[Place + 1])
      /\ prev[focus] = (IF Place = 1 THEN Null ELSE Row[Place - 1]) /\ alive = Node
  BY <1>1, QuizFacts
<1>3. next[focus] = Null <=> Place = Size
  <2>1. Place # Size => Place + 1 \in 1 .. Size
    BY <1>2
  <2>2. Place # Size => Row[Place + 1] \in Node
    BY <1>2, <2>1 DEF LinksBy
  <2> QED
    BY <1>2, <2>2
<1>4. CASE Head(stack) = 1
  <2>1. focus' = prev[focus] /\ len' = len + 1 /\ UNCHANGED <<next, prev, head, tail>>
    BY <1>1, <1>4 DEF Unadvance
  <2>2. /\ Node' = Node /\ Size' = Size /\ Row' = Row
        /\ NodesOK' /\ \A o : Ordered(o) => Ordered(o)'
    BY <2>1, SameRow DEF IInv
  <2>3. Ordered(Row)'
    <3>1. PICK o : o = Row
      OBVIOUS
    <3>2. Ordered(o)' /\ Row' = o
      BY <2>2, <3>1 DEF IInv
    <3> QED
      BY <3>2 DEF Ordered
  <2>4. RecallOK' /\ Pushed(stack', Head(stack), stack) /\ len < Size
    BY <1>1, <1>4, <2>1, <2>2, RecallPopped
  <2>5. FocusOK'
    <3>1. len' \in 1 .. Size /\ Place' = Place - 1 /\ Place # 1
      BY <1>2, <2>1, <2>2, <2>4 DEF Place
    <3> QED
      BY <1>2, <2>1, <2>2, <3>1 DEF FocusOK
  <2>6. AliveOK'
    BY <1>1, <1>2, <2>2 DEF AliveOK
  <2> QED
    BY <1>1, <1>4, <2>1, <2>2, <2>3, <2>4, <2>5, <2>6 DEF IInv
<1>5. CASE Head(stack) # 1 /\ next[focus] = Null
  <2>1. UNCHANGED links
    BY <1>1, <1>5
  <2>2. /\ Node' = Node /\ Size' = Size /\ Row' = Row /\ len' = len
        /\ NodesOK' /\ Ordered(Row)' /\ FocusOK'
    BY <2>1, SameList
  <2>3. RecallOK' /\ Pushed(stack', Head(stack), stack) /\ Head(stack) \in {0, 1}
    BY <1>1, <1>5, <2>2, RecallPopped
  <2>4. AliveOK'
    BY <1>1, <1>2, <2>2 DEF AliveOK
  <2> QED
    BY <1>1, <1>3, <1>5, <2>2, <2>3, <2>4 DEF IInv
<1>6. CASE Head(stack) # 1 /\ next[focus] # Null
  <2>1. PICK o, n, f : o = Row /\ n = Size /\ f = Place
    OBVIOUS
  <2>2. /\ Node' = Node /\ DOMAIN prev' = Node /\ n \in Nat /\ f \in 1 .. n - 1 /\ LinksBy(o, n)
        /\ \A k \in 1 .. n : next'[o[k]] = IF k = f - 1 THEN o[n] ELSE IF k = n - 1 THEN Null
                                            ELSE IF k = n THEN o[f] ELSE o[k + 1]
        /\ \A k \in 1 .. n : prev'[o[k]] = IF k = f THEN o[n] ELSE IF k = n /\ f = 1 THEN Null
                                            ELSE IF k = n THEN o[f - 1] ELSE IF k = 1 THEN Null ELSE o[k - 1]
        /\ head' = (IF f = 1 THEN o[n] ELSE o[1]) /\ tail' = o[n - 1] /\ focus' = o[n] /\ len' = len
    BY <1>1, <1>3, <1>6, <2>1, UnmovePointers
  <2>3. Size' = n
    BY <2>1, <2>2 DEF Size
  <2>4. LinksBy(FromEnd(o, n, f), n)'
    BY <2>2, UnmoveLinks
  <2>5. Ordered(Row)' /\ Row' = FromEnd(o, n, f)
    BY <2>2, <2>3, <2>4, NewOrder
  <2>6. NodesOK'
    BY <2>1, <2>2, <2>3 DEF IInv, NodesOK
  <2>7. FocusOK'
    <3>1. len' \in 1 .. Size' /\ Place' = f /\ Size' # 0 /\ f \in 1 .. n
      BY <1>1, <1>2, <2>1, <2>2, <2>3 DEF Place
    <3>2. FromEnd(o, n, f)[f] = o[n]
      BY <3>1, <2>2 DEF FromEnd
    <3> QED
      BY <2>2, <2>5, <3>1, <3>2 DEF FocusOK
  <2>8. RecallOK' /\ Pushed(stack', Head(stack), stack) /\ Head(stack) \in {0, 1}
    BY <1>1, <1>6, <2>1, <2>2, <2>3, RecallPopped
  <2>9. AliveOK'
    BY <1>1, <1>2, <2>2 DEF AliveOK
  <2> QED
    BY <1>1, <1>3, <1>6, <2>1, <2>2, <2>3, <2>5, <2>6, <2>7, <2>8, <2>9 DEF IInv
<1> QED
  BY <1>4, <1>5, <1>6

-----------------------------------------------------------------------------

\* The invariant survives every step.
LEMMA StepIInv == IInv /\ [Next]_vars => IInv'
<1> SUFFICES ASSUME IInv, [Next]_vars PROVE IInv'
  OBVIOUS
<1>1. CASE \E t \in Term, pos \in 0 .. len : Insert(t, pos)
  BY <1>1, InsertStep
<1>2. CASE Begin
  BY <1>2, BeginStep
<1>3. CASE Reject
  BY <1>3, RejectStep
<1>4. CASE \E w \in Word : SubmitRight(w)
  BY <1>4, SubmitRightStep
<1>5. CASE \E w \in Word : SubmitWrong(w)
  BY <1>5, SubmitWrongStep
<1>6. CASE \E k \in -1 .. MaxAnswers + 1 : RevertBegin(k)
  BY <1>6, RevertBeginStep
<1>7. CASE RevertStep
  BY <1>7, RevertStepStep
<1>8. CASE Finish
  BY <1>8, FinishStep
<1>9. CASE DestroyStep
  BY <1>9, DestroyStepStep
<1>10. CASE DestroyHead
  BY <1>10, DestroyHeadStep
<1>11. CASE UNCHANGED vars
  <2>1. UNCHANGED links /\ UNCHANGED <<stack, slen, todo, phase, cursor, alive>>
    BY <1>11 DEF vars, recall
  <2>2. /\ Node' = Node /\ Size' = Size /\ Row' = Row /\ len' = len
        /\ NodesOK' /\ Ordered(Row)' /\ FocusOK'
    BY <2>1, SameList
  <2>3. (Ones(stack, Len(stack)))' = Ones(stack, Len(stack))
    BY <2>1 DEF Ones
  <2>4. RecallOK'
    BY <2>1, <2>2, <2>3 DEF IInv, RecallOK
  <2>5. AliveOK'
    BY <2>1, <2>2 DEF IInv, AliveOK
  <2> QED
    BY <2>2, <2>4, <2>5 DEF IInv
<1> QED
  BY <1>1, <1>2, <1>3, <1>4, <1>5, <1>6, <1>7, <1>8, <1>9, <1>10, <1>11 DEF Next

LEMMA Invariance == Spec => []IInv
<1> QED
  BY InitIInv, StepIInv, PTL DEF Spec

\* Whatever is inserted, moved behind the tail and moved back, the nodes form
\* one doubly linked list in which none is lost or met twice, and list.len
\* counts those from the focus on (memtwo.c:389-507, 536-581).
THEOREM LinkedThm == Spec => []Linked
<1>1. IInv => Linked
  <2> SUFFICES ASSUME IInv PROVE Linked
    OBVIOUS
  <2>1. Size \in Nat /\ Ordered(Row)
    BY DEF IInv, NodesOK
  <2>2. Row \in Orders
    BY <2>1 DEF Ordered, Orders, Size
  <2>3. IsOrder(Row)
    BY <2>1, <2>2, OrderedIs
  <2>4. Size = 0 => Node = {}
    BY LinksAre
  <2>5. Node = {} => Size = 0
    BY FS_EmptySet DEF Size
  <2>6. IF Node = {} THEN len = 0 /\ focus = Null
                     ELSE len > 0 /\ focus = Row[Cardinality(Node) - len + 1]
    BY <2>1, <2>4, <2>5 DEF IInv, FocusOK, Place, Size
  <2> QED
    BY <2>2, <2>3, <2>6 DEF Linked
<1> QED
  BY <1>1, Invariance, PTL

\* The recall stack holds a right answer for every node before the focus, so
\* that no revert, of any length, pops it empty or follows a null pointer
\* (memtwo.c:536-581).
THEOREM RecalledThm == Spec => []Recalled
<1>1. IInv => Recalled
  <2> SUFFICES ASSUME IInv, phase \in {"load", "quiz", "complete"}
               PROVE  /\ slen = Len(stack) /\ todo <= slen
                      /\ Cardinality({k \in 1 .. Len(stack) : stack[k] = 1}) = Cardinality(Node) - len
    BY DEF Recalled
  <2> QED
    BY DEF IInv, RecallOK, Ones, Size
<1> QED
  BY <1>1, Invariance, PTL

\* test_destroy frees each node once and reads none that it has freed
\* (memtwo.c:583-604).
THEOREM FreedOnceThm == Spec => []FreedOnce
<1>1. IInv => FreedOnce
  <2> SUFFICES ASSUME IInv, phase = "destroy"
               PROVE  IF cursor = Null THEN alive = {head} ELSE {cursor, next[cursor]} \subseteq alive
    BY DEF FreedOnce, IInv, AliveOK
  <2>1. PICK j \in 0 .. Size - 1 : /\ cursor = IF j = 0 THEN Null ELSE Row[j]
                                   /\ alive = {Row[k] : k \in 1 .. j + 1}
    BY DEF IInv, AliveOK
  <2>2. LinksBy(Row, Size) /\ Size \in Nat /\ Null \notin Node
    BY LinksAre DEF LinksBy
  <2>3. CASE j = 0
    <3>1. 1 .. j + 1 = {1} /\ head = Row[1]
      BY <2>1, <2>2, <2>3 DEF LinksBy
    <3> QED
      BY <2>1, <2>3, <3>1
  <2>4. CASE j # 0
    <3>1. j \in 1 .. Size /\ j # Size /\ j \in 1 .. j + 1 /\ j + 1 \in 1 .. j + 1
      BY <2>1, <2>2, <2>4
    <3>2. cursor = Row[j] /\ cursor \in Node /\ next[cursor] = Row[j + 1]
      BY <2>1, <2>2, <2>4, <3>1 DEF LinksBy
    <3> QED
      BY <2>1, <2>2, <3>1, <3>2
  <2> QED
    BY <2>3, <2>4
<1> QED
  BY <1>1, Invariance, PTL

-----------------------------------------------------------------------------

\* Where the term at place i of the row stood before an answer, when r terms
\* were answered and c tells whether it was right.
Back(n, r, c, i) ==
  IF c # 0 \/ i <= r THEN i ELSE IF i = r + 1 THEN n ELSE i - 1

\* How many terms were answered k answers ago: n terms, l of them remaining.
RightAt(n, l, s, k) == n - l - Cardinality(Ones(s, k))

RowBefore(G, u, n, l, s, k) ==
  [i \in 1 .. n |-> IF k = 0 THEN u[i] ELSE G[k - 1][Back(n, RightAt(n, l, s, k), s[k], i)]]

HistoryUpTo(L, G, u, n, l, s) == G = [k \in 0 .. L |-> RowBefore(G, u, n, l, s, k)]

\* G[k] is the row k answers ago, when it is u now and s is the recall stack.
History(G, u, n, l, s) ==
  /\ DOMAIN G = 0 .. Len(s)
  /\ \A k \in 0 .. Len(s) : G[k] = RowBefore(G, u, n, l, s, k)

\* u is v with a term moved to where it was before the last answer.
MovedBack(u, v, n, r, c) ==
  \A i \in 1 .. n : Back(n, r, c, i) \in 1 .. n /\ u[i] = v[Back(n, r, c, i)]

\* The history H, with recall stack t, is G with the present row in front.
Shifted(G, n, l, s, H, m, t) ==
  \A k \in 0 .. Len(s) : RightAt(n, m, t, k + 1) = RightAt(n, l, s, k) /\ H[k + 1] = G[k]

-----------------------------------------------------------------------------

\* The rows can be computed as far back as there are answers.
LEMMA HistoryExists ==
  ASSUME NEW u, NEW n, NEW l, NEW s, NEW L \in Nat
  PROVE  \E G : HistoryUpTo(L, G, u, n, l, s)
<1> DEFINE Ok(K) == \E G : G = [k \in 0 .. K |-> RowBefore(G, u, n, l, s, k)]
           Bad == {K \in 0 .. L : ~ Ok(K)}
<1>1. Ok(0)
  <2> DEFINE G == [k \in 0 .. 0 |-> [i \in 1 .. n |-> u[i]]]
  <2>1. \A k \in 0 .. 0 : RowBefore(G, u, n, l, s, k) = [i \in 1 .. n |-> u[i]]
    <3> HIDE DEF G
    <3> TAKE k \in 0 .. 0
    <3>1. k = 0
      OBVIOUS
    <3> QED
      BY <3>1 DEF RowBefore
  <2>2. G = [k \in 0 .. 0 |-> RowBefore(G, u, n, l, s, k)]
    BY <2>1
  <2> QED
    BY <2>2
<1>2. ASSUME NEW K \in 0 .. L, K # 0, Ok(K - 1) PROVE Ok(K)
  <2>1. PICK H : H = [k \in 0 .. K - 1 |-> RowBefore(H, u, n, l, s, k)]
    BY <1>2
  <2> DEFINE new == RowBefore(H, u, n, l, s, K)
             G == [k \in 0 .. K |-> IF k = K THEN new ELSE H[k]]
  <2>2. \A k \in 0 .. K - 1 : G[k] = H[k] /\ k \in 0 .. K
    BY <1>2
  <2>3. G[K] = new
    BY <1>2
  <2>4. DOMAIN G = 0 .. K /\ G = [k \in 0 .. K |-> G[k]]
    OBVIOUS
  <2> HIDE DEF G
  <2>5. \A k \in 0 .. K : RowBefore(G, u, n, l, s, k) = RowBefore(H, u, n, l, s, k)
    <3> TAKE k \in 0 .. K
    <3>1. k # 0 => k - 1 \in 0 .. K - 1
      OBVIOUS
    <3>2. k # 0 => G[k - 1] = H[k - 1]
      BY <2>2, <3>1
    <3> QED
      BY <3>2 DEF RowBefore
  <2>6. \A k \in 0 .. K : G[k] = RowBefore(G, u, n, l, s, k)
    <3> TAKE k \in 0 .. K
    <3>1. CASE k = K
      BY <2>3, <2>5, <3>1
    <3>2. CASE k # K
      <4>1. k \in 0 .. K - 1
        BY <3>2
      <4> HIDE DEF new
      <4>2. H[k] = RowBefore(H, u, n, l, s, k)
        BY <2>1, <4>1
      <4> QED
        BY <2>2, <2>5, <4>1, <4>2
    <3> QED
      BY <3>1, <3>2
  <2>7. G = [k \in 0 .. K |-> RowBefore(G, u, n, l, s, k)]
    BY <2>4, <2>6
  <2> QED
    BY <2>7
<1> HIDE DEF Ok
<1>3. CASE Bad = {}
  <2>1. L \in 0 .. L
    OBVIOUS
  <2>2. Ok(L)
    BY <1>3, <2>1
  <2>3. PICK G : G = [k \in 0 .. L |-> RowBefore(G, u, n, l, s, k)]
    BY <2>2 DEF Ok
  <2>4. HistoryUpTo(L, G, u, n, l, s)
    BY <2>3 DEF HistoryUpTo
  <2> QED
    BY <2>4
<1>4. CASE Bad # {}
  <2>1. PICK K \in Bad : \A j \in Bad : ~ (j < K)
    <3>1. Bad \subseteq Nat
      OBVIOUS
    <3> HIDE DEF Bad
    <3> QED
      BY <1>4, <3>1, Least
  <2>2. K \in 0 .. L /\ ~ Ok(K)
    BY <2>1
  <2>3. K # 0
    BY <1>1, <2>2
  <2>4. K - 1 \in 0 .. L /\ K - 1 < K
    BY <2>2, <2>3
  <2>5. Ok(K - 1)
    BY <2>1, <2>4
  <2> QED
    BY <1>2, <2>2, <2>3, <2>5
<1> QED
  BY <1>3, <1>4

\* RowAgo is such a history.
LEMMA RowAgoIs ==
  stack \in Seq(0 .. 2) => History(RowAgo, Row, Size, len, stack)
<1> SUFFICES ASSUME stack \in Seq(0 .. 2) PROVE History(RowAgo, Row, Size, len, stack)
  OBVIOUS
<1>1. Len(stack) \in Nat
  OBVIOUS
<1>2. PICK G : HistoryUpTo(Len(stack), G, Row, Size, len, stack)
  BY <1>1, HistoryExists
<1>3. G = [k \in 0 .. Len(stack) |->
             [i \in 1 .. Size |->
                IF k = 0 THEN Row[i]
                ELSE G[k - 1][IF stack[k] # 0 \/ i <= RightAgo(k) THEN i
                              ELSE IF i = RightAgo(k) + 1 THEN Size ELSE i - 1]]]
  <2>1. G = [k \in 0 .. Len(stack) |-> RowBefore(G, Row, Size, len, stack, k)]
    BY <1>2 DEF HistoryUpTo
  <2> QED
    BY <2>1 DEF RowBefore, Back, RightAt, RightAgo, Ones
<1>4. RowAgo = [k \in 0 .. Len(stack) |->
                  [i \in 1 .. Size |->
                     IF k = 0 THEN Row[i]
                     ELSE RowAgo[k - 1][IF stack[k] # 0 \/ i <= RightAgo(k) THEN i
                                        ELSE IF i = RightAgo(k) + 1 THEN Size ELSE i - 1]]]
  BY <1>3 DEF RowAgo
<1>5. RowAgo = [k \in 0 .. Len(stack) |-> RowBefore(RowAgo, Row, Size, len, stack, k)]
  BY <1>4 DEF RowBefore, Back, RightAt, RightAgo, Ones
<1> QED
  BY <1>5 DEF History

LEMMA RowAgoIsAfter ==
  (stack \in Seq(0 .. 2) => History(RowAgo, Row, Size, len, stack))'
<1>1. stack \in Seq(0 .. 2) => History(RowAgo, Row, Size, len, stack)
  BY RowAgoIs
<1> QED
  BY <1>1, PTL

\* When an outcome is pushed, every row is one answer further away.
LEMMA HistoryShift ==
  ASSUME NEW s, NEW x, NEW t, Pushed(s, x, t), NEW n \in Nat, NEW l \in Int, NEW m \in Int,
         l = m + (IF x = 1 THEN 1 ELSE 0),
         NEW u, NEW v, MovedBack(u, v, n, n - l, x),
         NEW G, History(G, u, n, l, s), NEW H, History(H, v, n, m, t)
  PROVE  Shifted(G, n, l, s, H, m, t)
<1>0. /\ s \in Seq(0 .. 2) /\ t \in Seq(0 .. 2) /\ Len(s) \in Nat /\ Len(t) = Len(s) + 1 /\ t[1] = x
      /\ \A k \in 1 .. Len(s) : t[k + 1] = s[k]
  BY DEF Pushed
<1>1. ASSUME NEW k \in 0 .. Len(s) PROVE RightAt(n, m, t, k + 1) = RightAt(n, l, s, k)
  <2>1. Cardinality(Ones(t, k + 1)) = Cardinality(Ones(s, k)) + IF x = 1 THEN 1 ELSE 0
    BY OnesPushed
  <2>2. Cardinality(Ones(s, k)) \in Int
    BY OnesFinite
  <2> QED
    BY <2>1, <2>2 DEF RightAt
<1>2. RightAt(n, l, s, 0) = n - l
  <2>1. Ones(s, 0) = {}
    BY DEF Ones
  <2> QED
    BY <2>1, FS_EmptySet DEF RightAt
<1>3. H[1] = G[0]
  <2>1. 0 \in 0 .. Len(t) /\ 1 \in 0 .. Len(t) /\ 0 \in 0 .. Len(s)
    BY <1>0
  <2>2. RightAt(n, m, t, 1) = n - l
    BY <1>1, <1>2, <2>1
  <2>3. H[0] = [i \in 1 .. n |-> v[i]]
    BY <2>1 DEF History, RowBefore
  <2>4. H[1] = [i \in 1 .. n |-> H[0][Back(n, n - l, x, i)]]
    <3>1. H[1] = RowBefore(H, v, n, m, t, 1)
      BY <2>1 DEF History
    <3> QED
      BY <1>0, <2>2, <3>1 DEF RowBefore
  <2>5. G[0] = [i \in 1 .. n |-> u[i]]
    BY <2>1 DEF History, RowBefore
  <2>6. \A i \in 1 .. n : H[0][Back(n, n - l, x, i)] = u[i]
    BY <2>3 DEF MovedBack
  <2> QED
    BY <2>4, <2>5, <2>6
<1>4. ASSUME NEW k \in 1 .. Len(s), H[k] = G[k - 1] PROVE H[k + 1] = G[k]
  <2>1. k + 1 \in 0 .. Len(t) /\ k \in 0 .. Len(s) /\ k # 0 /\ k + 1 # 0 /\ k + 1 - 1 = k
    BY <1>0
  <2>2. H[k + 1] = RowBefore(H, v, n, m, t, k + 1)
    BY <2>1 DEF History
  <2>3. G[k] = RowBefore(G, u, n, l, s, k)
    BY <2>1 DEF History
  <2>4. RowBefore(H, v, n, m, t, k + 1) =
          [i \in 1 .. n |-> H[k][Back(n, RightAt(n, m, t, k + 1), t[k + 1], i)]]
    BY <2>1 DEF RowBefore
  <2>5. RowBefore(G, u, n, l, s, k) = [i \in 1 .. n |-> G[k - 1][Back(n, RightAt(n, l, s, k), s[k], i)]]
    BY <2>1 DEF RowBefore
  <2>6. RightAt(n, m, t, k + 1) = RightAt(n, l, s, k) /\ t[k + 1] = s[k]
    BY <1>0, <1>1, <2>1
  <2> QED
    BY <1>4, <2>2, <2>3, <2>4, <2>5, <2>6
<1> DEFINE Bad == {k \in 0 .. Len(s) : H[k + 1] # G[k]}
<1>5. CASE Bad = {}
  BY <1>1, <1>5 DEF Shifted
<1>6. CASE Bad # {}
  <2>1. PICK k \in Bad : \A j \in Bad : ~ (j < k)
    <3>1. Bad \subseteq Nat
      BY <1>0
    <3> HIDE DEF Bad
    <3> QED
      BY <1>6, <3>1, Least
  <2>2. k \in 0 .. Len(s) /\ H[k + 1] # G[k]
    BY <2>1
  <2>3. k # 0
    BY <1>3, <2>2
  <2>4. k - 1 \in 0 .. Len(s) /\ k - 1 < k /\ k \in 1 .. Len(s) /\ k - 1 + 1 = k
    BY <1>0, <2>2, <2>3
  <2>5. H[k - 1 + 1] = G[k - 1]
    BY <2>1, <2>4
  <2> QED
    BY <1>4, <2>2, <2>4, <2>5
<1> QED
  BY <1>5, <1>6

-----------------------------------------------------------------------------

\* The answer k answers ago, and the answers before the last d, oldest first.
AnswerAt(G, n, l, s, k) == [order |-> G[k], right |-> RightAt(n, l, s, k), correct |-> s[k] # 0]

PastOf(G, n, l, s, d) == [k \in 1 .. Len(s) - d |-> AnswerAt(G, n, l, s, Len(s) - k + 1)]

\* A function on 1 .. L is a sequence, and so are its prefixes.
LEMMA FunctionSeq ==
  ASSUME NEW L \in Nat, NEW F, F = [k \in 1 .. L |-> F[k]]
  PROVE  \E S : F \in Seq(S) /\ Len(F) = L
<1> DEFINE S == {F[k] : k \in 1 .. L}
<1>1. F \in [1 .. L -> S]
  OBVIOUS
<1> HIDE DEF S
<1>2. F \in Seq(S) /\ Len(F) = L
  BY <1>1
<1> QED
  BY <1>2

LEMMA FunctionPrefix ==
  ASSUME NEW L \in Nat, NEW F, F = [k \in 1 .. L |-> F[k]], NEW m \in 0 .. L
  PROVE  SubSeq(F, 1, m) = [k \in 1 .. m |-> F[k]]
<1>1. PICK S : F \in Seq(S) /\ Len(F) = L
  BY FunctionSeq
<1>2. /\ SubSeq(F, 1, m) \in Seq(S) /\ Len(SubSeq(F, 1, m)) = m
      /\ \A i \in 1 .. m : SubSeq(F, 1, m)[i] = F[i]
  BY <1>1
<1> DEFINE P == SubSeq(F, 1, m)
<1>3. P = [k \in 1 .. m |-> P[k]]
  <2> HIDE DEF P
  <2>1. P \in Seq(S) /\ Len(P) = m /\ m \in Nat
    BY <1>2 DEF P
  <2> QED
    BY <2>1
<1> QED
  BY <1>2, <1>3

IsPushed(Q, P, o, r, x) == Q = Append(P, [order |-> o, right |-> r, correct |-> x # 0])

\* After an outcome is pushed, the answers are those before it and one more.
LEMMA PastPushed ==
  ASSUME NEW s, NEW x, NEW t, Pushed(s, x, t), NEW n, NEW l, NEW m, NEW G, NEW H,
         Shifted(G, n, l, s, H, m, t)
  PROVE  IsPushed(PastOf(H, n, m, t, 0), PastOf(G, n, l, s, 0), G[0], RightAt(n, l, s, 0), x)
<1>0. /\ s \in Seq(0 .. 2) /\ Len(s) \in Nat /\ Len(t) = Len(s) + 1 /\ t[1] = x
      /\ \A k \in 1 .. Len(s) : t[k + 1] = s[k]
  BY DEF Pushed
<1>1. ASSUME NEW k \in 1 .. Len(s) PROVE AnswerAt(H, n, m, t, k + 1) = AnswerAt(G, n, l, s, k)
  <2>1. k \in 0 .. Len(s)
    BY <1>0
  <2>2. H[k + 1] = G[k] /\ RightAt(n, m, t, k + 1) = RightAt(n, l, s, k) /\ t[k + 1] = s[k]
    BY <1>0, <2>1 DEF Shifted
  <2> QED
    BY <2>2 DEF AnswerAt
<1> DEFINE e == [order |-> G[0], right |-> RightAt(n, l, s, 0), correct |-> x # 0]
           P == PastOf(G, n, l, s, 0)
           Q == PastOf(H, n, m, t, 0)
<1>3. AnswerAt(H, n, m, t, 1) = e
  <2>1. 0 \in 0 .. Len(s) /\ 0 + 1 = 1
    BY <1>0
  <2>2. H[1] = G[0] /\ RightAt(n, m, t, 1) = RightAt(n, l, s, 0) /\ t[1] = x
    BY <1>0, <2>1 DEF Shifted
  <2> QED
    BY <2>2 DEF AnswerAt
<1> HIDE DEF e
<1>4. /\ P = [k \in 1 .. Len(s) |-> P[k]]
      /\ \A k \in 1 .. Len(s) : P[k] = AnswerAt(G, n, l, s, Len(s) - k + 1)
  BY <1>0 DEF PastOf
<1>5. /\ Q = [k \in 1 .. Len(s) + 1 |-> Q[k]]
      /\ \A k \in 1 .. Len(s) + 1 : Q[k] = AnswerAt(H, n, m, t, Len(s) + 1 - k + 1)
  BY <1>0 DEF PastOf
<1> HIDE DEF P, Q
<1>6. \A k \in 1 .. Len(s) : Q[k] = P[k]
  <2> TAKE k \in 1 .. Len(s)
  <2>1. /\ k \in 1 .. Len(s) + 1 /\ Len(s) + 1 - k + 1 = (Len(s) - k + 1) + 1
        /\ Len(s) - k + 1 \in 1 .. Len(s)
    BY <1>0
  <2> QED
    BY <1>1, <1>4, <1>5, <2>1
<1>7. Q[Len(s) + 1] = e
  <2>1. Len(s) + 1 \in 1 .. Len(s) + 1 /\ Len(s) + 1 - (Len(s) + 1) + 1 = 1
    BY <1>0
  <2> QED
    BY <1>3, <1>5, <2>1
<1>8. Q = Append(P, e)
  <2>1. PICK S : P \in Seq(S) /\ Len(P) = Len(s)
    BY <1>0, <1>4, FunctionSeq
  <2>2. PICK T : Q \in Seq(T) /\ Len(Q) = Len(s) + 1
    <3>1. PICK L \in Nat : L = Len(s) + 1
      BY <1>0
    <3>2. Q = [k \in 1 .. L |-> Q[k]]
      BY <1>5, <3>1
    <3>3. \E T : Q \in Seq(T) /\ Len(Q) = L
      BY <3>2, FunctionSeq
    <3> QED
      BY <3>1, <3>3
  <2> DEFINE U == (S \cup T) \cup {e}
             R == Append(P, e)
  <2>3. P \in Seq(U) /\ Q \in Seq(U) /\ e \in U
    BY <2>1, <2>2
  <2> HIDE DEF U
  <2>4. R \in Seq(U) /\ Len(R) = Len(s) + 1 /\ R[Len(s) + 1] = e /\ \A i \in 1 .. Len(s) : R[i] = P[i]
    BY <2>1, <2>3
  <2> HIDE DEF R
  <2>5. \A i \in 1 .. Len(s) + 1 : R[i] = Q[i]
    <3> TAKE i \in 1 .. Len(s) + 1
    <3>1. i \in 1 .. Len(s) \/ i = Len(s) + 1
      BY <1>0
    <3> QED
      BY <1>6, <1>7, <2>4, <3>1
  <2>6. R = Q
    BY <2>2, <2>3, <2>4, <2>5
  <2> QED
    BY <2>6 DEF R
<1> QED
  BY <1>8 DEF P, Q, e, IsPushed

\* The answers before the last one that is not popped are those before.
LEMMA PastPopped ==
  ASSUME NEW s, NEW x, NEW t, Pushed(s, x, t), NEW n, NEW l, NEW m, NEW G, NEW H,
         Shifted(G, n, l, s, H, m, t), NEW d \in 0 .. Len(s)
  PROVE  PastOf(H, n, m, t, d + 1) = PastOf(G, n, l, s, d)
<1>0. /\ s \in Seq(0 .. 2) /\ Len(s) \in Nat /\ Len(t) = Len(s) + 1 /\ t[1] = x
      /\ \A k \in 1 .. Len(s) : t[k + 1] = s[k]
  BY DEF Pushed
<1>1. ASSUME NEW k \in 1 .. Len(s) PROVE AnswerAt(H, n, m, t, k + 1) = AnswerAt(G, n, l, s, k)
  <2>1. k \in 0 .. Len(s)
    BY <1>0
  <2>2. H[k + 1] = G[k] /\ RightAt(n, m, t, k + 1) = RightAt(n, l, s, k) /\ t[k + 1] = s[k]
    BY <1>0, <2>1 DEF Shifted
  <2> QED
    BY <2>2 DEF AnswerAt
<1>2. Len(t) - (d + 1) = Len(s) - d
  BY <1>0
<1>3. ASSUME NEW k \in 1 .. Len(s) - d
      PROVE  AnswerAt(H, n, m, t, Len(t) - k + 1) = AnswerAt(G, n, l, s, Len(s) - k + 1)
  <2>1. Len(t) - k + 1 = (Len(s) - k + 1) + 1 /\ Len(s) - k + 1 \in 1 .. Len(s)
    BY <1>0
  <2> QED
    BY <1>1, <2>1
<1> QED
  BY <1>2, <1>3 DEF PastOf

LEMMA PastFacts ==
  ASSUME NEW G, NEW n, NEW l, NEW s \in Seq(0 .. 2), NEW d \in 0 .. Len(s)
  PROVE  /\ \E S : PastOf(G, n, l, s, d) \in Seq(S)
         /\ Len(PastOf(G, n, l, s, d)) = Len(s) - d
         /\ SubSeq(PastOf(G, n, l, s, 0), 1, Len(s) - d) = PastOf(G, n, l, s, d)
         /\ d # 0 => PastOf(G, n, l, s, 0)[Len(s) - d + 1] = AnswerAt(G, n, l, s, d)
<1> DEFINE P == PastOf(G, n, l, s, d)
           Q == PastOf(G, n, l, s, 0)
<1>0. Len(s) \in Nat /\ d \in Nat /\ d <= Len(s)
  OBVIOUS
<1>1. PICK L \in Nat : L = Len(s)
  BY <1>0
<1>2. PICK m \in 0 .. L : m = Len(s) - d /\ m \in Nat
  BY <1>0, <1>1
<1>3. P = [k \in 1 .. m |-> P[k]] /\ \A k \in 1 .. m : P[k] = AnswerAt(G, n, l, s, L - k + 1)
  BY <1>1, <1>2 DEF PastOf
<1>4. Q = [k \in 1 .. L |-> Q[k]] /\ \A k \in 1 .. L : Q[k] = AnswerAt(G, n, l, s, L - k + 1)
  BY <1>1 DEF PastOf
<1> HIDE DEF P, Q
<1>5. \E S : P \in Seq(S) /\ Len(P) = m
  BY <1>2, <1>3, FunctionSeq
<1>6. SubSeq(Q, 1, m) = [k \in 1 .. m |-> Q[k]]
  BY <1>4, FunctionPrefix
<1>7. SubSeq(Q, 1, m) = P
  <2>1. \A k \in 1 .. m : k \in 1 .. L
    BY <1>1, <1>2
  <2> QED
    BY <1>3, <1>4, <1>6, <2>1
<1>8. d # 0 => Q[Len(s) - d + 1] = AnswerAt(G, n, l, s, d)
  <2> SUFFICES ASSUME d # 0 PROVE Q[Len(s) - d + 1] = AnswerAt(G, n, l, s, d)
    OBVIOUS
  <2>1. L - d + 1 \in 1 .. L /\ L - (L - d + 1) + 1 = d
    BY <1>0, <1>1
  <2> QED
    BY <1>1, <1>4, <2>1
<1> QED
  BY <1>2, <1>5, <1>7, <1>8 DEF P, Q

-----------------------------------------------------------------------------

\* There is one history.
LEMMA HistoryUnique ==
  ASSUME NEW G, NEW H, NEW u, NEW n, NEW l, NEW s \in Seq(0 .. 2),
         History(G, u, n, l, s), History(H, u, n, l, s)
  PROVE  \A k \in 0 .. Len(s) : H[k] = G[k]
<1>0. Len(s) \in Nat
  OBVIOUS
<1>1. H[0] = G[0]
  <2>1. 0 \in 0 .. Len(s)
    BY <1>0
  <2>2. H[0] = RowBefore(H, u, n, l, s, 0) /\ G[0] = RowBefore(G, u, n, l, s, 0)
    BY <2>1 DEF History
  <2> QED
    BY <2>2 DEF RowBefore
<1>2. ASSUME NEW k \in 0 .. Len(s), k # 0, H[k - 1] = G[k - 1] PROVE H[k] = G[k]
  <2>1. H[k] = RowBefore(H, u, n, l, s, k) /\ G[k] = RowBefore(G, u, n, l, s, k)
    BY DEF History
  <2>2. RowBefore(H, u, n, l, s, k) = RowBefore(G, u, n, l, s, k)
    BY <1>2 DEF RowBefore
  <2> QED
    BY <2>1, <2>2
<1> DEFINE Bad == {k \in 0 .. Len(s) : H[k] # G[k]}
<1>3. CASE Bad = {}
  BY <1>3
<1>4. CASE Bad # {}
  <2>1. PICK k \in Bad : \A j \in Bad : ~ (j < k)
    <3>1. Bad \subseteq Nat
      BY <1>0
    <3> HIDE DEF Bad
    <3> QED
      BY <1>4, <3>1, Least
  <2>2. k \in 0 .. Len(s) /\ H[k] # G[k]
    BY <2>1
  <2>3. k # 0
    BY <1>1, <2>2
  <2>4. k - 1 \in 0 .. Len(s) /\ k - 1 < k
    BY <1>0, <2>2, <2>3
  <2>5. H[k - 1] = G[k - 1]
    BY <2>1, <2>4
  <2> QED
    BY <1>2, <2>2, <2>3, <2>5
<1> QED
  BY <1>3, <1>4

\* The answers depend on the rows of a history only.
LEMMA PastSame ==
  ASSUME NEW G, NEW H, NEW n, NEW l, NEW s \in Seq(0 .. 2), NEW d \in 0 .. Len(s),
         \A k \in 0 .. Len(s) : H[k] = G[k]
  PROVE  PastOf(H, n, l, s, d) = PastOf(G, n, l, s, d)
<1>1. ASSUME NEW k \in 1 .. Len(s) - d
      PROVE  AnswerAt(H, n, l, s, Len(s) - k + 1) = AnswerAt(G, n, l, s, Len(s) - k + 1)
  <2>1. Len(s) - k + 1 \in 0 .. Len(s)
    OBVIOUS
  <2> QED
    BY <2>1 DEF AnswerAt
<1> QED
  BY <1>1 DEF PastOf

-----------------------------------------------------------------------------

\* The conditions under which the refinement mapping has a closed form.
Well ==
  /\ stack \in Seq(0 .. 2) /\ Size \in Nat /\ todo \in 0 .. Len(stack) /\ len \in Int
  /\ Row = [i \in 1 .. Size |-> Row[i]]

LEMMA RowAgoFacts ==
  Well => /\ History(RowAgo, Row, Size, len, stack)
          /\ RowAgo[0] = Row
          /\ RightAt(Size, len, stack, 0) = Size - len
          /\ \A k \in 0 .. Len(stack) : OrderAgo(k) = RowAgo[k]
<1> SUFFICES ASSUME Well
             PROVE  /\ History(RowAgo, Row, Size, len, stack)
                    /\ RowAgo[0] = Row
                    /\ RightAt(Size, len, stack, 0) = Size - len
                    /\ \A k \in 0 .. Len(stack) : OrderAgo(k) = RowAgo[k]
  OBVIOUS
<1>1. History(RowAgo, Row, Size, len, stack)
  BY RowAgoIs DEF Well
<1>2. RowAgo[0] = Row
  <2>1. 0 \in 0 .. Len(stack)
    BY DEF Well
  <2> QED
    BY <1>1, <2>1 DEF History, RowBefore, Well
<1>3. RightAt(Size, len, stack, 0) = Size - len
  <2>1. Ones(stack, 0) = {}
    BY DEF Ones
  <2>2. Cardinality(Ones(stack, 0)) = 0
    BY <2>1, FS_EmptySet
  <2>3. Size \in Int /\ len \in Int
    BY DEF Well
  <2> QED
    BY <2>2, <2>3 DEF RightAt
<1>4. ASSUME NEW k \in 0 .. Len(stack) PROVE OrderAgo(k) = RowAgo[k]
  <2>1. PICK F : F = RowAgo[k]
    OBVIOUS
  <2>2. PICK n \in Nat : n = Size
    BY DEF Well
  <2>3. F = [i \in 1 .. n |-> F[i]]
    <3>1. F = RowBefore(RowAgo, Row, n, len, stack, k)
      BY <1>1, <2>1, <2>2 DEF History
    <3> QED
      BY <3>1 DEF RowBefore
  <2>4. n \in 0 .. n
    OBVIOUS
  <2>5. SubSeq(F, 1, n) = [i \in 1 .. n |-> F[i]]
    BY <2>3, <2>4, FunctionPrefix
  <2> QED
    BY <2>1, <2>2, <2>3, <2>5 DEF OrderAgo
<1> QED
  BY <1>1, <1>2, <1>3, <1>4

LEMMA QuizIs ==
  Well => /\ QuizOrder = RowAgo[todo]
          /\ QuizRight = RightAt(Size, len, stack, todo)
          /\ QuizPast = PastOf(RowAgo, Size, len, stack, todo)
<1> SUFFICES ASSUME Well
             PROVE  /\ QuizOrder = RowAgo[todo]
                    /\ QuizRight = RightAt(Size, len, stack, todo)
                    /\ QuizPast = PastOf(RowAgo, Size, len, stack, todo)
  OBVIOUS
<1>1. QuizOrder = RowAgo[todo]
  BY RowAgoFacts DEF Well, QuizOrder
<1>2. \A k : RightAgo(k) = RightAt(Size, len, stack, k)
  BY DEF RightAgo, RightAt, Ones
<1>3. \A k \in 0 .. Len(stack) : Answer(k) = AnswerAt(RowAgo, Size, len, stack, k)
  BY <1>2, RowAgoFacts DEF Answer, AnswerAt
<1> DEFINE F == [k \in 1 .. Len(stack) |-> Answer(Len(stack) - k + 1)]
<1>4. PICK L \in Nat : L = Len(stack)
  BY DEF Well
<1>5. PICK m \in 0 .. L : m = Len(stack) - todo
  BY <1>4 DEF Well
<1>6. F = [k \in 1 .. L |-> F[k]]
  BY <1>4
<1>7. \A k \in 1 .. m : F[k] = AnswerAt(RowAgo, Size, len, stack, Len(stack) - k + 1)
  <2> TAKE k \in 1 .. m
  <2>1. k \in 1 .. Len(stack) /\ Len(stack) - k + 1 \in 0 .. Len(stack)
    BY <1>4, <1>5
  <2> QED
    BY <1>3, <2>1
<1>8. QuizPast = SubSeq(F, 1, m)
  BY <1>5 DEF QuizPast
<1> HIDE DEF F
<1>9. SubSeq(F, 1, m) = [k \in 1 .. m |-> F[k]]
  BY <1>6, FunctionPrefix
<1>10. QuizPast = PastOf(RowAgo, Size, len, stack, todo)
  BY <1>5, <1>7, <1>8, <1>9 DEF PastOf
<1> QED
  BY <1>1, <1>2, <1>10 DEF QuizRight

LEMMA RowAgoFactsAfter ==
  (Well => /\ History(RowAgo, Row, Size, len, stack)
           /\ RowAgo[0] = Row
           /\ RightAt(Size, len, stack, 0) = Size - len
           /\ \A k \in 0 .. Len(stack) : OrderAgo(k) = RowAgo[k])'
<1>1. Well => /\ History(RowAgo, Row, Size, len, stack)
              /\ RowAgo[0] = Row
              /\ RightAt(Size, len, stack, 0) = Size - len
              /\ \A k \in 0 .. Len(stack) : OrderAgo(k) = RowAgo[k]
  BY RowAgoFacts
<1> QED
  BY <1>1, PTL

LEMMA QuizIsAfter ==
  (Well => /\ QuizOrder = RowAgo[todo]
           /\ QuizRight = RightAt(Size, len, stack, todo)
           /\ QuizPast = PastOf(RowAgo, Size, len, stack, todo))'
<1>1. Well => /\ QuizOrder = RowAgo[todo]
              /\ QuizRight = RightAt(Size, len, stack, todo)
              /\ QuizPast = PastOf(RowAgo, Size, len, stack, todo)
  BY QuizIs
<1> QED
  BY <1>1, PTL

\* The quiz is a function of the row, the focus and the stack; todo tells how
\* far back it is.
LEMMA QuizStays ==
  ASSUME Well, Well', Size' = Size, Row' = Row, len' = len, stack' = stack
  PROVE  /\ QuizOrder' = RowAgo[todo']
         /\ QuizRight' = RightAt(Size, len, stack, todo')
         /\ QuizPast' = PastOf(RowAgo, Size, len, stack, todo')
<1>1. PICK G, H, u, n, l, s, d :
        G = RowAgo /\ H = RowAgo' /\ u = Row /\ n = Size /\ l = len /\ s = stack /\ d = todo'
  OBVIOUS
<1>2. s \in Seq(0 .. 2) /\ d \in 0 .. Len(s)
  BY <1>1 DEF Well
<1>3. History(G, u, n, l, s)
  BY <1>1, RowAgoFacts
<1>4. History(H, u, n, l, s)
  <2>1. (History(RowAgo, Row, Size, len, stack))'
    BY RowAgoFactsAfter
  <2> QED
    BY <1>1, <2>1 DEF History, RowBefore, Back, RightAt
<1>5. \A k \in 0 .. Len(s) : H[k] = G[k]
  BY <1>2, <1>3, <1>4, HistoryUnique
<1>6. PastOf(H, n, l, s, d) = PastOf(G, n, l, s, d)
  BY <1>2, <1>5, PastSame
<1>7. QuizOrder' = H[d]
  BY <1>1, QuizIsAfter
<1>8. QuizRight' = RightAt(n, l, s, d)
  <2>1. QuizRight' = (RightAt(Size, len, stack, todo))'
    BY QuizIsAfter
  <2> QED
    BY <1>1, <2>1 DEF RightAt, Ones
<1>9. QuizPast' = PastOf(H, n, l, s, d)
  <2>1. QuizPast' = (PastOf(RowAgo, Size, len, stack, todo))'
    BY QuizIsAfter
  <2> QED
    BY <1>1, <2>1 DEF PastOf, AnswerAt, RightAt, Ones
<1> QED
  BY <1>1, <1>2, <1>5, <1>6, <1>7, <1>8, <1>9

\* An outcome is pushed: the quiz before is remembered.
LEMMA QuizPushed ==
  ASSUME Well, Well', todo = 0, todo' = 0, Size' = Size, NEW x, Pushed(stack, x, stack'),
         len = len' + (IF x = 1 THEN 1 ELSE 0),
         NEW u, u = Row, NEW v, v = Row', NEW n, n = Size, NEW r, r = Size - len,
         MovedBack(u, v, n, r, x)
  PROVE  /\ QuizOrder = Row /\ QuizRight = Size - len /\ Len(QuizPast) = Len(stack)
         /\ QuizOrder' = Row' /\ QuizRight' = Size - len'
         /\ QuizPast' = Append(QuizPast, [order |-> QuizOrder, right |-> QuizRight, correct |-> x # 0])
<1>1. PICK G, H, l, m, s, t :
        G = RowAgo /\ H = RowAgo' /\ l = len /\ m = len' /\ s = stack /\ t = stack'
  OBVIOUS
<1>2. /\ s \in Seq(0 .. 2) /\ t \in Seq(0 .. 2) /\ n \in Nat /\ l \in Int /\ m \in Int
      /\ l = m + (IF x = 1 THEN 1 ELSE 0) /\ Pushed(s, x, t) /\ r = n - l
      /\ u = [i \in 1 .. n |-> u[i]]
  BY <1>1 DEF Well
<1>3. History(G, u, n, l, s) /\ G[0] = u /\ RightAt(n, l, s, 0) = n - l
  BY <1>1, RowAgoFacts
<1>4. History(H, v, n, m, t) /\ H[0] = v /\ RightAt(n, m, t, 0) = n - m
  <2>1. (/\ History(RowAgo, Row, Size, len, stack) /\ RowAgo[0] = Row
         /\ RightAt(Size, len, stack, 0) = Size - len)'
    BY RowAgoFactsAfter
  <2> QED
    BY <1>1, <2>1
<1>5. MovedBack(u, v, n, n - l, x)
  BY <1>2
<1>6. Shifted(G, n, l, s, H, m, t)
  BY <1>2, <1>3, <1>4, <1>5, HistoryShift
<1>7. IsPushed(PastOf(H, n, m, t, 0), PastOf(G, n, l, s, 0), G[0], RightAt(n, l, s, 0), x)
  <2>1. Pushed(s, x, t)
    BY <1>2
  <2> QED
    BY <1>6, <2>1, PastPushed
<1>8. QuizOrder = G[0] /\ QuizRight = RightAt(n, l, s, 0) /\ QuizPast = PastOf(G, n, l, s, 0)
  BY <1>1, QuizIs
<1>9. QuizOrder' = H[0]
  BY <1>1, QuizIsAfter
<1>10. QuizRight' = RightAt(n, m, t, 0)
  <2>1. QuizRight' = (RightAt(Size, len, stack, todo))'
    BY QuizIsAfter
  <2> QED
    BY <1>1, <2>1 DEF RightAt, Ones
<1>11. QuizPast' = PastOf(H, n, m, t, 0)
  <2>1. QuizPast' = (PastOf(RowAgo, Size, len, stack, todo))'
    BY QuizIsAfter
  <2> QED
    BY <1>1, <2>1 DEF PastOf, AnswerAt, RightAt, Ones
<1>12. Len(PastOf(G, n, l, s, 0)) = Len(s)
  <2>1. 0 \in 0 .. Len(s) /\ Len(s) - 0 = Len(s)
    BY <1>2
  <2>2. Len(PastOf(G, n, l, s, 0)) = Len(s) - 0
    BY <1>2, <2>1, PastFacts
  <2> QED
    BY <2>1, <2>2
<1>13. QuizPast' = Append(QuizPast, [order |-> QuizOrder, right |-> QuizRight, correct |-> x # 0])
  BY <1>7, <1>8, <1>11 DEF IsPushed
<1> QED
  BY <1>1, <1>3, <1>4, <1>8, <1>9, <1>10, <1>12, <1>13

\* An outcome is popped: what was one answer further away is where it was.
LEMMA QuizPopped ==
  ASSUME Well, Well', todo > 0, todo' = todo - 1, Size' = Size, NEW x, Pushed(stack', x, stack),
         len' = len + (IF x = 1 THEN 1 ELSE 0),
         NEW u, u = Row', NEW v, v = Row, NEW n, n = Size, NEW r, r = Size - len',
         MovedBack(u, v, n, r, x)
  PROVE  UNCHANGED <<QuizOrder, QuizRight, QuizPast>>
<1>1. PICK G, H, l, m, s, t, d :
        G = RowAgo' /\ H = RowAgo /\ l = len' /\ m = len /\ s = stack' /\ t = stack /\ d = todo'
  OBVIOUS
<1>2. /\ s \in Seq(0 .. 2) /\ t \in Seq(0 .. 2) /\ n \in Nat /\ l \in Int /\ m \in Int
      /\ l = m + (IF x = 1 THEN 1 ELSE 0) /\ Pushed(s, x, t) /\ r = n - l
      /\ u = [i \in 1 .. n |-> u[i]] /\ d \in 0 .. Len(s) /\ todo = d + 1
  BY <1>1 DEF Well
<1>3. History(H, v, n, m, t)
  BY <1>1, RowAgoFacts
<1>4. History(G, u, n, l, s)
  <2>1. (History(RowAgo, Row, Size, len, stack))'
    BY RowAgoFactsAfter
  <2> QED
    BY <1>1, <2>1
<1>5. MovedBack(u, v, n, n - l, x)
  BY <1>2
<1>6. Shifted(G, n, l, s, H, m, t)
  BY <1>2, <1>3, <1>4, <1>5, HistoryShift
<1>7. PastOf(H, n, m, t, d + 1) = PastOf(G, n, l, s, d)
  <2>1. Pushed(s, x, t) /\ d \in 0 .. Len(s)
    BY <1>2
  <2> QED
    BY <1>6, <2>1, PastPopped
<1>8. QuizOrder = H[d + 1] /\ QuizRight = RightAt(n, m, t, d + 1) /\ QuizPast = PastOf(H, n, m, t, d + 1)
  BY <1>1, <1>2, QuizIs
<1>9. QuizOrder' = G[d]
  BY <1>1, QuizIsAfter
<1>10. QuizRight' = RightAt(n, l, s, d)
  <2>1. QuizRight' = (RightAt(Size, len, stack, todo))'
    BY QuizIsAfter
  <2> QED
    BY <1>1, <2>1 DEF RightAt, Ones
<1>11. QuizPast' = PastOf(G, n, l, s, d)
  <2>1. QuizPast' = (PastOf(RowAgo, Size, len, stack, todo))'
    BY QuizIsAfter
  <2> QED
    BY <1>1, <2>1 DEF PastOf, AnswerAt, RightAt, Ones
<1> QED
  BY <1>2, <1>6, <1>7, <1>8, <1>9, <1>10, <1>11 DEF Shifted

-----------------------------------------------------------------------------
(* The steps of the list are steps of the quiz. *)

QP ==
  INSTANCE QuizProofs WITH order <- QuizOrder, right <- QuizRight, past <- QuizPast, phase <- QuizPhase

\* No answers are left to take back when the list is freed.
Settled == phase \in {"destroy", "end"} => todo = 0

LEMMA WellIs == IInv /\ Settled => Well
<1> SUFFICES ASSUME IInv, Settled PROVE Well
  OBVIOUS
<1>1. Size \in Nat /\ Row \in [1 .. Size -> Node] /\ stack \in Seq(0 .. 2) /\ todo \in Nat
  BY DEF IInv, NodesOK, Ordered, RecallOK
<1>2. len \in Int
  BY <1>1 DEF IInv, FocusOK
<1>3. todo <= Len(stack)
  <2>1. CASE phase \in {"load", "quiz", "complete"}
    BY <2>1 DEF IInv, RecallOK
  <2>2. CASE phase \in {"destroy", "end"}
    BY <1>1, <2>2 DEF Settled
  <2> QED
    BY <2>1, <2>2 DEF IInv, AliveOK
<1> QED
  BY <1>1, <1>2, <1>3 DEF Well

LEMMA WellAfter == (IInv /\ Settled => Well)'
<1>1. IInv /\ Settled => Well
  BY WellIs
<1> QED
  BY <1>1, PTL

LEMMA EmptyPast ==
  ASSUME NEW G, NEW n, NEW l, NEW s, Len(s) = 0
  PROVE  PastOf(G, n, l, s, 0) = <<>>
<1> DEFINE P == PastOf(G, n, l, s, 0)
<1>1. P = [k \in 1 .. 0 |-> P[k]]
  BY DEF PastOf
<1> HIDE DEF P
<1>2. 0 \in Nat
  OBVIOUS
<1>3. PICK S : P \in Seq(S) /\ Len(P) = 0
  BY <1>1, <1>2, FunctionSeq
<1>4. P = <<>>
  BY <1>3
<1> QED
  BY <1>4 DEF P

LEMMA NothingPast == Well /\ Len(stack) = 0 => QuizPast = <<>> /\ todo = 0
<1> SUFFICES ASSUME Well, Len(stack) = 0 PROVE QuizPast = <<>> /\ todo = 0
  OBVIOUS
<1>1. todo = 0
  BY DEF Well
<1>2. PastOf(RowAgo, Size, len, stack, 0) = <<>>
  BY EmptyPast
<1> QED
  BY <1>1, <1>2, QuizIs

LEMMA NothingPastAfter == (Well /\ Len(stack) = 0 => QuizPast = <<>> /\ todo = 0)'
<1>1. Well /\ Len(stack) = 0 => QuizPast = <<>> /\ todo = 0
  BY NothingPast
<1> QED
  BY <1>1, PTL

\* The row and the place of the quiz when no revert is under way.
LEMMA QuizNow == Well /\ todo = 0 => QuizOrder = Row /\ QuizRight = Size - len
<1> QED
  BY QuizIs, RowAgoFacts

LEMMA QuizNowAfter == (Well /\ todo = 0 => QuizOrder = Row /\ QuizRight = Size - len)'
<1>1. Well /\ todo = 0 => QuizOrder = Row /\ QuizRight = Size - len
  BY QuizNow
<1> QED
  BY <1>1, PTL

\* The row is a sequence of terms.
LEMMA RowSeq == IInv => Row \in Seq(Term) /\ Len(Row) = Size /\ \A i \in 1 .. Size : Row[i] \in Node
<1> SUFFICES ASSUME IInv PROVE Row \in Seq(Term) /\ Len(Row) = Size /\ \A i \in 1 .. Size : Row[i] \in Node
  OBVIOUS
<1>1. PICK o, n : o = Row /\ n = Size /\ n \in Nat
  BY DEF IInv, NodesOK
<1>2. o \in [1 .. n -> Node] /\ Node \subseteq Term
  BY <1>1 DEF IInv, NodesOK, Ordered
<1>3. o \in [1 .. n -> Term]
  BY <1>2
<1>4. o \in Seq(Term) /\ Len(o) = n
  BY <1>1, <1>3
<1> QED
  BY <1>1, <1>2, <1>4

LEMMA RowSeqAfter == (IInv => Row \in Seq(Term) /\ Len(Row) = Size /\ \A i \in 1 .. Size : Row[i] \in Node)'
<1>1. IInv => Row \in Seq(Term) /\ Len(Row) = Size /\ \A i \in 1 .. Size : Row[i] \in Node
  BY RowSeq
<1> QED
  BY <1>1, PTL

LEMMA InitImplements == Init => Abstract!Init /\ Settled
<1> SUFFICES ASSUME Init PROVE Abstract!Init /\ Settled
  OBVIOUS
<1>1. IInv /\ Settled
  BY InitIInv DEF Init, Settled
<1>2. Well /\ Len(stack) = 0 /\ phase = "load" /\ len = 0 /\ Size = 0
  <2>1. Node = {}
    BY DEF Init, Node
  <2> QED
    BY <1>1, <2>1, WellIs, FS_EmptySet DEF Init, Size
<1>3. QuizPast = <<>> /\ todo = 0
  BY <1>2, NothingPast
<1>4. QuizOrder = Row /\ QuizRight = 0
  BY <1>2, <1>3, QuizNow
<1>5. Row = <<>>
  BY <1>1, <1>2, RowSeq
<1> QED
  BY <1>1, <1>2, <1>3, <1>4, <1>5 DEF Abstract!Init, QuizPhase

LEMMA InsertImplements ==
  ASSUME IInv, Settled, NEW t \in Term, NEW pos \in 0 .. len, Insert(t, pos)
  PROVE  Abstract!Insert(t, pos + 1) /\ pos + 1 \in 1 .. Len(QuizOrder) + 1 /\ Settled'
<1>1. /\ IInv' /\ Size' = Size + 1 /\ Row' = Inserted(Row, Size, pos, t)
      /\ pos \in 0 .. Size /\ t \notin Node /\ phase' = "load"
  BY InsertStep
<1>2. phase = "load" /\ len' = len + 1 /\ stack' = stack /\ todo' = todo
  BY DEF Insert, recall
<1>3. len = Size /\ Len(stack) = 0 /\ todo = 0 /\ Size \in Nat
  BY <1>2, LoadFacts
<1>4. Settled' /\ Well /\ Well'
  <2>1. Settled'
    BY <1>1 DEF Settled
  <2> QED
    BY <1>1, <2>1, WellIs, WellAfter
<1>5. QuizPast = <<>> /\ QuizOrder = Row /\ QuizRight = 0
  BY <1>3, <1>4, NothingPast, QuizNow
<1>6. QuizPast' = <<>> /\ QuizOrder' = Row' /\ QuizRight' = 0
  BY <1>1, <1>2, <1>3, <1>4, NothingPastAfter, QuizNowAfter
<1>7. PICK o, n, p, k : o = Row /\ n = Size /\ p = Row' /\ n \in Nat /\ k = pos + 1
  BY <1>3
<1>8. o \in Seq(Term) /\ Len(o) = n /\ pos \in 0 .. n /\ p = Inserted(o, n, pos, t) /\ \A i \in 1 .. n : o[i] # t
  BY <1>1, <1>7, RowSeq
<1>9. k \in 1 .. Len(o) + 1
  BY <1>7, <1>8
<1>10. QP!InsertAt(o, k, t) \in Seq(Term) /\ QP!HasInserted(QP!InsertAt(o, k, t), o, k, t)
  BY <1>8, <1>9, QP!InsertAtIs
<1>11. /\ Len(QP!InsertAt(o, k, t)) = Len(o) + 1
       /\ \A i \in 1 .. Len(o) + 1 :
            QP!InsertAt(o, k, t)[i] = IF i < k THEN o[i] ELSE IF i = k THEN t ELSE o[i - 1]
  BY <1>10 DEF QP!HasInserted
<1>12. p \in Seq(Term) /\ Len(p) = Len(o) + 1
  BY <1>1, <1>7, <1>8, RowSeqAfter
<1>13. \A i \in 1 .. Len(o) + 1 : p[i] = QP!InsertAt(o, k, t)[i]
  BY <1>7, <1>8, <1>11 DEF Inserted
<1>14. p = QP!InsertAt(o, k, t)
  <2>1. PICK q : q = QP!InsertAt(o, k, t)
    OBVIOUS
  <2>2. q \in Seq(Term) /\ Len(p) = Len(q) /\ \A i \in 1 .. Len(p) : p[i] = q[i]
    BY <1>10, <1>11, <1>12, <1>13, <2>1
  <2>3. p = q
    BY <1>12, <2>2, QP!SameSeq
  <2> QED
    BY <2>1, <2>3
<1>15. p = Abstract!InsertAt(o, k, t)
  BY <1>14 DEF QP!InsertAt, Abstract!InsertAt
<1>16. t \notin Abstract!Range(o)
  BY <1>8 DEF Abstract!Range
<1>17. QuizPhase = "load" /\ QuizPhase' = "load"
  BY <1>1, <1>2 DEF QuizPhase
<1>18. Abstract!Insert(t, pos + 1)
  BY <1>5, <1>6, <1>7, <1>15, <1>16, <1>17 DEF Abstract!Insert
<1> QED
  BY <1>4, <1>5, <1>7, <1>9, <1>18

\* Whatever happens without the list, the stack or todo being touched.
LEMMA NothingHappens ==
  ASSUME IInv, Settled, IInv', Settled', UNCHANGED <<links, stack, todo>>
  PROVE  UNCHANGED <<QuizOrder, QuizRight, QuizPast>>
<1>1. Size' = Size /\ Row' = Row /\ len' = len /\ stack' = stack /\ todo' = todo
  BY SameList DEF links
<1>2. Well /\ Well'
  BY WellIs, WellAfter
<1> QED
  BY <1>1, <1>2, QuizStays, QuizIs

LEMMA BeginImplements ==
  ASSUME IInv, Settled, Begin
  PROVE  (Abstract!Begin \/ Abstract!GiveUp) /\ Settled'
<1>1. /\ phase = "load" /\ phase' = (IF len = 0 THEN "end" ELSE "quiz")
      /\ UNCHANGED <<links, stack, todo>>
  BY DEF Begin, recall
<1>2. IInv'
  BY BeginStep
<1>3. todo = 0 /\ len = Size
  BY <1>1, LoadFacts
<1>4. Settled'
  BY <1>1, <1>3 DEF Settled
<1>5. UNCHANGED <<QuizOrder, QuizRight, QuizPast>>
  BY <1>1, <1>2, <1>4, NothingHappens
<1>6. CASE len = 0
  BY <1>1, <1>4, <1>5, <1>6 DEF Abstract!GiveUp, QuizPhase
<1>7. CASE len # 0
  <2>1. QuizOrder = Row
    BY <1>3, WellIs, QuizNow
  <2>2. Row \in Seq(Term) /\ Len(Row) = Size
    BY RowSeq
  <2>3. QuizOrder # <<>>
    BY <1>3, <1>7, <2>1, <2>2
  <2> QED
    BY <1>1, <1>4, <1>5, <1>7, <2>3 DEF Abstract!Begin, QuizPhase
<1> QED
  BY <1>6, <1>7

LEMMA RejectImplements ==
  ASSUME IInv, Settled, Reject
  PROVE  Abstract!GiveUp /\ Settled'
<1>1. phase = "load" /\ UNCHANGED <<links, stack, todo>>
  BY DEF Reject, recall
<1>2. IInv' /\ phase' \in {"destroy", "end"}
  BY RejectStep
<1>3. todo = 0
  BY <1>1, LoadFacts
<1>4. Settled'
  BY <1>1, <1>3 DEF Settled
<1>5. UNCHANGED <<QuizOrder, QuizRight, QuizPast>>
  BY <1>1, <1>2, <1>4, NothingHappens
<1> QED
  BY <1>1, <1>2, <1>4, <1>5 DEF Abstract!GiveUp, QuizPhase

LEMMA FinishImplements ==
  ASSUME IInv, Settled, Finish
  PROVE  Abstract!Finish /\ Settled'
<1>1. phase = "complete" /\ UNCHANGED links /\ stack' = <<>> /\ todo' = todo
  BY DEF Finish
<1>2. IInv' /\ phase' \in {"destroy", "end"}
  BY FinishStep
<1>3. todo = 0
  BY <1>1 DEF IInv, RecallOK
<1>4. Settled'
  BY <1>1, <1>3 DEF Settled
<1>5. Size' = Size /\ Row' = Row /\ len' = len
  BY <1>1, SameList
<1>6. Well /\ Well'
  BY <1>2, <1>4, WellIs, WellAfter
<1>7. (Len(stack))' = 0
  BY <1>1
<1>8. QuizPast' = <<>>
  BY <1>6, <1>7, NothingPastAfter
<1>9. QuizOrder' = QuizOrder /\ QuizRight' = QuizRight
  BY <1>1, <1>3, <1>5, <1>6, QuizNow, QuizNowAfter
<1> QED
  BY <1>1, <1>2, <1>4, <1>8, <1>9 DEF Abstract!Finish, QuizPhase

LEMMA DestroyImplements ==
  ASSUME IInv, Settled, DestroyStep \/ DestroyHead
  PROVE  UNCHANGED <<QuizOrder, QuizRight, QuizPast, QuizPhase>> /\ Settled'
<1>1. phase = "destroy" /\ phase' \in {"destroy", "end"} /\ UNCHANGED <<links, stack, todo>>
  BY DEF DestroyStep, DestroyHead, recall
<1>2. IInv'
  BY DestroyStepStep, DestroyHeadStep
<1>3. Settled'
  BY <1>1 DEF Settled
<1> QED
  BY <1>1, <1>2, <1>3, NothingHappens DEF QuizPhase

\* A number reverts the quiz, or, when it is none of those that can, does nothing.
LEMMA RevertImplements ==
  ASSUME IInv, Settled, NEW k \in Int, RevertBegin(k)
  PROVE  /\ \/ k \in 1 .. Len(QuizPast) /\ Abstract!Revert(k)
            \/ UNCHANGED <<QuizOrder, QuizRight, QuizPast, QuizPhase>>
         /\ Settled'
<1>1. /\ IInv' /\ Size' = Size /\ Row' = Row /\ len' = len /\ stack' = stack /\ phase' = phase
      /\ todo = 0 /\ todo' = IF k > Len(stack) \/ k < 0 THEN 0 ELSE k
  BY RevertBeginStep
<1>2. phase = "quiz"
  BY DEF RevertBegin
<1>3. Settled' /\ Well /\ Well'
  <2>1. Settled'
    BY <1>1, <1>2 DEF Settled
  <2> QED
    BY <1>1, <2>1, WellIs, WellAfter
<1>4. PICK G, n, l, s, d : G = RowAgo /\ n = Size /\ l = len /\ s = stack /\ d = todo'
  OBVIOUS
<1>5. QuizOrder' = G[d] /\ QuizRight' = RightAt(n, l, s, d) /\ QuizPast' = PastOf(G, n, l, s, d)
  BY <1>1, <1>3, <1>4, QuizStays
<1>6. QuizOrder = G[0] /\ QuizRight = RightAt(n, l, s, 0) /\ QuizPast = PastOf(G, n, l, s, 0)
  BY <1>1, <1>3, <1>4, QuizIs
<1>7. CASE d = 0
  BY <1>1, <1>3, <1>5, <1>6, <1>7 DEF QuizPhase
<1>8. CASE d # 0
  <2>1. s \in Seq(0 .. 2) /\ Len(s) \in Nat /\ d = k /\ d \in 0 .. Len(s) /\ k \in 1 .. Len(s)
    BY <1>1, <1>3, <1>4, <1>8 DEF Well
  <2>2. Len(QuizPast) = Len(s)
    <3>1. 0 \in 0 .. Len(s) /\ Len(s) - 0 = Len(s)
      BY <2>1
    <3>2. Len(PastOf(G, n, l, s, 0)) = Len(s) - 0
      BY <2>1, <3>1, PastFacts
    <3> QED
      BY <1>6, <3>1, <3>2
  <2>3. /\ SubSeq(PastOf(G, n, l, s, 0), 1, Len(s) - d) = PastOf(G, n, l, s, d)
        /\ PastOf(G, n, l, s, 0)[Len(s) - d + 1] = AnswerAt(G, n, l, s, d)
    BY <1>8, <2>1, PastFacts
  <2>4. Len(QuizPast) - k + 1 = Len(s) - d + 1 /\ (Len(QuizPast) - k + 1) - 1 = Len(s) - d
    BY <2>1, <2>2
  <2>5. QuizPast[Len(QuizPast) - k + 1] = AnswerAt(G, n, l, s, d)
    BY <1>6, <2>3, <2>4
  <2>6. SubSeq(QuizPast, 1, (Len(QuizPast) - k + 1) - 1) = QuizPast'
    BY <1>5, <1>6, <2>3, <2>4
  <2>7. /\ QuizOrder' = QuizPast[Len(QuizPast) - k + 1].order
        /\ QuizRight' = QuizPast[Len(QuizPast) - k + 1].right
    BY <1>5, <2>5 DEF AnswerAt
  <2>8. QuizPhase = "quiz" /\ QuizPhase' = "quiz"
    BY <1>1, <1>2 DEF QuizPhase
  <2>9. Abstract!Revert(k)
    BY <2>6, <2>7, <2>8 DEF Abstract!Revert
  <2> QED
    BY <1>3, <2>1, <2>2, <2>9
<1> QED
  BY <1>7, <1>8

\* The term in focus is the one that is asked.
LEMMA AskedIsFocus ==
  ASSUME IInv, Settled, phase = "quiz", todo = 0
  PROVE  /\ QuizOrder = Row /\ QuizRight = Size - len /\ Len(QuizPast) = slen /\ Len(stack) = slen
         /\ Row \in Seq(Term) /\ Len(Row) = Size /\ Size \in Nat /\ len \in 1 .. Size
         /\ Place = Size - len + 1 /\ Place \in 1 .. Size
         /\ Abstract!Asked = focus /\ (Abstract!AtLast <=> Place = Size)
<1>1. /\ Size \in Nat /\ len \in 1 .. Size /\ Place \in 1 .. Size /\ Place = Size - len + 1
      /\ focus = Row[Place] /\ slen = Len(stack)
  BY QuizFacts
<1>2. Well
  BY WellIs
<1>3. QuizOrder = Row /\ QuizRight = Size - len
  BY <1>2, QuizNow
<1>4. Row \in Seq(Term) /\ Len(Row) = Size
  BY RowSeq
<1>5. Len(QuizPast) = slen
  <2>1. PICK G, n, l, s : G = RowAgo /\ n = Size /\ l = len /\ s = stack
    OBVIOUS
  <2>2. s \in Seq(0 .. 2) /\ 0 \in 0 .. Len(s) /\ Len(s) - 0 = Len(s)
    BY <1>2, <2>1 DEF Well
  <2>3. Len(PastOf(G, n, l, s, 0)) = Len(s) - 0
    BY <2>2, PastFacts
  <2>4. QuizPast = PastOf(G, n, l, s, 0)
    BY <1>2, <2>1, QuizIs
  <2> QED
    BY <1>1, <2>1, <2>2, <2>3, <2>4
<1>6. Abstract!Asked = focus
  BY <1>1, <1>3 DEF Abstract!Asked
<1>7. Abstract!AtLast <=> Place = Size
  BY <1>1, <1>3, <1>4 DEF Abstract!AtLast
<1> QED
  BY <1>1, <1>3, <1>4, <1>5, <1>6, <1>7

LEMMA SubmitRightImplements ==
  ASSUME IInv, Settled, NEW w \in Word, SubmitRight(w)
  PROVE  Abstract!AnswerRight(w) /\ Settled'
<1>1. /\ phase = "quiz" /\ todo = 0 /\ slen < MaxAnswers /\ todo' = todo /\ w = Writing[focus]
  BY DEF SubmitRight, Asking, Push
<1>2. /\ IInv' /\ Size' = Size /\ Row' = Row
      /\ \/ Place = Size /\ Pushed(stack, 2, stack') /\ phase' = "complete" /\ len' = len
         \/ Place # Size /\ Pushed(stack, 1, stack') /\ phase' = "quiz" /\ len' = len - 1
  BY SubmitRightStep
<1>3. Settled' /\ Well /\ Well'
  <2>1. Settled'
    BY <1>2 DEF Settled
  <2> QED
    BY <1>2, <2>1, WellIs, WellAfter
<1>4. /\ QuizOrder = Row /\ QuizRight = Size - len /\ Len(QuizPast) = slen
      /\ Size \in Nat /\ len \in 1 .. Size
      /\ Abstract!Asked = focus /\ (Abstract!AtLast <=> Place = Size)
  BY <1>1, AskedIsFocus
<1>5. PICK x : /\ x = (IF Place = Size THEN 2 ELSE 1) /\ Pushed(stack, x, stack')
               /\ len = len' + (IF x = 1 THEN 1 ELSE 0) /\ x \in {1, 2}
  BY <1>2, <1>4
<1>6. PICK u, v, n, r : u = Row /\ v = Row' /\ n = Size /\ r = Size - len
  OBVIOUS
<1>7. MovedBack(u, v, n, r, x)
  BY <1>2, <1>5, <1>6 DEF MovedBack, Back
<1>8. /\ QuizOrder' = Row' /\ QuizRight' = Size - len'
      /\ QuizPast' = Append(QuizPast, [order |-> QuizOrder, right |-> QuizRight, correct |-> x # 0])
  BY <1>1, <1>2, <1>3, <1>5, <1>6, <1>7, QuizPushed
<1>9. Abstract!Remember(TRUE)
  <2>1. (x # 0) = TRUE
    BY <1>5
  <2> QED
    BY <1>8, <2>1 DEF Abstract!Remember
<1>10. QuizOrder' = QuizOrder
  BY <1>2, <1>4, <1>8
<1>11. IF Abstract!AtLast THEN QuizPhase' = "complete" /\ QuizRight' = QuizRight
                          ELSE QuizRight' = QuizRight + 1 /\ QuizPhase' = QuizPhase
  <2>1. CASE Place = Size
    BY <1>2, <1>4, <1>8, <2>1 DEF QuizPhase
  <2>2. CASE Place # Size
    BY <1>1, <1>2, <1>4, <1>8, <2>2 DEF QuizPhase
  <2> QED
    BY <2>1, <2>2
<1>12. QuizPhase = "quiz"
  BY <1>1 DEF QuizPhase
<1>13. Abstract!AnswerRight(w)
  BY <1>1, <1>4, <1>9, <1>10, <1>11, <1>12 DEF Abstract!AnswerRight
<1> QED
  BY <1>3, <1>13

LEMMA SubmitWrongImplements ==
  ASSUME IInv, Settled, NEW w \in Word, SubmitWrong(w)
  PROVE  Abstract!AnswerWrong(w) /\ Settled'
<1>1. /\ phase = "quiz" /\ todo = 0 /\ slen < MaxAnswers /\ todo' = todo /\ w # Writing[focus]
  BY DEF SubmitWrong, Asking, Push
<1>2. /\ IInv' /\ Size' = Size /\ phase' = "quiz" /\ len' = len /\ Pushed(stack, 0, stack')
      /\ Row' = IF Place = Size THEN Row ELSE ToEnd(Row, Size, Place)
  BY SubmitWrongStep
<1>3. Settled' /\ Well /\ Well'
  <2>1. Settled'
    BY <1>2 DEF Settled
  <2> QED
    BY <1>2, <2>1, WellIs, WellAfter
<1>4. /\ QuizOrder = Row /\ QuizRight = Size - len /\ Len(QuizPast) = slen
      /\ Row \in Seq(Term) /\ Len(Row) = Size /\ Size \in Nat /\ len \in 1 .. Size
      /\ Place = Size - len + 1 /\ Place \in 1 .. Size
      /\ Abstract!Asked = focus /\ (Abstract!AtLast <=> Place = Size)
  BY <1>1, AskedIsFocus
<1>5. PICK x, u, v, n, r, f : /\ x = 0 /\ u = Row /\ v = Row' /\ n = Size /\ r = Size - len
                              /\ f = Place
  OBVIOUS
<1>6. /\ u \in Seq(Term) /\ Len(u) = n /\ n \in Nat /\ f \in 1 .. n /\ r = f - 1
      /\ v = IF f = n THEN u ELSE ToEnd(u, n, f)
  BY <1>2, <1>4, <1>5
<1>7. MovedBack(u, v, n, r, x)
  <2> SUFFICES ASSUME NEW i \in 1 .. n
               PROVE  Back(n, r, x, i) \in 1 .. n /\ u[i] = v[Back(n, r, x, i)]
    BY DEF MovedBack
  <2>1. Back(n, r, x, i) = IF i < f THEN i ELSE IF i = f THEN n ELSE i - 1
    BY <1>5, <1>6 DEF Back
  <2>2. CASE i < f
    BY <1>6, <2>1, <2>2 DEF ToEnd
  <2>3. CASE i = f
    BY <1>6, <2>1, <2>3 DEF ToEnd
  <2>4. CASE i > f
    <3>1. Back(n, r, x, i) = i - 1 /\ i - 1 \in 1 .. n /\ ~ (i - 1 < f) /\ i - 1 < n /\ f # n /\ i - 1 + 1 = i
      BY <1>6, <2>1, <2>4
    <3> QED
      BY <1>6, <3>1 DEF ToEnd
  <2>5. i < f \/ i = f \/ i > f
    BY <1>6
  <2> QED
    BY <2>2, <2>3, <2>4, <2>5
<1>8. /\ QuizOrder' = Row' /\ QuizRight' = Size - len'
      /\ QuizPast' = Append(QuizPast, [order |-> QuizOrder, right |-> QuizRight, correct |-> x # 0])
  <2>1. Pushed(stack, x, stack') /\ len = len' + (IF x = 1 THEN 1 ELSE 0) /\ todo' = 0
    BY <1>1, <1>2, <1>4, <1>5
  <2> QED
    BY <1>1, <1>2, <1>3, <1>5, <1>7, <2>1, QuizPushed
<1>9. Abstract!Remember(FALSE)
  <2>1. (x # 0) = FALSE
    BY <1>5
  <2> QED
    BY <1>8, <2>1 DEF Abstract!Remember
<1>10. f # n => v = Abstract!ToBack(u, f)
  <2> SUFFICES ASSUME f # n PROVE v = Abstract!ToBack(u, f)
    OBVIOUS
  <2>1. PICK q : q = QP!ToBack(u, f)
    OBVIOUS
  <2>2. f \in 1 .. Len(u)
    BY <1>6
  <2>3. q \in Seq(Term) /\ QP!HasMoved(q, u, f)
    BY <1>6, <2>1, <2>2, QP!ToBackIs
  <2>4. /\ Len(q) = n
        /\ \A i \in 1 .. n : q[i] = IF i < f THEN u[i] ELSE IF i < n THEN u[i + 1] ELSE u[f]
    BY <1>6, <2>3 DEF QP!HasMoved
  <2>5. v \in Seq(Term) /\ Len(v) = n
    BY <1>2, <1>5, RowSeqAfter
  <2>6. \A i \in 1 .. n : v[i] = q[i]
    BY <1>6, <2>4 DEF ToEnd
  <2>7. v = q
    BY <2>3, <2>4, <2>5, <2>6, QP!SameSeq
  <2> QED
    BY <2>1, <2>7 DEF QP!ToBack, QP!RemoveAt, Abstract!ToBack, Abstract!RemoveAt
<1>11. QuizOrder' = IF Abstract!AtLast THEN QuizOrder ELSE Abstract!ToBack(QuizOrder, QuizRight + 1)
  <2>1. QuizRight + 1 = f /\ QuizOrder = u /\ QuizOrder' = v /\ (Abstract!AtLast <=> f = n)
    BY <1>4, <1>5, <1>8
  <2> QED
    BY <1>6, <1>10, <2>1
<1>12. QuizPhase = "quiz" /\ QuizPhase' = "quiz" /\ QuizRight' = QuizRight
  BY <1>1, <1>2, <1>4, <1>8 DEF QuizPhase
<1>13. Abstract!AnswerWrong(w)
  BY <1>1, <1>4, <1>9, <1>11, <1>12 DEF Abstract!AnswerWrong
<1> QED
  BY <1>3, <1>13

\* An iteration of test_revert: what it takes back has been taken back already.
LEMMA RevertStepImplements ==
  ASSUME IInv, Settled, RevertStep
  PROVE  UNCHANGED <<QuizOrder, QuizRight, QuizPast, QuizPhase>> /\ Settled'
<1>1. /\ IInv' /\ Size' = Size /\ phase' = "quiz" /\ phase = "quiz" /\ Pushed(stack', Head(stack), stack)
      /\ Head(stack) \in {0, 1} /\ todo > 0 /\ todo' = todo - 1
      /\ len' = IF Head(stack) = 1 THEN len + 1 ELSE len
      /\ Row' = IF Head(stack) = 1 \/ Place = Size THEN Row ELSE FromEnd(Row, Size, Place)
  BY RevertStepStep
<1>2. Settled' /\ Well /\ Well'
  <2>1. Settled'
    BY <1>1 DEF Settled
  <2> QED
    BY <1>1, <2>1, WellIs, WellAfter
<1>3. Size \in Nat /\ len \in 1 .. Size /\ Place \in 1 .. Size /\ Place = Size - len + 1
  BY <1>1, QuizFacts
<1>4. PICK x, u, v, n, r, f : /\ x = Head(stack) /\ u = Row' /\ v = Row /\ n = Size /\ r = Size - len'
                              /\ f = Place
  OBVIOUS
<1>5. /\ x \in {0, 1} /\ n \in Nat /\ f \in 1 .. n /\ (x = 0 => r = f - 1)
      /\ u = IF x = 1 \/ f = n THEN v ELSE FromEnd(v, n, f)
  BY <1>1, <1>3, <1>4
<1>6. MovedBack(u, v, n, r, x)
  <2> SUFFICES ASSUME NEW i \in 1 .. n
               PROVE  Back(n, r, x, i) \in 1 .. n /\ u[i] = v[Back(n, r, x, i)]
    BY DEF MovedBack
  <2>1. CASE x = 1
    BY <1>5, <2>1 DEF Back
  <2>2. CASE x = 0
    <3>1. Back(n, r, x, i) = IF i < f THEN i ELSE IF i = f THEN n ELSE i - 1
      BY <1>5, <2>2 DEF Back
    <3>2. CASE i < f
      BY <1>5, <2>2, <3>1, <3>2 DEF FromEnd
    <3>3. CASE i = f
      BY <1>5, <2>2, <3>1, <3>3 DEF FromEnd
    <3>4. CASE i > f
      <4>1. Back(n, r, x, i) = i - 1 /\ i - 1 \in 1 .. n /\ ~ (i < f) /\ i # f /\ f # n
        BY <1>5, <3>1, <3>4
      <4> QED
        BY <1>5, <2>2, <4>1 DEF FromEnd
    <3>5. i < f \/ i = f \/ i > f
      BY <1>5
    <3> QED
      BY <3>2, <3>3, <3>4, <3>5
  <2> QED
    BY <1>5, <2>1, <2>2
<1>7. UNCHANGED <<QuizOrder, QuizRight, QuizPast>>
  <2>1. Pushed(stack', x, stack) /\ len' = len + (IF x = 1 THEN 1 ELSE 0)
    BY <1>1, <1>3, <1>4
  <2> QED
    BY <1>1, <1>2, <1>4, <1>6, <2>1, QuizPopped
<1> QED
  BY <1>1, <1>2, <1>7 DEF QuizPhase

LEMMA StepImplements ==
  IInv /\ IInv' /\ Settled /\ [Next]_vars => [Abstract!Next]_(Abstract!vars) /\ Settled'
<1> SUFFICES ASSUME IInv, IInv', Settled, [Next]_vars
             PROVE  [Abstract!Next]_(Abstract!vars) /\ Settled'
  OBVIOUS
<1> DEFINE Goal == [Abstract!Next]_(Abstract!vars) /\ Settled'
<1>1. ASSUME NEW t \in Term, NEW pos \in 0 .. len, Insert(t, pos) PROVE Goal
  BY <1>1, InsertImplements DEF Abstract!Next
<1>2. CASE Begin
  BY <1>2, BeginImplements DEF Abstract!Next
<1>3. CASE Reject
  BY <1>3, RejectImplements DEF Abstract!Next
<1>4. ASSUME NEW w \in Word, SubmitRight(w) PROVE Goal
  BY <1>4, SubmitRightImplements DEF Abstract!Next
<1>5. ASSUME NEW w \in Word, SubmitWrong(w) PROVE Goal
  BY <1>5, SubmitWrongImplements DEF Abstract!Next
<1>6. ASSUME NEW k \in -1 .. MaxAnswers + 1, RevertBegin(k) PROVE Goal
  <2>1. k \in Int
    BY <1>6, MaxAnswersAssumption
  <2>2. /\ \/ k \in 1 .. Len(QuizPast) /\ Abstract!Revert(k)
           \/ UNCHANGED <<QuizOrder, QuizRight, QuizPast, QuizPhase>>
        /\ Settled'
    BY <1>6, <2>1, RevertImplements
  <2> QED
    BY <2>2 DEF Abstract!Next, Abstract!vars
<1>7. CASE RevertStep
  BY <1>7, RevertStepImplements DEF Abstract!vars
<1>8. CASE Finish
  BY <1>8, FinishImplements DEF Abstract!Next
<1>9. CASE DestroyStep \/ DestroyHead
  BY <1>9, DestroyImplements DEF Abstract!vars
<1>10. CASE UNCHANGED vars
  <2>1. UNCHANGED <<links, stack, todo>> /\ phase' = phase
    BY <1>10 DEF vars, recall
  <2>2. Settled'
    BY <2>1 DEF Settled
  <2>3. UNCHANGED <<QuizOrder, QuizRight, QuizPast>>
    BY <2>1, <2>2, NothingHappens
  <2> QED
    BY <2>1, <2>2, <2>3 DEF Abstract!vars, QuizPhase
<1> QED
  BY <1>1, <1>2, <1>3, <1>4, <1>5, <1>6, <1>7, <1>8, <1>9, <1>10 DEF Next

\* The list with its recall stack is the quiz that README.md:10 describes: a
\* right answer removes the term, a wrong one sends it to the back, and a
\* number restores the quiz of that many answers ago (memtwo.c:389-581).
THEOREM ImplementsThm == Spec => Implements
<1>1. Init => Abstract!Init /\ Settled
  BY InitImplements
<1>2. IInv /\ IInv' /\ Settled /\ [Next]_vars => [Abstract!Next]_(Abstract!vars) /\ Settled'
  BY StepImplements
<1> QED
  BY <1>1, <1>2, Invariance, PTL DEF Spec, Implements, Abstract!Spec

\* `Set complete' (memtwo.c:476) is reached only when every term was asked
\* and the last answer about it that was not taken back was right.
THEOREM AllKnownThm == Spec => []AllKnown
<1>1. Abstract!Init => QP!Init
  BY DEF Abstract!Init, QP!Init
<1>2. [Abstract!Next]_(Abstract!vars) => [QP!Next]_(QP!vars)
  BY DEF Abstract!Next, Abstract!vars, Abstract!Insert, Abstract!Begin, Abstract!GiveUp,
         Abstract!AnswerRight, Abstract!AnswerWrong, Abstract!Revert, Abstract!Finish,
         Abstract!Remember, Abstract!Asked, Abstract!AtLast, Abstract!ToBack,
         Abstract!Range, Abstract!InsertAt, Abstract!RemoveAt,
         QP!Next, QP!vars, QP!Insert, QP!Begin, QP!GiveUp,
         QP!AnswerRight, QP!AnswerWrong, QP!Revert, QP!Finish,
         QP!Remember, QP!Asked, QP!AtLast, QP!ToBack,
         QP!Range, QP!InsertAt, QP!RemoveAt
<1>3. QP!AllKnown => AllKnown
  BY DEF AllKnown, Abstract!AllKnown, Abstract!AskedAt, Abstract!Range, Abstract!Max,
         QP!AllKnown, QP!AskedAt, QP!Range, QP!Max
<1>4. QP!Spec => []QP!AllKnown
  BY QP!QuizInvariance
<1>5. Spec => Abstract!Spec
  BY ImplementsThm DEF Implements
<1> QED
  BY <1>1, <1>2, <1>3, <1>4, <1>5, PTL DEF Abstract!Spec, QP!Spec
=====================================================================================
