----------------------------- MODULE SharedListProofs -----------------------------
(***************************************************************************)
(* Proofs about SharedList, for every set of values and any number of      *)
(* pushes and reads: the segments that exist are those that the list       *)
(* links, none is left in the end, and the list is a stack.                *)
(*                                                                         *)
(* Nodes are numbered in the order of their creation, and pushes end       *)
(* before pops begin, so that every node points to the one pushed before   *)
(* it.  Chain, which follows the pointers, is then known in closed form.   *)
(***************************************************************************)
EXTENDS SharedList, FiniteSetTheorems, WellFoundedInduction, TLAPS

Segment == [dest : BOOLEAN, att : [Proc -> Nat]]
Table(s) == s \in [DOMAIN s -> Segment]

\* What the calls on segments do.
LEMMA Sweeps ==
  ASSUME NEW s, Table(s)
  PROVE  /\ Table(Sweep(s))
         /\ \A id : id \in DOMAIN Sweep(s) <=> id \in DOMAIN s /\ (~ s[id].dest \/ \E p \in Proc : s[id].att[p] > 0)
         /\ \A id \in DOMAIN Sweep(s) : Sweep(s)[id] = s[id]
BY DEF Sweep, Table

\* A new segment is neither marked nor attached.
LEMMA Creates ==
  ASSUME NEW s, Table(s), NEW id \in Nat
  PROVE  /\ Table(Created(s, id)) /\ DOMAIN Created(s, id) = DOMAIN s \cup {id}
         /\ Created(s, id)[id].dest = FALSE /\ \A p \in Proc : Created(s, id)[id].att[p] = 0
         /\ \A x \in DOMAIN s \ {id} : Created(s, id)[x] = s[x]
<1>1. Fresh \in Segment /\ Fresh.dest = FALSE /\ \A p \in Proc : Fresh.att[p] = 0
  BY DEF Fresh, Segment
<1> HIDE DEF Fresh
<1> QED
  BY <1>1 DEF Created, Table

\* An attachment counts only for the segment and the process.
LEMMA Attaches ==
  ASSUME NEW s, Table(s), NEW id \in DOMAIN s, NEW p \in Proc
  PROVE  /\ Table(Attached(s, id, p)) /\ DOMAIN Attached(s, id, p) = DOMAIN s
         /\ Attached(s, id, p)[id].dest = s[id].dest
         /\ Attached(s, id, p)[id].att[p] = s[id].att[p] + 1
         /\ \A q \in Proc \ {p} : Attached(s, id, p)[id].att[q] = s[id].att[q]
         /\ \A x \in DOMAIN s \ {id} : Attached(s, id, p)[x] = s[x]
<1>1. s[id] \in Segment /\ s[id].att \in [Proc -> Nat]
  BY DEF Segment, Table
<1> DEFINE a == [s[id].att EXCEPT ![p] = @ + 1]
           g == [s[id] EXCEPT !.att = a]
<1>2. a \in [Proc -> Nat] /\ a[p] = s[id].att[p] + 1 /\ \A q \in Proc \ {p} : a[q] = s[id].att[q]
  BY <1>1
<1>3. Attached(s, id, p) = [s EXCEPT ![id] = g]
  BY DEF Attached
<1> HIDE DEF a
<1>4. g \in Segment /\ g.dest = s[id].dest /\ g.att = a
  BY <1>1, <1>2 DEF Segment
<1> HIDE DEF g
<1> QED
  BY <1>2, <1>3, <1>4 DEF Table

\* Removed segments stay while they are attached, but marked.
LEMMA Removes ==
  ASSUME NEW s, Table(s), NEW ids
  PROVE  /\ Table(Removed(s, ids))
         /\ \A id : id \in DOMAIN Removed(s, ids) <=>
              /\ id \in DOMAIN s
              /\ (id \notin ids /\ ~ s[id].dest) \/ \E p \in Proc : s[id].att[p] > 0
         /\ \A id \in DOMAIN Removed(s, ids) :
              /\ Removed(s, ids)[id].att = s[id].att
              /\ id \in ids => Removed(s, ids)[id].dest
              /\ id \notin ids => Removed(s, ids)[id] = s[id]
<1> DEFINE m == [id \in DOMAIN s |-> IF id \in ids THEN [s[id] EXCEPT !.dest = TRUE] ELSE s[id]]
<1>1. Table(m) /\ DOMAIN m = DOMAIN s
  BY DEF Segment, Table
<1>2. \A id \in DOMAIN s : /\ m[id].att = s[id].att
                           /\ m[id].dest <=> (id \in ids \/ s[id].dest)
                           /\ id \notin ids => m[id] = s[id]
  BY DEF Segment, Table
<1>3. Removed(s, ids) = Sweep(m)
  BY DEF Removed
<1> HIDE DEF m
<1>4. /\ \A id : id \in DOMAIN Sweep(m) <=> id \in DOMAIN s /\ (~ m[id].dest \/ \E p \in Proc : m[id].att[p] > 0)
      /\ \A id \in DOMAIN Sweep(m) : Sweep(m)[id] = m[id]
      /\ Table(Sweep(m))
  BY <1>1, Sweeps
<1>5. \A id : id \in DOMAIN Sweep(m) <=> /\ id \in DOMAIN s
                                         /\ (id \notin ids /\ ~ s[id].dest) \/ \E p \in Proc : s[id].att[p] > 0
  BY <1>2, <1>4
<1>6. \A id \in DOMAIN Sweep(m) : /\ Sweep(m)[id].att = s[id].att
                                  /\ id \in ids => Sweep(m)[id].dest
                                  /\ id \notin ids => Sweep(m)[id] = s[id]
  BY <1>2, <1>4
<1> QED
  BY <1>3, <1>4, <1>5, <1>6

\* The same for the removal of all segments.
LEMMA RemovesAll ==
  ASSUME NEW s, Table(s), NEW r, r = Removed(s, DOMAIN s)
  PROVE  /\ Table(r)
         /\ \A id \in DOMAIN r : id \in DOMAIN s /\ r[id].att = s[id].att /\ r[id].dest
<1> DEFINE ids == DOMAIN s
<1>1. r = Removed(s, ids)
  OBVIOUS
<1> HIDE DEF ids
<1>2. /\ Table(r)
      /\ \A id : id \in DOMAIN r <=>
           /\ id \in DOMAIN s
           /\ (id \notin ids /\ ~ s[id].dest) \/ \E p \in Proc : s[id].att[p] > 0
      /\ \A id \in DOMAIN r : r[id].att = s[id].att /\ (id \in ids => r[id].dest)
  BY <1>1, Removes
<1> QED
  BY <1>2 DEF ids

\* A process that ends is detached from all segments.
LEMMA Ends ==
  ASSUME NEW s, Table(s), NEW p \in Proc
  PROVE  /\ Table(Ended(s, p))
         /\ \A id : id \in DOMAIN Ended(s, p) <=>
              id \in DOMAIN s /\ (~ s[id].dest \/ \E q \in Proc \ {p} : s[id].att[q] > 0)
         /\ \A id \in DOMAIN Ended(s, p) :
              /\ Ended(s, p)[id].dest = s[id].dest
              /\ \A q \in Proc : Ended(s, p)[id].att[q] = IF q = p THEN 0 ELSE s[id].att[q]
<1> DEFINE m == [id \in DOMAIN s |-> [s[id] EXCEPT !.att[p] = 0]]
<1>1. \A id \in DOMAIN s : s[id] \in Segment /\ s[id].att \in [Proc -> Nat]
  BY DEF Segment, Table
<1>2. ASSUME NEW id \in DOMAIN s
      PROVE  /\ m[id] \in Segment /\ m[id].dest = s[id].dest
             /\ \A q \in Proc : m[id].att[q] = IF q = p THEN 0 ELSE s[id].att[q]
  <2> DEFINE a == [s[id].att EXCEPT ![p] = 0]
  <2>1. a \in [Proc -> Nat] /\ \A q \in Proc : a[q] = IF q = p THEN 0 ELSE s[id].att[q]
    BY <1>1
  <2>2. m[id] = [s[id] EXCEPT !.att = a]
    OBVIOUS
  <2> HIDE DEF a, m
  <2>3. m[id] \in Segment /\ m[id].dest = s[id].dest /\ m[id].att = a
    BY <1>1, <2>1, <2>2 DEF Segment
  <2> QED
    BY <2>1, <2>3
<1>3. Table(m) /\ DOMAIN m = DOMAIN s
  BY <1>2 DEF Table
<1>4. Ended(s, p) = Sweep(m)
  BY DEF Ended
<1> HIDE DEF m
<1>5. ASSUME NEW id \in DOMAIN s
      PROVE  (\E q \in Proc : m[id].att[q] > 0) <=> \E q \in Proc \ {p} : s[id].att[q] > 0
  BY <1>1, <1>2, <1>5
<1>6. /\ \A id : id \in DOMAIN Sweep(m) <=> id \in DOMAIN s /\ (~ m[id].dest \/ \E q \in Proc : m[id].att[q] > 0)
      /\ \A id \in DOMAIN Sweep(m) : Sweep(m)[id] = m[id]
      /\ Table(Sweep(m))
  BY <1>3, Sweeps
<1>7. \A id : id \in DOMAIN Sweep(m) <=>
                id \in DOMAIN s /\ (~ s[id].dest \/ \E q \in Proc \ {p} : s[id].att[q] > 0)
  BY <1>2, <1>5, <1>6
<1>8. \A id \in DOMAIN Sweep(m) : /\ Sweep(m)[id].dest = s[id].dest
                                  /\ \A q \in Proc : Sweep(m)[id].att[q] = IF q = p THEN 0 ELSE s[id].att[q]
  BY <1>2, <1>6
<1> QED
  BY <1>4, <1>6, <1>7, <1>8

-----------------------------------------------------------------------------

\* The id of the k-th node pushed, and the number of the node at the head.
Id(k) == IF k = 0 THEN End ELSE k
Top == IF head = End THEN 0 ELSE head

Pushed == Cardinality(DOMAIN node)

ListOK ==
  /\ Pushed \in Nat /\ DOMAIN node = 1 .. Pushed
  /\ node \in [1 .. Pushed -> [value : Value, next_shm_id : Int]]
  /\ \A k \in 1 .. Pushed : node[k].next_shm_id = Id(k - 1)
  /\ head \in {End} \cup 1 .. Pushed

ProcsOK ==
  /\ child \in {"pushing", "ended"} /\ parent \in {"waiting", "reading", "ended", "crashed"}
  /\ child = "pushing" => parent = "waiting" /\ head = Id(Pushed) /\ List \in DOMAIN shm
  /\ parent \in {"ended", "crashed"} => DOMAIN shm = {}

\* Only the parent is ever left attached, and only to the list itself.
ShmOK ==
  /\ Table(shm)
  /\ \A id \in DOMAIN shm :
       /\ ~ shm[id].dest /\ shm[id].att["child"] = 0
       /\ id # List \/ parent = "waiting" => shm[id].att["parent"] = 0
  /\ DOMAIN shm = IF List \in DOMAIN shm THEN 0 .. Top ELSE {}
  /\ List \notin DOMAIN shm => head = End

IInv == ListOK /\ ProcsOK /\ ShmOK

-----------------------------------------------------------------------------

\* A set of natural numbers that is not empty has a least element.
LEMMA Least ==
  ASSUME NEW S, S \subseteq Nat, S # {}
  PROVE  \E x \in S : \A y \in S : ~ (y < x)
<1> DEFINE R == OpToRel(<, Nat)
<1>1. IsWellFoundedOn(R, Nat)
  BY NatLessThanWellFounded
<1>2. \A x, y \in Nat : <<y, x>> \in R <=> y < x
  BY DEF OpToRel
<1> HIDE DEF R
<1>3. PICK x \in S : \A y \in S : ~ (<<y, x>> \in R)
  BY <1>1, WFMin
<1> QED
  BY <1>2, <1>3

Countdown(k) == [j \in 1 .. k |-> k - j + 1]

\* A countdown continues with the next smaller number.
LEMMA CountdownStep ==
  ASSUME NEW k \in Nat \ {0}
  PROVE  <<k>> \o Countdown(k - 1) = Countdown(k)
<1>1. Countdown(k - 1) \in Seq(Nat) /\ Len(Countdown(k - 1)) = k - 1
  BY DEF Countdown
<1>2. \A j \in 1 .. k - 1 : Countdown(k - 1)[j] = k - 1 - j + 1
  BY DEF Countdown
<1> DEFINE s == <<k>> \o Countdown(k - 1)
<1>3. s \in Seq(Nat) /\ Len(s) = k
  BY <1>1
<1>4. \A j \in 1 .. k : s[j] = k - j + 1
  BY <1>1, <1>2
<1> QED
  BY <1>3, <1>4 DEF Countdown

\* The nodes behind the k-th one are those pushed before it, the last first.
LEMMA ChainIs ==
  ListOK => \A k \in 0 .. Pushed : Chain[Id(k)] = Countdown(k)
<1> SUFFICES ASSUME ListOK PROVE \A k \in 0 .. Pushed : Chain[Id(k)] = Countdown(k)
  OBVIOUS
<1> DEFINE S == {End} \cup DOMAIN node
           W == [id \in S |-> IF id = End THEN <<>> ELSE Countdown(id)]
<1>1. S = {End} \cup 1 .. Pushed /\ Pushed \in Nat
  BY DEF ListOK
<1>2. \A id \in 1 .. Pushed : Countdown(id) = <<id>> \o W[node[id].next_shm_id]
  <2> TAKE id \in 1 .. Pushed
  <2>1. node[id].next_shm_id = Id(id - 1) /\ id \in Nat \ {0}
    BY <1>1 DEF ListOK
  <2>2. W[Id(id - 1)] = Countdown(id - 1)
    <3>1. CASE id = 1
      BY <3>1 DEF Id, Countdown
    <3>2. CASE id # 1
      BY <1>1, <2>1, <3>2 DEF Id, End
    <3> QED
      BY <3>1, <3>2
  <2> HIDE DEF W
  <2>3. Countdown(id) = <<id>> \o Countdown(id - 1)
    BY <2>1, CountdownStep
  <2> QED
    BY <2>1, <2>2, <2>3
<1>3. W = [id \in S |-> IF id = End THEN <<>> ELSE <<id>> \o W[node[id].next_shm_id]]
  BY <1>1, <1>2
<1> HIDE DEF W
<1>4. Chain = [id \in S |-> IF id = End THEN <<>> ELSE <<id>> \o Chain[node[id].next_shm_id]]
  BY <1>3 DEF Chain
<1> DEFINE Bad == {k \in 0 .. Pushed : Chain[Id(k)] # Countdown(k)}
<1>5. SUFFICES ASSUME Bad # {} PROVE FALSE
  OBVIOUS
<1>6. PICK k \in Bad : \A j \in Bad : ~ (j < k)
  <2>1. Bad \subseteq Nat
    BY <1>1
  <2> HIDE DEF Bad
  <2> QED
    BY <1>5, <2>1, Least
<1>7. CASE k = 0
  BY <1>1, <1>4, <1>6, <1>7 DEF Id, Countdown
<1>8. CASE k # 0
  <2>1. k \in 1 .. Pushed /\ k - 1 \in 0 .. Pushed /\ Id(k) = k /\ k # End /\ k \in Nat \ {0}
    BY <1>1, <1>6, <1>8 DEF Id, End
  <2>2. Chain[Id(k - 1)] = Countdown(k - 1)
    BY <1>6, <2>1
  <2>3. Chain[k] = <<k>> \o Chain[Id(k - 1)]
    BY <1>1, <1>4, <2>1 DEF ListOK
  <2> QED
    BY <1>6, <2>1, <2>2, <2>3, CountdownStep
<1> QED
  BY <1>7, <1>8

\* The number of the node at the head, and the nodes that the list links.
LEMMA ListFacts ==
  ListOK => /\ Top \in 0 .. Pushed /\ head = Id(Top) /\ Chain[head] = Countdown(Top)
            /\ Len(Chain[head]) = Top /\ Nodes = 1 .. Top
<1> SUFFICES ASSUME ListOK
             PROVE  /\ Top \in 0 .. Pushed /\ head = Id(Top) /\ Chain[head] = Countdown(Top)
                    /\ Len(Chain[head]) = Top /\ Nodes = 1 .. Top
  OBVIOUS
<1>1. Top \in 0 .. Pushed /\ head = Id(Top) /\ Pushed \in Nat
  BY DEF ListOK, Top, Id, End
<1>2. Chain[head] = Countdown(Top)
  BY <1>1, ChainIs
<1>3. Countdown(Top) \in Seq(Int) /\ Len(Countdown(Top)) = Top
  BY <1>1 DEF Countdown
<1>4. \A x : x \in Nodes <=> x \in 1 .. Top
  <2>1. \A x : x \in Nodes <=> \E k \in 1 .. Top : x = Top - k + 1
    BY <1>2, <1>3 DEF Nodes, Countdown
  <2>2. ASSUME NEW x \in 1 .. Top PROVE \E k \in 1 .. Top : x = Top - k + 1
    <3>1. Top - x + 1 \in 1 .. Top /\ x = Top - (Top - x + 1) + 1
      BY <1>1
    <3> QED
      BY <3>1
  <2> QED
    BY <1>1, <2>1, <2>2
<1> QED
  BY <1>1, <1>2, <1>3, <1>4

\* The same after a step.
LEMMA ListFactsAfter ==
  ( ListOK => /\ Top \in 0 .. Pushed /\ head = Id(Top) /\ Chain[head] = Countdown(Top)
              /\ Len(Chain[head]) = Top /\ Nodes = 1 .. Top )'
BY ListFacts, PTL

-----------------------------------------------------------------------------

\* The invariant holds in the first state.
LEMMA InitIInv == Init => IInv
<1> SUFFICES ASSUME Init PROVE IInv
  OBVIOUS
<1>1. /\ shm = Created(<<>>, List) /\ head = End /\ node = <<>>
      /\ child \in {"pushing", "ended"} /\ parent = "waiting"
  BY DEF Init
<1>2. DOMAIN node = {} /\ 1 .. 0 = {} /\ Pushed = 0
  BY <1>1, FS_EmptySet DEF Pushed
<1>3. ListOK
  BY <1>1, <1>2 DEF ListOK
<1>4. Fresh \in Segment /\ Fresh.dest = FALSE /\ \A p \in Proc : Fresh.att[p] = 0
  BY DEF Fresh, Segment
<1>5. /\ DOMAIN shm = {List} /\ Table(shm)
      /\ shm[List].dest = FALSE /\ \A p \in Proc : shm[List].att[p] = 0
  <2>1. DOMAIN shm = {List} /\ shm[List] = Fresh
    BY <1>1 DEF Created
  <2>2. shm = [x \in DOMAIN shm |-> shm[x]]
    BY <1>1 DEF Created
  <2> QED
    BY <1>4, <2>1, <2>2 DEF Table
<1>6. ProcsOK
  BY <1>1, <1>2, <1>5 DEF ProcsOK, Id
<1>7. ShmOK
  <2>1. 0 .. 0 = {List} /\ Top = 0
    BY <1>1 DEF List, Top
  <2> QED
    BY <1>1, <1>5, <2>1, ProcAssumption DEF ShmOK
<1> QED
  BY <1>3, <1>6, <1>7 DEF IInv

\* A push creates one segment and links it at the head.
LEMMA PushStep ==
  ASSUME IInv, NEW v \in Value, Push(v)
  PROVE  /\ IInv' /\ Top = Pushed /\ Top' = Top + 1
         /\ \A k \in 1 .. Top : node'[k].value = node[k].value
         /\ node'[Top + 1].value = v
<1> DEFINE n == Pushed + 1
<1>1. /\ child = "pushing" /\ parent = "waiting" /\ head = Id(Pushed) /\ List \in DOMAIN shm
      /\ shm' = Created(shm, n) /\ node' = WithNode(n, v, head) /\ head' = n
      /\ UNCHANGED <<child, parent>>
  BY DEF Push, Pushed, IInv, ProcsOK
<1>2. Pushed \in Nat /\ DOMAIN node = 1 .. Pushed /\ DOMAIN node' = 1 .. n
      /\ node'[n] = [value |-> v, next_shm_id |-> head] /\ \A k \in 1 .. Pushed : node'[k] = node[k]
  BY <1>1 DEF IInv, ListOK, WithNode
<1>3. Pushed' = n
  BY <1>2, FS_Interval DEF Pushed
<1>4. Top = Pushed /\ Top' = n
  BY <1>1, <1>2 DEF Top, Id, End
<1>5. ListOK'
  <2>1. node' \in [1 .. n -> [value : Value, next_shm_id : Int]]
    BY <1>1, <1>2 DEF IInv, ListOK, WithNode, End
  <2>2. \A k \in 1 .. n : node'[k].next_shm_id = Id(k - 1)
    BY <1>1, <1>2 DEF IInv, ListOK, Id
  <2> QED
    BY <1>1, <1>2, <1>3, <2>1, <2>2 DEF ListOK, Id
<1>a. Table(shm)
  BY DEF IInv, ShmOK
<1>b. shm' = Created(shm, n) /\ n \in Nat
  BY <1>1, <1>2
<1> HIDE DEF n
<1>c. /\ DOMAIN shm' = DOMAIN shm \cup {n} /\ Table(shm')
      /\ shm'[n].dest = FALSE /\ \A p \in Proc : shm'[n].att[p] = 0
      /\ \A x \in DOMAIN shm \ {n} : shm'[x] = shm[x]
  BY ZenonT(60), <1>a, <1>b, Creates
<1>6. ShmOK'
  <2>2. DOMAIN shm' = 0 .. n
    <3>1. DOMAIN shm = 0 .. Pushed
      BY <1>1, <1>4 DEF IInv, ShmOK
    <3> QED
      BY <1>2, <1>c, <3>1 DEF n
  <2>3. \A id \in DOMAIN shm : ~ shm[id].dest /\ shm[id].att["child"] = 0 /\ shm[id].att["parent"] = 0
    BY <1>1 DEF IInv, ShmOK
  <2>4. \A id \in DOMAIN shm' : ~ shm'[id].dest /\ shm'[id].att["child"] = 0 /\ shm'[id].att["parent"] = 0
    BY <1>c, <2>3, ProcAssumption
  <2>5. List \in DOMAIN shm'
    BY <1>1, <1>c
  <2> QED
    BY <1>4, <1>c, <2>2, <2>4, <2>5 DEF ShmOK, Table
<1>7. ProcsOK'
  <2>1. List \in DOMAIN shm'
    BY <1>1, <1>c
  <2>2. head' = Id(Pushed)'
    BY <1>1, <1>2, <1>3 DEF Id, n
  <2> QED
    BY <1>1, <2>1, <2>2 DEF ProcsOK
<1> QED
  BY <1>2, <1>4, <1>5, <1>6, <1>7 DEF IInv, n

\* A process that destroys the list and ends takes all segments with it.
LEMMA DestroyAll ==
  ASSUME ListOK, NEW p \in Proc, NEW s, Table(s), DOMAIN s = 0 .. Top,
         \A id \in DOMAIN s : \A q \in Proc \ {p} : s[id].att[q] = 0
  PROVE  DOMAIN Ended(DestroyedNodes(s), p) = {} /\ Table(Ended(DestroyedNodes(s), p))
<1> DEFINE r == DestroyedNodes(s)
<1>1. r = Removed(s, DOMAIN s) /\ DOMAIN s \in SUBSET Nat
  <2>1. Top \in Nat /\ Nodes = 1 .. Top
    BY ListFacts DEF ListOK
  <2>2. Nodes \cup {List} = 0 .. Top
    BY <2>1 DEF List
  <2>3. DOMAIN s \in SUBSET Nat
    BY <2>1
  <2>4. r = Removed(s, DOMAIN s)
    BY <2>2 DEF DestroyedNodes
  <2> QED
    BY <2>3, <2>4
<1> HIDE DEF r
<1>3. /\ Table(r)
      /\ \A id \in DOMAIN r : id \in DOMAIN s /\ r[id].att = s[id].att /\ r[id].dest
  BY ZenonT(60), <1>1, RemovesAll
<1>4. /\ Table(Ended(r, p))
      /\ \A id : id \in DOMAIN Ended(r, p) <=> id \in DOMAIN r /\ (~ r[id].dest \/ \E q \in Proc \ {p} : r[id].att[q] > 0)
  BY <1>3, Ends
<1>5. \A id : id \notin DOMAIN Ended(r, p)
  BY <1>3, <1>4
<1> QED
  BY <1>4, <1>5 DEF r

\* Afterwards the invariant holds, whichever process it was.
LEMMA DestroyedInv ==
  ASSUME IInv, DOMAIN shm' = {}, Table(shm'), head' = End, UNCHANGED node,
         child' = "ended", parent' \in {"waiting", "reading", "ended", "crashed"}
  PROVE  IInv'
<1>1. ShmOK'
  BY DEF ShmOK
<1>2. ListOK' /\ ProcsOK'
  BY DEF IInv, ListOK, ProcsOK, Pushed
<1> QED
  BY <1>1, <1>2 DEF IInv

\* The child destroys the list when a push fails.
LEMMA PushFailsStep ==
  ASSUME IInv, PushFails
  PROVE  IInv' /\ DOMAIN shm' = {} /\ head' = End /\ List \in DOMAIN shm
<1>1. /\ child = "pushing" /\ parent = "waiting" /\ List \in DOMAIN shm
      /\ shm' = Ended(DestroyedNodes(Attached(shm, List, "child")), "child")
      /\ head' = End /\ child' = "ended" /\ UNCHANGED <<node, parent>>
  BY DEF PushFails, IInv, ProcsOK
<1> DEFINE s == Attached(shm, List, "child")
<1>a. Table(shm) /\ DOMAIN shm = 0 .. Top /\ "child" \in Proc
  BY <1>1, ProcAssumption DEF IInv, ShmOK
<1>2. /\ Table(s) /\ DOMAIN s = DOMAIN shm
      /\ \A q \in Proc \ {"child"} : s[List].att[q] = shm[List].att[q]
      /\ \A x \in DOMAIN shm \ {List} : s[x] = shm[x]
  BY ZenonT(60), <1>1, <1>a, Attaches
<1>3. \A id \in DOMAIN shm : \A q \in Proc \ {"child"} : s[id].att[q] = 0
  <2>1. \A id \in DOMAIN shm : shm[id].att["parent"] = 0
    BY <1>1 DEF IInv, ShmOK
  <2>2. \A q \in Proc \ {"child"} : q = "parent"
    BY ProcAssumption
  <2> QED
    BY <1>2, <2>1, <2>2
<1>4. shm' = Ended(DestroyedNodes(s), "child")
  BY <1>1
<1> HIDE DEF s
<1>5. DOMAIN shm' = {} /\ Table(shm')
  BY <1>a, <1>2, <1>3, <1>4, DestroyAll DEF IInv
<1> QED
  BY <1>1, <1>5, DestroyedInv

\* The parent destroys the list and ends.
LEMMA DestroyStep ==
  ASSUME IInv, parent = "reading", List \in DOMAIN shm, Destroy
  PROVE  IInv' /\ DOMAIN shm' = {} /\ head' = End
<1>1. /\ child = "ended" /\ shm' = Ended(DestroyedNodes(shm), "parent")
      /\ head' = End /\ parent' = "ended" /\ UNCHANGED <<node, child>>
  BY DEF Destroy, IInv, ProcsOK
<1>2. \A id \in DOMAIN shm : \A q \in Proc \ {"parent"} : shm[id].att[q] = 0
  BY ProcAssumption DEF IInv, ShmOK
<1>3. DOMAIN shm = 0 .. Top /\ Table(shm) /\ "parent" \in Proc
  BY ProcAssumption DEF IInv, ShmOK
<1>4. DOMAIN shm' = {} /\ Table(shm')
  BY <1>1, <1>2, <1>3, DestroyAll DEF IInv
<1> QED
  BY <1>1, <1>4, DestroyedInv

\* The child returns from main.
LEMMA ChildReturnsStep ==
  ASSUME IInv, ChildReturns
  PROVE  IInv' /\ DOMAIN shm' = DOMAIN shm
<1>1. /\ child = "pushing" /\ parent = "waiting" /\ shm' = Ended(shm, "child") /\ child' = "ended"
      /\ UNCHANGED <<head, node, parent>>
  BY DEF ChildReturns, IInv, ProcsOK
<1>2. "child" \in Proc /\ Table(shm) /\ \A id \in DOMAIN shm : ~ shm[id].dest
  BY ProcAssumption DEF IInv, ShmOK
<1>3. /\ Table(shm')
      /\ \A id : id \in DOMAIN shm' <=> id \in DOMAIN shm
      /\ \A id \in DOMAIN shm' : /\ shm'[id].dest = shm[id].dest
                              /\ \A q \in Proc : shm'[id].att[q] = IF q = "child" THEN 0 ELSE shm[id].att[q]
  BY <1>1, <1>2, Ends
<1>4. DOMAIN shm' = DOMAIN shm
  BY <1>3
<1>5. \A id \in DOMAIN shm : shm[id].att \in [Proc -> Nat]
  BY <1>2 DEF Segment, Table
<1>6. ShmOK'
  <2>1. \A id \in DOMAIN shm' : /\ ~ shm'[id].dest /\ shm'[id].att["child"] = 0
                                /\ shm'[id].att["parent"] = shm[id].att["parent"]
    BY <1>2, <1>3, <1>4, <1>5, ProcAssumption
  <2>2. \A id \in DOMAIN shm : shm[id].att["parent"] = 0
    BY <1>1 DEF IInv, ShmOK
  <2> QED
    BY <1>1, <1>3, <1>4, <2>1, <2>2 DEF IInv, ShmOK, Top
<1>7. ListOK' /\ ProcsOK'
  BY <1>1, <1>4 DEF IInv, ListOK, ProcsOK, Pushed
<1> QED
  BY <1>4, <1>6, <1>7 DEF IInv

\* The parent has waited for the child.
LEMMA WaitStep ==
  ASSUME IInv, Wait
  PROVE  IInv'
<1>1. parent = "waiting" /\ child = "ended" /\ parent' = "reading" /\ UNCHANGED <<shm, head, node, child>>
  BY DEF Wait
<1>2. ListOK' /\ ProcsOK'
  BY <1>1 DEF IInv, ListOK, ProcsOK, Pushed
<1>3. ShmOK'
  BY <1>1 DEF IInv, ShmOK, Top
<1> QED
  BY <1>2, <1>3 DEF IInv

\* A pop removes the segment of the node that it has unlinked.
LEMMA PopStep ==
  ASSUME IInv, Pop
  PROVE  IInv' /\ List \in DOMAIN shm' /\ Top \in Nat \ {0} /\ head = Top /\ Top' = Top - 1
<1>1. /\ parent = "reading" /\ List \in DOMAIN shm /\ head # End
      /\ head' = node[head].next_shm_id /\ shm' = Removed(shm, {head})
      /\ UNCHANGED <<node, child, parent>>
  BY DEF Pop, Reading
<1>2. Top \in 1 .. Pushed /\ head = Top /\ Pushed \in Nat /\ child = "ended"
  BY <1>1 DEF IInv, ListOK, ProcsOK, Top, End
<1>3. head' = Id(Top - 1) /\ Top' = Top - 1
  BY <1>1, <1>2 DEF IInv, ListOK, Top, Id, End
<1>4. ListOK'
  BY <1>1, <1>2, <1>3 DEF IInv, ListOK, Pushed, Id
<1>5. /\ Table(shm')
      /\ \A id : id \in DOMAIN shm' <=> id \in DOMAIN shm /\ id # head
      /\ \A id \in DOMAIN shm' : shm'[id] = shm[id]
  <2>1. Table(shm) /\ \A id \in DOMAIN shm : ~ shm[id].dest
    BY DEF IInv, ShmOK
  <2>2. \A p \in Proc : shm[head].att[p] = 0
    BY <1>1, <1>2, ProcAssumption DEF IInv, ShmOK, List
  <2>3. /\ Table(shm')
        /\ \A id : id \in DOMAIN shm' <=> /\ id \in DOMAIN shm
                                          /\ \/ id \notin {head} /\ ~ shm[id].dest
                                             \/ \E p \in Proc : shm[id].att[p] > 0
        /\ \A id \in DOMAIN shm' : id \notin {head} => shm'[id] = shm[id]
    BY <1>1, <1>2, <2>1, Removes
  <2> QED
    BY <2>1, <2>2, <2>3
<1>6. DOMAIN shm' = 0 .. Top - 1
  <2>1. DOMAIN shm = 0 .. Top /\ Top \in Nat
    BY <1>1, <1>2 DEF IInv, ShmOK
  <2>2. \A id : id \in 0 .. Top /\ id # Top <=> id \in 0 .. Top - 1
    BY <2>1
  <2>3. \A id : id \in DOMAIN shm' <=> id \in 0 .. Top - 1
    BY <1>2, <1>5, <2>1, <2>2
  <2> QED
    BY <2>3
<1>7. List \in DOMAIN shm'
  BY <1>2, <1>6 DEF List
<1>8. ShmOK'
  BY ZenonT(60), <1>1, <1>3, <1>5, <1>6, <1>7 DEF IInv, ShmOK
<1>9. ProcsOK'
  BY <1>1, <1>2 DEF IInv, ProcsOK
<1> QED
  BY <1>2, <1>3, <1>4, <1>7, <1>8, <1>9 DEF IInv

\* A lookup leaves the list attached.
LEMMA GetStep ==
  ASSUME IInv, NEW index, GetAtIndex(index)
  PROVE  IInv' /\ DOMAIN shm' = DOMAIN shm
<1>1. /\ parent = "reading" /\ List \in DOMAIN shm /\ shm' = Attached(shm, List, "parent")
      /\ UNCHANGED <<head, node, child, parent>>
  BY DEF GetAtIndex, Reading
<1>a. Table(shm) /\ "parent" \in Proc
  BY ProcAssumption DEF IInv, ShmOK
<1>2. /\ DOMAIN shm' = DOMAIN shm /\ Table(shm')
      /\ shm'[List].dest = shm[List].dest
      /\ \A q \in Proc \ {"parent"} : shm'[List].att[q] = shm[List].att[q]
      /\ \A x \in DOMAIN shm \ {List} : shm'[x] = shm[x]
  BY <1>1, <1>a, Attaches
<1>3. shm'[List].att["child"] = shm[List].att["child"]
  BY <1>2, ProcAssumption
<1>4. ShmOK'
  BY ZenonT(60), <1>1, <1>2, <1>3 DEF IInv, ShmOK, Top
<1>5. ListOK' /\ ProcsOK'
  BY <1>1, <1>2 DEF IInv, ListOK, ProcsOK, Pushed
<1> QED
  BY <1>2, <1>4, <1>5 DEF IInv

\* The parent crashes on a list that the child has destroyed.
LEMMA CrashStep ==
  ASSUME IInv, Crash
  PROVE  IInv' /\ DOMAIN shm' = {} /\ DOMAIN shm = {} /\ head = End
<1>1. /\ parent = "reading" /\ List \notin DOMAIN shm /\ shm' = Ended(shm, "parent") /\ parent' = "crashed"
      /\ UNCHANGED <<head, node, child>>
  BY DEF Crash
<1>2. DOMAIN shm = {} /\ head = End /\ child = "ended" /\ "parent" \in Proc /\ Table(shm)
  BY <1>1, ProcAssumption DEF IInv, ShmOK, ProcsOK
<1>3. Table(shm') /\ \A id : id \in DOMAIN shm' => id \in DOMAIN shm
  BY <1>1, <1>2, Ends
<1>4. DOMAIN shm' = {}
  BY <1>2, <1>3
<1> QED
  BY <1>1, <1>2, <1>3, <1>4, DestroyedInv

-----------------------------------------------------------------------------

\* The invariant survives every step.
LEMMA StepIInv == IInv /\ [Next]_vars => IInv'
<1> SUFFICES ASSUME IInv, [Next]_vars PROVE IInv'
  OBVIOUS
<1>1. CASE \E v \in Value : Push(v)
  BY <1>1, PushStep
<1>2. CASE PushFails
  BY <1>2, PushFailsStep
<1>3. CASE ChildReturns
  BY <1>3, ChildReturnsStep
<1>4. CASE Wait
  BY <1>4, WaitStep
<1>5. CASE Pop
  BY <1>5, PopStep
<1>6. CASE \E index \in -1 .. MaxPushes : GetAtIndex(index)
  BY <1>6, GetStep
<1>7. CASE \E index \in -1 .. MaxPushes : Complain(index)
  BY <1>7, DestroyStep DEF Complain, Reading
<1>8. CASE Finish
  BY <1>8, DestroyStep DEF Finish
<1>9. CASE Crash
  BY <1>9, CrashStep
<1>10. CASE UNCHANGED vars
  <2>1. UNCHANGED <<shm, head, node, child, parent>>
    BY <1>10 DEF vars
  <2>2. ListOK' /\ ProcsOK'
    BY <2>1 DEF IInv, ListOK, ProcsOK, Pushed
  <2>3. ShmOK'
    BY <2>1 DEF IInv, ShmOK, Top
  <2> QED
    BY <2>2, <2>3 DEF IInv
<1> QED
  BY <1>1, <1>2, <1>3, <1>4, <1>5, <1>6, <1>7, <1>8, <1>9, <1>10 DEF Next

LEMMA Invariance == Spec => []IInv
<1> QED
  BY InitIInv, StepIInv, PTL DEF Spec

\* While the list exists, the segments are its head and the nodes it links,
\* each once: no pop removes a segment that is still linked or leaves one
\* behind, in any order of pushes, pops, lookups and failures (shared_list.c:73-126).
THEOREM SegmentsAreLinkedThm == Spec => []SegmentsAreLinked
<1>1. IInv => SegmentsAreLinked
  <2> SUFFICES ASSUME IInv, List \in DOMAIN shm
               PROVE  DOMAIN shm = {List} \cup Nodes /\ Cardinality(Nodes) = Len(Chain[head])
    BY DEF SegmentsAreLinked
  <2>1. Top \in Nat /\ Len(Chain[head]) = Top /\ Nodes = 1 .. Top
    BY ListFacts DEF IInv, ListOK
  <2>2. DOMAIN shm = 0 .. Top
    BY DEF IInv, ShmOK
  <2>3. {List} \cup 1 .. Top = 0 .. Top
    BY <2>1 DEF List
  <2>4. Cardinality(1 .. Top) = Top
    BY <2>1, FS_Interval
  <2> QED
    BY <2>1, <2>2, <2>3, <2>4
<1> QED
  BY <1>1, Invariance, PTL

\* No segment is left when both processes have ended, whether they returned,
\* complained, failed to push or crashed (shared_list.c:32-56, 158-217).
THEOREM NoneLeftThm == Spec => []NoneLeft
<1>1. IInv => NoneLeft
  <2> SUFFICES ASSUME IInv, parent \in {"ended", "crashed"} PROVE shm = <<>>
    BY DEF NoneLeft
  <2>1. DOMAIN shm = {} /\ shm = [id \in DOMAIN shm |-> shm[id]]
    BY DEF IInv, ProcsOK, ShmOK, Table
  <2>2. shm = [id \in {} |-> shm[id]]
    BY <2>1
  <2>3. 1 .. 0 = {}
    OBVIOUS
  <2> QED
    BY <2>2, <2>3
<1> QED
  BY <1>1, Invariance, PTL

-----------------------------------------------------------------------------

\* The values on the list, the one pushed last first, as Abstract sees them.
Items == [k \in 1 .. Len(Chain[head]) |-> node[Chain[head][k]].value]

LEMMA ItemsAre ==
  ListOK => Items = [k \in 1 .. Top |-> node[Top - k + 1].value] /\ Items \in Seq(Value) /\ Len(Items) = Top
<1> SUFFICES ASSUME ListOK
             PROVE  /\ Items = [k \in 1 .. Top |-> node[Top - k + 1].value]
                    /\ Items \in Seq(Value) /\ Len(Items) = Top
  OBVIOUS
<1>1. /\ Top \in 0 .. Pushed /\ Pushed \in Nat /\ Chain[head] = Countdown(Top)
      /\ Len(Chain[head]) = Top
  BY ListFacts DEF ListOK
<1>2. Items = [k \in 1 .. Top |-> node[Top - k + 1].value]
  BY <1>1 DEF Items, Countdown
<1>3. \A k \in 1 .. Top : node[Top - k + 1].value \in Value
  BY <1>1 DEF ListOK
<1> QED
  BY <1>1, <1>2, <1>3

LEMMA ItemsAfter ==
  ( ListOK => Items = [k \in 1 .. Top |-> node[Top - k + 1].value] /\ Items \in Seq(Value) /\ Len(Items) = Top )'
BY ItemsAre, PTL

\* A push on the list is one on the stack.
LEMMA PushItems ==
  ASSUME IInv, NEW v \in Value, Push(v)
  PROVE  Items' = <<v>> \o Items /\ out' = out /\ List \in DOMAIN shm /\ List \in DOMAIN shm'
<1>1. /\ ListOK /\ ListOK' /\ Top' = Top + 1 /\ node'[Top + 1].value = v
      /\ \A k \in 1 .. Top : node'[k].value = node[k].value
  BY PushStep DEF IInv
<1>2. Top \in Nat
  BY <1>1, ListFacts DEF ListOK
<1>3. /\ Items = [k \in 1 .. Top |-> node[Top - k + 1].value] /\ Items \in Seq(Value) /\ Len(Items) = Top
      /\ Items' = [k \in 1 .. Top + 1 |-> node'[Top + 1 - k + 1].value]
      /\ Items' \in Seq(Value) /\ Len(Items') = Top + 1
  BY <1>1, ItemsAre, ItemsAfter
<1> DEFINE s == <<v>> \o Items
<1>4. s \in Seq(Value) /\ Len(s) = Top + 1 /\ s[1] = v /\ \A k \in 2 .. Top + 1 : s[k] = Items[k - 1]
  BY <1>2, <1>3
<1>5. \A k \in 1 .. Top + 1 : Items'[k] = s[k]
  <2>1. Items'[1] = v
    BY <1>1, <1>2, <1>3
  <2>2. ASSUME NEW k \in 2 .. Top + 1 PROVE Items'[k] = Items[k - 1]
    <3>1. Top + 1 - k + 1 \in 1 .. Top /\ k - 1 \in 1 .. Top /\ Top - (k - 1) + 1 = Top + 1 - k + 1
      BY <1>2
    <3> QED
      BY <1>1, <1>2, <1>3, <3>1
  <2> HIDE DEF s
  <2> QED
    BY <1>2, <1>4, <2>1, <2>2
<1> HIDE DEF s
<1>6. Items' = s
  BY <1>2, <1>3, <1>4, <1>5
<1>7. List \in DOMAIN shm /\ List \in DOMAIN shm' /\ out' = out
  BY PushStep DEF IInv, ProcsOK, ShmOK, Push
<1> QED
  BY <1>6, <1>7 DEF s

\* The tail of a sequence, and when two sequences are the same.
LEMMA Tails ==
  ASSUME NEW s \in Seq(Value), Len(s) \in Nat \ {0}
  PROVE  /\ s # <<>> /\ Head(s) = s[1] /\ Tail(s) \in Seq(Value) /\ Len(Tail(s)) = Len(s) - 1
         /\ \A k \in 1 .. Len(s) - 1 : Tail(s)[k] = s[k + 1]
OBVIOUS

LEMMA SameSeq ==
  ASSUME NEW s \in Seq(Value), NEW t \in Seq(Value), Len(s) = Len(t), \A k \in 1 .. Len(s) : s[k] = t[k]
  PROVE  s = t
OBVIOUS

\* A pop from the list is one from the stack.
LEMMA PopItems ==
  ASSUME IInv, Pop
  PROVE  /\ Items # <<>> /\ Items' = Tail(Items) /\ out' = <<0, Head(Items)>>
         /\ List \in DOMAIN shm /\ List \in DOMAIN shm'
<1>1. /\ ListOK /\ ListOK' /\ Top \in Nat \ {0} /\ head = Top /\ Top' = Top - 1
      /\ List \in DOMAIN shm' /\ List \in DOMAIN shm
      /\ node' = node /\ out' = <<0, node[head].value>>
  BY PopStep DEF IInv, Pop, Reading
<1>2. /\ Items = [k \in 1 .. Top |-> node[Top - k + 1].value] /\ Items \in Seq(Value) /\ Len(Items) = Top
      /\ Items' = [k \in 1 .. Top - 1 |-> node[Top - 1 - k + 1].value]
      /\ Items' \in Seq(Value) /\ Len(Items') = Top - 1
  BY <1>1, ItemsAre, ItemsAfter
<1> DEFINE s == Tail(Items)
<1>a. /\ Items # <<>> /\ Head(Items) = Items[1]
      /\ s \in Seq(Value) /\ Len(s) = Top - 1 /\ \A k \in 1 .. Top - 1 : s[k] = Items[k + 1]
  <2> HIDE DEF s
  <2>1. Items \in Seq(Value) /\ Len(Items) = Top /\ Top \in Nat \ {0}
    BY <1>1, <1>2
  <2> QED
    BY <2>1, Tails DEF s
<1>3. Items[1] = node[head].value
  <2>1. 1 \in 1 .. Top /\ Top - 1 + 1 = Top
    BY <1>1
  <2> QED
    BY <1>1, <1>2, <2>1
<1>5. \A k \in 1 .. Top - 1 : Items'[k] = Items[k + 1]
  <2> TAKE k \in 1 .. Top - 1
  <2>1. k + 1 \in 1 .. Top /\ Top - (k + 1) + 1 = Top - 1 - k + 1
    BY <1>1
  <2> QED
    BY <1>2, <2>1
<1> HIDE DEF s
<1>6. Items' = s
  <2>1. Items' \in Seq(Value) /\ s \in Seq(Value) /\ Len(Items') = Len(s) /\ Len(s) = Top - 1
    BY <1>2, <1>a
  <2>2. \A k \in 1 .. Top - 1 : Items'[k] = s[k]
    BY <1>a, <1>5
  <2> QED
    BY <2>1, <2>2, SameSeq
<1> QED
  BY <1>1, <1>3, <1>a, <1>6 DEF s

\* Nothing else changes the values, but the end of the list, which empties it.
LEMMA SameItems ==
  ASSUME UNCHANGED <<head, node>>
  PROVE  Items' = Items
<1>1. Chain' = Chain
  BY DEF Chain
<1> QED
  BY <1>1 DEF Items

LEMMA NoItems ==
  ASSUME IInv', head' = End
  PROVE  Items' = <<>>
<1>1. ListOK' /\ Top' = 0
  BY DEF IInv, Top
<1>2. Items' \in Seq(Value) /\ Len(Items') = 0
  BY <1>1, ItemsAfter
<1> QED
  BY <1>2

\* An abstract step closes the stack.
LEMMA Closes ==
  ASSUME List \in DOMAIN shm, IInv', DOMAIN shm' = {}, head' = End, out' = out
  PROVE  Abstract!Next
<1>1. List \notin DOMAIN shm'
  OBVIOUS
<1>2. Items' = <<>>
  BY NoItems
<1>3. Abstract!Close
  BY <1>1, <1>2 DEF Abstract!Close, Items
<1> QED
  BY <1>3 DEF Abstract!Next

\* The list exists as long as it did.
LEMMA Stutters ==
  ASSUME Items' = Items, out' = out, List \in DOMAIN shm' <=> List \in DOMAIN shm
  PROVE  UNCHANGED Abstract!vars
BY DEF Abstract!vars, Items

LEMMA InitAbstract == Init => Abstract!Init
<1> SUFFICES ASSUME Init PROVE Abstract!Init
  OBVIOUS
<1>1. IInv /\ Top = 0 /\ out = <<0, 0>>
  BY InitIInv DEF Init, Top
<1>2. Items = <<>>
  <2>1. Items \in Seq(Value) /\ Len(Items) = 0
    BY <1>1, ItemsAre DEF IInv
  <2> QED
    BY <2>1
<1>3. List \in DOMAIN shm
  BY DEF Init, Created
<1> QED
  BY <1>1, <1>2, <1>3 DEF Abstract!Init, Items

\* Every step of the two processes is one of the stack, or changes nothing of it.
LEMMA StepAbstract == IInv /\ [Next]_vars => [Abstract!Next]_(Abstract!vars)
<1> SUFFICES ASSUME IInv, [Next]_vars PROVE [Abstract!Next]_(Abstract!vars)
  OBVIOUS
<1>0. IInv'
  BY StepIInv
<1>1. CASE \E v \in Value : Push(v)
  <2>1. PICK v \in Value : Push(v)
    BY <1>1
  <2>2. Items' = <<v>> \o Items /\ out' = out /\ List \in DOMAIN shm /\ List \in DOMAIN shm'
    BY <2>1, PushItems
  <2>3. Abstract!Push(v)
    BY <2>2 DEF Abstract!Push, Items
  <2> QED
    BY <2>3 DEF Abstract!Next
<1>2. CASE PushFails
  <2>1. List \in DOMAIN shm /\ DOMAIN shm' = {} /\ head' = End /\ out' = out
    BY <1>2, PushFailsStep DEF PushFails
  <2> QED
    BY <1>0, <2>1, Closes
<1>3. CASE ChildReturns
  <2>1. DOMAIN shm' = DOMAIN shm /\ UNCHANGED <<head, node>> /\ out' = out
    BY <1>3, ChildReturnsStep DEF ChildReturns
  <2> QED
    BY <2>1, SameItems, Stutters
<1>4. CASE Wait
  <2>1. shm' = shm /\ UNCHANGED <<head, node>> /\ out' = out
    BY <1>4 DEF Wait
  <2> QED
    BY <2>1, SameItems, Stutters
<1>5. CASE Pop
  <2>1. /\ Items # <<>> /\ Items' = Tail(Items) /\ out' = <<0, Head(Items)>>
        /\ List \in DOMAIN shm /\ List \in DOMAIN shm'
    BY <1>5, PopItems
  <2>2. Abstract!Pop
    BY <2>1 DEF Abstract!Pop, Items
  <2> QED
    BY <2>2 DEF Abstract!Next
<1>6. CASE \E index \in -1 .. MaxPushes : GetAtIndex(index)
  <2>1. PICK index \in -1 .. MaxPushes : GetAtIndex(index)
    BY <1>6
  <2>2. /\ index \in Int /\ index >= 0 /\ index < Len(Chain[head]) /\ List \in DOMAIN shm
        /\ out' = <<index, node[Chain[head][index + 1]].value>> /\ UNCHANGED <<head, node>>
    BY <2>1, BoundsAssumption DEF GetAtIndex, Reading
  <2>3. DOMAIN shm' = DOMAIN shm
    BY <2>1, GetStep
  <2>4. Items' = Items
    BY <2>2, SameItems
  <2>5. Len(Chain[head]) = Top /\ Top \in Nat /\ Len(Items) = Top
    BY ListFacts, ItemsAre DEF IInv, ListOK
  <2>6. index + 1 \in 1 .. Len(Chain[head])
    BY <2>2, <2>5
  <2>7. out' = <<index, Items[index + 1]>>
    BY <2>2, <2>6 DEF Items
  <2>8. Abstract!Get(index)
    BY <2>2, <2>3, <2>4, <2>7 DEF Abstract!Get, Items
  <2>9. index \in 0 .. Len(Items) - 1
    BY <2>2, <2>5
  <2> QED
    BY <2>8, <2>9 DEF Abstract!Next, Items
<1>7. CASE \E index \in -1 .. MaxPushes : Complain(index)
  <2>1. List \in DOMAIN shm /\ DOMAIN shm' = {} /\ head' = End /\ out' = out
    BY <1>7, DestroyStep DEF Complain, Reading, Destroy
  <2> QED
    BY <1>0, <2>1, Closes
<1>8. CASE Finish
  <2>1. List \in DOMAIN shm /\ DOMAIN shm' = {} /\ head' = End /\ out' = out
    BY <1>8, DestroyStep DEF Finish, Destroy
  <2> QED
    BY <1>0, <2>1, Closes
<1>9. CASE Crash
  <2>1. DOMAIN shm' = {} /\ DOMAIN shm = {} /\ UNCHANGED <<head, node>> /\ out' = out
    BY <1>9, CrashStep DEF Crash
  <2> QED
    BY <2>1, SameItems, Stutters
<1>10. CASE UNCHANGED vars
  <2>1. shm' = shm /\ UNCHANGED <<head, node>> /\ out' = out
    BY <1>10 DEF vars
  <2> QED
    BY <2>1, SameItems, Stutters
<1> QED
  BY <1>1, <1>2, <1>3, <1>4, <1>5, <1>6, <1>7, <1>8, <1>9, <1>10 DEF Next

\* Across the two processes and the failures of both, the list is a stack:
\* a value popped is the one pushed last, and a lookup counts from the top.
THEOREM ImplementsThm == Spec => Implements
<1> QED
  BY InitAbstract, StepAbstract, Invariance, PTL DEF Spec, Implements, Abstract!Spec
==================================================================================
