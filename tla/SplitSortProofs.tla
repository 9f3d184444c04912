----------------------------- MODULE SplitSortProofs -----------------------------
(***************************************************************************)
(* Proofs about SplitSort: for every number and every set of values, an    *)
(* array with no segment left to work on is sorted, and always holds       *)
(* exactly the elements of the input.                                      *)
(***************************************************************************)
EXTENDS SplitSort, TLAPS

\* Exchanging two elements of an array gives an array of the same type.
LEMMA ExchangedType ==
  ASSUME NEW a \in [Index -> Value], NEW p \in Index, NEW q \in Index
  PROVE  /\ Exchanged(a, p, q) \in [Index -> Value]
         /\ \A x \in Index : Exchanged(a, p, q)[x] =
              IF x = q THEN a[p] ELSE IF x = p THEN a[q] ELSE a[x]
BY DEF Exchanged

\* Segments are intervals of the index set.
LEMMA SegmentFacts ==
  ASSUME NEW s \in Segment
  PROVE  /\ s.lo \in Index /\ s.hi \in Index /\ s.lo < s.hi
         /\ In(s) \subseteq Index
BY NAssumption DEF Segment, In, Index

\* The pieces of the index set are segments.
LEMMA PieceFacts ==
  ASSUME NEW l \in Int, NEW h \in Int, l >= 0, h <= N - 1
  PROVE  /\ Piece(l, h) \subseteq Segment
         /\ \A t \in Piece(l, h) : t.lo = l /\ t.hi = h /\ l < h
         /\ l < h => \E t \in Piece(l, h) : t.lo = l /\ t.hi = h
         /\ \A t, u \in Piece(l, h) : t = u
<1> DEFINE r == [lo |-> l, hi |-> h]
<1>1. CASE l < h
  <2>1. r \in Segment
    BY <1>1, NAssumption DEF Segment, Index
  <2>2. Piece(l, h) = {r} /\ r.lo = l /\ r.hi = h
    BY <1>1 DEF Piece
  <2> HIDE DEF r
  <2> QED
    BY <1>1, <2>1, <2>2
<1>2. CASE ~ (l < h)
  BY <1>2 DEF Piece
<1> QED
  BY <1>1, <1>2

\* The initial states satisfy the invariant: one segment holds every pair.
LEMMA InitIInv == Init => IInv
<1> SUFFICES ASSUME Init PROVE IInv
  OBVIOUS
<1>1. Piece(0, N - 1) \subseteq Segment
  BY PieceFacts, NAssumption
<1>2. TypeOK
  BY <1>1 DEF Init, TypeOK
<1>3. Disjoint
  <2>1. \A t, u \in Piece(0, N - 1) : t = u
    BY PieceFacts, NAssumption
  <2> QED
    BY <2>1 DEF Init, Disjoint
<1>4. Ordered
  <2> SUFFICES ASSUME NEW a \in Index, NEW b \in Index, a < b
               PROVE  \E s \in work : a \in In(s) /\ b \in In(s)
    BY DEF Ordered
  <2>1. 0 < N - 1
    BY NAssumption DEF Index
  <2>2. PICK t \in work : t.lo = 0 /\ t.hi = N - 1
    BY <2>1, PieceFacts, NAssumption DEF Init
  <2> QED
    BY <2>2, NAssumption DEF In, Index
<1> QED
  BY <1>2, <1>3, <1>4 DEF IInv

\* Exchanging two elements of one segment keeps every pair ordered that no
\* segment holds: a pair with one end in the segment has its other end
\* outside it, and every element of the segment is ordered with that one.
LEMMA ExchangeOrdered ==
  ASSUME IInv, NEW s \in work, NEW p \in In(s), NEW q \in In(s),
         NEW a \in Index, NEW b \in Index, a < b,
         \A t \in work : ~ (a \in In(t) /\ b \in In(t))
  PROVE  Exchanged(arr, p, q)[a] <= Exchanged(arr, p, q)[b]
<1> DEFINE e == Exchanged(arr, p, q)
<1>1. s \in Segment /\ work \subseteq Segment
  BY DEF IInv, TypeOK
<1>2. In(s) \subseteq Index /\ s.lo \in Int /\ s.hi \in Int
  BY <1>1, SegmentFacts, NAssumption DEF Index
<1>3. \A x \in Index : e[x] = IF x = q THEN arr[p] ELSE IF x = p THEN arr[q] ELSE arr[x]
  BY <1>2, ExchangedType DEF IInv, TypeOK
<1>4. arr \in [Index -> Int]
  BY ValueAssumption DEF IInv, TypeOK
<1>5. \A x \in Index : x \notin In(s) => e[x] = arr[x]
  BY <1>3
<1>6. \A x \in In(s) : \E y \in In(s) : e[x] = arr[y]
  BY <1>2, <1>3
<1>7. CASE a \notin In(s) /\ b \notin In(s)
  BY <1>5, <1>7 DEF IInv, Ordered
<1>8. CASE a \in In(s)
  <2>1. b \notin In(s) /\ b > s.hi
    BY <1>8, <1>2, NAssumption DEF In, Index
  <2>2. PICK y \in In(s) : e[a] = arr[y]
    BY <1>6, <1>8
  <2>3. y \in Index /\ y < b
    BY <1>2, <2>1, NAssumption DEF In, Index
  <2>4. \A t \in work : ~ (y \in In(t) /\ b \in In(t))
    <3> SUFFICES ASSUME NEW t \in work, y \in In(t), b \in In(t) PROVE FALSE
      OBVIOUS
    <3>1. t = s
      BY <1>1, SegmentFacts, <1>2, NAssumption DEF IInv, Disjoint, In, Index
    <3> QED
      BY <3>1, <2>1
  <2>5. arr[y] <= arr[b]
    BY <2>3, <2>4 DEF IInv, Ordered
  <2> QED
    BY <2>1, <2>2, <2>5, <1>5
<1>9. CASE b \in In(s)
  <2>1. a \notin In(s) /\ a < s.lo
    BY <1>9, <1>2, NAssumption DEF In, Index
  <2>2. PICK y \in In(s) : e[b] = arr[y]
    BY <1>6, <1>9
  <2>3. y \in Index /\ a < y
    BY <1>2, <2>1, NAssumption DEF In, Index
  <2>4. \A t \in work : ~ (a \in In(t) /\ y \in In(t))
    <3> SUFFICES ASSUME NEW t \in work, a \in In(t), y \in In(t) PROVE FALSE
      OBVIOUS
    <3>1. t = s
      BY <1>1, SegmentFacts, <1>2, NAssumption DEF IInv, Disjoint, In, Index
    <3> QED
      BY <3>1, <2>1
  <2>5. arr[a] <= arr[y]
    BY <2>3, <2>4 DEF IInv, Ordered
  <2> QED
    BY <2>1, <2>2, <2>5, <1>5
<1> QED
  BY <1>7, <1>8, <1>9

\* An exchange within a segment preserves the invariant.
LEMMA ExchangeIInv ==
  ASSUME IInv, NEW s \in work, NEW p \in In(s), NEW q \in In(s), Exchange(s, p, q)
  PROVE  IInv'
<1>1. p \in Index /\ q \in Index
  BY SegmentFacts DEF IInv, TypeOK
<1>2. TypeOK'
  BY <1>1, ExchangedType DEF IInv, TypeOK, Exchange
<1>3. Disjoint'
  BY DEF IInv, Disjoint, Exchange
<1>4. Ordered'
  BY ExchangeOrdered DEF Exchange, Ordered, In
<1> QED
  BY <1>2, <1>3, <1>4 DEF IInv

\* Splitting a segment at a separating element preserves the invariant: a
\* pair that the two pieces no longer hold together has that element between
\* its ends.
LEMMA SplitIInv ==
  ASSUME IInv, NEW s \in work, NEW p \in In(s), NEW q \in In(s), Split(s, p, q)
  PROVE  IInv'
<1> DEFINE L == Piece(s.lo, p - 1)
           R == Piece(p + 1, s.hi)
<1>0. s \in Segment /\ work \subseteq Segment
  BY DEF IInv, TypeOK
<1>1. /\ p \in Index /\ q \in Index
      /\ s.lo \in Int /\ s.hi \in Int /\ 0 <= s.lo /\ s.lo <= p /\ p <= s.hi /\ s.hi <= N - 1
      /\ p \in Int
  BY <1>0, SegmentFacts, NAssumption DEF In, Index
<1>2. L \subseteq Segment /\ R \subseteq Segment
  BY <1>1, PieceFacts, NAssumption
<1>L. /\ \A t \in L : t.lo = s.lo /\ t.hi = p - 1
      /\ s.lo < p - 1 => \E t \in L : t.lo = s.lo /\ t.hi = p - 1
  BY <1>1, PieceFacts, NAssumption
<1>R. /\ \A t \in R : t.lo = p + 1 /\ t.hi = s.hi
      /\ p + 1 < s.hi => \E t \in R : t.lo = p + 1 /\ t.hi = s.hi
  BY <1>1, PieceFacts, NAssumption
<1>3. TypeOK'
  BY <1>1, <1>2, ExchangedType DEF IInv, TypeOK, Split
<1>4. Disjoint'
  <2> SUFFICES ASSUME NEW t \in work', NEW u \in work', t # u
               PROVE  t.hi < u.lo \/ u.hi < t.lo
    BY DEF Disjoint
  <2>0. t \in Segment /\ u \in Segment
    BY <1>3 DEF TypeOK
  <2>1. /\ t \in work \ {s} \/ t \in L \/ t \in R
        /\ u \in work \ {s} \/ u \in L \/ u \in R
    BY DEF Split
  <2>2. CASE t \in work \ {s} /\ u \in work \ {s}
    BY <2>2 DEF IInv, Disjoint
  <2>3. CASE t \in work \ {s} /\ u \notin work \ {s}
    <3>1. t.hi < s.lo \/ s.hi < t.lo
      BY <2>3 DEF IInv, Disjoint
    <3> QED
      BY <3>1, <2>0, <2>1, <2>3, <1>1, <1>L, <1>R, SegmentFacts, NAssumption DEF Index
  <2>4. CASE u \in work \ {s} /\ t \notin work \ {s}
    <3>1. u.hi < s.lo \/ s.hi < u.lo
      BY <2>4 DEF IInv, Disjoint
    <3> QED
      BY <3>1, <2>0, <2>1, <2>4, <1>1, <1>L, <1>R, SegmentFacts, NAssumption DEF Index
  <2>5. CASE t \in L \cup R /\ u \in L \cup R
    <3>1. \A x, y \in L : x = y
      BY <1>1, PieceFacts, NAssumption
    <3>2. \A x, y \in R : x = y
      BY <1>1, PieceFacts, NAssumption
    <3> QED
      BY <3>1, <3>2, <2>5, <1>1, <1>L, <1>R
  <2> QED
    BY <2>1, <2>2, <2>3, <2>4, <2>5
<1>5. Ordered'
  <2> SUFFICES ASSUME NEW a \in Index, NEW b \in Index, a < b,
                      \A t \in work' : ~ (a \in In(t) /\ b \in In(t))
               PROVE  arr'[a] <= arr'[b]
    BY DEF Ordered, In
  <2>1. CASE a \in In(s) /\ b \in In(s)
    <3>1. a <= p
      <4> SUFFICES ASSUME p < a PROVE FALSE
        BY <1>1, NAssumption DEF Index
      <4>1. PICK t \in R : t.lo = p + 1 /\ t.hi = s.hi
        BY <2>1, <1>1, <1>R, NAssumption DEF In, Index
      <4>2. t \in work' /\ a \in In(t) /\ b \in In(t)
        BY <4>1, <2>1, <1>1, NAssumption DEF In, Index, Split
      <4> QED
        BY <4>2
    <3>2. p <= b
      <4> SUFFICES ASSUME b < p PROVE FALSE
        BY <1>1, NAssumption DEF Index
      <4>1. PICK t \in L : t.lo = s.lo /\ t.hi = p - 1
        BY <2>1, <1>1, <1>L, NAssumption DEF In, Index
      <4>2. t \in work' /\ a \in In(t) /\ b \in In(t)
        BY <4>1, <2>1, <1>1, NAssumption DEF In, Index, Split
      <4> QED
        BY <4>2
    <3>3. Separates(arr', s, p)
      BY DEF Split
    <3>4. arr' \in [Index -> Int]
      BY <1>3, ValueAssumption DEF TypeOK
    <3>5. a = p \/ arr'[a] <= arr'[p]
      BY <3>1, <3>3, <2>1, <1>1, NAssumption DEF Separates, In, Index
    <3>6. b = p \/ arr'[p] <= arr'[b]
      BY <3>2, <3>3, <2>1, <1>1, NAssumption DEF Separates, In, Index
    <3> QED
      BY <3>4, <3>5, <3>6, <1>1
  <2>2. CASE ~ (a \in In(s) /\ b \in In(s))
    <3>1. \A t \in work : ~ (a \in In(t) /\ b \in In(t))
      BY <2>2 DEF Split
    <3> QED
      BY <3>1, ExchangeOrdered DEF Split
  <2> QED
    BY <2>1, <2>2
<1> QED
  BY <1>3, <1>4, <1>5 DEF IInv

\* Loading the input again re-establishes the invariant.
LEMMA RestartIInv == IInv /\ Restart => IInv'
<1> SUFFICES ASSUME IInv, Restart PROVE IInv'
  OBVIOUS
<1>1. TypeOK'
  BY PieceFacts, NAssumption DEF IInv, TypeOK, Restart
<1>2. Disjoint'
  <2>1. \A t, u \in Piece(0, N - 1) : t = u
    BY PieceFacts, NAssumption
  <2> QED
    BY <2>1 DEF Restart, Disjoint
<1>3. Ordered'
  <2> SUFFICES ASSUME NEW a \in Index, NEW b \in Index, a < b
               PROVE  \E s \in work' : a \in In(s) /\ b \in In(s)
    BY DEF Ordered, In
  <2>1. 0 < N - 1
    BY NAssumption DEF Index
  <2>2. PICK t \in work' : t.lo = 0 /\ t.hi = N - 1
    BY <2>1, PieceFacts, NAssumption DEF Restart
  <2> QED
    BY <2>2, NAssumption DEF In, Index
<1> QED
  BY <1>1, <1>2, <1>3 DEF IInv

\* Every step preserves the invariant.
LEMMA StepIInv == IInv /\ [Next]_vars => IInv'
<1> SUFFICES ASSUME IInv, [Next]_vars PROVE IInv'
  OBVIOUS
<1>1. ASSUME NEW s \in work, NEW p \in In(s), NEW q \in In(s), Exchange(s, p, q)
      PROVE  IInv'
  BY <1>1, ExchangeIInv
<1>2. ASSUME NEW s \in work, NEW p \in In(s), NEW q \in In(s), Split(s, p, q)
      PROVE  IInv'
  BY <1>2, SplitIInv
<1>3. CASE Restart
  BY <1>3, RestartIInv
<1>4. CASE UNCHANGED vars
  BY <1>4 DEF vars, IInv, TypeOK, Disjoint, Ordered, In
<1> QED
  BY <1>1, <1>2, <1>3, <1>4 DEF Next

\* IInv is an inductive invariant of SplitSort.
THEOREM Invariance == Spec => []IInv
BY InitIInv, StepIInv, PTL DEF Spec

\* With no segment left, the array is sorted, whatever the order of the steps.
THEOREM SortedWhenIdleThm == Spec => []SortedWhenIdle
<1>1. IInv => SortedWhenIdle
  BY DEF IInv, Ordered, SortedWhenIdle, IsSorted
<1> QED
  BY <1>1, Invariance, PTL

\* An exchange of two elements is a bijection before the one that held.
LEMMA ExchangePermutes ==
  ASSUME TypeOK, IsPermutation, NEW p \in Index, NEW q \in Index,
         arr' = Exchanged(arr, p, q), input' = input
  PROVE  IsPermutation'
<1>1. PICK f \in Bijection(Index, Index) : arr = [x \in Index |-> input[f[x]]]
  BY DEF IsPermutation
<1> DEFINE g == [x \in Index |-> IF x = p THEN f[q] ELSE IF x = q THEN f[p] ELSE f[x]]
<1>2. /\ f \in [Index -> Index]
      /\ \A x, y \in Index : f[x] = f[y] => x = y
      /\ \A z \in Index : \E x \in Index : f[x] = z
  BY <1>1 DEF Bijection, Injection, Surjection, IsInjective
<1>3. g \in [Index -> Index]
  BY <1>2
<1>4. \A x, y \in Index : g[x] = g[y] => x = y
  BY <1>2
<1>5. \A z \in Index : \E x \in Index : g[x] = z
  <2> SUFFICES ASSUME NEW z \in Index PROVE \E x \in Index : g[x] = z
    OBVIOUS
  <2>1. PICK x \in Index : f[x] = z
    BY <1>2
  <2>2. CASE x = p
    BY <2>1, <2>2
  <2>3. CASE x = q
    BY <2>1, <2>3
  <2>4. CASE x # p /\ x # q
    BY <2>1, <2>4
  <2> QED
    BY <2>2, <2>3, <2>4
<1>6. g \in Bijection(Index, Index)
  BY <1>3, <1>4, <1>5 DEF Bijection, Injection, Surjection, IsInjective
<1>7. arr' = [x \in Index |-> input'[g[x]]]
  <2>1. arr' \in [Index -> Value]
    BY ExchangedType DEF TypeOK
  <2>2. \A x \in Index : arr'[x] = input[g[x]]
    <3>1. \A x \in Index : arr[x] = input[f[x]]
      BY <1>1
    <3>2. \A x \in Index :
            arr'[x] = IF x = q THEN arr[p] ELSE IF x = p THEN arr[q] ELSE arr[x]
      BY ExchangedType DEF TypeOK
    <3> QED
      BY <3>1, <3>2
  <2> QED
    BY <2>1, <2>2
<1> QED
  BY <1>6, <1>7 DEF IsPermutation

\* The input is a permutation of itself.
LEMMA InputPermutes ==
  ASSUME input \in [Index -> Value]
  PROVE  \E f \in Bijection(Index, Index) : input = [x \in Index |-> input[f[x]]]
<1> DEFINE id == [x \in Index |-> x]
<1>1. id \in Bijection(Index, Index)
  BY DEF Bijection, Injection, Surjection, IsInjective
<1>2. input = [x \in Index |-> input[id[x]]]
  OBVIOUS
<1> QED
  BY <1>1, <1>2

\* No element is lost or duplicated, whatever the exchanges, the splits and
\* the restarts.
THEOREM PermutationThm == Spec => []IsPermutation
<1>1. Init => IsPermutation
  BY InputPermutes DEF Init, IsPermutation
<1>2. IInv /\ IsPermutation /\ [Next]_vars => IsPermutation'
  <2> SUFFICES ASSUME IInv, IsPermutation, [Next]_vars PROVE IsPermutation'
    OBVIOUS
  <2>1. ASSUME NEW s \in work, NEW p \in In(s), NEW q \in In(s),
               Exchange(s, p, q) \/ Split(s, p, q)
        PROVE  IsPermutation'
    <3>1. p \in Index /\ q \in Index
      BY SegmentFacts DEF IInv, TypeOK
    <3> QED
      BY <2>1, <3>1, ExchangePermutes DEF IInv, Exchange, Split
  <2>2. CASE Restart
    <3>1. \E f \in Bijection(Index, Index) : input = [x \in Index |-> input[f[x]]]
      BY InputPermutes DEF IInv, TypeOK
    <3> QED
      BY <3>1, <2>2 DEF Restart, IsPermutation
  <2>3. CASE UNCHANGED vars
    BY <2>3 DEF vars, IsPermutation
  <2> QED
    BY <2>1, <2>2, <2>3 DEF Next
<1> QED
  BY <1>1, <1>2, Invariance, PTL DEF Spec
================================================================================
