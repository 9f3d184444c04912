---------------------------- MODULE SmallProgramsProofs ----------------------------
(***************************************************************************)
(* Proofs about PiEstimation, Cost, BitSet, DecisionTree and Strings, one  *)
(* after the other, and about SmallPrograms, which puts them side by side: *)
(* that no share of a sum is lost or counted twice, for any number of      *)
(* threads and items; that a set of bits holds what it should; that the    *)
(* leaves of a tree share out the samples, whatever splits are chosen; and *)
(* that a string that is sliced stays the text that it should be.          *)
(***************************************************************************)
EXTENDS SmallPrograms, FiniteSets, Functions, FiniteSetTheorems, SequenceTheorems,
        WellFoundedInduction, TLAPS

(* Sums over finite sets. *)

\* The sum as the community modules define it: a recursive function on the subsets of S.
Pick(s) == CHOOSE x \in s : TRUE
Adds(g, f, S) ==
  g = [s \in SUBSET S |-> IF s = {} THEN 0 ELSE f[Pick(s)] + g[s \ {Pick(s)}]]
Sum(f, S) == (CHOOSE g : Adds(g, f, S))[S]

\* The sum of the library is the one of this section, on a finite set.
LEMMA SumIs ==
  ASSUME NEW f, NEW S
  PROVE  SumFunctionOnSet(f, S) = Sum(f, S)
BY DEF SumFunctionOnSet, FoldFunctionOnSet, MapThenFoldSet, Sum, Adds, Pick

Below(t, s) == t \subseteq s /\ t # s

\* Of some finite subsets of S one has no other below it.
LEMMA LeastSet ==
  ASSUME NEW S, IsFiniteSet(S), NEW Bad, Bad \subseteq SUBSET S, Bad # {}
  PROVE  \E s \in Bad : \A t \in Bad : ~ Below(t, s)
<1>1. \A t \in SUBSET S : IsFiniteSet(t)
  BY FS_Subset
<1>2. IsWellFoundedOn(StrictSubsetOrdering(S), FiniteSubsetsOf(S))
  BY FS_StrictSubsetOrderingWellFounded
<1>3. Bad \subseteq FiniteSubsetsOf(S)
  BY <1>1 DEF FiniteSubsetsOf
<1>4. PICK s \in Bad : \A t \in Bad : ~ (<<t, s>> \in StrictSubsetOrdering(S))
  BY <1>2, <1>3, WFMin
<1>5. \A t \in Bad : Below(t, s) => <<t, s>> \in StrictSubsetOrdering(S)
  BY <1>3 DEF StrictSubsetOrdering, Below
<1> QED
  BY <1>4, <1>5, Zenon

\* Two such functions agree where both are defined.
LEMMA AddsAgree ==
  ASSUME NEW f, NEW S, IsFiniteSet(S), NEW T, NEW g, NEW h, Adds(g, f, S), Adds(h, f, T),
         NEW v, v \subseteq S, v \subseteq T
  PROVE  g[v] = h[v]
<1> DEFINE Bad == {u \in SUBSET S : u \subseteq T /\ g[u] # h[u]}
<1> SUFFICES ASSUME Bad # {} PROVE FALSE
  OBVIOUS
<1>0. Bad \subseteq SUBSET S
  OBVIOUS
<1> HIDE DEF Bad
<1>1. PICK u \in Bad : \A t \in Bad : ~ Below(t, u)
  BY <1>0, LeastSet, Zenon
<1> USE DEF Bad, Below
<1>2. u # {}
  BY <1>1 DEF Adds
<1>3. Pick(u) \in u
  BY <1>2 DEF Pick
<1>4. g[u \ {Pick(u)}] = h[u \ {Pick(u)}]
  BY <1>1, <1>3
<1>5. g[u] = f[Pick(u)] + g[u \ {Pick(u)}]
  BY <1>1, <1>2 DEF Adds
<1>6. h[u] = f[Pick(u)] + h[u \ {Pick(u)}]
  BY <1>1, <1>2 DEF Adds
<1> QED
  BY <1>1, <1>4, <1>5, <1>6

\* The definition of the sum has a solution.
LEMMA SumPick ==
  ASSUME NEW f, NEW S, IsFiniteSet(S)
  PROVE  Sum(f, S) = IF S = {} THEN 0 ELSE f[Pick(S)] + Sum(f, S \ {Pick(S)})
<1> DEFINE Rest(s) == IF s = {} THEN 0 ELSE f[Pick(s)] + Sum(f, s \ {Pick(s)})
           Bad == {s \in SUBSET S : Sum(f, s) # Rest(s)}
<1> SUFFICES ASSUME Bad # {} PROVE FALSE
  OBVIOUS
<1>0. Bad \subseteq SUBSET S
  OBVIOUS
<1> HIDE DEF Bad
<1>1. PICK s \in Bad : \A t \in Bad : ~ Below(t, s)
  BY <1>0, LeastSet, Zenon
<1> USE DEF Bad, Below
<1> DEFINE h == [v \in SUBSET s |-> IF v = s THEN Rest(s) ELSE Sum(f, v)]
<1>2. IsFiniteSet(s)
  BY <1>1, FS_Subset
<1>3. Adds(h, f, s)
  <2>1. SUFFICES ASSUME NEW v \in SUBSET s
                 PROVE  h[v] = IF v = {} THEN 0 ELSE f[Pick(v)] + h[v \ {Pick(v)}]
    BY Zenon DEF Adds
  <2>2. v # {} => Pick(v) \in v
    BY DEF Pick
  <2>3. v # {} => h[v \ {Pick(v)}] = Sum(f, v \ {Pick(v)})
    BY <2>2
  <2>4. h[v] = Rest(v)
    BY <1>1
  <2> QED
    BY <2>3, <2>4
<1> DEFINE G == CHOOSE g : Adds(g, f, s)
<1>4. Adds(G, f, s)
  BY <1>3
<1>5. Sum(f, s) = G[s] /\ h[s] = Rest(s)
  BY DEF Sum
<1> HIDE DEF G, h, Bad
<1>6. G[s] = h[s]
  <2>1. s \subseteq s
    OBVIOUS
  <2> QED
    BY <1>2, <1>3, <1>4, <2>1, AddsAgree
<1> QED
  BY <1>1, <1>5, <1>6 DEF Bad

\* Nothing sums up to 0.
LEMMA SumEmpty ==
  ASSUME NEW f
  PROVE  Sum(f, {}) = 0
BY SumPick, FS_EmptySet

\* Whichever element is taken out first.
LEMMA SumTakes ==
  ASSUME NEW f, NEW S, IsFiniteSet(S), \A x \in S : f[x] \in Int
  PROVE  Sum(f, S) \in Int /\ \A x \in S : Sum(f, S) = f[x] + Sum(f, S \ {x})
<1>1. ASSUME NEW s \in SUBSET S PROVE IsFiniteSet(s)
  BY FS_Subset
<1>2. ASSUME NEW s \in SUBSET S, s # {}
      PROVE  Pick(s) \in s /\ Sum(f, s) = f[Pick(s)] + Sum(f, s \ {Pick(s)})
  BY <1>1, <1>2, SumPick DEF Pick
<1>3. \A s \in SUBSET S : Sum(f, s) \in Int
  <2> DEFINE Bad == {s \in SUBSET S : Sum(f, s) \notin Int}
  <2> SUFFICES ASSUME Bad # {} PROVE FALSE
    OBVIOUS
  <2>0. Bad \subseteq SUBSET S
    OBVIOUS
  <2> HIDE DEF Bad
  <2>1. PICK s \in Bad : \A t \in Bad : ~ Below(t, s)
    BY <2>0, LeastSet, Zenon
  <2> USE DEF Bad, Below
  <2>2. s # {}
    <3>1. Sum(f, {}) = 0
      BY SumEmpty
    <3>2. Sum(f, s) # 0
      BY <2>1
    <3> QED
      BY <3>1, <3>2, Zenon
  <2>3. Pick(s) \in s /\ Sum(f, s) = f[Pick(s)] + Sum(f, s \ {Pick(s)})
    BY <1>2, <2>1, <2>2
  <2>4. Sum(f, s \ {Pick(s)}) \in Int
    BY <2>1, <2>3
  <2> QED
    BY <2>1, <2>3, <2>4
<1>4. \A s \in SUBSET S : \A x \in s : Sum(f, s) = f[x] + Sum(f, s \ {x})
  <2> DEFINE Bad == {s \in SUBSET S : \E x \in s : Sum(f, s) # f[x] + Sum(f, s \ {x})}
  <2> SUFFICES ASSUME Bad # {} PROVE FALSE
    OBVIOUS
  <2>0. Bad \subseteq SUBSET S
    OBVIOUS
  <2> HIDE DEF Bad
  <2>1. PICK s \in Bad : \A t \in Bad : ~ Below(t, s)
    BY <2>0, LeastSet, Zenon
  <2> USE DEF Bad, Below
  <2>2. PICK x \in s : Sum(f, s) # f[x] + Sum(f, s \ {x})
    BY <2>1
  <2> DEFINE y == Pick(s)
  <2>3. y \in s /\ Sum(f, s) = f[y] + Sum(f, s \ {y})
    BY <1>2, <2>1, <2>2
  <2> HIDE DEF y
  <2>4. x # y
    BY <2>2, <2>3
  <2>5. Sum(f, s \ {y}) = f[x] + Sum(f, (s \ {y}) \ {x})
    <3>1. s \ {y} \notin Bad
      BY <2>1, <2>3
    <3> QED
      BY <2>1, <2>2, <2>4, <3>1
  <2>6. Sum(f, s \ {x}) = f[y] + Sum(f, (s \ {x}) \ {y})
    <3>1. s \ {x} \notin Bad
      BY <2>1, <2>2
    <3> QED
      BY <2>1, <2>3, <2>4, <3>1
  <2>7. (s \ {x}) \ {y} = (s \ {y}) \ {x}
    OBVIOUS
  <2>8. Sum(f, (s \ {y}) \ {x}) \in Int /\ f[x] \in Int /\ f[y] \in Int
    BY <1>3, <2>1, <2>3
  <2> HIDE DEF Bad
  <2>9. f[x] + (f[y] + Sum(f, (s \ {y}) \ {x})) = f[y] + (f[x] + Sum(f, (s \ {y}) \ {x}))
    BY <2>8
  <2>10. Sum(f, s) = f[x] + Sum(f, s \ {x})
    BY <2>3, <2>5, <2>6, <2>7, <2>8, <2>9, Zenon
  <2> QED
    BY <2>2, <2>10
<1> QED
  BY <1>3, <1>4

\* Adding an element, and a set disjoint from the first.
LEMMA SumWith ==
  ASSUME NEW f, NEW S, IsFiniteSet(S), \A y \in S : f[y] \in Int, NEW x, x \notin S, f[x] \in Int
  PROVE  Sum(f, S \cup {x}) = f[x] + Sum(f, S) /\ Sum(f, S) \in Int
<1>1. IsFiniteSet(S \cup {x})
  BY FS_AddElement
<1>2. (S \cup {x}) \ {x} = S
  OBVIOUS
<1>3. \A y \in S \cup {x} : f[y] \in Int
  OBVIOUS
<1>4. Sum(f, S \cup {x}) = f[x] + Sum(f, (S \cup {x}) \ {x})
  BY <1>1, <1>3, SumTakes
<1> QED
  BY <1>2, <1>4, SumTakes

\* The sum over two disjoint sets is the sum of their sums.
LEMMA SumUnion ==
  ASSUME NEW f, NEW S, IsFiniteSet(S), NEW T, IsFiniteSet(T), S \cap T = {},
         \A x \in S \cup T : f[x] \in Int
  PROVE  Sum(f, S \cup T) = Sum(f, S) + Sum(f, T) /\ Sum(f, S) \in Int /\ Sum(f, T) \in Int
<1>1. ASSUME NEW t \in SUBSET T
      PROVE  IsFiniteSet(t) /\ IsFiniteSet(S \cup t) /\ Sum(f, t) \in Int /\ Sum(f, S \cup t) \in Int
  <2>1. IsFiniteSet(t) /\ IsFiniteSet(S \cup t)
    BY FS_Subset, FS_Union
  <2> QED
    BY <2>1, SumTakes
<1>2. Sum(f, S) \in Int
  BY SumTakes
<1> DEFINE Bad == {t \in SUBSET T : Sum(f, S \cup t) # Sum(f, S) + Sum(f, t)}
<1>3. ASSUME Bad # {} PROVE FALSE
  <2>0. Bad \subseteq SUBSET T
    OBVIOUS
  <2> HIDE DEF Bad
  <2>1. PICK t \in Bad : \A u \in Bad : ~ Below(u, t)
    BY <1>3, <2>0, LeastSet, Zenon
  <2> USE DEF Bad, Below
  <2>2. t # {}
    <3>1. S \cup {} = S
      OBVIOUS
    <3>2. Sum(f, {}) = 0
      BY SumEmpty
    <3>3. Sum(f, S \cup {}) = Sum(f, S) + Sum(f, {})
      BY <1>2, <3>1, <3>2
    <3>4. Sum(f, S \cup t) # Sum(f, S) + Sum(f, t)
      BY <2>1
    <3> QED
      BY <3>3, <3>4, Zenon
  <2>3. PICK x \in t : TRUE
    BY <2>2
  <2> DEFINE u == t \ {x}
  <2>4. u \in SUBSET T /\ Sum(f, S \cup u) = Sum(f, S) + Sum(f, u) /\ x \notin u /\ x \notin S
    BY <2>1, <2>3
  <2>5. t = u \cup {x} /\ S \cup t = (S \cup u) \cup {x} /\ f[x] \in Int
    BY <2>1, <2>3
  <2> HIDE DEF u
  <2>6. Sum(f, t) = f[x] + Sum(f, u)
    BY <1>1, <2>4, <2>5, SumWith
  <2>7. Sum(f, S \cup t) = f[x] + Sum(f, S \cup u)
    BY <1>1, <2>4, <2>5, SumWith
  <2>8. Sum(f, u) \in Int /\ Sum(f, S \cup t) # Sum(f, S) + Sum(f, t)
    BY <1>1, <2>1, <2>4
  <2> HIDE DEF Bad
  <2> QED
    BY <1>2, <2>4, <2>5, <2>6, <2>7, <2>8
<1> QED
  BY <1>1, <1>2, <1>3

\* Of some numbers one is the lowest.
LEMMA Lowest ==
  ASSUME NEW A \in SUBSET Nat, A # {}
  PROVE  \E x \in A : \A y \in A : ~ (y < x)
<1>1. IsWellFoundedOn(OpToRel(<, Nat), Nat)
  BY NatLessThanWellFounded
<1>2. PICK x \in A : \A y \in A : ~ (<<y, x>> \in OpToRel(<, Nat))
  BY <1>1, WFMin
<1> QED
  BY <1>2 DEF OpToRel

-----------------------------------------------------------------------------

(* PiEstimation *)

Share(t) ==
  IF program = "monte" THEN {k \in P!Item : P!First(t) <= k /\ k < P!End(t)}
                       ELSE {k \in P!Item : \E q \in Nat : k = t + q * THREADS}
Shares(T) == UNION {Share(t) : t \in T}
Added == {t \in P!Thread : place[t] \in {"unlock", "exit", "joined"}}
Done(t) == {k \in Share(t) : k < next[t]}

PiTypes ==
  /\ program \in {"monte", "integ"}
  /\ item \in [P!Item -> Int]
  /\ place \in [P!Thread -> {"none", "add", "read", "write", "unlock", "exit", "joined"}]
  /\ next \in [P!Thread -> Int]
  /\ local \in [P!Thread -> Int] /\ unset \in [P!Thread -> Int] /\ seen \in [P!Thread -> Int]
  /\ sum \in Int
  /\ lock \in P!Thread \cup {None}
  /\ created \in Nat /\ joined \in Nat
  /\ freed \subseteq P!Thread

Progress(t) ==
  /\ place[t] = "none" <=> t >= created
  /\ place[t] = "joined" <=> t < joined
  /\ t \in freed => place[t] = "joined"
  /\ place[t] \in {"read", "write", "unlock"} <=> lock = t
  /\ place[t] = "write" => seen[t] = sum
  /\ place[t] # "none" => IF program = "monte" THEN P!First(t) <= next[t] /\ next[t] <= P!End(t)
                                            ELSE \E q \in Nat : next[t] = t + q * THREADS
  /\ place[t] \notin {"none", "add"} => next[t] >= P!End(t)
  /\ local[t] = IF place[t] = "none" THEN unset[t] ELSE unset[t] + Sum(item, Done(t))

Summed == sum = Sum(unset, Added) + Sum(item, Shares(Added))

PiInv == PiTypes /\ (\A t \in P!Thread : Progress(t)) /\ Summed


\* Division of natural numbers by the number of threads.
LEMMA Products ==
  ASSUME NEW T \in Nat, NEW p \in Int, NEW q \in Int, p < q
  PROVE  p * T + T <= q * T
<1>1. (q - p - 1) * T >= 0
  BY q - p - 1 \in Nat
<1>2. (q - p - 1) * T = q * T - p * T - T
  OBVIOUS
<1> QED
  BY <1>1, <1>2

\* Every number has one remainder and one quotient.
LEMMA Remainders ==
  ASSUME NEW T \in Nat \ {0}
  PROVE  /\ \A k \in Nat : \E q \in Nat, t \in 0 .. T - 1 : k = t + q * T
         /\ \A a, b \in 0 .. T - 1 : \A p, q \in Int : a + p * T = b + q * T => a = b
<1>1. ASSUME NEW k \in Nat PROVE \E q \in Nat, t \in 0 .. T - 1 : k = t + q * T
  <2>1. k \div T \in Nat /\ k % T \in 0 .. T - 1 /\ k = (k % T) + (k \div T) * T
    OBVIOUS
  <2> QED
    BY <2>1
<1>2. ASSUME NEW a \in 0 .. T - 1, NEW b \in 0 .. T - 1, NEW p \in Int, NEW q \in Int,
             a + p * T = b + q * T
      PROVE  a = b
  <2>1. p < q => p * T + T <= q * T
    BY Products
  <2>2. q < p => q * T + T <= p * T
    BY Products
  <2>3. p * T \in Int /\ q * T \in Int
    OBVIOUS
  <2> QED
    BY <1>2, <2>1, <2>2, <2>3
<1> QED
  BY <1>1, <1>2

\* Zeros sum up to 0.
LEMMA SumZero ==
  ASSUME NEW f, NEW S, IsFiniteSet(S), \A x \in S : f[x] = 0
  PROVE  Sum(f, S) = 0
<1> DEFINE Bad == {s \in SUBSET S : Sum(f, s) # 0}
<1>1. ASSUME Bad # {} PROVE FALSE
  <2>0. Bad \subseteq SUBSET S
    OBVIOUS
  <2> HIDE DEF Bad
  <2>1. PICK s \in Bad : \A t \in Bad : ~ Below(t, s)
    BY <1>1, <2>0, LeastSet, Zenon
  <2> USE DEF Bad, Below
  <2>2. s # {}
    BY <2>1, SumEmpty, Zenon
  <2>3. PICK x \in s : TRUE
    BY <2>2
  <2>4. Sum(f, s \ {x}) = 0
    BY <2>1, <2>3
  <2>5. IsFiniteSet(s) /\ \A y \in s : f[y] \in Int
    BY <2>1, FS_Subset
  <2>6. Sum(f, s) = f[x] + Sum(f, s \ {x})
    BY <2>3, <2>5, SumTakes
  <2> QED
    BY <2>1, <2>3, <2>4, <2>6
<1> QED
  BY <1>1

\* The threads share out the items.
LEMMA SharesAre ==
  ASSUME P!Assumptions, program \in {"monte", "integ"}
  PROVE  /\ IsFiniteSet(P!Item) /\ IsFiniteSet(P!Thread)
         /\ \A t \in P!Thread : Share(t) \subseteq P!Item /\ IsFiniteSet(Share(t))
         /\ \A t, u \in P!Thread : t # u => Share(t) \cap Share(u) = {}
         /\ Shares(P!Thread) = P!Item
<1>1. THREADS \in Nat \ {0} /\ POINTS_PER_THREAD \in Nat /\ size \in Int
  BY DEF P!Assumptions
<1>2. IsFiniteSet(P!Item) /\ IsFiniteSet(P!Thread)
  <2>1. THREADS * POINTS_PER_THREAD - 1 \in Int /\ size - 1 \in Int /\ THREADS - 1 \in Int
    BY <1>1
  <2> QED
    BY <2>1, FS_Interval DEF P!Item, P!Thread
<1>3. \A t \in P!Thread : Share(t) \subseteq P!Item
  BY DEF Share
<1>4. \A t \in P!Thread : IsFiniteSet(Share(t))
  BY <1>2, <1>3, FS_Subset
<1>5. CASE program = "monte"
  <2> DEFINE N == POINTS_PER_THREAD
  <2>1. \A t \in P!Thread : t \in Int /\ t * N \in Int
    BY <1>1 DEF P!Thread
  <2>2. \A t \in P!Thread : \A k \in Int : k \in Share(t) <=> k \in P!Item /\ t * N <= k /\ k < t * N + N
    BY <1>5 DEF Share, P!First, P!End
  <2>3. \A k \in P!Item : k \in Int /\ 0 <= k /\ k < THREADS * N
    BY <1>1, <1>5 DEF P!Item
  <2> HIDE DEF N
  <2>4. \A t, u \in P!Thread : t < u => t * N + N <= u * N
    BY <1>1, <2>1, Products DEF N
  <2>5. ASSUME NEW t \in P!Thread, NEW u \in P!Thread, t # u, NEW k \in Share(t), k \in Share(u)
        PROVE  FALSE
    <3>1. k \in Int /\ t * N <= k /\ k < t * N + N /\ u * N <= k /\ k < u * N + N
      BY <1>3, <2>2, <2>3, <2>5
    <3>2. t < u \/ u < t
      BY <2>1, <2>5
    <3>3. N \in Int
      BY <1>1 DEF N
    <3> QED
      BY <2>1, <2>4, <3>1, <3>2, <3>3
  <2>6. ASSUME NEW k \in P!Item PROVE \E t \in P!Thread : k \in Share(t)
    <3>1. N \in Nat \ {0}
      <4>1. ASSUME N = 0 PROVE FALSE
        BY <1>1, <2>3, <4>1
      <4> QED
        BY <1>1, <4>1 DEF N
    <3>2. PICK t \in Nat, s \in 0 .. N - 1 : k = s + t * N
      <4>1. \A n \in Nat : \E q \in Nat, s \in 0 .. N - 1 : n = s + q * N
        BY <3>1, Remainders, Zenon
      <4>2. k \in Nat
        BY <2>3
      <4> QED
        BY <4>1, <4>2, Zenon
    <3>3. t < THREADS
      <4>1. ASSUME THREADS <= t PROVE FALSE
        <5>1. THREADS * N <= t * N
          <6>1. THREADS < t => THREADS * N + N <= t * N
            BY <1>1, <3>1, Products
          <6> QED
            BY <1>1, <3>1, <4>1, <6>1
        <5>2. THREADS * N \in Int /\ t * N \in Int /\ s >= 0
          BY <1>1, <3>1
        <5> QED
          BY <2>3, <3>2, <5>1, <5>2
      <4> QED
        BY <1>1, <4>1
    <3>4. t \in P!Thread
      BY <1>1, <3>3 DEF P!Thread
    <3>5. t * N <= k /\ k < t * N + N
      BY <2>1, <3>1, <3>2, <3>4
    <3> QED
      BY <2>2, <2>3, <3>4, <3>5
  <2> QED
    BY <1>2, <1>3, <1>4, <2>5, <2>6 DEF Shares
<1>6. CASE program = "integ"
  <2>1. \A t \in P!Thread : \A k : k \in Share(t) <=> k \in P!Item /\ \E q \in Nat : k = t + q * THREADS
    BY <1>6 DEF Share
  <2>2. P!Thread = 0 .. THREADS - 1 /\ P!Item \subseteq Nat
    BY <1>1, <1>6 DEF P!Thread, P!Item
  <2>3. \A k \in P!Item : \E t \in P!Thread : k \in Share(t)
    <3>1. \A k \in Nat : \E q \in Nat, t \in 0 .. THREADS - 1 : k = t + q * THREADS
      BY <1>1, Remainders, Zenon
    <3> QED
      BY <2>1, <2>2, <3>1
  <2>4. \A t, u \in P!Thread : t # u => Share(t) \cap Share(u) = {}
    <3>1. \A a, b \in 0 .. THREADS - 1 : \A p, q \in Int : a + p * THREADS = b + q * THREADS => a = b
      BY <1>1, Remainders, Zenon
    <3> QED
      BY <2>1, <2>2, <3>1
  <2> QED
    BY <1>2, <1>3, <1>4, <2>3, <2>4 DEF Shares
<1> QED
  BY <1>5, <1>6

\* The items a thread has still to add up do not lie before the next one.
LEMMA StepsOn ==
  ASSUME P!Assumptions, PiTypes, NEW t \in P!Thread, Progress(t), place[t] = "add", next[t] < P!End(t)
  PROVE  /\ next[t] \in Share(t) /\ next[t] \notin Done(t)
         /\ {k \in Share(t) : k < next[t] + P!Step} = Done(t) \cup {next[t]}
<1>1. THREADS \in Nat \ {0} /\ POINTS_PER_THREAD \in Nat /\ size \in Int
  BY DEF P!Assumptions
<1>2. next[t] \in Int /\ t \in Nat /\ t <= THREADS - 1
  BY <1>1 DEF PiTypes, P!Thread
<1>3. \A k \in Share(t) : k \in Int
  BY <1>1 DEF Share, P!Item
<1>4. CASE program = "monte"
  <2> DEFINE N == POINTS_PER_THREAD
  <2>1. t * N \in Nat /\ THREADS * N \in Nat /\ t * N + N <= THREADS * N
    <3>1. t * N + N <= THREADS * N
      BY <1>1, <1>2, Products
    <3> QED
      BY <1>1, <1>2, <3>1
  <2>2. t * N <= next[t] /\ next[t] < t * N + N
    BY <1>4 DEF Progress, P!First, P!End
  <2>3. next[t] \in P!Item
    BY <1>1, <1>2, <1>4, <2>1, <2>2 DEF P!Item
  <2>4. next[t] \in Share(t)
    BY <1>4, <2>2, <2>3 DEF Share, P!First, P!End
  <2>5. P!Step = 1
    BY <1>4 DEF P!Step
  <2> QED
    BY <1>2, <1>3, <2>4, <2>5 DEF Done
<1>5. CASE program = "integ"
  <2>1. PICK q \in Nat : next[t] = t + q * THREADS
    BY <1>5 DEF Progress
  <2>2. q * THREADS \in Nat
    BY <1>1
  <2>3. next[t] \in Share(t)
    BY <1>1, <1>2, <1>5, <2>1, <2>2 DEF Share, P!Item, P!End
  <2>4. ASSUME NEW k \in Share(t), next[t] < k PROVE next[t] + THREADS <= k
    <3>1. PICK p \in Nat : k = t + p * THREADS
      BY <1>5 DEF Share
    <3>2. q * THREADS < p * THREADS
      BY <1>1, <1>2, <2>1, <2>2, <2>4, <3>1
    <3>3. p <= q => p * THREADS <= q * THREADS
      <4>1. p < q => p * THREADS + THREADS <= q * THREADS
        BY <1>1, Products
      <4> QED
        BY <1>1, <4>1
    <3>4. q < p
      BY <1>1, <3>2, <3>3
    <3>5. q * THREADS + THREADS <= p * THREADS
      BY <1>1, <3>4, Products
    <3> QED
      BY <1>1, <1>2, <2>1, <2>2, <3>1, <3>5
  <2>5. P!Step = THREADS
    BY <1>5 DEF P!Step
  <2> QED
    BY <1>1, <1>2, <1>3, <2>3, <2>4, <2>5 DEF Done
<1> QED
  BY <1>4, <1>5 DEF PiTypes

\* At the end of its loop a thread has added up its share.
LEMMA AllDone ==
  ASSUME P!Assumptions, PiTypes, NEW t \in P!Thread, next[t] >= P!End(t)
  PROVE  Done(t) = Share(t)
<1>1. \A k \in Share(t) : k \in Int /\ k < P!End(t)
  BY DEF Share, P!Item, P!End, P!Assumptions, PiTypes
<1>2. next[t] \in Int /\ P!End(t) \in Int
  BY DEF P!Assumptions, PiTypes, P!End, P!First, P!Thread
<1> QED
  BY <1>1, <1>2 DEF Done

\* What a step cannot change.
LEMMA Kept ==
  ASSUME program' = program, item' = item
  PROVE  /\ P!Item' = P!Item
         /\ \A t \in P!Thread : /\ Share(t)' = Share(t) /\ P!First(t)' = P!First(t) /\ P!End(t)' = P!End(t)
                                /\ next'[t] = next[t] => Done(t)' = Done(t)
<1>1. P!Item' = P!Item
  BY DEF P!Item
<1>2. \A t \in P!Thread : P!First(t)' = P!First(t) /\ P!End(t)' = P!End(t)
  BY DEF P!First, P!End
<1>3. \A t \in P!Thread : Share(t)' = Share(t)
  BY <1>1, <1>2 DEF Share
<1> QED
  BY <1>1, <1>2, <1>3 DEF Done

\* A step that changes no sum and ends no thread keeps the sum right.
LEMMA SumKept ==
  ASSUME Summed, program' = program, item' = item, unset' = unset, sum' = sum, Added' = Added
  PROVE  Summed'
<1>1. \A t \in P!Thread : Share(t)' = Share(t)
  BY Kept
<1>2. Shares(Added)' = Shares(Added)
  BY <1>1 DEF Shares, Added
<1> QED
  BY <1>2 DEF Summed

\* A thread that has moved on and nothing else has not disturbed the others.
LEMMA ProgressKept ==
  ASSUME NEW t \in P!Thread, Progress(t), UNCHANGED <<program, item, unset>>,
         place'[t] = place[t], next'[t] = next[t], local'[t] = local[t], seen'[t] = seen[t],
         place[t] = "write" => sum' = sum, lock' = t <=> lock = t,
         t >= created' <=> t >= created, t < joined' <=> t < joined, t \in freed' => t \in freed
  PROVE  Progress(t)'
<1>1. Share(t)' = Share(t) /\ P!First(t)' = P!First(t) /\ P!End(t)' = P!End(t) /\ Done(t)' = Done(t)
  BY Kept
<1> QED
  BY <1>1 DEF Progress

\* No thread has begun, and the sum is empty.
LEMMA PiInit ==
  ASSUME P!Assumptions, P!Init
  PROVE  PiInv
<1>0. THREADS \in Nat \ {0} /\ Contribution \subseteq Int /\ Garbage \subseteq Int
  BY DEF P!Assumptions
<1>1. PiTypes
  <2>1. item \in [P!Item -> Int]
    BY <1>0 DEF P!Init
  <2>2. unset \in [P!Thread -> Int] /\ local = unset
    <3>1. CASE program = "monte"
      BY <3>1 DEF P!Init
    <3>2. CASE program # "monte"
      BY <1>0, <3>2 DEF P!Init
    <3> QED
      BY <3>1, <3>2
  <2>3. /\ program \in {"monte", "integ"} /\ place = [t \in P!Thread |-> "none"]
        /\ next = [t \in P!Thread |-> 0] /\ seen = [t \in P!Thread |-> 0]
        /\ sum = 0 /\ lock = None /\ created = 0 /\ joined = 0 /\ freed = {}
    BY DEF P!Init
  <2> QED
    BY <2>1, <2>2, <2>3 DEF PiTypes
<1>2. \A t \in P!Thread : Progress(t)
  BY DEF P!Assumptions, P!Init, Progress, P!Thread
<1>3. Added = {} /\ Shares({}) = {}
  BY DEF P!Init, Added, Shares
<1>4. Summed
  <2>1. Sum(unset, {}) = 0 /\ Sum(item, {}) = 0
    BY SumEmpty
  <2>2. sum = Sum(unset, {}) + Sum(item, {})
    BY <2>1 DEF P!Init
  <2> QED
    BY <1>3, <2>2, Zenon DEF Summed
<1> QED
  BY <1>1, <1>2, <1>4 DEF PiInv

\* main creates a thread, which begins with its first item (monte.c, integ.c).
LEMMA PiCreate ==
  ASSUME P!Assumptions, PiInv, NEW t \in P!Thread, P!Create(t)
  PROVE  PiInv'
<1>1. /\ t = created /\ place[t] = "none" /\ place' = [place EXCEPT ![t] = "add"] /\ created' = created + 1
      /\ next' = [next EXCEPT ![t] = P!First(t)]
      /\ UNCHANGED <<program, item, local, unset, seen, sum, lock, joined, freed>>
  BY DEF P!Create, P!At
<1>2. PiTypes /\ Summed /\ \A u \in P!Thread : Progress(u)
  BY DEF PiInv
<1>3. P!Item' = P!Item /\ Share(t)' = Share(t) /\ P!First(t)' = P!First(t) /\ P!End(t)' = P!End(t)
  BY <1>1, Kept
<1>4. P!First(t) \in Int /\ P!End(t) \in Int /\ THREADS \in Nat /\ POINTS_PER_THREAD \in Nat
  BY DEF P!Assumptions, P!First, P!End, P!Thread
<1>5. PiTypes'
  BY <1>1, <1>2, <1>3, <1>4 DEF PiTypes
<1>6. Progress(t)'
  <2>1. next'[t] = P!First(t) /\ place'[t] = "add" /\ local'[t] = unset[t] /\ unset[t] \in Int
    BY <1>1, <1>2 DEF PiTypes, Progress
  <2>2. Done(t)' = {}
    <3>1. \A k \in Share(t) : k \in Int /\ P!First(t) <= k
      <4>1. t \in Nat /\ \A q \in Nat : q * THREADS \in Nat
        BY <1>4 DEF P!Thread
      <4>2. size \in Int /\ program \in {"monte", "integ"}
        BY <1>2 DEF P!Assumptions, PiTypes
      <4>3. CASE program = "monte"
        BY <1>4, <4>3 DEF Share, P!Item
      <4>4. CASE program = "integ"
        BY <1>4, <4>1, <4>4 DEF Share, P!First
      <4> QED
        BY <4>2, <4>3, <4>4
    <3> QED
      BY <1>3, <1>4, <2>1, <3>1 DEF Done
  <2>3. Sum(item', Done(t)') = 0
    BY <2>2, SumEmpty
  <2>4. IF program = "monte" THEN P!First(t) <= next'[t] /\ next'[t] <= P!End(t)
                             ELSE \E q \in Nat : next'[t] = t + q * THREADS
    <3>1. CASE program = "monte"
      BY <1>4, <2>1, <3>1 DEF P!First, P!End, P!Thread
    <3>2. CASE program # "monte"
      <4>1. next'[t] = t + 0 * THREADS
        BY <1>4, <2>1, <3>2 DEF P!First, P!Thread
      <4> QED
        BY <3>2, <4>1
    <3> QED
      BY <3>1, <3>2
  <2>5. t \in Nat /\ created \in Nat /\ joined \in Nat
    BY <1>2 DEF P!Thread, PiTypes
  <2> QED
    BY <1>1, <1>2, <1>3, <2>1, <2>3, <2>4, <2>5 DEF Progress
<1>7. ASSUME NEW u \in P!Thread, u # t PROVE Progress(u)'
  <2>1. u \in Nat /\ created \in Nat /\ t \in Nat
    BY <1>2 DEF P!Thread, PiTypes
  <2> QED
    BY <1>1, <1>2, <1>7, <2>1, ProgressKept DEF PiTypes
<1>8. Added' = Added
  BY <1>1, <1>2 DEF Added, PiTypes
<1> QED
  BY <1>1, <1>2, <1>5, <1>6, <1>7, <1>8, SumKept DEF PiInv

\* A thread adds an item to its own sum.
LEMMA PiAddItem ==
  ASSUME P!Assumptions, PiInv, NEW t \in P!Thread, P!AddItem(t)
  PROVE  PiInv'
<1>1. /\ next[t] < P!End(t) /\ place[t] = "add" /\ place' = [place EXCEPT ![t] = "add"]
      /\ local' = [local EXCEPT ![t] = @ + item[next[t]]] /\ next' = [next EXCEPT ![t] = @ + P!Step]
      /\ UNCHANGED <<program, item, unset, seen, sum, lock, created, joined, freed>>
  BY DEF P!AddItem, P!At
<1>2. PiTypes /\ Summed /\ \A u \in P!Thread : Progress(u)
  BY DEF PiInv
<1>3. P!Item' = P!Item /\ Share(t)' = Share(t) /\ P!First(t)' = P!First(t) /\ P!End(t)' = P!End(t)
  BY <1>1, Kept
<1>4. /\ next[t] \in Share(t) /\ next[t] \notin Done(t)
      /\ {k \in Share(t) : k < next[t] + P!Step} = Done(t) \cup {next[t]}
  BY <1>1, <1>2, StepsOn
<1>5. /\ IsFiniteSet(Done(t)) /\ Share(t) \subseteq P!Item /\ Done(t) \subseteq P!Item
  <2>1. IsFiniteSet(Share(t)) /\ Share(t) \subseteq P!Item
    BY <1>2, SharesAre DEF PiTypes
  <2> QED
    BY <2>1, FS_Subset DEF Done
<1>6. \A k \in P!Item : item[k] \in Int
  BY <1>2 DEF PiTypes
<1>7. P!Step \in Nat /\ THREADS \in Nat /\ place' = place
  BY <1>1, <1>2 DEF P!Step, P!Assumptions, PiTypes
<1>8. PiTypes'
  BY <1>1, <1>2, <1>3, <1>4, <1>5, <1>6, <1>7 DEF PiTypes
<1>9. Progress(t)'
  <2>1. next'[t] = next[t] + P!Step /\ local'[t] = local[t] + item[next[t]]
    BY <1>1, <1>2 DEF PiTypes
  <2>2. Done(t)' = Done(t) \cup {next[t]}
    BY <1>3, <1>4, <2>1 DEF Done
  <2>3. Sum(item, Done(t)') = item[next[t]] + Sum(item, Done(t)) /\ Sum(item, Done(t)) \in Int
    BY <1>4, <1>5, <1>6, <2>2, SumWith
  <2>4. local'[t] = unset[t] + Sum(item, Done(t)')
    <3>1. local[t] = unset[t] + Sum(item, Done(t))
      BY <1>1, <1>2 DEF Progress
    <3>2. unset[t] \in Int /\ item[next[t]] \in Int
      BY <1>2, <1>4, <1>5, <1>6 DEF PiTypes
    <3> QED
      BY <2>1, <2>3, <3>1, <3>2
  <2>5. IF program = "monte" THEN P!First(t) <= next'[t] /\ next'[t] <= P!End(t)
                             ELSE \E q \in Nat : next'[t] = t + q * THREADS
    <3>1. t \in Nat /\ next[t] \in Int /\ POINTS_PER_THREAD \in Nat
      BY <1>2 DEF PiTypes, P!Thread, P!Assumptions
    <3>2. CASE program = "monte"
      BY <1>1, <1>2, <1>7, <2>1, <3>1, <3>2 DEF Progress, P!Step, P!First, P!End
    <3>3. CASE program # "monte"
      <4>1. PICK q \in Nat : next[t] = t + q * THREADS
        BY <1>1, <1>2, <3>3 DEF Progress
      <4>2. next'[t] = t + (q + 1) * THREADS /\ q + 1 \in Nat
        BY <1>7, <2>1, <3>1, <3>3, <4>1 DEF P!Step
      <4> QED
        BY <3>3, <4>2
    <3> QED
      BY <3>2, <3>3
  <2> QED
    BY <1>1, <1>2, <1>3, <1>7, <2>4, <2>5 DEF Progress
<1>10. ASSUME NEW u \in P!Thread, u # t PROVE Progress(u)'
  BY <1>1, <1>2, <1>7, <1>10, ProgressKept DEF PiTypes
<1>11. Added' = Added
  BY <1>7 DEF Added
<1> QED
  BY <1>1, <1>2, <1>8, <1>9, <1>10, <1>11, SumKept DEF PiInv

\* A thread that has added all its items takes the mutex.
LEMMA PiLock ==
  ASSUME P!Assumptions, PiInv, NEW t \in P!Thread, P!Lock(t)
  PROVE  PiInv'
<1>1. /\ next[t] >= P!End(t) /\ lock = None /\ place[t] = "add"
      /\ place' = [place EXCEPT ![t] = "read"] /\ lock' = t
      /\ UNCHANGED <<program, item, next, local, unset, seen, sum, created, joined, freed>>
  BY DEF P!Lock, P!At
<1>2. PiTypes /\ Summed /\ \A u \in P!Thread : Progress(u)
  BY DEF PiInv
<1>3. P!Item' = P!Item /\ Done(t)' = Done(t) /\ P!First(t)' = P!First(t) /\ P!End(t)' = P!End(t)
  BY <1>1, Kept
<1>4. None \notin P!Thread
  BY DEF P!Assumptions
<1>5. PiTypes'
  BY <1>1, <1>2, <1>3 DEF PiTypes
<1>6. Progress(t)'
  BY <1>1, <1>2, <1>3 DEF Progress, PiTypes
<1>7. ASSUME NEW u \in P!Thread, u # t PROVE Progress(u)'
  BY <1>1, <1>2, <1>4, <1>7, ProgressKept DEF PiTypes
<1>8. Added' = Added
  BY <1>1, <1>2 DEF Added, PiTypes
<1> QED
  BY <1>1, <1>2, <1>5, <1>6, <1>7, <1>8, SumKept DEF PiInv

\* It reads the sum of all threads.
LEMMA PiReadSum ==
  ASSUME P!Assumptions, PiInv, NEW t \in P!Thread, P!ReadSum(t)
  PROVE  PiInv'
<1>1. /\ place[t] = "read" /\ place' = [place EXCEPT ![t] = "write"] /\ seen' = [seen EXCEPT ![t] = sum]
      /\ UNCHANGED <<program, item, next, local, unset, sum, lock, created, joined, freed>>
  BY DEF P!ReadSum, P!At
<1>2. PiTypes /\ Summed /\ \A u \in P!Thread : Progress(u)
  BY DEF PiInv
<1>3. P!Item' = P!Item /\ Done(t)' = Done(t) /\ P!First(t)' = P!First(t) /\ P!End(t)' = P!End(t)
  BY <1>1, Kept
<1>4. PiTypes'
  BY <1>1, <1>2, <1>3 DEF PiTypes
<1>5. Progress(t)'
  BY <1>1, <1>2, <1>3 DEF Progress, PiTypes
<1>6. ASSUME NEW u \in P!Thread, u # t PROVE Progress(u)'
  BY <1>1, <1>2, <1>6, ProgressKept DEF PiTypes
<1>7. Added' = Added
  BY <1>1, <1>2 DEF Added, PiTypes
<1> QED
  BY <1>1, <1>2, <1>4, <1>5, <1>6, <1>7, SumKept DEF PiInv

\* Only the thread that holds the mutex is between its reading of sum and its
\* writing, so that nothing has been added since.
LEMMA PiWriteSum ==
  ASSUME P!Assumptions, PiInv, NEW t \in P!Thread, P!WriteSum(t)
  PROVE  PiInv'
<1>1. /\ place[t] = "write" /\ place' = [place EXCEPT ![t] = "unlock"] /\ sum' = seen[t] + local[t]
      /\ UNCHANGED <<program, item, next, local, unset, seen, lock, created, joined, freed>>
  BY DEF P!WriteSum, P!At
<1>2. PiTypes /\ Summed /\ \A u \in P!Thread : Progress(u)
  BY DEF PiInv
<1>3. /\ P!Item' = P!Item /\ Done(t)' = Done(t) /\ P!First(t)' = P!First(t) /\ P!End(t)' = P!End(t)
      /\ \A u \in P!Thread : Share(u)' = Share(u)
  BY <1>1, Kept
<1>4. seen[t] = sum /\ lock = t /\ local[t] = unset[t] + Sum(item, Share(t))
  <2>1. next[t] >= P!End(t)
    BY <1>1, <1>2 DEF Progress
  <2>2. Done(t) = Share(t)
    BY <1>2, <2>1, AllDone
  <2> QED
    BY <1>1, <1>2, <2>2 DEF Progress
<1>5. PiTypes'
  BY <1>1, <1>2, <1>3 DEF PiTypes
<1>6. Progress(t)'
  BY <1>1, <1>2, <1>3 DEF Progress, PiTypes
<1>7. ASSUME NEW u \in P!Thread, u # t PROVE Progress(u)'
  <2>1. place[u] # "write"
    BY <1>2, <1>4, <1>7 DEF Progress
  <2> QED
    BY <1>1, <1>2, <1>7, <2>1, ProgressKept DEF PiTypes
<1>8. Summed'
  <2>1. Added' = Added \cup {t} /\ t \notin Added /\ Added \subseteq P!Thread
    BY <1>1, <1>2 DEF Added, PiTypes
  <2>2. /\ IsFiniteSet(P!Item) /\ IsFiniteSet(P!Thread) /\ IsFiniteSet(Share(t))
        /\ \A u \in P!Thread : Share(u) \subseteq P!Item
        /\ \A u \in P!Thread : u # t => Share(u) \cap Share(t) = {}
    BY <1>2, SharesAre DEF PiTypes
  <2>3. Shares(Added)' = Shares(Added) \cup Share(t)
    BY <1>3, <2>1 DEF Shares, Added
  <2>4. Shares(Added) \subseteq P!Item /\ Shares(Added) \cap Share(t) = {}
    BY <2>1, <2>2 DEF Shares
  <2>5. IsFiniteSet(Added) /\ IsFiniteSet(Shares(Added))
    BY <2>1, <2>2, <2>4, FS_Subset
  <2>6. (\A k \in P!Item : item[k] \in Int) /\ \A u \in P!Thread : unset[u] \in Int
    BY <1>2 DEF PiTypes
  <2>7. Sum(unset, Added \cup {t}) = unset[t] + Sum(unset, Added) /\ Sum(unset, Added) \in Int
    BY <2>1, <2>5, <2>6, SumWith
  <2>8. /\ Sum(item, Shares(Added) \cup Share(t)) = Sum(item, Shares(Added)) + Sum(item, Share(t))
        /\ Sum(item, Shares(Added)) \in Int /\ Sum(item, Share(t)) \in Int
    <3>1. \A k \in Shares(Added) \cup Share(t) : item[k] \in Int
      BY <2>2, <2>4, <2>6
    <3> QED
      BY <2>2, <2>4, <2>5, <3>1, SumUnion
  <2>9. sum' = Sum(unset, Added \cup {t}) + Sum(item, Shares(Added) \cup Share(t))
    <3>1. sum = Sum(unset, Added) + Sum(item, Shares(Added)) /\ unset[t] \in Int
      BY <1>2, <2>6 DEF Summed
    <3> QED
      BY <1>1, <1>4, <2>7, <2>8, <3>1
  <2> QED
    BY <1>1, <2>1, <2>3, <2>9, Zenon DEF Summed
<1> QED
  BY <1>5, <1>6, <1>7, <1>8 DEF PiInv

\* It gives the mutex back.
LEMMA PiUnlock ==
  ASSUME P!Assumptions, PiInv, NEW t \in P!Thread, P!Unlock(t)
  PROVE  PiInv'
<1>1. /\ place[t] = "unlock" /\ place' = [place EXCEPT ![t] = "exit"] /\ lock' = None
      /\ UNCHANGED <<program, item, next, local, unset, seen, sum, created, joined, freed>>
  BY DEF P!Unlock, P!At
<1>2. PiTypes /\ Summed /\ \A u \in P!Thread : Progress(u)
  BY DEF PiInv
<1>3. P!Item' = P!Item /\ Done(t)' = Done(t) /\ P!First(t)' = P!First(t) /\ P!End(t)' = P!End(t)
  BY <1>1, Kept
<1>4. None \notin P!Thread
  BY DEF P!Assumptions
<1>5. lock = t
  BY <1>1, <1>2 DEF Progress
<1>6. PiTypes'
  BY <1>1, <1>2, <1>3 DEF PiTypes
<1>7. Progress(t)'
  BY <1>1, <1>2, <1>3, <1>4 DEF Progress, PiTypes
<1>8. ASSUME NEW u \in P!Thread, u # t PROVE Progress(u)'
  BY <1>1, <1>2, <1>4, <1>5, <1>8, ProgressKept DEF PiTypes
<1>9. Added' = Added
  BY <1>1, <1>2 DEF Added, PiTypes
<1> QED
  BY <1>1, <1>2, <1>6, <1>7, <1>8, <1>9, SumKept DEF PiInv

\* main waits for a thread that has ended.
LEMMA PiJoin ==
  ASSUME P!Assumptions, PiInv, NEW t \in P!Thread, P!Join(t)
  PROVE  PiInv'
<1>1. /\ t = joined /\ place[t] = "exit" /\ place' = [place EXCEPT ![t] = "joined"] /\ joined' = joined + 1
      /\ freed' \subseteq freed \cup {t}
      /\ UNCHANGED <<program, item, next, local, unset, seen, sum, lock, created>>
  BY DEF P!Join, P!At
<1>2. PiTypes /\ Summed /\ \A u \in P!Thread : Progress(u)
  BY DEF PiInv
<1>3. P!Item' = P!Item /\ Done(t)' = Done(t) /\ P!First(t)' = P!First(t) /\ P!End(t)' = P!End(t)
  BY <1>1, Kept
<1>4. \A u \in P!Thread : u \in Nat
  BY DEF P!Thread
<1>5. PiTypes'
  BY <1>1, <1>2, <1>3 DEF PiTypes
<1>6. Progress(t)'
  BY <1>1, <1>2, <1>3, <1>4 DEF Progress, PiTypes
<1>7. ASSUME NEW u \in P!Thread, u # t PROVE Progress(u)'
  BY <1>1, <1>2, <1>4, <1>7, ProgressKept DEF PiTypes
<1>8. Added' = Added
  BY <1>1, <1>2 DEF Added, PiTypes
<1> QED
  BY <1>1, <1>2, <1>5, <1>6, <1>7, <1>8, SumKept DEF PiInv

\* Every step keeps the invariant.
LEMMA PiStep ==
  ASSUME P!Assumptions, PiInv, [P!Next]_P!vars
  PROVE  PiInv'
<1>1. CASE UNCHANGED P!vars
  <2>1. UNCHANGED <<program, item, place, next, local, unset, seen, sum, lock, created, joined, freed>>
    BY <1>1 DEF P!vars
  <2>2. P!Item' = P!Item
    BY <2>1, Kept
  <2>3. PiTypes'
    BY <2>1, <2>2 DEF PiInv, PiTypes
  <2>4. \A u \in P!Thread : Progress(u)'
    BY <2>1, ProgressKept DEF PiInv
  <2>5. Added' = Added
    BY <2>1 DEF Added
  <2> QED
    BY <2>1, <2>3, <2>4, <2>5, SumKept DEF PiInv
<1>2. CASE P!Next
  BY <1>2, PiCreate, PiJoin, PiAddItem, PiLock, PiReadSum, PiWriteSum, PiUnlock DEF P!Next
<1> QED
  BY <1>1, <1>2

\* SumOfShares: when main prints, sum holds every item once, and nothing else if
\* the threads found 0 in `area', for every number of threads, points and
\* rectangles and every schedule (monte.c:64-77, integ.c:46-62).
THEOREM PiEstimationThm ==
  ASSUME P!Assumptions
  PROVE  P!Spec => []P!SumOfShares
<1>1. P!Init => PiInv
  BY PiInit
<1>2. PiInv /\ [P!Next]_P!vars => PiInv'
  BY PiStep
<1>3. PiInv => P!SumOfShares
  <2> SUFFICES ASSUME PiInv PROVE P!SumOfShares
    OBVIOUS
  <2>1. PiTypes /\ Summed /\ \A u \in P!Thread : Progress(u)
    BY DEF PiInv
  <2>2. \A t \in freed : place[t] = "joined"
    BY <2>1 DEF PiTypes, Progress
  <2>3. ASSUME joined = THREADS PROVE sum = P!SumFunction(item) + P!SumFunction(unset)
    <3>1. Added = P!Thread
      <4>1. \A t \in P!Thread : t < joined
        BY <2>3 DEF P!Assumptions, P!Thread
      <4>2. \A t \in P!Thread : place[t] = "joined"
        BY <2>1, <4>1 DEF Progress
      <4> QED
        BY <4>2 DEF Added
    <3>2. Shares(Added) = P!Item
      BY <2>1, <3>1, SharesAre DEF PiTypes
    <3>3. /\ P!SumFunction(item) = Sum(item, P!Item) /\ P!SumFunction(unset) = Sum(unset, P!Thread)
      BY <2>1 DEF P!SumFunction, P!SumFunctionOnSet, P!FoldFunctionOnSet, P!MapThenFoldSet,
                  Sum, Adds, Pick, PiTypes
    <3>4. Sum(item, P!Item) \in Int /\ Sum(unset, P!Thread) \in Int
      BY <2>1, SharesAre, SumTakes DEF PiTypes
    <3> QED
      BY <2>1, <3>1, <3>2, <3>3, <3>4 DEF Summed
  <2>4. ASSUME \A t \in P!Thread : unset[t] = 0 PROVE P!SumFunction(unset) = 0
    <3>1. P!SumFunction(unset) = Sum(unset, P!Thread)
      BY <2>1 DEF P!SumFunction, P!SumFunctionOnSet, P!FoldFunctionOnSet, P!MapThenFoldSet,
                  Sum, Adds, Pick, PiTypes
    <3> QED
      BY <2>1, <2>4, <3>1, SharesAre, SumZero DEF PiTypes
  <2>5. P!SumFunction(item) \in Int
    <3>1. P!SumFunction(item) = Sum(item, P!Item)
      BY <2>1 DEF P!SumFunction, P!SumFunctionOnSet, P!FoldFunctionOnSet, P!MapThenFoldSet,
                  Sum, Adds, Pick, PiTypes
    <3> QED
      BY <2>1, <3>1, SharesAre, SumTakes DEF PiTypes
  <2> QED
    BY <2>2, <2>3, <2>4, <2>5 DEF P!SumOfShares
<1> QED
  BY <1>1, <1>2, <1>3, PTL DEF P!Spec

-----------------------------------------------------------------------------

(* Cost *)

Finished == {t \in C!Thread : pc[t] = "done"}
CShares(T) == UNION {C!Share(t) : t \in T}
Before(t) == {k \in C!Share(t) : k < i[t]}
Using == {"load", "multiply"}

CostTypes ==
  /\ data \in Seq(Int) /\ before \in [mean : Int, cost : Int]
  /\ global_mean \in Int /\ global_cost \in Int /\ r \in Int
  /\ region \in {"mean", "cost", "end"}
  /\ pc \in [C!Thread -> {"add", "assign", "load", "multiply", "done"}]
  /\ i \in [C!Thread -> Int] /\ cost \in [C!Thread -> Int] /\ factor \in [C!Thread -> Int]
  /\ raced \in BOOLEAN

InMean ==
  /\ \A t \in C!Thread : pc[t] \in {"add", "done"} /\ cost[t] = 0
  /\ global_mean = before.mean + Sum(data, CShares(Finished))
  /\ global_cost = before.cost
  /\ ~ raced

LoopOK(t) ==
  /\ pc[t] # "add"
  /\ \E q \in Nat : i[t] = t + 1 + q * THREADS
  /\ pc[t] = "done" => i[t] > C!length
  /\ pc[t] \in Using => i[t] <= C!length
  /\ region = "end" => pc[t] = "done"

RaceFree(t) ==
  /\ pc[t] \in Using => r = C!Deviation(i[t]) /\ \A u \in C!Thread \ {t} : pc[u] \notin Using
  /\ pc[t] = "multiply" => factor[t] = C!Deviation(i[t])
  /\ cost[t] = Sum(C!Squares, Before(t))

InCost ==
  /\ global_mean = before.mean + Sum(data, 1 .. C!length)
  /\ \A t \in C!Thread : LoopOK(t)
  /\ ~ raced => /\ \A t \in C!Thread : RaceFree(t)
                /\ global_cost = before.cost + Sum(C!Squares, CShares(Finished))

CostInv == CostTypes /\ IF region = "mean" THEN InMean ELSE InCost

\* The shares of the threads part the samples.
LEMMA CSharesAre ==
  ASSUME C!Assumptions, CostTypes
  PROVE  /\ C!length \in Nat /\ IsFiniteSet(1 .. C!length) /\ DOMAIN data = 1 .. C!length
         /\ \A t \in C!Thread : C!Share(t) \subseteq 1 .. C!length
         /\ \A T \in SUBSET C!Thread : CShares(T) \subseteq 1 .. C!length /\ IsFiniteSet(CShares(T))
         /\ \A t, u \in C!Thread : t # u => C!Share(t) \cap C!Share(u) = {}
         /\ CShares(C!Thread) = 1 .. C!length
<1>1. C!length \in Nat /\ DOMAIN data = 1 .. C!length /\ THREADS \in Nat \ {0}
  BY DEF CostTypes, C!length, C!Assumptions
<1>2. IsFiniteSet(1 .. C!length)
  BY <1>1, FS_Interval
<1>3. \A t \in C!Thread : C!Share(t) \subseteq 1 .. C!length
  BY DEF C!Share
<1>4. \A T \in SUBSET C!Thread : CShares(T) \subseteq 1 .. C!length
  BY <1>3 DEF CShares
<1>5. \A T \in SUBSET C!Thread : IsFiniteSet(CShares(T))
  BY <1>2, <1>4, FS_Subset
<1>6. \A k \in 1 .. C!length : (k - 1) % THREADS \in C!Thread
  BY <1>1 DEF C!Thread
<1>7. CShares(C!Thread) = 1 .. C!length
  BY <1>3, <1>6 DEF CShares, C!Share
<1> QED
  BY <1>1, <1>2, <1>3, <1>4, <1>5, <1>7 DEF C!Share

\* A share is every THREADS-th element.
LEMMA CShareIs ==
  ASSUME C!Assumptions, CostTypes, NEW t \in C!Thread, NEW k \in 1 .. C!length
  PROVE  k \in C!Share(t) <=> \E q \in Nat : k = t + 1 + q * THREADS
<1>1. THREADS \in Nat \ {0} /\ k - 1 \in Nat /\ t \in 0 .. THREADS - 1
  BY CSharesAre DEF C!Assumptions, C!Thread
<1>2. /\ (k - 1) \div THREADS \in Nat /\ (k - 1) % THREADS \in 0 .. THREADS - 1
      /\ k - 1 = ((k - 1) % THREADS) + ((k - 1) \div THREADS) * THREADS
  BY <1>1
<1>3. \A a, b \in 0 .. THREADS - 1 : \A p, q \in Int : a + p * THREADS = b + q * THREADS => a = b
  BY <1>1, Remainders, Zenon
<1>4. ASSUME NEW q \in Nat, k = t + 1 + q * THREADS PROVE (k - 1) % THREADS = t
  <2>1. k - 1 = t + q * THREADS /\ q * THREADS \in Int
    BY <1>1, <1>4
  <2>2. ((k - 1) % THREADS) + ((k - 1) \div THREADS) * THREADS = t + q * THREADS
    BY <1>2, <2>1
  <2> DEFINE b == (k - 1) % THREADS
             p == (k - 1) \div THREADS
  <2>3. b \in 0 .. THREADS - 1 /\ p \in Int /\ q \in Int /\ b + p * THREADS = t + q * THREADS
    BY <1>2, <2>2
  <2> HIDE DEF b, p
  <2>4. b = t
    BY <1>1, <1>3, <2>3
  <2> QED
    BY <2>4 DEF b
<1>5. ASSUME (k - 1) % THREADS = t PROVE \E q \in Nat : k = t + 1 + q * THREADS
  <2> DEFINE q == (k - 1) \div THREADS
  <2>1. q \in Nat /\ k - 1 = t + q * THREADS
    BY <1>2, <1>5
  <2> HIDE DEF q
  <2>2. k = t + 1 + q * THREADS
    BY <1>1, <2>1
  <2> QED
    BY <2>1, <2>2
<1> QED
  BY <1>4, <1>5 DEF C!Share

\* What a thread has done when it goes on to its next sample.
LEMMA CStepsOn ==
  ASSUME C!Assumptions, CostTypes, NEW t \in C!Thread, LoopOK(t), i[t] <= C!length
  PROVE  /\ i[t] \in C!Share(t) /\ i[t] \notin Before(t)
         /\ {k \in C!Share(t) : k < i[t] + THREADS} = Before(t) \cup {i[t]}
<1>1. THREADS \in Nat \ {0} /\ t \in Nat /\ i[t] \in Int /\ C!length \in Nat
  BY CSharesAre DEF C!Assumptions, CostTypes, C!Thread
<1>2. PICK q \in Nat : i[t] = t + 1 + q * THREADS
  BY DEF LoopOK
<1>3. q * THREADS \in Nat
  BY <1>1
<1>4. i[t] \in 1 .. C!length
  BY <1>1, <1>2, <1>3
<1>5. i[t] \in C!Share(t)
  BY <1>2, <1>4, CShareIs
<1>6. ASSUME NEW k \in C!Share(t), i[t] < k PROVE i[t] + THREADS <= k
  <2>1. k \in 1 .. C!length
    BY CSharesAre
  <2>2. PICK p \in Nat : k = t + 1 + p * THREADS
    BY <2>1, CShareIs
  <2>3. p < q => p * THREADS + THREADS <= q * THREADS
    BY <1>1, Products
  <2>4. q < p => q * THREADS + THREADS <= p * THREADS
    BY <1>1, Products
  <2>5. p * THREADS \in Nat
    BY <1>1
  <2> QED
    BY <1>1, <1>2, <1>3, <1>6, <2>2, <2>3, <2>4, <2>5
<1>7. \A k \in C!Share(t) : k \in Int
  BY CSharesAre
<1> QED
  BY <1>1, <1>5, <1>6, <1>7 DEF Before

\* A thread whose index is beyond the end has done its share.
LEMMA CAllDone ==
  ASSUME C!Assumptions, CostTypes, NEW t \in C!Thread, i[t] > C!length
  PROVE  Before(t) = C!Share(t)
<1>1. \A k \in C!Share(t) : k \in Int /\ k <= C!length
  BY CSharesAre
<1>2. i[t] \in Int /\ C!length \in Int
  BY CSharesAre DEF CostTypes
<1> QED
  BY <1>1, <1>2 DEF Before

\* The deviations are numbers.
LEMMA CSquares ==
  ASSUME C!Assumptions, CostTypes
  PROVE  \A k \in 1 .. C!length : /\ C!Deviation(k) \in Int
                                  /\ C!Squares[k] = C!Deviation(k) * C!Deviation(k) /\ C!Squares[k] \in Int
<1>1. \A k \in 1 .. C!length : C!Deviation(k) \in Int
  <2>1. C!length \in Nat /\ DOMAIN data = 1 .. C!length /\ global_mean \in Int
    BY CSharesAre DEF CostTypes
  <2>2. \A k \in 1 .. C!length : data[k] \in Int
    BY <2>1 DEF CostTypes
  <2> QED
    BY <2>1, <2>2 DEF C!Deviation
<1>2. \A k \in 1 .. C!length : C!Squares[k] = C!Deviation(k) * C!Deviation(k)
  BY DEF C!Squares
<1> QED
  BY <1>1, <1>2

\* What a step of the second region cannot change.
LEMMA CKept ==
  ASSUME data' = data
  PROVE  /\ C!length' = C!length /\ \A t : C!Share(t)' = C!Share(t)
         /\ \A t : i'[t] = i[t] => Before(t)' = Before(t)
         /\ global_mean' = global_mean => C!Squares' = C!Squares /\ \A k : C!Deviation(k)' = C!Deviation(k)
<1>1. C!length' = C!length
  BY DEF C!length
<1>2. \A t : C!Share(t)' = C!Share(t)
  BY <1>1 DEF C!Share
<1>3. global_mean' = global_mean => \A k : C!Deviation(k)' = C!Deviation(k)
  BY <1>1 DEF C!Deviation
<1> QED
  BY <1>1, <1>2, <1>3 DEF Before, C!Squares

\* No thread has done anything.
LEMMA CInit ==
  ASSUME C!Assumptions, C!Init
  PROVE  CostInv
<1>1. data \in Seq(Int) /\ before \in [mean : Int, cost : Int]
  BY DEF C!Assumptions, C!Init
<1>2. /\ global_mean = before.mean /\ global_cost = before.cost /\ r = 0 /\ region = "mean"
      /\ pc = [t \in C!Thread |-> "add"] /\ i = [t \in C!Thread |-> 0]
      /\ cost = [t \in C!Thread |-> 0] /\ factor = [t \in C!Thread |-> 0] /\ raced = FALSE
  BY DEF C!Init
<1>3. CostTypes
  <2>1. global_mean \in Int /\ global_cost \in Int
    BY <1>1, <1>2
  <2>2. pc \in [C!Thread -> {"add", "assign", "load", "multiply", "done"}]
    BY <1>2
  <2>3. i \in [C!Thread -> Int] /\ cost \in [C!Thread -> Int] /\ factor \in [C!Thread -> Int]
    BY <1>2
  <2>4. r \in Int /\ region \in {"mean", "cost", "end"}
    BY <1>2
  <2>5. raced \in BOOLEAN
    BY <1>2, Zenon
  <2> QED
    BY <1>1, <2>1, <2>2, <2>3, <2>4, <2>5 DEF CostTypes
<1>4. CShares(Finished) = {}
  BY <1>2 DEF CShares, Finished
<1>5. Sum(data, {}) = 0
  BY SumEmpty
<1>6. global_mean = before.mean + Sum(data, CShares(Finished))
  BY <1>1, <1>2, <1>4, <1>5
<1> QED
  BY <1>2, <1>3, <1>6 DEF CostInv, InMean

\* A thread that ends a region adds its share to those of the others.
LEMMA CEnds ==
  ASSUME C!Assumptions, CostTypes, NEW t \in C!Thread, pc[t] # "done", pc' = [pc EXCEPT ![t] = "done"],
         data' = data, NEW f, \A k \in 1 .. C!length : f[k] \in Int
  PROVE  /\ Sum(f, CShares(Finished)') = Sum(f, CShares(Finished)) + Sum(f, C!Share(t))
         /\ Sum(f, CShares(Finished)) \in Int /\ Sum(f, C!Share(t)) \in Int
<1>1. Finished' = Finished \cup {t} /\ t \notin Finished /\ Finished \subseteq C!Thread
  BY DEF Finished, CostTypes
<1>2. CShares(Finished)' = CShares(Finished) \cup C!Share(t)
  BY <1>1, CKept DEF CShares
<1>3. /\ CShares(Finished) \subseteq 1 .. C!length /\ IsFiniteSet(CShares(Finished))
      /\ C!Share(t) \subseteq 1 .. C!length
  BY <1>1, CSharesAre
<1>4. IsFiniteSet(C!Share(t))
  BY <1>3, CSharesAre, FS_Subset
<1>5. CShares(Finished) \cap C!Share(t) = {}
  BY <1>1, CSharesAre DEF CShares
<1>6. \A k \in CShares(Finished) \cup C!Share(t) : f[k] \in Int
  BY <1>3
<1> HIDE DEF CShares
<1>7. Sum(f, CShares(Finished) \cup C!Share(t)) = Sum(f, CShares(Finished)) + Sum(f, C!Share(t))
      /\ Sum(f, CShares(Finished)) \in Int /\ Sum(f, C!Share(t)) \in Int
  BY <1>3, <1>4, <1>5, <1>6, SumUnion, Zenon
<1> QED
  BY <1>2, <1>7, Zenon

\* A thread adds the samples of its share to the mean.
LEMMA CAddToMean ==
  ASSUME C!Assumptions, CostInv, NEW t \in C!Thread, C!AddToMean(t)
  PROVE  CostInv'
<1>1. /\ region = "mean" /\ pc[t] = "add" /\ pc' = [pc EXCEPT ![t] = "done"]
      /\ global_mean' = global_mean + C!SumFunctionOnSet(data, C!Share(t))
      /\ UNCHANGED <<data, before, global_cost, r, region, i, cost, factor, raced>>
  BY DEF C!AddToMean, C!At
<1>2. CostTypes /\ InMean
  BY <1>1 DEF CostInv
<1>3. C!SumFunctionOnSet(data, C!Share(t)) = Sum(data, C!Share(t))
  BY DEF C!SumFunctionOnSet, C!FoldFunctionOnSet, C!MapThenFoldSet, Sum, Adds, Pick
<1>4. \A k \in 1 .. C!length : data[k] \in Int
  BY <1>2, CSharesAre DEF CostTypes
<1>5. /\ Sum(data, CShares(Finished)') = Sum(data, CShares(Finished)) + Sum(data, C!Share(t))
      /\ Sum(data, CShares(Finished)) \in Int /\ Sum(data, C!Share(t)) \in Int
  BY <1>1, <1>2, <1>4, CEnds
<1>6. global_mean = before.mean + Sum(data, CShares(Finished)) /\ before.mean \in Int
  BY <1>2 DEF InMean, CostTypes
<1>7. global_mean' = before.mean + Sum(data, CShares(Finished)') /\ global_mean' \in Int
  BY <1>1, <1>3, <1>5, <1>6
<1>8. CostTypes'
  BY <1>1, <1>2, <1>7 DEF CostTypes
<1>9. InMean'
  <2>1. \A u \in C!Thread : pc'[u] \in {"add", "done"} /\ cost'[u] = 0
    BY <1>1, <1>2 DEF InMean, CostTypes
  <2> QED
    BY <1>1, <1>2, <1>7, <2>1 DEF InMean
<1> QED
  BY <1>1, <1>8, <1>9 DEF CostInv

\* The loop of the mean ends when all threads are done.
LEMMA CEndMean ==
  ASSUME C!Assumptions, CostInv, C!EndRegion, region = "mean"
  PROVE  CostInv'
<1>1. /\ \A t \in C!Thread : pc[t] = "done"
      /\ region' = "cost" /\ pc' = [t \in C!Thread |-> "assign"] /\ i' = [t \in C!Thread |-> t + 1]
      /\ UNCHANGED <<data, before, global_mean, global_cost, r, cost, factor, raced>>
  BY DEF C!EndRegion
<1>2. CostTypes /\ InMean
  BY DEF CostInv
<1>3. THREADS \in Nat \ {0} /\ \A t \in C!Thread : t \in Nat
  BY DEF C!Assumptions, C!Thread
<1>4. CostTypes'
  BY <1>1, <1>2, <1>3 DEF CostTypes
<1>5. C!length' = C!length
  BY <1>1, CKept
<1>6. global_mean' = before'.mean + Sum(data', 1 .. C!length')
  <2>1. Finished = C!Thread
    BY <1>1 DEF Finished
  <2>2. CShares(Finished) = 1 .. C!length
    BY <1>2, <2>1, CSharesAre
  <2> QED
    BY <1>1, <1>2, <1>5, <2>2 DEF InMean
<1>7. ASSUME NEW t \in C!Thread PROVE LoopOK(t)' /\ RaceFree(t)'
  <2>1. pc'[t] = "assign" /\ i'[t] = t + 1
    BY <1>1
  <2>2. i'[t] = t + 1 + 0 * THREADS
    BY <1>3, <2>1
  <2>3. LoopOK(t)'
    BY <1>1, <2>1, <2>2 DEF LoopOK, Using
  <2>4. Before(t)' = {}
    <3>1. ASSUME NEW k \in C!Share(t) PROVE k >= t + 1
      <4>1. k \in 1 .. C!length
        BY <1>2, CSharesAre
      <4>2. PICK q \in Nat : k = t + 1 + q * THREADS
        BY <1>2, <4>1, CShareIs
      <4>3. q * THREADS \in Nat
        BY <1>3
      <4> QED
        BY <1>3, <4>2, <4>3
    <3>2. \A k \in C!Share(t) : k \in Int
      BY <1>2, CSharesAre
    <3> QED
      BY <1>1, <1>3, <2>1, <3>1, <3>2, CKept DEF Before
  <2>5. cost'[t] = Sum(C!Squares', Before(t)')
    <3>1. Sum(C!Squares', {}) = 0
      BY SumEmpty
    <3> QED
      BY <1>1, <1>2, <2>4, <3>1 DEF InMean
  <2> QED
    BY <2>1, <2>3, <2>5 DEF RaceFree, Using
<1>8. global_cost' = before'.cost + Sum(C!Squares', CShares(Finished)')
  <2>1. CShares(Finished)' = {}
    BY <1>1 DEF CShares, Finished
  <2>2. Sum(C!Squares', {}) = 0
    BY SumEmpty
  <2>3. before.cost \in Int /\ global_cost' = before'.cost /\ before' = before
    BY <1>1, <1>2 DEF CostTypes, InMean
  <2> QED
    BY <2>1, <2>2, <2>3
<1> QED
  BY <1>1, <1>4, <1>6, <1>7, <1>8 DEF CostInv, InCost

\* The loop of the cost ends when all threads are done.
LEMMA CEndCost ==
  ASSUME C!Assumptions, CostInv, C!EndRegion, region # "mean"
  PROVE  CostInv'
<1>1. /\ \A t \in C!Thread : pc[t] = "done"
      /\ region' = "end"
      /\ UNCHANGED <<data, before, global_mean, global_cost, r, pc, i, cost, factor, raced>>
  BY DEF C!EndRegion
<1>2. CostTypes /\ InCost
  BY DEF CostInv
<1>3. CostTypes'
  BY <1>1, <1>2 DEF CostTypes
<1>4. /\ C!length' = C!length /\ C!Squares' = C!Squares
      /\ \A t : C!Share(t)' = C!Share(t) /\ Before(t)' = Before(t)
  BY <1>1, CKept
<1>5. \A t \in C!Thread : LoopOK(t)'
  BY <1>1, <1>2, <1>4 DEF InCost, LoopOK
<1>6. ~ raced => \A t \in C!Thread : RaceFree(t)'
  BY <1>1, <1>2, <1>4 DEF InCost, RaceFree, Using
<1>7. CShares(Finished)' = CShares(Finished)
  BY <1>1, <1>4 DEF CShares, Finished
<1> QED
  BY <1>1, <1>2, <1>3, <1>4, <1>5, <1>6, <1>7 DEF CostInv, InCost

\* What a thread knows of its loop does not depend on the other threads.
LEMMA CLoopKept ==
  ASSUME NEW t \in C!Thread, LoopOK(t), data' = data, region' = region, pc'[t] = pc[t], i'[t] = i[t]
  PROVE  LoopOK(t)'
<1>1. C!length' = C!length
  BY CKept
<1> QED
  BY <1>1 DEF LoopOK, Using

\* A thread assigns a deviation to r, which others may be about to use.
LEMMA CAssign ==
  ASSUME C!Assumptions, CostInv, NEW t \in C!Thread, C!Assign(t)
  PROVE  CostInv'
<1>1. /\ i[t] <= C!length /\ pc[t] = "assign" /\ pc' = [pc EXCEPT ![t] = "load"] /\ r' = C!Deviation(i[t])
      /\ raced' = (raced \/ \E u \in C!Thread \ {t} : pc[u] \in Using)
      /\ UNCHANGED <<data, before, global_mean, global_cost, region, i, cost, factor>>
  BY DEF C!Assign, C!At, Using
<1>2. CostTypes /\ InCost /\ region # "mean"
  BY <1>1 DEF CostInv, InMean
<1>3. /\ C!length' = C!length /\ C!Squares' = C!Squares
      /\ \A u : Before(u)' = Before(u) /\ C!Share(u)' = C!Share(u)
      /\ \A k : C!Deviation(k)' = C!Deviation(k)
  BY <1>1, CKept
<1>4. LoopOK(t)
  BY <1>2 DEF InCost
<1>5. i[t] \in 1 .. C!length
  BY <1>1, <1>2, <1>4, CStepsOn, CSharesAre
<1>6. CostTypes'
  <2>1. r' \in Int
    BY <1>1, <1>2, <1>5, CSquares
  <2>2. raced' \in BOOLEAN
    BY <1>1, <1>2 DEF CostTypes
  <2> QED
    BY <1>1, <1>2, <2>1, <2>2 DEF CostTypes
<1>7. pc'[t] = "load" /\ \A u \in C!Thread \ {t} : pc'[u] = pc[u]
  BY <1>1, <1>2 DEF CostTypes
<1>8. \A u \in C!Thread : LoopOK(u)'
  <2>1. LoopOK(t)'
    BY <1>1, <1>3, <1>4, <1>7 DEF LoopOK, Using
  <2> QED
    BY <1>1, <1>2, <1>7, <2>1, CLoopKept DEF InCost
<1>9. ASSUME ~ raced', NEW u \in C!Thread PROVE RaceFree(u)'
  <2>1. ~ raced /\ \A v \in C!Thread \ {t} : pc[v] \notin Using
    BY <1>1, <1>2, <1>9 DEF CostTypes
  <2>2. RaceFree(u)
    BY <1>2, <2>1 DEF InCost
  <2>3. cost'[u] = Sum(C!Squares', Before(u)')
    BY <1>1, <1>3, <2>2 DEF RaceFree
  <2>4. CASE u = t
    BY <1>1, <1>3, <1>7, <2>1, <2>3, <2>4 DEF RaceFree, Using
  <2>5. CASE u # t
    BY <1>7, <2>1, <2>3, <2>5 DEF RaceFree, Using
  <2> QED
    BY <2>4, <2>5
<1>10. CShares(Finished)' = CShares(Finished)
  BY <1>1, <1>3, <1>7 DEF CShares, Finished
<1>11. ~ raced' => ~ raced
  BY <1>1, <1>2 DEF CostTypes
<1> QED
  BY <1>1, <1>2, <1>3, <1>6, <1>8, <1>9, <1>10, <1>11 DEF CostInv, InCost

\* A thread loads r, the first factor of its square.
LEMMA CLoad ==
  ASSUME C!Assumptions, CostInv, NEW t \in C!Thread, C!Load(t)
  PROVE  CostInv'
<1>1. /\ pc[t] = "load" /\ pc' = [pc EXCEPT ![t] = "multiply"] /\ factor' = [factor EXCEPT ![t] = r]
      /\ UNCHANGED <<data, before, global_mean, global_cost, r, region, i, cost, raced>>
  BY DEF C!Load, C!At
<1>2. CostTypes /\ InCost /\ region # "mean"
  BY <1>1 DEF CostInv, InMean
<1>3. /\ C!length' = C!length /\ C!Squares' = C!Squares
      /\ \A u : Before(u)' = Before(u) /\ C!Share(u)' = C!Share(u)
      /\ \A k : C!Deviation(k)' = C!Deviation(k)
  BY <1>1, CKept
<1>4. LoopOK(t)
  BY <1>2 DEF InCost
<1>5. CostTypes'
  BY <1>1, <1>2 DEF CostTypes
<1>6. /\ pc'[t] = "multiply" /\ factor'[t] = r
      /\ \A u \in C!Thread \ {t} : pc'[u] = pc[u] /\ factor'[u] = factor[u]
  BY <1>1, <1>2 DEF CostTypes
<1>7. \A u \in C!Thread : LoopOK(u)'
  <2>1. LoopOK(t)'
    BY <1>1, <1>3, <1>4, <1>6 DEF LoopOK, Using
  <2> QED
    BY <1>1, <1>2, <1>6, <2>1, CLoopKept DEF InCost
<1>8. ASSUME ~ raced, NEW u \in C!Thread PROVE RaceFree(u)'
  <2>1. \A v \in C!Thread : RaceFree(v)
    BY <1>2, <1>8 DEF InCost
  <2>2. cost'[u] = Sum(C!Squares', Before(u)')
    BY <1>1, <1>3, <2>1 DEF RaceFree
  <2>3. r = C!Deviation(i[t]) /\ \A v \in C!Thread \ {t} : pc[v] \notin Using
    BY <1>1, <2>1 DEF RaceFree, Using
  <2>4. CASE u = t
    BY <1>1, <1>3, <1>6, <2>2, <2>3, <2>4 DEF RaceFree, Using
  <2>5. CASE u # t
    BY <1>6, <2>2, <2>3, <2>5 DEF RaceFree, Using
  <2> QED
    BY <2>4, <2>5
<1>9. CShares(Finished)' = CShares(Finished)
  BY <1>1, <1>3, <1>6 DEF CShares, Finished
<1> QED
  BY <1>1, <1>2, <1>3, <1>5, <1>7, <1>8, <1>9 DEF CostInv, InCost

\* Without a race both factors are the deviation of the thread's own element.
LEMMA CMultiply ==
  ASSUME C!Assumptions, CostInv, NEW t \in C!Thread, C!Multiply(t)
  PROVE  CostInv'
<1>1. /\ pc[t] = "multiply" /\ pc' = [pc EXCEPT ![t] = "assign"]
      /\ cost' = [cost EXCEPT ![t] = @ + factor[t] * r] /\ i' = [i EXCEPT ![t] = @ + THREADS]
      /\ UNCHANGED <<data, before, global_mean, global_cost, r, region, factor, raced>>
  BY DEF C!Multiply, C!At
<1>2. CostTypes /\ InCost /\ region # "mean"
  BY <1>1 DEF CostInv, InMean
<1>3. /\ C!length' = C!length /\ C!Squares' = C!Squares
      /\ \A u : C!Share(u)' = C!Share(u)
      /\ \A k : C!Deviation(k)' = C!Deviation(k)
  BY <1>1, CKept
<1>4. LoopOK(t) /\ i[t] <= C!length
  BY <1>1, <1>2 DEF InCost, LoopOK, Using
<1>5. THREADS \in Nat \ {0}
  BY DEF C!Assumptions
<1>6. CostTypes'
  <2>1. factor[t] * r \in Int
    BY <1>2 DEF CostTypes
  <2> QED
    BY <1>1, <1>2, <1>5, <2>1 DEF CostTypes
<1>7. /\ pc'[t] = "assign" /\ cost'[t] = cost[t] + factor[t] * r /\ i'[t] = i[t] + THREADS
      /\ \A u \in C!Thread \ {t} : pc'[u] = pc[u] /\ cost'[u] = cost[u] /\ i'[u] = i[u]
  BY <1>1, <1>2 DEF CostTypes
<1>8. \A u \in C!Thread : LoopOK(u)'
  <2>1. \E q \in Nat : i'[t] = t + 1 + q * THREADS
    <3>1. PICK q \in Nat : i[t] = t + 1 + q * THREADS
      BY <1>4 DEF LoopOK
    <3>2. t \in Nat
      BY <1>5 DEF C!Thread
    <3>3. i'[t] = t + 1 + (q + 1) * THREADS /\ q + 1 \in Nat
      BY <1>5, <1>7, <3>1, <3>2
    <3> QED
      BY <3>3
  <2>2. region # "end"
    BY <1>1, <1>4 DEF LoopOK
  <2>3. LoopOK(t)'
    BY <1>1, <1>7, <2>1, <2>2 DEF LoopOK, Using
  <2> QED
    BY <1>1, <1>2, <1>7, <2>3, CLoopKept DEF InCost
<1>9. ASSUME ~ raced, NEW u \in C!Thread PROVE RaceFree(u)'
  <2>1. \A v \in C!Thread : RaceFree(v)
    BY <1>2, <1>9 DEF InCost
  <2>2. /\ r = C!Deviation(i[t]) /\ factor[t] = C!Deviation(i[t]) /\ cost[t] = Sum(C!Squares, Before(t))
        /\ \A v \in C!Thread \ {t} : pc[v] \notin Using
    BY <1>1, <2>1 DEF RaceFree, Using
  <2>3. CASE u = t
    <3>1. /\ i[t] \in C!Share(t) /\ i[t] \notin Before(t)
          /\ {k \in C!Share(t) : k < i[t] + THREADS} = Before(t) \cup {i[t]}
      BY <1>2, <1>4, CStepsOn
    <3>2. Before(t)' = Before(t) \cup {i[t]}
      BY <1>3, <1>7, <3>1 DEF Before
    <3>3. Before(t) \subseteq 1 .. C!length /\ i[t] \in 1 .. C!length /\ IsFiniteSet(1 .. C!length)
      BY <1>2, <3>1, CSharesAre DEF Before
    <3>4. IsFiniteSet(Before(t))
      BY <3>3, FS_Subset
    <3>5. \A k \in 1 .. C!length : C!Squares[k] \in Int
      BY <1>2, CSquares
    <3>6. C!Squares[i[t]] = C!Deviation(i[t]) * C!Deviation(i[t])
      BY <1>2, <3>3, CSquares
    <3>7. /\ Sum(C!Squares, Before(t) \cup {i[t]}) = C!Squares[i[t]] + Sum(C!Squares, Before(t))
          /\ Sum(C!Squares, Before(t)) \in Int
      BY <3>1, <3>3, <3>4, <3>5, SumWith
    <3>8. factor[t] * r = C!Squares[i[t]] /\ C!Squares[i[t]] \in Int
      BY <2>2, <3>3, <3>5, <3>6
    <3>9. cost[t] + factor[t] * r = C!Squares[i[t]] + Sum(C!Squares, Before(t))
      BY <2>2, <3>7, <3>8
    <3>10. cost'[t] = Sum(C!Squares', Before(t)')
      BY <1>3, <1>7, <3>2, <3>7, <3>9
    <3> QED
      BY <1>7, <2>3, <3>10 DEF RaceFree, Using
  <2>4. CASE u # t
    <3>1. Before(u)' = Before(u)
      BY <1>1, <1>7, <2>4, CKept
    <3>2. cost'[u] = Sum(C!Squares', Before(u)')
      BY <1>3, <1>7, <2>1, <2>4, <3>1 DEF RaceFree
    <3> QED
      BY <1>7, <2>2, <2>4, <3>2 DEF RaceFree, Using
  <2> QED
    BY <2>3, <2>4
<1>10. CShares(Finished)' = CShares(Finished)
  BY <1>1, <1>3, <1>7 DEF CShares, Finished
<1> QED
  BY <1>1, <1>2, <1>3, <1>6, <1>8, <1>9, <1>10 DEF CostInv, InCost

\* A thread that has gone through its share adds its part to the cost.
LEMMA CAddToCost ==
  ASSUME C!Assumptions, CostInv, NEW t \in C!Thread, C!AddToCost(t)
  PROVE  CostInv'
<1>1. /\ i[t] > C!length /\ pc[t] = "assign" /\ pc' = [pc EXCEPT ![t] = "done"]
      /\ global_cost' = global_cost + cost[t]
      /\ UNCHANGED <<data, before, global_mean, r, region, i, cost, factor, raced>>
  BY DEF C!AddToCost, C!At
<1>2. CostTypes /\ InCost /\ region # "mean"
  BY <1>1 DEF CostInv, InMean
<1>3. /\ C!length' = C!length /\ C!Squares' = C!Squares
      /\ \A u : Before(u)' = Before(u) /\ C!Share(u)' = C!Share(u)
      /\ \A k : C!Deviation(k)' = C!Deviation(k)
  BY <1>1, CKept
<1>4. LoopOK(t)
  BY <1>2 DEF InCost
<1>5. CostTypes'
  BY <1>1, <1>2 DEF CostTypes
<1>6. pc'[t] = "done" /\ \A u \in C!Thread \ {t} : pc'[u] = pc[u]
  BY <1>1, <1>2 DEF CostTypes
<1>7. \A u \in C!Thread : LoopOK(u)'
  <2>1. LoopOK(t)'
    BY <1>1, <1>3, <1>4, <1>6 DEF LoopOK, Using
  <2> QED
    BY <1>1, <1>2, <1>6, <2>1, CLoopKept DEF InCost
<1>8. ASSUME ~ raced, NEW u \in C!Thread PROVE RaceFree(u)'
  <2>1. RaceFree(u)
    BY <1>2, <1>8 DEF InCost
  <2>2. cost'[u] = Sum(C!Squares', Before(u)')
    BY <1>1, <1>3, <2>1 DEF RaceFree
  <2>3. \A v \in C!Thread : pc'[v] \in Using => pc[v] \in Using /\ v # t
    BY <1>1, <1>6 DEF Using
  <2>4. pc'[u] = "multiply" => pc[u] = "multiply"
    BY <1>6
  <2> QED
    BY <1>1, <1>3, <2>1, <2>2, <2>3, <2>4 DEF RaceFree
<1>9. ASSUME ~ raced PROVE global_cost' = before'.cost + Sum(C!Squares', CShares(Finished)')
  <2>1. global_cost = before.cost + Sum(C!Squares, CShares(Finished)) /\ cost[t] = Sum(C!Squares, Before(t))
    BY <1>2, <1>9 DEF InCost, RaceFree
  <2>2. Before(t) = C!Share(t)
    BY <1>1, <1>2, CAllDone
  <2>3. \A k \in 1 .. C!length : C!Squares[k] \in Int
    BY <1>2, CSquares
  <2>4. pc[t] # "done" /\ data' = data
    BY <1>1
  <2> DEFINE f == C!Squares
  <2> HIDE DEF f
  <2>5. /\ Sum(f, CShares(Finished)') = Sum(f, CShares(Finished)) + Sum(f, C!Share(t))
        /\ Sum(f, CShares(Finished)) \in Int /\ Sum(f, C!Share(t)) \in Int
    <3>1. \A k \in 1 .. C!length : f[k] \in Int
      BY <2>3 DEF f
    <3> QED
      BY <1>1, <1>2, <2>4, <3>1, CEnds
  <2>6. before.cost \in Int /\ before' = before
    BY <1>1, <1>2 DEF CostTypes
  <2>7. global_cost + cost[t] = before.cost + Sum(f, CShares(Finished)')
    BY <2>1, <2>2, <2>5, <2>6 DEF f
  <2> QED
    BY <1>1, <1>3, <2>6, <2>7 DEF f
<1> QED
  BY <1>1, <1>2, <1>3, <1>5, <1>7, <1>8, <1>9 DEF CostInv, InCost

\* Every step keeps the invariant.
LEMMA CStep ==
  ASSUME C!Assumptions, CostInv, [C!Next]_C!vars
  PROVE  CostInv'
<1>1. CASE UNCHANGED C!vars
  <2>1. UNCHANGED <<data, before, global_mean, global_cost, r, region, pc, i, cost, factor, raced>>
    BY <1>1 DEF C!vars
  <2>2. /\ C!length' = C!length /\ C!Squares' = C!Squares
        /\ \A t : C!Share(t)' = C!Share(t) /\ Before(t)' = Before(t)
        /\ \A k : C!Deviation(k)' = C!Deviation(k)
    BY <2>1, CKept
  <2>3. CShares(Finished)' = CShares(Finished)
    BY <2>1, <2>2 DEF CShares, Finished
  <2>4. CostTypes'
    BY <2>1 DEF CostInv, CostTypes
  <2>5. InMean => InMean'
    BY <2>1, <2>3 DEF InMean
  <2>6. \A t \in C!Thread : (LoopOK(t) => LoopOK(t)') /\ (RaceFree(t) => RaceFree(t)')
    BY <2>1, <2>2 DEF LoopOK, RaceFree, Using
  <2>7. InCost => InCost'
    BY <2>1, <2>2, <2>3, <2>6 DEF InCost
  <2> QED
    BY <2>1, <2>4, <2>5, <2>7 DEF CostInv
<1>2. CASE C!Next
  BY <1>2, CAddToMean, CAssign, CLoad, CMultiply, CAddToCost, CEndMean, CEndCost DEF C!Next
<1> QED
  BY <1>1, <1>2

\* CostOfShares: the mean is right under every schedule, the cost too unless r
\* was assigned between another thread's assignment and its two reads, for every
\* array and any number of threads.
THEOREM CostThm ==
  ASSUME C!Assumptions
  PROVE  C!Spec => []C!CostOfShares
<1>1. C!Init => CostInv
  BY CInit
<1>2. CostInv /\ [C!Next]_C!vars => CostInv'
  BY CStep
<1>3. CostInv => C!CostOfShares
  <2> SUFFICES ASSUME CostInv PROVE C!CostOfShares
    OBVIOUS
  <2>1. /\ C!SumFunction(data) = Sum(data, 1 .. C!length)
        /\ C!SumFunction(C!Squares) = Sum(C!Squares, 1 .. C!length)
    <3>1. DOMAIN data = 1 .. C!length /\ DOMAIN C!Squares = 1 .. C!length
      BY CSharesAre DEF CostInv, C!Squares
    <3>2. ASSUME NEW f, DOMAIN f = 1 .. C!length PROVE C!SumFunction(f) = Sum(f, 1 .. C!length)
      BY <3>2 DEF C!SumFunction, C!SumFunctionOnSet, C!FoldFunctionOnSet, C!MapThenFoldSet, Sum, Adds, Pick
    <3> QED
      BY <3>1, <3>2
  <2>2. region # "mean" => InCost
    BY DEF CostInv
  <2>3. ASSUME region = "end" PROVE CShares(Finished) = 1 .. C!length
    <3>1. Finished = C!Thread
      BY <2>2, <2>3 DEF InCost, LoopOK, Finished
    <3> QED
      BY <3>1, CSharesAre DEF CostInv
  <2>4. region \in {"mean", "cost", "end"}
    BY DEF CostInv, CostTypes
  <2> QED
    BY <2>1, <2>2, <2>3, <2>4 DEF C!CostOfShares, InCost
<1> QED
  BY <1>1, <1>2, <1>3, PTL DEF C!Spec

-----------------------------------------------------------------------------

(* BitSet *)

\* The numbers whose bits are set in an array.
Bits(a) == {num \in Num : B!Frame(num) \in DOMAIN a /\ B!Bit(num) \in a[B!Frame(num)]}

\* The arrays that calloc may have made.
Arrays ==
  UNION {[0 .. n - 1 -> SUBSET (0 .. 7)] : n \in {f * b : f \in {1, 8}, b \in Bytes \cup UnsetBytes}}

SetInv ==
  /\ bytes \in [Handle -> Int] /\ elements \in [Handle -> SUBSET Num]
  /\ DOMAIN members = Handle
  /\ sized \subseteq sound /\ sound \subseteq B!Made
  /\ \A h \in B!Made : bytes[h] \in Bytes \cup UnsetBytes /\ members[h] \in Arrays
  /\ \A h \in sized : bytes[h] \in Nat /\ members[h] \in [0 .. bytes[h] - 1 -> SUBSET (0 .. 7)]
  /\ \A h \in sound : Bits(members[h]) = elements[h]

\* An array of calloc is one of Arrays, and none of these is None.
LEMMA ArraysAre ==
  ASSUME NEW n \in Bytes \cup UnsetBytes, B!Assumptions
  PROVE  /\ [0 .. n - 1 -> SUBSET (0 .. 7)] \subseteq Arrays
         /\ [0 .. 8 * n - 1 -> SUBSET (0 .. 7)] \subseteq Arrays
<1>1. 1 * n = n
  BY DEF B!Assumptions
<1> QED
  BY <1>1 DEF Arrays

\* An array of bytes, and those of the same length.
LEMMA ArrayIs ==
  ASSUME NEW c \in Arrays
  PROVE  /\ \E m : c \in [0 .. m - 1 -> SUBSET (0 .. 7)] /\ [0 .. m - 1 -> SUBSET (0 .. 7)] \subseteq Arrays
         /\ B!Assumptions => c # None
<1> DEFINE Of(n) == [0 .. n - 1 -> SUBSET (0 .. 7)]
           S == {f * b : f \in {1, 8}, b \in Bytes \cup UnsetBytes}
<1>1. Arrays = UNION {Of(n) : n \in S}
  BY DEF Arrays
<1>2. ASSUME B!Assumptions, NEW n \in S PROVE None \notin Of(n)
  <2>1. PICK f \in {1, 8}, b \in Bytes \cup UnsetBytes : n = f * b
    OBVIOUS
  <2> HIDE DEF S, Of
  <2>2. None \notin [0 .. f * b - 1 -> SUBSET (0 .. 7)]
    BY <1>2, Zenon DEF B!Assumptions
  <2> QED
    BY <2>1, <2>2 DEF Of
<1> HIDE DEF Of, S
<1>3. PICK n \in S : c \in Of(n)
  BY <1>1
<1>4. Of(n) \subseteq Arrays /\ (B!Assumptions => c # None)
  BY <1>1, <1>2, <1>3
<1> QED
  BY <1>3, <1>4, Zenon DEF Of

\* A number is known by its byte and its bit.
LEMMA BitsOfByte ==
  \A m, n \in Nat : m = n <=> B!Frame(m) = B!Frame(n) /\ B!Bit(m) = B!Bit(n)
BY DEF B!Frame, B!Bit

\* Every number has a byte and a bit of it.
LEMMA FramesAndBits ==
  \A n \in Nat : B!Frame(n) \in Nat /\ B!Bit(n) \in 0 .. 7
BY DEF B!Frame, B!Bit

\* A new set is empty.
LEMMA SetNew ==
  ASSUME B!Assumptions, SetInv, NEW h \in Handle, NEW n \in Bytes, B!New(h, n)
  PROVE  SetInv'
<1> DEFINE a == [f \in 0 .. n - 1 |-> {}]
<1>1. /\ h \notin B!Made /\ bytes' = [bytes EXCEPT ![h] = n] /\ members' = [members EXCEPT ![h] = a]
      /\ elements' = [elements EXCEPT ![h] = {}] /\ sized' = sized \cup {h} /\ sound' = sound \cup {h}
  BY DEF B!New
<1>2. a \in [0 .. n - 1 -> SUBSET (0 .. 7)] /\ n \in Nat /\ n \in Int
  BY DEF B!Assumptions
<1>3. a \in Arrays
  BY <1>2, ArraysAre
<1>4. Bits(a) = {}
  BY DEF Bits
<1> HIDE DEF a
<1>5. B!Made' = B!Made \cup {h}
  BY <1>1, <1>3, ArrayIs DEF B!Made, SetInv
<1> QED
  BY <1>1, <1>2, <1>3, <1>4, <1>5 DEF SetInv, Bits

\* Adding a number sets its bit only.
LEMMA SetAdd ==
  ASSUME B!Assumptions, SetInv, NEW h \in Handle, NEW num \in Num, B!Add(h, num)
  PROVE  SetInv'
<1> DEFINE f == B!Frame(num)
           b == B!Bit(num)
           a == [members[h] EXCEPT ![f] = @ \cup {b}]
<1>1. /\ h \in B!Made /\ f \in DOMAIN members[h] /\ members' = [members EXCEPT ![h] = a]
      /\ elements' = [elements EXCEPT ![h] = @ \cup {num}]
      /\ UNCHANGED <<bytes, sized, sound>>
  BY DEF B!Add, SetInv, B!Made
<1>2. b \in 0 .. 7
  BY FramesAndBits DEF B!Assumptions
<1>3. a \in Arrays /\ (h \in sized => a \in [0 .. bytes[h] - 1 -> SUBSET (0 .. 7)])
  <2>1. PICK m : /\ members[h] \in [0 .. m - 1 -> SUBSET (0 .. 7)]
                 /\ [0 .. m - 1 -> SUBSET (0 .. 7)] \subseteq Arrays
    BY <1>1, ArrayIs, Zenon DEF SetInv
  <2>2. members[h][f] \cup {b} \in SUBSET (0 .. 7)
    BY <1>1, <1>2, <2>1
  <2> HIDE DEF f, b
  <2>3. a \in [0 .. m - 1 -> SUBSET (0 .. 7)]
    BY <1>1, <2>1, <2>2
  <2>4. h \in sized => a \in [0 .. bytes[h] - 1 -> SUBSET (0 .. 7)]
    BY <1>1, <2>1, <2>2 DEF SetInv
  <2> QED
    BY <2>1, <2>3, <2>4
<1>4. Bits(a) = Bits(members[h]) \cup {num}
  <2>1. \A m \in Num : m = num <=> B!Frame(m) = f /\ B!Bit(m) = b
    BY BitsOfByte DEF B!Assumptions
  <2>2. DOMAIN a = DOMAIN members[h]
    OBVIOUS
  <2> HIDE DEF f, b
  <2> QED
    BY <1>1, <2>1, <2>2 DEF Bits
<1> HIDE DEF a
<1>5. B!Made' = B!Made
  BY <1>1, <1>3, ArrayIs DEF B!Made, SetInv
<1> QED
  BY <1>1, <1>3, <1>4, <1>5 DEF SetInv, Bits, B!Made

\* The operations of two sets, byte by byte.
LEMMA SetCombine ==
  ASSUME B!Assumptions, SetInv, NEW op \in {"uni", "inter"},
         NEW d \in Handle, NEW x \in Handle, NEW y \in Handle, B!Combine(op, d, x, y)
  PROVE  SetInv'
<1>1. PICK junk \in {{}, 0 .. 7} : members' = [members EXCEPT ![d] = B!Combined(op, x, y, junk)]
  BY DEF B!Combine
<1> DEFINE n == bytes[x]
           a == B!Combined(op, x, y, junk)
           joint == {x, y} \subseteq sized /\ bytes[x] = bytes[y]
<1>2. PICK g \in UnsetBytes : bytes' = [bytes EXCEPT ![d] = g]
  BY DEF B!Combine
<1>3. /\ d \notin B!Made /\ x \in B!Made /\ y \in B!Made
      /\ elements' = [elements EXCEPT ![d] = B!Joined(op, elements[x], elements[y])]
      /\ sound' = IF joint THEN sound \cup {d} ELSE sound
      /\ sized' = sized
  BY DEF B!Combine
<1>4. n \in Bytes \cup UnsetBytes /\ n \in Int
  BY <1>3 DEF SetInv
<1>5. a \in [0 .. 8 * n - 1 -> SUBSET (0 .. 7)]
  <2> DEFINE Byte(h, f) == IF f \in DOMAIN members[h] THEN members[h][f] ELSE junk
  <2>1. \A h \in {x, y}, f \in 0 .. 8 * n - 1 : Byte(h, f) \in SUBSET (0 .. 7)
    <3>1. \A h \in {x, y} : members[h] \in Arrays
      BY <1>3 DEF SetInv
    <3>2. \A c \in Arrays : \A f \in DOMAIN c : c[f] \in SUBSET (0 .. 7)
      <4>1. ASSUME NEW c \in Arrays, NEW f \in DOMAIN c PROVE c[f] \in SUBSET (0 .. 7)
        <5>1. PICK m : c \in [0 .. m - 1 -> SUBSET (0 .. 7)]
          BY ArrayIs, Zenon
        <5> QED
          BY <5>1
      <4> QED
        BY <4>1
    <3> QED
      BY <3>1, <3>2
  <2>2. a = [f \in 0 .. 8 * n - 1 |->
               IF f < n THEN B!Joined(op, Byte(x, f), Byte(y, f)) ELSE {}]
    BY DEF B!Combined
  <2> HIDE DEF Byte, a
  <2> QED
    BY <2>1, <2>2 DEF B!Joined
<1>6. a \in Arrays
  BY <1>4, <1>5, ArraysAre
<1>7. ASSUME joint PROVE Bits(a) = B!Joined(op, elements[x], elements[y])
  <2>1. /\ n \in Nat /\ DOMAIN members[x] = 0 .. n - 1 /\ DOMAIN members[y] = 0 .. n - 1
        /\ Bits(members[x]) = elements[x] /\ Bits(members[y]) = elements[y]
    BY <1>7 DEF SetInv
  <2>2. \A f \in Nat : f \in 0 .. n - 1 <=> f < n
    BY <2>1
  <2>3. \A f \in 0 .. n - 1 : f \in DOMAIN a /\ a[f] = B!Joined(op, members[x][f], members[y][f])
    BY <2>1 DEF B!Combined
  <2>4. \A f \in DOMAIN a : f \in Nat /\ (~ f < n => a[f] = {})
    BY <2>1 DEF B!Combined
  <2> HIDE DEF a
  <2>5. \A num \in Num : B!Frame(num) \in Nat
    BY FramesAndBits DEF B!Assumptions
  <2>6. \A num \in Num : num \in Bits(a) <=> /\ B!Frame(num) \in 0 .. n - 1
                                             /\ B!Bit(num) \in B!Joined(op, members[x][B!Frame(num)], members[y][B!Frame(num)])
    BY <2>2, <2>3, <2>4, <2>5 DEF Bits
  <2>7. /\ \A num : num \in elements[x] <=> /\ num \in Num
                                             /\ B!Frame(num) \in 0 .. n - 1
                                             /\ B!Bit(num) \in members[x][B!Frame(num)]
        /\ \A num : num \in elements[y] <=> /\ num \in Num
                                             /\ B!Frame(num) \in 0 .. n - 1
                                             /\ B!Bit(num) \in members[y][B!Frame(num)]
    BY <2>1 DEF Bits
  <2>8. Bits(a) \subseteq Num
    BY DEF Bits
  <2> HIDE DEF n
  <2> QED
    BY <2>6, <2>7, <2>8 DEF B!Joined
<1> HIDE DEF a, n
<1>8. B!Made' = B!Made \cup {d}
  BY <1>1, <1>6, ArrayIs DEF B!Made, SetInv, a
<1>9. B!Joined(op, elements[x], elements[y]) \in SUBSET Num
  BY DEF SetInv, B!Joined
<1>10. members' = [members EXCEPT ![d] = a]
  BY <1>1 DEF a
<1> HIDE DEF joint
<1>11. \A h \in sound' : Bits(members'[h]) = elements'[h]
  BY <1>3, <1>7, <1>10 DEF SetInv
<1> QED
  BY <1>2, <1>3, <1>6, <1>8, <1>9, <1>10, <1>11 DEF SetInv, Bits, B!Assumptions

\* Nothing is left of a destroyed set.
LEMMA SetDestroy ==
  ASSUME SetInv, NEW h \in Handle, B!Destroy(h)
  PROVE  SetInv'
<1>1. /\ members' = [members EXCEPT ![h] = None] /\ bytes' = [bytes EXCEPT ![h] = 0]
      /\ elements' = [elements EXCEPT ![h] = {}] /\ sized' = sized \ {h} /\ sound' = sound \ {h}
  BY DEF B!Destroy
<1>2. B!Made' = B!Made \ {h}
  BY <1>1 DEF B!Made, SetInv
<1> QED
  BY <1>1, <1>2 DEF SetInv, Bits

\* HoldsElements: sets hold what they should, for all sets of numbers and sizes.
THEOREM BitSetThm ==
  ASSUME B!Assumptions
  PROVE  B!Spec => []B!HoldsElements
<1>1. B!Init => SetInv
  BY DEF B!Init, SetInv, B!Made
<1>2. SetInv /\ [B!Next]_B!vars => SetInv'
  <2> SUFFICES ASSUME SetInv, [B!Next]_B!vars PROVE SetInv'
    OBVIOUS
  <2>1. CASE UNCHANGED B!vars
    BY <2>1 DEF B!vars, SetInv, B!Made, Bits
  <2>2. CASE B!Next
    BY <2>2, SetNew, SetAdd, SetCombine, SetDestroy DEF B!Next, B!Uni, B!Inter
  <2> QED
    BY <2>1, <2>2
<1>3. SetInv => B!HoldsElements
  BY DEF SetInv, B!HoldsElements, B!Found, B!Exists, Bits
<1> QED
  BY <1>1, <1>2, <1>3, PTL DEF B!Spec

-----------------------------------------------------------------------------

(* DecisionTree *)

Sides == {"left", "right"}

\* predict, with x, goes through a node if it gets so far.
Routed(node, x) ==
  \A d \in 1 .. Len(node) : node[d] = IF x > split[SubSeq(node, 1, d - 1)] THEN "right" ELSE "left"

Separate(a, b) ==
  \/ \A k \in a, m \in b : inputs[k] < inputs[m]
  \/ \A k \in a, m \in b : inputs[k] > inputs[m]

TreeTypes ==
  /\ inputs \in Seq(Int) /\ inputs # <<>>
  /\ round \in Nat
  /\ round = 0 => DOMAIN samples = {} /\ calls = <<>>
  /\ calls \in Seq([node : Seq(Sides), depth : Int])
  /\ DOMAIN split \subseteq DOMAIN samples

NodesOK ==
  \A node \in DOMAIN samples :
    /\ node \in Seq(Sides) /\ samples[node] \subseteq D!Sample
    /\ \A d \in 1 .. Len(node) : SubSeq(node, 1, d - 1) \in DOMAIN split

CallsOK ==
  \A a \in 1 .. Len(calls) :
    /\ calls[a].node \in D!Leaves
    /\ \A b \in 1 .. Len(calls) : a # b => calls[a].node # calls[b].node

Apart ==
  \A leaf, other \in D!Leaves : leaf # other =>
    /\ Separate(samples[leaf], samples[other])
    /\ \A x \in Int : ~ (Routed(leaf, x) /\ Routed(other, x))

Strays(s) == \E node \in D!GreatestOf(s) : split[node] = inputs[s]

AllKept ==
  /\ UNION {samples[leaf] : leaf \in D!Leaves} = D!Sample
  /\ \A leaf \in D!Leaves :
       /\ samples[leaf] # {}
       /\ \A s \in samples[leaf] : Routed(leaf, inputs[s]) \/ Strays(s)

TreeInv ==
  /\ TreeTypes /\ NodesOK /\ CallsOK /\ Apart
  /\ D!IsInjective(inputs) /\ round > 0 => AllKept

\* What a child has from its parent.
LEMMA ChildIs ==
  ASSUME NEW node \in Seq(Sides), NEW side \in Sides, NEW c, c = Append(node, side)
  PROVE  /\ c \in Seq(Sides) /\ c # node /\ D!Last(c) = side
         /\ Len(node) \in Nat /\ Len(c) = Len(node) + 1 /\ c[Len(c)] = side
         /\ \A d \in 1 .. Len(node) : c[d] = node[d] /\ SubSeq(c, 1, d - 1) = SubSeq(node, 1, d - 1)
         /\ SubSeq(c, 1, Len(c) - 1) = node
<1>1. c \in Seq(Sides) /\ Len(node) \in Nat /\ Len(c) = Len(node) + 1 /\ c[Len(c)] = side
  OBVIOUS
<1>2. \A d \in 1 .. Len(node) : c[d] = node[d]
  OBVIOUS
<1>3. ASSUME NEW d \in 1 .. Len(node) PROVE SubSeq(c, 1, d - 1) = SubSeq(node, 1, d - 1)
  OBVIOUS
<1>4. SubSeq(c, 1, Len(c) - 1) = node
  OBVIOUS
<1>5. c # node
  BY <1>1
<1>6. D!Last(c) = side
  BY <1>1 DEF D!Last
<1> QED
  BY <1>1, <1>2, <1>3, <1>4, <1>5, <1>6

\* Before the first tree there is nothing.
LEMMA DInit ==
  ASSUME D!Assumptions, D!Init
  PROVE  TreeInv
<1>1. inputs \in Seq(Int) /\ inputs # <<>>
  BY DEF D!Init, D!Assumptions
<1>2. round = 0 /\ samples = <<>> /\ split = <<>> /\ calls = <<>>
  BY DEF D!Init
<1>3. DOMAIN samples = {} /\ DOMAIN split = {} /\ Len(calls) = 0
  BY <1>2
<1>4. calls \in Seq([node : Seq(Sides), depth : Int])
  BY <1>2
<1> QED
  BY <1>1, <1>2, <1>3, <1>4 DEF TreeInv, TreeTypes, NodesOK, CallsOK, Apart, D!Leaves

\* A new tree is one leaf with all the samples.
LEMMA DCreate ==
  ASSUME D!Assumptions, TreeInv, D!Create
  PROVE  TreeInv'
<1>1. /\ round < Len(Depths) /\ round' = round + 1 /\ inputs' = inputs
      /\ samples' = [node \in {<<>>} |-> D!Sample] /\ split' = <<>>
      /\ calls' = <<[node |-> <<>>, depth |-> Depths[round + 1]]>>
  BY DEF D!Create, D!Root
<1>2. inputs \in Seq(Int) /\ inputs # <<>> /\ round \in Nat /\ Depths \in Seq(Int)
  BY DEF TreeInv, TreeTypes, D!Assumptions
<1>3. DOMAIN samples' = {<<>>} /\ DOMAIN split' = {} /\ samples'[<<>>] = D!Sample /\ D!Sample' = D!Sample
  BY <1>1 DEF D!Sample
<1>4. <<>> \in Seq(Sides) /\ Len(<<>>) = 0
  OBVIOUS
<1>5. /\ calls' \in Seq([node : Seq(Sides), depth : Int]) /\ Len(calls') = 1 /\ calls'[1].node = <<>>
  <2> DEFINE c == [node |-> <<>>, depth |-> Depths[round + 1]]
  <2>1. c \in [node : Seq(Sides), depth : Int] /\ c.node = <<>>
    BY <1>1, <1>2, <1>4
  <2> HIDE DEF c
  <2>2. <<c>> \in Seq([node : Seq(Sides), depth : Int]) /\ Len(<<c>>) = 1 /\ <<c>>[1] = c
    BY <2>1
  <2> QED
    BY <1>1, <2>1, <2>2 DEF c
<1>6. D!Leaves' = {<<>>}
  BY <1>3 DEF D!Leaves
<1>7. TreeTypes'
  BY <1>1, <1>2, <1>3, <1>5 DEF TreeTypes
<1>8. NodesOK'
  BY <1>3, <1>4 DEF NodesOK
<1>9. CallsOK'
  BY <1>5, <1>6 DEF CallsOK
<1>10. Apart'
  BY <1>6 DEF Apart
<1>11. AllKept'
  <2>1. D!Sample # {}
    <3>1. Len(inputs) \in Nat /\ Len(inputs) # 0 /\ DOMAIN inputs = 1 .. Len(inputs)
      BY <1>2, EmptySeq
    <3> QED
      BY <3>1 DEF D!Sample
  <2>2. \A x : Routed(<<>>, x)'
    BY <1>4 DEF Routed
  <2>3. UNION {samples'[leaf] : leaf \in {<<>>}} = D!Sample
    BY <1>3
  <2> QED
    BY <1>3, <1>6, <2>1, <2>2, <2>3 DEF AllKept
<1> QED
  BY <1>7, <1>8, <1>9, <1>10, <1>11 DEF TreeInv

\* How a tree grows at the leaf L, split at v into the parts a and b.
Grows(L, v, a, b) ==
  LET l == D!LeftOf(L)
      m == D!RightOf(L)
  IN /\ L \in D!Leaves /\ l \notin DOMAIN samples /\ m \notin DOMAIN samples /\ l # m /\ L \in Seq(Sides)
     /\ inputs' = inputs /\ round' = round
     /\ DOMAIN samples' = DOMAIN samples \cup {l, m} /\ samples'[l] = a /\ samples'[m] = b
     /\ \A n \in DOMAIN samples : samples'[n] = samples[n]
     /\ DOMAIN split' = DOMAIN split \cup {L} /\ split'[L] = v
     /\ \A n \in DOMAIN split : split'[n] = split[n]

\* The call that is next, and those after it.
LEMMA HeadIs ==
  ASSUME TreeInv, calls # <<>>
  PROVE  /\ Len(calls) \in Nat /\ Len(calls) >= 1 /\ Head(calls) = calls[1]
         /\ calls[1].node \in D!Leaves /\ calls[1].node \in Seq(Sides) /\ calls[1].depth \in Int
         /\ Tail(calls) \in Seq([node : Seq(Sides), depth : Int]) /\ Len(Tail(calls)) = Len(calls) - 1
         /\ \A k \in 1 .. Len(Tail(calls)) : Tail(calls)[k] = calls[k + 1]
<1>1. calls \in Seq([node : Seq(Sides), depth : Int])
  BY DEF TreeInv, TreeTypes
<1>2. Len(calls) \in Nat /\ Len(calls) >= 1
  BY <1>1, EmptySeq
<1>3. calls[1] \in [node : Seq(Sides), depth : Int]
  <2> DEFINE R == [node : Seq(Sides), depth : Int]
  <2>1. calls \in Seq(R)
    BY <1>1
  <2> HIDE DEF R
  <2>2. calls[1] \in R
    BY <1>2, <2>1
  <2> QED
    BY <2>2 DEF R
<1>4. calls[1].node \in D!Leaves
  BY <1>2 DEF TreeInv, CallsOK
<1>5. Head(calls) = calls[1] /\ Tail(calls) \in Seq([node : Seq(Sides), depth : Int])
      /\ Len(Tail(calls)) = Len(calls) - 1 /\ \A k \in 1 .. Len(Tail(calls)) : Tail(calls)[k] = calls[k + 1]
  BY <1>1, HeadTailProperties
<1> QED
  BY <1>2, <1>3, <1>4, <1>5

\* Splitting a leaf makes two leaves of it, which share its way.
LEMMA GrownRoutes ==
  ASSUME TreeTypes, NodesOK, NEW L, NEW v, NEW a, NEW b, Grows(L, v, a, b)
  PROVE  /\ D!Leaves' = (D!Leaves \ {L}) \cup {D!LeftOf(L), D!RightOf(L)}
         /\ \A n \in DOMAIN samples : \A x : Routed(n, x)' <=> Routed(n, x)
         /\ \A x : Routed(D!LeftOf(L), x)' <=> Routed(L, x) /\ ~ (x > v)
         /\ \A x : Routed(D!RightOf(L), x)' <=> Routed(L, x) /\ x > v
         /\ a \subseteq D!Sample /\ b \subseteq D!Sample => NodesOK'
<1> DEFINE l == D!LeftOf(L)
           m == D!RightOf(L)
<1>1. /\ l = Append(L, "left") /\ m = Append(L, "right") /\ "left" \in Sides /\ "right" \in Sides
      /\ "left" # "right"
  BY DEF D!LeftOf, D!RightOf, Sides
<1>2. /\ L \in D!Leaves /\ l \notin DOMAIN samples /\ m \notin DOMAIN samples /\ l # m /\ L \in Seq(Sides)
      /\ inputs' = inputs
      /\ DOMAIN samples' = DOMAIN samples \cup {l, m} /\ samples'[l] = a /\ samples'[m] = b
      /\ \A n \in DOMAIN samples : samples'[n] = samples[n]
      /\ DOMAIN split' = DOMAIN split \cup {L} /\ split'[L] = v
      /\ \A n \in DOMAIN split : split'[n] = split[n]
  BY DEF Grows
<1>3. DOMAIN split \subseteq DOMAIN samples /\ L \in DOMAIN samples /\ L \notin DOMAIN split
  BY <1>2 DEF TreeTypes, D!Leaves
<1> HIDE DEF l, m
<1>4. D!Leaves' = (D!Leaves \ {L}) \cup {l, m}
  BY <1>2, <1>3 DEF D!Leaves
<1>5. ASSUME NEW n \in DOMAIN samples, NEW x PROVE Routed(n, x)' <=> Routed(n, x)
  <2>1. \A d \in 1 .. Len(n) : split'[SubSeq(n, 1, d - 1)] = split[SubSeq(n, 1, d - 1)]
    BY <1>2 DEF NodesOK
  <2> QED
    BY <2>1 DEF Routed
<1>6. ASSUME NEW side \in Sides, NEW c, c = Append(L, side), NEW x
      PROVE  /\ Routed(c, x)' <=> Routed(L, x) /\ side = (IF x > v THEN "right" ELSE "left")
             /\ c \in Seq(Sides)
             /\ \A d \in 1 .. Len(c) : SubSeq(c, 1, d - 1) \in DOMAIN split'
  <2>1. /\ Len(L) \in Nat /\ Len(c) = Len(L) + 1 /\ c[Len(c)] = side /\ c \in Seq(Sides)
        /\ \A d \in 1 .. Len(L) : c[d] = L[d] /\ SubSeq(c, 1, d - 1) = SubSeq(L, 1, d - 1)
        /\ SubSeq(c, 1, Len(c) - 1) = L
    BY <1>2, <1>6, ChildIs
  <2>2. 1 .. Len(c) = 1 .. Len(L) \cup {Len(c)}
    BY <2>1
  <2>3. \A d \in 1 .. Len(L) : SubSeq(L, 1, d - 1) \in DOMAIN split
    BY <1>3 DEF NodesOK
  <2>4. Routed(L, x)' <=> Routed(L, x)
    BY <1>3, <1>5
  <2>5. Routed(L, x)' <=> \A d \in 1 .. Len(L) : c[d] = IF x > split'[SubSeq(c, 1, d - 1)] THEN "right" ELSE "left"
    BY <2>1 DEF Routed
  <2>6. Routed(c, x)' <=> \A d \in 1 .. Len(c) : c[d] = IF x > split'[SubSeq(c, 1, d - 1)] THEN "right" ELSE "left"
    BY DEF Routed
  <2>7. c[Len(c)] = (IF x > split'[SubSeq(c, 1, Len(c) - 1)] THEN "right" ELSE "left")
          <=> side = (IF x > v THEN "right" ELSE "left")
    BY <1>2, <2>1
  <2>8. Routed(c, x)' <=> Routed(L, x) /\ side = (IF x > v THEN "right" ELSE "left")
    BY <2>2, <2>4, <2>5, <2>6, <2>7
  <2>9. \A d \in 1 .. Len(c) : SubSeq(c, 1, d - 1) \in DOMAIN split'
    BY <1>2, <2>1, <2>2, <2>3
  <2> QED
    BY <2>1, <2>8, <2>9
<1>7. \A x : Routed(l, x)' <=> Routed(L, x) /\ ~ (x > v)
  <2> TAKE x
  <2>1. Routed(l, x)' <=> Routed(L, x) /\ "left" = (IF x > v THEN "right" ELSE "left")
    BY <1>1, <1>6
  <2> QED
    BY <1>1, <2>1
<1>8. \A x : Routed(m, x)' <=> Routed(L, x) /\ x > v
  <2> TAKE x
  <2>1. Routed(m, x)' <=> Routed(L, x) /\ "right" = (IF x > v THEN "right" ELSE "left")
    BY <1>1, <1>6
  <2> QED
    BY <1>1, <2>1
<1>9. ASSUME a \subseteq D!Sample /\ b \subseteq D!Sample PROVE NodesOK'
  <2> SUFFICES ASSUME NEW n \in DOMAIN samples'
               PROVE  /\ n \in Seq(Sides) /\ samples'[n] \subseteq D!Sample'
                      /\ \A d \in 1 .. Len(n) : SubSeq(n, 1, d - 1) \in DOMAIN split'
    BY DEF NodesOK
  <2>1. D!Sample' = D!Sample
    BY <1>2 DEF D!Sample
  <2>2. CASE n \in DOMAIN samples
    BY <1>2, <2>1, <2>2 DEF NodesOK
  <2>3. CASE n = l
    BY <1>1, <1>2, <1>6, <1>9, <2>1, <2>3
  <2>4. CASE n = m
    BY <1>1, <1>2, <1>6, <1>9, <2>1, <2>4
  <2> QED
    BY <1>2, <2>2, <2>3, <2>4
<1> QED
  BY <1>4, <1>5, <1>7, <1>8, <1>9 DEF l, m

\* The parts of a node, and where its samples go.
LEMMA PartsAre ==
  ASSUME inputs \in Seq(Int), NEW all, all \subseteq D!Sample, NEW s \in all
  PROVE  LET p == D!Parts(all, s)
         IN /\ p.left \subseteq all /\ p.right \subseteq all
            /\ \A k \in p.left, n \in p.right : inputs[k] < inputs[n]
            /\ D!IsInjective(inputs) =>
                 /\ p.left \cup p.right = all
                 /\ p.right # {} /\ (all # {s} => p.left # {})
                 /\ \A k \in p.left : ~ (inputs[k] > inputs[s])
                 /\ \A k \in p.right : inputs[k] > inputs[s] \/ (k = s /\ \A n \in all : inputs[n] <= inputs[s])
<1> DEFINE below == {k \in all : inputs[k] < inputs[s]}
           above == {k \in all : inputs[k] > inputs[s]}
           p == D!Parts(all, s)
<1>1. \A k \in D!Sample : inputs[k] \in Int
  BY DEF D!Sample
<1>2. p = IF above = {} THEN [left |-> below, right |-> {s}] ELSE [left |-> below \cup {s}, right |-> above]
  BY DEF D!Parts
<1>3. \A k \in all : D!IsInjective(inputs) /\ inputs[k] = inputs[s] => k = s
  BY DEF D!IsInjective, D!Sample
<1>4. CASE above = {}
  <2>1. p.left = below /\ p.right = {s}
    BY <1>2, <1>4
  <2> HIDE DEF p
  <2>2. \A k \in all : inputs[k] <= inputs[s]
    BY <1>1, <1>4
  <2>3. /\ p.left \subseteq all /\ p.right \subseteq all
        /\ \A k \in p.left, n \in p.right : inputs[k] < inputs[n]
    BY <2>1
  <2>4. ASSUME D!IsInjective(inputs)
        PROVE  /\ p.left \cup p.right = all
               /\ p.right # {} /\ (all # {s} => p.left # {})
               /\ \A k \in p.left : ~ (inputs[k] > inputs[s])
               /\ \A k \in p.right : inputs[k] > inputs[s] \/ (k = s /\ \A n \in all : inputs[n] <= inputs[s])
    <3>1. \A k \in all : k \in below \/ k = s
      BY <1>1, <1>3, <2>2, <2>4
    <3>2. \A k \in p.left : ~ (inputs[k] > inputs[s])
      BY <1>1, <2>1
    <3> QED
      BY <2>1, <2>2, <3>1, <3>2
  <2> QED
    BY <2>3, <2>4 DEF p
<1>5. CASE above # {}
  <2>1. p.left = below \cup {s} /\ p.right = above
    BY <1>2, <1>5
  <2> HIDE DEF p
  <2>2. \A k \in p.left, n \in p.right : inputs[k] < inputs[n]
    BY <1>1, <2>1
  <2>3. p.left \subseteq all /\ p.right \subseteq all
    BY <2>1
  <2>4. ASSUME D!IsInjective(inputs)
        PROVE  /\ p.left \cup p.right = all
               /\ p.right # {} /\ (all # {s} => p.left # {})
               /\ \A k \in p.left : ~ (inputs[k] > inputs[s])
               /\ \A k \in p.right : inputs[k] > inputs[s] \/ (k = s /\ \A n \in all : inputs[n] <= inputs[s])
    <3>1. \A k \in all : k \in below \/ k \in above \/ k = s
      BY <1>1, <1>3, <2>4
    <3>2. \A k \in p.left : ~ (inputs[k] > inputs[s])
      BY <1>1, <2>1
    <3>3. p.left \cup p.right = all
      BY <2>1, <3>1
    <3>4. p.right # {} /\ s \in p.left
      BY <1>5, <2>1
    <3>5. \A k \in p.right : inputs[k] > inputs[s]
      BY <2>1
    <3>6. all # {s} => p.left # {}
      BY <3>4
    <3>7. \A k \in p.right : inputs[k] > inputs[s] \/ (k = s /\ \A n \in all : inputs[n] <= inputs[s])
      BY <3>5, Zenon
    <3>8. p.right # {}
      BY <3>4
    <3> HIDE DEF below, above
    <3> QED
      BY <3>2, <3>3, <3>6, <3>7, <3>8, Zenon
  <2> QED
    BY <2>2, <2>3, <2>4 DEF p
<1> QED
  BY <1>4, <1>5

\* Leaves stay apart.
LEMMA GrownApart ==
  ASSUME TreeTypes, NodesOK, Apart, NEW L, NEW v \in Int, NEW a, NEW b, Grows(L, v, a, b),
         a \subseteq samples[L], b \subseteq samples[L], \A k \in a, n \in b : inputs[k] < inputs[n]
  PROVE  Apart'
<1> DEFINE l == D!LeftOf(L)
           m == D!RightOf(L)
<1>1. /\ L \in D!Leaves /\ l \notin DOMAIN samples /\ m \notin DOMAIN samples
      /\ inputs' = inputs /\ samples'[l] = a /\ samples'[m] = b
      /\ \A n \in DOMAIN samples : samples'[n] = samples[n]
  BY DEF Grows
<1>2. /\ D!Leaves' = (D!Leaves \ {L}) \cup {l, m}
      /\ \A n \in DOMAIN samples : \A x : Routed(n, x)' <=> Routed(n, x)
      /\ \A x : Routed(l, x)' <=> Routed(L, x) /\ ~ (x > v)
      /\ \A x : Routed(m, x)' <=> Routed(L, x) /\ x > v
  BY GrownRoutes
<1> HIDE DEF l, m
\* The leaf a new leaf comes from; any other comes from itself.
<1> DEFINE Old(n) == IF n \in {l, m} THEN L ELSE n
<1>3. ASSUME NEW n \in D!Leaves'
      PROVE  /\ Old(n) \in D!Leaves /\ samples'[n] \subseteq samples[Old(n)]
             /\ \A x : Routed(n, x)' => Routed(Old(n), x)
             /\ n \notin {l, m} => Old(n) = n /\ n # L
  BY <1>1, <1>2 DEF D!Leaves
<1>4. ASSUME NEW leaf \in D!Leaves', NEW other \in D!Leaves', leaf # other
      PROVE  /\ Separate(samples[leaf], samples[other])'
             /\ \A x \in Int : ~ (Routed(leaf, x) /\ Routed(other, x))'
  <2>1. CASE Old(leaf) # Old(other)
    <3>1. Old(leaf) \in D!Leaves /\ Old(other) \in D!Leaves
      BY <1>3
    <3>2. /\ samples'[leaf] \subseteq samples[Old(leaf)] /\ samples'[other] \subseteq samples[Old(other)]
          /\ \A x : (Routed(leaf, x)' => Routed(Old(leaf), x)) /\ (Routed(other, x)' => Routed(Old(other), x))
      BY <1>3
    <3> HIDE DEF Old
    <3>3. /\ Separate(samples[Old(leaf)], samples[Old(other)])
          /\ \A x \in Int : ~ (Routed(Old(leaf), x) /\ Routed(Old(other), x))
      BY <2>1, <3>1 DEF Apart
    <3> QED
      BY <1>1, <3>2, <3>3 DEF Separate
  <2>2. CASE Old(leaf) = Old(other)
    <3>1. (leaf = l /\ other = m) \/ (leaf = m /\ other = l)
      <4>1. /\ (leaf \notin {l, m} => Old(leaf) = leaf /\ leaf # L)
            /\ (other \notin {l, m} => Old(other) = other /\ other # L)
        BY <1>3
      <4>2. (leaf \in {l, m} => Old(leaf) = L) /\ (other \in {l, m} => Old(other) = L)
        OBVIOUS
      <4> HIDE DEF Old
      <4> QED
        <5>1. CASE leaf \notin {l, m} /\ other \notin {l, m}
          BY <1>4, <2>2, <4>1, <5>1
        <5>2. CASE leaf \notin {l, m} /\ other \in {l, m}
          BY <2>2, <4>1, <4>2, <5>2
        <5>3. CASE leaf \in {l, m} /\ other \notin {l, m}
          BY <2>2, <4>1, <4>2, <5>3
        <5>4. CASE leaf \in {l, m} /\ other \in {l, m}
          <6>1. leaf # other
            BY <1>4
          <6> QED
            BY <5>4, <6>1
        <5> QED
          BY <5>1, <5>2, <5>3, <5>4
    <3>2. Separate(samples[leaf], samples[other])'
      <4>1. (\A k \in a, n \in b : inputs[k] < inputs[n]) /\ \A k \in b, n \in a : inputs[k] > inputs[n]
        <5>1. \A k \in a \cup b : inputs[k] \in Int
          BY <1>1 DEF NodesOK, D!Leaves, D!Sample, TreeTypes
        <5> QED
          BY <5>1
      <4> QED
        BY <1>1, <3>1, <4>1 DEF Separate
    <3> QED
      BY <1>2, <3>1, <3>2
  <2> QED
    BY <2>1, <2>2
<1> QED
  BY <1>4 DEF Apart

\* No sample is lost, if the inputs are distinct.
LEMMA GrownKept ==
  ASSUME TreeTypes, NodesOK, AllKept, D!IsInjective(inputs), NEW L, NEW s, s \in samples[L], samples[L] # {s},
         Grows(L, inputs[s], D!Parts(samples[L], s).left, D!Parts(samples[L], s).right)
  PROVE  AllKept'
<1> DEFINE l == D!LeftOf(L)
           m == D!RightOf(L)
           a == D!Parts(samples[L], s).left
           b == D!Parts(samples[L], s).right
<1>1. /\ L \in D!Leaves /\ l \notin DOMAIN samples /\ m \notin DOMAIN samples
      /\ inputs' = inputs /\ samples'[l] = a /\ samples'[m] = b
      /\ \A n \in DOMAIN samples : samples'[n] = samples[n]
      /\ DOMAIN split' = DOMAIN split \cup {L} /\ split'[L] = inputs[s]
      /\ \A n \in DOMAIN split : split'[n] = split[n]
  BY DEF Grows
<1>2. L \in DOMAIN samples /\ L \notin DOMAIN split /\ DOMAIN split \subseteq DOMAIN samples
  BY <1>1 DEF TreeTypes, D!Leaves
<1>3. /\ D!Leaves' = (D!Leaves \ {L}) \cup {l, m}
      /\ \A n \in DOMAIN samples : \A x : Routed(n, x)' <=> Routed(n, x)
      /\ \A x : Routed(l, x)' <=> Routed(L, x) /\ ~ (x > inputs[s])
      /\ \A x : Routed(m, x)' <=> Routed(L, x) /\ x > inputs[s]
  BY GrownRoutes
<1>4. samples[L] \subseteq D!Sample /\ inputs \in Seq(Int)
  BY <1>2 DEF NodesOK, TreeTypes
<1>5. /\ a \cup b = samples[L] /\ a # {} /\ b # {}
      /\ \A k \in a : ~ (inputs[k] > inputs[s])
      /\ \A k \in b : inputs[k] > inputs[s] \/ (k = s /\ \A n \in samples[L] : inputs[n] <= inputs[s])
  BY <1>4, PartsAre
<1>6. /\ UNION {samples[leaf] : leaf \in D!Leaves} = D!Sample
      /\ \A leaf \in D!Leaves : /\ samples[leaf] # {}
                                /\ \A k \in samples[leaf] : Routed(leaf, inputs[k]) \/ Strays(k)
  BY DEF AllKept
<1> HIDE DEF l, m, a, b
<1>7. ASSUME NEW k, Strays(k) PROVE Strays(k)'
  <2>1. PICK node \in D!GreatestOf(k) : split[node] = inputs[k]
    BY <1>7 DEF Strays
  <2>2. node \in DOMAIN split /\ k \in samples[node] /\ \A n \in samples[node] : inputs[n] <= inputs[k]
    BY <2>1 DEF D!GreatestOf
  <2>3. node \in DOMAIN split' /\ samples'[node] = samples[node] /\ split'[node] = split[node]
    BY <1>1, <1>2, <2>2
  <2>4. node \in D!GreatestOf(k)'
    BY <1>1, <2>2, <2>3 DEF D!GreatestOf
  <2> QED
    BY <1>1, <2>1, <2>3, <2>4 DEF Strays
<1>8. UNION {samples[leaf] : leaf \in D!Leaves}' = D!Sample'
  <2>1. D!Sample' = D!Sample
    BY <1>1 DEF D!Sample
  <2>2. ASSUME NEW k \in D!Sample PROVE \E leaf \in D!Leaves' : k \in samples'[leaf]
    <3>1. PICK leaf \in D!Leaves : k \in samples[leaf]
      BY <1>6
    <3>2. CASE leaf = L
      BY <1>1, <1>3, <1>5, <3>1, <3>2
    <3>3. CASE leaf # L
      BY <1>1, <1>3, <3>1, <3>3 DEF D!Leaves
    <3> QED
      BY <3>2, <3>3
  <2>3. ASSUME NEW leaf \in D!Leaves' PROVE samples'[leaf] \subseteq D!Sample
    <3>1. CASE leaf = l \/ leaf = m
      BY <1>1, <1>4, <1>5, <3>1
    <3>2. CASE leaf \in D!Leaves
      BY <1>1, <3>2 DEF NodesOK, D!Leaves
    <3> QED
      BY <1>3, <3>1, <3>2
  <2> QED
    BY <2>1, <2>2, <2>3
<1>9. ASSUME NEW leaf \in D!Leaves'
      PROVE  samples'[leaf] # {} /\ \A k \in samples'[leaf] : (Routed(leaf, inputs[k]) \/ Strays(k))'
  <2>1. CASE leaf \in D!Leaves
    <3>1. samples'[leaf] = samples[leaf] /\ leaf \in DOMAIN samples
      BY <1>1, <2>1 DEF D!Leaves
    <3>2. \A k \in samples[leaf] : Routed(leaf, inputs[k])' <=> Routed(leaf, inputs[k])
      BY <1>1, <1>3, <3>1
    <3>3. samples[leaf] # {} /\ \A k \in samples[leaf] : Routed(leaf, inputs[k]) \/ Strays(k)
      BY <1>6, <2>1
    <3> QED
      BY <1>7, <3>1, <3>2, <3>3, Zenon
  <2>2. \A k \in samples[L] : Routed(L, inputs[k]) \/ Strays(k)
    BY <1>1, <1>6
  <2>3. \A x : Routed(l, x)' <=> Routed(L, x) /\ ~ (x > inputs[s])
    BY <1>3
  <2>4. \A x : Routed(m, x)' <=> Routed(L, x) /\ x > inputs[s]
    BY <1>3
  <2>5. CASE leaf = l
    <3>1. \A k \in a : k \in samples[L] /\ ~ (inputs[k] > inputs[s])
      BY <1>5
    <3>2. \A k \in a : Routed(l, inputs[k])' \/ Strays(k)'
      <4> TAKE k \in a
      <4>1. inputs'[k] = inputs[k]
        BY <1>1
      <4>2. Routed(l, inputs[k])' <=> Routed(L, inputs[k])
        BY <1>1, <2>3, <3>1
      <4> QED
        BY <1>7, <2>2, <3>1, <4>2
    <3> QED
      BY <1>1, <1>5, <2>5, <3>2
  <2>6. CASE leaf = m
    <3>1. \A k \in b : Routed(m, inputs[k])' \/ Strays(k)'
      <4> TAKE k \in b
      <4>1. k \in samples[L] /\ (inputs[k] > inputs[s] \/ (k = s /\ \A n \in samples[L] : inputs[n] <= inputs[s]))
        BY <1>5
      <4>2. CASE inputs[k] > inputs[s]
        <5>1. Routed(m, inputs[k])' <=> Routed(L, inputs[k])
          BY <1>1, <2>4, <4>2
        <5> QED
          BY <1>7, <2>2, <4>1, <5>1
      <4>3. CASE k = s /\ \A n \in samples[L] : inputs[n] <= inputs[s]
        <5>1. L \in D!GreatestOf(k)'
          BY <1>1, <1>2, <4>1, <4>3 DEF D!GreatestOf
        <5> QED
          BY <1>1, <4>3, <5>1 DEF Strays
      <4> QED
        BY <4>1, <4>2, <4>3
    <3> QED
      BY <1>1, <1>5, <2>6, <3>1
  <2> QED
    BY <1>3, <2>1, <2>5, <2>6
<1> QED
  BY <1>8, <1>9 DEF AllKept

\* A call that returns leaves the tree as it is.
LEMMA DReturn ==
  ASSUME TreeInv, D!Return
  PROVE  TreeInv'
<1>1. /\ calls # <<>> /\ calls' = Tail(calls) /\ inputs' = inputs /\ round' = round
      /\ samples' = samples /\ split' = split
  BY DEF D!Return
<1>2. /\ Len(calls) \in Nat /\ Len(calls) >= 1
      /\ calls' \in Seq([node : Seq(Sides), depth : Int]) /\ Len(calls') = Len(calls) - 1
      /\ \A k \in 1 .. Len(calls') : calls'[k] = calls[k + 1]
  BY <1>1, HeadIs
<1>3. TreeTypes'
  <2>1. round # 0
    BY <1>1 DEF TreeInv, TreeTypes
  <2> QED
    BY <1>1, <1>2, <2>1 DEF TreeInv, TreeTypes
<1>4. CallsOK'
  <2>1. \A k \in 1 .. Len(calls') : calls[k + 1].node \in D!Leaves /\ k + 1 \in 1 .. Len(calls)
    BY <1>2 DEF TreeInv, CallsOK
  <2>2. D!Leaves' = D!Leaves
    BY <1>1 DEF D!Leaves
  <2>3. ASSUME NEW g \in 1 .. Len(calls'), NEW h \in 1 .. Len(calls'), g # h
        PROVE  calls'[g].node # calls'[h].node
    <3>1. g + 1 \in 1 .. Len(calls) /\ h + 1 \in 1 .. Len(calls) /\ g + 1 # h + 1
      BY <1>2, <2>3
    <3>2. calls[g + 1].node # calls[h + 1].node
      BY <3>1 DEF TreeInv, CallsOK
    <3> QED
      BY <1>2, <3>2
  <2> QED
    BY <1>2, <2>1, <2>2, <2>3 DEF CallsOK
<1>5. NodesOK' /\ Apart' /\ ((D!IsInjective(inputs) /\ round > 0)' => AllKept')
  BY <1>1 DEF TreeInv, NodesOK, Apart, AllKept, D!Leaves, D!Sample, D!GreatestOf, Separate, Routed, Strays,
               D!IsInjective
<1> QED
  BY <1>3, <1>4, <1>5 DEF TreeInv

\* A step that changes predictions only leaves the tree as it is.
LEMMA DKeeps ==
  ASSUME TreeInv, UNCHANGED <<inputs, round, samples, split, calls>>
  PROVE  TreeInv'
<1>1. inputs' = inputs /\ round' = round /\ samples' = samples /\ split' = split /\ calls' = calls
  OBVIOUS
<1>2. TreeTypes' /\ CallsOK'
  BY <1>1 DEF TreeInv, TreeTypes, CallsOK, D!Leaves
<1>3. NodesOK' /\ Apart' /\ ((D!IsInjective(inputs) /\ round > 0)' => AllKept')
  BY <1>1 DEF TreeInv, NodesOK, Apart, AllKept, D!Leaves, D!Sample, D!GreatestOf, Separate, Routed, Strays,
               D!IsInjective
<1> QED
  BY <1>2, <1>3 DEF TreeInv

\* The cardinality that DecisionTree uses is the usual one.
LEMMA TheSameCardinality ==
  ASSUME NEW S
  PROVE  D!Cardinality(S) = Cardinality(S)
BY DEF D!Cardinality, Cardinality

\* gen_children grows the tree by two leaves that no call is about yet.
LEMMA DSplit ==
  ASSUME TreeInv, D!Split
  PROVE  TreeInv'
<1> DEFINE L == calls[1].node
           l == D!LeftOf(L)
           m == D!RightOf(L)
<1>1. calls # <<>> /\ ~ D!Returns(Head(calls)) /\ inputs' = inputs /\ round' = round
  BY DEF D!Split
<1>2. /\ Len(calls) \in Nat /\ Len(calls) >= 1 /\ Head(calls) = calls[1]
      /\ L \in D!Leaves /\ L \in Seq(Sides) /\ calls[1].depth \in Int
      /\ Tail(calls) \in Seq([node : Seq(Sides), depth : Int]) /\ Len(Tail(calls)) = Len(calls) - 1
      /\ \A k \in 1 .. Len(Tail(calls)) : Tail(calls)[k] = calls[k + 1]
  BY <1>1, HeadIs
<1>3. TreeTypes /\ NodesOK /\ CallsOK /\ Apart
  BY DEF TreeInv
<1>4. L \in DOMAIN samples /\ L \notin DOMAIN split /\ DOMAIN split \subseteq DOMAIN samples
  BY <1>2, <1>3 DEF TreeTypes, D!Leaves
<1>5. round # 0
  BY <1>1, <1>3 DEF TreeTypes
<1>22. ASSUME NEW side \in Sides, NEW c, c = Append(L, side)
       PROVE  /\ c \in Seq(Sides) /\ c # L /\ D!Last(c) = side /\ Len(c) = Len(L) + 1 /\ c[Len(c)] = side
              /\ SubSeq(c, 1, Len(c) - 1) = L /\ Len(L) \in Nat
  <2>1. L \in Seq(Sides)
    BY <1>2
  <2> HIDE DEF L
  <2>2. c \in Seq(Sides) /\ c # L
    BY <1>22, <2>1, ChildIs, Zenon
  <2>4. Len(c) = Len(L) + 1 /\ Len(L) \in Nat
    BY <1>22, <2>1, ChildIs, Zenon
  <2>5. c[Len(c)] = side
    BY <1>22, <2>1
  <2>3. D!Last(c) = side
    BY <2>5 DEF D!Last
  <2>6. SubSeq(c, 1, Len(c) - 1) = L
    BY <1>22, <2>1, ChildIs, Zenon
  <2> QED
    BY <2>2, <2>3, <2>4, <2>5, <2>6
<1>6. /\ l \in Seq(Sides) /\ l # L /\ D!Last(l) = "left" /\ Len(l) = Len(L) + 1 /\ l[Len(l)] = "left"
      /\ SubSeq(l, 1, Len(l) - 1) = L /\ Len(L) \in Nat
  <2>1. l = Append(L, "left") /\ "left" \in Sides
    BY DEF D!LeftOf, Sides
  <2> HIDE DEF l, L
  <2> QED
    BY <1>22, <2>1
<1>7. /\ m \in Seq(Sides) /\ m # L /\ D!Last(m) = "right" /\ Len(m) = Len(L) + 1 /\ m[Len(m)] = "right"
      /\ SubSeq(m, 1, Len(m) - 1) = L
  <2>1. m = Append(L, "right") /\ "right" \in Sides
    BY DEF D!RightOf, Sides
  <2> HIDE DEF m, L
  <2> QED
    BY <1>22, <2>1
<1>8. l # m /\ l \notin DOMAIN samples /\ m \notin DOMAIN samples
  <2>1. l # m
    BY <1>6, <1>7
  <2>2. ASSUME NEW c, c \in DOMAIN samples, Len(c) = Len(L) + 1, SubSeq(c, 1, Len(c) - 1) = L PROVE FALSE
    <3>1. Len(c) \in 1 .. Len(c)
      BY <1>6, <2>2
    <3>2. SubSeq(c, 1, Len(c) - 1) \in DOMAIN split
      BY <1>3, <2>2, <3>1 DEF NodesOK
    <3> QED
      BY <1>4, <2>2, <3>2
  <2> QED
    BY <1>6, <1>7, <2>1, <2>2
<1>9. PICK s \in samples[L] :
        /\ samples' = [n \in DOMAIN samples \cup {l, m} |->
                         IF n \in {l, m} THEN D!Parts(samples[L], s)[D!Last(n)] ELSE samples[n]]
        /\ split' = [n \in DOMAIN split \cup {L} |-> IF n = L THEN inputs[s] ELSE split[n]]
  BY <1>2 DEF D!Split
<1>10. calls' = <<[node |-> l, depth |-> calls[1].depth - 1],
                  [node |-> m, depth |-> calls[1].depth - 1]>> \o Tail(calls)
  BY <1>2 DEF D!Split
<1> DEFINE p == D!Parts(samples[L], s)
<1>11. /\ samples[L] \subseteq D!Sample /\ inputs \in Seq(Int) /\ inputs[s] \in Int
  BY <1>3, <1>4, <1>9 DEF NodesOK, TreeTypes, D!Sample
<1>12. p["left"] = p.left /\ p["right"] = p.right
  OBVIOUS
<1>13. /\ p.left \subseteq samples[L] /\ p.right \subseteq samples[L]
       /\ \A k \in p.left, n \in p.right : inputs[k] < inputs[n]
  <2>1. inputs \in Seq(Int) /\ samples[L] \subseteq D!Sample /\ s \in samples[L]
    BY <1>9, <1>11
  <2> HIDE DEF L
  <2> QED
    BY <2>1, PartsAre
<1> HIDE DEF p
<1>14. Grows(L, inputs[s], p.left, p.right)
  <2>1. /\ DOMAIN samples' = DOMAIN samples \cup {l, m} /\ samples'[l] = p.left /\ samples'[m] = p.right
        /\ \A n \in DOMAIN samples : samples'[n] = samples[n]
    BY <1>6, <1>7, <1>8, <1>9, <1>12 DEF p
  <2>2. /\ DOMAIN split' = DOMAIN split \cup {L} /\ split'[L] = inputs[s]
        /\ \A n \in DOMAIN split : split'[n] = split[n]
    BY <1>4, <1>9
  <2> QED
    BY <1>1, <1>2, <1>8, <2>1, <2>2 DEF Grows
<1>15. /\ D!Leaves' = (D!Leaves \ {L}) \cup {l, m}
       /\ NodesOK'
  BY <1>3, <1>11, <1>13, <1>14, GrownRoutes
<1>16. Apart'
  BY <1>3, <1>11, <1>13, <1>14, GrownApart
<1>17. (D!IsInjective(inputs) /\ round > 0)' => AllKept'
  <2> SUFFICES ASSUME D!IsInjective(inputs), round > 0 PROVE AllKept'
    BY <1>1 DEF D!IsInjective
  <2>1. AllKept
    BY DEF TreeInv
  <2>2. samples[L] # {s}
    <3>1. Cardinality({s}) = 1
      BY FS_Singleton
    <3>2. ~ (Cardinality(samples[L]) < 2)
      BY <1>1, <1>2, TheSameCardinality DEF D!Returns
    <3> QED
      BY <3>1, <3>2
  <2> QED
    BY <1>3, <1>9, <1>14, <2>1, <2>2, GrownKept DEF p
<1> DEFINE R == [node : Seq(Sides), depth : Int]
           c1 == [node |-> l, depth |-> calls[1].depth - 1]
           c2 == [node |-> m, depth |-> calls[1].depth - 1]
<1>18. c1 \in R /\ c2 \in R /\ c1.node = l /\ c2.node = m
  BY <1>2, <1>6, <1>7
<1> HIDE DEF R, c1, c2, l, m
<1>19. /\ calls' \in Seq(R) /\ Len(calls') = Len(calls) + 1 /\ calls'[1] = c1 /\ calls'[2] = c2
       /\ \A k \in 3 .. Len(calls') : calls'[k] = calls[k - 1]
  <2>1. <<c1, c2>> \in Seq(R) /\ Len(<<c1, c2>>) = 2 /\ <<c1, c2>>[1] = c1 /\ <<c1, c2>>[2] = c2
    BY <1>18
  <2>2. Tail(calls) \in Seq(R)
    BY <1>2 DEF R
  <2>3. calls' = <<c1, c2>> \o Tail(calls)
    BY <1>10 DEF c1, c2
  <2>4. calls' \in Seq(R) /\ Len(calls') = 2 + Len(Tail(calls))
    BY <2>1, <2>2, <2>3
  <2>5. \A k \in 1 .. Len(calls') : calls'[k] = IF k <= 2 THEN <<c1, c2>>[k] ELSE Tail(calls)[k - 2]
    BY <2>1, <2>2, <2>3
  <2>6. \A k \in 3 .. Len(calls') : k - 2 \in 1 .. Len(Tail(calls)) /\ (k - 2) + 1 = k - 1 /\ ~ (k <= 2)
    BY <1>2, <2>4
  <2>7. \A k \in 3 .. Len(calls') : calls'[k] = calls[k - 1]
    BY <1>2, <2>4, <2>5, <2>6
  <2>8. Len(calls') = Len(calls) + 1
    BY <1>2, <2>4
  <2>9. calls'[1] = c1 /\ calls'[2] = c2
    BY <1>2, <2>1, <2>5, <2>8
  <2> QED
    BY <2>4, <2>7, <2>8, <2>9
<1>20. TreeTypes'
  BY <1>1, <1>3, <1>4, <1>5, <1>14, <1>19 DEF TreeTypes, Grows, R
<1>21. CallsOK'
  <2>1. 1 .. Len(calls') = {1, 2} \cup 3 .. Len(calls')
    BY <1>2, <1>19
  <2>2. \A k \in 3 .. Len(calls') : k - 1 \in 1 .. Len(calls) /\ k - 1 # 1
    BY <1>2, <1>19
  <2>3. ASSUME NEW k \in 3 .. Len(calls')
        PROVE  calls'[k].node \in D!Leaves /\ calls'[k].node # L
    <3>1. calls'[k] = calls[k - 1] /\ k - 1 \in 1 .. Len(calls) /\ k - 1 # 1 /\ 1 \in 1 .. Len(calls)
      BY <1>2, <1>19, <2>2
    <3> HIDE DEF L
    <3>2. calls[k - 1].node \in D!Leaves /\ calls[k - 1].node # calls[1].node
      BY <1>3, <3>1 DEF CallsOK
    <3> QED
      BY <3>1, <3>2 DEF L
  <2>4. calls'[1].node = l /\ calls'[2].node = m
    BY <1>18, <1>19
  <2>5. \A n \in D!Leaves : n # l /\ n # m
    BY <1>8 DEF D!Leaves
  <2>6. \A k \in 1 .. Len(calls') : calls'[k].node \in D!Leaves'
    BY <1>15, <2>1, <2>3, <2>4
  <2>7. ASSUME NEW g \in 3 .. Len(calls'), NEW h \in 3 .. Len(calls'), g # h
        PROVE  calls'[g].node # calls'[h].node
    <3>1. g - 1 \in 1 .. Len(calls) /\ h - 1 \in 1 .. Len(calls) /\ g - 1 # h - 1
      BY <2>2, <2>7
    <3>2. calls[g - 1].node # calls[h - 1].node
      BY <1>3, <3>1 DEF CallsOK
    <3> QED
      BY <1>19, <3>2
  <2>8. ASSUME NEW g \in 1 .. Len(calls'), NEW h \in 1 .. Len(calls'), g # h
        PROVE  calls'[g].node # calls'[h].node
    BY <1>8, <2>1, <2>3, <2>4, <2>5, <2>7, <2>8
  <2> QED
    BY <2>6, <2>8 DEF CallsOK
<1> QED
  BY <1>15, <1>16, <1>17, <1>20, <1>21 DEF TreeInv

\* predict ends at the only leaf it can get to.
LEMMA LeafIs ==
  ASSUME Apart, NEW x \in Int, NEW leaf \in D!Leaves, Routed(leaf, x)
  PROVE  D!LeafFor(x) = leaf
<1>1. \A other \in D!Leaves : Routed(other, x) => other = leaf
  BY DEF Apart
<1>2. D!LeafFor(x) = CHOOSE n \in D!Leaves : Routed(n, x)
  BY Zenon DEF D!LeafFor, Routed
<1> QED
  BY <1>1, <1>2

\* What the invariant says of a fitted tree.
LEMMA InLeaves ==
  ASSUME TreeInv
  PROVE  D!SamplesInLeaves
<1> SUFFICES ASSUME calls = <<>>, round > 0
             PROVE  /\ \A leaf \in D!Leaves :
                         \A other \in D!Leaves \ {leaf} : Separate(samples[leaf], samples[other])
                    /\ D!IsInjective(inputs) =>
                         /\ UNION {samples[leaf] : leaf \in D!Leaves} = D!Sample
                         /\ \A leaf \in D!Leaves : samples[leaf] # {}
                         /\ \A s \in D!Sample : s \in samples[D!LeafFor(inputs[s])] \/ Strays(s)
  BY DEF D!SamplesInLeaves, Separate, Strays
<1>1. \A leaf \in D!Leaves : \A other \in D!Leaves \ {leaf} : Separate(samples[leaf], samples[other])
  BY DEF TreeInv, Apart
<1>2. ASSUME D!IsInjective(inputs)
      PROVE  /\ UNION {samples[leaf] : leaf \in D!Leaves} = D!Sample
             /\ \A leaf \in D!Leaves : samples[leaf] # {}
             /\ \A s \in D!Sample : s \in samples[D!LeafFor(inputs[s])] \/ Strays(s)
  <2>1. AllKept
    BY <1>2 DEF TreeInv
  <2>2. ASSUME NEW s \in D!Sample PROVE s \in samples[D!LeafFor(inputs[s])] \/ Strays(s)
    <3>1. PICK leaf \in D!Leaves : s \in samples[leaf]
      BY <2>1 DEF AllKept
    <3>2. Routed(leaf, inputs[s]) \/ Strays(s)
      BY <2>1, <3>1 DEF AllKept
    <3>3. inputs[s] \in Int
      BY DEF TreeInv, TreeTypes, D!Sample
    <3>4. Apart
      BY DEF TreeInv
    <3>5. Routed(leaf, inputs[s]) => D!LeafFor(inputs[s]) = leaf
      BY <3>3, <3>4, LeafIs
    <3> QED
      BY <3>1, <3>2, <3>5
  <2> QED
    BY <2>1, <2>2 DEF AllKept
<1> QED
  BY <1>1, <1>2

\* Whatever inputs are drawn and whatever splits are chosen, any two leaves of
\* a fitted tree hold different inputs, one all below the other; and if the
\* inputs are distinct the leaves share out all samples, none is empty, and
\* predict finds the leaf of a sample but for the strays (dt.c:207-236, 300-317).
THEOREM DecisionTreeThm ==
  ASSUME D!Assumptions
  PROVE  D!Spec => []D!SamplesInLeaves
<1>1. D!Init => TreeInv
  BY DInit
<1>2. TreeInv /\ [D!Next]_(D!vars) => TreeInv'
  <2> SUFFICES ASSUME TreeInv, [D!Next]_(D!vars) PROVE TreeInv'
    OBVIOUS
  <2>1. CASE D!Create
    BY <2>1, DCreate
  <2>2. CASE D!Return
    BY <2>2, DReturn
  <2>3. CASE D!Split
    BY <2>3, DSplit
  <2>4. CASE D!Predict
    BY <2>4, DKeeps DEF D!Predict
  <2>5. CASE UNCHANGED D!vars
    BY <2>5, DKeeps DEF D!vars
  <2> QED
    BY <2>1, <2>2, <2>3, <2>4, <2>5 DEF D!Next
<1>3. TreeInv => D!SamplesInLeaves
  BY InLeaves
<1> QED
  BY <1>1, <1>2, <1>3, PTL DEF D!Spec

-----------------------------------------------------------------------------

(* Strings *)

\* The sizes that a buffer gets: halving one leaves no remainder before 1.
Doubled(s) ==
  \E T \in SUBSET Nat : s \in T /\ \A k \in T : k >= 1 /\ (k = 1 \/ \E j \in T : k = 2 * j)

\* They begin with 2 and are doubled.
LEMMA DoubledOnce ==
  Doubled(2) /\ \A s \in Nat : Doubled(s) => Doubled(2 * s)
<1>1. Doubled(2)
  <2>1. {1, 2} \in SUBSET Nat /\ \A k \in {1, 2} : k >= 1 /\ (k = 1 \/ \E j \in {1, 2} : k = 2 * j)
    OBVIOUS
  <2> QED
    BY <2>1 DEF Doubled
<1>2. ASSUME NEW s \in Nat, Doubled(s) PROVE Doubled(2 * s)
  <2>1. PICK T \in SUBSET Nat : s \in T /\ \A k \in T : k >= 1 /\ (k = 1 \/ \E j \in T : k = 2 * j)
    BY <1>2 DEF Doubled
  <2> DEFINE U == T \cup {2 * s}
  <2>2. U \in SUBSET Nat /\ 2 * s \in U /\ 2 * s >= 1 /\ s \in U
    BY <2>1
  <2>3. \A k \in U : k >= 1 /\ (k = 1 \/ \E j \in U : k = 2 * j)
    BY <2>1, <2>2
  <2> HIDE DEF U
  <2> QED
    BY <2>2, <2>3 DEF Doubled
<1> QED
  BY <1>1, <1>2

\* The sizes that new_string gets to, after each character.
Growth(g, m) ==
  g = [n \in 0 .. m |-> IF n = 0 THEN 2 ELSE IF n - 1 > g[n - 1] THEN 2 * g[n - 1] ELSE g[n - 1]]

\* new_string's loop: character by character there is a size of the buffer.
LEMMA SomeGrowth ==
  \A m \in Nat : \E g : Growth(g, m)
<1> DEFINE Bad == {m \in Nat : ~ \E g : Growth(g, m)}
<1>1. SUFFICES ASSUME Bad # {} PROVE FALSE
  OBVIOUS
<1>2. PICK m \in Bad : \A k \in Bad : ~ (k < m)
  <2>1. Bad \in SUBSET Nat
    OBVIOUS
  <2> HIDE DEF Bad
  <2> QED
    BY <1>1, <2>1, Lowest
<1>3. m \in Nat /\ ~ \E g : Growth(g, m)
  OBVIOUS
<1>4. CASE m = 0
  <2> DEFINE g == [n \in 0 .. 0 |-> 2]
  <2>1. Growth(g, 0)
    BY DEF Growth
  <2> QED
    BY <1>3, <1>4, <2>1
<1>5. CASE m # 0
  <2>1. m - 1 \in Nat /\ m - 1 < m
    BY <1>3, <1>5
  <2>2. PICK h : Growth(h, m - 1)
    BY <1>2, <2>1
  <2> DEFINE v == IF m - 1 > h[m - 1] THEN 2 * h[m - 1] ELSE h[m - 1]
             g == [n \in 0 .. m |-> IF n = m THEN v ELSE h[n]]
  <2>3. \A n \in 0 .. m - 1 : g[n] = h[n]
    BY <1>3
  <2>4. g[m] = v
    BY <1>3
  <2>5. \A n \in 0 .. m - 1 :
          h[n] = IF n = 0 THEN 2 ELSE IF n - 1 > h[n - 1] THEN 2 * h[n - 1] ELSE h[n - 1]
    BY <2>2, Zenon DEF Growth
  <2>6. \A n \in 0 .. m :
          g[n] = IF n = 0 THEN 2 ELSE IF n - 1 > g[n - 1] THEN 2 * g[n - 1] ELSE g[n - 1]
    <3> TAKE n \in 0 .. m
    <3>1. CASE n = m
      <4>1. g[m - 1] = h[m - 1]
        BY <2>1, <2>3
      <4> HIDE DEF g
      <4> QED
        BY <1>5, <2>4, <3>1, <4>1
    <3>2. CASE n # m
      <4>1. n \in 0 .. m - 1 /\ (n # 0 => n - 1 \in 0 .. m - 1)
        BY <1>3, <3>2
      <4>2. g[n] = h[n] /\ (n # 0 => g[n - 1] = h[n - 1])
        BY <2>3, <4>1
      <4> HIDE DEF g
      <4> QED
        BY <2>5, <4>1, <4>2
    <3> QED
      BY <3>1, <3>2
  <2>7. g = [n \in 0 .. m |-> g[n]]
    OBVIOUS
  <2> HIDE DEF g
  <2>8. Growth(g, m)
    BY <2>6, <2>7 DEF Growth
  <2> QED
    BY <1>3, <2>8
<1> QED
  BY <1>4, <1>5

\* The size that new_string ends with is one byte short of the characters at
\* worst, two short of them and their terminator.
LEMMA SizeIs ==
  ASSUME NEW a, Len(a) \in Nat
  PROVE  /\ Str!SizeFor(a) \in Nat /\ Str!SizeFor(a) >= 2 /\ Doubled(Str!SizeFor(a))
         /\ Len(a) <= Str!SizeFor(a) + 1
<1> DEFINE L == Len(a)
           g == CHOOSE h : Growth(h, L)
<1>1. Str!SizeFor(a) = g[L]
  BY DEF Str!SizeFor, Growth
<1>2. Growth(g, L)
  BY SomeGrowth
<1> HIDE DEF g
<1>3. \A n \in 0 .. L : g[n] = IF n = 0 THEN 2 ELSE IF n - 1 > g[n - 1] THEN 2 * g[n - 1] ELSE g[n - 1]
  BY <1>2, Zenon DEF Growth
<1> DEFINE OK(n) == g[n] \in Nat /\ g[n] >= 2 /\ Doubled(g[n]) /\ n <= g[n] + 1
           Bad == {n \in 0 .. L : ~ OK(n)}
<1>4. Bad = {}
  <2> SUFFICES ASSUME Bad # {} PROVE FALSE
    OBVIOUS
  <2>1. PICK n \in Bad : \A k \in Bad : ~ (k < n)
    <3>1. Bad \in SUBSET Nat
      OBVIOUS
    <3> HIDE DEF Bad
    <3> QED
      BY <3>1, Lowest
  <2>2. n \in 0 .. L /\ ~ OK(n)
    BY <2>1
  <2>3. CASE n = 0
    BY <1>3, <2>2, <2>3, DoubledOnce
  <2>4. CASE n # 0
    <3>1. n - 1 \in 0 .. L /\ n - 1 < n
      BY <2>2, <2>4
    <3>2. OK(n - 1)
      BY <2>1, <3>1
    <3>3. g[n] = IF n - 1 > g[n - 1] THEN 2 * g[n - 1] ELSE g[n - 1]
      BY <1>3, <2>2, <2>4
    <3>4. Doubled(2 * g[n - 1])
      BY <3>2, DoubledOnce
    <3>5. CASE n - 1 > g[n - 1]
      <4>1. g[n] = 2 * g[n - 1]
        BY <3>3, <3>5
      <4>2. g[n] \in Nat /\ g[n] >= 2 /\ n <= g[n] + 1
        BY <2>2, <3>2, <4>1
      <4> QED
        BY <2>2, <3>4, <4>1, <4>2
    <3>6. CASE ~ (n - 1 > g[n - 1])
      <4>1. g[n] = g[n - 1]
        BY <3>3, <3>6
      <4>2. n <= g[n] + 1
        BY <2>2, <3>2, <3>6, <4>1
      <4> QED
        BY <2>2, <3>2, <4>1, <4>2
    <3> QED
      BY <3>5, <3>6
  <2> QED
    BY <2>3, <2>4
<1> QED
  BY <1>1, <1>4

\* What string_slice halves each size to, for a length n.
Halves(g, m, n) == g = [k \in 0 .. m |-> IF k > n THEN g[k \div 2] ELSE k]

\* string_slice's loop ends.
LEMMA SomeHalves ==
  ASSUME NEW n \in Nat
  PROVE  \A m \in Nat : \E g : Halves(g, m, n)
<1> DEFINE Bad == {m \in Nat : ~ \E g : Halves(g, m, n)}
<1>1. SUFFICES ASSUME Bad # {} PROVE FALSE
  OBVIOUS
<1>2. PICK m \in Bad : \A k \in Bad : ~ (k < m)
  <2>1. Bad \in SUBSET Nat
    OBVIOUS
  <2> HIDE DEF Bad
  <2> QED
    BY <1>1, <2>1, Lowest
<1>3. m \in Nat /\ ~ \E g : Halves(g, m, n)
  OBVIOUS
<1>4. CASE m = 0
  <2> DEFINE g == [k \in 0 .. 0 |-> k]
  <2>1. \A k \in 0 .. 0 : ~ (k > n)
    OBVIOUS
  <2>2. Halves(g, 0, n)
    BY <2>1 DEF Halves
  <2> QED
    BY <1>3, <1>4, <2>2
<1>5. CASE m # 0
  <2>1. m - 1 \in Nat /\ m - 1 < m /\ m \div 2 \in 0 .. m - 1
    BY <1>3, <1>5
  <2>2. PICK h : Halves(h, m - 1, n)
    BY <1>2, <2>1
  <2> DEFINE v == IF m > n THEN h[m \div 2] ELSE m
             g == [k \in 0 .. m |-> IF k = m THEN v ELSE h[k]]
  <2>3. \A k \in 0 .. m - 1 : g[k] = h[k]
    BY <1>3
  <2>4. g[m] = v
    BY <1>3
  <2>5. \A k \in 0 .. m - 1 : h[k] = IF k > n THEN h[k \div 2] ELSE k
    BY <2>2, Zenon DEF Halves
  <2>6. \A k \in 0 .. m : g[k] = IF k > n THEN g[k \div 2] ELSE k
    <3> TAKE k \in 0 .. m
    <3>1. CASE k = m
      <4>1. g[m \div 2] = h[m \div 2]
        BY <2>1, <2>3
      <4> HIDE DEF g
      <4> QED
        BY <2>4, <3>1, <4>1
    <3>2. CASE k # m
      <4>1. k \in 0 .. m - 1 /\ k \div 2 \in 0 .. m - 1
        BY <1>3, <3>2
      <4>2. g[k] = h[k] /\ g[k \div 2] = h[k \div 2]
        BY <2>3, <4>1
      <4> HIDE DEF g
      <4> QED
        BY <2>5, <4>1, <4>2
    <3> QED
      BY <3>1, <3>2
  <2>7. g = [k \in 0 .. m |-> g[k]]
    OBVIOUS
  <2> HIDE DEF g
  <2>8. Halves(g, m, n)
    BY <2>6, <2>7 DEF Halves
  <2> QED
    BY <1>3, <2>8
<1> QED
  BY <1>4, <1>5

\* What string_slice makes of the size has room for the slice and its
\* terminator, if it is not empty.
LEMMA ResizedIs ==
  ASSUME NEW s \in Nat, s >= 2, Doubled(s), NEW n \in Nat, n <= s + 1
  PROVE  /\ Str!Resized(s, n) \in Nat
         /\ Str!Resized(s, n) # 0 => n + 1 <= Str!Resized(s, n)
<1> DEFINE g == CHOOSE h : Halves(h, s, n)
<1>1. Str!Resized(s, n) = 2 * g[s]
  BY DEF Str!Resized, Halves
<1>2. Halves(g, s, n)
  BY SomeHalves
<1> HIDE DEF g
<1>3. \A k \in 0 .. s : g[k] = IF k > n THEN g[k \div 2] ELSE k
  BY <1>2, Zenon DEF Halves
<1>4. PICK T \in SUBSET Nat : s \in T /\ \A k \in T : k >= 1 /\ (k = 1 \/ \E j \in T : k = 2 * j)
  BY DEF Doubled
<1> DEFINE OK(k) == g[k] \in Nat /\ (k > n /\ k \in T /\ n # 0 => n + 1 <= 2 * g[k])
           Bad == {k \in 0 .. s : ~ OK(k)}
<1>5. Bad = {}
  <2> SUFFICES ASSUME Bad # {} PROVE FALSE
    OBVIOUS
  <2>1. PICK k \in Bad : \A j \in Bad : ~ (j < k)
    <3>1. Bad \in SUBSET Nat
      OBVIOUS
    <3> HIDE DEF Bad
    <3> QED
      BY <3>1, Lowest
  <2>2. k \in 0 .. s /\ ~ OK(k)
    BY <2>1
  <2>3. CASE ~ (k > n)
    BY <1>3, <2>2, <2>3
  <2>4. CASE k > n
    <3>1. k \div 2 \in 0 .. s /\ k \div 2 < k
      BY <2>2, <2>4
    <3>2. OK(k \div 2)
      BY <2>1, <3>1
    <3>3. g[k] = g[k \div 2]
      BY <1>3, <2>2, <2>4
    <3>4. k \in T /\ n # 0 => n + 1 <= 2 * g[k]
      <4> SUFFICES ASSUME k \in T, n # 0 PROVE n + 1 <= 2 * g[k]
        OBVIOUS
      <4>1. PICK j \in T : k = 2 * j
        BY <1>4, <2>4
      <4>2. k \div 2 = j /\ j \in Nat
        BY <1>4, <4>1
      <4>3. CASE j > n
        BY <3>2, <3>3, <4>2, <4>3
      <4>4. CASE ~ (j > n)
        <5>1. g[j] = j
          BY <1>3, <3>1, <4>2, <4>4
        <5> QED
          BY <2>2, <2>4, <3>3, <4>1, <4>2, <5>1
      <4> QED
        BY <4>3, <4>4
    <3> QED
      BY <2>2, <3>2, <3>3, <3>4
  <2> QED
    BY <2>3, <2>4
<1>6. OK(s) /\ s \in 0 .. s
  BY <1>5
<1>7. CASE s > n /\ n # 0
  BY <1>1, <1>4, <1>6, <1>7
<1>8. CASE n = 0
  BY <1>1, <1>6, <1>8
<1>9. CASE ~ (s > n)
  <2>1. g[s] = s
    BY <1>3, <1>6, <1>9
  <2> QED
    BY <1>1, <2>1
<1> QED
  BY <1>7, <1>8, <1>9


\* A text without a terminator.
Plain(t) == \E A : t \in Seq(A) /\ "end" \notin A

\* The buffer holds the text, has grown late, and is not cut below the text.
StringInv ==
  state = "live" =>
    /\ capacity \in Nat /\ capacity >= 2 /\ Doubled(capacity) /\ room \in Int
    /\ Plain(text) /\ \E A : content \in Seq(A)
    /\ Len(text) + 1 <= Len(content)
    /\ \A k \in 1 .. Len(text) : content[k] = text[k]
    /\ content[Len(text) + 1] = "end"
    /\ Len(text) <= capacity + 1 /\ (room # capacity => Len(text) + 1 <= room)

\* new_string.
LEMMA StringNew ==
  ASSUME Str!Assumptions, NEW a \in Text, Str!New(a)
  PROVE  StringInv'
<1>1. /\ content' = Append(a, "end") /\ capacity' = Str!SizeFor(a) /\ room' = capacity' /\ text' = a
  BY DEF Str!New, Str!END
<1>2. a \in Seq(Str!Range(a) \ {"end"})
  BY DEF Str!Assumptions, Str!END
<1> DEFINE A == Str!Range(a) \ {"end"}
<1>3. a \in Seq(A) /\ "end" \notin A
  BY <1>2
<1> HIDE DEF A
<1>4. Len(a) \in Nat /\ Append(a, "end") \in Seq(A \cup {"end"}) /\ Len(Append(a, "end")) = Len(a) + 1
      /\ (\A k \in 1 .. Len(a) : Append(a, "end")[k] = a[k]) /\ Append(a, "end")[Len(a) + 1] = "end"
  BY <1>3
<1>5. /\ Str!SizeFor(a) \in Nat /\ Str!SizeFor(a) >= 2 /\ Doubled(Str!SizeFor(a))
      /\ Len(a) <= Str!SizeFor(a) + 1
  BY <1>4, SizeIs
<1>6. Plain(text)' /\ \E S : content' \in Seq(S)
  BY <1>1, <1>3, <1>4 DEF Plain
<1> QED
  BY <1>1, <1>4, <1>5, <1>6 DEF StringInv

\* string_slice.
LEMMA StringSlice ==
  ASSUME StringInv, NEW from, NEW to, from \in 0 .. Len(text), to \in 0 .. Len(text), Str!Slice(from, to)
  PROVE  StringInv'
<1> DEFINE n == to - from
<1>1. /\ state = "live" /\ 0 <= from /\ from <= to /\ to <= Len(text)
      /\ content' = Str!Shifted(from, to) /\ text' = SubSeq(text, from + 1, to)
      /\ \/ room' = room
         \/ Str!Resized(capacity, n) # 0 /\ room' = Str!Resized(capacity, n)
         \/ state' = "freed"
      /\ capacity' = capacity
  BY DEF Str!Slice
<1>2. /\ capacity \in Nat /\ capacity >= 2 /\ Doubled(capacity) /\ room \in Int
      /\ Len(text) + 1 <= Len(content)
      /\ \A k \in 1 .. Len(text) : content[k] = text[k]
      /\ content[Len(text) + 1] = "end"
      /\ Len(text) <= capacity + 1 /\ (room # capacity => Len(text) + 1 <= room)
  BY <1>1 DEF StringInv
<1>3. PICK A : text \in Seq(A) /\ "end" \notin A
  BY <1>1 DEF StringInv, Plain
<1>4. PICK U : content \in Seq(U)
  BY <1>1 DEF StringInv
<1>5. /\ Len(text) \in Nat /\ Len(content) \in Nat /\ DOMAIN content = 1 .. Len(content)
      /\ from \in Nat /\ to \in Nat /\ n \in Nat
  BY <1>1, <1>3, <1>4
<1>6. text' \in Seq(A) /\ Len(text') = n /\ \A k \in 1 .. n : text'[k] = text[from + k]
  BY <1>1, <1>3, <1>5
<1>7. content' = [k \in 1 .. Len(content) |->
                    IF k <= n THEN content[from + k] ELSE IF k = n + 1 THEN "end" ELSE content[k]]
  BY <1>1, <1>5 DEF Str!Shifted, Str!END
<1> DEFINE V == U \cup {"end"}
<1>8. \A k \in 1 .. Len(content) :
        /\ content'[k] = IF k <= n THEN content[from + k] ELSE IF k = n + 1 THEN "end" ELSE content[k]
        /\ content'[k] \in V
  <2> TAKE k \in 1 .. Len(content)
  <2>1. content'[k] = IF k <= n THEN content[from + k] ELSE IF k = n + 1 THEN "end" ELSE content[k]
    BY <1>7
  <2>2. k <= n => from + k \in 1 .. Len(content)
    BY <1>1, <1>2, <1>5
  <2> QED
    BY <1>4, <2>1, <2>2
<1> HIDE DEF V
<1>9. content' \in [1 .. Len(content) -> V]
  BY <1>7, <1>8
<1>10. content' \in Seq(V) /\ Len(content') = Len(content)
  BY <1>5, <1>9
<1>11. n + 1 \in 1 .. Len(content) /\ n <= Len(text)
  BY <1>1, <1>2, <1>5
<1>12. content'[n + 1] = "end"
  BY <1>5, <1>8, <1>11
<1>13. \A k \in 1 .. n : content'[k] = text'[k]
  <2> TAKE k \in 1 .. n
  <2>1. k \in 1 .. Len(content) /\ k <= n /\ from + k \in 1 .. Len(text)
    BY <1>1, <1>2, <1>5, <1>11
  <2> QED
    BY <1>2, <1>6, <1>8, <2>1
<1>14. state' = "live" => room' \in Int /\ (room' # capacity => n + 1 <= room')
  <2>1. Str!Resized(capacity, n) \in Nat /\ (Str!Resized(capacity, n) # 0 => n + 1 <= Str!Resized(capacity, n))
    BY <1>2, <1>5, <1>11, ResizedIs
  <2> QED
    BY <1>1, <1>2, <1>5, <1>11, <2>1
<1>15. Plain(text)'
  BY <1>3, <1>6 DEF Plain
<1> HIDE DEF n
<1>16. Len(text') + 1 <= Len(content') /\ n <= capacity + 1
  BY <1>2, <1>5, <1>6, <1>10, <1>11
<1> QED
  BY <1>1, <1>2, <1>6, <1>10, <1>12, <1>13, <1>14, <1>15, <1>16 DEF StringInv

\* What the invariant says of the string.
LEMMA StringReads ==
  ASSUME Str!Assumptions, StringInv
  PROVE  Str!ReadsAsText
<1> SUFFICES ASSUME state = "live"
             PROVE  /\ Str!Chars = text
                    /\ Len(text) + 1 <= room + Slack
                    /\ room # capacity => Len(text) + 1 <= room
                    /\ length = Len(text) => \A a \in Text : Str!EqualTo(a) <=> a = text
  BY DEF Str!ReadsAsText
<1>1. /\ capacity \in Nat /\ capacity >= 2 /\ room \in Int
      /\ Len(text) + 1 <= Len(content)
      /\ \A k \in 1 .. Len(text) : content[k] = text[k]
      /\ content[Len(text) + 1] = "end"
      /\ Len(text) <= capacity + 1 /\ (room # capacity => Len(text) + 1 <= room)
  BY DEF StringInv
<1>2. PICK A : text \in Seq(A) /\ "end" \notin A
  BY DEF StringInv, Plain
<1>3. PICK U : content \in Seq(U)
  BY DEF StringInv
<1>4. Len(text) \in Nat /\ Len(content) \in Nat /\ \A k \in 1 .. Len(text) : text[k] # "end"
  BY <1>2, <1>3
<1>5. Str!Chars = text
  <2> DEFINE I == {k \in 1 .. Len(content) : content[k] = "end"}
  <2>1. Len(text) + 1 \in I /\ \A k \in I : Len(text) + 1 <= k
    BY <1>1, <1>4
  <2> DEFINE c == CHOOSE x \in I : \A y \in I : x <= y
  <2>2. Str!Chars = SubSeq(content, 1, c - 1)
    BY <2>1 DEF Str!Chars, Str!SelectInSeq, Str!Min, Str!END
  <2>3. \A x, y \in I : x <= y /\ y <= x => x = y
    BY <1>4
  <2> HIDE DEF I
  <2>4. c = Len(text) + 1
    BY <2>1, <2>3
  <2> HIDE DEF c
  <2>5. Str!Chars = SubSeq(content, 1, Len(text))
    BY <1>4, <2>2, <2>4
  <2> QED
    BY <1>1, <1>2, <1>3, <1>4, <2>5
<1>6. Len(text) + 1 <= room + Slack
  BY <1>1, <1>4 DEF Str!Assumptions
<1>7. ASSUME length = Len(text), NEW a \in Text PROVE Str!EqualTo(a) <=> a = text
  <2>1. a \in Seq(Str!Range(a) \ {"end"})
    BY DEF Str!Assumptions, Str!END
  <2> DEFINE S == Str!Range(a) \ {"end"}
  <2>2. a \in Seq(S)
    BY <2>1
  <2> HIDE DEF S
  <2>3. \A k \in 1 .. Len(a) : Append(a, "end")[k] = a[k]
    BY <2>2
  <2>4. Str!EqualTo(a) <=> Len(text) = Len(a) /\ \A k \in 1 .. Len(text) : text[k] = a[k]
    BY <1>1, <1>7, <2>3 DEF Str!EqualTo, Str!END
  <2>5. Len(text) = Len(a) /\ (\A k \in 1 .. Len(text) : text[k] = a[k]) => a = text
    BY <1>2, <2>2
  <2> QED
    BY <2>4, <2>5
<1> QED
  BY <1>1, <1>5, <1>6, <1>7

\* While its owner's pointer is good, a string reads as the text it was made of
\* and sliced to, and its buffer has room but for two bytes (strings.c:31, 75-99).
THEOREM StringsThm ==
  ASSUME Str!Assumptions
  PROVE  Str!Spec => []Str!ReadsAsText
<1>1. Str!Init => StringInv
  BY DEF Str!Init, StringInv
<1>2. StringInv /\ [Str!Next]_(Str!vars) => StringInv'
  <2> SUFFICES ASSUME StringInv, [Str!Next]_(Str!vars) PROVE StringInv'
    OBVIOUS
  <2>1. ASSUME NEW a \in Text, Str!New(a) PROVE StringInv'
    BY <2>1, StringNew
  <2>2. ASSUME NEW from \in 0 .. Len(text), NEW to \in 0 .. Len(text), Str!Slice(from, to) PROVE StringInv'
    BY <2>2, StringSlice
  <2>3. CASE UNCHANGED Str!vars
    BY <2>3 DEF Str!vars, StringInv, Plain
  <2> QED
    BY <2>1, <2>2, <2>3 DEF Str!Next
<1>3. StringInv => Str!ReadsAsText
  BY StringReads
<1> QED
  BY <1>1, <1>2, <1>3, PTL DEF Str!Spec

-----------------------------------------------------------------------------

(* SmallPrograms *)

\* The steps of SmallPrograms are steps of each program, or leave it as it is.
LEMMA StepsAre ==
  [Next]_allVars => /\ [P!Next]_(P!vars) /\ [C!Next]_(C!vars) /\ [D!Next]_(D!vars)
                    /\ [B!Next]_(B!vars) /\ [Str!Next]_(Str!vars)
<1>1. UNCHANGED allVars => UNCHANGED <<piPart, costPart, treePart, setPart, stringPart>>
  BY DEF allVars
<1>2. /\ UNCHANGED P!vars <=> UNCHANGED piPart
      /\ UNCHANGED C!vars <=> UNCHANGED costPart
      /\ UNCHANGED D!vars <=> UNCHANGED treePart
      /\ UNCHANGED B!vars <=> UNCHANGED setPart
      /\ UNCHANGED Str!vars <=> UNCHANGED stringPart
  BY DEF P!vars, C!vars, D!vars, B!vars, Str!vars, piPart, costPart, treePart, setPart, stringPart
<1> QED
  BY <1>1, <1>2 DEF Next

\* No share of the items is lost or added twice by the threads of monte.c, and
\* of integ.c where `area' happens to start as 0, whatever their number and
\* schedule (monte.c:64-77, integ.c:46-62).
THEOREM SumOfSharesThm == Spec => []SumOfShares
<1>1. Init => P!Init
  BY DEF Init
<1>2. P!Spec => []P!SumOfShares
  BY ProgramsAssumption, PiEstimationThm
<1> QED
  BY <1>1, <1>2, StepsAre, PTL DEF Spec, P!Spec, SumOfShares

\* The parallel regions of cost() count every element once (dt.c:105-145).
THEOREM CostOfSharesThm == Spec => []CostOfShares
<1>1. Init => C!Init
  BY DEF Init
<1>2. C!Spec => []C!CostOfShares
  BY ProgramsAssumption, CostThm
<1> QED
  BY <1>1, <1>2, StepsAre, PTL DEF Spec, C!Spec, CostOfShares

\* The leaves of a fitted tree share out the samples (dt.c:207-236, 300-317).
THEOREM SamplesInLeavesThm == Spec => []SamplesInLeaves
<1>1. Init => D!Init
  BY DEF Init
<1>2. D!Spec => []D!SamplesInLeaves
  BY ProgramsAssumption, DecisionTreeThm
<1> QED
  BY <1>1, <1>2, StepsAre, PTL DEF Spec, D!Spec, SamplesInLeaves

\* A sound set of set.c holds its elements and nothing else (set.c:52-98).
THEOREM HoldsElementsThm == Spec => []HoldsElements
<1>1. Init => B!Init
  BY DEF Init
<1>2. B!Spec => []B!HoldsElements
  BY ProgramsAssumption, BitSetThm
<1> QED
  BY <1>1, <1>2, StepsAre, PTL DEF Spec, B!Spec, HoldsElements

\* A string reads as the text that it was made of and sliced to, as long as its
\* owner's pointer is good (strings.c:17-47, 69-112).
THEOREM ReadsAsTextThm == Spec => []ReadsAsText
<1>1. Init => Str!Init
  BY DEF Init
<1>2. Str!Spec => []Str!ReadsAsText
  BY ProgramsAssumption, StringsThm
<1> QED
  BY <1>1, <1>2, StepsAre, PTL DEF Spec, Str!Spec, ReadsAsText
===================================================================================
