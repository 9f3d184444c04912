-------------------------------- MODULE QuizProofs --------------------------------
(***************************************************************************)
(* Proofs about Quiz, for every set of terms and any number of answers.    *)
(***************************************************************************)
EXTENDS Quiz, TLAPS

Row(o) == o \in Seq(Term) /\ \A i, j \in 1 .. Len(o) : o[i] = o[j] => i = j

\* The term that an answer was about.
About(e) == e.order[e.right + 1]

\* For each of the first r terms of o the last answer in p was right.
Known(o, r, p) ==
  \A i \in 1 .. r : \E k \in 1 .. Len(p) :
    /\ About(p[k]) = o[i] /\ p[k].correct
    /\ \A m \in k + 1 .. Len(p) : About(p[m]) # o[i]

Answered == [order : Seq(Term), right : Nat, correct : BOOLEAN]

\* A state that a revert can return to: what was known before the k-th answer.
Stored(p) ==
  \A k \in 1 .. Len(p) :
    /\ Row(p[k].order) /\ p[k].right < Len(p[k].order)
    /\ Known(p[k].order, p[k].right, SubSeq(p, 1, k - 1))

IInv ==
  /\ Row(order) /\ right \in Nat /\ past \in Seq(Answered)
  /\ phase \in {"load", "quiz", "complete", "over"}
  /\ phase = "load" => right = 0 /\ past = <<>>
  /\ phase = "quiz" => right < Len(order) /\ Known(order, right, past) /\ Stored(past)
  /\ phase = "complete" => Known(order, Len(order), past)

-----------------------------------------------------------------------------

LEMMA ConcatIs ==
  ASSUME NEW S, NEW a \in Seq(S), NEW b \in Seq(S)
  PROVE  /\ a \o b \in Seq(S) /\ Len(a \o b) = Len(a) + Len(b)
         /\ \A i \in 1 .. Len(a) : (a \o b)[i] = a[i]
         /\ \A i \in Len(a) + 1 .. Len(a) + Len(b) : (a \o b)[i] = b[i - Len(a)]
<1>1. a \o b \in Seq(S)
  OBVIOUS
<1>2. Len(a \o b) = Len(a) + Len(b)
  OBVIOUS
<1>3. \A i \in 1 .. Len(a) : (a \o b)[i] = a[i]
  OBVIOUS
<1>4. \A i \in Len(a) + 1 .. Len(a) + Len(b) : (a \o b)[i] = b[i - Len(a)]
  OBVIOUS
<1> QED
  BY <1>1, <1>2, <1>3, <1>4

\* The row u is o after t is inserted at place k, and after the term at place
\* k has gone to the back.
HasInserted(u, o, k, t) ==
  /\ Len(u) = Len(o) + 1
  /\ \A i \in 1 .. Len(o) + 1 : u[i] = IF i < k THEN o[i] ELSE IF i = k THEN t ELSE o[i - 1]

HasMoved(u, o, k) ==
  /\ Len(u) = Len(o)
  /\ \A i \in 1 .. Len(o) : u[i] = IF i < k THEN o[i] ELSE IF i < Len(o) THEN o[i + 1] ELSE o[k]

LEMMA InsertAtIs ==
  ASSUME NEW S, NEW o \in Seq(S), NEW t \in S, NEW k \in 1 .. Len(o) + 1
  PROVE  InsertAt(o, k, t) \in Seq(S) /\ HasInserted(InsertAt(o, k, t), o, k, t)
<1> DEFINE a == SubSeq(o, 1, k - 1)
           b == SubSeq(o, k, Len(o))
           c == a \o <<t>>
           d == c \o b
<1>0. Len(o) \in Nat /\ k \in Nat /\ 1 <= k /\ k <= Len(o) + 1
  OBVIOUS
<1>1. a \in Seq(S) /\ Len(a) = k - 1 /\ \A i \in 1 .. k - 1 : a[i] = o[i]
  OBVIOUS
<1>2. b \in Seq(S) /\ Len(b) = Len(o) - k + 1 /\ \A i \in 1 .. Len(o) - k + 1 : b[i] = o[k + i - 1]
  OBVIOUS
<1>3. InsertAt(o, k, t) = d
  BY DEF InsertAt
<1>4. c \in Seq(S) /\ Len(c) = k /\ c[k] = t /\ \A i \in 1 .. k - 1 : c[i] = o[i]
  <2> HIDE DEF a
  <2> QED
    BY <1>1
<1> HIDE DEF a, b, c
<1>5. /\ d \in Seq(S) /\ Len(d) = Len(c) + Len(b)
      /\ \A i \in 1 .. Len(c) : d[i] = c[i]
      /\ \A i \in Len(c) + 1 .. Len(c) + Len(b) : d[i] = b[i - Len(c)]
  BY <1>2, <1>4, ConcatIs
<1> HIDE DEF d
<1>6. Len(d) = Len(o) + 1
  BY <1>0, <1>2, <1>4, <1>5
<1>7. ASSUME NEW i \in 1 .. Len(o) + 1
      PROVE  d[i] = IF i < k THEN o[i] ELSE IF i = k THEN t ELSE o[i - 1]
  <2>0. i \in Int /\ (i < k \/ i = k \/ i > k)
    BY <1>0
  <2>1. CASE i < k
    <3>1. i \in 1 .. k - 1 /\ i \in 1 .. Len(c)
      BY <1>0, <1>4, <2>1
    <3>2. d[i] = o[i]
      BY <1>4, <1>5, <3>1
    <3> QED
      BY <2>1, <3>2
  <2>2. CASE i = k
    BY <1>0, <1>4, <1>5, <2>2
  <2>3. CASE i > k
    <3>1. i \in Len(c) + 1 .. Len(c) + Len(b) /\ ~ (i < k) /\ i # k
      BY <1>0, <1>2, <1>4, <2>3
    <3>2. i - k \in 1 .. Len(o) - k + 1 /\ k + (i - k) - 1 = i - 1
      BY <1>0, <2>3
    <3>3. d[i] = b[i - k]
      BY <1>4, <1>5, <3>1
    <3>4. b[i - k] = o[i - 1]
      BY <1>2, <3>2
    <3> QED
      BY <3>1, <3>3, <3>4
  <2> QED
    BY <2>0, <2>1, <2>2, <2>3
<1> QED
  BY <1>3, <1>5, <1>6, <1>7 DEF HasInserted

LEMMA ToBackIs ==
  ASSUME NEW S, NEW o \in Seq(S), NEW k \in 1 .. Len(o)
  PROVE  ToBack(o, k) \in Seq(S) /\ HasMoved(ToBack(o, k), o, k)
<1> DEFINE a == SubSeq(o, 1, k - 1)
           b == SubSeq(o, k + 1, Len(o))
           c == a \o b
           d == Append(c, o[k])
<1>0. Len(o) \in Nat /\ k \in Nat /\ 1 <= k /\ k <= Len(o) /\ o[k] \in S
  OBVIOUS
<1>1. a \in Seq(S) /\ Len(a) = k - 1 /\ \A i \in 1 .. k - 1 : a[i] = o[i]
  OBVIOUS
<1>2. b \in Seq(S) /\ Len(b) = Len(o) - k /\ \A i \in 1 .. Len(o) - k : b[i] = o[k + i]
  OBVIOUS
<1>3. ToBack(o, k) = d
  BY DEF ToBack, RemoveAt
<1> HIDE DEF a, b
<1>4. /\ c \in Seq(S) /\ Len(c) = Len(a) + Len(b)
      /\ \A i \in 1 .. Len(a) : c[i] = a[i]
      /\ \A i \in Len(a) + 1 .. Len(a) + Len(b) : c[i] = b[i - Len(a)]
  BY ZenonT(60), <1>1, <1>2, ConcatIs
<1> HIDE DEF c
<1>5. Len(c) = Len(o) - 1
  BY <1>0, <1>1, <1>2, <1>4
<1>6. /\ d \in Seq(S) /\ Len(d) = Len(c) + 1 /\ d[Len(c) + 1] = o[k]
      /\ \A i \in 1 .. Len(c) : d[i] = c[i]
  BY <1>0, <1>4
<1> HIDE DEF d
<1>7. ASSUME NEW i \in 1 .. Len(o)
      PROVE  d[i] = IF i < k THEN o[i] ELSE IF i < Len(o) THEN o[i + 1] ELSE o[k]
  <2>0. i \in Int /\ (i < k \/ (~ (i < k) /\ i < Len(o)) \/ (~ (i < k) /\ ~ (i < Len(o)) /\ i = Len(o)))
    BY <1>0
  <2>1. CASE i < k
    <3>1. i \in 1 .. k - 1 /\ i \in 1 .. Len(a) /\ i \in 1 .. Len(c)
      BY <1>0, <1>1, <1>5, <2>1
    <3>2. d[i] = o[i]
      BY <1>1, <1>4, <1>6, <3>1
    <3> QED
      BY <2>1, <3>2
  <2>2. CASE ~ (i < k) /\ i < Len(o)
    <3>1. i \in Len(a) + 1 .. Len(a) + Len(b) /\ i \in 1 .. Len(c)
      BY <1>0, <1>1, <1>2, <1>5, <2>2
    <3>2. i - (k - 1) \in 1 .. Len(o) - k /\ k + (i - (k - 1)) = i + 1
      BY <1>0, <2>2
    <3>3. d[i] = b[i - (k - 1)]
      BY <1>1, <1>4, <1>6, <3>1
    <3>4. b[i - (k - 1)] = o[i + 1]
      BY <1>2, <3>2
    <3> QED
      BY <2>2, <3>3, <3>4
  <2>3. CASE ~ (i < k) /\ ~ (i < Len(o)) /\ i = Len(o)
    BY <1>0, <1>5, <1>6, <2>3
  <2> QED
    BY <2>0, <2>1, <2>2, <2>3
<1> QED
  BY <1>0, <1>3, <1>5, <1>6, <1>7 DEF HasMoved

-----------------------------------------------------------------------------

LEMMA AppendIs ==
  ASSUME NEW S, NEW p \in Seq(S), NEW e \in S
  PROVE  /\ Append(p, e) \in Seq(S) /\ Len(Append(p, e)) = Len(p) + 1
         /\ Append(p, e)[Len(p) + 1] = e
         /\ \A i \in 1 .. Len(p) : Append(p, e)[i] = p[i]
<1> QED
  OBVIOUS

LEMMA PrefixIs ==
  ASSUME NEW S, NEW p \in Seq(S), NEW k \in 0 .. Len(p)
  PROVE  /\ SubSeq(p, 1, k) \in Seq(S) /\ Len(SubSeq(p, 1, k)) = k
         /\ \A i \in 1 .. k : SubSeq(p, 1, k)[i] = p[i]
<1> QED
  OBVIOUS

\* Sequences with the same elements are the same.
LEMMA SameSeq ==
  ASSUME NEW S, NEW p \in Seq(S), NEW q \in Seq(S), Len(p) = Len(q),
         \A i \in 1 .. Len(p) : p[i] = q[i]
  PROVE  p = q
<1> QED
  OBVIOUS

\* A prefix is not changed by what is appended, and a prefix of a prefix is one.
LEMMA PrefixOfAppend ==
  ASSUME NEW S, NEW p \in Seq(S), NEW e \in S, NEW k \in 0 .. Len(p)
  PROVE  SubSeq(Append(p, e), 1, k) = SubSeq(p, 1, k)
<1> DEFINE q == Append(p, e)
<1>1. Len(p) \in Nat /\ k \in 0 .. Len(p) + 1 /\ \A i \in 1 .. k : i \in 1 .. Len(p)
  OBVIOUS
<1>2. q \in Seq(S) /\ Len(q) = Len(p) + 1 /\ \A i \in 1 .. Len(p) : q[i] = p[i]
  BY AppendIs
<1> HIDE DEF q
<1>3. /\ SubSeq(q, 1, k) \in Seq(S) /\ Len(SubSeq(q, 1, k)) = k
      /\ \A i \in 1 .. k : SubSeq(q, 1, k)[i] = q[i]
  BY <1>1, <1>2, PrefixIs
<1>4. /\ SubSeq(p, 1, k) \in Seq(S) /\ Len(SubSeq(p, 1, k)) = k
      /\ \A i \in 1 .. k : SubSeq(p, 1, k)[i] = p[i]
  BY PrefixIs
<1>5. SubSeq(q, 1, k) = SubSeq(p, 1, k)
  BY <1>1, <1>2, <1>3, <1>4, SameSeq
<1> QED
  BY <1>5 DEF q

LEMMA PrefixOfPrefix ==
  ASSUME NEW S, NEW p \in Seq(S), NEW n \in 0 .. Len(p), NEW k \in 0 .. n
  PROVE  SubSeq(SubSeq(p, 1, n), 1, k) = SubSeq(p, 1, k)
<1> DEFINE q == SubSeq(p, 1, n)
<1>1. Len(p) \in Nat /\ k \in 0 .. Len(p) /\ \A i \in 1 .. k : i \in 1 .. n
  OBVIOUS
<1>2. q \in Seq(S) /\ Len(q) = n /\ \A i \in 1 .. n : q[i] = p[i]
  BY PrefixIs
<1> HIDE DEF q
<1>3. /\ SubSeq(q, 1, k) \in Seq(S) /\ Len(SubSeq(q, 1, k)) = k
      /\ \A i \in 1 .. k : SubSeq(q, 1, k)[i] = q[i]
  BY <1>1, <1>2, PrefixIs
<1>4. /\ SubSeq(p, 1, k) \in Seq(S) /\ Len(SubSeq(p, 1, k)) = k
      /\ \A i \in 1 .. k : SubSeq(p, 1, k)[i] = p[i]
  BY <1>1, PrefixIs
<1>5. SubSeq(q, 1, k) = SubSeq(p, 1, k)
  BY <1>1, <1>2, <1>3, <1>4, SameSeq
<1> QED
  BY <1>5 DEF q

LEMMA WholePrefix ==
  ASSUME NEW S, NEW p \in Seq(S)
  PROVE  SubSeq(p, 1, Len(p)) = p
<1>1. Len(p) \in 0 .. Len(p)
  OBVIOUS
<1>2. /\ SubSeq(p, 1, Len(p)) \in Seq(S) /\ Len(SubSeq(p, 1, Len(p))) = Len(p)
      /\ \A i \in 1 .. Len(p) : SubSeq(p, 1, Len(p))[i] = p[i]
  BY <1>1, PrefixIs
<1> QED
  BY <1>2, SameSeq

-----------------------------------------------------------------------------

Entry(o, r, c) == [order |-> o, right |-> r, correct |-> c]

\* What a right and a wrong answer add to what is known.
LEMMA KnownRight ==
  ASSUME NEW o, NEW r \in Nat, NEW p \in Seq(Answered), Row(o), r < Len(o), Known(o, r, p)
  PROVE  Known(o, r + 1, Append(p, Entry(o, r, TRUE)))
<1> DEFINE e == Entry(o, r, TRUE)
           q == Append(p, e)
<1>0. o \in Seq(Term) /\ Len(o) \in Nat /\ r + 1 \in 1 .. Len(o) /\ Len(p) \in Nat
  BY DEF Row
<1>1. e \in Answered /\ About(e) = o[r + 1] /\ e.correct
  BY <1>0 DEF Answered, About, Entry
<1> HIDE DEF e
<1>2. /\ Len(q) = Len(p) + 1 /\ q[Len(p) + 1] = e
      /\ \A i \in 1 .. Len(p) : q[i] = p[i]
  BY <1>1, AppendIs
<1> HIDE DEF q
<1>3. ASSUME NEW i \in 1 .. r + 1
      PROVE  \E k \in 1 .. Len(q) :
               /\ About(q[k]) = o[i] /\ q[k].correct
               /\ \A m \in k + 1 .. Len(q) : About(q[m]) # o[i]
  <2>0. i \in 1 .. r \/ i = r + 1
    OBVIOUS
  <2>1. CASE i \in 1 .. r
    <3>1. PICK k \in 1 .. Len(p) : /\ About(p[k]) = o[i] /\ p[k].correct
                                   /\ \A m \in k + 1 .. Len(p) : About(p[m]) # o[i]
      BY <2>1 DEF Known
    <3>2. k \in 1 .. Len(q) /\ About(q[k]) = o[i] /\ q[k].correct
      BY <1>0, <1>2, <3>1
    <3>3. i \in 1 .. Len(o) /\ i # r + 1 /\ o[i] # o[r + 1]
      <4>1. i \in 1 .. Len(o) /\ i # r + 1
        BY <1>0, <2>1
      <4> QED
        BY <1>0, <4>1 DEF Row
    <3>4. ASSUME NEW m \in k + 1 .. Len(q) PROVE About(q[m]) # o[i]
      <4>0. m \in k + 1 .. Len(p) \/ m = Len(p) + 1
        BY <1>0, <1>2
      <4>1. CASE m \in k + 1 .. Len(p)
        <5>1. m \in 1 .. Len(p)
          BY <1>0, <3>1, <4>1
        <5> QED
          BY <1>2, <3>1, <4>1, <5>1
      <4>2. CASE m = Len(p) + 1
        BY <1>1, <1>2, <3>3, <4>2
      <4> QED
        BY <4>0, <4>1, <4>2
    <3> QED
      BY <3>2, <3>4
  <2>2. CASE i = r + 1
    <3>1. Len(p) + 1 \in 1 .. Len(q) /\ (Len(p) + 1) + 1 .. Len(q) = {}
      BY <1>0, <1>2
    <3>2. About(q[Len(p) + 1]) = o[i] /\ q[Len(p) + 1].correct
      BY <1>1, <1>2, <2>2
    <3> QED
      BY <3>1, <3>2
  <2> QED
    BY <2>0, <2>1, <2>2
<1>4. Known(o, r + 1, q)
  BY <1>3 DEF Known
<1> QED
  BY <1>4 DEF q, e

LEMMA KnownWrong ==
  ASSUME NEW o, NEW r \in Nat, NEW p \in Seq(Answered), Row(o), r < Len(o), Known(o, r, p)
  PROVE  Known(o, r, Append(p, Entry(o, r, FALSE)))
<1> DEFINE e == Entry(o, r, FALSE)
           q == Append(p, e)
<1>0. o \in Seq(Term) /\ Len(o) \in Nat /\ r + 1 \in 1 .. Len(o) /\ Len(p) \in Nat
  BY DEF Row
<1>1. e \in Answered /\ About(e) = o[r + 1]
  BY <1>0 DEF Answered, About, Entry
<1> HIDE DEF e
<1>2. /\ Len(q) = Len(p) + 1 /\ q[Len(p) + 1] = e
      /\ \A i \in 1 .. Len(p) : q[i] = p[i]
  BY <1>1, AppendIs
<1> HIDE DEF q
<1>3. ASSUME NEW i \in 1 .. r
      PROVE  \E k \in 1 .. Len(q) :
               /\ About(q[k]) = o[i] /\ q[k].correct
               /\ \A m \in k + 1 .. Len(q) : About(q[m]) # o[i]
  <3>1. PICK k \in 1 .. Len(p) : /\ About(p[k]) = o[i] /\ p[k].correct
                                 /\ \A m \in k + 1 .. Len(p) : About(p[m]) # o[i]
    BY DEF Known
  <3>2. k \in 1 .. Len(q) /\ About(q[k]) = o[i] /\ q[k].correct
    BY <1>0, <1>2, <3>1
  <3>3. i \in 1 .. Len(o) /\ i # r + 1 /\ o[i] # o[r + 1]
    <4>1. i \in 1 .. Len(o) /\ i # r + 1
      BY <1>0
    <4> QED
      BY <1>0, <4>1 DEF Row
  <3>4. ASSUME NEW m \in k + 1 .. Len(q) PROVE About(q[m]) # o[i]
    <4>0. m \in k + 1 .. Len(p) \/ m = Len(p) + 1
      BY <1>0, <1>2
    <4>1. CASE m \in k + 1 .. Len(p)
      <5>1. m \in 1 .. Len(p)
        BY <1>0, <3>1, <4>1
      <5> QED
        BY <1>2, <3>1, <4>1, <5>1
    <4>2. CASE m = Len(p) + 1
      BY <1>1, <1>2, <3>3, <4>2
    <4> QED
      BY <4>0, <4>1, <4>2
  <3> QED
    BY <3>2, <3>4
<1>4. Known(o, r, q)
  BY <1>3 DEF Known
<1> QED
  BY <1>4 DEF q, e

\* Only the terms in front count, and a wrong answer leaves them there.
LEMMA KnownInFront ==
  ASSUME NEW o, NEW u, NEW r \in Nat, NEW p, Known(o, r, p), \A i \in 1 .. r : u[i] = o[i]
  PROVE  Known(u, r, p)
<1> QED
  BY DEF Known

-----------------------------------------------------------------------------

\* An answer stores the state it was given in.
LEMMA StoredAppend ==
  ASSUME NEW o, NEW r \in Nat, NEW c \in BOOLEAN, NEW p \in Seq(Answered),
         Row(o), r < Len(o), Known(o, r, p), Stored(p)
  PROVE  /\ Append(p, Entry(o, r, c)) \in Seq(Answered)
         /\ Stored(Append(p, Entry(o, r, c)))
<1> DEFINE e == Entry(o, r, c)
           q == Append(p, e)
<1>0. o \in Seq(Term) /\ Len(p) \in Nat
  BY DEF Row
<1>1. e \in Answered /\ e.order = o /\ e.right = r
  BY <1>0 DEF Answered, Entry
<1> HIDE DEF e
<1>2. /\ q \in Seq(Answered) /\ Len(q) = Len(p) + 1 /\ q[Len(p) + 1] = e
      /\ \A i \in 1 .. Len(p) : q[i] = p[i]
  BY <1>1, AppendIs
<1>3. \A k \in 0 .. Len(p) : SubSeq(q, 1, k) = SubSeq(p, 1, k)
  BY <1>1, PrefixOfAppend
<1>4. SubSeq(p, 1, Len(p)) = p
  BY WholePrefix
<1> HIDE DEF q
<1>5. ASSUME NEW k \in 1 .. Len(q)
      PROVE  /\ Row(q[k].order) /\ q[k].right < Len(q[k].order)
             /\ Known(q[k].order, q[k].right, SubSeq(q, 1, k - 1))
  <2>0. k \in 1 .. Len(p) \/ k = Len(p) + 1
    BY <1>0, <1>2
  <2>1. CASE k \in 1 .. Len(p)
    <3>1. k - 1 \in 0 .. Len(p) /\ q[k] = p[k]
      BY <1>0, <1>2, <2>1
    <3>2. SubSeq(q, 1, k - 1) = SubSeq(p, 1, k - 1)
      BY <1>3, <3>1
    <3> QED
      BY <2>1, <3>1, <3>2 DEF Stored
  <2>2. CASE k = Len(p) + 1
    <3>1. k - 1 = Len(p) /\ Len(p) \in 0 .. Len(p) /\ q[k] = e
      BY <1>0, <1>2, <2>2
    <3>2. SubSeq(q, 1, k - 1) = p
      BY <1>3, <1>4, <3>1
    <3> QED
      BY <1>1, <3>1, <3>2
  <2> QED
    BY <2>0, <2>1, <2>2
<1>6. Stored(q)
  BY <1>5 DEF Stored
<1> QED
  BY <1>2, <1>6 DEF q, e

LEMMA StoredPrefix ==
  ASSUME NEW p \in Seq(Answered), NEW n \in 0 .. Len(p), Stored(p)
  PROVE  Stored(SubSeq(p, 1, n))
<1> DEFINE q == SubSeq(p, 1, n)
<1>1. q \in Seq(Answered) /\ Len(q) = n /\ \A i \in 1 .. n : q[i] = p[i]
  BY PrefixIs
<1>2. \A k \in 0 .. n : SubSeq(q, 1, k) = SubSeq(p, 1, k)
  BY PrefixOfPrefix
<1> HIDE DEF q
<1>3. ASSUME NEW k \in 1 .. Len(q)
      PROVE  /\ Row(q[k].order) /\ q[k].right < Len(q[k].order)
             /\ Known(q[k].order, q[k].right, SubSeq(q, 1, k - 1))
  <2>1. k \in 1 .. n /\ k \in 1 .. Len(p) /\ k - 1 \in 0 .. n
    BY <1>1
  <2>2. q[k] = p[k] /\ SubSeq(q, 1, k - 1) = SubSeq(p, 1, k - 1)
    BY <1>1, <1>2, <2>1
  <2> QED
    BY <2>1, <2>2 DEF Stored
<1>4. Stored(q)
  BY <1>3 DEF Stored
<1> QED
  BY <1>4 DEF q

\* A row remains one when a term is inserted and when one goes to the back.
LEMMA RowInserted ==
  ASSUME NEW o, Row(o), NEW t \in Term, t \notin Range(o), NEW k \in 1 .. Len(o) + 1
  PROVE  Row(InsertAt(o, k, t))
<1> DEFINE u == InsertAt(o, k, t)
<1>0. o \in Seq(Term) /\ Len(o) \in Nat /\ \A i \in 1 .. Len(o) : o[i] # t
  BY DEF Row, Range
<1>1. /\ u \in Seq(Term) /\ Len(u) = Len(o) + 1
      /\ \A i \in 1 .. Len(o) + 1 : u[i] = IF i < k THEN o[i] ELSE IF i = k THEN t ELSE o[i - 1]
  BY <1>0, InsertAtIs DEF HasInserted
<1> HIDE DEF u
<1>2. ASSUME NEW i \in 1 .. Len(o) + 1, NEW j \in 1 .. Len(o) + 1, i < j PROVE u[i] # u[j]
  <2>1. CASE j < k
    <3>1. u[i] = o[i] /\ u[j] = o[j] /\ i \in 1 .. Len(o) /\ j \in 1 .. Len(o)
      BY <1>0, <1>1, <1>2, <2>1
    <3> QED
      BY <1>2, <3>1 DEF Row
  <2>2. CASE j = k
    <3>1. u[i] = o[i] /\ u[j] = t /\ i \in 1 .. Len(o)
      BY <1>0, <1>1, <1>2, <2>2
    <3> QED
      BY <1>0, <3>1
  <2>3. CASE j > k /\ i < k
    <3>1. u[i] = o[i] /\ u[j] = o[j - 1] /\ i \in 1 .. Len(o) /\ j - 1 \in 1 .. Len(o) /\ i # j - 1
      BY <1>0, <1>1, <1>2, <2>3
    <3> QED
      BY <3>1 DEF Row
  <2>4. CASE j > k /\ i = k
    <3>1. u[i] = t /\ u[j] = o[j - 1] /\ j - 1 \in 1 .. Len(o)
      BY <1>0, <1>1, <1>2, <2>4
    <3> QED
      BY <1>0, <3>1
  <2>5. CASE j > k /\ i > k
    <3>1. u[i] = o[i - 1] /\ u[j] = o[j - 1] /\ i - 1 \in 1 .. Len(o) /\ j - 1 \in 1 .. Len(o) /\ i - 1 # j - 1
      BY <1>0, <1>1, <1>2, <2>5
    <3> QED
      BY <3>1 DEF Row
  <2> QED
    BY <2>1, <2>2, <2>3, <2>4, <2>5
<1>3. \A i, j \in 1 .. Len(o) + 1 : u[i] = u[j] => i = j
  <2> TAKE i, j \in 1 .. Len(o) + 1
  <2>1. i < j \/ i = j \/ j < i
    BY <1>0
  <2> QED
    BY <1>2, <2>1
<1>4. Row(u)
  BY <1>1, <1>3 DEF Row
<1> QED
  BY <1>4 DEF u

LEMMA RowToBack ==
  ASSUME NEW o, Row(o), NEW k \in 1 .. Len(o)
  PROVE  Row(ToBack(o, k))
<1> DEFINE u == ToBack(o, k)
<1>0. o \in Seq(Term) /\ Len(o) \in Nat
  BY DEF Row
<1>1. /\ u \in Seq(Term) /\ Len(u) = Len(o)
      /\ \A i \in 1 .. Len(o) : u[i] = IF i < k THEN o[i] ELSE IF i < Len(o) THEN o[i + 1] ELSE o[k]
  BY <1>0, ToBackIs DEF HasMoved
<1> HIDE DEF u
<1> DEFINE place(i) == IF i < k THEN i ELSE IF i < Len(o) THEN i + 1 ELSE k
<1>2. \A i \in 1 .. Len(o) : place(i) \in 1 .. Len(o) /\ u[i] = o[place(i)]
  BY <1>0, <1>1
<1>3. ASSUME NEW i \in 1 .. Len(o), NEW j \in 1 .. Len(o), place(i) = place(j) PROVE i = j
  BY <1>0, <1>3
<1> HIDE DEF place
<1>5. \A i, j \in 1 .. Len(o) : u[i] = u[j] => i = j
  <2> TAKE i, j \in 1 .. Len(o)
  <2>1. o[place(i)] = o[place(j)] => place(i) = place(j)
    BY <1>2 DEF Row
  <2> QED
    BY <1>2, <1>3, <2>1
<1>4. Row(u)
  BY <1>1, <1>5 DEF Row
<1> QED
  BY <1>4 DEF u

-----------------------------------------------------------------------------

LEMMA InitIInv == Init => IInv
<1> SUFFICES ASSUME Init PROVE IInv
  OBVIOUS
<1>1. Row(<<>>) /\ <<>> \in Seq(Answered)
  BY DEF Row
<1> QED
  BY <1>1 DEF Init, IInv

LEMMA InsertStep ==
  ASSUME IInv, NEW t \in Term, NEW k \in 1 .. Len(order) + 1, Insert(t, k)
  PROVE  IInv'
<1>1. Row(order')
  BY RowInserted DEF IInv, Insert
<1> QED
  BY <1>1 DEF IInv, Insert

LEMMA BeginStep == ASSUME IInv, Begin PROVE IInv'
<1>1. /\ phase' = "quiz" /\ order' = order /\ right' = 0 /\ past' = <<>> /\ right = 0
      /\ order \in Seq(Term) /\ order # <<>> /\ Len(order) > 0
  BY DEF Begin, IInv, Row
<1>2. Known(order', 0, past') /\ Stored(past')
  BY <1>1 DEF Known, Stored
<1> QED
  BY <1>1, <1>2 DEF IInv

LEMMA AnswerRightStep == ASSUME IInv, NEW w \in Word, AnswerRight(w) PROVE IInv'
<1>1. /\ order' = order /\ Row(order) /\ order \in Seq(Term) /\ Len(order) \in Nat
      /\ right \in Nat /\ right < Len(order) /\ Known(order, right, past) /\ Stored(past)
      /\ past \in Seq(Answered) /\ past' = Append(past, Entry(order, right, TRUE))
      /\ IF right + 1 = Len(order) THEN phase' = "complete" /\ right' = right
                                   ELSE phase' = "quiz" /\ right' = right + 1
  BY DEF IInv, AnswerRight, Remember, Entry, AtLast, Row
<1>2. Known(order', right + 1, past')
  BY <1>1, KnownRight
<1>3. past' \in Seq(Answered) /\ Stored(past')
  BY <1>1, StoredAppend
<1>4. CASE right + 1 = Len(order)
  BY <1>1, <1>2, <1>3, <1>4 DEF IInv
<1>5. CASE right + 1 # Len(order)
  <2>1. right + 1 \in Nat /\ right + 1 < Len(order)
    BY <1>1, <1>5
  <2> QED
    BY <1>1, <1>2, <1>3, <1>5, <2>1 DEF IInv
<1> QED
  BY <1>4, <1>5

LEMMA AnswerWrongStep == ASSUME IInv, NEW w \in Word, AnswerWrong(w) PROVE IInv'
<1>1. /\ phase' = "quiz" /\ right' = right /\ Row(order) /\ order \in Seq(Term) /\ Len(order) \in Nat
      /\ right \in Nat /\ right < Len(order) /\ Known(order, right, past) /\ Stored(past)
      /\ past \in Seq(Answered) /\ past' = Append(past, Entry(order, right, FALSE))
      /\ order' = IF right + 1 = Len(order) THEN order ELSE ToBack(order, right + 1)
  BY DEF IInv, AnswerWrong, Remember, Entry, AtLast, Row
<1>2. Known(order, right, past')
  BY <1>1, KnownWrong
<1>3. past' \in Seq(Answered) /\ Stored(past')
  BY <1>1, StoredAppend
<1>4. right + 1 \in 1 .. Len(order)
  BY <1>1
<1>5. /\ ToBack(order, right + 1) \in Seq(Term) /\ Len(ToBack(order, right + 1)) = Len(order)
      /\ \A i \in 1 .. Len(order) :
           ToBack(order, right + 1)[i] =
             IF i < right + 1 THEN order[i] ELSE IF i < Len(order) THEN order[i + 1] ELSE order[right + 1]
  BY <1>1, <1>4, ToBackIs DEF HasMoved
<1>6. Row(ToBack(order, right + 1))
  BY <1>1, <1>4, RowToBack
<1>7. /\ Row(order') /\ right < Len(order')
      /\ \A i \in 1 .. right : order'[i] = order[i]
  BY <1>1, <1>5, <1>6
<1>8. Known(order', right, past')
  BY <1>1, <1>2, <1>7, KnownInFront
<1> QED
  BY <1>1, <1>3, <1>7, <1>8 DEF IInv

LEMMA RevertStep == ASSUME IInv, NEW n \in 1 .. Len(past), Revert(n) PROVE IInv'
<1> DEFINE k == Len(past) - n + 1
<1>1. /\ phase = "quiz" /\ phase' = "quiz" /\ past \in Seq(Answered) /\ Stored(past) /\ Len(past) \in Nat
      /\ order' = past[k].order /\ right' = past[k].right /\ past' = SubSeq(past, 1, k - 1)
  BY DEF IInv, Revert
<1>2. k \in 1 .. Len(past) /\ k - 1 \in 0 .. Len(past)
  BY <1>1
<1> HIDE DEF k
<1>3. past[k] \in Answered
  BY <1>1, <1>2
<1>4. right' \in Nat
  BY <1>1, <1>3 DEF Answered
<1>5. Row(order') /\ right' < Len(order') /\ Known(order', right', past')
  BY <1>1, <1>2 DEF Stored
<1>6. past' \in Seq(Answered)
  BY <1>1, <1>2, PrefixIs
<1>7. Stored(past')
  BY <1>1, <1>2, StoredPrefix
<1> QED
  BY <1>1, <1>4, <1>5, <1>6, <1>7 DEF IInv

LEMMA StepIInv == IInv /\ [Next]_vars => IInv'
<1> SUFFICES ASSUME IInv, [Next]_vars PROVE IInv'
  OBVIOUS
<1>1. ASSUME NEW t \in Term, NEW k \in 1 .. Len(order) + 1, Insert(t, k) PROVE IInv'
  BY <1>1, InsertStep
<1>2. CASE Begin
  BY <1>2, BeginStep
<1>3. CASE GiveUp
  BY <1>3 DEF IInv, GiveUp
<1>4. ASSUME NEW w \in Word, AnswerRight(w) PROVE IInv'
  BY <1>4, AnswerRightStep
<1>5. ASSUME NEW w \in Word, AnswerWrong(w) PROVE IInv'
  BY <1>5, AnswerWrongStep
<1>6. ASSUME NEW n \in 1 .. Len(past), Revert(n) PROVE IInv'
  BY <1>6, RevertStep
<1>7. CASE Finish
  <2>1. <<>> \in Seq(Answered)
    OBVIOUS
  <2> QED
    BY <1>7, <2>1 DEF IInv, Finish
<1>8. CASE UNCHANGED vars
  BY <1>8 DEF IInv, vars
<1> QED
  BY <1>1, <1>2, <1>3, <1>4, <1>5, <1>6, <1>7, <1>8 DEF Next

LEMMA Invariance == Spec => []IInv
<1> QED
  BY InitIInv, StepIInv, PTL DEF Spec

\* The set is complete only when the last answer about every term was right.
LEMMA KnownAtLast == IInv => AllKnown
<1> SUFFICES ASSUME IInv, phase = "complete", NEW t \in Range(order)
             PROVE  LET asked == {k \in 1 .. Len(past) : AskedAt(k) = t}
                    IN asked # {} /\ past[Max(asked)].correct
  BY DEF AllKnown
<1> DEFINE asked == {k \in 1 .. Len(past) : AskedAt(k) = t}
<1>1. order \in Seq(Term) /\ Known(order, Len(order), past) /\ Len(past) \in Nat
  BY DEF IInv, Row
<1>2. PICK i \in 1 .. Len(order) : order[i] = t
  BY <1>1 DEF Range
<1>3. PICK k \in 1 .. Len(past) : /\ About(past[k]) = t /\ past[k].correct
                                  /\ \A m \in k + 1 .. Len(past) : About(past[m]) # t
  BY <1>1, <1>2 DEF Known
<1>4. \A m \in 1 .. Len(past) : AskedAt(m) = About(past[m])
  BY DEF AskedAt, About
<1>5. k \in asked /\ asked \subseteq Int
  BY <1>3, <1>4
<1>6. \A m \in asked : k >= m
  BY <1>1, <1>3, <1>4
<1>7. Max(asked) = k
  <2>1. \A x \in asked : (\A y \in asked : x >= y) => x = k
    BY <1>5, <1>6
  <2> QED
    BY <1>5, <1>6, <2>1 DEF Max
<1> QED
  BY <1>3, <1>5, <1>7

LEMMA QuizInvariance == Spec => []AllKnown
<1> QED
  BY Invariance, KnownAtLast, PTL
==================================================================================
