---------------------------------- MODULE BitSet ----------------------------------
(***************************************************************************)
(* Datastructs/set.c: sets of numbers as arrays of bytes, and a client     *)
(* that makes sets, adds numbers within their bytes, and forms unions and  *)
(* intersections.  A byte is the set of its bits, 0 to 7, so that | and &  *)
(* are union and intersection.                                             *)
(***************************************************************************)
EXTENDS Integers

CONSTANTS
  Handle,       \* the variables of type struct Set
  Num,          \* numbers the client may use
  Bytes,        \* sizes the client may ask for
  Garbage,      \* what an unset `bytes' may hold
  None          \* no set

VARIABLES
  bytes,        \* handle -> its field `bytes'
  members,      \* handle -> its array of bytes, or None
  elements,     \* handle -> the elements the client has given it
  sized,        \* the handles whose `bytes' is set
  sound         \* the handles made by init, or from two such sets of one size

vars == <<bytes, members, elements, sized, sound>>

\* Numbers and sizes are not negative, and no array is taken for NULL.
Assumptions ==
  /\ Num \subseteq Nat /\ Bytes \subseteq Nat /\ Garbage \subseteq Int
  /\ \A n \in Bytes \cup Garbage, factor \in {1, 8} : None \notin [0 .. factor * n - 1 -> SUBSET (0 .. 7)]

Frame(num) == num \div 8
Bit(num) == num % 8
Made == {h \in Handle : members[h] # None}

Init ==
  /\ bytes = [h \in Handle |-> 0]
  /\ members = [h \in Handle |-> None]
  /\ elements = [h \in Handle |-> {}]
  /\ sized = {}
  /\ sound = {}

\* init: calloc clears the bytes.
New(h, n) ==
  /\ h \notin Made
  /\ bytes' = [bytes EXCEPT ![h] = n]
  /\ members' = [members EXCEPT ![h] = [i \in 0 .. n - 1 |-> {}]]
  /\ elements' = [elements EXCEPT ![h] = {}]
  /\ sized' = sized \cup {h}
  /\ sound' = sound \cup {h}

\* Mutant of Add: the byte is overwritten.
AddAlone(h, num) ==
  /\ h \in Made
  /\ Frame(num) \in DOMAIN members[h]
  /\ members' = [members EXCEPT ![h][Frame(num)] = {Bit(num)}]
  /\ elements' = [elements EXCEPT ![h] = @ \cup {num}]
  /\ UNCHANGED <<bytes, sized, sound>>

Add(h, num) ==
  /\ h \in Made
  /\ Frame(num) \in DOMAIN members[h]
  /\ members' = [members EXCEPT ![h][Frame(num)] = @ \cup {Bit(num)}]
  /\ elements' = [elements EXCEPT ![h] = @ \cup {num}]
  /\ UNCHANGED <<bytes, sized, sound>>

Exists(h, num) == Bit(num) \in members[h][Frame(num)]

\* a | b or a & b, of bytes or of sets.
Joined(op, a, b) == IF op = "uni" THEN a \cup b ELSE a \cap b

\* The array of uni and inter: eight times the bytes of a, of which the loop
\* fills as many as a has.  Where an operand ends, the loop reads junk.
Combined(op, a, b, junk) ==
  LET Byte(h, i) == IF i \in DOMAIN members[h] THEN members[h][i] ELSE junk
  IN [i \in 0 .. 8 * bytes[a] - 1 |-> IF i < bytes[a] THEN Joined(op, Byte(a, i), Byte(b, i)) ELSE {}]

Combine(op, d, a, b) ==
  /\ d \notin Made /\ a \in Made /\ b \in Made
  /\ \E junk \in {{}, 0 .. 7} :
       members' = [members EXCEPT ![d] = Combined(op, a, b, junk)]
  /\ \E n \in Garbage : bytes' = [bytes EXCEPT ![d] = n]
  /\ elements' = [elements EXCEPT ![d] = Joined(op, elements[a], elements[b])]
  /\ sound' = IF {a, b} \subseteq sized /\ bytes[a] = bytes[b] THEN sound \cup {d} ELSE sound
  /\ UNCHANGED sized

Uni(d, a, b) == Combine("uni", d, a, b)
Inter(d, a, b) == Combine("inter", d, a, b)

Destroy(h) ==
  /\ h \in Made
  /\ members' = [members EXCEPT ![h] = None]
  /\ bytes' = [bytes EXCEPT ![h] = 0]
  /\ elements' = [elements EXCEPT ![h] = {}]
  /\ sized' = sized \ {h}
  /\ sound' = sound \ {h}

Next ==
  \/ \E h \in Handle, n \in Bytes : New(h, n)
  \/ \E h \in Handle, num \in Num : Add(h, num)
  \/ \E d, a, b \in Handle : Uni(d, a, b) \/ Inter(d, a, b)
  \/ \E h \in Handle : Destroy(h)

Spec == Init /\ [][Next]_vars

-----------------------------------------------------------------------------

Found(h) == {num \in Num : Frame(num) \in DOMAIN members[h] /\ Exists(h, num)}

\* A set made by init, and a union or intersection of two such sets of one
\* size, hold exactly the numbers they should, bits 0 and 7 of a byte and the
\* last byte included (set.c:52-98).  Nothing is promised for sets of different
\* sizes, of which the shorter is overread or cuts the longer, nor for the
\* result of uni as an operand, since its `bytes' is never set.
HoldsElements == \A h \in sound : Found(h) = elements[h]
================================================================================
