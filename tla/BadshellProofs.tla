----------------------------- MODULE BadshellProofs -----------------------------
(***************************************************************************)
(* Proofs about Badshell, for every set of arguments and any number of     *)
(* words: what the shell prints is what the program has made of the        *)
(* arguments typed, and the segments live as long as they are used, and    *)
(* but for those of the ids no longer.                                     *)
(*                                                                         *)
(* At any time the segments are of two kinds: those of the command in      *)
(* progress, unmarked, and those that earlier commands have left, marked   *)
(* and held by the shell alone.                                            *)
(***************************************************************************)
EXTENDS Badshell, FiniteSetTheorems, TLAPS

Segment == [dest : BOOLEAN, att : [Proc -> Nat]]
Table(s) == s \in [DOMAIN s -> Segment]

\* What the calls on segments do.
LEMMA Sweeps ==
  ASSUME NEW s, Table(s)
  PROVE  /\ Table(Sweep(s))
         /\ \A id : id \in DOMAIN Sweep(s) <=> id \in DOMAIN s /\ (~ s[id].dest \/ \E p \in Proc : s[id].att[p] > 0)
         /\ \A id \in DOMAIN Sweep(s) : Sweep(s)[id] = s[id]
BY DEF Sweep, Table

\* A new segment is neither marked nor attached.
LEMMA Creates ==
  ASSUME NEW s, Table(s), NEW id \in Nat
  PROVE  /\ Table(Created(s, id)) /\ DOMAIN Created(s, id) = DOMAIN s \cup {id}
         /\ Created(s, id)[id].dest = FALSE /\ \A p \in Proc : Created(s, id)[id].att[p] = 0
         /\ \A x \in DOMAIN s \ {id} : Created(s, id)[x] = s[x]
<1>1. Fresh \in Segment /\ Fresh.dest = FALSE /\ \A p \in Proc : Fresh.att[p] = 0
  BY DEF Fresh, Segment
<1> HIDE DEF Fresh
<1> QED
  BY <1>1 DEF Created, Table

\* An attachment counts only for the segment and the process.
LEMMA Attaches ==
  ASSUME NEW s, Table(s), NEW id \in DOMAIN s, NEW p \in Proc
  PROVE  /\ Table(Attached(s, id, p)) /\ DOMAIN Attached(s, id, p) = DOMAIN s
         /\ Attached(s, id, p)[id].dest = s[id].dest
         /\ Attached(s, id, p)[id].att[p] = s[id].att[p] + 1
         /\ \A q \in Proc \ {p} : Attached(s, id, p)[id].att[q] = s[id].att[q]
         /\ \A x \in DOMAIN s \ {id} : Attached(s, id, p)[x] = s[x]
<1>1. s[id] \in Segment /\ s[id].att \in [Proc -> Nat]
  BY DEF Segment, Table
<1> DEFINE a == [s[id].att EXCEPT ![p] = @ + 1]
           g == [s[id] EXCEPT !.att = a]
<1>2. a \in [Proc -> Nat] /\ a[p] = s[id].att[p] + 1 /\ \A q \in Proc \ {p} : a[q] = s[id].att[q]
  BY <1>1
<1>3. Attached(s, id, p) = [s EXCEPT ![id] = g]
  BY DEF Attached
<1> HIDE DEF a
<1>4. g \in Segment /\ g.dest = s[id].dest /\ g.att = a
  BY <1>1, <1>2 DEF Segment
<1> HIDE DEF g
<1> QED
  BY <1>2, <1>3, <1>4 DEF Table

\* Removed segments stay while they are attached, but marked.
LEMMA Removes ==
  ASSUME NEW s, Table(s), NEW ids
  PROVE  /\ Table(Removed(s, ids))
         /\ \A id : id \in DOMAIN Removed(s, ids) <=>
              /\ id \in DOMAIN s
              /\ (id \notin ids /\ ~ s[id].dest) \/ \E p \in Proc : s[id].att[p] > 0
         /\ \A id \in DOMAIN Removed(s, ids) :
              /\ Removed(s, ids)[id].att = s[id].att
              /\ id \in ids => Removed(s, ids)[id].dest
              /\ id \notin ids => Removed(s, ids)[id] = s[id]
<1> DEFINE m == [id \in DOMAIN s |-> IF id \in ids THEN [s[id] EXCEPT !.dest = TRUE] ELSE s[id]]
<1>1. Table(m) /\ DOMAIN m = DOMAIN s
  BY DEF Segment, Table
<1>2. \A id \in DOMAIN s : /\ m[id].att = s[id].att
                           /\ m[id].dest <=> (id \in ids \/ s[id].dest)
                           /\ id \notin ids => m[id] = s[id]
  BY DEF Segment, Table
<1>3. Removed(s, ids) = Sweep(m)
  BY DEF Removed
<1> HIDE DEF m
<1>4. /\ \A id : id \in DOMAIN Sweep(m) <=> id \in DOMAIN s /\ (~ m[id].dest \/ \E p \in Proc : m[id].att[p] > 0)
      /\ \A id \in DOMAIN Sweep(m) : Sweep(m)[id] = m[id]
      /\ Table(Sweep(m))
  BY <1>1, Sweeps
<1>5. \A id : id \in DOMAIN Sweep(m) <=> /\ id \in DOMAIN s
                                         /\ (id \notin ids /\ ~ s[id].dest) \/ \E p \in Proc : s[id].att[p] > 0
  BY <1>2, <1>4
<1>6. \A id \in DOMAIN Sweep(m) : /\ Sweep(m)[id].att = s[id].att
                                  /\ id \in ids => Sweep(m)[id].dest
                                  /\ id \notin ids => Sweep(m)[id] = s[id]
  BY <1>2, <1>4
<1> QED
  BY <1>3, <1>4, <1>5, <1>6

\* A process that ends is detached from all segments.
LEMMA Ends ==
  ASSUME NEW s, Table(s), NEW p \in Proc
  PROVE  /\ Table(Ended(s, p))
         /\ \A id : id \in DOMAIN Ended(s, p) <=>
              id \in DOMAIN s /\ (~ s[id].dest \/ \E q \in Proc \ {p} : s[id].att[q] > 0)
         /\ \A id \in DOMAIN Ended(s, p) :
              /\ Ended(s, p)[id].dest = s[id].dest
              /\ \A q \in Proc : Ended(s, p)[id].att[q] = IF q = p THEN 0 ELSE s[id].att[q]
<1> DEFINE m == [id \in DOMAIN s |-> [s[id] EXCEPT !.att[p] = 0]]
<1>1. \A id \in DOMAIN s : s[id] \in Segment /\ s[id].att \in [Proc -> Nat]
  BY DEF Segment, Table
<1>2. ASSUME NEW id \in DOMAIN s
      PROVE  /\ m[id] \in Segment /\ m[id].dest = s[id].dest
             /\ \A q \in Proc : m[id].att[q] = IF q = p THEN 0 ELSE s[id].att[q]
  <2> DEFINE a == [s[id].att EXCEPT ![p] = 0]
  <2>1. a \in [Proc -> Nat] /\ \A q \in Proc : a[q] = IF q = p THEN 0 ELSE s[id].att[q]
    BY <1>1
  <2>2. m[id] = [s[id] EXCEPT !.att = a]
    OBVIOUS
  <2> HIDE DEF a, m
  <2>3. m[id] \in Segment /\ m[id].dest = s[id].dest /\ m[id].att = a
    BY <1>1, <2>1, <2>2 DEF Segment
  <2> QED
    BY <2>1, <2>3
<1>3. Table(m) /\ DOMAIN m = DOMAIN s
  BY <1>2 DEF Table
<1>4. Ended(s, p) = Sweep(m)
  BY DEF Ended
<1> HIDE DEF m
<1>5. ASSUME NEW id \in DOMAIN s
      PROVE  (\E q \in Proc : m[id].att[q] > 0) <=> \E q \in Proc \ {p} : s[id].att[q] > 0
  BY <1>1, <1>2, <1>5
<1>6. /\ \A id : id \in DOMAIN Sweep(m) <=> id \in DOMAIN s /\ (~ m[id].dest \/ \E q \in Proc : m[id].att[q] > 0)
      /\ \A id \in DOMAIN Sweep(m) : Sweep(m)[id] = m[id]
      /\ Table(Sweep(m))
  BY <1>3, Sweeps
<1>7. \A id : id \in DOMAIN Sweep(m) <=>
                id \in DOMAIN s /\ (~ s[id].dest \/ \E q \in Proc \ {p} : s[id].att[q] > 0)
  BY <1>2, <1>5, <1>6
<1>8. \A id \in DOMAIN Sweep(m) : /\ Sweep(m)[id].dest = s[id].dest
                                  /\ \A q \in Proc : Sweep(m)[id].att[q] = IF q = p THEN 0 ELSE s[id].att[q]
  BY <1>2, <1>6
<1> QED
  BY <1>4, <1>6, <1>7, <1>8

-----------------------------------------------------------------------------

\* How many segments there have been.
Used == Cardinality(DOMAIN content)

Reading == pc \in {"arguments", "prepare"}
Sent == pc \in {"fork", "wait", "cleanup"}

\* The segments of the command in progress, and those the shell has attached.
Current ==
  {id \in Range(shm_arg_ids) : Reading \/ Sent}
    \cup {id \in {shm_argv_id, shm_out_id} : Sent /\ id # NoId}
Held(id) == id \notin Current \/ (Sent /\ id = shm_argv_id)

TypesOK ==
  /\ Used \in Nat /\ DOMAIN content = 1 .. Used
  /\ pc \in {"prompt", "arguments", "prepare", "fork", "wait", "cleanup", "over"}
  /\ child \in {"none", "forked", "running", "ran", "failed"}
  /\ child \in {"forked", "running"} => pc = "wait"
  /\ shm_arg_ids \in Seq(1 .. Used) /\ typed \in Seq(Argument)

ShmOK ==
  /\ Table(shm) /\ DOMAIN shm \subseteq 1 .. Used /\ Current \subseteq DOMAIN shm
  /\ \A id \in DOMAIN shm :
       /\ shm[id].dest <=> id \notin Current
       /\ shm[id].att["shell"] = IF Held(id) THEN 1 ELSE 0
       /\ shm[id].att["child"] = IF Held(id) /\ child = "forked" THEN 1 ELSE 0
  /\ pc = "over" => DOMAIN shm = {}

\* Each argument is in a segment of its own.
ArgumentsOK ==
  Reading \/ Sent =>
    /\ Len(typed) = Len(shm_arg_ids)
    /\ \A i \in 1 .. Len(typed) : content[shm_arg_ids[i]] = typed[i]

SentOK ==
  Sent =>
    /\ shm_out_id \in 1 .. Used /\ shm_out_id \notin Range(shm_arg_ids) \cup {shm_argv_id}
    /\ Len(shm_arg_ids) = 0 => shm_argv_id = NoId
    /\ Len(shm_arg_ids) # 0 => /\ shm_argv_id \in 1 .. Used /\ shm_argv_id \notin Range(shm_arg_ids)
                               /\ content[shm_argv_id] = shm_arg_ids

Answer == IF child = "ran" THEN Output(command, typed) ELSE Empty

AnswerOK ==
  /\ pc = "fork" => content[shm_out_id] = Empty
  /\ pc = "wait" => content[shm_out_id] = Answer /\ child # "none"
  /\ pc = "cleanup" => printed = Answer /\ child \in {"ran", "failed"}

IInv == TypesOK /\ ShmOK /\ ArgumentsOK /\ SentOK /\ AnswerOK

-----------------------------------------------------------------------------

\* The range of a sequence is what its indices give.
LEMMA RangeIs ==
  ASSUME NEW S, NEW s \in Seq(S)
  PROVE  /\ Range(s) \subseteq S /\ \A i \in 1 .. Len(s) : s[i] \in Range(s)
         /\ \A x \in Range(s) : \E i \in 1 .. Len(s) : x = s[i]
         /\ Len(s) = 0 => Range(s) = {}
BY DEF Range

\* A sequence over a set is one over a larger set.
LEMMA SeqGrows ==
  ASSUME NEW S, NEW T, S \subseteq T, NEW s \in Seq(S)
  PROVE  s \in Seq(T) /\ \A i \in 1 .. Len(s) : s[i] \in S
OBVIOUS

\* One more element at the end of a sequence is one more in its range.
LEMMA RangeAppend ==
  ASSUME NEW S, NEW s \in Seq(S), NEW e \in S
  PROVE  /\ Append(s, e) \in Seq(S) /\ Len(Append(s, e)) = Len(s) + 1
         /\ \A i \in 1 .. Len(s) : Append(s, e)[i] = s[i]
         /\ Append(s, e)[Len(s) + 1] = e
         /\ Range(Append(s, e)) = Range(s) \cup {e}
<1> DEFINE a == Append(s, e)
<1>1. /\ a \in Seq(S) /\ Len(a) = Len(s) + 1 /\ Len(s) \in Nat
      /\ \A i \in 1 .. Len(s) : a[i] = s[i]
      /\ a[Len(s) + 1] = e
  OBVIOUS
<1> HIDE DEF a
<1>2. DOMAIN a = 1 .. Len(s) + 1 /\ DOMAIN s = 1 .. Len(s)
  BY <1>1
<1>3. Range(a) = Range(s) \cup {e}
  BY <1>1, <1>2 DEF Range
<1> QED
  BY <1>1, <1>3 DEF a

\* The segments of the command in progress, by how far main has come.
LEMMA CurrentIs ==
  /\ pc \in {"prompt", "over"} => Current = {} /\ \A id : Held(id)
  /\ Reading => Current = Range(shm_arg_ids) /\ \A id : Held(id) <=> id \notin Current
  /\ Sent => /\ Current = Range(shm_arg_ids) \cup ({shm_argv_id, shm_out_id} \ {NoId})
             /\ \A id : Held(id) <=> id \notin Current \/ id = shm_argv_id
BY DEF Current, Held, Reading, Sent

\* The same after a step.
LEMMA CurrentIsAfter ==
  ( /\ pc \in {"prompt", "over"} => Current = {} /\ \A id : Held(id)
    /\ Reading => Current = Range(shm_arg_ids) /\ \A id : Held(id) <=> id \notin Current
    /\ Sent => /\ Current = Range(shm_arg_ids) \cup ({shm_argv_id, shm_out_id} \ {NoId})
               /\ \A id : Held(id) <=> id \notin Current \/ id = shm_argv_id )'
BY CurrentIs, PTL

\* Segments are numbered as they are made.
LEMMA NewIdIs ==
  ASSUME IInv
  PROVE  /\ NewId = Used + 1 /\ Used \in Nat /\ DOMAIN content = 1 .. Used
         /\ Used + 1 \notin DOMAIN content /\ Used + 1 \notin DOMAIN shm
<1>1. Used \in Nat /\ DOMAIN content = 1 .. Used /\ DOMAIN shm \subseteq 1 .. Used
  BY DEF IInv, TypesOK, ShmOK
<1> QED
  BY <1>1 DEF NewId, Used

\* The segments that have been made are counted by their numbers.
LEMMA UsedIs ==
  ASSUME NEW n \in Nat, DOMAIN content' = 1 .. n
  PROVE  Used' = n
BY FS_Interval DEF Used

\* A step that leaves the segments alone, and whose they are.
LEMMA ShmStays ==
  ASSUME ShmOK, shm' = shm, Used' = Used, Current' = Current,
         \A id : Held(id)' <=> Held(id), (child = "forked")' <=> child = "forked",
         pc' = "over" => pc = "over"
  PROVE  ShmOK'
BY DEF ShmOK

-----------------------------------------------------------------------------

\* The invariant holds in the first state.
LEMMA InitIInv == Init => IInv
<1> SUFFICES ASSUME Init PROVE IInv
  OBVIOUS
<1>1. /\ shm = <<>> /\ content = <<>> /\ pc = "prompt" /\ child = "none"
      /\ shm_arg_ids = <<>> /\ typed = <<>>
  BY DEF Init
<1>2. DOMAIN content = {} /\ 1 .. 0 = {} /\ DOMAIN shm = {}
  BY <1>1
<1>3. Used = 0
  BY <1>2, FS_EmptySet DEF Used
<1>4. TypesOK
  BY <1>1, <1>2, <1>3 DEF TypesOK
<1>5. Table(shm)
  BY <1>1, <1>2 DEF Table
<1>6. ShmOK
  BY <1>1, <1>2, <1>5, CurrentIs DEF ShmOK
<1> QED
  BY <1>1, <1>4, <1>6 DEF IInv, ArgumentsOK, SentOK, AnswerOK, Reading, Sent

\* The name of a command begins it with no arguments.
LEMMA ReadCommandStep ==
  ASSUME IInv, NEW word, ReadCommand(word)
  PROVE  IInv'
<1>1. /\ pc = "prompt" /\ pc' = "arguments" /\ shm_arg_ids' = <<>> /\ typed' = <<>>
      /\ shm' = shm /\ content' = content /\ child' = child
  BY DEF ReadCommand, segments
<1>2. Used' = Used /\ Current' = Current /\ (\A id : Held(id)' <=> Held(id))
  <2>1. Range(<<>>) = {}
    BY DEF Range
  <2>2. Reading' /\ Current = {} /\ \A id : Held(id)
    BY <1>1, CurrentIs DEF Reading
  <2>3. Current' = {} /\ \A id : Held(id)'
    BY <1>1, <2>1, <2>2, CurrentIsAfter
  <2> QED
    BY <1>1, <2>2, <2>3 DEF Used
<1>3. TypesOK'
  BY <1>1, <1>2 DEF IInv, TypesOK
<1>4. ShmOK'
  BY <1>1, <1>2, ShmStays DEF IInv
<1> QED
  BY <1>1, <1>3, <1>4 DEF IInv, ArgumentsOK, SentOK, AnswerOK, Sent

\* An empty word leaves the arguments as they are.
LEMMA ReadNoArgumentStep ==
  ASSUME IInv, ReadNoArgument
  PROVE  IInv'
<1>1. /\ pc = "arguments" /\ pc' = "prepare"
      /\ UNCHANGED <<shm, content, child, command, shm_arg_ids, shm_argv_id, shm_out_id, printed, typed>>
  BY DEF ReadNoArgument, segments, args
<1>2. Used' = Used /\ Current' = Current /\ (\A id : Held(id)' <=> Held(id))
  BY <1>1, CurrentIs, CurrentIsAfter DEF Used, Reading
<1>3. TypesOK'
  BY <1>1, <1>2 DEF IInv, TypesOK
<1>4. ShmOK'
  BY <1>1, <1>2, ShmStays DEF IInv
<1> QED
  BY <1>1, <1>3, <1>4 DEF IInv, ArgumentsOK, SentOK, AnswerOK, Reading, Sent

\* At the prompt the segments are those that are marked, and go with the shell.
LEMMA ExitStep ==
  ASSUME IInv, Exit
  PROVE  IInv'
<1>1. /\ pc = "prompt" /\ pc' = "over" /\ shm' = Ended(shm, "shell")
      /\ UNCHANGED <<content, child, command, shm_arg_ids, shm_argv_id, shm_out_id, printed, typed>>
  BY DEF Exit, args
<1>2. Table(shm) /\ \A id \in DOMAIN shm : shm[id].dest /\ shm[id].att["child"] = 0
  BY <1>1, CurrentIs DEF IInv, TypesOK, ShmOK
<1>a. Table(shm) /\ "shell" \in Proc
  BY <1>2, ProcAssumption
<1>3. DOMAIN shm' = {} /\ Table(shm')
  <2>1. /\ Table(shm')
        /\ \A id : id \in DOMAIN shm' <=>
             id \in DOMAIN shm /\ (~ shm[id].dest \/ \E q \in Proc \ {"shell"} : shm[id].att[q] > 0)
    BY ZenonT(60), <1>1, <1>a, Ends
  <2>2. \A q \in Proc \ {"shell"} : q = "child"
    BY ProcAssumption
  <2>3. \A id \in DOMAIN shm : \A q \in Proc \ {"shell"} : ~ (shm[id].att[q] > 0)
    BY <1>2, <2>2
  <2> QED
    BY <1>2, <2>1, <2>3
<1>4. TypesOK'
  BY <1>1 DEF IInv, TypesOK, Used
<1>5. ShmOK'
  BY <1>1, <1>3, CurrentIsAfter DEF ShmOK
<1> QED
  BY <1>1, <1>4, <1>5 DEF IInv, ArgumentsOK, SentOK, AnswerOK, Reading, Sent

\* An argument gets a new segment, which is neither marked nor attached.
LEMMA ReadArgumentStep ==
  ASSUME IInv, NEW word \in Argument, NEW end, ReadArgument(word, end)
  PROVE  IInv'
<1> DEFINE n == Used + 1
<1>1. /\ pc = "arguments" /\ pc' \in {"arguments", "prepare"}
      /\ shm' = Created(shm, n) /\ content' = Stored(content, n, word)
      /\ shm_arg_ids' = Append(shm_arg_ids, n) /\ typed' = Append(typed, word)
      /\ child' = child /\ command' = command
  BY NewIdIs DEF ReadArgument
<1>2. /\ Used \in Nat /\ n \in Nat /\ DOMAIN content = 1 .. Used /\ Table(shm) /\ DOMAIN shm \subseteq 1 .. Used
      /\ n \notin DOMAIN content /\ n \notin DOMAIN shm
      /\ shm_arg_ids \in Seq(1 .. Used) /\ typed \in Seq(Argument) /\ Len(typed) = Len(shm_arg_ids)
      /\ child \notin {"forked", "running"} /\ child \in {"none", "forked", "running", "ran", "failed"}
  <2>1. TypesOK /\ Table(shm) /\ DOMAIN shm \subseteq 1 .. Used
    BY DEF IInv, ShmOK
  <2>2. Len(typed) = Len(shm_arg_ids)
    BY <1>1 DEF IInv, ArgumentsOK, Reading
  <2> QED
    BY <1>1, <2>1, <2>2, NewIdIs DEF TypesOK
<1>3. /\ DOMAIN content' = 1 .. n /\ content'[n] = word
      /\ \A x \in 1 .. Used : content'[x] = content[x]
  <2>1. content' = Stored(content, n, word)
    BY <1>1
  <2> HIDE DEF n
  <2>2. /\ DOMAIN content' = DOMAIN content \cup {n} /\ content'[n] = word
        /\ \A x \in DOMAIN content \ {n} : content'[x] = content[x]
    BY <2>1 DEF Stored
  <2> QED
    BY <1>2, <2>2 DEF n
<1>4. Used' = n
  BY <1>2, <1>3, UsedIs
<1>5. \A x \in 1 .. Used : x \in 1 .. n
  BY <1>2
<1>6. /\ shm_arg_ids' \in Seq(1 .. n) /\ Len(shm_arg_ids') = Len(shm_arg_ids) + 1
      /\ \A i \in 1 .. Len(shm_arg_ids) : shm_arg_ids'[i] = shm_arg_ids[i] /\ shm_arg_ids[i] \in 1 .. Used
      /\ shm_arg_ids'[Len(shm_arg_ids) + 1] = n
      /\ Range(shm_arg_ids') = Range(shm_arg_ids) \cup {n}
  <2>1. shm_arg_ids \in Seq(1 .. n) /\ \A i \in 1 .. Len(shm_arg_ids) : shm_arg_ids[i] \in 1 .. Used
    BY <1>2, <1>5, SeqGrows
  <2>2. n \in 1 .. n
    BY <1>2
  <2> HIDE DEF n
  <2> QED
    BY SMTT(30), <1>1, <2>1, <2>2, RangeAppend
<1>7. TypesOK'
  <2>1. typed' \in Seq(Argument)
    BY <1>1, <1>2
  <2> QED
    BY <1>1, <1>2, <1>3, <1>4, <1>6, <2>1 DEF TypesOK
<1>8. Current' = Current \cup {n} /\ n \notin Current /\ \A id : Held(id)' <=> id \notin Current'
  <2>1. Current = Range(shm_arg_ids) /\ Current \subseteq DOMAIN shm
    BY <1>1, CurrentIs DEF Reading, IInv, ShmOK
  <2>2. Current' = Range(shm_arg_ids') /\ \A id : Held(id)' <=> id \notin Current'
    BY <1>1, CurrentIsAfter DEF Reading
  <2> QED
    BY <1>2, <1>6, <2>1, <2>2
<1> HIDE DEF n
<1>a. n \in Nat /\ Table(shm)
  BY <1>2
<1>9. /\ DOMAIN shm' = DOMAIN shm \cup {n} /\ Table(shm')
      /\ shm'[n].dest = FALSE /\ \A p \in Proc : shm'[n].att[p] = 0
      /\ \A x \in DOMAIN shm \ {n} : shm'[x] = shm[x]
  BY ZenonT(60), <1>1, <1>a, Creates
<1>10. ShmOK'
  <2>1. DOMAIN shm' \subseteq 1 .. n /\ Current' \subseteq DOMAIN shm'
    BY <1>2, <1>5, <1>8, <1>9 DEF n, IInv, ShmOK
  <2>2. ASSUME NEW id \in DOMAIN shm'
        PROVE  /\ shm'[id].dest <=> id \notin Current'
               /\ shm'[id].att["shell"] = IF Held(id)' THEN 1 ELSE 0
               /\ shm'[id].att["child"] = 0
    <3>1. CASE id = n
      BY <1>8, <1>9, <3>1, ProcAssumption
    <3>2. CASE id # n
      <4>1. id \in DOMAIN shm /\ shm'[id] = shm[id] /\ (id \in Current' <=> id \in Current)
        BY <1>8, <1>9, <3>2
      <4>2. Held(id) <=> id \notin Current
        BY <1>1, CurrentIs DEF Reading
      <4>3. /\ shm[id].dest <=> id \notin Current
            /\ shm[id].att["shell"] = IF Held(id) THEN 1 ELSE 0
            /\ shm[id].att["child"] = IF Held(id) /\ child = "forked" THEN 1 ELSE 0
        BY <4>1 DEF IInv, ShmOK
      <4> QED
        BY <1>2, <1>8, <4>1, <4>2, <4>3
    <3> QED
      BY <3>1, <3>2
  <2> QED
    BY <1>1, <1>2, <1>4, <1>9, <2>1, <2>2 DEF ShmOK
<1>11. ArgumentsOK'
  <2>1. /\ Len(typed') = Len(typed) + 1 /\ typed'[Len(typed) + 1] = word
        /\ \A i \in 1 .. Len(typed) : typed'[i] = typed[i]
    BY <1>1, <1>2
  <2>2. \A i \in 1 .. Len(typed) : content[shm_arg_ids[i]] = typed[i]
    BY <1>1 DEF IInv, ArgumentsOK, Reading
  <2>3. ASSUME NEW i \in 1 .. Len(typed') PROVE content'[shm_arg_ids'[i]] = typed'[i]
    <3>1. CASE i \in 1 .. Len(typed)
      BY <1>2, <1>3, <1>6, <2>1, <2>2, <3>1
    <3>2. CASE i = Len(typed) + 1
      BY <1>2, <1>3, <1>6, <2>1, <3>2
    <3> QED
      BY <1>2, <2>1, <3>1, <3>2
  <2> QED
    BY <1>2, <1>6, <2>1, <2>3 DEF ArgumentsOK
<1> QED
  BY <1>1, <1>7, <1>10, <1>11 DEF IInv, SentOK, AnswerOK, Sent

\* Only the empty sequence has no length.
LEMMA EmptySeq ==
  ASSUME NEW S, NEW s \in Seq(S)
  PROVE  s = <<>> <=> Len(s) = 0
OBVIOUS

\* What IInv says before the segments for the ids and for the output are made.
LEMMA PrepareFacts ==
  ASSUME IInv, pc = "prepare"
  PROVE  /\ Used \in Nat /\ DOMAIN content = 1 .. Used /\ Table(shm) /\ DOMAIN shm \subseteq 1 .. Used
         /\ child \in {"none", "ran", "failed"}
         /\ shm_arg_ids \in Seq(1 .. Used) /\ typed \in Seq(Argument) /\ Len(typed) = Len(shm_arg_ids)
         /\ Range(shm_arg_ids) \subseteq DOMAIN shm
         /\ \A i \in 1 .. Len(shm_arg_ids) : shm_arg_ids[i] \in 1 .. Used
         /\ \A i \in 1 .. Len(typed) : content[shm_arg_ids[i]] = typed[i]
         /\ \A id \in DOMAIN shm :
              /\ shm[id].dest <=> id \notin Range(shm_arg_ids)
              /\ shm[id].att["shell"] = IF id \in Range(shm_arg_ids) THEN 0 ELSE 1
              /\ shm[id].att["child"] = 0
<1>1. TypesOK /\ child \in {"none", "ran", "failed"}
  BY DEF IInv, TypesOK
<1>2. Reading /\ Current = Range(shm_arg_ids) /\ \A id : Held(id) <=> id \notin Current
  BY CurrentIs DEF Reading
<1>3. /\ Table(shm) /\ DOMAIN shm \subseteq 1 .. Used /\ Range(shm_arg_ids) \subseteq DOMAIN shm
      /\ \A id \in DOMAIN shm :
           /\ shm[id].dest <=> id \notin Range(shm_arg_ids)
           /\ shm[id].att["shell"] = IF id \in Range(shm_arg_ids) THEN 0 ELSE 1
           /\ shm[id].att["child"] = 0
  BY <1>1, <1>2 DEF IInv, ShmOK
<1>4. /\ Len(typed) = Len(shm_arg_ids)
      /\ \A i \in 1 .. Len(typed) : content[shm_arg_ids[i]] = typed[i]
  BY <1>2 DEF IInv, ArgumentsOK
<1>5. \A i \in 1 .. Len(shm_arg_ids) : shm_arg_ids[i] \in 1 .. Used
  BY <1>1 DEF TypesOK
<1> QED
  BY <1>1, <1>3, <1>4, <1>5 DEF TypesOK

\* The invariant after Prepare, from what it has done to the segments.
LEMMA Prepared ==
  ASSUME IInv, pc = "prepare", pc' = "fork", NEW m \in Nat, Used <= m,
         UNCHANGED <<child, command, shm_arg_ids, typed>>,
         DOMAIN content' = 1 .. m, \A x \in 1 .. Used : content'[x] = content[x],
         shm_out_id' \in Used + 1 .. m, content'[shm_out_id'] = Empty,
         \/ Len(shm_arg_ids) = 0 /\ shm_argv_id' = NoId
         \/ /\ Len(shm_arg_ids) # 0 /\ shm_argv_id' \in Used + 1 .. m /\ shm_argv_id' # shm_out_id'
            /\ content'[shm_argv_id'] = shm_arg_ids,
         Table(shm'), DOMAIN shm' = DOMAIN shm \cup ({shm_argv_id', shm_out_id'} \ {NoId}),
         \A x \in DOMAIN shm : shm'[x] = shm[x],
         \A x \in {shm_argv_id', shm_out_id'} \ {NoId} :
           /\ ~ shm'[x].dest /\ shm'[x].att["child"] = 0
           /\ shm'[x].att["shell"] = IF x = shm_argv_id' THEN 1 ELSE 0
  PROVE  IInv'
<1> DEFINE new == {shm_argv_id', shm_out_id'} \ {NoId}
           ids == Range(shm_arg_ids)
<1>1. /\ Used \in Nat /\ DOMAIN shm \subseteq 1 .. Used /\ ids \subseteq DOMAIN shm
      /\ child \in {"none", "ran", "failed"}
      /\ shm_arg_ids \in Seq(1 .. Used) /\ typed \in Seq(Argument) /\ Len(typed) = Len(shm_arg_ids)
  BY PrepareFacts
<1>2. Used' = m
  BY UsedIs
<1>3. \A x \in new : x \in Used + 1 .. m /\ x \in 1 .. m /\ x \notin 1 .. Used
  BY <1>1
<1>4. \A x \in 1 .. Used : x \in 1 .. m /\ x # shm_out_id' /\ x # shm_argv_id'
  BY <1>1 DEF NoId
<1>5. Current' = ids \cup new /\ \A id : Held(id)' <=> id \notin Current' \/ id = shm_argv_id'
  BY CurrentIsAfter DEF Sent
<1> HIDE DEF new, ids
<1>6. TypesOK'
  <2>1. shm_arg_ids \in Seq(1 .. m)
    BY <1>1, <1>4, SeqGrows
  <2> QED
    BY <1>1, <1>2, <2>1 DEF TypesOK
<1>7. ShmOK'
  <2>1. DOMAIN shm' = DOMAIN shm \cup new
    BY DEF new
  <2>2. ASSUME NEW id \in DOMAIN shm'
        PROVE  /\ shm'[id].dest <=> id \notin Current'
               /\ shm'[id].att["shell"] = IF Held(id)' THEN 1 ELSE 0
               /\ shm'[id].att["child"] = 0
    <3>1. CASE id \in new
      BY <1>5, <3>1 DEF new
    <3>2. CASE id \notin new
      <4>1. id \in DOMAIN shm /\ id \in 1 .. Used /\ shm'[id] = shm[id] /\ id # shm_argv_id'
        BY <1>1, <1>4, <2>1, <3>2
      <4>2. (id \in Current' <=> id \in ids) /\ (Held(id)' <=> id \notin ids)
        BY <1>5, <3>2, <4>1
      <4>3. /\ shm[id].dest <=> id \notin ids
            /\ shm[id].att["shell"] = IF id \in ids THEN 0 ELSE 1
            /\ shm[id].att["child"] = 0
        BY <4>1, PrepareFacts DEF ids
      <4> QED
        BY <4>1, <4>2, <4>3
    <3> QED
      BY <3>1, <3>2
  <2>3. DOMAIN shm' \subseteq 1 .. m /\ Current' \subseteq DOMAIN shm'
    BY <1>1, <1>3, <1>4, <1>5, <2>1
  <2> QED
    BY <1>1, <1>2, <2>2, <2>3 DEF ShmOK
<1>8. ArgumentsOK'
  BY <1>1, PrepareFacts DEF ArgumentsOK
<1>9. SentOK'
  <2>1. \A x \in ids : x \in 1 .. Used
    BY <1>1
  <2>2. shm_out_id' \in 1 .. m /\ shm_out_id' \notin ids /\ shm_out_id' # shm_argv_id'
    BY <1>1, <1>4, <2>1 DEF NoId
  <2>3. Len(shm_arg_ids) # 0 => /\ shm_argv_id' \in 1 .. m /\ shm_argv_id' \notin ids
                                /\ content'[shm_argv_id'] = shm_arg_ids
    BY <1>1, <1>4, <2>1
  <2> QED
    BY <1>2, <2>2, <2>3 DEF SentOK, ids
<1>10. AnswerOK'
  BY DEF AnswerOK
<1> QED
  BY <1>6, <1>7, <1>8, <1>9, <1>10 DEF IInv

\* Without arguments there is one new segment.
LEMMA PrepareOutput ==
  ASSUME IInv, Prepare, shm_arg_ids = <<>>
  PROVE  IInv'
<1> DEFINE n == Used + 1
<1>1. /\ pc = "prepare" /\ pc' = "fork" /\ UNCHANGED <<child, command, shm_arg_ids, typed>>
      /\ shm_argv_id' = NoId /\ shm_out_id' = n
      /\ shm' = Created(shm, n) /\ content' = Stored(content, n, Empty)
  BY NewIdIs DEF Prepare
<1>2. Used \in Nat /\ DOMAIN content = 1 .. Used /\ Table(shm) /\ n \in Nat /\ n # NoId
  BY <1>1, PrepareFacts DEF NoId
<1>3. Len(shm_arg_ids) = 0
  BY <1>1
<1>4. n \notin DOMAIN content /\ n \notin DOMAIN shm
  BY NewIdIs
<1>5. n \in Used + 1 .. n /\ Used <= n /\ DOMAIN content \cup {n} = 1 .. n
  BY <1>2
<1>a. n \in Nat /\ Table(shm)
  BY <1>2
<1> HIDE DEF n
<1>6. /\ DOMAIN content' = DOMAIN content \cup {n} /\ content'[n] = Empty
      /\ \A x \in DOMAIN content \ {n} : content'[x] = content[x]
  BY <1>1 DEF Stored
<1>7. /\ DOMAIN shm' = DOMAIN shm \cup {n} /\ Table(shm')
      /\ shm'[n].dest = FALSE /\ \A p \in Proc : shm'[n].att[p] = 0
      /\ \A x \in DOMAIN shm \ {n} : shm'[x] = shm[x]
  BY ZenonT(60), <1>1, <1>a, Creates
<1>8. {shm_argv_id', shm_out_id'} \ {NoId} = {n}
  BY <1>1, <1>2
<1>9. \A x \in {shm_argv_id', shm_out_id'} \ {NoId} :
        /\ ~ shm'[x].dest /\ shm'[x].att["child"] = 0
        /\ shm'[x].att["shell"] = IF x = shm_argv_id' THEN 1 ELSE 0
  BY <1>1, <1>2, <1>7, <1>8, ProcAssumption
<1>10. \A x \in 1 .. Used : content'[x] = content[x]
  BY <1>2, <1>4, <1>6
<1>11. \A x \in DOMAIN shm : shm'[x] = shm[x]
  BY <1>4, <1>7
<1> QED
  BY <1>1, <1>2, <1>3, <1>5, <1>6, <1>7, <1>8, <1>9, <1>10, <1>11, Prepared

\* Otherwise there are two, and the shell remains attached to the first.
LEMMA PrepareBoth ==
  ASSUME IInv, Prepare, shm_arg_ids # <<>>
  PROVE  IInv'
<1> DEFINE n == Used + 1  m == Used + 2
           s == Created(shm, n)
           t == Attached(s, n, "shell")
           c == Stored(content, m, Empty)
<1>1. /\ pc = "prepare" /\ pc' = "fork" /\ UNCHANGED <<child, command, shm_arg_ids, typed>>
      /\ shm_argv_id' = n /\ shm_out_id' = m
      /\ shm' = Created(t, m) /\ content' = Stored(c, n, shm_arg_ids)
  <2>1. NewId + 1 = Used + 2
    BY NewIdIs
  <2> QED
    BY <2>1, NewIdIs DEF Prepare
<1>2. /\ Used \in Nat /\ DOMAIN content = 1 .. Used /\ Table(shm) /\ DOMAIN shm \subseteq 1 .. Used
      /\ shm_arg_ids \in Seq(1 .. Used)
  BY <1>1, PrepareFacts
<1>3. Len(shm_arg_ids) # 0
  BY <1>2, EmptySeq
<1>4. /\ n \in Nat /\ m \in Nat /\ n # m /\ n # NoId /\ m # NoId
      /\ n \in Used + 1 .. m /\ m \in Used + 1 .. m /\ Used <= m
  BY <1>2 DEF NoId
<1>5. /\ n \notin 1 .. Used /\ m \notin 1 .. Used /\ n \notin DOMAIN shm /\ m \notin DOMAIN shm
      /\ (1 .. Used) \cup {m, n} = 1 .. m
  BY <1>2
<1>a. n \in Nat /\ m \in Nat /\ n # m
  BY <1>4
<1>b. Table(shm) /\ "shell" \in Proc /\ "child" \in Proc /\ "child" # "shell"
  BY <1>2, ProcAssumption
<1> HIDE DEF n, m, s, t, c
<1>6. /\ DOMAIN content' = 1 .. m /\ content'[m] = Empty /\ content'[n] = shm_arg_ids
      /\ \A x \in 1 .. Used : content'[x] = content[x]
  <2>1. /\ DOMAIN c = DOMAIN content \cup {m} /\ c[m] = Empty
        /\ \A x \in DOMAIN content \ {m} : c[x] = content[x]
    BY DEF c, Stored
  <2>2. /\ DOMAIN content' = DOMAIN c \cup {n} /\ content'[n] = shm_arg_ids
        /\ \A x \in DOMAIN c \ {n} : content'[x] = c[x]
    BY <1>1 DEF Stored
  <2>3. DOMAIN content' = 1 .. m
    BY <1>2, <1>5, <2>1, <2>2
  <2>4. \A x \in 1 .. Used : x # n /\ x # m
    BY <1>5
  <2> QED
    BY <1>2, <1>4, <2>1, <2>2, <2>3, <2>4
<1>7. /\ DOMAIN s = DOMAIN shm \cup {n} /\ Table(s)
      /\ s[n].dest = FALSE /\ \A p \in Proc : s[n].att[p] = 0
      /\ \A x \in DOMAIN shm \ {n} : s[x] = shm[x]
  BY ZenonT(60), <1>a, <1>b, Creates DEF s
<1>8. /\ DOMAIN t = DOMAIN s /\ Table(t)
      /\ t[n].dest = s[n].dest /\ t[n].att["shell"] = s[n].att["shell"] + 1
      /\ \A p \in Proc \ {"shell"} : t[n].att[p] = s[n].att[p]
      /\ \A x \in DOMAIN s \ {n} : t[x] = s[x]
  <2>1. n \in DOMAIN s /\ Table(s) /\ "shell" \in Proc
    BY <1>b, <1>7
  <2>2. DOMAIN t = DOMAIN s /\ Table(t)
    BY ZenonT(60), <2>1, Attaches DEF t
  <2>3. t[n].dest = s[n].dest /\ t[n].att["shell"] = s[n].att["shell"] + 1
    BY SMTT(30), <2>1, Attaches DEF t
  <2>4. \A p \in Proc \ {"shell"} : t[n].att[p] = s[n].att[p]
    BY ZenonT(60), <2>1, Attaches DEF t
  <2>5. \A x \in DOMAIN s \ {n} : t[x] = s[x]
    BY ZenonT(60), <2>1, Attaches DEF t
  <2> QED
    BY <2>2, <2>3, <2>4, <2>5
<1>9. /\ DOMAIN shm' = DOMAIN t \cup {m} /\ Table(shm')
      /\ shm'[m].dest = FALSE /\ \A p \in Proc : shm'[m].att[p] = 0
      /\ \A x \in DOMAIN t \ {m} : shm'[x] = t[x]
  BY ZenonT(60), <1>1, <1>a, <1>8, Creates
<1>10. {shm_argv_id', shm_out_id'} \ {NoId} = {n, m}
  BY <1>1, <1>4
<1>11. \A x \in DOMAIN shm : shm'[x] = shm[x]
  BY <1>5, <1>7, <1>8, <1>9
<1>12. DOMAIN shm' = DOMAIN shm \cup {n, m}
  BY <1>7, <1>8, <1>9
<1>13. ~ shm'[n].dest /\ shm'[n].att["child"] = 0 /\ shm'[n].att["shell"] = 1
  <2>1. n \in DOMAIN t /\ shm'[n] = t[n]
    BY <1>a, <1>7, <1>8, <1>9
  <2>2. s[n].att["shell"] = 0 /\ s[n].att["child"] = 0
    BY <1>b, <1>7
  <2> QED
    BY <1>b, <1>7, <1>8, <2>1, <2>2
<1>14. ~ shm'[m].dest /\ shm'[m].att["child"] = 0 /\ shm'[m].att["shell"] = 0
  BY <1>b, <1>9
<1>15. \A x \in {shm_argv_id', shm_out_id'} \ {NoId} :
         /\ ~ shm'[x].dest /\ shm'[x].att["child"] = 0
         /\ shm'[x].att["shell"] = IF x = shm_argv_id' THEN 1 ELSE 0
  BY <1>1, <1>4, <1>10, <1>13, <1>14
<1> QED
  BY <1>1, <1>3, <1>4, <1>6, <1>9, <1>10, <1>11, <1>12, <1>15, Prepared

\* Prepare keeps the invariant, with and without arguments.
LEMMA PrepareStep ==
  ASSUME IInv, Prepare
  PROVE  IInv'
BY PrepareOutput, PrepareBoth

\* What IInv says once the segments for the ids and for the output are made.
LEMMA SentFacts ==
  ASSUME IInv, Sent
  PROVE  /\ Table(shm) /\ Current \subseteq DOMAIN shm /\ DOMAIN shm \subseteq 1 .. Used
         /\ Current = Range(shm_arg_ids) \cup ({shm_argv_id, shm_out_id} \ {NoId})
         /\ \A id \in DOMAIN shm :
              /\ shm[id].dest <=> id \notin Current
              /\ shm[id].att["shell"] = IF Held(id) THEN 1 ELSE 0
              /\ shm[id].att["child"] = IF Held(id) /\ child = "forked" THEN 1 ELSE 0
         /\ \A id : Held(id) <=> id \notin Current \/ id = shm_argv_id
BY CurrentIs DEF IInv, ShmOK

\* A child inherits what the shell has attached.
LEMMA ForkStep ==
  ASSUME IInv, Fork
  PROVE  IInv'
<1>1. /\ pc = "fork" /\ pc' = "wait"
      /\ UNCHANGED <<content, command, shm_arg_ids, shm_argv_id, shm_out_id, printed, typed>>
      /\ \/ child' = "forked" /\ shm' = [id \in DOMAIN shm |->
                                           [shm[id] EXCEPT !.att["child"] = @ + shm[id].att["shell"]]]
         \/ child' = "failed" /\ shm' = shm
  BY DEF Fork, args
<1>2. Sent /\ Sent' /\ Used' = Used /\ child \notin {"forked", "running"}
  BY <1>1 DEF Sent, Used, IInv, TypesOK
<1>3. Current' = Current /\ \A id : Held(id)' <=> Held(id)
  BY <1>1, <1>2, CurrentIs, CurrentIsAfter
<1>4. TypesOK'
  BY <1>1, <1>2 DEF IInv, TypesOK
<1>5. ShmOK'
  <2>1. CASE child' = "failed" /\ shm' = shm
    BY <1>1, <1>2, <1>3, <2>1, ShmStays DEF IInv
  <2>2. CASE /\ child' = "forked"
             /\ shm' = [id \in DOMAIN shm |-> [shm[id] EXCEPT !.att["child"] = @ + shm[id].att["shell"]]]
    <3>1. ASSUME NEW id \in DOMAIN shm
          PROVE  /\ shm'[id] \in Segment /\ shm'[id].dest = shm[id].dest
                 /\ shm'[id].att["shell"] = shm[id].att["shell"]
                 /\ shm'[id].att["child"] = shm[id].att["child"] + shm[id].att["shell"]
      <4>1. shm[id] \in Segment /\ shm[id].att \in [Proc -> Nat]
        BY <1>2, SentFacts DEF Table, Segment
      <4> DEFINE a == [shm[id].att EXCEPT !["child"] = @ + shm[id].att["shell"]]
      <4>2. /\ a \in [Proc -> Nat] /\ a["shell"] = shm[id].att["shell"]
            /\ a["child"] = shm[id].att["child"] + shm[id].att["shell"]
        BY <4>1, ProcAssumption
      <4>3. shm'[id] = [shm[id] EXCEPT !.att = a]
        BY <2>2
      <4> HIDE DEF a
      <4>4. shm'[id] \in Segment /\ shm'[id].dest = shm[id].dest /\ shm'[id].att = a
        BY <4>1, <4>2, <4>3 DEF Segment
      <4> QED
        BY <4>2, <4>4
    <3>2. DOMAIN shm' = DOMAIN shm /\ shm' = [id \in DOMAIN shm' |-> shm'[id]]
      BY <2>2
    <3>3. Table(shm')
      BY <3>1, <3>2 DEF Table
    <3>4. ASSUME NEW id \in DOMAIN shm
          PROVE  /\ shm'[id].dest <=> id \notin Current
                 /\ shm'[id].att["shell"] = IF Held(id) THEN 1 ELSE 0
                 /\ shm'[id].att["child"] = IF Held(id) THEN 1 ELSE 0
      BY <1>2, <3>1, SentFacts
    <3>5. Current \subseteq DOMAIN shm /\ DOMAIN shm \subseteq 1 .. Used
      BY <1>2, SentFacts
    <3> QED
      BY <1>1, <1>2, <1>3, <2>2, <3>2, <3>3, <3>4, <3>5 DEF ShmOK
  <2> QED
    BY <1>1, <2>1, <2>2
<1>6. ArgumentsOK' /\ SentOK'
  BY <1>1, <1>2 DEF IInv, ArgumentsOK, SentOK
<1>7. AnswerOK'
  BY <1>1 DEF IInv, AnswerOK, Answer
<1> QED
  BY <1>4, <1>5, <1>6, <1>7 DEF IInv

\* The attachments of a child go when it starts a program: the shell's keep
\* every segment alive.
LEMMA ExecStep ==
  ASSUME IInv, Exec
  PROVE  IInv'
<1>1. /\ child = "forked" /\ child' \in {"failed", "running"} /\ shm' = Ended(shm, "child")
      /\ UNCHANGED <<content, pc, command, shm_arg_ids, shm_argv_id, shm_out_id, printed, typed>>
  BY DEF Exec, args
<1>2. pc = "wait" /\ Sent /\ Used' = Used
  BY <1>1 DEF IInv, TypesOK, Sent, Used
<1>3. Current' = Current /\ \A id : Held(id)' <=> Held(id)
  BY <1>1, <1>2, CurrentIs, CurrentIsAfter DEF Sent
<1>4. /\ Table(shm) /\ Current \subseteq DOMAIN shm /\ DOMAIN shm \subseteq 1 .. Used
      /\ \A id \in DOMAIN shm : /\ shm[id].dest <=> id \notin Current
                                /\ shm[id].att["shell"] = IF Held(id) THEN 1 ELSE 0
      /\ \A id : Held(id) <=> id \notin Current \/ id = shm_argv_id
  BY <1>2, SentFacts
<1>a. Table(shm) /\ "child" \in Proc
  BY <1>4, ProcAssumption
<1>b. "shell" \in Proc \ {"child"}
  BY ProcAssumption
<1>5. /\ Table(shm')
      /\ \A id : id \in DOMAIN shm' <=>
           id \in DOMAIN shm /\ (~ shm[id].dest \/ \E q \in Proc \ {"child"} : shm[id].att[q] > 0)
      /\ \A id \in DOMAIN shm' :
           /\ shm'[id].dest = shm[id].dest
           /\ \A q \in Proc : shm'[id].att[q] = IF q = "child" THEN 0 ELSE shm[id].att[q]
  <2> DEFINE s == Ended(shm, "child")
  <2>1. /\ Table(s)
        /\ \A id : id \in DOMAIN s <=>
             id \in DOMAIN shm /\ (~ shm[id].dest \/ \E q \in Proc \ {"child"} : shm[id].att[q] > 0)
    BY ZenonT(60), <1>a, Ends
  <2>2. \A id \in DOMAIN s : s[id].dest = shm[id].dest
    BY ZenonT(60), <1>a, Ends
  <2>3. \A id \in DOMAIN s : \A q \in Proc : s[id].att[q] = IF q = "child" THEN 0 ELSE shm[id].att[q]
    BY SMTT(30), <1>a, Ends
  <2> HIDE DEF s
  <2>4. shm' = s
    BY <1>1 DEF s
  <2> QED
    BY <2>1, <2>2, <2>3, <2>4
<1>6. DOMAIN shm' = DOMAIN shm
  <2>1. ASSUME NEW id \in DOMAIN shm, shm[id].dest PROVE shm[id].att["shell"] > 0
    BY <1>4, <2>1
  <2> QED
    BY <1>5, <1>b, <2>1
<1>7. TypesOK'
  BY <1>1, <1>2 DEF IInv, TypesOK
<1>8. ShmOK'
  <2>1. ASSUME NEW id \in DOMAIN shm'
        PROVE  /\ shm'[id].dest <=> id \notin Current
               /\ shm'[id].att["shell"] = IF Held(id) THEN 1 ELSE 0
               /\ shm'[id].att["child"] = 0
    BY <1>4, <1>5, <1>6, <1>a, <1>b
  <2> QED
    BY <1>1, <1>2, <1>3, <1>4, <1>5, <1>6, <2>1 DEF ShmOK
<1>9. ArgumentsOK' /\ SentOK'
  BY <1>1, <1>2 DEF IInv, ArgumentsOK, SentOK, Reading, Sent
<1>10. AnswerOK'
  BY <1>1, <1>2 DEF IInv, AnswerOK, Answer
<1> QED
  BY <1>7, <1>8, <1>9, <1>10 DEF IInv

\* A program reads the arguments that were typed, and answers in its output.
LEMMA RunStep ==
  ASSUME IInv, Run
  PROVE  IInv'
<1> DEFINE ids == IF shm_argv_id = NoId THEN <<>> ELSE content[shm_argv_id]
           arguments == [i \in 1 .. Len(ids) |-> content[ids[i]]]
<1>1. /\ child = "running" /\ child' = "ran"
      /\ content' = [content EXCEPT ![shm_out_id] = Output(command, arguments)]
      /\ UNCHANGED <<shm, pc, command, shm_arg_ids, shm_argv_id, shm_out_id, printed, typed>>
  BY DEF Run, args
<1>2. pc = "wait" /\ Sent /\ Used \in Nat /\ DOMAIN content = 1 .. Used /\ shm_arg_ids \in Seq(1 .. Used)
      /\ typed \in Seq(Argument)
  BY <1>1 DEF IInv, TypesOK, Sent
<1>3. /\ shm_out_id \in 1 .. Used /\ shm_out_id \notin Range(shm_arg_ids) /\ shm_out_id # shm_argv_id
      /\ Len(shm_arg_ids) = 0 => shm_argv_id = NoId
      /\ Len(shm_arg_ids) # 0 => shm_argv_id \in 1 .. Used /\ content[shm_argv_id] = shm_arg_ids
      /\ Len(shm_arg_ids) # 0 => shm_argv_id \notin Range(shm_arg_ids)
  BY <1>2 DEF IInv, SentOK
<1>4. Len(typed) = Len(shm_arg_ids) /\ \A i \in 1 .. Len(typed) : content[shm_arg_ids[i]] = typed[i]
  BY <1>2 DEF IInv, ArgumentsOK
<1>5. ids = shm_arg_ids
  <2>1. CASE Len(shm_arg_ids) = 0
    BY <1>2, <1>3, <2>1, EmptySeq
  <2>2. CASE Len(shm_arg_ids) # 0
    BY <1>2, <1>3, <2>2 DEF NoId
  <2> QED
    BY <2>1, <2>2
<1> HIDE DEF ids
<1>6. arguments = typed
  <2>1. typed = [i \in 1 .. Len(typed) |-> typed[i]]
    BY <1>2
  <2> QED
    BY <1>4, <1>5, <2>1
<1> HIDE DEF arguments
<1>7. /\ DOMAIN content' = 1 .. Used /\ content'[shm_out_id] = Output(command, typed)
      /\ \A x \in 1 .. Used : x # shm_out_id => content'[x] = content[x]
  BY <1>1, <1>2, <1>3, <1>6
<1>8. Used' = Used
  BY <1>2, <1>7, UsedIs
<1>9. TypesOK'
  BY <1>1, <1>2, <1>7, <1>8 DEF IInv, TypesOK
<1>10. ShmOK'
  <2>1. Current' = Current /\ \A id : Held(id)' <=> Held(id)
    BY <1>1, <1>2, CurrentIs, CurrentIsAfter DEF Sent
  <2> QED
    BY <1>1, <1>8, <2>1, ShmStays DEF IInv
<1>11. ArgumentsOK'
  <2>1. \A i \in 1 .. Len(shm_arg_ids) : shm_arg_ids[i] \in 1 .. Used /\ shm_arg_ids[i] # shm_out_id
    BY <1>2, <1>3, RangeIs
  <2>2. \A i \in 1 .. Len(typed) : content'[shm_arg_ids[i]] = typed[i]
    BY <1>4, <1>7, <2>1
  <2> QED
    BY <1>1, <1>4, <2>2 DEF ArgumentsOK
<1>12. SentOK'
  <2>1. Len(shm_arg_ids) # 0 => content'[shm_argv_id] = shm_arg_ids
    BY <1>3, <1>7
  <2> QED
    BY <1>1, <1>3, <1>8, <2>1 DEF SentOK
<1>13. AnswerOK'
  BY <1>1, <1>2, <1>7 DEF AnswerOK, Answer
<1> QED
  BY <1>9, <1>10, <1>11, <1>12, <1>13 DEF IInv

\* The shell prints what the child has left.
LEMMA WaitStep ==
  ASSUME IInv, Wait
  PROVE  IInv'
<1>1. /\ pc = "wait" /\ child \in {"ran", "failed"} /\ printed' = content[shm_out_id] /\ pc' = "cleanup"
      /\ UNCHANGED <<shm, content, child, command, shm_arg_ids, shm_argv_id, shm_out_id, typed>>
  BY DEF Wait, segments, args
<1>2. Sent /\ Sent' /\ Used' = Used
  BY <1>1 DEF Sent, Used
<1>3. TypesOK'
  BY <1>1, <1>2 DEF IInv, TypesOK
<1>4. ShmOK'
  <2>1. Current' = Current /\ \A id : Held(id)' <=> Held(id)
    BY <1>1, <1>2, CurrentIs, CurrentIsAfter
  <2> QED
    BY <1>1, <1>2, <2>1, ShmStays DEF IInv
<1>5. ArgumentsOK' /\ SentOK'
  BY <1>1, <1>2 DEF IInv, ArgumentsOK, SentOK
<1>6. AnswerOK'
  BY <1>1 DEF IInv, AnswerOK, Answer
<1> QED
  BY <1>3, <1>4, <1>5, <1>6 DEF IInv

\* Of the command's segments only that of the ids stays, held by the shell.
LEMMA CleanupStep ==
  ASSUME IInv, Cleanup
  PROVE  IInv'
<1> DEFINE ids == Range(shm_arg_ids) \cup {shm_argv_id, shm_out_id}
<1>1. /\ pc = "cleanup" /\ pc' = "prompt" /\ shm' = Removed(shm, ids)
      /\ UNCHANGED <<content, child, command, shm_arg_ids, shm_argv_id, shm_out_id, printed, typed>>
  BY DEF Cleanup, args
<1>2. Sent /\ Used' = Used /\ child \in {"ran", "failed"}
  BY <1>1 DEF Sent, Used, IInv, AnswerOK
<1>3. /\ Table(shm) /\ DOMAIN shm \subseteq 1 .. Used
      /\ \A id \in DOMAIN shm :
           /\ shm[id].dest <=> id \notin Current
           /\ shm[id].att["shell"] = IF Held(id) THEN 1 ELSE 0
           /\ shm[id].att["child"] = 0
      /\ \A id : Held(id) <=> id \notin Current \/ id = shm_argv_id
  BY <1>2, SentFacts
<1>4. \A id \in DOMAIN shm : id \in ids <=> id \in Current
  <2>1. Current = Range(shm_arg_ids) \cup ({shm_argv_id, shm_out_id} \ {NoId})
    BY <1>2, SentFacts
  <2>2. NoId \notin DOMAIN shm
    BY <1>3 DEF NoId
  <2> QED
    BY <2>1, <2>2
<1>a. Table(shm)
  BY <1>3
<1> HIDE DEF ids
<1>5. /\ Table(shm')
      /\ \A id : id \in DOMAIN shm' <=>
           /\ id \in DOMAIN shm
           /\ (id \notin ids /\ ~ shm[id].dest) \/ \E p \in Proc : shm[id].att[p] > 0
      /\ \A id \in DOMAIN shm' :
           /\ shm'[id].att = shm[id].att
           /\ id \in ids => shm'[id].dest
           /\ id \notin ids => shm'[id] = shm[id]
  BY ZenonT(60), <1>1, <1>a, Removes
<1>6. ASSUME NEW id \in DOMAIN shm'
      PROVE  /\ id \in DOMAIN shm /\ shm'[id].dest
             /\ shm'[id].att["shell"] = 1 /\ shm'[id].att["child"] = 0
  <2>1. id \in DOMAIN shm /\ shm'[id].dest
    BY <1>3, <1>4, <1>5
  <2>2. PICK p \in Proc : shm[id].att[p] > 0
    BY <1>3, <1>4, <1>5
  <2>3. p = "shell" \/ p = "child"
    BY ProcAssumption
  <2>4. shm[id].att["shell"] = 1 /\ shm[id].att["child"] = 0
    BY <1>3, <2>1, <2>2, <2>3
  <2> QED
    BY <1>5, <2>1, <2>4
<1>7. TypesOK'
  BY <1>1, <1>2 DEF IInv, TypesOK
<1>8. ShmOK'
  <2>1. Current' = {} /\ \A id : Held(id)'
    BY <1>1, CurrentIsAfter
  <2> QED
    BY <1>1, <1>2, <1>3, <1>5, <1>6, <2>1 DEF ShmOK
<1> QED
  BY <1>1, <1>7, <1>8 DEF IInv, ArgumentsOK, SentOK, AnswerOK, Reading, Sent

-----------------------------------------------------------------------------

\* The invariant is kept by every step.
LEMMA Invariance == Spec => []IInv
<1>1. IInv /\ [Next]_vars => IInv'
  <2> SUFFICES ASSUME IInv, [Next]_vars PROVE IInv'
    OBVIOUS
  <2>1. ASSUME NEW word, ReadCommand(word) PROVE IInv'
    BY <2>1, ReadCommandStep
  <2>2. ASSUME UNCHANGED <<segments, pc, child, command, args, printed, typed>> PROVE IInv'
    <3>1. UNCHANGED <<shm, content, pc, child, command, shm_arg_ids, shm_argv_id, shm_out_id, printed, typed>>
      BY <2>2 DEF segments, args
    <3> QED
      BY <3>1 DEF IInv, TypesOK, ShmOK, ArgumentsOK, SentOK, AnswerOK, Used, Reading, Sent, Current, Held, Answer
  <2>3. ASSUME NEW word, NotFound(word) PROVE IInv'
    BY <2>2, <2>3 DEF NotFound
  <2>4. ASSUME NEW word \in Argument, NEW end, ReadArgument(word, end) PROVE IInv'
    BY <2>4, ReadArgumentStep
  <2>5. CASE UNCHANGED vars
    BY <2>2, <2>5 DEF vars
  <2> QED
    BY <2>1, <2>3, <2>4, <2>5, ExitStep, ReadNoArgumentStep, PrepareStep, ForkStep, ExecStep, RunStep,
       WaitStep, CleanupStep DEF Next
<1> QED
  BY <1>1, InitIInv, PTL DEF Spec

\* What the shell prints is the answer of the program to the arguments typed
\* (main.c:134-141, sum.c:7-44, print.c:36-47).
THEOREM PrintsOutputThm == Spec => []PrintsOutput
<1>1. IInv => PrintsOutput
  BY DEF IInv, AnswerOK, Answer, PrintsOutput
<1> QED
  BY <1>1, Invariance, PTL

\* No segment goes before the child and the shell are done with it
\* (main.c:136-151).
THEOREM LiveWhileUsedThm == Spec => []LiveWhileUsed
<1>1. IInv => LiveWhileUsed
  <2> SUFFICES ASSUME IInv, Sent \/ child \in {"forked", "running"}
               PROVE  Range(shm_arg_ids) \cup {shm_out_id} \cup ({shm_argv_id} \ {NoId}) \subseteq DOMAIN shm
    BY DEF LiveWhileUsed, Sent
  <2>1. Sent
    BY DEF IInv, TypesOK, Sent
  <2>2. shm_out_id # NoId
    BY <2>1 DEF IInv, TypesOK, SentOK, NoId
  <2> QED
    BY <2>1, <2>2, SentFacts
<1> QED
  BY <1>1, Invariance, PTL

\* At the prompt the segments are those of the ids of earlier commands, all
\* marked, and none is left when the shell exits (main.c:103-112, 143-151).
THEOREM OnlyArgvKeptThm == Spec => []OnlyArgvKept
<1>1. IInv => OnlyArgvKept
  <2> SUFFICES ASSUME IInv PROVE OnlyArgvKept
    OBVIOUS
  <2>1. ASSUME pc = "prompt", NEW id \in DOMAIN shm
        PROVE  shm[id] = [dest |-> TRUE, att |-> [p \in Proc |-> IF p = "shell" THEN 1 ELSE 0]]
    <3>1. /\ shm[id] \in Segment /\ shm[id].dest
          /\ shm[id].att["shell"] = 1 /\ shm[id].att["child"] = 0
      BY <2>1, CurrentIs DEF IInv, ShmOK, TypesOK, Table
    <3>2. shm[id].att = [p \in Proc |-> IF p = "shell" THEN 1 ELSE 0]
      BY <3>1, ProcAssumption DEF Segment
    <3> QED
      BY <3>1, <3>2 DEF Segment
  <2>2. ASSUME pc = "over" PROVE shm = <<>>
    <3>1. DOMAIN shm = {} /\ shm = [id \in DOMAIN shm |-> shm[id]]
      BY <2>2 DEF IInv, ShmOK, Table
    <3>2. shm = [id \in {} |-> shm[id]] /\ 1 .. 0 = {}
      BY <3>1
    <3> QED
      BY <3>2
  <2> QED
    BY <2>1, <2>2 DEF OnlyArgvKept
<1> QED
  BY <1>1, Invariance, PTL

=============================================================================
