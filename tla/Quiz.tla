---------------------------------- MODULE Quiz ----------------------------------
(***************************************************************************)
(* What Memorizer/memtwo.c promises its user, without nodes and pointers.  *)
(*                                                                         *)
(* The terms stand in a row.  The first `right' of them have been answered *)
(* correctly, the next one is asked.  A term answered wrongly goes to the  *)
(* back of the row.  A number n instead of an answer reverts the quiz to   *)
(* the state it was in n answers ago.                                      *)
(***************************************************************************)
EXTENDS Integers, Sequences, SequencesExt, FiniteSetsExt

CONSTANTS
  Term,         \* the lines of the file
  Word,         \* the answers the user may type
  Writing,      \* the writing of each term
  MaxAnswers    \* bound on the answers that can be taken back


VARIABLES
  order,        \* the row of terms
  right,        \* how many of them, from the front, are answered
  past,         \* the state before each answer and its outcome, oldest first
  phase         \* "load", "quiz", "complete" or "over"

vars == <<order, right, past, phase>>

Asked == order[right + 1]
AtLast == right + 1 = Len(order)

\* The term at position k goes to the back of the row.
ToBack(o, k) == Append(RemoveAt(o, k), o[k])

Remember(correct) == past' = Append(past, [order |-> order, right |-> right, correct |-> correct])

-----------------------------------------------------------------------------

Init ==
  /\ order = <<>>
  /\ right = 0
  /\ past = <<>>
  /\ phase = "load"

\* A line of the file becomes a term at a random place of the row.
Insert(t, k) ==
  /\ phase = "load"
  /\ t \notin Range(order)
  /\ order' = InsertAt(order, k, t)
  /\ UNCHANGED <<right, past, phase>>

\* A file without terms, or one that is badly formatted, ends the program.
Begin ==
  /\ phase = "load"
  /\ order # <<>>
  /\ phase' = "quiz"
  /\ UNCHANGED <<order, right, past>>

GiveUp ==
  /\ phase = "load"
  /\ phase' = "over"
  /\ UNCHANGED <<order, right, past>>

AnswerRight(w) ==
  /\ phase = "quiz"
  /\ Len(past) < MaxAnswers
  /\ w = Writing[Asked]
  /\ Remember(TRUE)
  /\ IF AtLast THEN phase' = "complete" /\ UNCHANGED right
             ELSE right' = right + 1 /\ UNCHANGED phase
  /\ UNCHANGED order

AnswerWrong(w) ==
  /\ phase = "quiz"
  /\ Len(past) < MaxAnswers
  /\ w # Writing[Asked]
  /\ Remember(FALSE)
  /\ order' = IF AtLast THEN order ELSE ToBack(order, right + 1)
  /\ UNCHANGED <<right, phase>>

\* The state of n answers ago is the state again.
Revert(n) ==
  LET k == Len(past) - n + 1 IN
  /\ phase = "quiz"
  /\ order' = past[k].order
  /\ right' = past[k].right
  /\ past' = SubSeq(past, 1, k - 1)
  /\ UNCHANGED phase

\* Everything is freed.
Finish ==
  /\ phase = "complete"
  /\ phase' = "over"
  /\ past' = <<>>
  /\ UNCHANGED <<order, right>>

Next ==
  \/ \E t \in Term, k \in 1 .. Len(order) + 1 : Insert(t, k)
  \/ Begin \/ GiveUp
  \/ \E w \in Word : AnswerRight(w) \/ AnswerWrong(w)
  \/ \E n \in 1 .. Len(past) : Revert(n)
  \/ Finish

Spec == Init /\ [][Next]_vars

-----------------------------------------------------------------------------

\* The term that the k-th answer, of those not taken back, was about.
AskedAt(k) == past[k].order[past[k].right + 1]

\* The set is complete only when every term was asked, and the last answer
\* given for it was right.
AllKnown ==
  phase = "complete" =>
    \A t \in Range(order) :
      LET asked == {k \in 1 .. Len(past) : AskedAt(k) = t}
      IN asked # {} /\ past[Max(asked)].correct
================================================================================
