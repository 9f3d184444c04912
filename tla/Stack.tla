--------------------------------- MODULE Stack ---------------------------------
(* What a shared linked list promises its users: a stack that can be indexed. *)
EXTENDS Integers, Sequences

CONSTANT Value
VARIABLES
  items,        \* the values on the stack, the top first
  out,          \* the index asked for last, 0 by a pop, and the value returned
  open          \* FALSE once the stack is destroyed

vars == <<items, out, open>>

Init == items = <<>> /\ out = <<0, 0>> /\ open = TRUE

Push(v) ==
  /\ open = TRUE
  /\ items' = <<v>> \o items
  /\ UNCHANGED <<out, open>>

Pop ==
  /\ open = TRUE
  /\ items # <<>>
  /\ out' = <<0, Head(items)>>
  /\ items' = Tail(items)
  /\ UNCHANGED open

Get(i) ==
  /\ open = TRUE
  /\ out' = <<i, items[i + 1]>>
  /\ UNCHANGED <<items, open>>

Close ==
  /\ open = TRUE
  /\ open' = FALSE
  /\ items' = <<>>
  /\ UNCHANGED out

Next == (\E v \in Value : Push(v)) \/ Pop \/ (\E i \in 0 .. Len(items) - 1 : Get(i)) \/ Close

Spec == Init /\ [][Next]_vars
================================================================================
