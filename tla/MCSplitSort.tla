------------------------------ MODULE MCSplitSort ------------------------------
(* An instance of SplitSort small enough for TLC. *)
EXTENDS SplitSort

\* Four elements with repetitions: every shape of split, and equal neighbours.
const_Value == 1 .. 3
================================================================================
