------------------------------- MODULE MCForkSort -------------------------------
(* Instances of ForkSort small enough for TLC. *)
EXTENDS ForkSort

\* Five elements with repetitions give every shape of partition: empty parts on
\* either side, single elements and parts that are partitioned again.
const_Value == 1 .. 3
================================================================================
