------------------------------ MODULE MCThreadSort ------------------------------
(* An instance of ThreadSort small enough for TLC. *)
EXTENDS ThreadSort

const_Value == 1 .. 3
================================================================================
