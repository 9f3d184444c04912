------------------------------ MODULE MCSharedList ------------------------------
(* An instance of SharedList small enough for TLC. *)
EXTENDS SharedList

const_Proc == {"child", "parent"}
const_Value == 0 .. 2
================================================================================
