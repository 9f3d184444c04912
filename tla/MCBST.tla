---------------------------------- MODULE MCBST ----------------------------------
(* An instance of BST small enough for TLC. *)
EXTENDS BST

const_Value == 1 .. 4
================================================================================
