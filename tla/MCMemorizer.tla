------------------------------ MODULE MCMemorizer ------------------------------
(* An instance of Memorizer small enough for TLC. *)
EXTENDS Memorizer, MCFiles
================================================================================
