------------------------------- MODULE MCBadshell -------------------------------
(* An instance of Badshell small enough for TLC. *)
EXTENDS Badshell, TLC

const_Proc == {"shell", "child"}
const_Argument == {"1", "2", "x"}
const_ValueOf == "1" :> 1 @@ "2" :> 2 @@ "x" :> 0
================================================================================
