------------------------------ MODULE SharedMemory ------------------------------
(***************************************************************************)
(* System V shared memory as shared_list.c and Badshell/main.c use it: a   *)
(* map from the ids of the existing segments to their state.  A segment    *)
(* marked by shmctl(IPC_RMID) goes away with its last attachment, and a    *)
(* process that ends loses its attachments.                                *)
(***************************************************************************)
EXTENDS Integers, FiniteSets

CONSTANT Proc

Fresh == [dest |-> FALSE, att |-> [p \in Proc |-> 0]]

Sweep(shm) ==
  LET live == {id \in DOMAIN shm : ~ shm[id].dest \/ \E p \in Proc : shm[id].att[p] > 0}
  IN [id \in live |-> shm[id]]

Created(shm, id)     == [x \in DOMAIN shm \cup {id} |-> IF x = id THEN Fresh ELSE shm[x]]
Attached(shm, id, p) == [shm EXCEPT ![id].att[p] = @ + 1]
Removed(shm, ids)    == Sweep([id \in DOMAIN shm |->
                                 IF id \in ids THEN [shm[id] EXCEPT !.dest = TRUE] ELSE shm[id]])
Ended(shm, p)        == Sweep([id \in DOMAIN shm |-> [shm[id] EXCEPT !.att[p] = 0]])
================================================================================
