----------------------------------- MODULE Cost -----------------------------------
(***************************************************************************)
(* cost() of Threads/GradientBoosting/dt.c: two parallel regions of OpenMP *)
(* threads, the first for the mean of the data, the second for the squared *)
(* deviations from it.  The variable r of the second is shared by mistake, *)
(* and the two sums are never initialised.  Deviations are counted in      *)
(* units of 1/length, so that all values are whole numbers.                *)
(***************************************************************************)
EXTENDS Integers, Sequences, Functions

CONSTANTS
  Data,         \* the arrays cost may be called with
  THREADS,
  Garbage       \* what global_mean and global_cost may hold before the first region

VARIABLES
  data,
  before,       \* what the two sums held before they were used
  global_mean,  \* the sum of the data; divided by length, the mean
  global_cost,
  r,            \* shared by the threads
  region,       \* "mean", "cost" or "end"
  pc,           \* thread -> where it is in the region
  i,            \* thread -> its loop variable
  cost,         \* thread -> its local sum
  factor,       \* thread -> the first factor of r * r
  raced         \* whether a thread has assigned r while another was using it

vars == <<data, before, global_mean, global_cost, r, region, pc, i, cost, factor, raced>>

Assumptions == Data \subseteq Seq(Int) /\ THREADS \in Nat \ {0} /\ Garbage \subseteq Int

Thread == 0 .. THREADS - 1
length == Len(data)
Share(t) == {k \in 1 .. length : (k - 1) % THREADS = t}
Deviation(k) == global_mean - length * data[k]

Init ==
  /\ data \in Data
  /\ before \in [mean : Garbage, cost : Garbage]
  /\ global_mean = before.mean /\ global_cost = before.cost
  /\ r = 0
  /\ region = "mean"
  /\ pc = [t \in Thread |-> "add"]
  /\ i = [t \in Thread |-> 0]
  /\ cost = [t \in Thread |-> 0]
  /\ factor = [t \in Thread |-> 0]
  /\ raced = FALSE

At(t, here, there) == pc[t] = here /\ pc' = [pc EXCEPT ![t] = there]

\* Mutant of AddToMean: the threads overlap in one element.
AddToMeanOverlapping(t) ==
  /\ region = "mean"
  /\ At(t, "add", "done")
  /\ global_mean' = global_mean + SumFunctionOnSet(data, Share(t) \cup {1})
  /\ UNCHANGED <<data, before, global_cost, r, region, i, cost, factor, raced>>

\* The share of t, which only t sees, and the critical section.
AddToMean(t) ==
  /\ region = "mean"
  /\ At(t, "add", "done")
  /\ global_mean' = global_mean + SumFunctionOnSet(data, Share(t))
  /\ UNCHANGED <<data, before, global_cost, r, region, i, cost, factor, raced>>

\* The threads meet at the end of a region.
EndRegion ==
  /\ \A t \in Thread : pc[t] = "done"
  /\ \/ /\ region = "mean"
        /\ region' = "cost"
        /\ pc' = [t \in Thread |-> "assign"]
        /\ i' = [t \in Thread |-> t + 1]
     \/ /\ region = "cost"
        /\ region' = "end"
        /\ UNCHANGED <<pc, i>>
  /\ UNCHANGED <<data, before, global_mean, global_cost, r, cost, factor, raced>>

\* r = global_mean - data[i]
Assign(t) ==
  /\ i[t] <= length
  /\ At(t, "assign", "load")
  /\ r' = Deviation(i[t])
  /\ raced' = (raced \/ \E u \in Thread \ {t} : pc[u] \in {"load", "multiply"})
  /\ UNCHANGED <<data, before, global_mean, global_cost, region, i, cost, factor>>

\* cost += r * r reads r twice.
Load(t) ==
  /\ At(t, "load", "multiply")
  /\ factor' = [factor EXCEPT ![t] = r]
  /\ UNCHANGED <<data, before, global_mean, global_cost, r, region, i, cost, raced>>

Multiply(t) ==
  /\ At(t, "multiply", "assign")
  /\ cost' = [cost EXCEPT ![t] = @ + factor[t] * r]
  /\ i' = [i EXCEPT ![t] = @ + THREADS]
  /\ UNCHANGED <<data, before, global_mean, global_cost, r, region, factor, raced>>

AddToCost(t) ==
  /\ i[t] > length
  /\ At(t, "assign", "done")
  /\ global_cost' = global_cost + cost[t]
  /\ UNCHANGED <<data, before, global_mean, r, region, i, cost, factor, raced>>

Next ==
  \/ \E t \in Thread : AddToMean(t) \/ Assign(t) \/ Load(t) \/ Multiply(t) \/ AddToCost(t)
  \/ EndRegion

Spec == Init /\ [][Next]_vars

-----------------------------------------------------------------------------

Squares == [k \in 1 .. length |-> Deviation(k) * Deviation(k)]

\* The parallel regions count every element once, on top of what the sums held
\* before (dt.c:100-101): the mean is right after the first region under every
\* schedule (105-123), the cost after the second (126-145) unless some thread
\* assigned the shared r between another's assignment and its two reads (138-139).
CostOfShares ==
  /\ region # "mean" => global_mean = before.mean + SumFunction(data)
  /\ region = "end" /\ ~ raced => global_cost = before.cost + SumFunction(Squares)
================================================================================
