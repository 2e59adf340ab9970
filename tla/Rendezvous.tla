----------------------------- MODULE Rendezvous -----------------------------
(***************************************************************************)
(* What a barrier promises the pipelines of one group: in each round no    *)
(* pipeline goes on to the second phase before every pipeline has ended    *)
(* the first.  Barrier implements it; PipelineExecution relies on it.      *)
(***************************************************************************)
EXTENDS Naturals

CONSTANT Threads

VARIABLES
  entered,   \* how often each thread has called wait()
  left       \* how often each thread's wait() has returned

vars == <<entered, left>>

Init ==
  /\ entered = [t \in Threads |-> 0]
  /\ left = [t \in Threads |-> 0]

Enter(t) ==
  /\ entered[t] = left[t]
  /\ entered' = [entered EXCEPT ![t] = @ + 1]
  /\ UNCHANGED left

Leave(t) ==
  /\ left[t] < entered[t]
  /\ \A u \in Threads : left[t] < entered[u]
  /\ left' = [left EXCEPT ![t] = @ + 1]
  /\ UNCHANGED entered

\* The last thread to arrive does not wait.
Pass(t) ==
  /\ entered[t] = left[t]
  /\ \A u \in Threads \ {t} : left[t] < entered[u]
  /\ entered' = [entered EXCEPT ![t] = @ + 1]
  /\ left' = [left EXCEPT ![t] = @ + 1]

Next == \E t \in Threads : Enter(t) \/ Leave(t) \/ Pass(t)

Spec == Init /\ [][Next]_vars
=============================================================================
