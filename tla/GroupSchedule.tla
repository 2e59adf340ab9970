--------------------------- MODULE GroupSchedule ----------------------------
(***************************************************************************)
(* What PipelineGroupExecute promises: the groups of a plan are executed   *)
(* one after the other, each once, and each after the groups it depends    *)
(* on.  PipelineExecution implements it.                                   *)
(***************************************************************************)
EXTENDS Sequences, Naturals

CONSTANTS
  Groups,
  Deps     \* per group, the sequence of groups it depends on

VARIABLE phase

Init == phase = [g \in Groups |-> "waiting"]

DependsOn(g, d) == \E i \in 1 .. Len(Deps[g]) : Deps[g][i] = d

Activate(g) ==
  /\ phase[g] = "waiting"
  /\ \A h \in Groups : phase[h] # "active"
  /\ \A d \in Groups : DependsOn(g, d) => phase[d] = "complete"
  /\ phase' = [phase EXCEPT ![g] = "active"]

Complete(g) ==
  /\ phase[g] = "active"
  /\ phase' = [phase EXCEPT ![g] = "complete"]

Next == \E g \in Groups : Activate(g) \/ Complete(g)

Spec == Init /\ [][Next]_phase
=============================================================================
