------------------------------ MODULE Barrier -------------------------------
(***************************************************************************)
(* Barrier (src/sche/barrier.hpp): thread_count threads, a mutex held for  *)
(* all of wait() except inside m_cv.wait, and a release flag that the      *)
(* first arrival of a round clears and the last one sets.  The engine's    *)
(* sinks call wait() once on the barrier of their PipelineGroup; Rounds    *)
(* lets the threads come back.                                             *)
(***************************************************************************)
EXTENDS Naturals, FiniteSets

CONSTANTS
  Threads,   \* the pipelines of one group
  Rounds     \* how often each of them calls wait()

ASSUME BarrierAssumption ==
  /\ IsFiniteSet(Threads)
  /\ Threads # {}
  /\ Rounds \in Nat

thread_count == Cardinality(Threads)

VARIABLES
  arrive_thread_count, m_release,
  pc,              \* outside wait(), asleep in m_cv.wait, or woken
  entered, left,   \* calls and returns of wait() per thread
  generation       \* how often the barrier has opened

vars == <<arrive_thread_count, m_release, pc, entered, left, generation>>

Init ==
  /\ arrive_thread_count = 0
  /\ m_release = 0
  /\ pc = [t \in Threads |-> "out"]
  /\ entered = [t \in Threads |-> 0]
  /\ left = [t \in Threads |-> 0]
  /\ generation = 0

\* m_cv.notify_all: every sleeping thread will test its predicate again.
Woken == [u \in Threads |-> IF pc[u] = "asleep" THEN "woken" ELSE pc[u]]

\* Mutants: the barrier opens one arrival early, tells nobody, or goes on counting.
ArriveLastEarly(t) ==
  /\ pc[t] = "out"
  /\ entered[t] < Rounds
  /\ arrive_thread_count + 2 >= thread_count
  /\ entered' = [entered EXCEPT ![t] = @ + 1]
  /\ arrive_thread_count' = 0
  /\ m_release' = 1
  /\ pc' = Woken
  /\ left' = [left EXCEPT ![t] = @ + 1]
  /\ generation' = generation + 1

ArriveLastNoNotify(t) ==
  /\ pc[t] = "out"
  /\ entered[t] < Rounds
  /\ arrive_thread_count + 1 = thread_count
  /\ entered' = [entered EXCEPT ![t] = @ + 1]
  /\ arrive_thread_count' = 0
  /\ m_release' = 1
  /\ left' = [left EXCEPT ![t] = @ + 1]
  /\ generation' = generation + 1
  /\ UNCHANGED pc

\* wait() of the last thread of a round: it opens the barrier and returns.
ArriveLast(t) ==
  /\ pc[t] = "out"
  /\ entered[t] < Rounds
  /\ arrive_thread_count + 1 = thread_count
  /\ entered' = [entered EXCEPT ![t] = @ + 1]
  /\ arrive_thread_count' = 0
  /\ m_release' = 1
  /\ pc' = Woken
  /\ left' = [left EXCEPT ![t] = @ + 1]
  /\ generation' = generation + 1

\* Mutant: the first arrival of a round does not clear the flag.
ArriveNoClear(t) ==
  /\ pc[t] = "out"
  /\ entered[t] < Rounds
  /\ arrive_thread_count + 1 # thread_count
  /\ entered' = [entered EXCEPT ![t] = @ + 1]
  /\ arrive_thread_count' = arrive_thread_count + 1
  /\ LET open == m_release = 1
     IN  /\ left' = IF open THEN [left EXCEPT ![t] = @ + 1] ELSE left
         /\ pc' = IF open THEN pc ELSE [pc EXCEPT ![t] = "asleep"]
  /\ UNCHANGED <<m_release, generation>>

\* wait() of another thread, up to the first test of m_cv.wait's predicate.
Arrive(t) ==
  /\ pc[t] = "out"
  /\ entered[t] < Rounds
  /\ arrive_thread_count + 1 # thread_count
  /\ entered' = [entered EXCEPT ![t] = @ + 1]
  /\ arrive_thread_count' = arrive_thread_count + 1
  /\ m_release' = IF arrive_thread_count = 0 THEN 0 ELSE m_release
  /\ LET open == m_release' = 1
     IN  /\ left' = IF open THEN [left EXCEPT ![t] = @ + 1] ELSE left
         /\ pc' = IF open THEN pc ELSE [pc EXCEPT ![t] = "asleep"]
  /\ UNCHANGED generation

Retest(t) ==
  /\ pc[t] = "woken"
  /\ \/ /\ m_release = 1
        /\ pc' = [pc EXCEPT ![t] = "out"]
        /\ left' = [left EXCEPT ![t] = @ + 1]
     \/ /\ m_release # 1
        /\ pc' = [pc EXCEPT ![t] = "asleep"]
        /\ UNCHANGED left
  /\ UNCHANGED <<arrive_thread_count, m_release, entered, generation>>

SpuriousWakeup(t) ==
  /\ pc[t] = "asleep"
  /\ pc' = [pc EXCEPT ![t] = "woken"]
  /\ UNCHANGED <<arrive_thread_count, m_release, entered, left, generation>>

Wait(t) == Arrive(t) \/ ArriveLast(t) \/ Retest(t)

Next == \E t \in Threads : Wait(t) \/ SpuriousWakeup(t)

Spec == Init /\ [][Next]_vars

(* Every pipeline reaches its sink's wait(), though it need not come back, *)
(* and every woken thread runs.                                            *)
FairSpec ==
  /\ Spec
  /\ \A t \in Threads :
       WF_vars(entered[t] = 0 /\ Wait(t)) /\ WF_vars(Retest(t))

-----------------------------------------------------------------------------
(* Every variable has the type its declaration gives it. *)
TypeOK ==
  /\ arrive_thread_count \in 0 .. thread_count - 1
  /\ m_release \in {0, 1}
  /\ pc \in [Threads -> {"out", "asleep", "woken"}]
  /\ entered \in [Threads -> 0 .. Rounds]
  /\ left \in [Threads -> 0 .. Rounds]
  /\ generation \in Nat

(* wait() lets no thread past its r-th call before every thread has made   *)
(* its r-th call, however often the barrier is used.                       *)
NobodyLeavesEarly == \A t, u \in Threads : left[t] <= entered[u]

Arrived == {t \in Threads : entered[t] = generation + 1}

(* Why NobodyLeavesEarly holds: every thread has made the calls of the     *)
(* rounds that are over and at most one more; those who made it are        *)
(* exactly the ones counted; they cannot leave, the flag being down since  *)
(* the first of them arrived; and nobody is inside who has left.           *)
RoundInvariant ==
  /\ \A t \in Threads : entered[t] \in {generation, generation + 1}
  /\ arrive_thread_count = Cardinality(Arrived)
  /\ \A t \in Threads :
       left[t] = IF pc[t] = "out" THEN entered[t] ELSE entered[t] - 1
  /\ \A t \in Arrived : pc[t] # "out"
  /\ Arrived # {} => m_release = 0

(* Used once per thread, as the sinks use it, the barrier lets everyone    *)
(* through: no wake-up is lost between the test of m_release and m_cv.wait.*)
EveryoneLeaves ==
  [](\A t \in Threads : entered[t] <= 1) => <>(\A t \in Threads : left[t] = 1)

R == INSTANCE Rendezvous

(* Barrier keeps the promise of Rendezvous. *)
ImplementsRendezvous == R!Spec
=============================================================================
