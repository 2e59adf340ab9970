--------------------------- MODULE BarrierProofs ----------------------------
(***************************************************************************)
(* Barrier is safe for every number of threads and every number of rounds. *)
(* The inductive invariant is TypeOK /\ RoundInvariant: NobodyLeavesEarly  *)
(* alone is not inductive, because it does not relate the counter to the   *)
(* threads that are inside.                                                *)
(***************************************************************************)
EXTENDS Barrier, FiniteSetTheorems, TLAPS

IInv == TypeOK /\ RoundInvariant

LEMMA ThreadCount == thread_count \in Nat /\ thread_count > 0
BY BarrierAssumption, FS_CardinalityType, FS_EmptySet DEF thread_count

(* The set of the threads counted in the running round is finite. *)
LEMMA ArrivedFinite ==
  /\ IsFiniteSet(Arrived) /\ Cardinality(Arrived) \in Nat
  /\ Cardinality(Arrived) = thread_count => Arrived = Threads
<1>1. Arrived \in SUBSET Threads
  BY DEF Arrived
<1> QED
  BY <1>1, BarrierAssumption, FS_Subset, FS_CardinalityType DEF thread_count

LEMMA InitInv == Init => IInv
<1> SUFFICES ASSUME Init PROVE IInv
  OBVIOUS
<1>1. Arrived = {}
  BY DEF Init, Arrived
<1>2. Cardinality(Arrived) = 0
  BY <1>1, FS_EmptySet
<1> QED
  BY <1>1, <1>2, ThreadCount, BarrierAssumption
  DEF Init, IInv, TypeOK, RoundInvariant

(* An arrival that is not the last is counted and goes to sleep. *)
LEMMA ArriveInv ==
  ASSUME IInv, NEW t \in Threads, Arrive(t)
  PROVE  IInv'
<1> USE DEF IInv, TypeOK, RoundInvariant, Arrive
<1>1. t \notin Arrived /\ entered[t] = generation
  BY DEF Arrived
<1>2. Arrived' = Arrived \cup {t}
  BY <1>1 DEF Arrived
<1>3. Cardinality(Arrived') = arrive_thread_count + 1
  BY <1>1, <1>2, ArrivedFinite, FS_AddElement
<1>4. m_release' = 0
  <2>1. CASE arrive_thread_count = 0
    BY <2>1
  <2>2. CASE arrive_thread_count # 0
    <3>1. Arrived # {}
      BY <2>2, FS_EmptySet
    <3> QED BY <2>2, <3>1
  <2> QED BY <2>1, <2>2
<1>5. /\ left' = left
      /\ pc' = [pc EXCEPT ![t] = "asleep"]
  BY <1>4
<1>6. TypeOK'
  BY <1>4, <1>5, ThreadCount, BarrierAssumption
<1>7. \A u \in Threads : entered'[u] \in {generation', generation' + 1}
  BY <1>1
<1>8. \A u \in Threads :
        left'[u] = IF pc'[u] = "out" THEN entered'[u] ELSE entered'[u] - 1
  BY <1>1, <1>5
<1>9. \A u \in Arrived' : pc'[u] # "out"
  BY <1>2, <1>5 DEF Arrived
<1> QED
  BY <1>3, <1>4, <1>6, <1>7, <1>8, <1>9

(* The last arrival finds everyone inside and opens the next round. *)
LEMMA ArriveLastInv ==
  ASSUME IInv, NEW t \in Threads, ArriveLast(t)
  PROVE  IInv'
<1> USE DEF IInv, TypeOK, RoundInvariant, ArriveLast
<1>1. t \notin Arrived /\ entered[t] = generation
  BY DEF Arrived
<1>2. Arrived \cup {t} = Threads
  <2>1. Cardinality(Arrived \cup {t}) = thread_count
    BY <1>1, ArrivedFinite, FS_AddElement
  <2>2. Arrived \cup {t} \in SUBSET Threads
    BY DEF Arrived
  <2> QED
    BY <2>1, <2>2, BarrierAssumption, FS_Subset DEF thread_count
<1>3. \A u \in Threads : entered'[u] = generation + 1
  BY <1>1, <1>2 DEF Arrived
<1>4. Arrived' = {}
  BY <1>3 DEF Arrived
<1>5. Cardinality(Arrived') = 0
  BY <1>4, FS_EmptySet
<1>6. \A u \in Threads :
        left'[u] = IF pc'[u] = "out" THEN entered'[u] ELSE entered'[u] - 1
  BY <1>1 DEF Woken
<1>7. TypeOK'
  BY ThreadCount, BarrierAssumption DEF Woken
<1> QED
  BY <1>3, <1>4, <1>5, <1>6, <1>7

LEMMA RetestInv ==
  ASSUME IInv, NEW t \in Threads, Retest(t)
  PROVE  IInv'
<1> USE DEF IInv, TypeOK, RoundInvariant, Retest
<1>1. Arrived' = Arrived
  BY DEF Arrived
<1>2. Cardinality(Arrived') = arrive_thread_count'
  BY <1>1
<1>3. CASE m_release = 1
  <2>1. Arrived = {}
    BY <1>3
  <2> QED
    BY <1>1, <1>2, <1>3, <2>1, BarrierAssumption
<1>4. CASE m_release # 1
  BY <1>1, <1>2, <1>4 DEF Arrived
<1> QED BY <1>3, <1>4

LEMMA SpuriousInv ==
  ASSUME IInv, NEW t \in Threads, SpuriousWakeup(t)
  PROVE  IInv'
<1> USE DEF IInv, TypeOK, RoundInvariant, SpuriousWakeup
<1>1. Arrived' = Arrived
  BY DEF Arrived
<1>2. Cardinality(Arrived') = arrive_thread_count'
  BY <1>1
<1> QED BY <1>1, <1>2 DEF Arrived

LEMMA StepInv == IInv /\ [Next]_vars => IInv'
<1> SUFFICES ASSUME IInv, [Next]_vars PROVE IInv'
  OBVIOUS
<1>1. CASE UNCHANGED vars
  <2>1. Arrived' = Arrived
    BY <1>1 DEF vars, Arrived
  <2>2. Cardinality(Arrived') = arrive_thread_count'
    BY <1>1, <2>1 DEF vars, IInv, RoundInvariant
  <2> QED
    BY <1>1, <2>1, <2>2 DEF vars, IInv, TypeOK, RoundInvariant
<1>2. CASE Next
  BY <1>2, ArriveInv, ArriveLastInv, RetestInv, SpuriousInv DEF Next, Wait
<1> QED BY <1>1, <1>2

(* The type invariant and the invariant that explains the barrier hold in  *)
(* every reachable state.                                                  *)
THEOREM RoundCorrect == Spec => [](TypeOK /\ RoundInvariant)
<1>1. Init => IInv
  BY InitInv
<1>2. IInv /\ [Next]_vars => IInv'
  BY StepInv
<1>3. IInv => TypeOK /\ RoundInvariant
  BY DEF IInv
<1> QED BY <1>1, <1>2, <1>3, PTL DEF Spec

LEMMA InvImpliesSafe == IInv => NobodyLeavesEarly
<1> SUFFICES ASSUME IInv, NEW t \in Threads, NEW u \in Threads
             PROVE  left[t] <= entered[u]
  BY DEF NobodyLeavesEarly
<1> USE DEF IInv, TypeOK, RoundInvariant
<1>1. left[t] <= generation
  <2>1. CASE t \in Arrived
    BY <2>1 DEF Arrived
  <2>2. CASE t \notin Arrived
    BY <2>2 DEF Arrived
  <2> QED BY <2>1, <2>2
<1> QED BY <1>1

(* Barrier::wait lets nobody past its r-th call before everybody has made  *)
(* its r-th call: for every number of pipelines and every number of uses.  *)
THEOREM BarrierSafe == Spec => []NobodyLeavesEarly
<1>1. Init => IInv
  BY InitInv
<1>2. IInv /\ [Next]_vars => IInv'
  BY StepInv
<1>3. IInv => NobodyLeavesEarly
  BY InvImpliesSafe
<1> QED BY <1>1, <1>2, <1>3, PTL DEF Spec

-----------------------------------------------------------------------------
(* Every step of the barrier is a step of Rendezvous or changes neither    *)
(* entered nor left.                                                       *)
LEMMA StepSimulates == IInv /\ [Next]_vars => [R!Next]_(R!vars)
<1> SUFFICES ASSUME IInv, [Next]_vars PROVE [R!Next]_(R!vars)
  OBVIOUS
<1> USE DEF IInv, TypeOK, RoundInvariant
<1>1. ASSUME NEW t \in Threads, Arrive(t)
      PROVE  R!Enter(t)
  <2>1. m_release' = 0
    <3>1. CASE arrive_thread_count = 0
      BY <1>1, <3>1 DEF Arrive
    <3>2. CASE arrive_thread_count # 0
      <4>1. Arrived # {}
        BY <3>2, FS_EmptySet
      <4> QED BY <1>1, <3>2, <4>1 DEF Arrive
    <3> QED BY <3>1, <3>2
  <2> QED BY <1>1, <2>1 DEF Arrive, R!Enter
<1>2. ASSUME NEW t \in Threads, ArriveLast(t)
      PROVE  R!Pass(t)
  <2>1. t \notin Arrived /\ entered[t] = generation /\ left[t] = generation
    BY <1>2 DEF Arrived, ArriveLast
  <2>2. Cardinality(Arrived \cup {t}) = thread_count
    BY <1>2, <2>1, ArrivedFinite, FS_AddElement DEF ArriveLast
  <2>3. Arrived \cup {t} = Threads
    <3>1. Arrived \cup {t} \in SUBSET Threads
      BY DEF Arrived
    <3> QED BY <2>2, <3>1, BarrierAssumption, FS_Subset DEF thread_count
  <2>4. \A u \in Threads \ {t} : left[t] < entered[u]
    BY <2>1, <2>3 DEF Arrived
  <2> QED BY <1>2, <2>1, <2>4 DEF ArriveLast, R!Pass
<1>3. ASSUME NEW t \in Threads, Retest(t)
      PROVE  R!Leave(t) \/ UNCHANGED R!vars
  <2>1. CASE m_release = 1
    <3>1. \A u \in Threads : entered[u] = generation
      BY <2>1 DEF Arrived
    <3>2. left[t] = generation - 1
      BY <1>3, <3>1 DEF Retest
    <3> QED BY <1>3, <2>1, <3>1, <3>2 DEF Retest, R!Leave
  <2>2. CASE m_release # 1
    BY <1>3, <2>2 DEF Retest, R!vars
  <2> QED BY <2>1, <2>2
<1>4. ASSUME NEW t \in Threads, SpuriousWakeup(t)
      PROVE  UNCHANGED R!vars
  BY <1>4 DEF SpuriousWakeup, R!vars
<1>5. CASE UNCHANGED vars
  BY <1>5 DEF vars, R!vars
<1>6. CASE Next
  BY <1>1, <1>2, <1>3, <1>4, <1>6 DEF Next, Wait, R!Next
<1> QED BY <1>5, <1>6

(* Barrier implements Rendezvous, on which the sinks' two phases rely.     *)
THEOREM BarrierImplementsRendezvous == Spec => ImplementsRendezvous
<1>1. Init => IInv /\ R!Init
  BY InitInv DEF Init, R!Init
<1>2. IInv /\ [Next]_vars => IInv'
  BY StepInv
<1>3. IInv /\ [Next]_vars => [R!Next]_(R!vars)
  BY StepSimulates
<1> QED BY <1>1, <1>2, <1>3, PTL DEF Spec, ImplementsRendezvous, R!Spec
=============================================================================
