-------------------------- MODULE WorkerPoolProofs --------------------------
(***************************************************************************)
(* For every number of workers and every set of tasks: the variables of    *)
(* the pool keep their types, no task is lost or duplicated, a pool that   *)
(* has been shut down is quiet, a hard task is overtaken by at most one    *)
(* soft task, and the pool implements TaskPool, on which the pipeline      *)
(* executor is built.                                                      *)
(***************************************************************************)
EXTENDS WorkerPool, SequenceTheorems, TLAPS

(* What the positions of the threads say about their local variables. *)
Control ==
  /\ \A w \in Workers : (task[w] # NoTask) <=> (pc[w] \in {"run", "running"})
  /\ (stolen # NoTask) <=> (spc = "move")
  /\ spc \in {"steal", "move", "tell"} => idle_workers # <<>>

TypeInv == TypeOK /\ Control

-----------------------------------------------------------------------------
LEMMA InitTypeInv == Init => TypeInv
BY PoolAssumption DEF Init, TypeInv, TypeOK, Control, Workers, WorkerPCs, States

LEMMA NextVisitType ==
  ASSUME TypeOK, NextVisit
  PROVE  si' \in Workers /\ spc' \in {"visit", "tick"}
BY PoolAssumption DEF TypeOK, NextVisit, Workers

LEMMA WorkerTypeInv ==
  ASSUME TypeInv, NEW w \in Workers, WorkerStep(w) \/ SpuriousWakeup(w)
  PROVE  TypeInv'
<1> USE PoolAssumption DEF TypeInv, TypeOK, Control, WorkerPCs, States,
        callerVars, stealVars, history
<1>1. CASE TestRunning(w)
  BY <1>1, ZenonT(40) DEF TestRunning
<1>2. CASE CheckHard(w)
  BY <1>2 DEF CheckHard
<1>3. CASE CheckSoft(w)
  BY <1>3 DEF CheckSoft
<1>4. CASE Sleep(w) \/ SpuriousWakeup(w)
  BY <1>4, ZenonT(40) DEF Sleep, SpuriousWakeup
<1>5. CASE DequeueHard(w)
  <2>1. CASE queue_hard[w] # <<>>
    <3>1. Head(queue_hard[w]) \in Tasks /\ Tail(queue_hard[w]) \in Seq(Tasks)
      BY <2>1
    <3>2. /\ task' = [task EXCEPT ![w] = Head(queue_hard[w])]
          /\ queue_hard' = [queue_hard EXCEPT ![w] = Tail(queue_hard[w])]
          /\ pc' = [pc EXCEPT ![w] = "run"]
          /\ UNCHANGED <<queue_soft, is_running, work_state, callerVars,
                         stealVars, periodic, history>>
      BY <1>5, <2>1 DEF DequeueHard
    <3>3. TypeOK'
      BY <3>1, <3>2
    <3>4. Control'
      BY <3>1, <3>2
    <3> QED BY <3>3, <3>4
  <2>2. CASE queue_hard[w] = <<>>
    BY <1>5, <2>2 DEF DequeueHard
  <2> QED BY <2>1, <2>2
<1>6. CASE DequeueSoft(w)
  <2>1. CASE queue_soft[w] # <<>>
    <3>1. Head(queue_soft[w]) \in Tasks /\ Tail(queue_soft[w]) \in Seq(Tasks)
      BY <2>1
    <3>2. /\ task' = [task EXCEPT ![w] = Head(queue_soft[w])]
          /\ queue_soft' = [queue_soft EXCEPT ![w] = Tail(queue_soft[w])]
          /\ pc' = [pc EXCEPT ![w] = "run"]
          /\ overtaken' = [t \in Tasks |-> IF Waiting(t, queue_hard[w])
                                           THEN overtaken[t] + 1
                                           ELSE overtaken[t]]
          /\ UNCHANGED <<queue_hard, is_running, work_state, callerVars,
                         stealVars, periodic, runs>>
      BY <1>6, <2>1 DEF DequeueSoft
    <3>3. overtaken' \in [Tasks -> Nat]
      BY <3>2, SMTT(30)
    <3>4. TypeOK'
      BY <3>1, <3>2, <3>3
    <3>5. Control'
      BY <3>1, <3>2
    <3> QED BY <3>4, <3>5
  <2>2. CASE queue_soft[w] = <<>>
    BY <1>6, <2>2 DEF DequeueSoft
  <2> QED BY <2>1, <2>2
<1>7. CASE StartTask(w)
  BY <1>7 DEF StartTask
<1>8. CASE FinishTask(w)
  BY <1>8 DEF FinishTask
<1> QED
  BY <1>1, <1>2, <1>3, <1>4, <1>5, <1>6, <1>7, <1>8 DEF WorkerStep

LEMMA NotifyType ==
  ASSUME TypeInv, NEW w \in Workers, NotifyAll(w), UNCHANGED task
  PROVE  /\ pc' \in [Workers -> WorkerPCs]
         /\ \A v \in Workers : (task'[v] # NoTask) <=> (pc'[v] \in {"run", "running"})
BY DEF TypeInv, TypeOK, Control, NotifyAll, WorkerPCs

LEMMA EnqueueType ==
  ASSUME TypeOK, NEW w \in Workers, NEW t \in Tasks, NEW hard \in BOOLEAN,
         Enqueue(w, t, hard)
  PROVE  /\ queue_hard' \in [Workers -> Seq(Tasks)]
         /\ queue_soft' \in [Workers -> Seq(Tasks)]
<1>1. /\ Append(queue_hard[w], t) \in Seq(Tasks)
      /\ Append(queue_soft[w], t) \in Seq(Tasks)
  BY DEF TypeOK
<1>2. CASE /\ queue_hard' = [queue_hard EXCEPT ![w] = Append(queue_hard[w], t)]
           /\ UNCHANGED queue_soft
  BY <1>1, <1>2 DEF TypeOK
<1>3. CASE /\ queue_soft' = [queue_soft EXCEPT ![w] = Append(queue_soft[w], t)]
           /\ UNCHANGED queue_hard
  BY <1>1, <1>3 DEF TypeOK
<1> QED BY <1>2, <1>3 DEF Enqueue

LEMMA CallerTypeInv ==
  ASSUME TypeInv,
         \/ \E w \in Workers, t \in Tasks, hard \in BOOLEAN : SubmitEnqueue(w, t, hard)
         \/ SubmitNotify \/ ShutdownBegin \/ ShutdownStep
  PROVE  TypeInv'
<1> USE PoolAssumption DEF stealVars, history, workerVars
<1>1. ASSUME NEW w \in Workers, NEW t \in Tasks, NEW hard \in BOOLEAN,
             SubmitEnqueue(w, t, hard)
      PROVE  TypeInv'
  <2>1. /\ queue_hard' \in [Workers -> Seq(Tasks)]
        /\ queue_soft' \in [Workers -> Seq(Tasks)]
    BY <1>1, EnqueueType DEF SubmitEnqueue, TypeInv
  <2> QED BY <1>1, <2>1 DEF SubmitEnqueue, TypeInv, TypeOK, Control
<1>2. CASE SubmitNotify
  BY <1>2, NotifyType DEF SubmitNotify, TypeInv, TypeOK, Control
<1>3. CASE ShutdownBegin
  <2>1. 0 \in Workers
    BY DEF Workers
  <2> QED BY <1>3, <2>1 DEF ShutdownBegin, TypeInv, TypeOK, Control
<1>4. CASE ShutdownFlag
  BY <1>4 DEF ShutdownFlag, TypeInv, TypeOK, Control
<1>5. CASE ShutdownNotify
  BY <1>5, NotifyType DEF ShutdownNotify, TypeInv, TypeOK, Control
<1>6. CASE ShutdownJoin
  <2>1. target' \in Workers
    <3>1. target \in Workers
      BY DEF TypeInv, TypeOK
    <3>2. CASE target + 1 < NumWorkers /\ target' = target + 1
      <4>1. target + 1 \in 0 .. NumWorkers - 1
        BY <3>1, <3>2 DEF Workers
      <4> QED BY <3>2, <4>1 DEF Workers
    <3> QED BY <1>6, <3>1, <3>2 DEF ShutdownJoin
  <2>2. cpc' \in {"flag", "returned"}
    BY <1>6 DEF ShutdownJoin
  <2> QED BY <1>6, <2>1, <2>2 DEF ShutdownJoin, TypeInv, TypeOK, Control
<1> QED
  BY <1>1, <1>2, <1>3, <1>4, <1>5, <1>6 DEF ShutdownStep

LEMMA StealTypeInv ==
  ASSUME TypeInv, StealStep
  PROVE  TypeInv'
<1> USE PoolAssumption DEF workerVars, callerVars, history
<1>0. TypeOK
  BY DEF TypeInv
<1>1. CASE Tick
  BY <1>1 DEF Tick, TypeInv, TypeOK, Control
<1>2. CASE VisitNothing
  BY <1>0, <1>2, NextVisitType DEF VisitNothing, TypeInv, TypeOK, Control
<1>3. CASE VisitIdle
  <2>1. idle_workers' \in Seq(Workers)
    BY <1>0, <1>3 DEF VisitIdle, TypeOK
  <2>2. si' \in Workers /\ spc' \in {"visit", "tick"}
    BY <1>0, <1>3, NextVisitType DEF VisitIdle
  <2> QED BY <1>3, <2>1, <2>2 DEF VisitIdle, TypeInv, TypeOK, Control
<1>4. CASE VisitBusy
  BY <1>4 DEF VisitBusy, TypeInv, TypeOK, Control
<1>5. CASE StealDequeue
  <2>1. CASE queue_soft[si] # <<>>
    <3>1. Head(queue_soft[si]) \in Tasks /\ Tail(queue_soft[si]) \in Seq(Tasks)
      BY <1>0, <2>1 DEF TypeOK
    <3> QED BY <1>5, <2>1, <3>1, ZenonT(40) DEF StealDequeue, TypeInv, TypeOK, Control
  <2>2. CASE queue_soft[si] = <<>>
    BY <1>0, <1>5, <2>2, NextVisitType DEF StealDequeue, TypeInv, TypeOK, Control
  <2> QED BY <2>1, <2>2
<1>6. CASE StealMove
  <2>1. Head(idle_workers) \in Workers /\ stolen \in Tasks
    BY <1>6 DEF StealMove, TypeInv, TypeOK, Control
  <2>2. /\ queue_hard' \in [Workers -> Seq(Tasks)]
        /\ queue_soft' \in [Workers -> Seq(Tasks)]
    BY <1>6, <2>1, EnqueueType DEF StealMove, TypeInv
  <2> QED BY <1>6, <2>2 DEF StealMove, TypeInv, TypeOK, Control
<1>7. CASE StealNotify
  <2>1. Head(idle_workers) \in Workers /\ Tail(idle_workers) \in Seq(Workers)
    BY <1>7 DEF StealNotify, TypeInv, TypeOK, Control
  <2>2. /\ pc' \in [Workers -> WorkerPCs]
        /\ \A v \in Workers : (task'[v] # NoTask) <=> (pc'[v] \in {"run", "running"})
    BY <1>7, <2>1, NotifyType DEF StealNotify
  <2> QED BY <1>0, <1>7, <2>1, <2>2, NextVisitType DEF StealNotify, TypeInv, TypeOK, Control
<1> QED
  BY <1>1, <1>2, <1>3, <1>4, <1>5, <1>6, <1>7 DEF StealStep

LEMMA StepTypeInv == TypeInv /\ [Next]_vars => TypeInv'
<1> SUFFICES ASSUME TypeInv, [Next]_vars PROVE TypeInv'
  OBVIOUS
<1>1. CASE UNCHANGED vars
  BY <1>1 DEF vars, workerVars, callerVars, stealVars, history, TypeInv, TypeOK, Control
<1>2. CASE Next
  BY <1>2, WorkerTypeInv, CallerTypeInv, StealTypeInv DEF Next
<1> QED BY <1>1, <1>2

(* Worker and Scheduler keep their variables in their types. *)
THEOREM PoolTypeCorrect == Spec => []TypeOK
<1>1. Init => TypeInv
  BY InitTypeInv
<1>2. TypeInv /\ [Next]_vars => TypeInv'
  BY StepTypeInv
<1>3. TypeInv => TypeOK
  BY DEF TypeInv
<1> QED BY <1>1, <1>2, <1>3, PTL DEF Spec

-----------------------------------------------------------------------------
(* Queues: what Append and Tail do to the tasks waiting in them *)

LEMMA WaitingAppend ==
  ASSUME NEW q \in Seq(Tasks), NEW t \in Tasks, NEW u \in Tasks
  PROVE  Waiting(u, Append(q, t)) <=> Waiting(u, q) \/ u = t
<1>1. /\ DOMAIN q = 1 .. Len(q) /\ Len(q) \in Nat
      /\ DOMAIN Append(q, t) = 1 .. Len(q) + 1
      /\ \A i \in 1 .. Len(q) : Append(q, t)[i] = q[i]
      /\ Append(q, t)[Len(q) + 1] = t
  OBVIOUS
<1> QED BY <1>1 DEF Waiting

LEMMA DistinctAppend ==
  ASSUME NEW q \in Seq(Tasks), NEW t \in Tasks, Distinct(q), ~Waiting(t, q)
  PROVE  Distinct(Append(q, t))
<1>1. /\ DOMAIN q = 1 .. Len(q) /\ Len(q) \in Nat
      /\ DOMAIN Append(q, t) = 1 .. Len(q) + 1
      /\ \A i \in 1 .. Len(q) : Append(q, t)[i] = q[i]
      /\ Append(q, t)[Len(q) + 1] = t
  OBVIOUS
<1> QED BY <1>1 DEF Waiting, Distinct

LEMMA DistinctTail ==
  ASSUME NEW q \in Seq(Tasks), q # <<>>, Distinct(q)
  PROVE  /\ Distinct(Tail(q))
         /\ Waiting(Head(q), q)
         /\ \A u \in Tasks : Waiting(u, Tail(q)) <=> Waiting(u, q) /\ u # Head(q)
<1>1. /\ DOMAIN q = 1 .. Len(q) /\ Len(q) \in Nat \ {0}
      /\ DOMAIN Tail(q) = 1 .. Len(q) - 1
      /\ \A i \in 1 .. Len(q) - 1 : Tail(q)[i] = q[i + 1]
      /\ Head(q) = q[1]
  OBVIOUS
<1>2. Distinct(Tail(q))
  BY <1>1 DEF Distinct
<1>3. Waiting(Head(q), q)
  BY <1>1 DEF Waiting
<1>4. ASSUME NEW u \in Tasks
      PROVE  Waiting(u, Tail(q)) <=> Waiting(u, q) /\ u # Head(q)
  <2>1. ASSUME Waiting(u, Tail(q)) PROVE Waiting(u, q) /\ u # Head(q)
    BY <1>1, <2>1 DEF Waiting, Distinct
  <2>2. ASSUME Waiting(u, q), u # Head(q) PROVE Waiting(u, Tail(q))
    <3>1. PICK i \in 1 .. Len(q) : q[i] = u
      BY <1>1, <2>2 DEF Waiting
    <3>2. i - 1 \in 1 .. Len(q) - 1
      BY <1>1, <2>2, <3>1
    <3>3. Tail(q)[i - 1] = u /\ i - 1 \in DOMAIN Tail(q)
      BY <1>1, <3>1, <3>2
    <3> QED BY <3>3 DEF Waiting
  <2> QED BY <2>1, <2>2
<1> QED BY <1>2, <1>3, <1>4

-----------------------------------------------------------------------------
(* Every task has one home *)

Kinds == {"unsent", "stolen", "done", "hard", "soft", "held"}

(* Task t is at the place of kind k (of worker w) and nowhere else. *)
Home(t, k, w) ==
  /\ t \in unsent <=> k = "unsent"
  /\ stolen = t <=> k = "stolen"
  /\ runs[t] > 0 <=> k = "done"
  /\ \A v \in Workers :
       /\ Waiting(t, queue_hard[v]) <=> (k = "hard" /\ v = w)
       /\ Waiting(t, queue_soft[v]) <=> (k = "soft" /\ v = w)
       /\ task[v] = t <=> (k = "held" /\ v = w)

OneHome ==
  /\ \A w \in Workers : Distinct(queue_hard[w]) /\ Distinct(queue_soft[w])
  /\ \A t \in Tasks : runs[t] <= 1
  /\ \A t \in Tasks : \E k \in Kinds, w \in Workers : Home(t, k, w)

LEMMA OneHomeSuffices ==
  ASSUME TypeOK, OneHome
  PROVE  TaskInOnePlace
<1> SUFFICES ASSUME NEW t \in Tasks
             PROVE  /\ \E p \in Places : HeldAt(t, p)
                    /\ \A p, q \in Places : HeldAt(t, p) /\ HeldAt(t, q) => p = q
  BY DEF OneHome, TaskInOnePlace
<1>1. PICK k \in Kinds, w \in Workers : Home(t, k, w)
  BY DEF OneHome
<1> DEFINE place == IF k \in {"unsent", "stolen", "done"} THEN <<k, 0>> ELSE <<k, w>>
<1>2. place \in Places
  BY DEF Places, Kinds
<1>3. HeldAt(t, place)
  <2>1. /\ k \in {"unsent", "stolen", "done"} => place[1] = k
        /\ k \notin {"unsent", "stolen", "done"} => place[1] = k /\ place[2] = w
    OBVIOUS
  <2> QED BY <1>1, <2>1 DEF HeldAt, Home, Kinds
<1>4. ASSUME NEW p \in Places, HeldAt(t, p)
      PROVE  p = place
  <2>1. CASE p \in {"unsent", "stolen", "done"} \X {0}
    <3>1. p = <<p[1], 0>> /\ p[1] \in {"unsent", "stolen", "done"}
      BY <2>1
    <3>2. p[1] = k
      BY <1>1, <1>4, <3>1 DEF HeldAt, Home
    <3> QED BY <3>1, <3>2
  <2>2. CASE p \in {"hard", "soft", "held"} \X Workers
    <3>1. p = <<p[1], p[2]>> /\ p[1] \in {"hard", "soft", "held"} /\ p[2] \in Workers
      BY <2>2
    <3>2. p[1] = k /\ p[2] = w
      BY <1>1, <1>4, <3>1 DEF HeldAt, Home
    <3> QED BY <3>1, <3>2
  <2> QED BY <2>1, <2>2 DEF Places
<1> QED BY <1>2, <1>3, <1>4

LEMMA HomeStays ==
  ASSUME OneHome,
         UNCHANGED <<queue_hard, queue_soft, task, unsent, stolen, runs>>
  PROVE  OneHome'
BY DEF OneHome, Home, Waiting, Distinct

(* One task moves, the others do not notice. *)
Same(u) ==
  /\ u \in unsent' <=> u \in unsent
  /\ stolen' = u <=> stolen = u
  /\ runs'[u] = runs[u]
  /\ \A v \in Workers :
       /\ Waiting(u, queue_hard'[v]) <=> Waiting(u, queue_hard[v])
       /\ Waiting(u, queue_soft'[v]) <=> Waiting(u, queue_soft[v])
       /\ task'[v] = u <=> task[v] = u

LEMMA HomeMoves ==
  ASSUME OneHome, NEW t \in Tasks, NEW k \in Kinds, NEW w \in Workers,
         Home(t, k, w)',
         runs'[t] <= 1,
         \A u \in Tasks \ {t} : Same(u),
         \A v \in Workers : Distinct(queue_hard'[v]) /\ Distinct(queue_soft'[v])
  PROVE  OneHome'
<1>1. ASSUME NEW u \in Tasks
      PROVE  \E j \in Kinds, v \in Workers : Home(u, j, v)'
  <2>1. CASE u = t
    BY <2>1
  <2>2. CASE u # t
    <3>1. PICK j \in Kinds, v \in Workers : Home(u, j, v)
      BY DEF OneHome
    <3>2. Same(u)
      BY <2>2
    <3>3. Home(u, j, v)'
      BY <3>1, <3>2 DEF Home, Same
    <3> QED BY <3>3
  <2> QED BY <2>1, <2>2
<1>2. \A u \in Tasks : runs'[u] <= 1
  BY DEF OneHome, Same
<1> QED BY <1>1, <1>2 DEF OneHome

LEMMA InitOneHome == Init => OneHome
<1> SUFFICES ASSUME Init PROVE OneHome
  OBVIOUS
<1>1. 0 \in Workers /\ NoTask \notin Tasks
  BY PoolAssumption DEF Workers
<1>2. \A t \in Tasks : Home(t, "unsent", 0)
  BY <1>1 DEF Init, Home, Waiting
<1>3. \A w \in Workers : Distinct(queue_hard[w]) /\ Distinct(queue_soft[w])
  BY DEF Init, Distinct
<1>4. \A t \in Tasks : runs[t] <= 1
  BY DEF Init
<1> QED BY <1>1, <1>2, <1>3, <1>4 DEF OneHome, Kinds

LEMMA EnqueueHome ==
  ASSUME TypeOK, OneHome, NEW t \in Tasks, NEW w \in Workers, NEW hard \in BOOLEAN,
         \A v \in Workers : ~Waiting(t, queue_hard[v]) /\ ~Waiting(t, queue_soft[v]),
         Enqueue(w, t, hard)
  PROVE  /\ \A v \in Workers : Distinct(queue_hard'[v]) /\ Distinct(queue_soft'[v])
         /\ \A u \in Tasks, v \in Workers :
              /\ Waiting(u, queue_hard'[v])
                   <=> (Waiting(u, queue_hard[v]) \/ (hard /\ u = t /\ v = w))
              /\ Waiting(u, queue_soft'[v])
                   <=> (Waiting(u, queue_soft[v]) \/ (~hard /\ u = t /\ v = w))
<1>1. CASE hard
  <2>1. /\ UNCHANGED queue_soft
        /\ \A v \in Workers : queue_hard'[v] = IF v = w THEN Append(queue_hard[w], t)
                                               ELSE queue_hard[v]
    BY <1>1 DEF Enqueue, TypeOK
  <2>2. \A u \in Tasks, v \in Workers :
          Waiting(u, queue_hard'[v]) <=> (Waiting(u, queue_hard[v]) \/ (u = t /\ v = w))
    BY <2>1, WaitingAppend DEF TypeOK
  <2>3. \A v \in Workers : Distinct(queue_hard'[v])
    BY <2>1, DistinctAppend DEF TypeOK, OneHome
  <2> QED BY <1>1, <2>1, <2>2, <2>3 DEF OneHome
<1>2. CASE ~hard
  <2>1. /\ UNCHANGED queue_hard
        /\ \A v \in Workers : queue_soft'[v] = IF v = w THEN Append(queue_soft[w], t)
                                               ELSE queue_soft[v]
    BY <1>2 DEF Enqueue, TypeOK
  <2>2. \A u \in Tasks, v \in Workers :
          Waiting(u, queue_soft'[v]) <=> (Waiting(u, queue_soft[v]) \/ (u = t /\ v = w))
    BY <2>1, WaitingAppend DEF TypeOK
  <2>3. \A v \in Workers : Distinct(queue_soft'[v])
    BY <2>1, DistinctAppend DEF TypeOK, OneHome
  <2> QED BY <1>2, <2>1, <2>2, <2>3 DEF OneHome
<1> QED BY <1>1, <1>2

(* What popping the front of worker w's soft queue does to all tasks. *)
LEMMA PopSoft ==
  ASSUME TypeOK, OneHome, NEW w \in Workers, queue_soft[w] # <<>>,
         queue_soft' = [queue_soft EXCEPT ![w] = Tail(queue_soft[w])],
         UNCHANGED queue_hard
  PROVE  /\ Head(queue_soft[w]) \in Tasks
         /\ Home(Head(queue_soft[w]), "soft", w)
         /\ \A v \in Workers : Distinct(queue_hard'[v]) /\ Distinct(queue_soft'[v])
         /\ \A u \in Tasks, v \in Workers :
              /\ Waiting(u, queue_hard'[v]) <=> Waiting(u, queue_hard[v])
              /\ Waiting(u, queue_soft'[v])
                   <=> (Waiting(u, queue_soft[v]) /\ ~(u = Head(queue_soft[w]) /\ v = w))
<1> DEFINE t == Head(queue_soft[w])
<1>1. queue_soft[w] \in Seq(Tasks) /\ t \in Tasks
  BY DEF TypeOK
<1>2. /\ Distinct(Tail(queue_soft[w])) /\ Waiting(t, queue_soft[w])
      /\ \A u \in Tasks : Waiting(u, Tail(queue_soft[w])) <=> Waiting(u, queue_soft[w]) /\ u # t
  BY <1>1, DistinctTail DEF OneHome
<1>3. \A v \in Workers : queue_soft'[v] = IF v = w THEN Tail(queue_soft[w]) ELSE queue_soft[v]
  BY DEF TypeOK
<1>4. Home(t, "soft", w)
  <2>1. PICK k \in Kinds, v \in Workers : Home(t, k, v)
    BY <1>1 DEF OneHome
  <2>2. k = "soft" /\ v = w
    BY <1>2, <2>1 DEF Home
  <2> QED BY <2>1, <2>2
<1> HIDE DEF t
<1>5. \A v \in Workers : Distinct(queue_soft'[v])
  BY <1>2, <1>3 DEF OneHome
<1>6. \A u \in Tasks, v \in Workers :
        Waiting(u, queue_soft'[v]) <=> (Waiting(u, queue_soft[v]) /\ ~(u = t /\ v = w))
  BY <1>2, <1>3
<1> QED BY <1>1, <1>4, <1>5, <1>6 DEF OneHome, t

LEMMA PopHard ==
  ASSUME TypeOK, OneHome, NEW w \in Workers, queue_hard[w] # <<>>,
         queue_hard' = [queue_hard EXCEPT ![w] = Tail(queue_hard[w])],
         UNCHANGED queue_soft
  PROVE  /\ Head(queue_hard[w]) \in Tasks
         /\ Home(Head(queue_hard[w]), "hard", w)
         /\ \A v \in Workers : Distinct(queue_hard'[v]) /\ Distinct(queue_soft'[v])
         /\ \A u \in Tasks, v \in Workers :
              /\ Waiting(u, queue_soft'[v]) <=> Waiting(u, queue_soft[v])
              /\ Waiting(u, queue_hard'[v])
                   <=> (Waiting(u, queue_hard[v]) /\ ~(u = Head(queue_hard[w]) /\ v = w))
<1> DEFINE t == Head(queue_hard[w])
<1>1. queue_hard[w] \in Seq(Tasks) /\ t \in Tasks
  BY DEF TypeOK
<1>2. /\ Distinct(Tail(queue_hard[w])) /\ Waiting(t, queue_hard[w])
      /\ \A u \in Tasks : Waiting(u, Tail(queue_hard[w])) <=> Waiting(u, queue_hard[w]) /\ u # t
  BY <1>1, DistinctTail DEF OneHome
<1>3. \A v \in Workers : queue_hard'[v] = IF v = w THEN Tail(queue_hard[w]) ELSE queue_hard[v]
  BY DEF TypeOK
<1>4. Home(t, "hard", w)
  <2>1. PICK k \in Kinds, v \in Workers : Home(t, k, v)
    BY <1>1 DEF OneHome
  <2>2. k = "hard" /\ v = w
    BY <1>2, <2>1 DEF Home
  <2> QED BY <2>1, <2>2
<1> HIDE DEF t
<1>5. \A v \in Workers : Distinct(queue_hard'[v])
  BY <1>2, <1>3 DEF OneHome
<1>6. \A u \in Tasks, v \in Workers :
        Waiting(u, queue_hard'[v]) <=> (Waiting(u, queue_hard[v]) /\ ~(u = t /\ v = w))
  BY <1>2, <1>3
<1> QED BY <1>1, <1>4, <1>5, <1>6 DEF OneHome, t

LEMMA WorkerOneHome ==
  ASSUME TypeInv, OneHome, NEW w \in Workers, WorkerStep(w) \/ SpuriousWakeup(w)
  PROVE  OneHome'
<1> USE DEF callerVars, stealVars, history
<1>0. NoTask \notin Tasks /\ TypeOK
  BY PoolAssumption DEF TypeInv
<1>1. CASE TestRunning(w) \/ CheckHard(w) \/ CheckSoft(w) \/ Sleep(w)
           \/ StartTask(w) \/ SpuriousWakeup(w)
  BY <1>1, HomeStays DEF TestRunning, CheckHard, CheckSoft, Sleep, StartTask,
                         SpuriousWakeup
<1>2. CASE DequeueHard(w)
  <2>1. CASE queue_hard[w] = <<>>
    BY <1>2, <2>1, HomeStays DEF DequeueHard
  <2>2. CASE queue_hard[w] # <<>>
    <3>0. PICK t \in Tasks : t = Head(queue_hard[w])
      BY <1>0, <2>2 DEF TypeOK
    <3>1. /\ queue_hard' = [queue_hard EXCEPT ![w] = Tail(queue_hard[w])]
          /\ UNCHANGED <<queue_soft, unsent, stolen, runs>>
          /\ task' = [task EXCEPT ![w] = t]
          /\ pc[w] = "takeHard"
      BY <1>2, <2>2, <3>0 DEF DequeueHard
    <3>2. /\ t \in Tasks /\ Home(t, "hard", w)
          /\ \A v \in Workers : Distinct(queue_hard'[v]) /\ Distinct(queue_soft'[v])
          /\ \A u \in Tasks, v \in Workers :
               /\ Waiting(u, queue_soft'[v]) <=> Waiting(u, queue_soft[v])
               /\ Waiting(u, queue_hard'[v])
                    <=> (Waiting(u, queue_hard[v]) /\ ~(u = t /\ v = w))
      BY <1>0, <2>2, <3>0, <3>1, PopHard
    <3>3. /\ \A v \in Workers : task'[v] = IF v = w THEN t ELSE task[v]
          /\ task[w] = NoTask
      BY <3>1 DEF TypeInv, TypeOK, Control
    <3>4. Home(t, "held", w)'
      BY <3>1, <3>2, <3>3 DEF Home
    <3>5. \A u \in Tasks \ {t} : Same(u)
      BY <1>0, <3>1, <3>2, <3>3 DEF Same
    <3>6. runs'[t] <= 1
      BY <3>1, <3>2 DEF OneHome
    <3> QED BY <3>2, <3>4, <3>5, <3>6, HomeMoves DEF Kinds
  <2> QED BY <2>1, <2>2
<1>3. CASE DequeueSoft(w)
  <2>1. CASE queue_soft[w] = <<>>
    BY <1>3, <2>1, HomeStays DEF DequeueSoft
  <2>2. CASE queue_soft[w] # <<>>
    <3>0. PICK t \in Tasks : t = Head(queue_soft[w])
      BY <1>0, <2>2 DEF TypeOK
    <3>1. /\ queue_soft' = [queue_soft EXCEPT ![w] = Tail(queue_soft[w])]
          /\ UNCHANGED <<queue_hard, unsent, stolen, runs>>
          /\ task' = [task EXCEPT ![w] = t]
          /\ pc[w] = "takeSoft"
      BY <1>3, <2>2, <3>0 DEF DequeueSoft
    <3>2. /\ t \in Tasks /\ Home(t, "soft", w)
          /\ \A v \in Workers : Distinct(queue_hard'[v]) /\ Distinct(queue_soft'[v])
          /\ \A u \in Tasks, v \in Workers :
               /\ Waiting(u, queue_hard'[v]) <=> Waiting(u, queue_hard[v])
               /\ Waiting(u, queue_soft'[v])
                    <=> (Waiting(u, queue_soft[v]) /\ ~(u = t /\ v = w))
      BY <1>0, <2>2, <3>0, <3>1, PopSoft
    <3>3. /\ \A v \in Workers : task'[v] = IF v = w THEN t ELSE task[v]
          /\ task[w] = NoTask
      BY <3>1 DEF TypeInv, TypeOK, Control
    <3>4. Home(t, "held", w)'
      BY <3>1, <3>2, <3>3 DEF Home
    <3>5. \A u \in Tasks \ {t} : Same(u)
      BY <1>0, <3>1, <3>2, <3>3 DEF Same
    <3>6. runs'[t] <= 1
      BY <3>1, <3>2 DEF OneHome
    <3> QED BY <3>2, <3>4, <3>5, <3>6, HomeMoves DEF Kinds
  <2> QED BY <2>1, <2>2
<1>4. CASE FinishTask(w)
  <2>0. PICK t \in Tasks : t = task[w]
    BY <1>0, <1>4 DEF FinishTask, TypeInv, TypeOK, Control
  <2>1. /\ t \in Tasks
        /\ UNCHANGED <<queue_hard, queue_soft, unsent, stolen>>
        /\ \A v \in Workers : task'[v] = IF v = w THEN NoTask ELSE task[v]
        /\ \A u \in Tasks : runs'[u] = IF u = t THEN runs[u] + 1 ELSE runs[u]
    BY <1>4, <2>0 DEF FinishTask, TypeInv, TypeOK, Control
  <2>2. Home(t, "held", w)
    <3>1. PICK k \in Kinds, v \in Workers : Home(t, k, v)
      BY <2>1 DEF OneHome
    <3> QED BY <2>0, <3>1 DEF Home
  <2>3. runs[t] = 0
    <3>1. runs[t] \in Nat
      BY <1>0, <2>1 DEF TypeOK
    <3> QED BY <2>2, <3>1 DEF Home
  <2>4. Home(t, "done", w)'
    BY <1>0, <2>1, <2>2, <2>3 DEF Home
  <2>5. \A u \in Tasks \ {t} : Same(u)
    BY <1>0, <2>1, <2>2 DEF Same, Home
  <2>6. \A v \in Workers : Distinct(queue_hard'[v]) /\ Distinct(queue_soft'[v])
    BY <2>1 DEF OneHome
  <2>7. runs'[t] <= 1
    BY <2>1, <2>3
  <2> QED BY <2>1, <2>4, <2>5, <2>6, <2>7, HomeMoves DEF Kinds
<1> QED BY <1>1, <1>2, <1>3, <1>4 DEF WorkerStep

LEMMA CallerOneHome ==
  ASSUME TypeInv, OneHome,
         \/ \E w \in Workers, t \in Tasks, hard \in BOOLEAN : SubmitEnqueue(w, t, hard)
         \/ SubmitNotify \/ ShutdownBegin \/ ShutdownStep
  PROVE  OneHome'
<1> USE DEF stealVars, history, workerVars
<1>1. ASSUME NEW w \in Workers, NEW t \in Tasks, NEW hard \in BOOLEAN,
             SubmitEnqueue(w, t, hard)
      PROVE  OneHome'
  <2>1. /\ t \in unsent /\ unsent' = unsent \ {t}
        /\ UNCHANGED <<task, stolen, runs>>
        /\ Enqueue(w, t, hard)
    BY <1>1 DEF SubmitEnqueue
  <2>2. Home(t, "unsent", w)
    <3>1. PICK k \in Kinds, v \in Workers : Home(t, k, v)
      BY DEF OneHome
    <3> QED BY <2>1, <3>1 DEF Home
  <2>3. /\ \A v \in Workers : Distinct(queue_hard'[v]) /\ Distinct(queue_soft'[v])
        /\ \A u \in Tasks, v \in Workers :
             /\ Waiting(u, queue_hard'[v])
                  <=> (Waiting(u, queue_hard[v]) \/ (hard /\ u = t /\ v = w))
             /\ Waiting(u, queue_soft'[v])
                  <=> (Waiting(u, queue_soft[v]) \/ (~hard /\ u = t /\ v = w))
    <3>1. \A v \in Workers : ~Waiting(t, queue_hard[v]) /\ ~Waiting(t, queue_soft[v])
      BY <2>2 DEF Home
    <3> QED BY <2>1, <3>1, EnqueueHome DEF TypeInv
  <2>4. Home(t, IF hard THEN "hard" ELSE "soft", w)'
    BY <2>1, <2>2, <2>3 DEF Home
  <2>5. \A u \in Tasks \ {t} : Same(u)
    BY <2>1, <2>3 DEF Same
  <2>6. runs'[t] <= 1 /\ (IF hard THEN "hard" ELSE "soft") \in Kinds
    BY <2>1 DEF OneHome, Kinds
  <2> QED BY <2>3, <2>4, <2>5, <2>6, HomeMoves
<1>2. CASE SubmitNotify \/ ShutdownBegin \/ ShutdownStep
  BY <1>2, HomeStays DEF SubmitNotify, ShutdownBegin, ShutdownStep, ShutdownFlag,
                         ShutdownNotify, ShutdownJoin
<1> QED BY <1>1, <1>2

LEMMA StealOneHome ==
  ASSUME TypeInv, OneHome, StealStep
  PROVE  OneHome'
<1> USE DEF workerVars, callerVars, history
<1>0. NoTask \notin Tasks /\ TypeOK
  BY PoolAssumption DEF TypeInv
<1>1. CASE Tick \/ VisitNothing \/ VisitIdle \/ VisitBusy \/ StealNotify
  BY <1>1, HomeStays DEF Tick, VisitNothing, VisitIdle, VisitBusy, StealNotify
<1>2. CASE StealDequeue
  <2>1. CASE queue_soft[si] = <<>>
    BY <1>2, <2>1, HomeStays DEF StealDequeue
  <2>2. CASE queue_soft[si] # <<>>
    <3>0. PICK w \in Workers : w = si
      BY <1>0 DEF TypeOK
    <3>1. PICK t \in Tasks : t = Head(queue_soft[w])
      BY <1>0, <2>2, <3>0 DEF TypeOK
    <3>2. /\ queue_soft' = [queue_soft EXCEPT ![w] = Tail(queue_soft[w])]
          /\ UNCHANGED <<queue_hard, unsent, task, runs>>
          /\ stolen' = t /\ stolen = NoTask
      BY <1>2, <2>2, <3>0, <3>1 DEF StealDequeue, TypeInv, TypeOK, Control
    <3>3. /\ Home(t, "soft", w)
          /\ \A v \in Workers : Distinct(queue_hard'[v]) /\ Distinct(queue_soft'[v])
          /\ \A u \in Tasks, v \in Workers :
               /\ Waiting(u, queue_hard'[v]) <=> Waiting(u, queue_hard[v])
               /\ Waiting(u, queue_soft'[v])
                    <=> (Waiting(u, queue_soft[v]) /\ ~(u = t /\ v = w))
      BY <1>0, <2>2, <3>0, <3>1, <3>2, PopSoft
    <3>4. Home(t, "stolen", w)'
      BY <3>2, <3>3 DEF Home
    <3>5. \A u \in Tasks \ {t} : Same(u)
      BY <1>0, <3>2, <3>3 DEF Same
    <3>6. runs'[t] <= 1
      BY <3>2 DEF OneHome
    <3> QED BY <3>3, <3>4, <3>5, <3>6, HomeMoves DEF Kinds
  <2> QED BY <2>1, <2>2
<1>3. CASE StealMove
  <2>0. PICK t \in Tasks, w \in Workers : t = stolen /\ w = Head(idle_workers)
    <3>1. stolen \in Tasks /\ Head(idle_workers) \in Workers
      BY <1>3 DEF StealMove, TypeInv, TypeOK, Control
    <3> QED BY <3>1
  <2>1. /\ UNCHANGED <<unsent, task, runs>>
        /\ stolen' = NoTask
        /\ Enqueue(w, t, TRUE)
    BY <1>3, <2>0 DEF StealMove
  <2>2. Home(t, "stolen", w)
    <3>1. PICK k \in Kinds, v \in Workers : Home(t, k, v)
      BY DEF OneHome
    <3> QED BY <2>0, <3>1 DEF Home
  <2>3. /\ \A v \in Workers : Distinct(queue_hard'[v]) /\ Distinct(queue_soft'[v])
        /\ \A u \in Tasks, v \in Workers :
             /\ Waiting(u, queue_hard'[v])
                  <=> (Waiting(u, queue_hard[v]) \/ (TRUE /\ u = t /\ v = w))
             /\ Waiting(u, queue_soft'[v])
                  <=> (Waiting(u, queue_soft[v]) \/ (~TRUE /\ u = t /\ v = w))
    <3>1. \A v \in Workers : ~Waiting(t, queue_hard[v]) /\ ~Waiting(t, queue_soft[v])
      BY <2>2 DEF Home
    <3> QED BY <1>0, <2>1, <3>1, EnqueueHome
  <2>4. Home(t, "hard", w)'
    BY <1>0, <2>1, <2>2, <2>3 DEF Home
  <2>5. \A u \in Tasks \ {t} : Same(u)
    BY <1>0, <2>0, <2>1, <2>3 DEF Same
  <2>6. runs'[t] <= 1
    BY <2>1 DEF OneHome
  <2> QED BY <2>3, <2>4, <2>5, <2>6, HomeMoves DEF Kinds
<1> QED BY <1>1, <1>2, <1>3 DEF StealStep

LEMMA StepOneHome == TypeInv /\ OneHome /\ [Next]_vars => OneHome'
<1> SUFFICES ASSUME TypeInv, OneHome, [Next]_vars PROVE OneHome'
  OBVIOUS
<1>1. CASE UNCHANGED vars
  BY <1>1, HomeStays DEF vars, workerVars, callerVars, stealVars, history
<1>2. CASE Next
  BY <1>2, WorkerOneHome, CallerOneHome, StealOneHome DEF Next
<1> QED BY <1>1, <1>2

(* Whatever the threads of the pool do, no task is lost or duplicated: it  *)
(* is with the caller, in one queue, in one worker's or the periodic       *)
(* thread's hand, or completed once.                                       *)
THEOREM PoolLosesNoTask == Spec => []TaskInOnePlace
<1>1. Init => TypeInv /\ OneHome
  BY InitTypeInv, InitOneHome
<1>2. TypeInv /\ OneHome /\ [Next]_vars => (TypeInv /\ OneHome)'
  BY StepTypeInv, StepOneHome
<1>3. TypeInv /\ OneHome => TaskInOnePlace
  BY OneHomeSuffices DEF TypeInv
<1> QED BY <1>1, <1>2, <1>3, PTL DEF Spec

-----------------------------------------------------------------------------
(* Shutdown *)

Joined ==
  \A w \in Workers :
    (cpc = "returned" \/ (cpc \in {"flag", "wake", "join"} /\ w < target))
      => pc[w] = "dead"

LEMMA NotifyKeepsDead ==
  ASSUME TypeOK, NEW w \in Workers, NotifyAll(w), NEW v \in Workers, pc[v] = "dead"
  PROVE  pc'[v] = "dead"
BY DEF TypeOK, NotifyAll

LEMMA DeadStaysDead ==
  ASSUME TypeInv, [Next]_vars, NEW v \in Workers, pc[v] = "dead"
  PROVE  pc'[v] = "dead"
<1> USE DEF TypeInv, workerVars, callerVars, stealVars
<1>1. ASSUME NEW w \in Workers, WorkerStep(w) \/ SpuriousWakeup(w)
      PROVE  pc'[v] = "dead"
  BY <1>1 DEF TypeOK, WorkerStep, SpuriousWakeup, TestRunning, CheckHard, CheckSoft,
              Sleep, DequeueHard, DequeueSoft, StartTask, FinishTask
<1>2. CASE SubmitNotify \/ ShutdownNotify
  <2>1. target \in Workers /\ NotifyAll(target)
    BY <1>2 DEF SubmitNotify, ShutdownNotify, TypeOK
  <2> QED BY <2>1, NotifyKeepsDead
<1>3. CASE StealNotify
  <2>1. Head(idle_workers) \in Workers /\ NotifyAll(Head(idle_workers))
    BY <1>3 DEF StealNotify, TypeOK, Control
  <2> QED BY <2>1, NotifyKeepsDead
<1>4. CASE UNCHANGED pc
  BY <1>4
<1> QED
  BY <1>1, <1>2, <1>3, <1>4 DEF Next, vars, SubmitEnqueue, ShutdownBegin,
     ShutdownStep, ShutdownFlag, ShutdownJoin, StealStep, Tick, VisitNothing,
     VisitIdle, VisitBusy, StealDequeue, StealMove

LEMMA StepJoined == TypeInv /\ Joined /\ [Next]_vars => Joined'
<1> SUFFICES ASSUME TypeInv, Joined, [Next]_vars, NEW v \in Workers,
                    cpc' = "returned"
                      \/ (cpc' \in {"flag", "wake", "join"} /\ v < target')
             PROVE  pc'[v] = "dead"
  BY DEF Joined
<1>1. SUFFICES pc[v] = "dead"
  BY DeadStaysDead
<1> USE DEF TypeInv, TypeOK, Joined, Workers, workerVars, callerVars, stealVars
<1>2. CASE UNCHANGED <<cpc, target>>
  BY <1>2
<1>3. CASE \/ \E w \in Workers, t \in Tasks, hard \in BOOLEAN : SubmitEnqueue(w, t, hard)
           \/ SubmitNotify
  BY <1>3 DEF SubmitEnqueue, SubmitNotify
<1>4. CASE ShutdownBegin
  BY <1>4 DEF ShutdownBegin
<1>5. CASE ShutdownFlag \/ ShutdownNotify
  BY <1>5 DEF ShutdownFlag, ShutdownNotify
<1>6. CASE ShutdownJoin
  <2>1. v < target \/ v = target
    BY <1>6, PoolAssumption DEF ShutdownJoin
  <2> QED BY <1>6, <2>1 DEF ShutdownJoin
<1> QED
  BY <1>2, <1>3, <1>4, <1>5, <1>6 DEF Next, vars, WorkerStep, SpuriousWakeup,
     TestRunning, CheckHard, CheckSoft, Sleep, DequeueHard, DequeueSoft, StartTask,
     FinishTask, ShutdownStep, StealStep, Tick, VisitNothing, VisitIdle, VisitBusy,
     StealDequeue, StealMove, StealNotify

-----------------------------------------------------------------------------
(* Overtaking *)

(* A task that can still enter a hard queue. *)
Fresh(t) ==
  \/ t \in unsent
  \/ stolen = t
  \/ \E w \in Workers : Waiting(t, queue_soft[w])

Overtake ==
  \A t \in Tasks :
    /\ overtaken[t] <= 1
    /\ Fresh(t) => overtaken[t] = 0
    /\ \A w \in Workers :
         Waiting(t, queue_hard[w]) /\ pc[w] = "takeSoft" => overtaken[t] = 0

LEMMA OvertakeKept ==
  ASSUME Overtake, UNCHANGED overtaken,
         \A t \in Tasks : Fresh(t)' => Fresh(t),
         \A t \in Tasks, w \in Workers :
           Waiting(t, queue_hard'[w]) /\ pc'[w] = "takeSoft"
             => (Waiting(t, queue_hard[w]) /\ pc[w] = "takeSoft") \/ Fresh(t)
  PROVE  Overtake'
BY DEF Overtake

LEMMA OvertakeStays ==
  ASSUME Overtake,
         UNCHANGED <<overtaken, queue_hard, queue_soft, unsent, stolen>>,
         \A w \in Workers : pc'[w] = "takeSoft" => pc[w] = "takeSoft"
  PROVE  Overtake'
BY DEF Overtake, Fresh, Waiting

LEMMA StepOvertake == TypeInv /\ OneHome /\ Overtake /\ [Next]_vars => Overtake'
<1> SUFFICES ASSUME TypeInv, OneHome, Overtake, [Next]_vars PROVE Overtake'
  OBVIOUS
<1> USE DEF workerVars, callerVars, stealVars, history
<1>0. TypeOK
  BY DEF TypeInv
<1>1. ASSUME NEW w \in Workers,
             TestRunning(w) \/ CheckHard(w) \/ CheckSoft(w) \/ Sleep(w)
               \/ StartTask(w) \/ FinishTask(w) \/ SpuriousWakeup(w)
      PROVE  Overtake'
  <2>1. \A v \in Workers : pc'[v] = "takeSoft" => pc[v] = "takeSoft"
    BY <1>0, <1>1 DEF TypeOK, TestRunning, CheckHard, CheckSoft, Sleep, StartTask,
                      FinishTask, SpuriousWakeup
  <2>2. UNCHANGED <<overtaken, queue_hard, queue_soft, unsent, stolen>>
    BY <1>1 DEF TestRunning, CheckHard, CheckSoft, Sleep, StartTask, FinishTask,
                SpuriousWakeup
  <2> QED BY <2>1, <2>2, OvertakeStays
<1>2. CASE SubmitNotify \/ ShutdownNotify \/ StealNotify
  <2>1. \A v \in Workers : pc'[v] = "takeSoft" => pc[v] = "takeSoft"
    <3>1. PICK w \in Workers : NotifyAll(w)
      BY <1>2 DEF SubmitNotify, ShutdownNotify, StealNotify, TypeInv, TypeOK, Control
    <3> QED BY <1>0, <3>1 DEF NotifyAll, TypeOK
  <2> QED
    BY <1>2, <2>1, OvertakeStays DEF SubmitNotify, ShutdownNotify, StealNotify
<1>3. CASE \/ ShutdownBegin \/ ShutdownFlag \/ ShutdownJoin
           \/ Tick \/ VisitNothing \/ VisitIdle \/ VisitBusy \/ UNCHANGED vars
  BY <1>3, OvertakeStays DEF vars, ShutdownBegin, ShutdownFlag, ShutdownJoin, Tick,
     VisitNothing, VisitIdle, VisitBusy
<1>4. ASSUME NEW w \in Workers, DequeueHard(w)
      PROVE  Overtake'
  <2>1. CASE queue_hard[w] = <<>>
    <3>1. /\ UNCHANGED <<overtaken, queue_hard, queue_soft, unsent, stolen>>
          /\ \A v \in Workers : pc'[v] = "takeSoft" => v = w \/ pc[v] = "takeSoft"
      BY <1>0, <1>4, <2>1 DEF DequeueHard, TypeOK
    <3>2. \A t \in Tasks : ~Waiting(t, queue_hard'[w])
      BY <2>1, <3>1 DEF Waiting
    <3>3. \A t \in Tasks : Fresh(t)' => Fresh(t)
      BY <3>1 DEF Fresh
    <3> QED BY <3>1, <3>2, <3>3, OvertakeKept
  <2>2. CASE queue_hard[w] # <<>>
    <3>1. /\ queue_hard' = [queue_hard EXCEPT ![w] = Tail(queue_hard[w])]
          /\ UNCHANGED <<overtaken, queue_soft, unsent, stolen>>
          /\ \A v \in Workers : pc'[v] = "takeSoft" => pc[v] = "takeSoft"
      BY <1>0, <1>4, <2>2 DEF DequeueHard, TypeOK
    <3>2. \A t \in Tasks, v \in Workers :
            Waiting(t, queue_hard'[v]) => Waiting(t, queue_hard[v])
      BY <1>0, <2>2, <3>1, PopHard
    <3>3. \A t \in Tasks : Fresh(t)' => Fresh(t)
      BY <3>1 DEF Fresh
    <3> QED BY <3>1, <3>2, <3>3, OvertakeKept
  <2> QED BY <2>1, <2>2
<1>5. ASSUME NEW w \in Workers, DequeueSoft(w)
      PROVE  Overtake'
  <2>1. CASE queue_soft[w] = <<>>
    <3>1. /\ UNCHANGED <<overtaken, queue_hard, queue_soft, unsent, stolen>>
          /\ \A v \in Workers : pc'[v] = "takeSoft" => pc[v] = "takeSoft"
      BY <1>0, <1>5, <2>1 DEF DequeueSoft, TypeOK
    <3> QED BY <3>1, OvertakeStays
  <2>2. CASE queue_soft[w] # <<>>
    <3>1. /\ queue_soft' = [queue_soft EXCEPT ![w] = Tail(queue_soft[w])]
          /\ UNCHANGED <<queue_hard, unsent, stolen>>
          /\ pc[w] = "takeSoft"
          /\ \A v \in Workers : pc'[v] = "takeSoft" => v # w /\ pc[v] = "takeSoft"
          /\ \A t \in Tasks : overtaken'[t] = IF Waiting(t, queue_hard[w])
                                              THEN overtaken[t] + 1
                                              ELSE overtaken[t]
      BY <1>0, <1>5, <2>2 DEF DequeueSoft, TypeOK
    <3>2. \A t \in Tasks, v \in Workers :
            Waiting(t, queue_soft'[v]) => Waiting(t, queue_soft[v])
      BY <1>0, <2>2, <3>1, PopSoft
    <3>3. \A t \in Tasks : Fresh(t)' => Fresh(t)
      BY <3>1, <3>2 DEF Fresh
    <3>4. ASSUME NEW t \in Tasks
          PROVE  /\ Waiting(t, queue_hard[w]) => ~Fresh(t)
                 /\ \A v \in Workers : Waiting(t, queue_hard[w])
                                         /\ Waiting(t, queue_hard[v]) => v = w
      <4>1. PICK k \in Kinds, v \in Workers : Home(t, k, v)
        BY DEF OneHome
      <4> QED BY <4>1 DEF Home, Fresh
    <3>5. ASSUME NEW t \in Tasks
          PROVE  /\ overtaken'[t] <= 1
                 /\ Fresh(t)' => overtaken'[t] = 0
                 /\ \A v \in Workers :
                      Waiting(t, queue_hard'[v]) /\ pc'[v] = "takeSoft"
                        => overtaken'[t] = 0
      BY <3>1, <3>3, <3>4 DEF Overtake
    <3> QED BY <3>5 DEF Overtake
  <2> QED BY <2>1, <2>2
<1>6. ASSUME NEW w \in Workers, NEW t \in Tasks, NEW hard \in BOOLEAN,
             SubmitEnqueue(w, t, hard)
      PROVE  Overtake'
  <2>1. /\ t \in unsent /\ unsent' = unsent \ {t}
        /\ UNCHANGED <<pc, stolen, overtaken>>
        /\ Enqueue(w, t, hard)
    BY <1>6 DEF SubmitEnqueue
  <2>2. \A v \in Workers : ~Waiting(t, queue_hard[v]) /\ ~Waiting(t, queue_soft[v])
    <3>1. PICK k \in Kinds, v \in Workers : Home(t, k, v)
      BY DEF OneHome
    <3> QED BY <2>1, <3>1 DEF Home
  <2>3. \A u \in Tasks, v \in Workers :
          /\ Waiting(u, queue_hard'[v]) => Waiting(u, queue_hard[v]) \/ u = t
          /\ Waiting(u, queue_soft'[v]) => Waiting(u, queue_soft[v]) \/ u = t
    BY <1>0, <2>1, <2>2, EnqueueHome
  <2>4. \A u \in Tasks : Fresh(u)' => Fresh(u)
    BY <2>1, <2>3 DEF Fresh
  <2>5. Fresh(t)
    BY <2>1 DEF Fresh
  <2> QED BY <2>1, <2>3, <2>4, <2>5, OvertakeKept
<1>7. CASE StealDequeue
  <2>1. CASE queue_soft[si] = <<>>
    BY <1>7, <2>1, OvertakeStays DEF StealDequeue
  <2>2. CASE queue_soft[si] # <<>>
    <3>1. /\ queue_soft' = [queue_soft EXCEPT ![si] = Tail(queue_soft[si])]
          /\ UNCHANGED <<queue_hard, unsent, overtaken, pc>>
          /\ stolen' = Head(queue_soft[si])
          /\ si \in Workers
      BY <1>0, <1>7, <2>2 DEF StealDequeue, TypeOK
    <3>2. /\ Head(queue_soft[si]) \in Tasks
          /\ Home(Head(queue_soft[si]), "soft", si)
          /\ \A t \in Tasks, v \in Workers :
               Waiting(t, queue_soft'[v]) => Waiting(t, queue_soft[v])
      BY <1>0, <2>2, <3>1, PopSoft
    <3>3. Fresh(Head(queue_soft[si]))
      BY <3>1, <3>2 DEF Fresh, Home
    <3>4. \A t \in Tasks : Fresh(t)' => Fresh(t)
      BY <3>1, <3>2, <3>3 DEF Fresh
    <3> QED BY <3>1, <3>4, OvertakeKept
  <2> QED BY <2>1, <2>2
<1>8. CASE StealMove
  <2>1. /\ UNCHANGED <<pc, unsent, overtaken>>
        /\ stolen' = NoTask /\ stolen \in Tasks /\ Head(idle_workers) \in Workers
        /\ Enqueue(Head(idle_workers), stolen, TRUE)
    <3>1. stolen \in Tasks /\ Head(idle_workers) \in Workers
      BY <1>8 DEF StealMove, TypeInv, TypeOK, Control
    <3> QED BY <1>8, <3>1 DEF StealMove
  <2>2. \A v \in Workers : ~Waiting(stolen, queue_hard[v]) /\ ~Waiting(stolen, queue_soft[v])
    <3>1. PICK k \in Kinds, v \in Workers : Home(stolen, k, v)
      BY <2>1 DEF OneHome
    <3> QED BY <3>1 DEF Home
  <2>3. \A u \in Tasks, v \in Workers :
          /\ Waiting(u, queue_hard'[v]) => Waiting(u, queue_hard[v]) \/ u = stolen
          /\ Waiting(u, queue_soft'[v]) => Waiting(u, queue_soft[v])
    BY <1>0, <2>1, <2>2, EnqueueHome
  <2>4. \A u \in Tasks : Fresh(u)' => Fresh(u)
    BY <2>1, <2>3, PoolAssumption DEF Fresh
  <2>5. Fresh(stolen)
    BY DEF Fresh
  <2> QED BY <2>1, <2>3, <2>4, <2>5, OvertakeKept
<1> QED
  BY <1>1, <1>2, <1>3, <1>4, <1>5, <1>6, <1>7, <1>8 DEF Next, WorkerStep,
     ShutdownStep, StealStep

-----------------------------------------------------------------------------
(* Refinement *)

LEMMA InitRefines == Init => Pool!Init
BY PoolAssumption DEF Init, Pool!Init, poolStatus, poolCurrent, poolStopped, Executing

(* What the abstract pool sees does not change. *)
LEMMA RefinesStutter ==
  ASSUME UNCHANGED <<unsent, runs>>,
         \A w \in Workers : /\ pc'[w] = "running" <=> pc[w] = "running"
                            /\ pc[w] = "running" => task'[w] = task[w]
                            /\ pc'[w] = "dead" <=> pc[w] = "dead"
  PROVE  UNCHANGED Pool!vars
<1>1. \A t \in Tasks : Executing(t)' <=> Executing(t)
  BY DEF Executing
<1>2. UNCHANGED <<poolStatus, poolCurrent, poolStopped>>
  BY <1>1 DEF poolStatus, poolCurrent, poolStopped
<1> QED BY <1>2 DEF Pool!vars

LEMMA SubmitRefines ==
  ASSUME TypeInv, OneHome, NEW w \in Workers, NEW t \in Tasks, NEW hard \in BOOLEAN,
         SubmitEnqueue(w, t, hard)
  PROVE  Pool!Submit(t)
<1>1. /\ t \in unsent /\ unsent' = unsent \ {t}
      /\ UNCHANGED <<pc, task, runs>>
  BY DEF SubmitEnqueue, history
<1>2. ~(runs[t] > 0) /\ \A v \in Workers : task[v] # t
  <2>1. PICK k \in Kinds, v \in Workers : Home(t, k, v)
    BY DEF OneHome
  <2> QED BY <1>1, <2>1 DEF Home
<1>3. \A u \in Tasks : Executing(u)' <=> Executing(u)
  BY <1>1 DEF Executing
<1>4. poolStatus[t] = "new" /\ poolStatus' = [poolStatus EXCEPT ![t] = "queued"]
  <2>1. ~Executing(t)
    BY <1>2 DEF Executing
  <2> QED BY <1>1, <1>2, <1>3, <2>1 DEF poolStatus
<1>5. UNCHANGED <<poolCurrent, poolStopped>>
  BY <1>1 DEF poolCurrent, poolStopped
<1> QED BY <1>4, <1>5 DEF Pool!Submit

LEMMA StartRefines ==
  ASSUME TypeInv, OneHome, NEW w \in Workers, StartTask(w)
  PROVE  \E t \in Tasks : Pool!Start(w, t)
<1>0. PICK t \in Tasks : t = task[w]
  BY DEF StartTask, TypeInv, TypeOK, Control
<1>1. /\ pc[w] = "run"
      /\ \A v \in Workers : pc'[v] = IF v = w THEN "running" ELSE pc[v]
      /\ UNCHANGED <<task, runs, unsent>>
  BY DEF StartTask, history, callerVars, TypeInv, TypeOK
<1>2. /\ ~(runs[t] > 0) /\ t \notin unsent
      /\ \A v \in Workers : task[v] = t => v = w
  <2>1. PICK k \in Kinds, v \in Workers : Home(t, k, v)
    BY DEF OneHome
  <2> QED BY <1>0, <2>1 DEF Home
<1>3. /\ ~Executing(t) /\ Executing(t)'
      /\ \A u \in Tasks \ {t} : Executing(u)' <=> Executing(u)
  BY <1>0, <1>1, <1>2 DEF Executing
<1>4. poolStatus[t] = "queued" /\ poolStatus' = [poolStatus EXCEPT ![t] = "running"]
  BY <1>1, <1>2, <1>3 DEF poolStatus
<1>5. poolCurrent[w] = NoTask /\ poolCurrent' = [poolCurrent EXCEPT ![w] = t]
  BY <1>0, <1>1 DEF poolCurrent
<1>6. w \notin poolStopped /\ UNCHANGED poolStopped
  BY <1>1 DEF poolStopped
<1> QED BY <1>4, <1>5, <1>6 DEF Pool!Start

LEMMA FinishRefines ==
  ASSUME TypeInv, OneHome, NEW w \in Workers, FinishTask(w)
  PROVE  Pool!Finish(w)
<1>0. PICK t \in Tasks : t = task[w]
  BY DEF FinishTask, TypeInv, TypeOK, Control
<1>1. /\ pc[w] = "running"
      /\ \A v \in Workers : pc'[v] = IF v = w THEN "loop" ELSE pc[v]
      /\ \A v \in Workers : task'[v] = IF v = w THEN NoTask ELSE task[v]
      /\ \A u \in Tasks : runs'[u] = IF u = t THEN runs[u] + 1 ELSE runs[u]
      /\ runs[t] \in Nat
      /\ UNCHANGED unsent
  BY <1>0 DEF FinishTask, callerVars, TypeInv, TypeOK
<1>2. t \notin unsent
  <2>1. PICK k \in Kinds, v \in Workers : Home(t, k, v)
    BY DEF OneHome
  <2> QED BY <1>0, <2>1 DEF Home
<1>3. \A u \in Tasks \ {t} : Executing(u)' <=> Executing(u)
  BY <1>0, <1>1 DEF Executing
<1>4. runs'[t] > 0 /\ \A u \in Tasks \ {t} : runs'[u] = runs[u]
  BY <1>1
<1>5. poolStatus' = [poolStatus EXCEPT ![t] = "done"]
  BY <1>1, <1>2, <1>3, <1>4 DEF poolStatus
<1>6. poolCurrent[w] = t /\ poolCurrent' = [poolCurrent EXCEPT ![w] = NoTask]
  BY <1>0, <1>1 DEF poolCurrent
<1>7. UNCHANGED poolStopped
  BY <1>1 DEF poolStopped
<1> QED BY <1>5, <1>6, <1>7 DEF Pool!Finish

LEMMA StopRefines ==
  ASSUME TypeInv, NEW w \in Workers, TestRunning(w), ~is_running[w]
  PROVE  Pool!Stop(w)
<1>1. /\ pc[w] = "loop"
      /\ \A v \in Workers : pc'[v] = IF v = w THEN "dead" ELSE pc[v]
      /\ UNCHANGED <<task, runs, unsent>>
  BY DEF TestRunning, history, callerVars, TypeInv, TypeOK
<1>2. \A u \in Tasks : Executing(u)' <=> Executing(u)
  BY <1>1 DEF Executing
<1>3. UNCHANGED poolStatus
  BY <1>1, <1>2 DEF poolStatus
<1>4. poolCurrent[w] = NoTask /\ UNCHANGED poolCurrent
  BY <1>1 DEF poolCurrent
<1>5. poolStopped' = poolStopped \cup {w}
  BY <1>1 DEF poolStopped
<1> QED BY <1>3, <1>4, <1>5 DEF Pool!Stop

LEMMA StepRefines ==
  TypeInv /\ OneHome /\ [Next]_vars => [Pool!Next]_(Pool!vars)
<1> SUFFICES ASSUME TypeInv, OneHome, [Next]_vars
             PROVE  Pool!Next \/ UNCHANGED Pool!vars
  OBVIOUS
<1> USE DEF workerVars, callerVars, stealVars, history
<1>0. TypeOK
  BY DEF TypeInv
<1>1. ASSUME NEW w \in Workers, NEW t \in Tasks, NEW hard \in BOOLEAN,
             SubmitEnqueue(w, t, hard)
      PROVE  Pool!Next
  BY <1>1, SubmitRefines DEF Pool!Next
<1>2. ASSUME NEW w \in Workers, StartTask(w)
      PROVE  Pool!Next
  BY <1>2, StartRefines DEF Pool!Next
<1>3. ASSUME NEW w \in Workers, FinishTask(w)
      PROVE  Pool!Next
  BY <1>3, FinishRefines DEF Pool!Next
<1>4. ASSUME NEW w \in Workers, TestRunning(w)
      PROVE  Pool!Next \/ UNCHANGED Pool!vars
  <2>1. CASE ~is_running[w]
    BY <1>4, <2>1, StopRefines DEF Pool!Next
  <2>2. CASE is_running[w]
    BY <1>0, <1>4, <2>2, RefinesStutter DEF TestRunning, TypeOK
  <2> QED BY <2>1, <2>2
<1>5. ASSUME NEW w \in Workers,
             CheckHard(w) \/ CheckSoft(w) \/ Sleep(w) \/ SpuriousWakeup(w)
               \/ DequeueHard(w) \/ DequeueSoft(w)
      PROVE  UNCHANGED Pool!vars
  <2>1. UNCHANGED <<unsent, runs>>
    BY <1>5 DEF CheckHard, CheckSoft, Sleep, SpuriousWakeup, DequeueHard, DequeueSoft
  <2>2. \A v \in Workers : /\ pc'[v] = "running" <=> pc[v] = "running"
                           /\ pc[v] = "running" => task'[v] = task[v]
                           /\ pc'[v] = "dead" <=> pc[v] = "dead"
    BY <1>0, <1>5 DEF TypeOK, CheckHard, CheckSoft, Sleep, SpuriousWakeup, DequeueHard,
                      DequeueSoft
  <2> QED BY <2>1, <2>2, RefinesStutter
<1>6. CASE SubmitNotify \/ ShutdownNotify \/ StealNotify
  <2>1. UNCHANGED <<unsent, runs, task>>
    BY <1>6 DEF SubmitNotify, ShutdownNotify, StealNotify
  <2>2. PICK w \in Workers : NotifyAll(w)
    BY <1>6 DEF SubmitNotify, ShutdownNotify, StealNotify, TypeInv, TypeOK, Control
  <2>3. \A v \in Workers : /\ pc'[v] = "running" <=> pc[v] = "running"
                           /\ pc'[v] = "dead" <=> pc[v] = "dead"
    BY <1>0, <2>2 DEF NotifyAll, TypeOK
  <2> QED BY <2>1, <2>3, RefinesStutter
<1>7. CASE \/ ShutdownBegin \/ ShutdownFlag \/ ShutdownJoin \/ Tick \/ VisitNothing
           \/ VisitIdle \/ VisitBusy \/ StealDequeue \/ StealMove \/ UNCHANGED vars
  BY <1>7, RefinesStutter DEF vars, ShutdownBegin, ShutdownFlag, ShutdownJoin, Tick,
     VisitNothing, VisitIdle, VisitBusy, StealDequeue, StealMove
<1> QED
  BY <1>1, <1>2, <1>3, <1>4, <1>5, <1>6, <1>7 DEF Next, WorkerStep, ShutdownStep,
     StealStep

-----------------------------------------------------------------------------
(* The theorems *)

Safe == TypeInv /\ OneHome /\ Joined /\ Overtake

LEMMA PoolSafe == Spec => []Safe
<1>1. Init => Safe
  <2>1. Init => Joined
    BY DEF Init, Joined
  <2>2. Init => Overtake
    BY DEF Init, Overtake
  <2> QED BY <2>1, <2>2, InitTypeInv, InitOneHome DEF Safe
<1>2. Safe /\ [Next]_vars => Safe'
  BY StepTypeInv, StepOneHome, StepJoined, StepOvertake DEF Safe
<1> QED BY <1>1, <1>2, PTL DEF Spec

(* Once Scheduler::shutdown has joined a worker, its thread has ended and  *)
(* holds no task.                                                          *)
THEOREM PoolShutdownIsQuiet == Spec => []JoinedWorkersAreQuiet
<1>1. Safe => JoinedWorkersAreQuiet
  BY DEF Safe, Joined, JoinedWorkersAreQuiet, TypeInv, TypeOK, Control
<1> QED BY <1>1, PoolSafe, PTL

(* Between the two dequeues of Worker::work a hard task can be overtaken   *)
(* by one soft task and never by a second.                                 *)
THEOREM PoolOvertakesOnce == Spec => []BoundedOvertaking
<1>1. Safe => BoundedOvertaking
  BY DEF Safe, Overtake, BoundedOvertaking
<1> QED BY <1>1, PoolSafe, PTL

(* Worker and Scheduler implement TaskPool: whatever the pipeline executor *)
(* is shown to do on the abstract pool it does on this one.                *)
THEOREM PoolImplementsTaskPool == Spec => ImplementsTaskPool
<1>1. Init => Pool!Init
  BY InitRefines
<1>2. Safe /\ [Next]_vars => [Pool!Next]_(Pool!vars)
  BY StepRefines DEF Safe
<1> QED BY <1>1, <1>2, PoolSafe, PTL DEF Spec, ImplementsTaskPool, Pool!Spec
=============================================================================
