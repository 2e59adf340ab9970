----------------------------- MODULE WorkerPool -----------------------------
(***************************************************************************)
(* Worker and Scheduler (src/sche): one thread per worker looping over two *)
(* queues, a caller that submits tasks and then shuts the pool down, and   *)
(* the optional thread that moves soft tasks of busy workers to idle ones. *)
(*                                                                         *)
(* worker_mutex is taken by the worker's own thread only, so it orders     *)
(* nothing: neither submit_task nor shutdown holds it when they change     *)
(* what the worker looks at before it sleeps.  SafeQueue's operations are  *)
(* atomic (each holds m_mutex throughout).                                 *)
(***************************************************************************)
EXTENDS Naturals, Sequences

CONSTANTS
  NumWorkers,      \* Scheduler::num_workers
  Tasks,           \* the tasks the caller may submit
  NoTask,          \* an empty std::function
  Stealing,        \* whether the periodic thread has been started
  StealThreshold,  \* 3 in the code
  MaxIdle          \* bound on the length of idle_workers

Workers == 0 .. NumWorkers - 1

ASSUME PoolAssumption ==
  /\ NumWorkers \in Nat \ {0}
  /\ NoTask \notin Tasks
  /\ Stealing \in BOOLEAN
  /\ StealThreshold \in Nat
  /\ MaxIdle \in Nat

VARIABLES
  queue_hard, queue_soft,  \* per worker, the two SafeQueues
  is_running, work_state,  \* per worker, the plain fields other threads read
  pc, task,                \* per worker, its position in work() and its local
  periodic, idle_workers,  \* Scheduler's fields
  cpc, target,             \* the caller: its position and the worker it is at
  unsent,                  \* the tasks the caller has not submitted yet
  spc, si, stolen,         \* the periodic thread: position, loop index, local
  runs,                    \* how often each task's body has been completed
  overtaken                \* soft tasks taken past each waiting hard task

workerVars == <<queue_hard, queue_soft, is_running, work_state, pc, task>>
callerVars == <<cpc, target, unsent>>
stealVars  == <<spc, si, stolen, idle_workers>>
history    == <<runs, overtaken>>
vars == <<workerVars, callerVars, stealVars, periodic, history>>

WorkerPCs == {"loop", "checkHard", "checkSoft", "toWait", "asleep",
              "takeHard", "takeSoft", "run", "running", "dead"}
States == {"READY", "RUNNING", "IDLE", "DEAD"}

Init ==
  /\ queue_hard = [w \in Workers |-> <<>>]
  /\ queue_soft = [w \in Workers |-> <<>>]
  /\ is_running = [w \in Workers |-> TRUE]
  /\ work_state = [w \in Workers |-> "READY"]
  /\ pc = [w \in Workers |-> "loop"]
  /\ task = [w \in Workers |-> NoTask]
  /\ periodic = TRUE
  /\ idle_workers = <<>>
  /\ cpc = "ready"
  /\ target = 0
  /\ unsent = Tasks
  /\ spc = IF Stealing THEN "tick" ELSE "ended"
  /\ si = 0
  /\ stolen = NoTask
  /\ runs = [t \in Tasks |-> 0]
  /\ overtaken = [t \in Tasks |-> 0]

(***************************************************************************)
(* cv.notify_all: a sleeping worker resumes after cv.wait, where it goes   *)
(* on to dequeue without testing anything; nobody else hears it.           *)
(***************************************************************************)
NotifyAll(w) ==
  pc' = IF pc[w] = "asleep" THEN [pc EXCEPT ![w] = "takeHard"] ELSE pc

-----------------------------------------------------------------------------
(* Worker::work *)

TestRunning(w) ==
  /\ pc[w] = "loop"
  /\ \/ /\ is_running[w]
        /\ pc' = [pc EXCEPT ![w] = "checkHard"]
        /\ UNCHANGED work_state
     \/ /\ ~is_running[w]
        /\ pc' = [pc EXCEPT ![w] = "dead"]
        /\ work_state' = [work_state EXCEPT ![w] = "DEAD"]
  /\ UNCHANGED <<queue_hard, queue_soft, is_running, task, callerVars,
                 stealVars, periodic, history>>

\* Mutants: the hard queue is not looked at before sleeping; soft is preferred.
CheckHardSkipped(w) ==
  /\ pc[w] = "checkHard"
  /\ pc' = [pc EXCEPT ![w] = "checkSoft"]
  /\ UNCHANGED <<queue_hard, queue_soft, is_running, work_state, task,
                 callerVars, stealVars, periodic, history>>

CheckHardSoftFirst(w) ==
  /\ pc[w] = "checkHard"
  /\ pc' = [pc EXCEPT ![w] = IF queue_hard[w] = <<>> THEN "checkSoft"
                                                      ELSE "takeSoft"]
  /\ UNCHANGED <<queue_hard, queue_soft, is_running, work_state, task,
                 callerVars, stealVars, periodic, history>>

CheckHard(w) ==
  /\ pc[w] = "checkHard"
  /\ pc' = [pc EXCEPT ![w] = IF queue_hard[w] = <<>> THEN "checkSoft"
                                                      ELSE "takeHard"]
  /\ UNCHANGED <<queue_hard, queue_soft, is_running, work_state, task,
                 callerVars, stealVars, periodic, history>>

CheckSoft(w) ==
  /\ pc[w] = "checkSoft"
  /\ \/ /\ queue_soft[w] = <<>>
        /\ pc' = [pc EXCEPT ![w] = "toWait"]
        /\ work_state' = [work_state EXCEPT ![w] = "IDLE"]
     \/ /\ queue_soft[w] # <<>>
        /\ pc' = [pc EXCEPT ![w] = "takeHard"]
        /\ UNCHANGED work_state
  /\ UNCHANGED <<queue_hard, queue_soft, is_running, task, callerVars,
                 stealVars, periodic, history>>

Sleep(w) ==
  /\ pc[w] = "toWait"
  /\ pc' = [pc EXCEPT ![w] = "asleep"]
  /\ UNCHANGED <<queue_hard, queue_soft, is_running, work_state, task,
                 callerVars, stealVars, periodic, history>>

\* cv.wait may return without a notification.
SpuriousWakeup(w) ==
  /\ pc[w] = "asleep"
  /\ pc' = [pc EXCEPT ![w] = "takeHard"]
  /\ UNCHANGED <<queue_hard, queue_soft, is_running, work_state, task,
                 callerVars, stealVars, periodic, history>>

\* Mutant: the front is copied and not popped.
DequeueHardNoPop(w) ==
  /\ pc[w] = "takeHard"
  /\ \/ /\ queue_hard[w] # <<>>
        /\ task' = [task EXCEPT ![w] = Head(queue_hard[w])]
        /\ pc' = [pc EXCEPT ![w] = "run"]
     \/ /\ queue_hard[w] = <<>>
        /\ pc' = [pc EXCEPT ![w] = "takeSoft"]
        /\ UNCHANGED task
  /\ UNCHANGED <<queue_hard, queue_soft, is_running, work_state, callerVars,
                 stealVars, periodic, history>>

DequeueHard(w) ==
  /\ pc[w] = "takeHard"
  /\ \/ /\ queue_hard[w] # <<>>
        /\ task' = [task EXCEPT ![w] = Head(queue_hard[w])]
        /\ queue_hard' = [queue_hard EXCEPT ![w] = Tail(@)]
        /\ pc' = [pc EXCEPT ![w] = "run"]
     \/ /\ queue_hard[w] = <<>>
        /\ pc' = [pc EXCEPT ![w] = "takeSoft"]
        /\ UNCHANGED <<task, queue_hard>>
  /\ UNCHANGED <<queue_soft, is_running, work_state, callerVars, stealVars,
                 periodic, history>>

Waiting(t, q) == \E i \in DOMAIN q : q[i] = t

DequeueSoft(w) ==
  /\ pc[w] = "takeSoft"
  /\ \/ /\ queue_soft[w] # <<>>
        /\ task' = [task EXCEPT ![w] = Head(queue_soft[w])]
        /\ queue_soft' = [queue_soft EXCEPT ![w] = Tail(@)]
        /\ pc' = [pc EXCEPT ![w] = "run"]
        /\ overtaken' = [t \in Tasks |-> IF Waiting(t, queue_hard[w])
                                         THEN overtaken[t] + 1
                                         ELSE overtaken[t]]
     \/ /\ queue_soft[w] = <<>>
        /\ pc' = [pc EXCEPT ![w] = "loop"]
        /\ UNCHANGED <<task, queue_soft, overtaken>>
  /\ UNCHANGED <<queue_hard, is_running, work_state, callerVars, stealVars,
                 periodic, runs>>

StartTask(w) ==
  /\ pc[w] = "run"
  /\ pc' = [pc EXCEPT ![w] = "running"]
  /\ work_state' = [work_state EXCEPT ![w] = "RUNNING"]
  /\ UNCHANGED <<queue_hard, queue_soft, is_running, task, callerVars,
                 stealVars, periodic, history>>

\* task() returns; cv.notify_all finds nobody asleep, the worker's thread
\* being the only one that waits on its cv.
FinishTask(w) ==
  /\ pc[w] = "running"
  /\ pc' = [pc EXCEPT ![w] = "loop"]
  /\ runs' = [runs EXCEPT ![task[w]] = @ + 1]
  /\ task' = [task EXCEPT ![w] = NoTask]
  /\ UNCHANGED <<queue_hard, queue_soft, is_running, work_state, callerVars,
                 stealVars, periodic, overtaken>>

-----------------------------------------------------------------------------
(* The caller: Worker::submit_task and Scheduler::shutdown *)

Enqueue(w, t, hard) ==
  \/ /\ hard
     /\ queue_hard' = [queue_hard EXCEPT ![w] = Append(@, t)]
     /\ UNCHANGED queue_soft
  \/ /\ ~hard
     /\ queue_soft' = [queue_soft EXCEPT ![w] = Append(@, t)]
     /\ UNCHANGED queue_hard

SubmitEnqueue(w, t, hard) ==
  /\ cpc = "ready"
  /\ t \in unsent
  /\ Enqueue(w, t, hard)
  /\ unsent' = unsent \ {t}
  /\ target' = w
  /\ cpc' = "notify"
  /\ UNCHANGED <<is_running, work_state, pc, task, stealVars, periodic,
                 history>>

SubmitNotify ==
  /\ cpc = "notify"
  /\ NotifyAll(target)
  /\ cpc' = "ready"
  /\ UNCHANGED <<queue_hard, queue_soft, is_running, work_state, task, target,
                 unsent, stealVars, periodic, history>>

ShutdownBegin ==
  /\ cpc = "ready"
  /\ periodic' = FALSE
  /\ target' = 0
  /\ cpc' = "flag"
  /\ UNCHANGED <<workerVars, unsent, stealVars, history>>

ShutdownFlag ==
  /\ cpc = "flag"
  /\ is_running' = [is_running EXCEPT ![target] = FALSE]
  /\ cpc' = "wake"
  /\ UNCHANGED <<queue_hard, queue_soft, work_state, pc, task, target, unsent,
                 stealVars, periodic, history>>

ShutdownNotify ==
  /\ cpc = "wake"
  /\ NotifyAll(target)
  /\ cpc' = "join"
  /\ UNCHANGED <<queue_hard, queue_soft, is_running, work_state, task, target,
                 unsent, stealVars, periodic, history>>

\* Mutants: one worker too many is visited; the thread is not joined.
ShutdownJoinPastEnd ==
  /\ cpc = "join"
  /\ pc[target] = "dead"
  /\ \/ /\ target < NumWorkers
        /\ target' = target + 1
        /\ cpc' = "flag"
     \/ /\ target = NumWorkers
        /\ cpc' = "returned"
        /\ UNCHANGED target
  /\ UNCHANGED <<workerVars, unsent, stealVars, periodic, history>>

ShutdownNoJoin ==
  /\ cpc = "join"
  /\ \/ /\ target + 1 < NumWorkers
        /\ target' = target + 1
        /\ cpc' = "flag"
     \/ /\ target + 1 = NumWorkers
        /\ cpc' = "returned"
        /\ UNCHANGED target
  /\ UNCHANGED <<workerVars, unsent, stealVars, periodic, history>>

ShutdownJoin ==
  /\ cpc = "join"
  /\ pc[target] = "dead"
  /\ \/ /\ target + 1 < NumWorkers
        /\ target' = target + 1
        /\ cpc' = "flag"
     \/ /\ target + 1 = NumWorkers
        /\ cpc' = "returned"
        /\ UNCHANGED target
  /\ UNCHANGED <<workerVars, unsent, stealVars, periodic, history>>

-----------------------------------------------------------------------------
(* Scheduler::periodic_check_soft_task_queue_per_running_worker *)

NextVisit ==
  \/ /\ si + 1 < NumWorkers
     /\ si' = si + 1
     /\ spc' = "visit"
  \/ /\ si + 1 = NumWorkers
     /\ si' = 0
     /\ spc' = "tick"

Tick ==
  /\ spc = "tick"
  /\ spc' = IF periodic THEN "visit" ELSE "ended"
  /\ UNCHANGED <<workerVars, callerVars, si, stolen, idle_workers, periodic,
                 history>>

\* READY and DEAD, no idle worker on record, or not more than the threshold.
VisitNothing ==
  /\ spc = "visit"
  /\ \/ work_state[si] \in {"READY", "DEAD"}
     \/ /\ work_state[si] = "RUNNING"
        /\ \/ idle_workers = <<>>
           \/ Len(queue_soft[si]) <= StealThreshold
  /\ NextVisit
  /\ UNCHANGED <<workerVars, callerVars, stolen, idle_workers, periodic,
                 history>>

VisitIdle ==
  /\ spc = "visit"
  /\ work_state[si] = "IDLE"
  /\ Len(idle_workers) < MaxIdle
  /\ idle_workers' = Append(idle_workers, si)
  /\ NextVisit
  /\ UNCHANGED <<workerVars, callerVars, stolen, periodic, history>>

VisitBusy ==
  /\ spc = "visit"
  /\ work_state[si] = "RUNNING"
  /\ idle_workers # <<>>
  /\ Len(queue_soft[si]) > StealThreshold
  /\ spc' = "steal"
  /\ UNCHANGED <<workerVars, callerVars, si, stolen, idle_workers, periodic,
                 history>>

\* Mutant: the task is copied from the queue and stays in it.
StealCopy ==
  /\ spc = "steal"
  /\ \/ /\ queue_soft[si] # <<>>
        /\ stolen' = Head(queue_soft[si])
        /\ spc' = "move"
        /\ UNCHANGED si
     \/ /\ queue_soft[si] = <<>>
        /\ NextVisit
        /\ UNCHANGED stolen
  /\ UNCHANGED <<queue_hard, queue_soft, is_running, work_state, pc, task,
                 callerVars, idle_workers, periodic, history>>

\* The size was read before: the worker may have emptied the queue since.
StealDequeue ==
  /\ spc = "steal"
  /\ \/ /\ queue_soft[si] # <<>>
        /\ stolen' = Head(queue_soft[si])
        /\ queue_soft' = [queue_soft EXCEPT ![si] = Tail(@)]
        /\ spc' = "move"
        /\ UNCHANGED si
     \/ /\ queue_soft[si] = <<>>
        /\ NextVisit
        /\ UNCHANGED <<stolen, queue_soft>>
  /\ UNCHANGED <<queue_hard, is_running, work_state, pc, task, callerVars,
                 idle_workers, periodic, history>>

\* submit_task(task, worker_id, true); worker_id, popped from idle_workers,
\* is kept at its head until the call returns (no other thread looks there).
StealMove ==
  /\ spc = "move"
  /\ Enqueue(Head(idle_workers), stolen, TRUE)
  /\ stolen' = NoTask
  /\ spc' = "tell"
  /\ UNCHANGED <<is_running, work_state, pc, task, callerVars, si,
                 idle_workers, periodic, history>>

StealNotify ==
  /\ spc = "tell"
  /\ NotifyAll(Head(idle_workers))
  /\ idle_workers' = Tail(idle_workers)
  /\ NextVisit
  /\ UNCHANGED <<queue_hard, queue_soft, is_running, work_state, task,
                 callerVars, stolen, periodic, history>>

-----------------------------------------------------------------------------
WorkerStep(w) ==
  \/ TestRunning(w) \/ CheckHard(w) \/ CheckSoft(w) \/ Sleep(w)
  \/ DequeueHard(w) \/ DequeueSoft(w) \/ StartTask(w) \/ FinishTask(w)

ShutdownStep ==
  ShutdownFlag \/ ShutdownNotify \/ ShutdownJoin

StealStep ==
  \/ Tick \/ VisitNothing \/ VisitIdle \/ VisitBusy
  \/ StealDequeue \/ StealMove \/ StealNotify

Next ==
  \/ \E w \in Workers : WorkerStep(w) \/ SpuriousWakeup(w)
  \/ \E w \in Workers, t \in Tasks, hard \in BOOLEAN :
       SubmitEnqueue(w, t, hard)
  \/ SubmitNotify
  \/ ShutdownBegin \/ ShutdownStep
  \/ StealStep

Spec == Init /\ [][Next]_vars

(***************************************************************************)
(* The operating system runs every thread that can run.  A caller need     *)
(* never submit or shut down, but finishes the call it has begun; cv.wait  *)
(* need never return on its own.                                           *)
(***************************************************************************)
FairSpec ==
  /\ Spec
  /\ \A w \in Workers : WF_vars(WorkerStep(w))
  /\ WF_vars(SubmitNotify)
  /\ WF_vars(ShutdownStep)
  /\ WF_vars(StealStep)

-----------------------------------------------------------------------------
(* Every variable has the type its declaration gives it. *)
TypeOK ==
  /\ queue_hard \in [Workers -> Seq(Tasks)]
  /\ queue_soft \in [Workers -> Seq(Tasks)]
  /\ is_running \in [Workers -> BOOLEAN]
  /\ work_state \in [Workers -> States]
  /\ pc \in [Workers -> WorkerPCs]
  /\ task \in [Workers -> Tasks \cup {NoTask}]
  /\ periodic \in BOOLEAN
  /\ idle_workers \in Seq(Workers)
  /\ cpc \in {"ready", "notify", "flag", "wake", "join", "returned"}
  /\ target \in Workers
  /\ unsent \subseteq Tasks
  /\ spc \in {"tick", "visit", "steal", "move", "tell", "ended"}
  /\ si \in Workers
  /\ stolen \in Tasks \cup {NoTask}
  /\ runs \in [Tasks -> Nat]
  /\ overtaken \in [Tasks -> Nat]

Distinct(q) == \A i, j \in DOMAIN q : q[i] = q[j] => i = j

(* Where a task can be: with the caller, in one of a worker's queues, in a *)
(* worker's hand, in the periodic thread's hand, or completed.             *)
Places ==
  {"unsent", "stolen", "done"} \X {0} \cup {"hard", "soft", "held"} \X Workers

HeldAt(t, p) ==
  \/ p[1] = "unsent" /\ t \in unsent
  \/ p[1] = "stolen" /\ stolen = t
  \/ p[1] = "done" /\ runs[t] > 0
  \/ p[1] = "hard" /\ Waiting(t, queue_hard[p[2]])
  \/ p[1] = "soft" /\ Waiting(t, queue_soft[p[2]])
  \/ p[1] = "held" /\ task[p[2]] = t

(* No task is lost or duplicated between submit_task, the two queues, the  *)
(* worker's local variable and the periodic thread that moves soft tasks:  *)
(* a task is in exactly one of them, and its body has completed at most    *)
(* once (SafeQueue::enqueue and dequeue, Worker::work, submit_task).       *)
TaskInOnePlace ==
  /\ \A w \in Workers : Distinct(queue_hard[w]) /\ Distinct(queue_soft[w])
  /\ \A t \in Tasks :
       /\ runs[t] <= 1
       /\ \E p \in Places : HeldAt(t, p)
       /\ \A p, q \in Places : HeldAt(t, p) /\ HeldAt(t, q) => p = q

(* Worker::work prefers hard tasks, but dequeues from the two queues in    *)
(* two steps: a hard task that arrives between them is overtaken by that   *)
(* one soft task and by no other.                                          *)
BoundedOvertaking == \A t \in Tasks : overtaken[t] <= 1

(* When Scheduler::shutdown has returned, every worker's thread has ended  *)
(* and no task is being executed; while it is at worker i, that is true of *)
(* the workers before i.                                                   *)
JoinedWorkersAreQuiet ==
  \A w \in Workers :
    (cpc = "returned" \/ (cpc \in {"flag", "wake", "join"} /\ w < target))
      => pc[w] = "dead" /\ task[w] = NoTask

(* A worker that is not asleep and not on its way to sleep runs every hard *)
(* task in its queue before it sleeps, unless shutdown ends it first.      *)
AwakeWorkerServes ==
  \A w \in Workers, t \in Tasks :
    (Waiting(t, queue_hard[w]) /\ pc[w] \notin {"checkSoft", "toWait", "asleep"})
      ~> (runs[t] = 1 \/ pc[w] = "dead")

(* submit_task's cv.notify_all "tells the worker's thread that there is a  *)
(* new task": a submitted task is run, as long as nobody shuts down.       *)
SubmittedTaskRuns ==
  \A t \in Tasks : (t \notin unsent) ~> (runs[t] = 1 \/ ~periodic)

(* The abstract pool: a task waits until the worker has begun its body.    *)
Executing(t) == \E w \in Workers : pc[w] = "running" /\ task[w] = t

poolStatus ==
  [t \in Tasks |-> IF t \in unsent THEN "new"
                   ELSE IF runs[t] > 0 THEN "done"
                   ELSE IF Executing(t) THEN "running" ELSE "queued"]
poolCurrent == [w \in Workers |-> IF pc[w] = "running" THEN task[w] ELSE NoTask]
poolStopped == {w \in Workers : pc[w] = "dead"}

Pool == INSTANCE TaskPool WITH
  status <- poolStatus, current <- poolCurrent, stopped <- poolStopped

(* Worker and Scheduler keep the promise of TaskPool. *)
ImplementsTaskPool == Pool!Spec
=============================================================================
