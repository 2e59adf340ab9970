------------------------- MODULE PipelineExecution --------------------------
(***************************************************************************)
(* The execution of a query's pipeline groups: PipelineGroupExecute on the *)
(* caller's thread, PipelineTask and MergeSortTask on the workers, the     *)
(* counter, the event and the barrier in PipelineGroup, and the shutdown   *)
(* with which QueryHandler::Query ends before it reads the result.         *)
(*                                                                         *)
(* The workers are TaskPool (WorkerPool implements it), the barrier of a   *)
(* group is a Rendezvous (Barrier implements it), and a chunk loop is one  *)
(* step.                                                                   *)
(***************************************************************************)
EXTENDS Naturals, Sequences, FiniteSets, SequencesExt

CONSTANTS
  Groups, Root,
  Deps,         \* PipelineGroup::dependencies
  Partitions,   \* per group that scans a table: the partitions with data
  Sink,         \* what the sink does with the final chunk
  Parallelism,  \* the number of pipelines of every group
  Workers,
  NoGroup, NoTask

IsScan(g) == Partitions[g] # <<>>
SinkKinds == {"plain", "aggregate", "order"}

-----------------------------------------------------------------------------
(* traverse_plan and plan_dfs: the groups in the order they are pushed. *)
Preorder[g \in Groups] ==
  <<g>> \o FlattenSeq([i \in 1 .. Len(Deps[g]) |-> Preorder[Deps[g][i]]])

traverse_plan == Preorder[Root]

(* The plan is a tree whose leaves scan tables; the groups have the same   *)
(* number of pipelines ("at present all pipeline tasks have one common     *)
(* parallelism", Pipeline::Initialize), each on a worker of its own; work_id *)
(* is 0, a worker that is always there, until Initialize sets it.          *)
ASSUME PlanAssumption ==
  /\ Parallelism \in Nat \ {0}
  /\ 0 \in Workers
  /\ NoTask \notin Groups \X Nat
  /\ Root \in Groups /\ NoGroup \notin Groups
  /\ Deps \in [Groups -> Seq(Groups)]
  /\ Partitions \in [Groups -> Seq(Workers)]
  /\ Sink \in [Groups -> SinkKinds]
  /\ \A g \in Groups : IsScan(g) \/ Deps[g] # <<>>
  /\ \A g \in Groups : IsScan(g) => Len(Partitions[g]) = Parallelism
  /\ \A g \in Groups : \A i, j \in 1 .. Len(Partitions[g]) :
       Partitions[g][i] = Partitions[g][j] => i = j

ASSUME StackAssumption ==
  /\ traverse_plan \in Seq(Groups)
  /\ \A g \in Groups : \E i \in 1 .. Len(traverse_plan) : traverse_plan[i] = g
  /\ \A i, j \in 1 .. Len(traverse_plan) :
       traverse_plan[i] = traverse_plan[j] => i = j
  /\ \A i, j \in 1 .. Len(traverse_plan) :
       (\E k \in 1 .. Len(Deps[traverse_plan[i]]) :
          Deps[traverse_plan[i]][k] = traverse_plan[j]) => i < j

\* Pipeline i of a group, and the group's merge-sort task.
Index == 0 .. Parallelism - 1
PipelineTasks == Groups \X Index
SortTasks == Groups \X {Parallelism}
Tasks == PipelineTasks \cup SortTasks
SortTask(g) == <<g, Parallelism>>

VARIABLES
  pipe_stack, node, epc, sent,     \* the executor
  parallelism, work_id,            \* set by PipelineGroup::Initialize
  comlete_pipe, event, extra_task, \* fields of the groups
  arrived,                         \* pipelines at or past their barrier
  step,                            \* per task, its position in operator()
  output,                          \* per pipeline, how far its sink state is
  status, current, stopped         \* the worker pool

executorVars == <<pipe_stack, node, epc, sent>>
groupVars == <<parallelism, work_id, comlete_pipe, event, extra_task, arrived>>
taskVars == <<step, output>>
poolVars == <<status, current, stopped>>
vars == <<executorVars, groupVars, taskVars, poolVars>>

Pool == INSTANCE TaskPool

Init ==
  /\ pipe_stack = traverse_plan
  /\ node = NoGroup
  /\ epc = "next"
  /\ sent = 0
  /\ parallelism = [g \in Groups |-> 1]
  /\ work_id = [t \in Tasks |-> 0]
  /\ comlete_pipe = [g \in Groups |-> 0]
  /\ event = [g \in Groups |-> "Invalid"]
  /\ extra_task = [g \in Groups |-> FALSE]
  /\ arrived = {}
  /\ step = [t \in Tasks |-> "body"]
  /\ output = [t \in PipelineTasks |-> "none"]
  /\ Pool!Init

is_finish(g) == comlete_pipe[g] = parallelism[g]

\* cv_.notify_one: it reaches the executor only if it is asleep.
NotifyExecutor ==
  epc' = CASE epc = "asleep" -> "test"
           [] epc = "asleepSort" -> "testSort"
           [] OTHER -> epc

-----------------------------------------------------------------------------
(* PipelineGroupExecute::execute, on the caller's thread *)

\* Mutant: every pipeline is put on the worker of the first one.
InitializeOnOneWorker(g) ==
  LET p == IF IsScan(g) THEN Len(Partitions[g]) ELSE parallelism[Deps[g][1]]
      first == IF IsScan(g) THEN Partitions[g][1] ELSE work_id[<<Deps[g][1], 0>>]
  IN  /\ parallelism' = [parallelism EXCEPT ![g] = p]
      /\ work_id' = [t \in Tasks |-> IF t[1] = g THEN first ELSE work_id[t]]

(* PipelineGroup::Initialize: a scan gets one pipeline per partition, on   *)
(* the partition's worker; any other group takes number and workers from   *)
(* its first dependency.                                                   *)
InitializeGroup(g) ==
  LET p == IF IsScan(g) THEN Len(Partitions[g]) ELSE parallelism[Deps[g][1]]
      worker(i) == IF IsScan(g) THEN Partitions[g][i + 1]
                                ELSE work_id[<<Deps[g][1], i>>]
  IN  /\ parallelism' = [parallelism EXCEPT ![g] = p]
      /\ work_id' = [t \in Tasks |->
                       IF t[1] # g THEN work_id[t]
                       ELSE IF t[2] = Parallelism THEN worker(0)
                       ELSE worker(t[2])]

\* Mutant: the plan is executed from its root down.
PopOldestGroup ==
  /\ epc = "next"
  /\ pipe_stack # <<>>
  /\ node' = Head(pipe_stack)
  /\ pipe_stack' = Tail(pipe_stack)
  /\ InitializeGroup(Head(pipe_stack))
  /\ sent' = 0
  /\ epc' = "submit"
  /\ UNCHANGED <<comlete_pipe, event, extra_task, arrived, taskVars, poolVars>>

PopGroup ==
  /\ epc = "next"
  /\ pipe_stack # <<>>
  /\ node' = Last(pipe_stack)
  /\ pipe_stack' = Front(pipe_stack)
  /\ InitializeGroup(Last(pipe_stack))
  /\ sent' = 0
  /\ epc' = "submit"
  /\ UNCHANGED <<comlete_pipe, event, extra_task, arrived, taskVars, poolVars>>

SubmitPipeline ==
  /\ epc = "submit"
  /\ sent < parallelism[node]
  /\ Pool!Submit(<<node, sent>>)
  /\ sent' = sent + 1
  /\ epc' = IF sent + 1 = parallelism[node] THEN "test" ELSE "submit"
  /\ UNCHANGED <<pipe_stack, node, groupVars, taskVars>>

\* Mutant: the first pipeline to complete lets the executor go on.
TestFirstFinish ==
  /\ epc = "test"
  /\ epc' = IF comlete_pipe[node] > 0 THEN "event" ELSE "toWait"
  /\ UNCHANGED <<pipe_stack, node, sent, groupVars, taskVars, poolVars>>

\* cv_.wait(lock, is_finish): no notifier takes lock_, so the test and the
\* sleep are two steps.
TestFinish ==
  /\ epc = "test"
  /\ epc' = IF is_finish(node) THEN "event" ELSE "toWait"
  /\ UNCHANGED <<pipe_stack, node, sent, groupVars, taskVars, poolVars>>

SleepFinish ==
  /\ epc = "toWait"
  /\ epc' = "asleep"
  /\ UNCHANGED <<pipe_stack, node, sent, groupVars, taskVars, poolVars>>

NoEvent ==
  /\ epc = "event"
  /\ event[node] = "Invalid"
  /\ epc' = "next"
  /\ UNCHANGED <<pipe_stack, node, sent, groupVars, taskVars, poolVars>>

SubmitSort ==
  /\ epc = "event"
  /\ event[node] = "MergeSortTask"
  /\ Pool!Submit(SortTask(node))
  /\ epc' = "testSort"
  /\ UNCHANGED <<pipe_stack, node, sent, groupVars, taskVars>>

\* Mutant: the executor does not wait for the merge-sort task.
TestSortNot ==
  /\ epc = "testSort"
  /\ epc' = IF node \in Groups THEN "next" ELSE "toWaitSort"
  /\ UNCHANGED <<pipe_stack, node, sent, groupVars, taskVars, poolVars>>

TestSort ==
  /\ epc = "testSort"
  /\ epc' = IF extra_task[node] THEN "next" ELSE "toWaitSort"
  /\ UNCHANGED <<pipe_stack, node, sent, groupVars, taskVars, poolVars>>

SleepSort ==
  /\ epc = "toWaitSort"
  /\ epc' = "asleepSort"
  /\ UNCHANGED <<pipe_stack, node, sent, groupVars, taskVars, poolVars>>

SpuriousWakeup ==
  /\ epc \in {"asleep", "asleepSort"}
  /\ NotifyExecutor
  /\ UNCHANGED <<pipe_stack, node, sent, groupVars, taskVars, poolVars>>

\* execute() returns; QueryHandler::Query shuts the scheduler down.
ExecuteReturns ==
  /\ epc = "next"
  /\ pipe_stack = <<>>
  /\ epc' = "shutdown"
  /\ UNCHANGED <<pipe_stack, node, sent, groupVars, taskVars, poolVars>>

StopWorker(w) ==
  /\ epc = "shutdown"
  /\ w \notin stopped
  /\ Pool!Stop(w)
  /\ UNCHANGED <<executorVars, groupVars, taskVars>>

ReadResult ==
  /\ epc = "shutdown"
  /\ stopped = Workers
  /\ epc' = "result"
  /\ UNCHANGED <<pipe_stack, node, sent, groupVars, taskVars, poolVars>>

-----------------------------------------------------------------------------
(* PipelineTask::operator() and MergeSortTask::operator(), on the workers *)

TakeTask(t) ==
  /\ Pool!Start(work_id[t], t)
  /\ UNCHANGED <<executorVars, groupVars, taskVars>>

Running(t) == status[t] = "running"

\* execute_pipeline up to the sink of the final chunk.
ExecuteChunks(t) ==
  /\ Running(t) /\ t \in PipelineTasks
  /\ step[t] = "body"
  /\ step' = [step EXCEPT ![t] = IF Sink[t[1]] = "plain" THEN "count" ELSE "wait"]
  /\ output' = [output EXCEPT ![t] = IF Sink[t[1]] = "plain" THEN "final" ELSE "local"]
  /\ UNCHANGED <<executorVars, groupVars, poolVars>>

\* get_barrier()->wait() is called; ORDER_BY has registered its event before.
ReachBarrier(t) ==
  /\ Running(t)
  /\ step[t] = "wait"
  /\ arrived' = arrived \cup {t}
  /\ event' = IF Sink[t[1]] = "order" THEN [event EXCEPT ![t[1]] = "MergeSortTask"]
                                      ELSE event
  /\ step' = [step EXCEPT ![t] = "inBarrier"]
  /\ UNCHANGED <<executorVars, parallelism, work_id, comlete_pipe, extra_task,
                 output, poolVars>>

\* Mutant: the barrier was made for one pipeline more than the group has.
LeaveBarrierOneMore(t) ==
  /\ Running(t)
  /\ step[t] = "inBarrier"
  /\ \A i \in 0 .. parallelism[t[1]] : <<t[1], i>> \in arrived
  /\ step' = [step EXCEPT ![t] = "second"]
  /\ UNCHANGED <<executorVars, groupVars, output, poolVars>>

\* Mutant: nobody waits at the barrier.
LeaveBarrierAtOnce(t) ==
  /\ Running(t)
  /\ step[t] = "inBarrier"
  /\ step' = [step EXCEPT ![t] = "second"]
  /\ UNCHANGED <<executorVars, groupVars, output, poolVars>>

LeaveBarrier(t) ==
  /\ Running(t)
  /\ step[t] = "inBarrier"
  /\ \A i \in 0 .. parallelism[t[1]] - 1 : <<t[1], i>> \in arrived
  /\ step' = [step EXCEPT ![t] = "second"]
  /\ UNCHANGED <<executorVars, groupVars, output, poolVars>>

\* global_agg over the siblings' tables, or publishing the local sort run.
SecondPhase(t) ==
  /\ Running(t)
  /\ step[t] = "second"
  /\ output' = [output EXCEPT ![t] = "final"]
  /\ step' = [step EXCEPT ![t] = "count"]
  /\ UNCHANGED <<executorVars, groupVars, poolVars>>

\* Mutant: the bound in add_count is off by one.
TestCountOffByOne(t) ==
  /\ Running(t)
  /\ step[t] = "count"
  /\ step' = [step EXCEPT ![t] = IF comlete_pipe[t[1]] + 1 >= parallelism[t[1]] THEN "counted"
                                 ELSE "increment"]
  /\ UNCHANGED <<executorVars, groupVars, output, poolVars>>

\* PipelineGroup::add_count at the end of execute_pipeline: the test, and then the
\* increment, which alone is atomic.
TestCount(t) ==
  /\ Running(t)
  /\ step[t] = "count"
  /\ step' = [step EXCEPT ![t] = IF comlete_pipe[t[1]] >= parallelism[t[1]] THEN "counted"
                                 ELSE "increment"]
  /\ UNCHANGED <<executorVars, groupVars, output, poolVars>>

IncrementCount(t) ==
  /\ Running(t)
  /\ step[t] = "increment"
  /\ comlete_pipe' = [comlete_pipe EXCEPT ![t[1]] = @ + 1]
  /\ step' = [step EXCEPT ![t] = "counted"]
  /\ UNCHANGED <<executorVars, parallelism, work_id, event, extra_task, arrived,
                 output, poolVars>>

\* Every task that finds its group finished notifies, not only the last one.
CheckFinish(t) ==
  /\ Running(t)
  /\ step[t] = "counted"
  /\ step' = [step EXCEPT ![t] = IF is_finish(t[1]) THEN "notify" ELSE "end"]
  /\ UNCHANGED <<executorVars, groupVars, output, poolVars>>

MergeRuns(t) ==
  /\ Running(t) /\ t \in SortTasks
  /\ step[t] = "body"
  /\ extra_task' = [extra_task EXCEPT ![t[1]] = TRUE]
  /\ step' = [step EXCEPT ![t] = "notify"]
  /\ UNCHANGED <<executorVars, parallelism, work_id, comlete_pipe, event, arrived,
                 output, poolVars>>

Notify(t) ==
  /\ Running(t)
  /\ step[t] = "notify"
  /\ NotifyExecutor
  /\ step' = [step EXCEPT ![t] = "end"]
  /\ UNCHANGED <<pipe_stack, node, sent, groupVars, output, poolVars>>

EndTask(t) ==
  /\ Running(t)
  /\ step[t] = "end"
  /\ Pool!Finish(work_id[t])
  /\ UNCHANGED <<executorVars, groupVars, taskVars>>

-----------------------------------------------------------------------------
ExecutorStep ==
  \/ PopGroup \/ SubmitPipeline \/ TestFinish \/ SleepFinish \/ NoEvent
  \/ SubmitSort \/ TestSort \/ SleepSort \/ ExecuteReturns \/ ReadResult
  \/ \E w \in Workers : StopWorker(w)

\* What the thread of a task that was taken does.
RunStep(t) ==
  \/ ExecuteChunks(t) \/ ReachBarrier(t) \/ LeaveBarrier(t) \/ SecondPhase(t)
  \/ TestCount(t) \/ IncrementCount(t) \/ CheckFinish(t) \/ MergeRuns(t)
  \/ Notify(t) \/ EndTask(t)

TaskStep(t) == TakeTask(t) \/ RunStep(t)

Next == ExecutorStep \/ SpuriousWakeup \/ \E t \in Tasks : TaskStep(t)

Spec == Init /\ [][Next]_vars

(* A thread that is in a task goes on.  Nothing is assumed of the executor, *)
(* nor that a queued task is taken: the pool can lose the wake-up.          *)
FairSpec == Spec /\ \A t \in Tasks : WF_vars(RunStep(t))

-----------------------------------------------------------------------------
(* Every variable has the type its declaration gives it. *)
TypeOK ==
  /\ pipe_stack \in Seq(Groups)
  /\ node \in Groups \cup {NoGroup}
  /\ epc \in {"next", "submit", "test", "toWait", "asleep", "event", "testSort",
              "toWaitSort", "asleepSort", "shutdown", "result"}
  /\ sent \in 0 .. Parallelism
  /\ parallelism \in [Groups -> {1, Parallelism}]
  /\ work_id \in [Tasks -> Workers]
  /\ comlete_pipe \in [Groups -> 0 .. Parallelism]
  /\ event \in [Groups -> {"Invalid", "MergeSortTask"}]
  /\ extra_task \in [Groups -> BOOLEAN]
  /\ arrived \subseteq PipelineTasks
  /\ step \in [Tasks -> {"body", "wait", "inBarrier", "second", "count",
                         "increment", "counted", "notify", "end"}]
  /\ output \in [PipelineTasks -> {"none", "local", "final"}]
  /\ status \in [Tasks -> {"new", "queued", "running", "done"}]
  /\ current \in [Workers -> Tasks \cup {NoTask}]
  /\ stopped \subseteq Workers

Past(t) == step[t] \in {"counted", "notify", "end"}

Complete(g) ==
  /\ \A i \in Index : Past(<<g, i>>)
  /\ Sink[g] = "order" => extra_task[g]

(* comlete_pipe counts exactly the pipelines that have returned from       *)
(* add_count, however their tests and increments interleave: none returns  *)
(* at the test, and none increments beyond parallelism.                    *)
CountIsExact ==
  \A g \in Groups : comlete_pipe[g] = Cardinality({i \in Index : Past(<<g, i>>)})

(* A pipeline reads its source and its join tables only when every         *)
(* pipeline of every group it depends on has completed its sink, and an    *)
(* ORDER_BY below it has been merged (execute waits for is_finish and for  *)
(* extra_task before it pops the next group).                              *)
InputsComplete ==
  \A t \in PipelineTasks : status[t] # "new" =>
    \A k \in 1 .. Len(Deps[t[1]]) :
      /\ Complete(Deps[t[1]][k])
      /\ \A i \in Index : output[<<Deps[t[1]][k], i>>] = "final"

(* The second phase of a sink reads the siblings' local state: each has    *)
(* ended its first phase.                                                  *)
SecondPhaseSeesLocals ==
  \A t \in PipelineTasks : step[t] = "second" =>
    \A i \in Index : output[<<t[1], i>>] # "none"

(* The merge sort starts only after every pipeline has published its run   *)
(* in the group's global state.                                            *)
SortSeesAllRuns ==
  \A g \in Groups : status[SortTask(g)] # "new" =>
    \A i \in Index : output[<<g, i>>] = "final"

(* Query stops the workers, which drops what is still queued, only when    *)
(* nothing is; and it reads the result when no task can touch it any more. *)
NothingLeftBehind ==
  /\ epc = "shutdown" => \A t \in Tasks : status[t] # "queued"
  /\ epc = "result" => /\ \A t \in PipelineTasks : status[t] = "done"
                       /\ \A g \in Groups : Complete(g)

(* A pipeline that waits at the barrier never holds the worker of a task   *)
(* that is still queued, so the siblings it waits for can all be taken:    *)
(* Initialize gives the pipelines of a group workers of their own, through *)
(* any chain of groups that inherit them.                                  *)
WaitersBlockNobody ==
  \A t, u \in Tasks :
    Running(t) /\ step[t] = "inBarrier" /\ status[u] = "queued" => work_id[t] # work_id[u]

(* Once the workers have taken all pipelines of a group, they get through  *)
(* the barrier, all of them count, and the group is finished.              *)
GroupCompletes ==
  \A g \in Groups :
    (\A i \in Index : status[<<g, i>>] \in {"running", "done"}) ~> is_finish(g)

Schedule == INSTANCE GroupSchedule WITH
  phase <- [g \in Groups |->
              IF \E i \in 1 .. Len(pipe_stack) : pipe_stack[i] = g THEN "waiting"
              ELSE IF Complete(g) THEN "complete" ELSE "active"]

(* The executor runs the plan as GroupSchedule says. *)
ImplementsGroupSchedule == Schedule!Spec
=============================================================================
