----------------------- MODULE PipelineExecutionProofs ----------------------
(***************************************************************************)
(* For every plan, every number of pipelines and of workers: the executor  *)
(* runs the pipeline groups as GroupSchedule says, no pipeline reads an    *)
(* input that is not complete, no merge sort misses a run, and the query   *)
(* reads its result when no task can touch it any more.                    *)
(***************************************************************************)
EXTENDS PipelineExecution, FiniteSetTheorems, SequenceTheorems, TLAPS

\* The group has not been popped from the stack yet.
Stacked(g) == \E i \in 1 .. Len(pipe_stack) : pipe_stack[i] = g

(* The stack is what is left of the plan, and node is what came off last. *)
StackInv ==
  /\ Len(pipe_stack) <= Len(traverse_plan)
  /\ \A i \in 1 .. Len(pipe_stack) : pipe_stack[i] = traverse_plan[i]
  /\ node = NoGroup => epc = "next" /\ Len(pipe_stack) = Len(traverse_plan)
  /\ node # NoGroup => /\ Len(pipe_stack) < Len(traverse_plan)
                       /\ node = traverse_plan[Len(pipe_stack) + 1]
  /\ epc \in {"shutdown", "result"} => pipe_stack = <<>>

(* What the position of a pipeline task in operator() says. *)
TaskInv ==
  \A t \in PipelineTasks :
    /\ step[t] = "body" => output[t] = "none"
    /\ step[t] \in {"wait", "inBarrier", "second"} =>
         output[t] = "local" /\ Sink[t[1]] # "plain"
    /\ step[t] \in {"count", "increment", "counted", "notify", "end"} => output[t] = "final"
    /\ t \in arrived => output[t] # "none"
    /\ step[t] # "body" => status[t] \in {"running", "done"}
    /\ step[t] = "second" => \A i \in Index : <<t[1], i>> \in arrived
    /\ step[t] \notin {"body", "wait"} /\ Sink[t[1]] = "order" =>
         event[t[1]] = "MergeSortTask"

(* What the position of a merge-sort task says. *)
SortInv ==
  \A g \in Groups :
    /\ step[SortTask(g)] \in {"body", "notify", "end"}
    /\ extra_task[g] <=> step[SortTask(g)] # "body"
    /\ step[SortTask(g)] # "body" => status[SortTask(g)] \in {"running", "done"}
    /\ status[SortTask(g)] # "new" =>
         Sink[g] = "order" /\ \A i \in Index : Past(<<g, i>>)
    /\ event[g] # "Invalid" => Sink[g] = "order"

(* How far the groups are: on the stack, in work, complete. *)
PhaseInv ==
  /\ \A g \in Groups : Stacked(g) =>
       /\ \A i \in Index : status[<<g, i>>] = "new"
       /\ status[SortTask(g)] = "new"
  /\ \A g \in Groups : ~Stacked(g) => parallelism[g] = Parallelism
  /\ \A g \in Groups : ~Stacked(g) /\ g # node => Complete(g)
  /\ epc = "submit" =>
       /\ sent < Parallelism
       /\ \A i \in Index : status[<<node, i>>] = "new" <=> i >= sent
  /\ epc # "submit" /\ node # NoGroup => \A i \in Index : status[<<node, i>>] # "new"
  /\ epc \in {"event", "testSort", "toWaitSort", "asleepSort"} =>
       \A i \in Index : Past(<<node, i>>)
  /\ epc \in {"next", "shutdown", "result"} /\ node # NoGroup => Complete(node)

(* A worker has the task that says it runs there, and no other. *)
PoolInv ==
  /\ \A t \in Tasks : status[t] = "running" => current[work_id[t]] = t
  /\ \A w \in Workers : current[w] # NoTask =>
       status[current[w]] = "running" /\ work_id[current[w]] = w
  /\ \A w \in stopped : current[w] = NoTask
  /\ epc = "result" => stopped = Workers

ExecInv ==
  TypeOK /\ StackInv /\ TaskInv /\ SortInv /\ PhaseInv /\ PoolInv /\ CountIsExact

-----------------------------------------------------------------------------
(* Facts about the constants. *)

LEMMA TaskFacts ==
  /\ \A g \in Groups, i \in Index : /\ <<g, i>> \in PipelineTasks
                                    /\ <<g, i>> \in Tasks
                                    /\ <<g, i>> # SortTask(g)
  /\ \A g \in Groups : /\ SortTask(g) \in Tasks
                       /\ SortTask(g) \in SortTasks
                       /\ SortTask(g) \notin PipelineTasks
                       /\ SortTask(g)[1] = g
  /\ \A t \in Tasks : t[1] \in Groups
  /\ \A t \in PipelineTasks : t[2] \in Index /\ t = <<t[1], t[2]>> /\ t \in Tasks
  /\ \A t \in SortTasks : t = SortTask(t[1]) /\ t \in Tasks /\ t \notin PipelineTasks
  /\ Tasks = PipelineTasks \cup SortTasks
  /\ NoTask \notin Tasks
BY PlanAssumption DEF Tasks, PipelineTasks, SortTasks, SortTask, Index

\* Every group has its place in the plan.
LEMMA Placed ==
  ASSUME NEW g \in Groups
  PROVE  \E i \in 1 .. Len(traverse_plan) : traverse_plan[i] = g
BY StackAssumption

LEMMA PlacedOnce ==
  ASSUME NEW i \in 1 .. Len(traverse_plan), NEW j \in 1 .. Len(traverse_plan),
         traverse_plan[i] = traverse_plan[j]
  PROVE  i = j
BY StackAssumption

LEMMA PlanTypes ==
  /\ traverse_plan \in Seq(Groups)
  /\ Len(traverse_plan) \in Nat
  /\ \A i \in 1 .. Len(traverse_plan) : traverse_plan[i] \in Groups
  /\ \A g \in Groups : /\ Deps[g] \in Seq(Groups)
                        /\ Len(Deps[g]) \in Nat
                        /\ \A k \in 1 .. Len(Deps[g]) : Deps[g][k] \in Groups
<1>1. traverse_plan \in Seq(Groups)
  BY StackAssumption
<1>2. \A g \in Groups : Deps[g] \in Seq(Groups)
  BY PlanAssumption
<1> QED BY <1>1, <1>2

\* Index has Parallelism members.
LEMMA IndexSize ==
  /\ IsFiniteSet(Index)
  /\ Cardinality(Index) = Parallelism
  /\ Index # {}
  /\ 0 \in Index
<1>1. Parallelism \in Nat /\ Parallelism # 0
  BY PlanAssumption
<1>2. 0 \in Index
  BY <1>1 DEF Index
<1>3. IsFiniteSet(Index) /\ Cardinality(Index) = Parallelism
  <2>1. 0 \in Int /\ Parallelism - 1 \in Int /\ 0 <= Parallelism - 1
    BY <1>1
  <2>2. /\ IsFiniteSet(0 .. (Parallelism - 1))
        /\ Cardinality(0 .. (Parallelism - 1)) = (Parallelism - 1) - 0 + 1
    BY <2>1, FS_Interval
  <2> QED BY <1>1, <2>2 DEF Index
<1> QED
  BY <1>2, <1>3

\* A dependency lies deeper in the plan than the group that has it.
LEMMA DepsDeeper ==
  ASSUME NEW i \in 1 .. Len(traverse_plan), NEW g \in Groups, g = traverse_plan[i],
         NEW k \in 1 .. Len(Deps[g]), NEW j \in 1 .. Len(traverse_plan),
         Deps[g][k] = traverse_plan[j]
  PROVE  i < j
BY StackAssumption

-----------------------------------------------------------------------------
(* What every step but PopGroup leaves alone. *)

KeepsStack == UNCHANGED <<pipe_stack, node, parallelism, work_id>>

LEMMA StackedKept ==
  ASSUME KeepsStack, NEW g
  PROVE  Stacked(g)' <=> Stacked(g)
BY DEF KeepsStack, Stacked

LEMMA OnlyPopTakes ==
  ASSUME [Next]_vars
  PROVE  PopGroup \/ KeepsStack
<1> USE DEF KeepsStack, executorVars, groupVars, taskVars, poolVars, vars
<1>1. CASE UNCHANGED vars
  BY <1>1
<1>2. CASE SubmitPipeline \/ TestFinish \/ SleepFinish \/ NoEvent \/ SubmitSort
           \/ TestSort \/ SleepSort \/ ExecuteReturns \/ ReadResult \/ SpuriousWakeup
  BY <1>2 DEF SubmitPipeline, TestFinish, SleepFinish, NoEvent, SubmitSort,
     TestSort, SleepSort, ExecuteReturns, ReadResult, SpuriousWakeup
<1>3. ASSUME NEW w \in Workers, StopWorker(w) PROVE KeepsStack
  BY <1>3 DEF StopWorker
<1>4. ASSUME NEW t \in Tasks, TaskStep(t) PROVE KeepsStack
  BY <1>4 DEF TaskStep, RunStep, TakeTask, ExecuteChunks, ReachBarrier, LeaveBarrier,
     SecondPhase, TestCount, IncrementCount, CheckFinish, MergeRuns, Notify, EndTask
<1> QED
  BY <1>1, <1>2, <1>3, <1>4 DEF Next, ExecutorStep

-----------------------------------------------------------------------------
(* PopGroup *)

LEMMA PopFacts ==
  ASSUME ExecInv, PopGroup
  PROVE  /\ node' \in Groups
         /\ Len(pipe_stack) \in 1 .. Len(traverse_plan)
         /\ node' = traverse_plan[Len(pipe_stack)]
         /\ pipe_stack' \in Seq(Groups)
         /\ Len(pipe_stack') = Len(pipe_stack) - 1
         /\ \A i \in 1 .. Len(pipe_stack') : pipe_stack'[i] = pipe_stack[i]
         /\ node' = pipe_stack[Len(pipe_stack)]
<1>1. /\ pipe_stack \in Seq(Groups) /\ pipe_stack # <<>>
      /\ node' = pipe_stack[Len(pipe_stack)]
      /\ pipe_stack' = SubSeq(pipe_stack, 1, Len(pipe_stack) - 1)
  BY DEF ExecInv, TypeOK, PopGroup, Last, Front
<1>2. Len(pipe_stack) \in Nat \ {0} /\ Len(traverse_plan) \in Nat
  BY <1>1, PlanTypes
<1>3. /\ pipe_stack' \in Seq(Groups)
      /\ Len(pipe_stack') = Len(pipe_stack) - 1
      /\ \A i \in 1 .. Len(pipe_stack') : pipe_stack'[i] = pipe_stack[i]
  <2> DEFINE s == pipe_stack  n == Len(pipe_stack) - 1
  <2>1. n \in Nat /\ 1 \in Int /\ n \in Int
    BY <1>2
  <2>2. \A i \in 1 .. n : s[i] \in Groups
    BY <1>1, <1>2
  <2>3. /\ SubSeq(s, 1, n) \in Seq(Groups)
        /\ Len(SubSeq(s, 1, n)) = IF 1 <= n THEN n - 1 + 1 ELSE 0
        /\ \A i \in 1 .. n - 1 + 1 : SubSeq(s, 1, n)[i] = s[1 + i - 1]
    <3> HIDE DEF s, n
    <3> QED BY <2>1, <2>2, SubSeqProperties
  <2>4. Len(SubSeq(s, 1, n)) = n
    <3> HIDE DEF s, n
    <3>1. CASE 1 <= n
      BY <2>1, <2>3, <3>1
    <3>2. CASE ~(1 <= n)
      BY <2>1, <2>3, <3>2
    <3> QED BY <3>1, <3>2
  <2>5. \A i \in 1 .. n : i \in 1 .. n - 1 + 1 /\ 1 + i - 1 = i
    BY <2>1
  <2> QED BY <1>1, <2>3, <2>4, <2>5
<1>4. Len(pipe_stack) \in 1 .. Len(traverse_plan)
  BY <1>2 DEF ExecInv, StackInv
<1>5. node' = traverse_plan[Len(pipe_stack)] /\ node' \in Groups
  BY <1>1, <1>2, <1>4 DEF ExecInv, StackInv
<1> QED
  BY <1>1, <1>3, <1>4, <1>5

\* The group that is popped is the only one that leaves the stack.
LEMMA PopStacked ==
  ASSUME ExecInv, PopGroup, NEW g \in Groups
  PROVE  /\ Stacked(node')
         /\ Stacked(g)' <=> Stacked(g) /\ g # node'
<1>1. /\ Len(pipe_stack) \in 1 .. Len(traverse_plan)
      /\ Len(pipe_stack') = Len(pipe_stack) - 1
      /\ \A i \in 1 .. Len(pipe_stack') : pipe_stack'[i] = pipe_stack[i]
      /\ node' = pipe_stack[Len(pipe_stack)]
      /\ node' = traverse_plan[Len(pipe_stack)]
  BY PopFacts
<1>2. Len(traverse_plan) \in Nat /\ Len(pipe_stack) \in Nat
  BY PlanTypes, <1>1
<1>3. \A i \in 1 .. Len(pipe_stack) : pipe_stack[i] = traverse_plan[i]
  BY DEF ExecInv, StackInv
<1>4. Stacked(node')
  <2>1. Len(pipe_stack) \in 1 .. Len(pipe_stack)
    BY <1>1, <1>2
  <2> QED BY <1>1, <2>1 DEF Stacked
<1>5. ASSUME Stacked(g)' PROVE Stacked(g) /\ g # node'
  <2>1. PICK i \in 1 .. Len(pipe_stack') : pipe_stack'[i] = g
    BY <1>5 DEF Stacked
  <2>2. i \in 1 .. Len(pipe_stack) /\ i # Len(pipe_stack) /\ pipe_stack[i] = g
    BY <1>1, <1>2, <2>1
  <2>3. i \in 1 .. Len(traverse_plan) /\ traverse_plan[i] = g
    BY <1>1, <1>2, <1>3, <2>2
  <2>4. g # node'
    BY <1>1, <2>2, <2>3, PlacedOnce
  <2> QED BY <2>2, <2>4 DEF Stacked
<1>6. ASSUME Stacked(g), g # node' PROVE Stacked(g)'
  <2>1. PICK i \in 1 .. Len(pipe_stack) : pipe_stack[i] = g
    BY <1>6 DEF Stacked
  <2>2. i # Len(pipe_stack)
    BY <1>1, <1>6, <2>1
  <2>3. i \in 1 .. Len(pipe_stack')
    BY <1>1, <1>2, <2>1, <2>2
  <2> QED BY <1>1, <2>1, <2>3 DEF Stacked
<1> QED BY <1>4, <1>5, <1>6

\* What a group depends on has been popped before it, and is not in work.
LEMMA DepsPopped ==
  ASSUME ExecInv, NEW n \in 1 .. Len(traverse_plan), Len(pipe_stack) <= n,
         NEW k \in 1 .. Len(Deps[traverse_plan[n]])
  PROVE  LET d == Deps[traverse_plan[n]][k]
         IN  d \in Groups /\ ~Stacked(d) /\ d # traverse_plan[n]
             /\ (node # NoGroup /\ Len(pipe_stack) + 1 <= n => d # node)
<1> DEFINE g == traverse_plan[n]  d == Deps[g][k]
<1>1. g \in Groups /\ Deps[g] \in Seq(Groups) /\ d \in Groups
  BY PlanTypes
<1>2. PICK j \in 1 .. Len(traverse_plan) : traverse_plan[j] = d
  BY <1>1, Placed
<1>3. n < j
  BY <1>1, <1>2, DepsDeeper
<1>4. Len(pipe_stack) \in Nat /\ Len(traverse_plan) \in Nat
  <2>1. pipe_stack \in Seq(Groups)
    BY DEF ExecInv, TypeOK
  <2> QED BY <2>1, PlanTypes
<1>5. ~Stacked(d)
  <2> SUFFICES ASSUME NEW i \in 1 .. Len(pipe_stack), pipe_stack[i] = d PROVE FALSE
    BY DEF Stacked
  <2>1. i \in 1 .. Len(traverse_plan) /\ traverse_plan[i] = d
    BY <1>4 DEF ExecInv, StackInv
  <2>2. i = j
    BY <1>2, <2>1, PlacedOnce
  <2> QED BY <1>3, <1>4, <2>2
<1>6. d # g
  <2>1. n # j
    BY <1>3, <1>4
  <2> QED BY <1>2, <2>1, PlacedOnce
<1>7. ASSUME node # NoGroup, Len(pipe_stack) + 1 <= n PROVE d # node
  <2>1. /\ node = traverse_plan[Len(pipe_stack) + 1]
        /\ Len(pipe_stack) + 1 \in 1 .. Len(traverse_plan)
    BY <1>4, <1>7 DEF ExecInv, StackInv
  <2>2. Len(pipe_stack) + 1 # j
    BY <1>3, <1>4, <1>7
  <2> QED BY <1>2, <2>1, <2>2, PlacedOnce
<1> QED BY <1>1, <1>5, <1>6, <1>7

\* PipelineGroup::Initialize gives the group its pipelines, each on a worker.
LEMMA PopInitializes ==
  ASSUME ExecInv, PopGroup
  PROVE  /\ parallelism' = [parallelism EXCEPT ![node'] = Parallelism]
         /\ work_id' \in [Tasks -> Workers]
         /\ \A t \in Tasks : t[1] # node' => work_id'[t] = work_id[t]
<1> DEFINE g == node'
<1>1. /\ g \in Groups /\ Len(pipe_stack) \in 1 .. Len(traverse_plan)
      /\ g = traverse_plan[Len(pipe_stack)]
      /\ g = pipe_stack[Len(pipe_stack)]
  BY PopFacts
<1>2. InitializeGroup(g)
  BY <1>1 DEF PopGroup, Last
<1>3. work_id \in [Tasks -> Workers] /\ Parallelism \in Nat /\ Parallelism # 0
  BY PlanAssumption DEF ExecInv, TypeOK
<1>4. CASE IsScan(g)
  <2>1. Partitions[g] \in Seq(Workers) /\ Len(Partitions[g]) = Parallelism
    BY <1>1, <1>4, PlanAssumption
  <2>2. \A i \in Index : Partitions[g][i + 1] \in Workers
    BY <1>3, <2>1 DEF Index
  <2>3. \A t \in Tasks : t[2] = Parallelism \/ t[2] \in Index
    BY DEF Tasks, PipelineTasks, SortTasks
  <2>4. /\ parallelism' = [parallelism EXCEPT ![g] = Parallelism]
        /\ work_id' = [t \in Tasks |-> IF t[1] # g THEN work_id[t]
                                       ELSE IF t[2] = Parallelism THEN Partitions[g][0 + 1]
                                       ELSE Partitions[g][t[2] + 1]]
    BY <1>2, <1>4, <2>1 DEF InitializeGroup
  <2> QED BY <1>3, <2>2, <2>3, <2>4, IndexSize
<1>5. CASE ~IsScan(g)
  <2> DEFINE d == Deps[g][1]
  <2>1. Deps[g] \in Seq(Groups) /\ Deps[g] # <<>>
    BY <1>1, <1>5, PlanAssumption
  <2>2. 1 \in 1 .. Len(Deps[g])
    BY <2>1
  <2>3. d \in Groups /\ ~Stacked(d)
    <3>1. Len(pipe_stack) <= Len(pipe_stack)
      BY <1>1, PlanTypes
    <3> QED BY <1>1, <2>2, <3>1, DepsPopped
  <2>4. parallelism[d] = Parallelism
    BY <2>3 DEF ExecInv, PhaseInv
  <2>5. \A i \in Index : work_id[<<d, i>>] \in Workers
    BY <1>3, <2>3, TaskFacts
  <2>6. \A t \in Tasks : t[2] = Parallelism \/ t[2] \in Index
    BY DEF Tasks, PipelineTasks, SortTasks
  <2>7. /\ parallelism' = [parallelism EXCEPT ![g] = Parallelism]
        /\ work_id' = [t \in Tasks |-> IF t[1] # g THEN work_id[t]
                                       ELSE IF t[2] = Parallelism THEN work_id[<<d, 0>>]
                                       ELSE work_id[<<d, t[2]>>]]
    BY <1>2, <1>5, <2>4 DEF InitializeGroup
  <2> QED BY <1>3, <2>5, <2>6, <2>7, IndexSize
<1> QED BY <1>4, <1>5

\* While a task is off the stack its group has its pipelines.
LEMMA WidthOf ==
  ASSUME ExecInv, NEW t \in PipelineTasks, status[t] # "new"
  PROVE  ~Stacked(t[1]) /\ parallelism[t[1]] = Parallelism
<1>1. ~Stacked(t[1])
  BY TaskFacts DEF ExecInv, PhaseInv
<1> QED BY <1>1, TaskFacts DEF ExecInv, PhaseInv

\* A pipeline that has not counted itself finds the counter below parallelism,
\* whatever its siblings have counted since it looked.
LEMMA CountHasRoom ==
  ASSUME ExecInv, NEW t \in PipelineTasks, status[t] # "new", ~Past(t)
  PROVE  /\ parallelism[t[1]] = Parallelism
         /\ ~(comlete_pipe[t[1]] >= parallelism[t[1]])
         /\ comlete_pipe[t[1]] + 1 \in 0 .. Parallelism
<1> DEFINE g == t[1]
           S == {i \in Index : Past(<<g, i>>)}
<1>1. g \in Groups /\ t[2] \in Index /\ t = <<g, t[2]>>
  BY TaskFacts
<1>2. parallelism[g] = Parallelism /\ Parallelism \in Nat
  BY WidthOf, PlanAssumption
<1>3. S \subseteq Index /\ t[2] \notin S
  BY <1>1
<1>4. comlete_pipe[g] = Cardinality(S)
  BY <1>1 DEF ExecInv, CountIsExact
<1>5. Cardinality(S) \in Nat /\ Cardinality(S) <= Parallelism /\ Cardinality(S) # Parallelism
  <2> HIDE DEF S
  <2>1. IsFiniteSet(S)
    BY <1>3, IndexSize, FS_Subset
  <2>2. Cardinality(S) \in Nat /\ Cardinality(S) <= Parallelism
    BY <1>3, <2>1, IndexSize, FS_Subset, FS_CardinalityType
  <2>3. Cardinality(S) # Cardinality(Index)
    BY <1>1, <1>3, IndexSize, FS_Subset
  <2> QED BY <2>2, <2>3, IndexSize
<1> HIDE DEF S
<1> QED BY <1>2, <1>4, <1>5

-----------------------------------------------------------------------------
(* Types *)

LEMMA NotifyType ==
  ASSUME TypeOK, NotifyExecutor
  PROVE  epc' \in {"next", "submit", "test", "toWait", "asleep", "event", "testSort",
                   "toWaitSort", "asleepSort", "shutdown", "result"}
BY DEF TypeOK, NotifyExecutor

LEMMA InitTypeOK == Init => TypeOK
<1> SUFFICES ASSUME Init PROVE TypeOK
  OBVIOUS
<1>1. Parallelism \in Nat /\ Parallelism # 0 /\ 0 \in Workers
  BY PlanAssumption
<1>2. pipe_stack \in Seq(Groups)
  BY PlanTypes DEF Init
<1> QED
  BY <1>1, <1>2 DEF Init, TypeOK, Pool!Init

LEMMA ExecutorTypeOK ==
  ASSUME ExecInv, ExecutorStep \/ SpuriousWakeup
  PROVE  TypeOK'
<1> USE DEF executorVars, groupVars, taskVars, poolVars
<1>0. TypeOK /\ Parallelism \in Nat /\ Parallelism # 0
  BY PlanAssumption DEF ExecInv
<1>1. CASE PopGroup
  <2>1. /\ node' \in Groups /\ pipe_stack' \in Seq(Groups)
        /\ parallelism' = [parallelism EXCEPT ![node'] = Parallelism]
        /\ work_id' \in [Tasks -> Workers]
    BY <1>1, PopFacts, PopInitializes
  <2>2. parallelism' \in [Groups -> {1, Parallelism}]
    BY <1>0, <2>1 DEF TypeOK
  <2> QED BY <1>0, <1>1, <2>1, <2>2 DEF PopGroup, TypeOK
<1>2. CASE SubmitPipeline
  <2>1. epc = "submit" /\ node \in Groups /\ sent \in Nat /\ parallelism[node] \in {1, Parallelism}
    BY <1>0, <1>2 DEF SubmitPipeline, TypeOK, ExecInv, StackInv
  <2>2. sent + 1 \in 0 .. Parallelism
    BY <1>0, <1>2, <2>1 DEF SubmitPipeline
  <2> QED BY <1>0, <1>2, <2>2 DEF SubmitPipeline, TypeOK, Pool!Submit
<1>3. CASE TestFinish \/ SleepFinish \/ NoEvent \/ TestSort \/ SleepSort
           \/ ExecuteReturns \/ ReadResult
  BY <1>0, <1>3 DEF TestFinish, SleepFinish, NoEvent, TestSort, SleepSort,
     ExecuteReturns, ReadResult, TypeOK
<1>4. CASE SubmitSort
  BY <1>0, <1>4 DEF SubmitSort, TypeOK, Pool!Submit
<1>5. ASSUME NEW w \in Workers, StopWorker(w) PROVE TypeOK'
  BY <1>0, <1>5 DEF StopWorker, TypeOK, Pool!Stop
<1>6. CASE SpuriousWakeup
  BY <1>0, <1>6, NotifyType DEF SpuriousWakeup, TypeOK
<1> QED
  BY <1>1, <1>2, <1>3, <1>4, <1>5, <1>6 DEF ExecutorStep

LEMMA TaskTypeOK ==
  ASSUME ExecInv, NEW t \in Tasks, TaskStep(t)
  PROVE  TypeOK'
<1> USE DEF executorVars, groupVars, taskVars, poolVars
<1>0. TypeOK /\ Parallelism \in Nat /\ Parallelism # 0 /\ t[1] \in Groups
  BY PlanAssumption, TaskFacts DEF ExecInv
<1>1. CASE TakeTask(t)
  BY <1>0, <1>1 DEF TakeTask, TypeOK, Pool!Start
<1>2. CASE ExecuteChunks(t)
  BY <1>0, <1>2 DEF ExecuteChunks, TypeOK
<1>3. CASE ReachBarrier(t)
  <2>1. t \in PipelineTasks
    BY <1>3, TaskFacts DEF ReachBarrier, ExecInv, SortInv
  <2> QED BY <1>0, <1>3, <2>1 DEF ReachBarrier, TypeOK
<1>4. CASE LeaveBarrier(t) \/ SecondPhase(t) \/ CheckFinish(t)
  BY <1>0, <1>4 DEF LeaveBarrier, SecondPhase, CheckFinish, TypeOK
<1>5. CASE TestCount(t)
  BY <1>0, <1>5 DEF TestCount, TypeOK
<1>9. CASE IncrementCount(t)
  <2>1. t \in PipelineTasks /\ status[t] = "running" /\ step[t] = "increment"
    BY <1>9, TaskFacts DEF IncrementCount, Running, ExecInv, SortInv
  <2>2. comlete_pipe[t[1]] + 1 \in 0 .. Parallelism
    BY <2>1, CountHasRoom DEF Past
  <2>3. comlete_pipe' = [comlete_pipe EXCEPT ![t[1]] = comlete_pipe[t[1]] + 1]
    BY <1>9 DEF IncrementCount
  <2>4. comlete_pipe' \in [Groups -> 0 .. Parallelism]
    BY <1>0, <2>2, <2>3 DEF TypeOK
  <2> QED BY <1>0, <1>9, <2>4 DEF IncrementCount, TypeOK
<1>6. CASE MergeRuns(t)
  BY <1>0, <1>6 DEF MergeRuns, TypeOK
<1>7. CASE Notify(t)
  BY <1>0, <1>7, NotifyType DEF Notify, TypeOK
<1>8. CASE EndTask(t)
  BY <1>0, <1>8 DEF EndTask, TypeOK, Pool!Finish
<1> QED
  BY <1>1, <1>2, <1>3, <1>4, <1>5, <1>6, <1>7, <1>8, <1>9 DEF TaskStep, RunStep

LEMMA StepTypeOK == ExecInv /\ [Next]_vars => TypeOK'
<1> SUFFICES ASSUME ExecInv, [Next]_vars PROVE TypeOK'
  OBVIOUS
<1>1. CASE UNCHANGED vars
  BY <1>1 DEF ExecInv, TypeOK, vars, executorVars, groupVars, taskVars, poolVars
<1> QED
  BY <1>1, ExecutorTypeOK, TaskTypeOK DEF Next

-----------------------------------------------------------------------------
(* The stack *)

\* How the executor's position moves when no group is popped.
LEMMA PositionMoves ==
  ASSUME ExecInv, [Next]_vars, KeepsStack
  PROVE  /\ epc = "next" => epc' = "next" \/ (epc' = "shutdown" /\ pipe_stack = <<>>)
         /\ epc' \in {"shutdown", "result"} =>
              epc \in {"shutdown", "result"} \/ pipe_stack = <<>>
         /\ epc' \in {"next", "shutdown", "result"} =>
              \/ epc \in {"next", "shutdown", "result"}
              \/ epc = "event" /\ event[node] = "Invalid"
              \/ epc = "testSort" /\ extra_task[node]
         /\ epc' \in {"event", "testSort", "toWaitSort", "asleepSort"} =>
              \/ epc \in {"event", "testSort", "toWaitSort", "asleepSort"}
              \/ epc = "test" /\ is_finish(node)
         /\ epc' = "submit" => epc = "submit"
         /\ epc' # "submit" => epc # "submit" \/ SubmitPipeline
         /\ epc' = "result" => epc = "result" \/ stopped = Workers
         /\ epc = "result" => epc' = "result"
         /\ epc = "shutdown" => epc' \in {"shutdown", "result"}
         /\ epc' = "next" => epc \in {"next", "event", "testSort"}
<1> USE DEF executorVars, groupVars, taskVars, poolVars, vars
<1>1. CASE UNCHANGED epc
  BY <1>1
<1>2. CASE SubmitPipeline
  BY <1>2 DEF SubmitPipeline
<1>3. CASE PopGroup
  <2>1. Len(pipe_stack') = Len(pipe_stack) - 1 /\ Len(pipe_stack) \in 1 .. Len(traverse_plan)
    BY <1>3, PopFacts
  <2>2. Len(pipe_stack') # Len(pipe_stack)
    BY <2>1, PlanTypes
  <2> QED BY <2>2 DEF KeepsStack
<1>4. CASE TestFinish \/ SleepFinish \/ NoEvent \/ SubmitSort \/ TestSort \/ SleepSort
           \/ ExecuteReturns \/ ReadResult
  BY <1>4 DEF TestFinish, SleepFinish, NoEvent, SubmitSort, TestSort, SleepSort,
     ExecuteReturns, ReadResult
<1>5. CASE NotifyExecutor
  BY <1>5 DEF NotifyExecutor
<1>6. ASSUME NEW t \in Tasks, TaskStep(t) PROVE UNCHANGED epc \/ NotifyExecutor
  BY <1>6 DEF TaskStep, RunStep, TakeTask, ExecuteChunks, ReachBarrier, LeaveBarrier,
     SecondPhase, TestCount, IncrementCount, CheckFinish, MergeRuns, Notify, EndTask
<1>7. ASSUME NEW w \in Workers, StopWorker(w) PROVE UNCHANGED epc
  BY <1>7 DEF StopWorker
<1> QED
  BY <1>1, <1>2, <1>3, <1>4, <1>5, <1>6, <1>7
     DEF Next, ExecutorStep, SpuriousWakeup

LEMMA StepStackInv == ExecInv /\ [Next]_vars => StackInv'
<1> SUFFICES ASSUME ExecInv, [Next]_vars PROVE StackInv'
  OBVIOUS
<1>1. CASE PopGroup
  <2>1. /\ node' \in Groups
        /\ Len(pipe_stack) \in 1 .. Len(traverse_plan)
        /\ node' = traverse_plan[Len(pipe_stack)]
        /\ Len(pipe_stack') = Len(pipe_stack) - 1
        /\ \A i \in 1 .. Len(pipe_stack') : pipe_stack'[i] = pipe_stack[i]
        /\ Len(traverse_plan) \in Nat
        /\ node' # NoGroup
    BY <1>1, PopFacts, PlanTypes, PlanAssumption
  <2>2. \A i \in 1 .. Len(pipe_stack') : pipe_stack'[i] = traverse_plan[i]
    <3> SUFFICES ASSUME NEW i \in 1 .. Len(pipe_stack')
                 PROVE  pipe_stack'[i] = traverse_plan[i]
      OBVIOUS
    <3>1. i \in 1 .. Len(pipe_stack)
      BY <2>1
    <3> QED BY <2>1, <3>1 DEF ExecInv, StackInv
  <2>3. /\ Len(pipe_stack') <= Len(traverse_plan)
        /\ Len(pipe_stack') < Len(traverse_plan)
        /\ Len(pipe_stack') + 1 = Len(pipe_stack)
    BY <2>1
  <2>4. epc' = "submit"
    BY <1>1 DEF PopGroup
  <2> QED BY <2>1, <2>2, <2>3, <2>4 DEF StackInv
<1>2. CASE KeepsStack
  <2>1. node = NoGroup => epc' = "next"
    <3> SUFFICES ASSUME node = NoGroup PROVE epc' = "next"
      OBVIOUS
    <3>1. epc = "next" /\ Len(pipe_stack) = Len(traverse_plan)
      BY DEF ExecInv, StackInv
    <3>2. pipe_stack # <<>>
      <4>1. PICK i \in 1 .. Len(traverse_plan) : traverse_plan[i] = Root
        BY Placed, PlanAssumption
      <4>2. Len(pipe_stack) # 0
        BY <3>1, <4>1, PlanTypes
      <4> QED BY <4>2
    <3> QED BY <1>2, <3>1, <3>2, PositionMoves
  <2>2. epc' \in {"shutdown", "result"} => pipe_stack = <<>>
    BY <1>2, PositionMoves DEF ExecInv, StackInv
  <2> QED BY <1>2, <2>1, <2>2 DEF ExecInv, StackInv, KeepsStack
<1> QED BY <1>1, <1>2, OnlyPopTakes

-----------------------------------------------------------------------------
(* The tasks *)

LEMMA TaskInvKept ==
  ASSUME TaskInv, UNCHANGED <<step, output, arrived, event>>,
         \A t \in PipelineTasks : status[t] \in {"running", "done"} =>
           status'[t] \in {"running", "done"}
  PROVE  TaskInv'
BY DEF TaskInv

\* A step of task t that may change what is said of t, and nothing of others.
LEMMA TaskInvMoved ==
  ASSUME TaskInv, NEW t \in PipelineTasks,
         \A u \in PipelineTasks : u # t =>
           step'[u] = step[u] /\ output'[u] = output[u],
         arrived \subseteq arrived', arrived' \subseteq arrived \cup {t},
         \A g \in Groups : event[g] = "MergeSortTask" => event'[g] = "MergeSortTask",
         UNCHANGED status,
         /\ step'[t] = "body" => output'[t] = "none"
         /\ step'[t] \in {"wait", "inBarrier", "second"} =>
              output'[t] = "local" /\ Sink[t[1]] # "plain"
         /\ step'[t] \in {"count", "increment", "counted", "notify", "end"} => output'[t] = "final"
         /\ t \in arrived' => output'[t] # "none"
         /\ step'[t] # "body" => status[t] \in {"running", "done"}
         /\ step'[t] = "second" => \A i \in Index : <<t[1], i>> \in arrived'
         /\ step'[t] \notin {"body", "wait"} /\ Sink[t[1]] = "order" =>
              event'[t[1]] = "MergeSortTask"
  PROVE  TaskInv'
<1> SUFFICES ASSUME NEW u \in PipelineTasks
             PROVE  /\ step'[u] = "body" => output'[u] = "none"
                    /\ step'[u] \in {"wait", "inBarrier", "second"} =>
                         output'[u] = "local" /\ Sink[u[1]] # "plain"
                    /\ step'[u] \in {"count", "increment", "counted", "notify", "end"} => output'[u] = "final"
                    /\ u \in arrived' => output'[u] # "none"
                    /\ step'[u] # "body" => status'[u] \in {"running", "done"}
                    /\ step'[u] = "second" => \A i \in Index : <<u[1], i>> \in arrived'
                    /\ step'[u] \notin {"body", "wait"} /\ Sink[u[1]] = "order" =>
                         event'[u[1]] = "MergeSortTask"
  BY DEF TaskInv
<1>1. CASE u = t
  BY <1>1
<1>2. CASE u # t
  BY <1>2, TaskFacts DEF TaskInv
<1> QED BY <1>1, <1>2

LEMMA StepTaskInv == ExecInv /\ [Next]_vars => TaskInv'
<1> SUFFICES ASSUME ExecInv, [Next]_vars PROVE TaskInv'
  OBVIOUS
<1> USE DEF executorVars, groupVars, taskVars, poolVars, vars
<1>0. TaskInv /\ TypeOK
  BY DEF ExecInv
<1>1. CASE UNCHANGED vars
  BY <1>0, <1>1, TaskInvKept
<1>2. CASE ExecutorStep \/ SpuriousWakeup
  <2>1. UNCHANGED <<step, output, arrived, event>>
    BY <1>2 DEF ExecutorStep, PopGroup, SubmitPipeline, TestFinish, SleepFinish, NoEvent,
       SubmitSort, TestSort, SleepSort, ExecuteReturns, ReadResult, StopWorker,
       SpuriousWakeup
  <2>2. UNCHANGED status \/ \E t : Pool!Submit(t)
    BY <1>2 DEF ExecutorStep, PopGroup, SubmitPipeline, TestFinish, SleepFinish, NoEvent,
       SubmitSort, TestSort, SleepSort, ExecuteReturns, ReadResult, StopWorker,
       SpuriousWakeup, Pool!Stop
  <2>3. \A t \in PipelineTasks : status[t] \in {"running", "done"} =>
          status'[t] \in {"running", "done"}
    BY <1>0, <2>2, TaskFacts DEF Pool!Submit, TypeOK
  <2> QED BY <1>0, <2>1, <2>3, TaskInvKept
<1>3. ASSUME NEW t \in Tasks, TakeTask(t) \/ EndTask(t) PROVE TaskInv'
  <2>1. \A u \in PipelineTasks : status[u] \in {"running", "done"} =>
          status'[u] \in {"running", "done"}
    BY <1>0, <1>3, TaskFacts DEF TakeTask, EndTask, Pool!Start, Pool!Finish, TypeOK
  <2> QED BY <1>0, <1>3, <2>1, TaskInvKept DEF TakeTask, EndTask
<1>4. ASSUME NEW t \in SortTasks, MergeRuns(t) \/ Notify(t) PROVE TaskInv'
  <2>1. \A u \in PipelineTasks : step'[u] = step[u]
    BY <1>0, <1>4, TaskFacts DEF MergeRuns, Notify, TypeOK
  <2> QED BY <1>0, <1>4, <2>1 DEF MergeRuns, Notify, TaskInv
<1>5. ASSUME NEW t \in PipelineTasks, Running(t),
             ExecuteChunks(t) \/ ReachBarrier(t) \/ LeaveBarrier(t) \/ SecondPhase(t)
               \/ TestCount(t) \/ IncrementCount(t) \/ CheckFinish(t) \/ Notify(t)
      PROVE  TaskInv'
  <2>0. t \in Tasks /\ t[1] \in Groups /\ status[t] = "running"
    BY <1>5, TaskFacts DEF Running
  <2>1. CASE ExecuteChunks(t)
    BY <1>0, <2>0, <2>1, TaskInvMoved DEF ExecuteChunks, TypeOK, TaskInv
  <2>2. CASE ReachBarrier(t)
    BY <1>0, <2>0, <2>2, TaskInvMoved, PlanAssumption, SMTT(30) DEF ReachBarrier, TypeOK, TaskInv
  <2>3. CASE LeaveBarrier(t)
    <3>1. parallelism[t[1]] = Parallelism
      <4>1. ~Stacked(t[1])
        BY <2>0, TaskFacts DEF ExecInv, PhaseInv
      <4> QED BY <2>0, <4>1 DEF ExecInv, PhaseInv
    <3>2. \A i \in Index : <<t[1], i>> \in arrived
      BY <2>3, <3>1 DEF LeaveBarrier, Index
    <3> QED BY <1>0, <2>0, <2>3, <3>2, TaskInvMoved DEF LeaveBarrier, TypeOK, TaskInv
  <2>4. CASE SecondPhase(t)
    BY <1>0, <2>0, <2>4, TaskInvMoved DEF SecondPhase, TypeOK, TaskInv
  <2>5. CASE TestCount(t) \/ IncrementCount(t)
    <3>1. /\ step[t] \in {"count", "increment"} /\ step'[t] \in {"increment", "counted"}
          /\ \A u \in PipelineTasks : u # t => step'[u] = step[u]
          /\ UNCHANGED <<output, arrived, event, status>>
      BY <1>0, <2>0, <2>5, TaskFacts DEF TestCount, IncrementCount, TypeOK
    <3> QED BY <1>0, <2>0, <3>1, TaskInvMoved DEF TaskInv
  <2>6. CASE CheckFinish(t) \/ Notify(t)
    <3>1. /\ step[t] \in {"counted", "notify"} /\ step'[t] \in {"notify", "end"}
          /\ \A u \in PipelineTasks : u # t => step'[u] = step[u]
          /\ UNCHANGED <<output, arrived, event, status>>
      BY <1>0, <2>0, <2>6, TaskFacts DEF CheckFinish, Notify, TypeOK
    <3> QED BY <1>0, <2>0, <3>1, TaskInvMoved DEF TaskInv
  <2> QED BY <1>5, <2>1, <2>2, <2>3, <2>4, <2>5, <2>6
<1>6. ASSUME NEW t \in SortTasks
      PROVE  ~ReachBarrier(t) /\ ~LeaveBarrier(t) /\ ~SecondPhase(t)
             /\ ~TestCount(t) /\ ~IncrementCount(t) /\ ~CheckFinish(t) /\ ~ExecuteChunks(t)
  BY TaskFacts DEF ExecInv, SortInv, ReachBarrier, LeaveBarrier, SecondPhase, TestCount, IncrementCount,
     CheckFinish, ExecuteChunks
<1>7. ASSUME NEW t \in PipelineTasks PROVE ~MergeRuns(t)
  BY TaskFacts DEF MergeRuns
<1>8. ASSUME NEW t \in Tasks, TaskStep(t) PROVE TaskInv'
  <2>1. t \in PipelineTasks \/ t \in SortTasks
    BY TaskFacts
  <2> QED BY <1>3, <1>4, <1>5, <1>6, <1>7, <1>8, <2>1 DEF TaskStep, RunStep, ExecuteChunks,
      ReachBarrier, LeaveBarrier, SecondPhase, TestCount, IncrementCount, CheckFinish, Notify
<1> QED BY <1>1, <1>2, <1>8 DEF Next

\* The executor's own steps leave the tasks where they are.
LEMMA ExecutorKeepsTasks ==
  ASSUME ExecutorStep \/ SpuriousWakeup \/ UNCHANGED vars
  PROVE  UNCHANGED <<step, output, arrived, event, extra_task, comlete_pipe>>
BY DEF ExecutorStep, PopGroup, SubmitPipeline, TestFinish, SleepFinish, NoEvent,
       SubmitSort, TestSort, SleepSort, ExecuteReturns, ReadResult, StopWorker,
       SpuriousWakeup, executorVars, groupVars, taskVars, poolVars, vars

\* A task's steps leave the position of every other task alone.
LEMMA OthersStay ==
  ASSUME TypeOK, NEW t \in Tasks, TaskStep(t), NEW u \in Tasks, u # t
  PROVE  step'[u] = step[u]
BY DEF TypeOK, TaskStep, RunStep, TakeTask, ExecuteChunks, ReachBarrier, LeaveBarrier,
       SecondPhase, TestCount, IncrementCount, CheckFinish, MergeRuns, Notify, EndTask,
       executorVars, groupVars, taskVars, poolVars

\* What a task's step does to its own position.
LEMMA OwnMove ==
  ASSUME ExecInv, NEW t \in Tasks, TaskStep(t)
  PROVE  /\ Past(t) => Past(t)'
         /\ Past(t)' => Past(t) \/ IncrementCount(t) \/ MergeRuns(t)
         /\ step'[t] = "body" => step[t] = "body"
<1> USE DEF executorVars, groupVars, taskVars, poolVars
<1>0. TypeOK
  BY DEF ExecInv
<1>1. CASE TakeTask(t) \/ EndTask(t)
  BY <1>1 DEF TakeTask, EndTask, Past
<1>2. CASE ExecuteChunks(t)
  BY <1>0, <1>2 DEF ExecuteChunks, Past, TypeOK
<1>3. CASE ReachBarrier(t) \/ LeaveBarrier(t) \/ SecondPhase(t)
  BY <1>0, <1>3 DEF ReachBarrier, LeaveBarrier, SecondPhase, Past, TypeOK
<1>4. CASE CheckFinish(t)
  BY <1>0, <1>4 DEF CheckFinish, Past, TypeOK
<1>5. CASE Notify(t)
  BY <1>0, <1>5 DEF Notify, Past, TypeOK
<1>6. CASE IncrementCount(t) \/ MergeRuns(t)
  BY <1>0, <1>6 DEF IncrementCount, MergeRuns, Past, TypeOK
<1>7. CASE TestCount(t)
  <2>1. t \in PipelineTasks /\ status[t] = "running" /\ step[t] = "count"
    BY <1>7, TaskFacts DEF TestCount, Running, ExecInv, SortInv
  <2>2. ~(comlete_pipe[t[1]] >= parallelism[t[1]])
    BY <2>1, CountHasRoom DEF Past
  <2> QED BY <1>0, <1>7, <2>1, <2>2 DEF TestCount, Past, TypeOK
<1> QED BY <1>1, <1>2, <1>3, <1>4, <1>5, <1>6, <1>7 DEF TaskStep, RunStep

\* A task that has counted itself, or has merged, stays so; only add_count
\* brings a pipeline there.
LEMMA PastMoves ==
  ASSUME ExecInv, [Next]_vars, NEW u \in Tasks
  PROVE  /\ Past(u) => Past(u)'
         /\ u \in PipelineTasks /\ Past(u)' => Past(u) \/ IncrementCount(u)
<1>0. TypeOK
  BY DEF ExecInv
<1>1. CASE ExecutorStep \/ SpuriousWakeup \/ UNCHANGED vars
  BY <1>1, ExecutorKeepsTasks DEF Past
<1>2. ASSUME NEW t \in Tasks, TaskStep(t), t # u
      PROVE  Past(u)' <=> Past(u)
  BY <1>0, <1>2, OthersStay DEF Past
<1>3. CASE TaskStep(u)
  <2>1. u \in PipelineTasks => ~MergeRuns(u)
    BY TaskFacts DEF MergeRuns
  <2> QED BY <1>3, <2>1, OwnMove
<1> QED BY <1>1, <1>2, <1>3 DEF Next

\* is_finish of a group that has been popped: every pipeline has counted itself.
LEMMA FinishedMeansPast ==
  ASSUME ExecInv, NEW g \in Groups, ~Stacked(g), is_finish(g), NEW i \in Index
  PROVE  Past(<<g, i>>)
<1> DEFINE S == {j \in Index : Past(<<g, j>>)}
<1>1. Cardinality(S) = Parallelism
  BY DEF ExecInv, CountIsExact, PhaseInv, is_finish
<1>2. S \subseteq Index
  OBVIOUS
<1>3. S = Index
  <2> HIDE DEF S
  <2> QED BY <1>1, <1>2, IndexSize, FS_Subset
<1> QED BY <1>3

-----------------------------------------------------------------------------
(* The counter *)

LEMMA CountKept ==
  ASSUME CountIsExact, UNCHANGED comlete_pipe,
         \A t \in PipelineTasks : Past(t)' <=> Past(t)
  PROVE  CountIsExact'
<1> SUFFICES ASSUME NEW g \in Groups
             PROVE  comlete_pipe'[g] = Cardinality({i \in Index : Past(<<g, i>>)'})
  BY DEF CountIsExact
<1>1. {i \in Index : Past(<<g, i>>)'} = {i \in Index : Past(<<g, i>>)}
  BY TaskFacts
<1> QED BY <1>1 DEF CountIsExact

LEMMA StepCountIsExact == ExecInv /\ [Next]_vars => CountIsExact'
<1> SUFFICES ASSUME ExecInv, [Next]_vars PROVE CountIsExact'
  OBVIOUS
<1>0. TypeOK /\ CountIsExact /\ SortInv
  BY DEF ExecInv
<1>1. CASE UNCHANGED comlete_pipe /\ \A t \in PipelineTasks : ~IncrementCount(t)
  <2>1. \A t \in PipelineTasks : Past(t)' <=> Past(t)
    BY <1>1, PastMoves, TaskFacts
  <2> QED BY <1>0, <1>1, <2>1, CountKept
<1>2. ASSUME NEW t \in PipelineTasks, IncrementCount(t) PROVE CountIsExact'
  <2> DEFINE g == t[1]
             S(h) == {i \in Index : Past(<<h, i>>)}
             T(h) == {i \in Index : Past(<<h, i>>)'}
  <2>1. /\ g \in Groups /\ t[2] \in Index /\ t = <<g, t[2]>> /\ t \in Tasks
        /\ status[t] = "running" /\ step[t] = "increment"
    BY <1>2, TaskFacts DEF IncrementCount, Running
  <2>3. step' = [step EXCEPT ![t] = "counted"]
    BY <1>2 DEF IncrementCount
  <2>4. ~Past(t) /\ Past(t)' /\ \A u \in PipelineTasks : u # t => (Past(u)' <=> Past(u))
    BY <1>0, <2>1, <2>3, TaskFacts DEF Past, TypeOK
  <2>5. S(g) \subseteq Index /\ t[2] \notin S(g) /\ IsFiniteSet(S(g))
    BY <2>1, <2>4, IndexSize, FS_Subset
  <2>6. T(g) = S(g) \cup {t[2]}
    BY <2>1, <2>4, TaskFacts
  <2>7. Cardinality(S(g)) \in Nat /\ Cardinality(T(g)) = Cardinality(S(g)) + 1
    <3> HIDE DEF S, T
    <3> QED BY <2>5, <2>6, FS_AddElement, FS_CardinalityType
  <2>10. comlete_pipe[g] = Cardinality(S(g))
    BY <1>0, <2>1 DEF CountIsExact
  <2>12. comlete_pipe' = [comlete_pipe EXCEPT ![g] = comlete_pipe[g] + 1]
    BY <1>2 DEF IncrementCount
  <2>13. comlete_pipe'[g] = Cardinality(T(g))
    <3> HIDE DEF S, T
    <3> QED BY <1>0, <2>1, <2>7, <2>10, <2>12 DEF TypeOK
  <2>14. ASSUME NEW h \in Groups, h # g
         PROVE  comlete_pipe'[h] = Cardinality(T(h))
    <3>1. T(h) = S(h)
      BY <2>1, <2>4, <2>14, TaskFacts
    <3>2. comlete_pipe[h] = Cardinality(S(h))
      BY <1>0, <2>14 DEF CountIsExact
    <3>3. comlete_pipe'[h] = comlete_pipe[h]
      BY <1>0, <2>12, <2>14 DEF TypeOK
    <3> QED BY <3>1, <3>2, <3>3
  <2>15. \A h \in Groups : comlete_pipe'[h] = Cardinality(T(h))
    BY <2>13, <2>14
  <2> QED BY <2>15 DEF CountIsExact
<1>3. UNCHANGED comlete_pipe \/ \E t \in Tasks : IncrementCount(t)
  BY ExecutorKeepsTasks DEF Next, TaskStep, RunStep, TakeTask, ExecuteChunks, ReachBarrier,
     LeaveBarrier, SecondPhase, TestCount, CheckFinish, MergeRuns, Notify, EndTask, groupVars
<1>4. \A t \in Tasks : IncrementCount(t) => t \in PipelineTasks
  BY <1>0, TaskFacts DEF IncrementCount, SortInv
<1> QED BY <1>1, <1>2, <1>3, <1>4

-----------------------------------------------------------------------------
(* The merge-sort tasks *)

\* A task leaves "new" only when the executor submits it, and never returns.
LEMMA StatusMoves ==
  ASSUME ExecInv, [Next]_vars, NEW u \in Tasks
  PROVE  /\ status[u] # "new" => status'[u] # "new"
         /\ status[u] \in {"running", "done"} => status'[u] \in {"running", "done"}
         /\ status[u] = "new" /\ status'[u] # "new" =>
              \/ SubmitPipeline /\ u = <<node, sent>>
              \/ SubmitSort /\ u = SortTask(node)
<1> USE DEF executorVars, groupVars, taskVars, poolVars, vars
<1>0. TypeOK /\ PoolInv
  BY DEF ExecInv
<1>1. CASE UNCHANGED status
  BY <1>1
<1>2. CASE SubmitPipeline
  BY <1>0, <1>2 DEF SubmitPipeline, Pool!Submit, TypeOK
<1>3. CASE SubmitSort
  BY <1>0, <1>3 DEF SubmitSort, Pool!Submit, TypeOK
<1>4. ASSUME NEW t \in Tasks, TakeTask(t)
      PROVE  /\ status[u] # "new" => status'[u] # "new"
             /\ status[u] = "new" => status'[u] = "new"
             /\ status[u] \in {"running", "done"} => status'[u] \in {"running", "done"}
  BY <1>0, <1>4 DEF TakeTask, Pool!Start, TypeOK
<1>5. ASSUME NEW t \in Tasks, EndTask(t)
      PROVE  /\ status[u] # "new" => status'[u] # "new"
             /\ status[u] = "new" => status'[u] = "new"
             /\ status[u] \in {"running", "done"} => status'[u] \in {"running", "done"}
  <2>1. status[t] = "running" /\ current[work_id[t]] = t
    BY <1>0, <1>5 DEF EndTask, Running, PoolInv
  <2> QED BY <1>0, <1>5, <2>1 DEF EndTask, Pool!Finish, TypeOK
<1>6. \/ UNCHANGED status \/ SubmitPipeline \/ SubmitSort
      \/ \E t \in Tasks : TakeTask(t) \/ EndTask(t)
  BY DEF Next, ExecutorStep, PopGroup, TestFinish, SleepFinish, NoEvent, TestSort,
     SleepSort, ExecuteReturns, ReadResult, StopWorker, SpuriousWakeup, Pool!Stop,
     TaskStep, RunStep, ExecuteChunks, ReachBarrier, LeaveBarrier, SecondPhase, TestCount, IncrementCount,
     CheckFinish, MergeRuns, Notify
<1> QED BY <1>1, <1>2, <1>3, <1>4, <1>5, <1>6

\* Only the merge-sort task itself changes its position and extra_task.
LEMMA SortMoves ==
  ASSUME ExecInv, [Next]_vars, NEW g \in Groups
  PROVE  LET s == SortTask(g)
         IN  \/ step'[s] = step[s] /\ extra_task'[g] = extra_task[g]
             \/ /\ status[s] = "running" /\ step[s] = "body" /\ step'[s] = "notify"
                /\ extra_task'[g] = TRUE
             \/ /\ status[s] = "running" /\ step[s] = "notify" /\ step'[s] = "end"
                /\ extra_task'[g] = extra_task[g]
<1> USE DEF executorVars, groupVars, taskVars, poolVars, vars
<1> DEFINE s == SortTask(g)
<1>0. TypeOK /\ SortInv /\ s \in Tasks /\ s \notin PipelineTasks /\ s[1] = g
  BY TaskFacts DEF ExecInv
<1>1. CASE ExecutorStep \/ SpuriousWakeup \/ UNCHANGED vars
  BY <1>1, ExecutorKeepsTasks
<1>2. ASSUME NEW t \in Tasks, TaskStep(t), t # s
      PROVE  step'[s] = step[s] /\ extra_task'[g] = extra_task[g]
  <2>1. step'[s] = step[s]
    BY <1>0, <1>2, OthersStay
  <2>2. CASE MergeRuns(t)
    <3>1. t \in SortTasks /\ t = SortTask(t[1]) /\ t[1] \in Groups
      BY <2>2, TaskFacts DEF MergeRuns
    <3>2. t[1] # g
      BY <1>2, <3>1
    <3> QED BY <1>0, <2>1, <2>2, <3>2 DEF MergeRuns, TypeOK
  <2>3. CASE ~MergeRuns(t)
    BY <1>2, <2>1, <2>3 DEF TaskStep, RunStep, TakeTask, ExecuteChunks, ReachBarrier,
       LeaveBarrier, SecondPhase, TestCount, IncrementCount, CheckFinish, Notify, EndTask
  <2> QED BY <2>2, <2>3
<1>3. CASE TaskStep(s)
  <2>1. step[s] \in {"body", "notify", "end"}
    BY <1>0 DEF SortInv
  <2>2. TakeTask(s) \/ MergeRuns(s) \/ Notify(s) \/ EndTask(s)
    BY <1>0, <1>3, <2>1 DEF TaskStep, RunStep, ExecuteChunks, ReachBarrier,
       LeaveBarrier, SecondPhase, TestCount, IncrementCount, CheckFinish
  <2>3. CASE TakeTask(s) \/ EndTask(s)
    BY <2>3 DEF TakeTask, EndTask
  <2>4. CASE MergeRuns(s)
    BY <1>0, <2>4 DEF MergeRuns, Running, TypeOK
  <2>5. CASE Notify(s)
    BY <1>0, <2>5 DEF Notify, Running, TypeOK
  <2> QED BY <2>2, <2>3, <2>4, <2>5
<1> QED BY <1>1, <1>2, <1>3 DEF Next

\* ORDER_BY alone registers an event.
LEMMA EventMoves ==
  ASSUME ExecInv, [Next]_vars, NEW g \in Groups
  PROVE  /\ event'[g] # event[g] => Sink[g] = "order"
         /\ event[g] = "MergeSortTask" => event'[g] = "MergeSortTask"
<1> USE DEF executorVars, groupVars, taskVars, poolVars, vars
<1>0. TypeOK
  BY DEF ExecInv
<1>1. CASE UNCHANGED event
  BY <1>1
<1>2. ASSUME NEW t \in Tasks, ReachBarrier(t)
      PROVE  /\ event'[g] # event[g] => Sink[g] = "order"
             /\ event[g] = "MergeSortTask" => event'[g] = "MergeSortTask"
  BY <1>0, <1>2 DEF ReachBarrier, TypeOK
<1>3. UNCHANGED event \/ \E t \in Tasks : ReachBarrier(t)
  BY ExecutorKeepsTasks DEF Next, TaskStep, RunStep, TakeTask, ExecuteChunks,
     LeaveBarrier, SecondPhase, TestCount, IncrementCount, CheckFinish, MergeRuns, Notify, EndTask
<1> QED BY <1>1, <1>2, <1>3

LEMMA StepSortInv == ExecInv /\ [Next]_vars => SortInv'
<1> SUFFICES ASSUME ExecInv, [Next]_vars, NEW g \in Groups
             PROVE  /\ step'[SortTask(g)] \in {"body", "notify", "end"}
                    /\ extra_task'[g] <=> step'[SortTask(g)] # "body"
                    /\ step'[SortTask(g)] # "body" =>
                         status'[SortTask(g)] \in {"running", "done"}
                    /\ status'[SortTask(g)] # "new" =>
                         Sink[g] = "order" /\ \A i \in Index : Past(<<g, i>>)'
                    /\ event'[g] # "Invalid" => Sink[g] = "order"
  BY DEF SortInv
<1> DEFINE s == SortTask(g)
<1>0. TypeOK /\ SortInv /\ PhaseInv /\ s \in Tasks
  BY TaskFacts DEF ExecInv
<1>1. /\ step'[s] \in {"body", "notify", "end"}
      /\ extra_task'[g] <=> step'[s] # "body"
  BY <1>0, SortMoves DEF SortInv
<1>2. step'[s] # "body" => status'[s] \in {"running", "done"}
  BY <1>0, SortMoves, StatusMoves DEF SortInv
<1>3. ASSUME status'[s] # "new"
      PROVE  Sink[g] = "order" /\ \A i \in Index : Past(<<g, i>>)'
  <2>1. Sink[g] = "order" /\ \A i \in Index : Past(<<g, i>>)
    <3>1. CASE status[s] # "new"
      BY <1>0, <3>1 DEF SortInv
    <3>2. CASE status[s] = "new"
      <4>1. (SubmitPipeline /\ s = <<node, sent>>) \/ (SubmitSort /\ s = SortTask(node))
        BY <1>0, <1>3, <3>2, StatusMoves
      <4>2. CASE SubmitPipeline /\ s = <<node, sent>>
        <5>1. sent = Parallelism
          BY <4>2 DEF SortTask
        <5>2. sent < Parallelism
          BY <1>0, <4>2 DEF SubmitPipeline, PhaseInv
        <5> QED BY <5>1, <5>2, PlanAssumption
      <4>3. CASE SubmitSort /\ s = SortTask(node)
        <5>1. g = node
          BY <4>3 DEF SortTask
        <5> QED BY <1>0, <4>3, <5>1 DEF SubmitSort, SortInv, PhaseInv
      <4> QED BY <4>1, <4>2, <4>3
    <3> QED BY <3>1, <3>2
  <2> QED BY <2>1, PastMoves, TaskFacts
<1>4. event'[g] # "Invalid" => Sink[g] = "order"
  BY <1>0, EventMoves DEF SortInv
<1> QED BY <1>1, <1>2, <1>3, <1>4

-----------------------------------------------------------------------------
(* How far the groups are *)

LEMMA CompleteKept ==
  ASSUME ExecInv, [Next]_vars, NEW g \in Groups, Complete(g)
  PROVE  Complete(g)'
<1>1. \A i \in Index : Past(<<g, i>>)'
  BY PastMoves, TaskFacts DEF Complete
<1>2. extra_task[g] => extra_task'[g]
  BY SortMoves
<1> QED BY <1>1, <1>2 DEF Complete

\* The group in work is not on the stack.
LEMMA NodeFacts ==
  ASSUME ExecInv, node # NoGroup
  PROVE  node \in Groups /\ ~Stacked(node)
<1>1. node \in Groups
  BY DEF ExecInv, TypeOK
<1>2. /\ node = traverse_plan[Len(pipe_stack) + 1]
      /\ Len(pipe_stack) < Len(traverse_plan)
      /\ \A i \in 1 .. Len(pipe_stack) : pipe_stack[i] = traverse_plan[i]
  BY DEF ExecInv, StackInv
<1>3. Len(pipe_stack) \in Nat /\ Len(traverse_plan) \in Nat
  <2>1. pipe_stack \in Seq(Groups)
    BY DEF ExecInv, TypeOK
  <2> QED BY <2>1, PlanTypes
<1>4. ASSUME NEW i \in 1 .. Len(pipe_stack), pipe_stack[i] = node PROVE FALSE
  <2>1. /\ i \in 1 .. Len(traverse_plan)
        /\ Len(pipe_stack) + 1 \in 1 .. Len(traverse_plan)
        /\ i # Len(pipe_stack) + 1
    BY <1>2, <1>3
  <2> QED BY <1>2, <1>4, <2>1, PlacedOnce
<1> QED BY <1>1, <1>4 DEF Stacked

\* Whatever is submitted belongs to the group in work.
LEMMA SubmittedIsOfNode ==
  ASSUME ExecInv, [Next]_vars, NEW u \in Tasks, status[u] = "new", status'[u] # "new"
  PROVE  u[1] = node /\ node # NoGroup
<1>1. (SubmitPipeline /\ u = <<node, sent>>) \/ (SubmitSort /\ u = SortTask(node))
  BY StatusMoves
<1>2. u[1] = node
  BY <1>1 DEF SortTask
<1>3. epc # "next"
  BY <1>1 DEF SubmitPipeline, SubmitSort
<1> QED BY <1>2, <1>3 DEF ExecInv, StackInv

LEMMA StepPhaseInv == ExecInv /\ [Next]_vars => PhaseInv'
<1> SUFFICES ASSUME ExecInv, [Next]_vars PROVE PhaseInv'
  OBVIOUS
<1>0. TypeOK /\ PhaseInv /\ SortInv /\ TaskInv
  BY DEF ExecInv
<1>1. CASE PopGroup
  <2>1. /\ node' \in Groups /\ node' # NoGroup /\ epc = "next" /\ epc' = "submit"
        /\ sent' = 0 /\ UNCHANGED status
    BY <1>1, PopFacts, PlanAssumption DEF PopGroup, poolVars
  <2>2. \A g \in Groups : Stacked(g)' <=> Stacked(g) /\ g # node'
    BY <1>1, PopStacked
  <2>3. Stacked(node')
    BY <1>1, <2>1, PopStacked
  <2>4. \A g \in Groups : Stacked(g)' =>
          /\ \A i \in Index : status'[<<g, i>>] = "new"
          /\ status'[SortTask(g)] = "new"
    BY <1>0, <2>1, <2>2 DEF PhaseInv
  <2>5. \A g \in Groups : ~Stacked(g)' => parallelism'[g] = Parallelism
    <3>1. parallelism' = [parallelism EXCEPT ![node'] = Parallelism]
      BY <1>1, PopInitializes
    <3> QED BY <1>0, <2>1, <2>2, <3>1 DEF PhaseInv, TypeOK
  <2>6. \A g \in Groups : ~Stacked(g)' /\ g # node' => Complete(g)'
    <3> SUFFICES ASSUME NEW g \in Groups, ~Stacked(g)', g # node' PROVE Complete(g)
      BY CompleteKept
    <3>1. ~Stacked(g)
      BY <2>2
    <3>2. CASE g = node
      BY <1>0, <2>1, <3>2, PlanAssumption DEF PhaseInv
    <3>3. CASE g # node
      BY <1>0, <3>1, <3>3 DEF PhaseInv
    <3> QED BY <3>2, <3>3
  <2>7. sent' < Parallelism /\ \A i \in Index : status'[<<node', i>>] = "new" <=> i >= sent'
    <3>1. \A i \in Index : status[<<node', i>>] = "new"
      BY <1>0, <2>1, <2>3 DEF PhaseInv
    <3>2. 0 < Parallelism /\ \A i \in Index : i >= 0
      BY PlanAssumption DEF Index
    <3> QED BY <2>1, <3>1, <3>2
  <2> QED BY <2>1, <2>4, <2>5, <2>6, <2>7 DEF PhaseInv
<1>2. CASE KeepsStack
  <2>0. /\ \A g \in Groups : Stacked(g)' <=> Stacked(g)
        /\ UNCHANGED <<node, parallelism>>
    BY <1>2, StackedKept DEF KeepsStack
  <2>1. \A g \in Groups : Stacked(g)' =>
          /\ \A i \in Index : status'[<<g, i>>] = "new"
          /\ status'[SortTask(g)] = "new"
    <3> SUFFICES ASSUME NEW g \in Groups, Stacked(g)', NEW u \in Tasks, u[1] = g,
                        status[u] = "new"
                 PROVE  status'[u] = "new"
      BY <1>0, <2>0, TaskFacts DEF PhaseInv
    <3>1. g # node \/ node = NoGroup
      BY <2>0, NodeFacts
    <3> QED BY <3>1, SubmittedIsOfNode
  <2>2. \A g \in Groups : ~Stacked(g)' => parallelism'[g] = Parallelism
    BY <1>0, <2>0 DEF PhaseInv
  <2>3. \A g \in Groups : ~Stacked(g)' /\ g # node' => Complete(g)'
    BY <1>0, <2>0, CompleteKept DEF PhaseInv
  <2>4. ASSUME epc' = "submit"
        PROVE  /\ sent' < Parallelism
               /\ \A i \in Index : status'[<<node', i>>] = "new" <=> i >= sent'
    <3>1. epc = "submit"
      BY <1>2, <2>4, PositionMoves
    <3>2. node # NoGroup /\ node \in Groups /\ parallelism[node] = Parallelism
      BY <1>0, <3>1, NodeFacts DEF ExecInv, StackInv, PhaseInv
    <3>3. CASE SubmitPipeline
      <4>1. /\ sent' = sent + 1 /\ sent < Parallelism /\ sent + 1 # Parallelism
            /\ status' = [status EXCEPT ![<<node, sent>>] = "queued"]
            /\ sent \in 0 .. Parallelism
        BY <1>0, <2>4, <3>2, <3>3 DEF SubmitPipeline, Pool!Submit, TypeOK
      <4>2. sent' < Parallelism
        BY <4>1, PlanAssumption
      <4>3. ASSUME NEW i \in Index PROVE status'[<<node, i>>] = "new" <=> i >= sent'
        <5>1. status[<<node, i>>] = "new" <=> i >= sent
          BY <1>0, <3>1 DEF PhaseInv
        <5>2. CASE i = sent
          <6>1. status'[<<node, i>>] = "queued"
            BY <1>0, <3>2, <4>1, <5>2, TaskFacts DEF TypeOK
          <6>2. ~(i >= sent')
            BY <4>1, <5>2
          <6> QED BY <6>1, <6>2
        <5>3. CASE i # sent
          <6>1. status'[<<node, i>>] = status[<<node, i>>]
            BY <1>0, <3>2, <4>1, <5>3, TaskFacts DEF TypeOK
          <6>2. i >= sent' <=> i >= sent
            BY <4>1, <5>3, PlanAssumption DEF Index
          <6> QED BY <5>1, <6>1, <6>2
        <5> QED BY <5>2, <5>3
      <4> QED BY <2>0, <4>2, <4>3
    <3>4. CASE ~SubmitPipeline
      <4>1. \A i \in Index : status'[<<node, i>>] = "new" <=> status[<<node, i>>] = "new"
        <5> SUFFICES ASSUME NEW i \in Index
                     PROVE  status'[<<node, i>>] = "new" <=> status[<<node, i>>] = "new"
          OBVIOUS
        <5>1. <<node, i>> \in Tasks
          BY <3>2, TaskFacts
        <5>2. ~SubmitSort
          BY <3>1 DEF SubmitSort
        <5> QED BY <3>4, <5>1, <5>2, StatusMoves
      <4>2. sent' = sent
        BY <1>2, <3>1, <3>4 DEF Next, ExecutorStep, PopGroup, TestFinish, SleepFinish,
           NoEvent, SubmitSort, TestSort, SleepSort, ExecuteReturns, ReadResult, StopWorker,
           SpuriousWakeup, TaskStep, RunStep, TakeTask, ExecuteChunks, ReachBarrier, LeaveBarrier,
           SecondPhase, TestCount, IncrementCount, CheckFinish, MergeRuns, Notify, EndTask,
           executorVars, vars
      <4> QED BY <1>0, <2>0, <3>1, <4>1, <4>2 DEF PhaseInv
    <3> QED BY <3>3, <3>4
  <2>5. ASSUME epc' # "submit", node' # NoGroup, NEW i \in Index
        PROVE  status'[<<node', i>>] # "new"
    <3>0. node \in Groups /\ <<node, i>> \in Tasks /\ parallelism[node] = Parallelism
      BY <1>0, <2>0, <2>5, NodeFacts, TaskFacts DEF PhaseInv
    <3>1. CASE epc # "submit"
      BY <1>0, <2>0, <2>5, <3>0, <3>1, StatusMoves DEF PhaseInv
    <3>2. CASE epc = "submit"
      <4>1. SubmitPipeline
        BY <1>2, <2>5, <3>2, PositionMoves
      <4>2. /\ sent + 1 = Parallelism
            /\ status' = [status EXCEPT ![<<node, sent>>] = "queued"]
            /\ sent \in 0 .. Parallelism
        BY <1>0, <2>5, <3>0, <4>1 DEF SubmitPipeline, Pool!Submit, TypeOK
      <4>3. CASE i = sent
        BY <1>0, <2>0, <3>0, <4>2, <4>3 DEF TypeOK
      <4>4. CASE i # sent
        <5>1. ~(i >= sent)
          BY <4>2, <4>4, PlanAssumption DEF Index
        <5>2. status[<<node, i>>] # "new"
          BY <1>0, <3>2, <5>1 DEF PhaseInv
        <5> QED BY <2>0, <3>0, <5>2, StatusMoves
      <4> QED BY <4>3, <4>4
    <3> QED BY <3>1, <3>2
  <2>6. ASSUME epc' \in {"event", "testSort", "toWaitSort", "asleepSort"}, NEW i \in Index
        PROVE  Past(<<node, i>>)'
    <3>1. \/ epc \in {"event", "testSort", "toWaitSort", "asleepSort"}
          \/ epc = "test" /\ is_finish(node)
      BY <1>2, <2>6, PositionMoves
    <3>2. node # NoGroup /\ node \in Groups /\ ~Stacked(node) /\ <<node, i>> \in Tasks
      BY <3>1, NodeFacts, TaskFacts DEF ExecInv, StackInv
    <3>3. Past(<<node, i>>)
      BY <1>0, <3>1, <3>2, FinishedMeansPast DEF PhaseInv
    <3>4. PICK n \in Groups : n = node
      BY <3>2
    <3>5. Past(<<n, i>>)'
      BY <3>2, <3>3, <3>4, PastMoves
    <3> QED BY <2>0, <3>4, <3>5 DEF Past
  <2>7. ASSUME epc' \in {"next", "shutdown", "result"}, node' # NoGroup
        PROVE  Complete(node)'
    <3>1. \/ epc \in {"next", "shutdown", "result"}
          \/ epc = "event" /\ event[node] = "Invalid"
          \/ epc = "testSort" /\ extra_task[node]
      BY <1>2, <2>7, PositionMoves
    <3>2. node \in Groups
      BY <2>0, <2>7, NodeFacts
    <3>3. Complete(node)
      <4>1. CASE epc \in {"next", "shutdown", "result"}
        BY <1>0, <2>0, <2>7, <4>1 DEF PhaseInv
      <4>2. CASE epc = "event" /\ event[node] = "Invalid"
        <5>1. Past(<<node, 0>>) /\ \A i \in Index : Past(<<node, i>>)
          BY <1>0, <4>2, IndexSize DEF PhaseInv
        <5>2. Sink[node] # "order"
          <6>1. <<node, 0>> \in PipelineTasks /\ <<node, 0>>[1] = node
            BY <3>2, TaskFacts, IndexSize
          <6>2. step[<<node, 0>>] \notin {"body", "wait"}
            BY <5>1 DEF Past
          <6> QED BY <1>0, <4>2, <6>1, <6>2 DEF TaskInv
        <5> QED BY <5>1, <5>2 DEF Complete
      <4>3. CASE epc = "testSort" /\ extra_task[node]
        BY <1>0, <4>3 DEF PhaseInv, Complete
      <4> QED BY <3>1, <4>1, <4>2, <4>3
    <3>4. PICK n \in Groups : n = node
      BY <3>2
    <3>5. Complete(n)'
      BY <3>3, <3>4, CompleteKept
    <3> QED BY <2>0, <3>4, <3>5 DEF Complete, Past
  <2> QED BY <2>1, <2>2, <2>3, <2>4, <2>5, <2>6, <2>7 DEF PhaseInv
<1> QED BY <1>1, <1>2, OnlyPopTakes

-----------------------------------------------------------------------------
(* The workers *)

\* Submitting a task, or moving the group that is popped to its workers,
\* concerns no task that runs.
LEMMA PoolInvKept ==
  ASSUME TypeOK, PoolInv, UNCHANGED <<current, stopped>>,
         \A t \in Tasks : status[t] = "running" <=> status'[t] = "running",
         \A t \in Tasks : status[t] = "running" => work_id'[t] = work_id[t],
         epc' = "result" => epc = "result" \/ stopped = Workers
  PROVE  PoolInv'
BY TaskFacts, ZenonT(40) DEF TypeOK, PoolInv

LEMMA StepPoolInv == ExecInv /\ [Next]_vars => PoolInv'
<1> SUFFICES ASSUME ExecInv, [Next]_vars PROVE PoolInv'
  OBVIOUS
<1> USE DEF executorVars, groupVars, taskVars, poolVars, vars
<1>0. TypeOK /\ PoolInv
  BY DEF ExecInv
<1>1. CASE PopGroup
  <2>1. Stacked(node') /\ node' \in Groups
    BY <1>1, PopFacts, PopStacked
  <2>2. \A t \in Tasks : status[t] = "running" => t[1] # node'
    <3> SUFFICES ASSUME NEW t \in Tasks, t[1] = node' PROVE status[t] = "new"
      OBVIOUS
    <3>1. CASE t \in PipelineTasks
      BY <2>1, <3>1, TaskFacts DEF ExecInv, PhaseInv
    <3>2. CASE t \in SortTasks
      BY <2>1, <3>2, TaskFacts DEF ExecInv, PhaseInv
    <3> QED BY <3>1, <3>2, TaskFacts
  <2>3. \A t \in Tasks : status[t] = "running" => work_id'[t] = work_id[t]
    BY <1>1, <2>2, PopInitializes
  <2>4. UNCHANGED <<status, current, stopped>> /\ epc' = "submit"
    BY <1>1 DEF PopGroup
  <2> QED BY <1>0, <2>3, <2>4, PoolInvKept
<1>2. CASE KeepsStack /\ UNCHANGED <<current, stopped>>
           /\ \A t \in Tasks : status[t] = "running" <=> status'[t] = "running"
  <2>1. epc' = "result" => epc = "result" \/ stopped = Workers
    BY <1>2, PositionMoves
  <2> QED BY <1>0, <1>2, <2>1, PoolInvKept DEF KeepsStack
<1>3. ASSUME NEW w \in Workers, StopWorker(w) PROVE PoolInv'
  <2>1. epc = "shutdown" /\ epc' = epc
    BY <1>3 DEF StopWorker
  <2> QED BY <1>0, <1>3, <2>1 DEF StopWorker, Pool!Stop, PoolInv
<1>4. ASSUME NEW t \in Tasks, TakeTask(t) PROVE PoolInv'
  <2>1. /\ status[t] = "queued" /\ current[work_id[t]] = NoTask
        /\ work_id[t] \notin stopped /\ work_id[t] \in Workers
        /\ status' = [status EXCEPT ![t] = "running"]
        /\ current' = [current EXCEPT ![work_id[t]] = t]
        /\ UNCHANGED <<stopped, work_id, epc>>
    BY <1>0, <1>4 DEF TakeTask, Pool!Start, TypeOK
  <2>2. \A u \in Tasks : status'[u] = "running" => current'[work_id'[u]] = u
    BY <1>0, <2>1, TaskFacts DEF TypeOK, PoolInv
  <2>3. \A w \in Workers : current'[w] # NoTask =>
          status'[current'[w]] = "running" /\ work_id'[current'[w]] = w
    BY <1>0, <2>1, TaskFacts DEF TypeOK, PoolInv
  <2>4. \A w \in stopped' : current'[w] = NoTask
    BY <1>0, <2>1 DEF TypeOK, PoolInv
  <2> QED BY <1>0, <2>1, <2>2, <2>3, <2>4 DEF PoolInv
<1>5. ASSUME NEW t \in Tasks, EndTask(t) PROVE PoolInv'
  <2>1. /\ status[t] = "running" /\ current[work_id[t]] = t /\ work_id[t] \in Workers
    BY <1>0, <1>5 DEF EndTask, Running, PoolInv, TypeOK
  <2>2. /\ status' = [status EXCEPT ![t] = "done"]
        /\ current' = [current EXCEPT ![work_id[t]] = NoTask]
        /\ UNCHANGED <<stopped, work_id, epc>>
    BY <1>5, <2>1 DEF EndTask, Pool!Finish
  <2>3. \A u \in Tasks : status'[u] = "running" => current'[work_id'[u]] = u
    BY <1>0, <2>1, <2>2, TaskFacts DEF TypeOK, PoolInv
  <2>4. \A w \in Workers : current'[w] # NoTask =>
          status'[current'[w]] = "running" /\ work_id'[current'[w]] = w
    BY <1>0, <2>1, <2>2, TaskFacts DEF TypeOK, PoolInv
  <2>5. \A w \in stopped' : current'[w] = NoTask
    BY <1>0, <2>1, <2>2 DEF TypeOK, PoolInv
  <2> QED BY <1>0, <2>2, <2>3, <2>4, <2>5 DEF PoolInv
<1>6. CASE SubmitPipeline \/ SubmitSort
  <2>1. UNCHANGED <<current, stopped>> /\ \E u : Pool!Submit(u)
    BY <1>6 DEF SubmitPipeline, SubmitSort, Pool!Submit
  <2>2. \A t \in Tasks : status[t] = "running" <=> status'[t] = "running"
    BY <1>0, <2>1 DEF Pool!Submit, TypeOK
  <2>3. KeepsStack
    BY <1>6 DEF SubmitPipeline, SubmitSort, KeepsStack
  <2> QED BY <1>2, <2>1, <2>2, <2>3
<1>7. \/ UNCHANGED poolVars \/ SubmitPipeline \/ SubmitSort
      \/ \E w \in Workers : StopWorker(w)
      \/ \E t \in Tasks : TakeTask(t) \/ EndTask(t)
  BY DEF Next, ExecutorStep, PopGroup, TestFinish, SleepFinish, NoEvent, TestSort,
     SleepSort, ExecuteReturns, ReadResult, SpuriousWakeup,
     TaskStep, RunStep, ExecuteChunks, ReachBarrier, LeaveBarrier, SecondPhase, TestCount, IncrementCount,
     CheckFinish, MergeRuns, Notify
<1> QED BY <1>1, <1>2, <1>3, <1>4, <1>5, <1>6, <1>7, OnlyPopTakes

-----------------------------------------------------------------------------
(* The inductive invariant *)

LEMMA InitExecInv == Init => ExecInv
<1> SUFFICES ASSUME Init PROVE ExecInv
  OBVIOUS
<1>0. TypeOK
  BY InitTypeOK
<1>1. StackInv
  <2>1. Len(traverse_plan) <= Len(traverse_plan)
    BY PlanTypes
  <2>2. node = NoGroup /\ epc = "next" /\ pipe_stack = traverse_plan
    BY DEF Init
  <2> QED BY <2>1, <2>2 DEF StackInv
<1>2. /\ \A t \in Tasks : step[t] = "body" /\ status[t] = "new"
      /\ \A t \in PipelineTasks : output[t] = "none"
  BY DEF Init, Pool!Init
<1>3. TaskInv
  BY <1>2, TaskFacts DEF Init, TaskInv
<1>4. SortInv
  BY <1>2, TaskFacts DEF Init, SortInv
<1>5. PhaseInv
  <2>1. \A g \in Groups : Stacked(g)
    BY Placed DEF Init, Stacked
  <2> QED BY <1>2, <2>1, TaskFacts DEF Init, PhaseInv
<1>6. PoolInv
  BY <1>2 DEF Init, Pool!Init, PoolInv
<1>7. CountIsExact
  <2> SUFFICES ASSUME NEW g \in Groups
               PROVE  comlete_pipe[g] = Cardinality({i \in Index : Past(<<g, i>>)})
    BY DEF CountIsExact
  <2>1. {i \in Index : Past(<<g, i>>)} = {}
    BY <1>2, TaskFacts DEF Past
  <2> QED BY <2>1, FS_EmptySet DEF Init
<1> QED BY <1>0, <1>1, <1>3, <1>4, <1>5, <1>6, <1>7 DEF ExecInv

(* ExecInv holds in every state the executor, the tasks and the workers    *)
(* reach, for every plan, parallelism and set of workers.                  *)
THEOREM ExecInvHolds == Spec => []ExecInv
<1>1. Init => ExecInv
  BY InitExecInv
<1>2. ExecInv /\ [Next]_vars => ExecInv'
  BY StepTypeOK, StepStackInv, StepTaskInv, StepSortInv, StepPhaseInv, StepPoolInv,
     StepCountIsExact DEF ExecInv
<1> QED BY <1>1, <1>2, PTL DEF Spec

-----------------------------------------------------------------------------
(* What the invariant says of the inputs and of the result *)

LEMMA PastIsFinal ==
  ASSUME ExecInv, NEW t \in PipelineTasks, Past(t)
  PROVE  output[t] = "final" /\ status[t] \in {"running", "done"}
BY DEF ExecInv, TaskInv, Past

LEMMA InvInputs == ExecInv => InputsComplete
<1> SUFFICES ASSUME ExecInv, NEW t \in PipelineTasks, status[t] # "new",
                    NEW k \in 1 .. Len(Deps[t[1]])
             PROVE  /\ Complete(Deps[t[1]][k])
                    /\ \A i \in Index : output[<<Deps[t[1]][k], i>>] = "final"
  BY DEF InputsComplete
<1> DEFINE g == t[1]  d == Deps[g][k]
<1>1. g \in Groups /\ ~Stacked(g)
  BY WidthOf, TaskFacts
<1>2. PICK n \in 1 .. Len(traverse_plan) : traverse_plan[n] = g
  BY <1>1, Placed
<1>3. Len(pipe_stack) \in Nat /\ Len(traverse_plan) \in Nat
  <2>1. pipe_stack \in Seq(Groups)
    BY DEF ExecInv, TypeOK
  <2> QED BY <2>1, PlanTypes
<1>4. Len(pipe_stack) + 1 <= n /\ Len(pipe_stack) <= n
  <2>1. n \notin 1 .. Len(pipe_stack)
    BY <1>1, <1>2 DEF Stacked, ExecInv, StackInv
  <2> QED BY <1>3, <2>1
<1>5. node # NoGroup
  <2>1. Len(pipe_stack) # Len(traverse_plan)
    BY <1>3, <1>4
  <2> QED BY <2>1 DEF ExecInv, StackInv
<1>6. d \in Groups /\ ~Stacked(d) /\ d # node
  BY <1>2, <1>4, <1>5, DepsPopped
<1>7. Complete(d)
  BY <1>6 DEF ExecInv, PhaseInv
<1>8. \A i \in Index : output[<<d, i>>] = "final"
  BY <1>6, <1>7, PastIsFinal, TaskFacts DEF Complete
<1> QED BY <1>7, <1>8

LEMMA InvLocals == ExecInv => SecondPhaseSeesLocals
BY TaskFacts DEF ExecInv, TaskInv, SecondPhaseSeesLocals

LEMMA InvRuns == ExecInv => SortSeesAllRuns
<1> SUFFICES ASSUME ExecInv, NEW g \in Groups, status[SortTask(g)] # "new", NEW i \in Index
             PROVE  output[<<g, i>>] = "final"
  BY DEF SortSeesAllRuns
<1>1. Past(<<g, i>>)
  BY DEF ExecInv, SortInv
<1> QED BY <1>1, PastIsFinal, TaskFacts

LEMMA InvNothingLeft == ExecInv => NothingLeftBehind
<1> SUFFICES ASSUME ExecInv, epc \in {"shutdown", "result"}
             PROVE  /\ \A t \in Tasks : status[t] # "queued"
                    /\ epc = "result" => /\ \A t \in PipelineTasks : status[t] = "done"
                                         /\ \A g \in Groups : Complete(g)
  BY DEF NothingLeftBehind
<1>1. \A g \in Groups : ~Stacked(g)
  BY DEF ExecInv, StackInv, Stacked
<1>2. ASSUME NEW g \in Groups PROVE Complete(g)
  <2>1. CASE g = node
    BY <2>1, PlanAssumption DEF ExecInv, PhaseInv
  <2>2. CASE g # node
    BY <1>1, <2>2 DEF ExecInv, PhaseInv
  <2> QED BY <2>1, <2>2
<1>3. ASSUME NEW t \in PipelineTasks PROVE status[t] \in {"running", "done"}
  BY <1>2, PastIsFinal, TaskFacts DEF Complete
<1>4. ASSUME NEW t \in SortTasks PROVE status[t] # "queued"
  <2>1. t = SortTask(t[1]) /\ t[1] \in Groups /\ t \in Tasks
    BY TaskFacts
  <2>2. CASE Sink[t[1]] = "order"
    <3>1. extra_task[t[1]]
      BY <1>2, <2>1, <2>2 DEF Complete
    <3> QED BY <2>1, <3>1 DEF ExecInv, SortInv
  <2>3. CASE Sink[t[1]] # "order"
    BY <2>1, <2>3 DEF ExecInv, SortInv
  <2> QED BY <2>2, <2>3
<1>5. ASSUME epc = "result", NEW t \in PipelineTasks PROVE status[t] = "done"
  <2>1. current[work_id[t]] = NoTask /\ t # NoTask /\ t \in Tasks
    BY <1>5, TaskFacts DEF ExecInv, PoolInv, TypeOK
  <2> QED BY <1>3, <2>1 DEF ExecInv, PoolInv
<1> QED BY <1>2, <1>3, <1>4, <1>5, TaskFacts

(* comlete_pipe is exactly the number of pipelines of the group that have  *)
(* returned from add_count, however the tests and the increments of the    *)
(* siblings interleave: the test never turns a pipeline away, and no       *)
(* increment goes beyond parallelism, so is_finish is neither early nor    *)
(* missed.                                                                 *)
THEOREM CounterExact == Spec => []CountIsExact
BY ExecInvHolds, PTL DEF ExecInv

(* No pipeline of a group is submitted before every group it reads has     *)
(* completed its sink and its merge sort, whatever the workers' order.     *)
THEOREM InputsAreComplete == Spec => []InputsComplete
BY ExecInvHolds, InvInputs, PTL

(* The second phase of a sink starts when every sibling has ended its      *)
(* first: get_barrier()->wait() lets no pipeline through early.            *)
THEOREM LocalsAreSeen == Spec => []SecondPhaseSeesLocals
BY ExecInvHolds, InvLocals, PTL

(* MergeSortTask is submitted when every pipeline has published its run.   *)
THEOREM RunsAreSeen == Spec => []SortSeesAllRuns
BY ExecInvHolds, InvRuns, PTL

(* The shutdown with which Query ends drops no queued task, and the result *)
(* is read when every pipeline task is done and every group complete.      *)
THEOREM NothingIsLeftBehind == Spec => []NothingLeftBehind
BY ExecInvHolds, InvNothingLeft, PTL

-----------------------------------------------------------------------------
(* Who can be blocked by a pipeline at the barrier *)

(* The pipelines of a group that was popped have workers of their own. *)
WorkInv ==
  \A g \in Groups : ~Stacked(g) =>
    \A i, j \in Index : work_id[<<g, i>>] = work_id[<<g, j>>] => i = j

LEMMA PopSpreads ==
  ASSUME ExecInv, WorkInv, PopGroup, NEW i \in Index, NEW j \in Index,
         work_id'[<<node', i>>] = work_id'[<<node', j>>]
  PROVE  i = j
<1> DEFINE g == node'
<1>1. /\ g \in Groups /\ Len(pipe_stack) \in 1 .. Len(traverse_plan)
      /\ g = traverse_plan[Len(pipe_stack)]
      /\ g = pipe_stack[Len(pipe_stack)]
  BY PopFacts
<1>2. InitializeGroup(g)
  BY <1>1 DEF PopGroup, Last
<1>3. /\ i \in Nat /\ j \in Nat /\ i # Parallelism /\ j # Parallelism
      /\ i + 1 \in 1 .. Parallelism /\ j + 1 \in 1 .. Parallelism
      /\ <<g, i>> \in Tasks /\ <<g, j>> \in Tasks
  <2>1. Parallelism \in Nat
    BY PlanAssumption
  <2>2. /\ i \in Nat /\ j \in Nat /\ i # Parallelism /\ j # Parallelism
        /\ i + 1 \in 1 .. Parallelism /\ j + 1 \in 1 .. Parallelism
    BY <2>1 DEF Index
  <2>3. <<g, i>> \in Tasks /\ <<g, j>> \in Tasks
    BY <1>1, TaskFacts
  <2> QED BY <2>2, <2>3
<1>4. CASE IsScan(g)
  <2>1. Len(Partitions[g]) = Parallelism
    BY <1>1, <1>4, PlanAssumption
  <2>2. \A k \in {i, j} : work_id'[<<g, k>>] = Partitions[g][k + 1]
    BY <1>2, <1>3, <1>4 DEF InitializeGroup
  <2>3. Partitions[g][i + 1] = Partitions[g][j + 1]
    BY <2>2
  <2>4. i + 1 = j + 1
    BY <1>1, <1>3, <2>1, <2>3, PlanAssumption
  <2> QED BY <1>3, <2>4
<1>5. CASE ~IsScan(g)
  <2> DEFINE d == Deps[g][1]
  <2>1. Deps[g] \in Seq(Groups) /\ Deps[g] # <<>>
    BY <1>1, <1>5, PlanAssumption
  <2>2. 1 \in 1 .. Len(Deps[g])
    BY <2>1
  <2>3. d \in Groups /\ ~Stacked(d)
    <3>1. Len(pipe_stack) <= Len(pipe_stack)
      BY <1>1, PlanTypes
    <3> QED BY <1>1, <2>2, <3>1, DepsPopped
  <2>4. \A k \in {i, j} : work_id'[<<g, k>>] = work_id[<<d, k>>]
    BY <1>2, <1>3, <1>5 DEF InitializeGroup
  <2> QED BY <2>3, <2>4 DEF WorkInv
<1> QED BY <1>4, <1>5

LEMMA StepWorkInv == ExecInv /\ WorkInv /\ [Next]_vars => WorkInv'
<1> SUFFICES ASSUME ExecInv, WorkInv, [Next]_vars, NEW g \in Groups, ~Stacked(g)',
                    NEW i \in Index, NEW j \in Index,
                    work_id'[<<g, i>>] = work_id'[<<g, j>>]
             PROVE  i = j
  BY DEF WorkInv
<1>1. CASE KeepsStack
  BY <1>1, StackedKept DEF KeepsStack, WorkInv
<1>2. CASE PopGroup
  <2>1. CASE g = node'
    BY <1>2, <2>1, PopSpreads
  <2>2. CASE g # node'
    <3>1. ~Stacked(g)
      BY <1>2, <2>2, PopStacked
    <3>2. \A k \in Index : work_id'[<<g, k>>] = work_id[<<g, k>>]
      BY <1>2, <2>2, PopInitializes, TaskFacts
    <3> QED BY <3>1, <3>2 DEF WorkInv
  <2> QED BY <2>1, <2>2
<1> QED BY <1>1, <1>2, OnlyPopTakes

\* A pipeline that is queued or at the barrier belongs to the group in work.
LEMMA InWork ==
  ASSUME ExecInv, NEW t \in PipelineTasks, status[t] # "new", ~Past(t)
  PROVE  t[1] \in Groups /\ t[1] = node /\ ~Stacked(t[1])
<1>1. t[1] \in Groups /\ ~Stacked(t[1]) /\ t[2] \in Index /\ t = <<t[1], t[2]>>
  BY WidthOf, TaskFacts
<1>2. ~Complete(t[1])
  BY <1>1 DEF Complete
<1> QED BY <1>1, <1>2 DEF ExecInv, PhaseInv

LEMMA InvWaiters == ExecInv /\ WorkInv => WaitersBlockNobody
<1> SUFFICES ASSUME ExecInv, WorkInv, NEW t \in Tasks, NEW u \in Tasks,
                    Running(t), step[t] = "inBarrier", status[u] = "queued",
                    work_id[t] = work_id[u]
             PROVE  FALSE
  BY DEF WaitersBlockNobody
<1>1. t \in PipelineTasks
  <2>1. ASSUME t \in SortTasks PROVE FALSE
    BY <2>1, TaskFacts DEF ExecInv, SortInv
  <2> QED BY <2>1, TaskFacts
<1>2. ~Past(t) /\ status[t] = "running"
  BY DEF Past, Running
<1>3. t[1] \in Groups /\ t[1] = node /\ ~Stacked(t[1])
  BY <1>1, <1>2, InWork
<1>4. t = <<node, t[2]>> /\ t[2] \in Index
  BY <1>1, <1>3, TaskFacts
<1>5. CASE u \in SortTasks
  <2>1. u = SortTask(u[1]) /\ u[1] \in Groups
    BY <1>5, TaskFacts
  <2>2. Sink[u[1]] = "order" /\ \A i \in Index : Past(<<u[1], i>>)
    BY <2>1 DEF ExecInv, SortInv
  <2>3. u[1] # node
    BY <1>2, <1>4, <2>2
  <2>4. ~Stacked(u[1])
    BY <2>1 DEF ExecInv, PhaseInv
  <2>5. extra_task[u[1]]
    BY <2>1, <2>2, <2>3, <2>4 DEF ExecInv, PhaseInv, Complete
  <2>6. status[u] \in {"running", "done"}
    BY <2>1, <2>5 DEF ExecInv, SortInv
  <2> QED BY <2>6
<1>6. CASE u \in PipelineTasks
  <2>1. ~Past(u)
    BY <1>6, PastIsFinal
  <2>2. u[1] = node
    BY <1>6, <2>1, InWork
  <2>3. u = <<node, u[2]>> /\ u[2] \in Index
    BY <1>6, <2>2, TaskFacts
  <2>4. t[2] = u[2]
    BY <1>3, <1>4, <2>3 DEF WorkInv
  <2> QED BY <1>2, <1>4, <2>3, <2>4
<1> QED BY <1>5, <1>6, TaskFacts

(* A pipeline that waits at the barrier of its group never sits on the     *)
(* worker of a task that is still queued: the siblings it waits for can    *)
(* all be taken, for every plan and every placement of the partitions.     *)
THEOREM WaitersAreOutOfTheWay == Spec => []WaitersBlockNobody
<1>1. Init => WorkInv
  <2> SUFFICES ASSUME Init, NEW g \in Groups PROVE Stacked(g)
    BY DEF WorkInv
  <2> QED BY Placed DEF Init, Stacked
<1>2. ExecInv /\ WorkInv /\ [Next]_vars => WorkInv'
  BY StepWorkInv
<1>3. ExecInv /\ WorkInv => WaitersBlockNobody
  BY InvWaiters
<1> QED BY <1>1, <1>2, <1>3, ExecInvHolds, PTL DEF Spec

-----------------------------------------------------------------------------
(* The refinement *)

PhaseOf(g) ==
  IF Stacked(g) THEN "waiting" ELSE IF Complete(g) THEN "complete" ELSE "active"

phaseFun == [g \in Groups |->
              IF \E i \in 1 .. Len(pipe_stack) : pipe_stack[i] = g THEN "waiting"
              ELSE IF Complete(g) THEN "complete" ELSE "active"]

LEMMA PhaseFun ==
  /\ phaseFun = [g \in Groups |-> PhaseOf(g)]
  /\ phaseFun' = [g \in Groups |-> PhaseOf(g)']
BY DEF phaseFun, PhaseOf, Stacked

\* A group on the stack is not complete.
LEMMA StackedIsNotComplete ==
  ASSUME ExecInv, NEW g \in Groups, Stacked(g)
  PROVE  ~Complete(g)
<1>1. <<g, 0>> \in PipelineTasks /\ status[<<g, 0>>] = "new"
  BY IndexSize, TaskFacts DEF ExecInv, PhaseInv
<1>2. ~Past(<<g, 0>>)
  BY <1>1, PastIsFinal
<1> QED BY <1>2, IndexSize DEF Complete

LEMMA InitSchedule == Init => Schedule!Init
<1> SUFFICES ASSUME Init PROVE phaseFun = [g \in Groups |-> "waiting"]
  BY DEF Schedule!Init, phaseFun
<1>1. \A g \in Groups : Stacked(g)
  BY Placed DEF Init, Stacked
<1> QED BY <1>1, PhaseFun DEF PhaseOf

LEMMA PopActivates ==
  ASSUME ExecInv, [Next]_vars, PopGroup
  PROVE  \E g \in Groups : Schedule!Activate(g)
<1>1. PICK n \in Groups : n = node'
  BY PopFacts
<1>2. Stacked(n) /\ \A g \in Groups : Stacked(g)' <=> Stacked(g) /\ g # n
  BY <1>1, PopStacked
<1>3. UNCHANGED <<step, extra_task>>
  BY DEF PopGroup, taskVars
<1>4. \A g \in Groups : Complete(g)' <=> Complete(g)
  BY <1>3 DEF Complete, Past
<1>5. \A g \in Groups : ~Stacked(g) => Complete(g)
  <2>1. epc = "next"
    BY DEF PopGroup
  <2> QED BY <2>1, PlanAssumption DEF ExecInv, PhaseInv
<1>6. ~Complete(n)
  BY <1>2, StackedIsNotComplete
<1>7. \A g \in Groups : PhaseOf(g)' = IF g = n THEN "active" ELSE PhaseOf(g)
  BY <1>2, <1>4, <1>6 DEF PhaseOf
<1>8. \A h \in Groups : PhaseOf(h) # "active"
  BY <1>5 DEF PhaseOf
<1>9. ASSUME NEW d \in Groups, NEW k \in 1 .. Len(Deps[n]), Deps[n][k] = d
      PROVE  PhaseOf(d) = "complete"
  <2>1. /\ Len(pipe_stack) \in 1 .. Len(traverse_plan)
        /\ n = traverse_plan[Len(pipe_stack)]
    BY <1>1, PopFacts
  <2>2. Len(pipe_stack) <= Len(pipe_stack)
    BY <2>1, PlanTypes
  <2>3. ~Stacked(d)
    BY <1>9, <2>1, <2>2, DepsPopped
  <2> QED BY <1>5, <2>3 DEF PhaseOf
<1>10. phaseFun' = [phaseFun EXCEPT ![n] = "active"]
  BY <1>7, PhaseFun
<1>11. /\ phaseFun[n] = "waiting"
       /\ \A h \in Groups : phaseFun[h] # "active"
       /\ \A d \in Groups : Schedule!DependsOn(n, d) => phaseFun[d] = "complete"
  BY <1>2, <1>8, <1>9, PhaseFun DEF Schedule!DependsOn, PhaseOf
<1>12. Schedule!Activate(n)
  BY <1>10, <1>11 DEF Schedule!Activate, phaseFun
<1> QED BY <1>12

LEMMA OtherwiseCompletes ==
  ASSUME ExecInv, [Next]_vars, KeepsStack
  PROVE  UNCHANGED phaseFun \/ \E g \in Groups : Schedule!Complete(g)
<1>1. \A g \in Groups : Stacked(g)' <=> Stacked(g)
  BY StackedKept
<1>2. \A g \in Groups : Complete(g) => Complete(g)'
  BY CompleteKept
<1>3. CASE \A g \in Groups : ~Stacked(g) => (Complete(g)' <=> Complete(g))
  <2>1. \A g \in Groups : PhaseOf(g)' = PhaseOf(g)
    BY <1>1, <1>3 DEF PhaseOf
  <2> QED BY <2>1, PhaseFun
<1>4. ASSUME NEW g \in Groups, ~Stacked(g), Complete(g)', ~Complete(g)
      PROVE  Schedule!Complete(g)
  <2>1. g = node
    BY <1>4 DEF ExecInv, PhaseInv
  <2>2. ASSUME NEW h \in Groups, h # g PROVE PhaseOf(h)' = PhaseOf(h)
    BY <1>1, <1>2, <2>1, <2>2 DEF PhaseOf, ExecInv, PhaseInv
  <2>3. PhaseOf(g) = "active" /\ PhaseOf(g)' = "complete"
    BY <1>1, <1>4 DEF PhaseOf
  <2>4. phaseFun[g] = "active" /\ phaseFun' = [phaseFun EXCEPT ![g] = "complete"]
    BY <2>2, <2>3, PhaseFun
  <2> QED BY <2>4 DEF Schedule!Complete, phaseFun
<1> QED BY <1>2, <1>3, <1>4

(* The executor implements GroupSchedule for every plan: the groups run    *)
(* one after the other, each once, and each after those it depends on.     *)
THEOREM ExecutionImplementsSchedule == Spec => ImplementsGroupSchedule
<1>1. Init => Schedule!Init
  BY InitSchedule
<1>2. ExecInv /\ [Next]_vars => [Schedule!Next]_phaseFun
  <2> SUFFICES ASSUME ExecInv, [Next]_vars
               PROVE  UNCHANGED phaseFun \/ Schedule!Next
    OBVIOUS
  <2>1. CASE PopGroup
    BY <2>1, PopActivates DEF Schedule!Next
  <2>2. CASE KeepsStack
    BY <2>2, OtherwiseCompletes DEF Schedule!Next
  <2> QED BY <2>1, <2>2, OnlyPopTakes
<1> QED BY <1>1, <1>2, ExecInvHolds, PTL
    DEF Spec, ImplementsGroupSchedule, Schedule!Spec, phaseFun
=============================================================================
