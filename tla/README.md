# DaseX in TLA+

DaseX is a parallel, push-based query engine in C++: a SQL statement is bound,
planned and optimised, turned into a tree of physical operators, cut into groups
of pipelines, and the groups are executed one after the other on a pool of
worker threads.  This directory holds TLA+ modules for the parts whose
correctness depends on the order in which threads act, on chunk boundaries, on
how pipelines are wired together, on what a crash leaves behind or on how
selections, partial aggregates and sorted runs are put together again, TLC
configurations that check them on small instances, and TLAPS proofs of the main
results.

## 1. The system and its parts

| part | state | operations | interacts with |
| --- | --- | --- | --- |
| worker pool (`sche/worker`, `sche/scheduler`) | per worker a hard and a soft queue, `is_running`, `work_state`; `periodic`, `idle_workers` | `work`, `submit_task`, `shutdown`, the periodic check | takes tasks from the executor and from the catalog's loader |
| barrier (`sche/barrier.hpp`) | `arrive_thread_count`, `m_release` | `wait` | called by sinks, one barrier per pipeline group |
| executor (`pipeline/execute`, `pipeline_task`, `pipeline_group`, `merge_sort_task`) | the stack of groups; per group `parallelism`, `comlete_pipe`, `event`, `extra_task` | `traverse_plan`, `execute`, the tasks' `operator()`, `add_count` | submits to the pool, is notified by tasks |
| pipeline construction (`physical_operator.cpp`, `pipeline_group.cpp`, `Pipeline::Initialize`) | groups, their dependencies and parents, which sink state each source and join reads | `build_pipelines`, `create_child_group`, `plan_dfs`, `Initialize`, `Copy` | reads the plan, decides what the executor runs |
| pipeline (`pipeline/pipeline.cpp`) | `temporary_chunk`, `is_final_chunk`, source and sink states | `execute_pipeline` | calls source, operators and sink chunk by chunk |
| hash join (`operator/join/hashjoin`) | per pipeline a table of buckets with tags; `uniqueNumbers`, `probe_states` | `sink`/`Build`, `execute_operator`/`Probe`, `GetJoinResult` | a probe reads the tables of all build pipelines |
| aggregation (`operator/agg`) | per pipeline a table of buckets for each partition, or a map, or the states alone | `sink`, `local_agg`, `global_agg`, `get_data` | behind the barrier each pipeline merges its partition of all siblings' tables |
| ORDER BY (`operator/order`, `arrow_help.cpp`) | `order_cache`, the local run and its index, `global_sort_data` | `sink`, `SortInLocal`, the merge task, `get_data` | the merge task runs after the group, on the pool |
| filter and projection (`expression`, `function`, `vector_operations`) | the selection vector; per CASE a selection kept in the operator's state | `Select`, `Execute`, the kernels, LIKE, arithmetic | called chunk by chunk by the pipeline |
| other operators (`operator/*`) | local and global source and sink states | `get_data`, `execute_operator`, `sink` | read and write `temporary_chunk` |
| catalog (`storage/catalog`) | tables in memory, metadata and the file number in leveldb, data files | register, delete, open, load, insert, get | loads run on a worker pool of their own; scans read its partitions |
| binder, planner, optimizer, pipe | plan trees | pure translations | |
| query handler (`sql/query_handler.cpp`) | the result | `Query` | builds the pipelines, executes, shuts the pool down, reads the result |

What is hard: neither the pool nor the executor holds the mutex of its condition
variable when it changes what the sleeper tests; the two-phase sinks read each
other's state across a barrier; a single counter decides when the next group may
read what the last one wrote; the pool is shut down while tasks are still
ending; the chunk protocol lets a final chunk be empty or full; joins find their
tables by counting dependencies of the group; state of a join operator must
outlive one table of a chunk but not the chunk; a selection must be mapped back
through every slice; tables of one partition grow on their own before they are
merged; a chunk becomes part of a table in four writes to two stores.
`PROJECT.json` lists these hazards with the line where each bites.

What makes each part correct:

- *pool*: a submitted task is run at most once and never lost from the queues,
  not even while it is moved; hard tasks come first; after `shutdown` nothing runs;
- *barrier*: nobody gets through before all have come; all get through;
- *executor*: a group runs only on complete inputs, each group once, and the
  result is read when nothing writes to it;
- *construction*: the pipelines are the plan, each source and join reads the
  sink it belongs to, which exists by then;
- *chunk loop*: every row reaches the sink as often as the operators say, and
  the sink is closed once;
- *hash join*: the result is the join of all rows, however they are spread over
  pipelines, chunks and buckets;
- *aggregation*: every group comes out once, with the aggregates of all its rows;
- *ORDER BY*: the result is the rows, each once, in the order of the keys;
- *expressions*: the filter keeps the rows of the condition and the projection
  gives each its own value, as SQL means them;
- *catalog*: a recorded chunk survives a crash at any step, and a scan reads each
  recorded chunk once.

## 2. The modules

| module | models | extends or instantiates |
| --- | --- | --- |
| `TaskPool` | what the pool promises: a task is submitted, started by one worker, finished, once each; a stopped worker starts nothing | |
| `WorkerPool` | `Worker`, `SafeQueue`, `Scheduler` with the periodic thread | implements `TaskPool` |
| `WorkerPoolProofs` | proofs about `WorkerPool`, the refinement among them | |
| `Rendezvous` | what a barrier promises | |
| `Barrier`, `BarrierProofs` | `Barrier::wait`; proofs | implements `Rendezvous` |
| `GroupSchedule` | what the executor promises: groups one at a time, each after those it depends on | |
| `PipelineExecution`, `PipelineExecutionProofs` | executor, tasks, counter, event, barrier, query handler; proofs | uses the pool as `TaskPool` and the barrier as `Rendezvous`; implements `GroupSchedule` |
| `PipelineBuild`, `PipelineBuildProofs` | construction and wiring of the pipelines; proofs | |
| `ChunkFlow`, `ChunkFlowProofs` | the loop of one pipeline with its sources, operators and sinks; proofs | |
| `HashJoin`, `HashJoinProofs` | hash tables, tag filter, inner, semi and anti results; proofs | |
| `VectorOperations` | the six comparison kernels with their type cases | |
| `ScalarFunctions` | LIKE, arithmetic, the prompt function | extends `VectorOperations` |
| `ExpressionExecutor` | `Select` and `Execute` over the chunks of a query, filter and projection | extends `ScalarFunctions` |
| `AggregationState` | the states of COUNT, SUM, AVG, MIN, MAX | |
| `Aggregation` | both hash aggregations, with and without GROUP BY | extends `AggregationState` |
| `OrderBy`, `OrderByProofs` | the sink of ORDER BY and the merge of its runs; proofs | |
| `Catalog`, `CatalogProofs` | tables, metadata, file numbers, data files, loads, crashes; proofs | |
| `MC*` | the instances TLC runs on | |

The composition is by contract: `PipelineExecution` has the variables of
`TaskPool` (`status`, `current`, `stopped`), which `WorkerPool` is shown to
implement, and lets a pipeline leave its barrier when all of the group have
arrived, which is what `Rendezvous` says and `Barrier` is shown to implement.  A
whole chunk loop is one step there; `ChunkFlow` shows that it ends and closes
its sink once.  That groups come off the stack after the groups they depend on
is assumed there of the plan (`StackAssumption`) and shown in `PipelineBuild`.

### WorkerPool

One action per step of `Worker::work` that another thread can see: the test of
`is_running`, the tests of the two queues, entering `cv.wait` (which releases
`worker_mutex` and sleeps in one step), the two dequeues, the start and the end
of the task.  `submit_task` is two steps, enqueue and notify, and so are the flag
and the notification of `shutdown`; neither holds `worker_mutex`.  The periodic
thread visits the workers one after the other; the size of a queue and a
worker's state are read in one step and used in later ones.  `is_running` is a
plain `bool`; a worker reads it between two mutex operations, so it is modelled
as read from memory each time.  `overtaken` is a history variable: how often a
soft task was taken while a hard one waited since the worker's last look.
NUMA binding is left out.

### Barrier

`wait()` is one step for the last arrival and two for the others (arrive and
sleep; test again after a wake-up), because `m_cv.wait` with a predicate tests
and sleeps under the mutex.  `entered`, `left` and `generation` are history.

### PipelineExecution

The executor: pop a group and initialise it (`parallelism`, `work_id`), submit
its pipelines one by one, test `is_finish`, sleep on `cv_`; after a group with a
sort event submit the merge-sort task and wait for `extra_task` the same way;
`shutdown` worker by worker; read the result.  A pipeline task: chunks up to the
final one, the barrier, the second phase, the test and the increment of
`add_count`, test of `is_finish`, notification, end.  Testing the predicate and going to sleep are two steps, since
the tasks change what is tested without taking `lock_`.

### PipelineBuild

A plan is a function from paths to kinds of operators.  Recursive calls of
`build_pipelines` and `create_child_group` are on a stack of pending calls, so
that the order in which a join's probe and build sides are visited is the
code's.  `Initialize` sets, per pipeline, which sink state its source reads and
which each of its joins probes, with the code's counting of dependencies.  A
lookup past the end of a group ends in `crashed`.

### ChunkFlow

A chunk is a sequence of row numbers, or missing (`NoChunk`, a null
`temporary_chunk`).  The sources are the table scan, the two
aggregations and ORDER BY with its share per pipeline; operators are filters (any
prefix or suffix of the rows), projections and joins (0, 1 or 2 rows for each);
sinks differ in whether they take the rows of the final chunk.  `max_chunks` is
10^13 and treated as infinite; the branch for `source == nullptr` cannot be
reached.

### HashJoin

A hash is the set of its bits, so that the tag test is set inclusion and
collisions are real: `Hashs` shifts column `k` by `k` and xors.  Buckets are
chosen by the low `radix_bits`.  Each build pipeline has its own table; a probe
takes one table after the other, with `uniqueNumbers` (semi) and the bitmap of
the table before (anti).  Keys are non-negative INT32; the other column types
have the same control, but for floats, which the join compares with an
`AreAlmostEqual` of its own (`join_hashtable.cpp:11`) that is not modelled.  LEFT
and RIGHT joins are left out (`GatherData` no longer fills `left_result`), OUTER
throws, and the Bloom filter is filled but not read.

### VectorOperations, ScalarFunctions, ExpressionExecutor

A kernel takes two columns, a count and a selection, and returns the narrowed
selection; the loop that every kernel runs is `Keep`, and each of the six kernels
has one definition per type of its left column.  FLOAT and DOUBLE cells are
thousandths; `Cents` is the code's rounding to two places, and `FloatAbove` and
`FloatBelow` name the hundredths whose nearest float is not the nearest double, so
that the mixed comparisons differ where the build's do.  `areAlmostEqual` takes
cells for equal whose rounded doubles differ by less than 0.01; `StepBelow` names
the hundredths whose difference from the next one comes out below that (0.68 and
0.69 do, 0.70 and 0.71 do not).  Strings are short
sequences of character codes, because LIKE is about them; `Find` stands for three
searches that differ in speed only.  A failed assertion (the build has no
NDEBUG), an exception or a null pointer is `Threw` and ends in `pc = "aborted"`;
a read through the wrong array type gives `Garbage`.  One query is a filter, a
projection and a list of chunks; the selection a CASE keeps between chunks is the
variable it is in the code.  What the expressions mean is defined row by row
(`Holds`, `Value`, `Like`) without selections.  Integer overflow and division by
zero are outside the values used.

### AggregationState, Aggregation

Three operators share one module: `MULTI` (`PhysicalMultiFieldHashAgg`), and
`SINGLE` and `ALL` (`PhysicalHashAgg` with and without GROUP BY).  A pipeline
sinks its chunks, comes to the barrier, merges one sibling per step and makes its
result, so that pipelines merge in every order.  The code's 131072 buckets and
threshold of 16 are constants; the hash of a pair is the code's, on small
numbers.  `MergeCrashes` is the read behind the smaller table's bucket map.
Values are integers and null; an average is in thousandths.

### OrderBy

Rows have keys and an identity; arrow's `SortIndices` (external, nulls last, stable)
is the set of permutations that sort a run, the merge task keeps one element per run
and takes one that no other comes before.  The heap's choice among equal elements is
any.  A pipeline without rows has `NoRun`, the null `sort_data`.

### Catalog

`meta`, `file_keys` and `global_file_number` are what leveldb holds, `files` the
data files, `objects` the `Table` objects made since the database was opened and
`tables` the cache.  A load is one task per file, and `insert_data` is the steps a
crash or another task can fall between: columns in memory, file number, file,
key, reader, the bit of the partition with the read of `row_nums`, its write.
`IoError` fails any one of them as the code handles it; `Crash` loses what is in
memory.  A file that does not exist or was not written completely is `NoFile`.  A
load goes through any object `get_table` has handed out, one it returned FAILED for
included: `load_from_files` tests for a null pointer only.  `put`, `faulted`,
`dropped`, `strayed` (partitions that got a key through an object other than the
cached one) and `miscounted` (objects two tasks counted rows in at once, or whose
task got no file number) are history.  `insert_data` locks column by column;
`CatalogAssumption` gives the tasks of a load partitions of their own, as the
callers do, so that columns stay in step.

## 3. The runs

| run | bounds | shows |
| --- | --- | --- |
| `pool_safety` | 1 worker, 3 tasks, threshold 0, `MaxIdle` 2 | types, `TaskInOnePlace`, `BoundedOvertaking`, `JoinedWorkersAreQuiet`, `ImplementsTaskPool`, `AwakeWorkerServes`, with tasks moved on stale information during shutdown |
| `pool_lost_wakeup` | 1 worker, 2 tasks | `SubmittedTaskRuns` fails |
| `barrier_rounds` | 3 threads, 3 rounds | `NobodyLeavesEarly`, `RoundInvariant`, `ImplementsRendezvous`, `EveryoneLeaves` |
| `execution` | 5 groups of 2 pipelines, 3 workers | `CountIsExact`, `InputsComplete`, `SecondPhaseSeesLocals`, `SortSeesAllRuns`, `NothingLeftBehind`, `WaitersBlockNobody`, `GroupCompletes`, `ImplementsGroupSchedule` |
| `chunk_flow` | chunks of 3, tables of up to 5 rows, results of up to 8 | `EveryRowSunk`, `ClosedOnce`, `NeverCrashes`, `PipelineEnds` |
| `pipeline_build` | all plans of depth 2 under the root, many of depth 3, 0 to 2 partitions per table | `GroupsAreThePlan`, `SourceReadsItsSink`, `JoinProbesItsTable`, `StatesExist`, `LookupsInRange`, `EveryTableProbed` |
| `hash_join` | 2 tables of up to 2 rows, 4 hash bits, 2 buckets, 1 or 2 key columns, all comparisons but `<` | `TagsCoverEntries`, `JoinExact` |
| `expressions` | 6 rows in chunks of 1 to 3, all kernels on all numeric pairs, 16 LIKEs, all conjunctions of three leaves, 8 projections | `FilterExact`, `ProjectExact`, `AbortsExplained` |
| `expressions_or` | `a AND (b OR c)` over the same chunks | `AssertionsHold` fails |
| `aggregation` | 3 pipelines, 2 buckets, threshold 1, 12 layouts of rows | `GroupsExact`, `TableConsistent` |
| `order_by` | 3 pipelines, runs of up to 2 rows, 4 rows to choose from, 1 or 2 keys | `MergedInOrder`, `Rearranged` |
| `catalog` | 1 table, 2 schemas, 2 partitions, 2 tasks, chunks of 2, 2 loads, 1 error, 1 crash, 1 deletion | `ChunksDurable`, `ScanReadsTheDisk`, `RowsCounted` |

Why the bounds are enough:

- The races of the pool need one worker, one task in each queue and a third that
  arrives between the two dequeues.  The code moves tasks when a queue holds more
  than 3; the run uses 0 so that the moves happen with few tasks.  A worker that
  was seen idle may be busy, or joined, when it gets the task, with one worker
  too; that moves between several workers are safe is what the theorems add, which
  hold for any number of workers and tasks.
- Three threads are the fewest with a first, a middle and a last arrival, and
  three rounds the fewest in which a slow thread can be two behind if the
  barrier is wrong.
- The five groups are two build sides, an aggregation with a barrier, a sort
  with barrier and event, and the collector; two pipelines per group on three
  workers make some workers busy with none.
- Chunks of 3 rows and results of 0 to 8 cover every remainder, one short of a
  chunk, and two full chunks with a rest.  A `PhysicalHashAgg` source has at most
  one row, because queries are planned with it only without GROUP BY.
- Plans of depth 3 hold chains of three joins of both kinds above every kind of
  source, where counting dependencies can go wrong.
- The keys are chosen so that two different ones have the same hash and a third
  only the same bucket; the code has 18 radix bits and 64 hash bits.
- The rows of `expressions` have a null of most types, a value below zero, cells
  that are equal only after rounding, a FLOAT on either side of its DOUBLE, and
  neighbouring hundredths of which some pairs are taken for equal and some not;
  two chunks suffice for what one leaves to the next, three leaves for every
  nesting of AND and OR that the executor treats differently.
- The layouts of `aggregation` make tables grow in no pipeline, in all alike, or in
  one only; groups meet in two and three pipelines, pipelines are empty, nulls
  come first or late, and hashes collide.  Three pipelines are the fewest in which
  a merge meets a table that is itself being merged into.
- Two runs show a choice, the third an empty run or one used up before the others.
- In `catalog` a load before and one after a crash make a table whose chunks are
  partly reopened and partly new; two tasks on two partitions race for the file
  number and the row count.  `FileNames` is 8 and bounds the numbers from above;
  the wrap itself is left out of the properties, which say so.

Deadlock is not checked where the system may stop: a pool after its shutdown, a
barrier whose threads have gone, a query that has been answered, a catalog whose
bounds are used up.

Properties that hold only in part say so.  `EveryRowSunk` leaves out ORDER BY
sources whose end does not suit the sink (`EndsWell`); `NeverCrashes` leaves out
an ORDER BY over no rows; `StatesExist`, `LookupsInRange` and `EveryTableProbed`
name the tables they need; `JoinExact` leaves out `<` and anti joins with an
empty table after the first, where `GetBit` may read an empty vector
(`ProbeAntiFails`); `ScanReadsTheDisk` leaves out partitions being loaded, that met
an I/O error or got keys through another object than the cached one, tables
deleted before and file numbers beyond eight digits; `RowsCounted` is exact but
for `miscounted` objects.  `FilterExact`, `ProjectExact` and `GroupsExact` hold under
`Exact`, a conjunction of named exceptions, each a defect of section 5; the runs
hold inputs on both sides of each.  `AbortsExplained` says that two of these
defects are the only ones that abort a query.

### Fairness

- `WorkerPool`: weak fairness of each worker, of a notification that is due, of a
  shutdown that has begun and of a step the periodic thread has begun: the
  operating system runs every thread that can run.  Nobody has to submit or to
  shut down, and `cv.wait` need not return by itself.
- `Barrier`: every thread calls `wait()` once, as every pipeline of a group
  reaches its final chunk, and tests again when woken; nobody has to come back.
  `EveryoneLeaves` is about that use.  A barrier used again can stop: a thread of
  the next round clears `m_release` before a slow one has tested it, and the slow
  one then sleeps on while the others wait for it.  Only safety holds there.
- `PipelineExecution`: a thread that is in a task goes on when it can.  Nothing is
  assumed of the executor, which can sleep through a notification, nor that a
  submitted task is taken up, which `pool_lost_wakeup` shows the pool can miss:
  `GroupCompletes` begins where all pipelines of a group have been taken.
- `ChunkFlow`: the thread goes on.

## 4. What is proved

All for any values of the constants that satisfy the assumptions named in the
modules, which TLC evaluates in every run:

- `WorkerPool`: workers are numbered from 0 and there is at least one; `Barrier`:
  its threads are finite and not empty.
- `PipelineExecution` (`PlanAssumption`, `StackAssumption`): every group is on the
  stack once, below those it depends on; a group has at least one pipeline, those
  of a scan are on workers of their own, and there is a worker 0, to which the
  merge sort is sent.
- `PipelineBuild` (`PlanAssumption`): the plan is a finite tree with scans for leaves,
  two children for a join and one for everything else, and every operator but the
  root is a child of another.
- `ChunkFlow` (`InputAssumption`): no chunk of a table is empty (`insert_data` refuses
  those, `catalog.cpp:594`); an operator is a filter, a projection or a join with some
  number of matches for every row; a pipeline of an ORDER BY has a number below the
  parallelism; the result of `PhysicalHashAgg` and one row more are shorter than a
  chunk (4096 rows): it is planned without GROUP BY only (`pipe.cpp:270`) and its
  result is one row.  For a longer one the unsigned difference in its `get_data`
  would wrap.
- `HashJoin` (`JoinAssumption`, `InputAssumption`): any hash width and number of
  buckets up to it; keys of both sides have the same columns; comparisons are one
  per column, or none, as for every INNER join (`pipe.cpp:141`).
- `OrderBy` (`OrderAssumption`, `InputAssumption`): at least one pipeline, each with a
  final chunk, rows told apart by their id, cells that are integers or null.
- `Catalog` (`CatalogAssumption`): any tables, tasks, jobs, faults and crashes; the
  files of one load go to partitions of their own.

- `PoolTypeCorrect`, from `TypeInv`: the types and `Control`, which says that a
  worker holds a task exactly between dequeuing and ending it, the periodic
  thread exactly while it moves one, and that it has an idle worker in hand from
  the moment it decides to move.  Types alone are not inductive: that a dequeued
  task is run, or `idle_workers` has a head, depends on these positions.
- `PoolLosesNoTask`: `Spec => []TaskInOnePlace`.  The inductive form is `OneHome`:
  a task has one home (not yet sent, a worker's hard or soft queue, a worker's
  hand, the periodic thread's hand, done) and is in it once.  Each action takes
  one task from one home to another or moves none.
- `PoolShutdownIsQuiet`, from `Joined`: the workers before the one that shutdown is
  at are dead, and a dead worker stays dead.
- `PoolOvertakesOnce`, from `Overtake`: a task that can still enter a hard queue
  has not been overtaken, nor has one that waits in the hard queue of a worker
  about to take a soft task.  `BoundedOvertaking` alone is not inductive.
- `PoolImplementsTaskPool`: the refinement, one step per action of `WorkerPool`,
  most of them stuttering steps of `TaskPool`.
- `RoundCorrect`, `BarrierSafe`, `BarrierImplementsRendezvous`: `RoundInvariant`
  says that the threads counted are exactly those that have made one call more
  than the barrier has opened, that they are inside, and that `m_release` is down
  while there are any.
- `CounterExact`, `InputsAreComplete`, `LocalsAreSeen`, `RunsAreSeen`,
  `NothingIsLeftBehind`: all from `ExecInv`, for any plan, workers and pipelines per
  group.  It says what is left on the stack (`StackInv`), what the position of a
  pipeline or merge task says of its output, of the barrier and of the pool
  (`TaskInv`, `SortInv`), that a group off the stack other than the current one is
  complete (`PhaseInv`), that a worker holds the task that says it runs there
  (`PoolInv`), and `CountIsExact`.  The last is the heart: `is_finish` compares a
  counter, and only because the counter is the number of pipelines past
  `add_count` does the executor's next step mean that all of them have published.
  That set and the counter grow together, one pipeline at a time (a lemma about
  cardinalities).  `add_count` tests before it increments and other tasks can come
  between the two; that no test refuses a pipeline needs that the counter is below
  the parallelism while any pipeline of the group has not passed.
- `WaitersAreOutOfTheWay`: `Spec => []WaitersBlockNobody`, from `ExecInv` and
  `WorkInv`: the pipelines of a group are on workers of their own, and what is queued
  belongs to the group that the executor is at.
- `ExecutionImplementsSchedule`: `Spec => ImplementsGroupSchedule`; popping a group
  starts it, going on to the next finishes it, everything else stutters.
- `SinkIsClosedOnce`, `LoopNeverCrashes`, from `FlowInv`: before the loop ends no
  source has said FINISHED; how far each source's index can be past its result
  (one, for the signed difference of the grouped aggregation; not at all for the
  unsigned one); there is a chunk once a source was asked, but for an ORDER BY
  without rows.  The shares of an ORDER BY need that `n - (p - 1) * (n \div p)` is
  positive when there are more rows than pipelines.
- `EveryRowIsSunk`: `Spec => []EveryRowSunk`, from `RowInv`.  `Balance`: of every row,
  the copies in the sink and those that will become of the copies in
  `temporary_chunk` are what the operators make of the copies that left the source.
  `StageInv`: the operators end with none left or with an empty chunk, so that a
  chunk that is skipped loses no row.  `GoneInv`: FINISHED comes when all rows have
  left, and an ORDER BY stands at a whole number of chunks until then, which decides
  whether its last answer brings new rows or an old chunk.  That an operator
  multiplies the count of a row, and that slices and flattened chunks add up, are
  lemmas about `Count`, by induction on the length of a sequence: a recursive
  function is shown to exist by extending a shorter one (`RecursionExists`), and a
  set that holds 0 and with every number the next up to n holds all (`UpTo`).
- `SourcesReadTheirSinks`, `StatesAreThere`, from `BuildingInv`, for every plan.
  `CallInv` and `SourceInv`: of the calls pending for a group the one that looks
  for its source, or goes on from it, comes first, so that the group that ends in
  the source becomes the first dependency and the parent, before any join's build
  side.  `WireInv` says what was connected.  `StackInv`: what a group on the stack
  depends on lies above it, or is still to be pushed, or is set up; a group met
  twice is pushed again, which keeps this.  `SetUp`: a group is as wide as its
  source and no wider than the tables its joins probe.
- `JoinsProbeTheirTables`, from `ServeInv` and `TableInv`: the joins of a group are
  served from the deepest up, first those whose build sides have become
  dependencies, behind the source's, then those whose calls are pending, in the
  order of the stack.  So when no call is pending the dependencies are the joins in
  the reverse order of the operators, and the loop that counts in `CountPg` meets
  them so: it skips at most one dependency, the source's, whose sink is of no join's
  kind.  `CountPg` is a recursive function; that it is what its equation says is
  shown with a witness, and its values with the last position that has another.
- `PlanIsCutIntoGroups`, from `CoverInv`: each operator of a pipeline stands where the
  one before it leads (`Links`), and what is below an operator that was met is met,
  or a call for it is pending (`Covers`).  When no call is pending the unmet operator
  with the shortest path would have a parent that was met, so there is none.
- `LookupsStayInRange`, from `WidthInv`: a group that is set up has as many pipelines
  as partitions feed its source, through whatever sinks.  `Width` is found from the
  leaves of the plan up, which needs that the plan is finite.
- `TablesAreProbed`: moreover every group comes off the stack (`RootInv`, `CreatedInv`:
  each group is a dependency of an older one), and no operator stands at two
  positions, so that a join has one group that builds for it.
- `TagFilterSafe`: the tag of a bucket covers the hashes of its entries.
- `JoinIsExact`: `Spec => []JoinExact`, from `JoinInv`.  `TableInv`: a table holds the
  entries of the rows it was given, each in the bucket of its hash.  `ProbeInv`:
  after some tables of a chunk `uniqueNumbers`, or the bitmap, are the rows that
  have met a partner in them.  `ResultInv`: the result is what the passes that are
  done owe it and nothing more.  That a partner is found needs `TagInv` and that
  equal keys have equal hashes.
- `MergeIsInOrder`, `ResultIsRearranged`, from `SortInv`.  `CacheInv` and `RunInv`: what a
  pipeline has cached, and then its run, lists each of its rows once; the run is in
  order.  `HeapInv` and `ResultInv`: the heap holds the first row of each run that is
  not merged, and the result exactly the rows before it.  `OrderInv`: no row of the
  result belongs behind one that is not merged yet.  A row the heap gives is not
  after the heads of the other runs, and so not after what follows them: that needs
  that "not after" is transitive, which is shown with the least key in which two
  rows differ, and that arrow's order and `RecordBatchComparator` agree without nulls.
- `ChunksAreDurable`, from `DiskInv`: numbers in the tasks' hands differ from each
  other, are at most `global_file_number`, and belong to no key until `PutFileKey`;
  a file is complete before its key is written.  `KeysAreForever`: no step takes a
  key away or changes its file.  Both end where file numbers pass eight digits.
- `RowsAreCounted` and `ScanReadsDisk` rest on `BaseInv`.  `TypeInv`: the types, which
  need that the table `get_table` fills from its keys, one key after the other, is a
  table after each.  `LoadInv`: the tasks of a load work on one object, each in its
  partition, and the cache holds objects of the right names.
- `RowsAreCounted`, from `CountInv`: the settled rows of a partition are those it
  counts without the chunk that a task is inserting.  The table's `row_nums`, and
  what a task has read of it, are never more than the settled rows of all partitions,
  and as many while the object is not in `miscounted`.
- `ScanReadsDisk`, from `CacheInv`.  `ChunkInv`: the chunks on disk differ, since their
  rows are of different loads, tasks or lines.  `ScanInv`, for a partition without
  errors of a table that was never deleted, and with no key put through another object
  than the cached one (`View`): the readers are the files of its keys,
  each once, but for the one a task is about to open; `chunk_nums` counts them; the
  columns in memory are the last of these chunks, so that they are all of them when
  `get_data` finds as many, and the files are all of them always.

Only checked with TLC, and why:

- everything under fairness (`AwakeWorkerServes`, `EveryoneLeaves`,
  `GroupCompletes`, `PipelineEnds`), which this prover cannot reach;
- expressions, whose condition trees are evaluated by RECURSIVE operators, and
  aggregation, which uses `Bitwise`; the prover takes neither.

## 5. Where the code differs from what it means to do

Two runs show a disagreement with a comment or an assertion of the code:

- `pool_lost_wakeup`: `submit_task` notifies without `worker_mutex`, and
  `cv.wait` has no predicate; a notification between the test of the queues and
  the sleep is lost.  The notification of `shutdown` is lost the same way, and
  then `join` does not return.
- `expressions_or`: in `a AND (b OR c)` the OR asks for its columns without a
  selection but with the row count that `a` has left, and the kernels' assertion
  on the columns' length fails.

The models also have the following, which the properties name as exceptions or do
not claim:

- A worker that finds `is_running` false leaves its queues as they are;
  `load_from_files` reports that everything is loaded (`DropTask`).
- `comlete_pipe` and `extra_task` change without `lock_`, so the executor can
  sleep through the last notification and `execute` does not return.
- ORDER BY as a source ends with rows in the final chunk; the loop's comment, and
  the sinks that ignore it, expect an empty one (`EndsWell`).
- `<` is compared as `<=` in semi and anti joins.
- LIKE, NOT LIKE and IN take a null for an empty string or 0, and so does every
  condition behind an AND, because slicing by a selection drops the null
  (`NullBlind`).
- An IN that matches nothing leaves the selection it was given (`InUnderOr`).
- FLOAT and DOUBLE that are equal to two places can still be ordered
  (`FloatMeetsDouble`), and cells of neighbouring hundredths, such as 0.05 and 0.06,
  can be equal (`NeighboursMeet`).
- A CASE whose condition holds for a whole chunk keeps that chunk's selection for
  the next one (`StaleSelection`).
- Arithmetic on INT32 with FLOAT, and on DOUBLE with another type, reads the wrong
  bytes (`ReadAsTyped`); a CASE with two types takes the first row's.
- A group that begins with a null takes it for 0 in AVG, MIN and MAX (`NullFirst`);
  `PhysicalHashAgg` takes every null for 0.
- `MaxState::merge` and `MinState::merge` do not set `init`: without GROUP BY, and
  with an empty first pipeline, the last pipeline wins (`UninitializedExtremum`).
- Tables of one partition that grew differently are merged bucket by bucket:
  groups come out twice, or memory behind the smaller map is read
  (`BucketsDiffer`, `MergeCrashes`).
- Groups whose hashes collide double the table with every row (`aggregation_hashtable.cpp:225`).
- The merge of sorted runs takes a null key for 0, the runs have nulls last.
- A load through an object `get_table` returned FAILED for, once another object is in
  the cache, writes files and keys the cached one does not have: scans miss these
  chunks until the database is reopened (`strayed`).
- `delete_table` leaves files and keys; a table of the same name finds them.
- After an I/O error `chunk_nums` is ahead of the readers, and the error is not
  passed on; `row_nums` loses rows when two loads race.
- File names keep eight digits of the file number.

## 6. Not modelled

- `Worker_read` and `Scheduler_read`: the same code under other names.
- Radix joins: no query is planned with them.  LEFT and RIGHT hash joins: no plan
  from SQL reaches them and their result is indexed out of range.
- `QueryHandler::Query` reads the collector of the first pipeline only; that is
  listed as a hazard and not checked.
- Binder, planner, optimizer and `Pipe`: translations of trees without state of
  their own.  Their results are the inputs of the modules here; that the
  translations keep the meaning of a query is not checked.
- The matching of the nested loop join is an input of `ChunkFlow`.
- In the catalog: `DeleteDatabase`, the temporary catalog, the text form of a
  schema, and the parsing of a line, which fits or does not.
- Vendored code, NUMA, CSV, printing.

## 7. Plan

Modelled, in this order: pool, barrier, executor, chunk loop, construction, hash
join, expressions, aggregation, ORDER BY, catalog.

Every safety invariant and action property the passing runs check is a theorem,
but for those of expressions and aggregation (section 4).

Theorems to prove next: type correctness of `HashJoin`, and the tables of
`Aggregation` once its hashing is stated without `Bitwise`.

To model after that: `FilterPushdown` against the meaning of the plan, the nested
loop join's matching, and the query handler's collection of results.
