--------------------------- MODULE PipelineBuild ----------------------------
(***************************************************************************)
(* From a physical plan to connected pipelines: build_pipelines and        *)
(* create_child_group cut the tree of operators into pipeline groups,      *)
(* traverse_plan puts the groups on a stack, and Initialize, called for    *)
(* each group as it comes off the stack, copies the pipeline once per      *)
(* partition and connects sources and joins with the sinks they read.      *)
(*                                                                         *)
(* An operator is known by its path from the root, so a plan is a function *)
(* from paths to kinds; child 1 of a join is its build side and child 2    *)
(* its probe side.  While it is built a group has one pipeline, so one     *)
(* record holds both.  Recursive calls are kept on a stack.  RADIX_JOIN,   *)
(* which no query is planned with, is left out, and so is Pipeline::child, *)
(* which is written and never read.                                        *)
(***************************************************************************)
EXTENDS Integers, Sequences, FiniteSets, SequencesExt

CONSTANTS
  Inputs    \* [plan: kind per path, partitions: number per scan]

Root == <<>>
NoOp == <<0>>
Kid(op, i) == Append(op, i)
JoinKinds == {"hash_join", "nested_loop_join"}
SinkKinds == {"result_collector", "order_by", "group_by"}

(* A plan is a finite tree with scans for leaves, a join having two        *)
(* children and every other operator one.                                  *)
ASSUME PlanAssumption ==
  \A inp \in Inputs :
    /\ Root \in DOMAIN inp.plan /\ NoOp \notin DOMAIN inp.plan
    /\ \E depth \in 0 .. Cardinality(DOMAIN inp.plan) :
         \A op \in DOMAIN inp.plan : Len(op) <= depth
    /\ \A op \in DOMAIN inp.plan :
         /\ op \in Seq(Nat)
         /\ inp.plan[op] \in SinkKinds \cup JoinKinds \cup {"operator", "table_scan"}
         /\ inp.plan[op] # "table_scan" => Kid(op, 1) \in DOMAIN inp.plan
         /\ inp.plan[op] \in JoinKinds => Kid(op, 2) \in DOMAIN inp.plan
         /\ op # Root => \E p \in DOMAIN inp.plan :
              \/ op = Kid(p, 1) /\ inp.plan[p] # "table_scan"
              \/ op = Kid(p, 2) /\ inp.plan[p] \in JoinKinds
         /\ inp.plan[op] = "table_scan" => /\ op \in DOMAIN inp.partitions
                                           /\ inp.partitions[op] \in Nat

VARIABLES
  input,        \* the plan that is built, a member of Inputs
  calls,        \* pending calls, the running one first
  groups,       \* the PipelineGroups, in the order they are created
  dfs,          \* groups plan_dfs has still to visit
  pipe_stack,   \* its top is the last element
  count,        \* per group, pipelines.size()
  initialized,  \* per group, pipelines that Pipeline::Initialize has set up
  input_of,     \* per group and pipeline, the sink state its source reads
  table_of,     \* per group, pipeline and join, the sink state it probes
  pc            \* "build", "traverse", "initialize", "ready", "crashed"

buildVars == <<calls, groups>>
traverseVars == <<dfs, pipe_stack>>
wiringVars == <<count, initialized, input_of, table_of>>
vars == <<input, buildVars, traverseVars, wiringVars, pc>>

plan == input.plan

NewGroup(sink) ==
  [source |-> NoOp, operators |-> <<>>, sink |-> sink, dependencies |-> <<>>,
   parent |-> 0]

Init ==
  /\ input \in Inputs
  /\ calls = << [fn |-> "build_pipelines", op |-> Root, group |-> 1] >>
  /\ groups = << NewGroup(NoOp) >>
  /\ dfs = <<1>>
  /\ pipe_stack = <<>>
  /\ count = <<>>
  /\ initialized = <<>>
  /\ input_of = <<>>
  /\ table_of = <<>>
  /\ pc = "build"

-----------------------------------------------------------------------------
(* build_pipelines *)

Running(fn) ==
  /\ pc = "build"
  /\ calls # <<>>
  /\ Head(calls).fn = fn

Call(fn, op, g) == << [fn |-> fn, op |-> op, group |-> g] >>

BuildSink ==
  /\ Running("build_pipelines")
  /\ LET op == Head(calls).op  g == Head(calls).group IN
     /\ plan[op] \in SinkKinds
     /\ groups' = [groups EXCEPT ![g].source = op]
     /\ calls' = Call("create_child_group", op, g) \o Tail(calls)
  /\ UNCHANGED <<input, traverseVars, wiringVars, pc>>

BuildScan ==
  /\ Running("build_pipelines")
  /\ LET op == Head(calls).op  g == Head(calls).group IN
     /\ plan[op] = "table_scan"
     /\ groups' = [groups EXCEPT ![g].source = op]
     /\ calls' = Tail(calls)
  /\ UNCHANGED <<input, traverseVars, wiringVars, pc>>

\* Mutant: the operator is passed over.
BuildOperatorPassedOver ==
  /\ Running("build_pipelines")
  /\ LET op == Head(calls).op  g == Head(calls).group IN
     /\ plan[op] = "operator"
     /\ calls' = Call("build_pipelines", Kid(op, 1), g) \o Tail(calls)
  /\ UNCHANGED <<input, groups, traverseVars, wiringVars, pc>>

BuildOperator ==
  /\ Running("build_pipelines")
  /\ LET op == Head(calls).op  g == Head(calls).group IN
     /\ plan[op] = "operator"
     /\ groups' = [groups EXCEPT ![g].operators = Append(@, op)]
     /\ calls' = Call("build_pipelines", Kid(op, 1), g) \o Tail(calls)
  /\ UNCHANGED <<input, traverseVars, wiringVars, pc>>

\* Mutant: the build side is built before the probe side.
BuildJoinBuildFirst ==
  /\ Running("build_pipelines")
  /\ LET op == Head(calls).op  g == Head(calls).group IN
     /\ plan[op] \in JoinKinds
     /\ groups' = [groups EXCEPT ![g].operators = Append(@, op)]
     /\ calls' = Call("create_child_group", op, g)
                 \o Call("build_pipelines", Kid(op, 2), g) \o Tail(calls)
  /\ UNCHANGED <<input, traverseVars, wiringVars, pc>>

\* The probe side goes on in this pipeline; then the build side's group.
BuildJoin ==
  /\ Running("build_pipelines")
  /\ LET op == Head(calls).op  g == Head(calls).group IN
     /\ plan[op] \in JoinKinds
     /\ groups' = [groups EXCEPT ![g].operators = Append(@, op)]
     /\ calls' = Call("build_pipelines", Kid(op, 2), g)
                 \o Call("create_child_group", op, g) \o Tail(calls)
  /\ UNCHANGED <<input, traverseVars, wiringVars, pc>>

\* Mutant: a join takes the parent over from the source.
CreateOverwritingParent ==
  /\ Running("create_child_group")
  /\ LET op == Head(calls).op
         g == Head(calls).group
         new == Len(groups) + 1
     IN
     /\ groups' = Append([groups EXCEPT ![g].dependencies = Append(@, new),
                                        ![g].parent = new],
                         NewGroup(op))
     /\ calls' = Call("build_pipelines", Kid(op, 1), new) \o Tail(calls)
  /\ UNCHANGED <<input, traverseVars, wiringVars, pc>>

\* A join's group becomes the parent only if there is none yet.
CreateChildGroup ==
  /\ Running("create_child_group")
  /\ LET op == Head(calls).op
         g == Head(calls).group
         new == Len(groups) + 1
     IN
     /\ groups' = Append([groups EXCEPT ![g].dependencies = Append(@, new),
                                        ![g].parent =
                            IF plan[op] \in JoinKinds /\ @ # 0 THEN @ ELSE new],
                         NewGroup(op))
     /\ calls' = Call("build_pipelines", Kid(op, 1), new) \o Tail(calls)
  /\ UNCHANGED <<input, traverseVars, wiringVars, pc>>

BuildDone ==
  /\ pc = "build"
  /\ calls = <<>>
  /\ pc' = "traverse"
  /\ count' = [g \in DOMAIN groups |-> 1]
  /\ initialized' = [g \in DOMAIN groups |-> 0]
  /\ input_of' = [g \in DOMAIN groups |-> <<>>]
  /\ table_of' = [g \in DOMAIN groups |-> <<>>]
  /\ UNCHANGED <<input, buildVars, traverseVars>>

-----------------------------------------------------------------------------
(* traverse_plan *)

\* Mutant: the groups are queued, not stacked.
PlanQueued ==
  /\ pc = "traverse"
  /\ dfs # <<>>
  /\ pipe_stack' = <<Head(dfs)>> \o pipe_stack
  /\ dfs' = groups[Head(dfs)].dependencies \o Tail(dfs)
  /\ UNCHANGED <<input, buildVars, wiringVars, pc>>

PlanDfs ==
  /\ pc = "traverse"
  /\ dfs # <<>>
  /\ pipe_stack' = Append(pipe_stack, Head(dfs))
  /\ dfs' = groups[Head(dfs)].dependencies \o Tail(dfs)
  /\ UNCHANGED <<input, buildVars, wiringVars, pc>>

TraverseDone ==
  /\ pc = "traverse"
  /\ dfs = <<>>
  /\ pc' = "initialize"
  /\ UNCHANGED <<input, buildVars, traverseVars, wiringVars>>

-----------------------------------------------------------------------------
(* PipelineGroup::Initialize and Pipeline::Initialize; pipelines count     *)
(* from 0.                                                                 *)

IsScan(g) == plan[groups[g].source] = "table_scan"
Dep(g, k) == groups[g].dependencies[k]

\* Mutant: one pipeline too few.
ParallelismOneLess(g) ==
  IF IsScan(g) THEN input.partitions[groups[g].source]
               ELSE count[Dep(g, 1)] - 1

\* parallelism_count
ParallelismCount(g) ==
  IF IsScan(g) THEN input.partitions[groups[g].source] ELSE count[Dep(g, 1)]

\* Where the joins are among the operators of the pipeline.
Joins(g) ==
  {k \in DOMAIN groups[g].operators : plan[groups[g].operators[k]] \in JoinKinds}

SinkKind(g, m) ==
  IF m <= Len(groups[g].dependencies) THEN plan[groups[Dep(g, m)].sink]
                                      ELSE "none"

\* Mutant: the dependency of the source is not skipped.
SlotNoSkip(g) == [k \in Joins(g) |-> Cardinality({l \in Joins(g) : l >= k})]

\* count_pg when the operators from the last down to position k are through: a
\* join takes the next dependency, or skips one whose sink is not of its type.
CountPg(g) ==
  LET operators == groups[g].operators
      count_pg[k \in 1 .. Len(operators) + 1] ==
        IF k = Len(operators) + 1 THEN 0
        ELSE IF k \notin Joins(g) THEN count_pg[k + 1]
        ELSE IF SinkKind(g, count_pg[k + 1] + 1) # plan[operators[k]]
             THEN count_pg[k + 1] + 2
             ELSE count_pg[k + 1] + 1
  IN  count_pg

\* The position of the dependency each join is connected to.
Slot(g) == [k \in Joins(g) |-> CountPg(g)[k]]

\* pipeline->parent: copies get theirs from dependencies[0].
Parent(g, i) ==
  IF i = 0 THEN <<groups[g].parent, 0>> ELSE <<Dep(g, 1), i>>

\* Every pipeline that is looked up by its index is there.
InRange(g) ==
  LET n == ParallelismCount(g) IN
  /\ groups[g].dependencies # <<>> /\ n > 1 => n <= count[Dep(g, 1)]
  /\ \A k \in DOMAIN Slot(g) :
       /\ Slot(g)[k] \in DOMAIN groups[g].dependencies
       /\ n <= count[Dep(g, Slot(g)[k])]

Top == Last(pipe_stack)

Initialize ==
  /\ pc = "initialize"
  /\ pipe_stack # <<>>
  /\ InRange(Top)
  /\ LET n == ParallelismCount(Top) IN
     /\ count' = [count EXCEPT ![Top] = IF n > 1 THEN n ELSE 1]
     /\ initialized' = [initialized EXCEPT ![Top] = n]
     /\ input_of' = [input_of EXCEPT ![Top] =
          [i \in 0 .. n - 1 |-> IF IsScan(Top) THEN <<0, i>>
                                               ELSE Parent(Top, i)]]
     /\ table_of' = [table_of EXCEPT ![Top] =
          [i \in 0 .. n - 1 |->
             [k \in DOMAIN Slot(Top) |-> <<Dep(Top, Slot(Top)[k]), i>>]]]
  /\ pipe_stack' = Front(pipe_stack)
  /\ UNCHANGED <<input, buildVars, dfs, pc>>

\* A vector is indexed past its end.
InitializeFails ==
  /\ pc = "initialize"
  /\ pipe_stack # <<>>
  /\ ~InRange(Top)
  /\ pc' = "crashed"
  /\ UNCHANGED <<input, buildVars, traverseVars, wiringVars>>

InitializeDone ==
  /\ pc = "initialize"
  /\ pipe_stack = <<>>
  /\ pc' = "ready"
  /\ UNCHANGED <<input, buildVars, traverseVars, wiringVars>>

Next ==
  \/ BuildSink \/ BuildScan \/ BuildOperator \/ BuildJoin
  \/ CreateChildGroup \/ BuildDone
  \/ PlanDfs \/ TraverseDone
  \/ Initialize \/ InitializeFails \/ InitializeDone

Spec == Init /\ [][Next]_vars

-----------------------------------------------------------------------------
(* Every variable has the type its declaration gives it. *)
TypeOK ==
  /\ \A i \in DOMAIN calls :
       /\ calls[i].fn \in {"build_pipelines", "create_child_group"}
       /\ calls[i].op \in DOMAIN plan
       /\ calls[i].group \in DOMAIN groups
  /\ \A g \in DOMAIN groups :
       /\ groups[g].source \in DOMAIN plan \cup {NoOp}
       /\ groups[g].operators \in Seq(DOMAIN plan)
       /\ groups[g].sink \in DOMAIN plan \cup {NoOp}
       /\ groups[g].dependencies \in Seq(DOMAIN groups)
       /\ groups[g].parent \in DOMAIN groups \cup {0}
  /\ dfs \in Seq(DOMAIN groups)
  /\ pipe_stack \in Seq(DOMAIN groups)
  /\ pc \in {"build", "traverse", "initialize", "ready", "crashed"}

\* Where a pipeline that has op goes on: a join's probe side, or the one child.
Down(op) == Kid(op, IF plan[op] \in JoinKinds THEN 2 ELSE 1)

(* How many partitions feed the pipelines in which op runs. *)
Width(op) ==
  LET width[p \in DOMAIN plan] ==
        IF plan[p] = "table_scan" THEN input.partitions[p] ELSE width[Down(p)]
  IN  width[op]

JoinsOfPlan == {op \in DOMAIN plan : plan[op] \in JoinKinds}
NoEmptyTable == \A op \in DOMAIN input.partitions : input.partitions[op] > 0

\* The operator objects a group holds, with the part each plays.
PlacesOf(g) ==
  {<<groups[g].operators[k], "operator">> : k \in DOMAIN groups[g].operators}
  \cup {<<groups[g].source, "source">>, <<groups[g].sink, "sink">>}
Places == (UNION {PlacesOf(g) : g \in DOMAIN groups}) \ {<<NoOp, "sink">>}

(***************************************************************************)
(* The groups are the plan, cut at its sinks: every operator of the plan   *)
(* is in the pipelines in each part it plays, a sink that is read as a     *)
(* source, a join as the operator that probes and the sink that builds,    *)
(* and the operators of a pipeline follow one another down to its source.  *)
(***************************************************************************)
GroupsAreThePlan ==
  pc = "traverse" =>
    /\ Places =
         {<<op, "operator">> : op \in {p \in DOMAIN plan :
                                  plan[p] \in JoinKinds \cup {"operator"}}}
         \cup {<<op, "source">> : op \in {p \in DOMAIN plan :
                                  plan[p] \in SinkKinds \cup {"table_scan"}}}
         \cup {<<op, "sink">> : op \in {p \in DOMAIN plan :
                                  plan[p] \in SinkKinds \cup JoinKinds}}
    /\ \A g \in DOMAIN groups :
         LET chain == groups[g].operators \o <<groups[g].source>> IN
         /\ \A k \in 1 .. Len(chain) - 1 : chain[k + 1] = Down(chain[k])
         /\ groups[g].sink # NoOp => chain[1] = Kid(groups[g].sink, 1)

(***************************************************************************)
(* A pipeline whose source is an aggregation, a sort or the collector      *)
(* reads the output of a pipeline that ends in this very operator, in the  *)
(* pipeline of the group and in its copies.                                *)
(***************************************************************************)
SourceReadsItsSink ==
  \A g \in DOMAIN input_of : \A i \in DOMAIN input_of[g] :
    ~IsScan(g) => /\ input_of[g][i][1] # 0
                  /\ groups[input_of[g][i][1]].sink = groups[g].source
                  /\ input_of[g][i][2] = i

(***************************************************************************)
(* A join probes hash tables that its own build side has filled, however   *)
(* many joins follow each other in a pipeline and whatever its source is.  *)
(***************************************************************************)
JoinProbesItsTable ==
  \A g \in DOMAIN table_of : \A i \in DOMAIN table_of[g] :
    \A k \in DOMAIN table_of[g][i] :
      /\ groups[table_of[g][i][k][1]].sink = groups[g].operators[k]
      /\ table_of[g][i][k][2] = i

(***************************************************************************)
(* A sink state that is handed on exists: the pipeline it belongs to was   *)
(* set up before, as the stack of groups is to ensure.  Tables without     *)
(* data have no pipelines to set up.                                       *)
(***************************************************************************)
StatesExist ==
  NoEmptyTable =>
    /\ \A g \in DOMAIN input_of : \A i \in DOMAIN input_of[g] :
         ~IsScan(g) => i < initialized[input_of[g][i][1]]
    /\ \A g \in DOMAIN table_of : \A i \in DOMAIN table_of[g] :
         \A k \in DOMAIN table_of[g][i] :
           i < initialized[table_of[g][i][k][1]]

(***************************************************************************)
(* No pipeline is looked up past the end of its group as long as no join   *)
(* has fewer build pipelines than probe pipelines.                         *)
(***************************************************************************)
LookupsInRange ==
  NoEmptyTable /\ (\A op \in JoinsOfPlan : Width(Kid(op, 1)) >= Width(op))
    => pc # "crashed"

(***************************************************************************)
(* A chunk is probed against the tables of all build pipelines as long as  *)
(* no join has more build pipelines than probe pipelines.                  *)
(***************************************************************************)
EveryTableProbed ==
  pc = "ready" /\ NoEmptyTable
  /\ (\A op \in JoinsOfPlan : Width(Kid(op, 1)) <= Width(op))
    => \A g, b \in DOMAIN groups : \A k \in Joins(g) :
         groups[b].sink = groups[g].operators[k] =>
           \A j \in 0 .. initialized[b] - 1 :
             \E i \in 0 .. initialized[g] - 1 : table_of[g][i][k] = <<b, j>>
=============================================================================
