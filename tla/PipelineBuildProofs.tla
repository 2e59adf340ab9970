------------------------ MODULE PipelineBuildProofs -------------------------
(***************************************************************************)
(* For every plan: the groups are the plan, cut at its sinks; every source *)
(* reads the sink state of the pipeline that ends in it and every join the *)
(* hash tables of its own build side; the states handed on exist; and,     *)
(* with enough pipelines on either side, no lookup is out of range and no  *)
(* table is left out.                                                      *)
(***************************************************************************)
EXTENDS PipelineBuild, SequenceTheorems, WellFoundedInduction, TLAPS

CallSet ==
  [fn : {"build_pipelines", "create_child_group"}, op : DOMAIN plan, group : Nat]
GroupSet ==
  [source : DOMAIN plan \cup {NoOp}, operators : Seq(DOMAIN plan),
   sink : DOMAIN plan \cup {NoOp}, dependencies : Seq(Nat), parent : Nat]

TypeInv ==
  /\ input \in Inputs
  /\ pc \in {"build", "traverse", "initialize", "ready", "crashed"}
  /\ calls \in Seq(CallSet)
  /\ groups \in Seq(GroupSet) /\ Len(groups) >= 1
  /\ pc # "build" => calls = <<>>
  /\ \A k \in DOMAIN calls :
       /\ calls[k].group \in DOMAIN groups
       /\ calls[k].fn = "create_child_group" =>
            plan[calls[k].op] \in SinkKinds \cup JoinKinds
  /\ \A g \in DOMAIN groups : \A m \in DOMAIN groups[g].dependencies :
       groups[g].dependencies[m] \in DOMAIN groups

(* A call that looks for the source of its group, or goes on from it.      *)
(* Everything else that is pending for the group comes after it.           *)
Starts(call) == call.fn = "build_pipelines" \/ plan[call.op] \in SinkKinds

CallInv ==
  \A k \in DOMAIN calls : Starts(calls[k]) =>
    LET g == calls[k].group IN
    /\ groups[g].dependencies = <<>> /\ groups[g].parent = 0
    /\ groups[g].source =
         IF calls[k].fn = "build_pipelines" THEN NoOp ELSE calls[k].op
    /\ \A l \in DOMAIN calls : l # k /\ calls[l].group = g =>
         l > k /\ ~Starts(calls[l])

(* The first dependency and the parent of a group are the group that ends  *)
(* in the source.                                                          *)
Pending(g, fn) == \E k \in DOMAIN calls : calls[k].group = g /\ calls[k].fn = fn
                                         /\ Starts(calls[k])
Fed(g) ==
  /\ groups[g].dependencies # <<>>
  /\ groups[g].parent = groups[g].dependencies[1]
  /\ groups[groups[g].dependencies[1]].sink = groups[g].source

SourceInv ==
  \A g \in DOMAIN groups :
    \/ groups[g].source = NoOp /\ Pending(g, "build_pipelines")
    \/ /\ groups[g].source # NoOp
       /\ plan[groups[g].source] = "table_scan"
    \/ /\ groups[g].source # NoOp
       /\ plan[groups[g].source] \in SinkKinds
       /\ Pending(g, "create_child_group") \/ Fed(g)

BuildInv == TypeInv /\ CallInv /\ SourceInv

(* Where the sink states are that a pipeline was given. *)
WireInv ==
  /\ pc = "build" => /\ dfs = <<1>> /\ pipe_stack = <<>>
                      /\ input_of = <<>> /\ table_of = <<>>
  /\ pc # "build" =>
       /\ dfs \in Seq(DOMAIN groups) /\ pipe_stack \in Seq(DOMAIN groups)
       /\ count \in [DOMAIN groups -> Nat \ {0}]
       /\ initialized \in [DOMAIN groups -> Nat]
       /\ DOMAIN input_of = DOMAIN groups /\ DOMAIN table_of = DOMAIN groups
       /\ \A g \in DOMAIN groups :
            /\ DOMAIN input_of[g] = 0 .. initialized[g] - 1
            /\ DOMAIN table_of[g] = 0 .. initialized[g] - 1
            /\ ~IsScan(g) => \A j \in DOMAIN input_of[g] : input_of[g][j] = <<Dep(g, 1), j>>

(* A group that is set up is as wide as its source, and so are, at least,  *)
(* the groups it reads, which have been set up before.                     *)
SetUp(g) ==
  /\ count[g] = initialized[g] /\ initialized[g] = ParallelismCount(g)
  /\ \A m \in DOMAIN groups[g].dependencies : initialized[Dep(g, m)] > 0
  /\ \A j \in DOMAIN table_of[g] : \A k \in DOMAIN table_of[g][j] :
       \E m \in DOMAIN groups[g].dependencies :
         /\ table_of[g][j][k][1] = Dep(g, m)
         /\ initialized[g] <= initialized[Dep(g, m)]

SetUpInv ==
  pc # "build" => \A g \in DOMAIN groups : initialized[g] > 0 => SetUp(g)

(* What a group on the stack depends on lies above it, or will be put      *)
(* there, or is set up.                                                    *)
StackInv ==
  /\ pc \in {"initialize", "ready"} => dfs = <<>>
  /\ \A k \in DOMAIN pipe_stack :
       \A m \in DOMAIN groups[pipe_stack[k]].dependencies :
         LET d == Dep(pipe_stack[k], m) IN
         \/ \E l \in DOMAIN pipe_stack : l > k /\ pipe_stack[l] = d
         \/ \E l \in DOMAIN dfs : dfs[l] = d
         \/ pc \in {"initialize", "ready", "crashed"} /\ initialized[d] > 0

OrderInv == NoEmptyTable => SetUpInv /\ StackInv

BuildingInv == BuildInv /\ WireInv /\ OrderInv

-----------------------------------------------------------------------------
(* Stacks of calls *)

LEMMA HeadReplaced ==
  ASSUME NEW S, NEW s \in Seq(S), s # <<>>, NEW c \in S
  PROVE  /\ <<c>> \o Tail(s) \in Seq(S)
         /\ DOMAIN (<<c>> \o Tail(s)) = DOMAIN s
         /\ (<<c>> \o Tail(s))[1] = c
         /\ \A k \in DOMAIN s : k # 1 => (<<c>> \o Tail(s))[k] = s[k]
  OBVIOUS

LEMMA HeadDropped ==
  ASSUME NEW S, NEW s \in Seq(S), s # <<>>
  PROVE  /\ Tail(s) \in Seq(S)
         /\ \A k \in DOMAIN Tail(s) : k \in Nat /\ k + 1 \in DOMAIN s /\ Tail(s)[k] = s[k + 1]
         /\ \A k \in DOMAIN s : k # 1 => k - 1 \in DOMAIN Tail(s) /\ Tail(s)[k - 1] = s[k]
  OBVIOUS

LEMMA HeadDoubled ==
  ASSUME NEW S, NEW s \in Seq(S), s # <<>>, NEW c \in S, NEW d \in S
  PROVE  LET t == <<c>> \o <<d>> \o Tail(s) IN
         /\ t \in Seq(S) /\ 1 \in DOMAIN t /\ 2 \in DOMAIN t /\ t[1] = c /\ t[2] = d
         /\ \A k \in DOMAIN t \ {1, 2} :
              k \in Nat /\ k > 2 /\ k - 1 \in DOMAIN s /\ t[k] = s[k - 1]
         /\ \A k \in DOMAIN s : k # 1 => k + 1 \in DOMAIN t /\ t[k + 1] = s[k]
  OBVIOUS

-----------------------------------------------------------------------------
(* build_pipelines and create_child_group *)

LEMMA HeadFacts ==
  ASSUME BuildInv, NEW fn, Running(fn)
  PROVE  /\ pc = "build" /\ input \in Inputs
         /\ calls \in Seq(CallSet) /\ calls # <<>> /\ 1 \in DOMAIN calls
         /\ DOMAIN calls = 1 .. Len(calls) /\ Len(calls) \in Nat
         /\ Head(calls) = calls[1] /\ calls[1] \in CallSet /\ calls[1].fn = fn
         /\ calls[1].op \in DOMAIN plan /\ calls[1].group \in DOMAIN groups
         /\ groups \in Seq(GroupSet) /\ DOMAIN groups = 1 .. Len(groups)
         /\ Len(groups) \in Nat /\ \A g \in DOMAIN groups : groups[g] \in GroupSet
<1>1. calls \in Seq(CallSet) /\ calls # <<>> /\ pc = "build" /\ Head(calls).fn = fn
  BY DEF BuildInv, TypeInv, Running
<1>2. DOMAIN calls = 1 .. Len(calls) /\ Len(calls) \in Nat /\ 1 \in DOMAIN calls
      /\ Head(calls) = calls[1] /\ calls[1] \in CallSet
  BY <1>1
<1>3. calls[1].op \in DOMAIN plan
  BY <1>2 DEF CallSet
<1>4. calls[1].group \in DOMAIN groups /\ groups \in Seq(GroupSet) /\ input \in Inputs
  BY <1>2 DEF BuildInv, TypeInv
<1> QED BY <1>1, <1>2, <1>3, <1>4

LEMMA PlanKept ==
  ASSUME input' = input
  PROVE  /\ plan' = plan /\ CallSet' = CallSet /\ GroupSet' = GroupSet
         /\ \A call : Starts(call)' = Starts(call)
         /\ NoEmptyTable' = NoEmptyTable
<1>1. plan' = plan
  BY DEF plan
<1> QED BY <1>1 DEF CallSet, GroupSet, Starts, NoEmptyTable

\* A kind is that of a sink, a join, an operator or a scan, and of one only.
LEMMA PlanFacts ==
  ASSUME input \in Inputs
  PROVE  /\ Root \in DOMAIN plan /\ NoOp \notin DOMAIN plan
         /\ \A op \in DOMAIN plan :
              /\ plan[op] # "table_scan" => Kid(op, 1) \in DOMAIN plan
              /\ plan[op] \in JoinKinds => Kid(op, 2) \in DOMAIN plan
              /\ plan[op] = "table_scan" => input.partitions[op] \in Nat
         /\ SinkKinds \cap JoinKinds = {}
         /\ "table_scan" \notin SinkKinds \cup JoinKinds
         /\ "operator" \notin SinkKinds \cup JoinKinds
  BY PlanAssumption DEF plan, SinkKinds, JoinKinds

\* Every operator but the root has a parent.
LEMMA ParentFacts ==
  ASSUME input \in Inputs, NEW op \in DOMAIN plan, op # Root
  PROVE  \E p \in DOMAIN plan : \/ op = Kid(p, 1) /\ plan[p] # "table_scan"
                                \/ op = Kid(p, 2) /\ plan[p] \in JoinKinds
  BY PlanAssumption DEF plan

\* The groups after a change of group g that is not of its sink.
LEMMA GroupChanged ==
  ASSUME NEW g \in DOMAIN groups, groups \in Seq(GroupSet), NEW e \in GroupSet,
         groups' = [groups EXCEPT ![g] = e]
  PROVE  /\ groups' \in Seq(GroupSet) /\ Len(groups') = Len(groups)
         /\ DOMAIN groups' = DOMAIN groups
         /\ groups'[g] = e
         /\ \A h \in DOMAIN groups : h # g => groups'[h] = groups[h]
  OBVIOUS

(* A call of build_pipelines changes the source or the operators of its    *)
(* group and puts n calls of the same group in its own place, of which     *)
(* only the first may still look for the source.                           *)
GroupParsed(g, e) ==
  /\ input' = input /\ pc' = pc /\ g = calls[1].group
  /\ e.dependencies = groups[g].dependencies /\ e.parent = groups[g].parent
  /\ e.sink = groups[g].sink /\ groups' = [groups EXCEPT ![g] = e]

RestKept(n) ==
  /\ calls' \in Seq(CallSet) /\ 1 .. n \subseteq DOMAIN calls'
  /\ \A k \in DOMAIN calls' : k > n =>
       k - n + 1 \in DOMAIN calls \ {1} /\ calls'[k] = calls[k - n + 1]
  /\ \A k \in DOMAIN calls \ {1} :
       k + n - 1 \in DOMAIN calls' /\ calls'[k + n - 1] = calls[k]

CallsPut(n, g, e) ==
  /\ \A k \in 1 .. n :
       /\ calls'[k].group = g
       /\ calls'[k].fn = "create_child_group" =>
            plan[calls'[k].op] \in SinkKinds \cup JoinKinds
       /\ k # 1 => ~Starts(calls'[k])
       /\ Starts(calls'[k]) =>
            e.source = IF calls'[k].fn = "build_pipelines" THEN NoOp ELSE calls'[k].op
  /\ \/ e.source = NoOp /\ n # 0 /\ calls'[1].fn = "build_pipelines"
     \/ e.source # NoOp /\ plan[e.source] = "table_scan"
     \/ /\ e.source # NoOp /\ plan[e.source] \in SinkKinds
        /\ n # 0 /\ calls'[1].fn = "create_child_group" /\ calls'[1].op = e.source

(* It has met the source, or it has put an operator behind the others and  *)
(* goes on below it, the build side of a join being still to come.         *)
ChainPut(n, g, e) ==
  LET op == calls[1].op IN
  \/ /\ e.operators = groups[g].operators /\ e.source = op
     /\ \/ n = 0 /\ plan[op] = "table_scan"
        \/ /\ n = 1 /\ plan[op] \in SinkKinds
           /\ calls'[1].fn = "create_child_group" /\ calls'[1].op = op
  \/ /\ e.operators = Append(groups[g].operators, op) /\ e.source = groups[g].source
     /\ calls'[1].fn = "build_pipelines" /\ calls'[1].op = Down(op)
     /\ \/ n = 1 /\ plan[op] = "operator"
        \/ /\ n = 2 /\ plan[op] \in JoinKinds
           /\ calls'[2].fn = "create_child_group" /\ calls'[2].op = op

Parsed(n, g, e) ==
  GroupParsed(g, e) /\ RestKept(n) /\ CallsPut(n, g, e) /\ ChainPut(n, g, e)

LEMMA ParseKeepsInv ==
  ASSUME BuildInv, Running("build_pipelines"), NEW n \in {0, 1, 2}, NEW g, NEW e \in GroupSet,
         Parsed(n, g, e)
  PROVE  BuildInv'
<1> USE DEF Parsed, GroupParsed, RestKept, CallsPut
<1>1. /\ pc = "build" /\ input \in Inputs
      /\ 1 \in DOMAIN calls /\ DOMAIN calls = 1 .. Len(calls) /\ Len(calls) \in Nat
      /\ calls[1].fn = "build_pipelines"
      /\ g \in DOMAIN groups /\ DOMAIN groups \subseteq Nat
      /\ groups \in Seq(GroupSet) /\ Len(groups) >= 1
      /\ \A h \in DOMAIN groups : groups[h] \in GroupSet
  BY HeadFacts, SMTT(30) DEF BuildInv, TypeInv
<1>2. DOMAIN calls' = 1 .. Len(calls') /\ Len(calls') \in Nat
  OBVIOUS
<1>3. \A k \in DOMAIN calls' : k \in Nat /\ (k \in 1 .. n \/ k > n)
  BY <1>2
<1>4. \A h \in DOMAIN groups : groups[h].dependencies \in Seq(Nat)
  BY <1>1 DEF GroupSet
<1>5. /\ groups' \in Seq(GroupSet) /\ Len(groups') = Len(groups)
      /\ DOMAIN groups' = DOMAIN groups /\ groups'[g] = e
      /\ \A h \in DOMAIN groups : h # g => groups'[h] = groups[h]
  BY <1>1, GroupChanged
<1>6. \A h \in DOMAIN groups : groups'[h].dependencies = groups[h].dependencies
        /\ groups'[h].parent = groups[h].parent /\ groups'[h].sink = groups[h].sink
  BY <1>5
<1>7. \A k \in DOMAIN calls' : Starts(calls[k])' <=> Starts(calls'[k])
  BY PlanKept DEF Starts
<1>8. /\ groups[g].dependencies = <<>> /\ groups[g].parent = 0 /\ groups[g].source = NoOp
      /\ \A l \in DOMAIN calls \ {1} : calls[l].group = g => ~Starts(calls[l])
  BY <1>1 DEF BuildInv, CallInv, Starts
<1>9. TypeInv'
  <2>1. ASSUME NEW k \in DOMAIN calls'
        PROVE  /\ calls'[k].group \in DOMAIN groups
               /\ calls'[k].fn = "create_child_group" =>
                    plan[calls'[k].op] \in SinkKinds \cup JoinKinds
    BY <1>1, <1>3 DEF BuildInv, TypeInv
  <2>2. \A h \in DOMAIN groups' : \A m \in DOMAIN groups'[h].dependencies :
          groups'[h].dependencies[m] \in DOMAIN groups'
    BY <1>5, <1>6 DEF BuildInv, TypeInv
  <2> QED BY <1>1, <1>5, <2>1, <2>2, PlanKept DEF TypeInv
<1>10. CallInv'
  <2> SUFFICES ASSUME NEW k \in DOMAIN calls', Starts(calls'[k])
               PROVE  /\ groups'[calls'[k].group].dependencies = <<>>
                      /\ groups'[calls'[k].group].parent = 0
                      /\ groups'[calls'[k].group].source =
                           IF calls'[k].fn = "build_pipelines" THEN NoOp ELSE calls'[k].op
                      /\ \A l \in DOMAIN calls' :
                           l # k /\ calls'[l].group = calls'[k].group =>
                             l > k /\ ~Starts(calls'[l])
    BY <1>7 DEF CallInv
  <2>1. CASE k \in 1 .. n
    <3>1. k = 1 /\ calls'[k].group = g
      BY <2>1
    <3>2. ASSUME NEW l \in DOMAIN calls', l # k, calls'[l].group = g
          PROVE  l > k /\ ~Starts(calls'[l])
      <4>1. l > 1
        BY <1>2, <3>1, <3>2
      <4>2. CASE l \in 1 .. n
        BY <3>1, <3>2, <4>1, <4>2
      <4>3. CASE l > n
        BY <1>8, <3>1, <3>2, <4>1, <4>3
      <4> QED BY <1>3, <4>2, <4>3
    <3> QED BY <1>1, <1>5, <1>6, <1>8, <2>1, <3>1, <3>2, SMTT(30)
  <2>2. CASE k > n
    <3> DEFINE j == k - n + 1
    <3>1. j \in DOMAIN calls \ {1} /\ calls'[k] = calls[j] /\ Starts(calls[j])
      BY <2>2
    <3>2. calls[j].group # g /\ calls[j].group \in DOMAIN groups
      BY <1>8, <3>1 DEF BuildInv, TypeInv
    <3>3. /\ groups[calls[j].group].dependencies = <<>> /\ groups[calls[j].group].parent = 0
          /\ groups[calls[j].group].source =
               IF calls[j].fn = "build_pipelines" THEN NoOp ELSE calls[j].op
          /\ \A l \in DOMAIN calls : l # j /\ calls[l].group = calls[j].group =>
               l > j /\ ~Starts(calls[l])
      BY <3>1 DEF BuildInv, CallInv
    <3>4. ASSUME NEW l \in DOMAIN calls', l # k, calls'[l].group = calls'[k].group
          PROVE  l > k /\ ~Starts(calls'[l])
      <4>1. l \notin 1 .. n
        BY <3>1, <3>2, <3>4
      <4>2. l > n /\ l \in Nat
        BY <1>3, <4>1
      <4>3. l - n + 1 \in DOMAIN calls /\ calls'[l] = calls[l - n + 1]
        BY <4>2
      <4>4. l - n + 1 # j /\ k \in Nat
        BY <1>3, <3>4, <4>2
      <4>5. l - n + 1 > j /\ ~Starts(calls[l - n + 1])
        BY <3>1, <3>3, <3>4, <4>3, <4>4
      <4> QED BY <4>2, <4>3, <4>4, <4>5
    <3> QED BY <1>5, <3>1, <3>2, <3>3, <3>4
  <2> QED BY <1>3, <2>1, <2>2
<1>11. SourceInv'
  <2> SUFFICES ASSUME NEW h \in DOMAIN groups
               PROVE  \/ groups'[h].source = NoOp /\ Pending(h, "build_pipelines")'
                      \/ /\ groups'[h].source # NoOp
                         /\ plan[groups'[h].source] = "table_scan"
                      \/ /\ groups'[h].source # NoOp
                         /\ plan[groups'[h].source] \in SinkKinds
                         /\ Pending(h, "create_child_group")' \/ Fed(h)'
    BY <1>5, PlanKept DEF SourceInv
  <2>1. CASE h = g
    <3>1. groups'[h].source = e.source
      BY <1>5, <2>1
    <3>2. ASSUME NEW f, n # 0, calls'[1].fn = f, Starts(calls'[1]) PROVE Pending(h, f)'
      <4>1. 1 \in 1 .. n /\ 1 \in DOMAIN calls'
        BY <3>2
      <4> QED BY <1>7, <2>1, <3>2, <4>1 DEF Pending
    <3>3. /\ calls'[1].fn = "build_pipelines" => Starts(calls'[1])
          /\ plan[calls'[1].op] \in SinkKinds => Starts(calls'[1])
      BY DEF Starts
    <3> QED BY <3>1, <3>2, <3>3
  <2>2. CASE h # g
    <3>1. groups'[h] = groups[h]
      BY <1>5, <2>2
    <3>2. ASSUME NEW f, Pending(h, f) PROVE Pending(h, f)'
      <4>1. PICK k \in DOMAIN calls : calls[k].group = h /\ calls[k].fn = f /\ Starts(calls[k])
        BY <3>2 DEF Pending
      <4>2. k + n - 1 \in DOMAIN calls' /\ calls'[k + n - 1] = calls[k]
        BY <2>2, <4>1
      <4> QED BY <1>7, <4>1, <4>2 DEF Pending
    <3>3. Fed(h) => Fed(h)'
      <4> SUFFICES ASSUME Fed(h) PROVE Fed(h)'
        OBVIOUS
      <4>1. 1 \in DOMAIN groups[h].dependencies
        BY <1>4 DEF Fed
      <4>2. groups[h].dependencies[1] \in DOMAIN groups
        BY <4>1 DEF BuildInv, TypeInv
      <4> QED BY <1>6, <3>1, <4>2 DEF Fed
    <3> QED BY <3>1, <3>2, <3>3 DEF BuildInv, SourceInv
  <2> QED BY <2>1, <2>2
<1> QED BY <1>9, <1>10, <1>11 DEF BuildInv

LEMMA BuildSinkParses ==
  ASSUME BuildInv, BuildSink
  PROVE  \E n \in {0, 1, 2} : \E e \in GroupSet : Parsed(n, calls[1].group, e)
<1> DEFINE g == calls[1].group
           op == calls[1].op
           c == [fn |-> "create_child_group", op |-> op, group |-> g]
           e == [groups[g] EXCEPT !.source = op]
<1>1. /\ Running("build_pipelines") /\ input \in Inputs /\ g \in Nat
      /\ calls \in Seq(CallSet) /\ calls # <<>> /\ Head(calls) = calls[1]
      /\ op \in DOMAIN plan /\ groups[g] \in GroupSet
  BY HeadFacts DEF BuildSink
<1>2. /\ input' = input /\ pc' = pc /\ plan[op] \in SinkKinds
      /\ groups' = [groups EXCEPT ![g] = e] /\ calls' = <<c>> \o Tail(calls)
  BY <1>1 DEF BuildSink, Call
<1>3. c \in CallSet /\ e \in GroupSet
  BY <1>1 DEF CallSet, GroupSet
<1>4. /\ e.source = op /\ e.dependencies = groups[g].dependencies
      /\ e.parent = groups[g].parent /\ e.sink = groups[g].sink
      /\ e.operators = groups[g].operators
  BY <1>1 DEF GroupSet
<1>5. /\ calls' \in Seq(CallSet) /\ DOMAIN calls' = DOMAIN calls /\ calls'[1] = c
      /\ \A k \in DOMAIN calls : k # 1 => calls'[k] = calls[k]
  BY <1>1, <1>2, <1>3, HeadReplaced
<1>6. c.fn = "create_child_group" /\ c.op = op /\ c.group = g /\ op # NoOp
  BY <1>1, PlanFacts
<1> HIDE DEF c, e, g, op
<1>7. DOMAIN calls = 1 .. Len(calls) /\ Len(calls) \in Nat \ {0}
  BY <1>1
<1>8. RestKept(1)
  BY <1>5, <1>7 DEF RestKept
<1>9. CallsPut(1, g, e)
  BY <1>2, <1>4, <1>5, <1>6 DEF CallsPut
<1>10. GroupParsed(g, e)
  BY <1>2, <1>4 DEF GroupParsed, g
<1>11. ChainPut(1, g, e)
  BY <1>2, <1>4, <1>5, <1>6 DEF ChainPut, op
<1>12. Parsed(1, g, e)
  BY <1>8, <1>9, <1>10, <1>11 DEF Parsed
<1> QED BY <1>3, <1>12 DEF g

LEMMA BuildScanParses ==
  ASSUME BuildInv, BuildScan
  PROVE  \E n \in {0, 1, 2} : \E e \in GroupSet : Parsed(n, calls[1].group, e)
<1> DEFINE g == calls[1].group
           op == calls[1].op
           e == [groups[g] EXCEPT !.source = op]
<1>1. /\ Running("build_pipelines") /\ input \in Inputs
      /\ calls \in Seq(CallSet) /\ calls # <<>> /\ Head(calls) = calls[1]
      /\ op \in DOMAIN plan /\ groups[g] \in GroupSet
  BY HeadFacts DEF BuildScan
<1>2. /\ input' = input /\ pc' = pc /\ plan[op] = "table_scan"
      /\ groups' = [groups EXCEPT ![g] = e] /\ calls' = Tail(calls)
  BY <1>1 DEF BuildScan
<1>3. e \in GroupSet
  BY <1>1 DEF GroupSet
<1>4. /\ e.source = op /\ e.dependencies = groups[g].dependencies
      /\ e.parent = groups[g].parent /\ e.sink = groups[g].sink
      /\ e.operators = groups[g].operators
  BY <1>1 DEF GroupSet
<1>5. /\ calls' \in Seq(CallSet)
      /\ \A k \in DOMAIN calls' : k \in Nat \ {0} /\ k + 1 \in DOMAIN calls /\ calls'[k] = calls[k + 1]
      /\ \A k \in DOMAIN calls : k # 1 => k - 1 \in DOMAIN calls' /\ calls'[k - 1] = calls[k]
  BY <1>1, <1>2, HeadDropped
<1>6. op # NoOp
  BY <1>1, PlanFacts
<1> HIDE DEF e, g, op
<1>7. DOMAIN calls = 1 .. Len(calls) /\ Len(calls) \in Nat \ {0}
  BY <1>1
<1>8. RestKept(0)
  BY <1>5, <1>7 DEF RestKept
<1>9. CallsPut(0, g, e)
  BY <1>2, <1>4, <1>6 DEF CallsPut
<1>10. GroupParsed(g, e)
  BY <1>2, <1>4 DEF GroupParsed, g
<1>11. ChainPut(0, g, e)
  BY <1>2, <1>4 DEF ChainPut, op
<1>12. Parsed(0, g, e)
  BY <1>8, <1>9, <1>10, <1>11 DEF Parsed
<1> QED BY <1>3, <1>12 DEF g

LEMMA BuildOperatorParses ==
  ASSUME BuildInv, BuildOperator
  PROVE  \E n \in {0, 1, 2} : \E e \in GroupSet : Parsed(n, calls[1].group, e)
<1> DEFINE g == calls[1].group
           op == calls[1].op
           c == [fn |-> "build_pipelines", op |-> Kid(op, 1), group |-> g]
           e == [groups[g] EXCEPT !.operators = Append(@, op)]
<1>1. /\ Running("build_pipelines") /\ input \in Inputs /\ g \in Nat
      /\ calls \in Seq(CallSet) /\ calls # <<>> /\ Head(calls) = calls[1]
      /\ op \in DOMAIN plan /\ groups[g] \in GroupSet
      /\ 1 \in DOMAIN calls /\ calls[1].fn = "build_pipelines"
  BY HeadFacts DEF BuildOperator
<1>2. /\ input' = input /\ pc' = pc /\ plan[op] = "operator"
      /\ groups' = [groups EXCEPT ![g] = e] /\ calls' = <<c>> \o Tail(calls)
  BY <1>1 DEF BuildOperator, Call
<1>3. c \in CallSet /\ e \in GroupSet
  <2>1. Kid(op, 1) \in DOMAIN plan
    BY <1>1, <1>2, PlanFacts
  <2>2. Append(groups[g].operators, op) \in Seq(DOMAIN plan)
    BY <1>1 DEF GroupSet
  <2>3. e \in GroupSet
    BY <1>1, <2>2 DEF GroupSet
  <2> QED BY <1>1, <2>1, <2>3 DEF CallSet
<1>4. /\ e.source = groups[g].source /\ e.dependencies = groups[g].dependencies
      /\ e.parent = groups[g].parent /\ e.sink = groups[g].sink
      /\ e.operators = Append(groups[g].operators, op)
  BY <1>1 DEF GroupSet
<1>5. /\ calls' \in Seq(CallSet) /\ DOMAIN calls' = DOMAIN calls /\ calls'[1] = c
      /\ \A k \in DOMAIN calls : k # 1 => calls'[k] = calls[k]
  BY <1>1, <1>2, <1>3, HeadReplaced
<1>6. c.fn = "build_pipelines" /\ c.group = g /\ c.op = Down(op)
  BY <1>1, <1>2, PlanFacts DEF Down
<1>7. groups[g].source = NoOp
  BY <1>1 DEF BuildInv, CallInv, Starts
<1> HIDE DEF c, e, g, op
<1>8. DOMAIN calls = 1 .. Len(calls) /\ Len(calls) \in Nat \ {0}
  BY <1>1
<1>9. RestKept(1)
  BY <1>5, <1>8 DEF RestKept
<1>10. CallsPut(1, g, e)
  BY <1>4, <1>5, <1>6, <1>7 DEF CallsPut
<1>11. GroupParsed(g, e)
  BY <1>2, <1>4 DEF GroupParsed, g
<1>12. ChainPut(1, g, e)
  BY <1>2, <1>4, <1>5, <1>6 DEF ChainPut, op
<1>13. Parsed(1, g, e)
  BY <1>9, <1>10, <1>11, <1>12 DEF Parsed
<1> QED BY <1>3, <1>13 DEF g

LEMMA BuildJoinParses ==
  ASSUME BuildInv, BuildJoin
  PROVE  \E n \in {0, 1, 2} : \E e \in GroupSet : Parsed(n, calls[1].group, e)
<1> DEFINE g == calls[1].group
           op == calls[1].op
           c == [fn |-> "build_pipelines", op |-> Kid(op, 2), group |-> g]
           d == [fn |-> "create_child_group", op |-> op, group |-> g]
           e == [groups[g] EXCEPT !.operators = Append(@, op)]
<1>1. /\ Running("build_pipelines") /\ input \in Inputs /\ g \in Nat
      /\ calls \in Seq(CallSet) /\ calls # <<>> /\ Head(calls) = calls[1]
      /\ op \in DOMAIN plan /\ groups[g] \in GroupSet
      /\ 1 \in DOMAIN calls /\ calls[1].fn = "build_pipelines"
  BY HeadFacts DEF BuildJoin
<1>2. /\ input' = input /\ pc' = pc /\ plan[op] \in JoinKinds
      /\ groups' = [groups EXCEPT ![g] = e]
      /\ calls' = <<c>> \o <<d>> \o Tail(calls)
  BY <1>1 DEF BuildJoin, Call
<1>3. c \in CallSet /\ d \in CallSet /\ e \in GroupSet
  <2>1. Kid(op, 2) \in DOMAIN plan
    BY <1>1, <1>2, PlanFacts
  <2>2. Append(groups[g].operators, op) \in Seq(DOMAIN plan)
    BY <1>1 DEF GroupSet
  <2>3. e \in GroupSet
    BY <1>1, <2>2 DEF GroupSet
  <2> QED BY <1>1, <2>1, <2>3 DEF CallSet
<1>4. /\ e.source = groups[g].source /\ e.dependencies = groups[g].dependencies
      /\ e.parent = groups[g].parent /\ e.sink = groups[g].sink
      /\ e.operators = Append(groups[g].operators, op)
  BY <1>1 DEF GroupSet
<1>5. /\ calls' \in Seq(CallSet) /\ 1 \in DOMAIN calls' /\ 2 \in DOMAIN calls'
      /\ calls'[1] = c /\ calls'[2] = d
      /\ \A k \in DOMAIN calls' \ {1, 2} :
           k \in Nat /\ k > 2 /\ k - 1 \in DOMAIN calls /\ calls'[k] = calls[k - 1]
      /\ \A k \in DOMAIN calls : k # 1 => k + 1 \in DOMAIN calls' /\ calls'[k + 1] = calls[k]
  BY <1>1, <1>2, <1>3, HeadDoubled
<1>6. /\ c.fn = "build_pipelines" /\ c.group = g /\ c.op = Down(op)
      /\ d.fn = "create_child_group" /\ d.op = op /\ d.group = g /\ ~Starts(d)
  BY <1>1, <1>2, PlanFacts DEF Starts, Down
<1>7. groups[g].source = NoOp
  BY <1>1 DEF BuildInv, CallInv, Starts
<1> HIDE DEF c, d, e, g, op
<1>8. DOMAIN calls = 1 .. Len(calls) /\ Len(calls) \in Nat \ {0}
  BY <1>1
<1>9. RestKept(2)
  <2>1. 1 .. 2 = {1, 2}
    OBVIOUS
  <2>2. ASSUME NEW k \in DOMAIN calls', k > 2
        PROVE  k - 2 + 1 \in DOMAIN calls \ {1} /\ calls'[k] = calls[k - 2 + 1]
    <3>1. k \in Nat /\ k - 1 \in DOMAIN calls /\ calls'[k] = calls[k - 1]
      BY <1>5, <2>2
    <3>2. k - 2 + 1 = k - 1 /\ k - 1 # 1
      BY <2>2, <3>1
    <3> QED BY <3>1, <3>2
  <2>3. ASSUME NEW k \in DOMAIN calls \ {1}
        PROVE  k + 2 - 1 \in DOMAIN calls' /\ calls'[k + 2 - 1] = calls[k]
    <3>1. k + 2 - 1 = k + 1
      BY <1>8
    <3> QED BY <1>5, <3>1
  <2> QED BY <1>5, <2>1, <2>2, <2>3 DEF RestKept
<1>10. CallsPut(2, g, e)
  <2>1. \A k \in 1 .. 2 : k = 1 \/ k = 2
    OBVIOUS
  <2> QED BY <1>4, <1>5, <1>6, <1>7, <1>2, <2>1 DEF CallsPut
<1>11. GroupParsed(g, e)
  BY <1>2, <1>4 DEF GroupParsed, g
<1>12. ChainPut(2, g, e)
  BY <1>2, <1>4, <1>5, <1>6 DEF ChainPut, op
<1>13. Parsed(2, g, e)
  BY <1>9, <1>10, <1>11, <1>12 DEF Parsed
<1> QED BY <1>3, <1>13 DEF g

LEMMA BuildParses ==
  ASSUME BuildInv, BuildSink \/ BuildScan \/ BuildOperator \/ BuildJoin
  PROVE  /\ Running("build_pipelines")
         /\ \E n \in {0, 1, 2} : \E e \in GroupSet : Parsed(n, calls[1].group, e)
<1>1. Running("build_pipelines")
  BY DEF BuildSink, BuildScan, BuildOperator, BuildJoin
<1> QED BY <1>1, BuildSinkParses, BuildScanParses, BuildOperatorParses, BuildJoinParses

\* A group that only waits for its joins already has its source.
LEMMA SourceIsKnown ==
  ASSUME BuildInv, Running("create_child_group"), plan[calls[1].op] \in JoinKinds
  PROVE  LET g == calls[1].group IN
         /\ groups[g].source # NoOp
         /\ plan[groups[g].source] = "table_scan" \/
              (plan[groups[g].source] \in SinkKinds /\ Fed(g))
<1> DEFINE g == calls[1].group
<1>1. /\ 1 \in DOMAIN calls /\ DOMAIN calls = 1 .. Len(calls) /\ Len(calls) \in Nat
      /\ calls[1].fn = "create_child_group" /\ g \in DOMAIN groups /\ input \in Inputs
  BY HeadFacts
<1>2. ~Starts(calls[1])
  BY <1>1, PlanFacts DEF Starts
<1>3. \A k \in DOMAIN calls : calls[k].group = g => ~Starts(calls[k])
  <2> SUFFICES ASSUME NEW k \in DOMAIN calls, calls[k].group = g, Starts(calls[k])
               PROVE  FALSE
    OBVIOUS
  <2>1. k # 1
    BY <1>2
  <2>2. 1 > k
    BY <1>1, <2>1 DEF BuildInv, CallInv
  <2> QED BY <1>1, <2>2
<1>4. \A fn : ~Pending(g, fn)
  BY <1>3 DEF Pending
<1> QED BY <1>1, <1>4 DEF BuildInv, SourceInv

\* What create_child_group does to the groups and the calls.
LEMMA GroupCreated ==
  ASSUME BuildInv, CreateChildGroup
  PROVE  LET g == calls[1].group  op == calls[1].op  new == Len(groups) + 1 IN
         /\ input' = input /\ DOMAIN groups' = DOMAIN groups \cup {new}
         /\ new \notin DOMAIN groups /\ groups'[new] = NewGroup(op)
         /\ \A h \in DOMAIN groups : h # g => groups'[h] = groups[h]
         /\ groups'[g].operators = groups[g].operators
         /\ groups'[g].source = groups[g].source /\ groups'[g].sink = groups[g].sink
         /\ groups'[g].dependencies = Append(groups[g].dependencies, new)
         /\ DOMAIN calls' = DOMAIN calls
         /\ calls'[1] = [fn |-> "build_pipelines", op |-> Kid(op, 1), group |-> new]
         /\ \A k \in DOMAIN calls : k # 1 => calls'[k] = calls[k]
<1>0. PICK g, op, new : g = calls[1].group /\ op = calls[1].op /\ new = Len(groups) + 1
  OBVIOUS
<1> DEFINE c == [fn |-> "build_pipelines", op |-> Kid(op, 1), group |-> new]
           parent == IF plan[op] \in JoinKinds /\ groups[g].parent # 0
                     THEN groups[g].parent ELSE new
           e == [groups[g] EXCEPT !.dependencies = Append(@, new), !.parent = parent]
           G == [groups EXCEPT ![g] = e]
<1>1. /\ input \in Inputs /\ calls \in Seq(CallSet) /\ calls # <<>> /\ Head(calls) = calls[1]
      /\ g \in DOMAIN groups /\ groups[g] \in GroupSet /\ op \in DOMAIN plan
      /\ groups \in Seq(GroupSet) /\ DOMAIN groups = 1 .. Len(groups) /\ Len(groups) \in Nat
      /\ plan[op] \in SinkKinds \cup JoinKinds
  BY <1>0, HeadFacts DEF CreateChildGroup, BuildInv, TypeInv
<1>2. input' = input /\ groups' = Append(G, NewGroup(op)) /\ calls' = <<c>> \o Tail(calls)
  BY <1>0, <1>1 DEF CreateChildGroup, Call
<1>3. /\ e.source = groups[g].source /\ e.sink = groups[g].sink
      /\ e.operators = groups[g].operators
      /\ e.dependencies = Append(groups[g].dependencies, new)
  BY <1>1 DEF GroupSet
<1>4. e \in GroupSet
  <2>1. Append(groups[g].dependencies, new) \in Seq(Nat) /\ parent \in Nat
    BY <1>0, <1>1 DEF GroupSet
  <2> QED BY <1>1, <2>1 DEF GroupSet
<1>5. c \in CallSet /\ NewGroup(op) \in GroupSet
  <2>1. Kid(op, 1) \in DOMAIN plan
    BY <1>1, PlanFacts
  <2> QED BY <1>0, <1>1, <2>1 DEF CallSet, GroupSet, NewGroup
<1>6. /\ DOMAIN calls' = DOMAIN calls /\ calls'[1] = c
      /\ \A k \in DOMAIN calls : k # 1 => calls'[k] = calls[k]
  BY <1>1, <1>2, <1>5, HeadReplaced
<1> HIDE DEF c, e, parent
<1>7. /\ G \in Seq(GroupSet) /\ Len(G) = Len(groups) /\ G[g] = e
      /\ \A h \in DOMAIN groups : h # g => G[h] = groups[h]
  BY <1>1, <1>4
<1> HIDE DEF G
<1>8. /\ DOMAIN groups' = DOMAIN groups \cup {new} /\ new \notin DOMAIN groups
      /\ groups'[new] = NewGroup(op) /\ groups'[g] = e
      /\ \A h \in DOMAIN groups : h # g => groups'[h] = groups[h]
  BY <1>0, <1>1, <1>2, <1>5, <1>7
<1> QED BY <1>0, <1>2, <1>3, <1>6, <1>8 DEF c

LEMMA CreateKeepsInv ==
  ASSUME BuildInv, CreateChildGroup
  PROVE  BuildInv'
<1>0. PICK g : g = calls[1].group
  OBVIOUS
<1> DEFINE op == calls[1].op
           new == Len(groups) + 1
           c == [fn |-> "build_pipelines", op |-> Kid(op, 1), group |-> new]
           parent == IF plan[op] \in JoinKinds /\ groups[g].parent # 0
                     THEN groups[g].parent ELSE new
           e == [groups[g] EXCEPT !.dependencies = Append(@, new), !.parent = parent]
           n == NewGroup(op)
<1>1. /\ Running("create_child_group") /\ input \in Inputs /\ g \in Nat
      /\ pc = "build" /\ calls[1].fn = "create_child_group"
      /\ calls \in Seq(CallSet) /\ calls # <<>> /\ Head(calls) = calls[1]
      /\ DOMAIN calls = 1 .. Len(calls) /\ Len(calls) \in Nat /\ 1 \in DOMAIN calls
      /\ op \in DOMAIN plan /\ groups[g] \in GroupSet /\ g \in DOMAIN groups
      /\ groups \in Seq(GroupSet) /\ DOMAIN groups = 1 .. Len(groups) /\ Len(groups) \in Nat
      /\ \A h \in DOMAIN groups : groups[h] \in GroupSet
  BY <1>0, HeadFacts DEF CreateChildGroup
<1>2. /\ input' = input /\ pc' = pc
      /\ groups' = Append([groups EXCEPT ![g] = e], n)
      /\ calls' = <<c>> \o Tail(calls)
  BY <1>0, <1>1 DEF CreateChildGroup, Call
<1>3. plan[op] \in SinkKinds \cup JoinKinds
  BY <1>1 DEF BuildInv, TypeInv
<1>4. c \in CallSet /\ n \in GroupSet
  <2>1. Kid(op, 1) \in DOMAIN plan
    BY <1>1, <1>3, PlanFacts
  <2> QED BY <1>1, <2>1 DEF CallSet, GroupSet, NewGroup
<1>5. e \in GroupSet
  <2>1. Append(groups[g].dependencies, new) \in Seq(Nat)
    BY <1>1 DEF GroupSet
  <2>2. parent \in Nat
    BY <1>1 DEF GroupSet
  <2> QED BY <1>1, <2>1, <2>2 DEF GroupSet
<1>6. /\ e.source = groups[g].source /\ e.sink = groups[g].sink
      /\ e.dependencies = Append(groups[g].dependencies, new) /\ e.parent = parent
  BY <1>1 DEF GroupSet
<1>7. /\ n.source = NoOp /\ n.sink = op /\ n.dependencies = <<>> /\ n.parent = 0
  BY DEF NewGroup
<1>8. c.fn = "build_pipelines" /\ c.group = new /\ Starts(c)
  BY DEF Starts
<1>9. /\ calls' \in Seq(CallSet) /\ DOMAIN calls' = DOMAIN calls /\ calls'[1] = c
      /\ \A k \in DOMAIN calls : k # 1 => calls'[k] = calls[k]
  BY <1>1, <1>2, <1>4, HeadReplaced
<1> HIDE DEF c, e, n, parent
<1>10. /\ groups' \in Seq(GroupSet) /\ Len(groups') = Len(groups) + 1
       /\ DOMAIN groups' = DOMAIN groups \cup {new} /\ new \notin DOMAIN groups
       /\ groups'[g] = e /\ groups'[new] = n
       /\ \A h \in DOMAIN groups : h # g => groups'[h] = groups[h]
  <2> DEFINE G == [groups EXCEPT ![g] = e]
  <2>1. /\ G \in Seq(GroupSet) /\ Len(G) = Len(groups) /\ G[g] = e
        /\ \A h \in DOMAIN groups : h # g => G[h] = groups[h]
    BY <1>1, <1>5
  <2>2. groups' = Append(G, n)
    BY <1>2
  <2> HIDE DEF G
  <2> QED BY <1>1, <1>4, <2>1, <2>2
<1> HIDE DEF op, new
<1>11. \A h \in DOMAIN groups : groups'[h].sink = groups[h].sink
         /\ groups'[h].source = groups[h].source
  BY <1>6, <1>10
<1>12. \A k \in DOMAIN calls : Starts(calls[k])' <=> Starts(calls'[k])
  BY <1>2, PlanKept DEF Starts
<1>13. \A k \in DOMAIN calls \ {1} : Starts(calls[k]) =>
         calls[k].group \in DOMAIN groups /\ calls[k].group # g
  <2> SUFFICES ASSUME NEW k \in DOMAIN calls \ {1}, Starts(calls[k]), calls[k].group = g
               PROVE  FALSE
    BY DEF BuildInv, TypeInv
  <2>1. 1 > k
    BY <1>0, <1>1 DEF BuildInv, CallInv
  <2> QED BY <1>1, <2>1
<1>14. TypeInv'
  <2>1. ASSUME NEW k \in DOMAIN calls'
        PROVE  /\ calls'[k].group \in DOMAIN groups'
               /\ calls'[k].fn = "create_child_group" =>
                    plan[calls'[k].op] \in SinkKinds \cup JoinKinds
    <3>1. CASE k = 1
      BY <1>8, <1>9, <1>10, <3>1
    <3>2. CASE k # 1
      BY <1>9, <1>10, <3>2 DEF BuildInv, TypeInv
    <3> QED BY <3>1, <3>2
  <2>2. ASSUME NEW h \in DOMAIN groups', NEW m \in DOMAIN groups'[h].dependencies
        PROVE  groups'[h].dependencies[m] \in DOMAIN groups'
    <3>1. CASE h = new
      BY <1>7, <1>10, <3>1
    <3>2. CASE h = g
      <4>1. groups[g].dependencies \in Seq(Nat)
        BY <1>1 DEF GroupSet
      <4>2. groups'[h].dependencies = Append(groups[g].dependencies, new)
        BY <1>6, <1>10, <3>2
      <4>3. \/ m \in DOMAIN groups[g].dependencies
               /\ groups'[h].dependencies[m] = groups[g].dependencies[m]
            \/ groups'[h].dependencies[m] = new
        BY <4>1, <4>2
      <4> QED BY <1>1, <1>10, <4>3 DEF BuildInv, TypeInv
    <3>3. CASE h \in DOMAIN groups /\ h # g
      BY <1>10, <3>3 DEF BuildInv, TypeInv
    <3> QED BY <1>10, <3>1, <3>2, <3>3
  <2>3. Len(groups') >= 1
    BY <1>1, <1>10
  <2>4. plan' = plan /\ CallSet' = CallSet /\ GroupSet' = GroupSet
    BY <1>2, PlanKept
  <2> QED BY <1>1, <1>2, <1>9, <1>10, <2>1, <2>2, <2>3, <2>4 DEF TypeInv
<1>15. CallInv'
  <2> SUFFICES ASSUME NEW k \in DOMAIN calls, Starts(calls'[k])
               PROVE  /\ groups'[calls'[k].group].dependencies = <<>>
                      /\ groups'[calls'[k].group].parent = 0
                      /\ groups'[calls'[k].group].source =
                           IF calls'[k].fn = "build_pipelines" THEN NoOp ELSE calls'[k].op
                      /\ \A l \in DOMAIN calls :
                           l # k /\ calls'[l].group = calls'[k].group =>
                             l > k /\ ~Starts(calls'[l])
    BY <1>9, <1>12 DEF CallInv
  <2>1. \A l \in DOMAIN calls \ {1} : calls'[l].group # new
    BY <1>9, <1>10 DEF BuildInv, TypeInv
  <2>2. CASE k = 1
    BY <1>7, <1>8, <1>9, <1>10, <2>1, <2>2
  <2>3. CASE k # 1
    <3>1. calls'[k] = calls[k] /\ calls[k].group \in DOMAIN groups /\ calls[k].group # g
      BY <1>9, <1>13, <2>3
    <3>2. groups'[calls[k].group] = groups[calls[k].group]
      BY <1>10, <3>1
    <3>3. ASSUME NEW l \in DOMAIN calls, l # k, calls'[l].group = calls'[k].group
          PROVE  l > k /\ ~Starts(calls'[l])
      <4>1. l # 1
        BY <1>8, <1>9, <1>10, <3>1, <3>3
      <4> QED BY <1>9, <3>1, <3>3, <4>1 DEF BuildInv, CallInv
    <3> QED BY <3>1, <3>2, <3>3 DEF BuildInv, CallInv
  <2> QED BY <2>2, <2>3
<1>16. Fed(g)' \/ plan[groups[g].source] = "table_scan"
  <2>1. groups[g].dependencies \in Seq(Nat)
    BY <1>1 DEF GroupSet
  <2>2. CASE plan[op] \in SinkKinds
    <3>1. groups[g].dependencies = <<>> /\ groups[g].source = op
      BY <1>0, <1>1, <2>2 DEF BuildInv, CallInv, Starts, op
    <3>2. e.dependencies = <<new>> /\ e.parent = new
      BY <1>1, <1>6, <2>2, <3>1, PlanFacts DEF parent
    <3>3. e.dependencies # <<>> /\ e.dependencies[1] = new
      BY <3>2
    <3> QED BY <1>6, <1>7, <1>10, <3>1, <3>2, <3>3 DEF Fed
  <2>3. CASE plan[op] \in JoinKinds /\ Fed(g)
    <3>1. 1 \in DOMAIN groups[g].dependencies
      BY <2>1, <2>3 DEF Fed
    <3>2. groups[g].dependencies[1] \in DOMAIN groups
      BY <1>1, <3>1 DEF BuildInv, TypeInv
    <3>3. groups[g].parent # 0
      BY <1>1, <2>3, <3>2 DEF Fed
    <3>4. e.parent = groups[g].parent
      BY <1>6, <2>3, <3>3 DEF parent
    <3>5. e.dependencies # <<>> /\ e.dependencies[1] = groups[g].dependencies[1]
      BY <1>6, <2>1, <3>1
    <3> QED BY <1>6, <1>10, <1>11, <2>3, <3>2, <3>4, <3>5 DEF Fed
  <2>4. CASE plan[op] \in JoinKinds
    BY <1>0, <1>1, <2>3, <2>4, SourceIsKnown DEF op
  <2> QED BY <1>3, <2>2, <2>4
<1>17. groups[g].source # NoOp /\ plan[groups[g].source] \in SinkKinds \cup {"table_scan"}
  <2>1. CASE plan[op] \in SinkKinds
    <3>1. groups[g].source = op
      BY <1>0, <1>1, <2>1 DEF BuildInv, CallInv, Starts, op
    <3> QED BY <1>1, <2>1, <3>1, PlanFacts
  <2>2. CASE plan[op] \in JoinKinds
    BY <1>0, <1>1, <2>2, SourceIsKnown DEF op
  <2> QED BY <1>3, <2>1, <2>2
<1>18. SourceInv'
  <2> SUFFICES ASSUME NEW h \in DOMAIN groups'
               PROVE  \/ groups'[h].source = NoOp /\ Pending(h, "build_pipelines")'
                      \/ /\ groups'[h].source # NoOp
                         /\ plan[groups'[h].source] = "table_scan"
                      \/ /\ groups'[h].source # NoOp
                         /\ plan[groups'[h].source] \in SinkKinds
                         /\ Pending(h, "create_child_group")' \/ Fed(h)'
    BY <1>2, PlanKept DEF SourceInv
  <2>1. CASE h = new
    <3>1. Pending(h, "build_pipelines")'
      BY <1>1, <1>8, <1>9, <1>12, <2>1 DEF Pending
    <3> QED BY <1>7, <1>10, <2>1, <3>1
  <2>2. CASE h = g
    BY <1>1, <1>11, <1>16, <1>17, <2>2
  <2>3. CASE h \in DOMAIN groups /\ h # g
    <3>1. groups'[h] = groups[h]
      BY <1>10, <2>3
    <3>2. ASSUME NEW f, Pending(h, f) PROVE Pending(h, f)'
      <4>1. PICK k \in DOMAIN calls : calls[k].group = h /\ calls[k].fn = f /\ Starts(calls[k])
        BY <3>2 DEF Pending
      <4>2. k # 1 /\ calls'[k] = calls[k]
        BY <1>0, <1>9, <2>3, <4>1
      <4> QED BY <1>9, <1>12, <4>1, <4>2 DEF Pending
    <3>3. Fed(h) => Fed(h)'
      <4> SUFFICES ASSUME Fed(h) PROVE Fed(h)'
        OBVIOUS
      <4>1. groups[h].dependencies \in Seq(Nat)
        BY <1>1, <2>3 DEF GroupSet
      <4>2. 1 \in DOMAIN groups[h].dependencies
        BY <4>1 DEF Fed
      <4>3. groups[h].dependencies[1] \in DOMAIN groups
        BY <2>3, <4>2 DEF BuildInv, TypeInv
      <4> QED BY <1>11, <3>1, <4>3 DEF Fed
    <3> QED BY <2>3, <3>1, <3>2, <3>3 DEF BuildInv, SourceInv
  <2> QED BY <1>10, <2>1, <2>2, <2>3
<1> QED BY <1>14, <1>15, <1>18 DEF BuildInv

LEMMA BuildInvInitially == Init => BuildInv
<1> SUFFICES ASSUME Init PROVE BuildInv
  OBVIOUS
<1> DEFINE c == [fn |-> "build_pipelines", op |-> Root, group |-> 1]
           n == NewGroup(NoOp)
<1>1. input \in Inputs /\ pc = "build" /\ calls = <<c>> /\ groups = <<n>>
  BY DEF Init
<1>2. c \in CallSet /\ n \in GroupSet
  BY <1>1, PlanFacts DEF CallSet, GroupSet, NewGroup
<1>3. /\ c.fn = "build_pipelines" /\ c.group = 1 /\ Starts(c)
      /\ n.source = NoOp /\ n.dependencies = <<>> /\ n.parent = 0
  BY DEF Starts, NewGroup
<1> HIDE DEF c, n
<1>4. /\ calls \in Seq(CallSet) /\ DOMAIN calls = {1} /\ calls[1] = c
      /\ groups \in Seq(GroupSet) /\ Len(groups) = 1 /\ DOMAIN groups = {1} /\ groups[1] = n
  BY <1>1, <1>2
<1>5. TypeInv
  BY <1>1, <1>3, <1>4 DEF TypeInv
<1>6. CallInv
  BY <1>3, <1>4 DEF CallInv
<1>7. SourceInv
  BY <1>3, <1>4 DEF SourceInv, Pending
<1> QED BY <1>5, <1>6, <1>7 DEF BuildInv

\* Once the groups are built nothing of them changes.
LEMMA GroupsKept ==
  ASSUME BuildInv, UNCHANGED <<input, calls, groups>>,
         pc' \in {"build", "traverse", "initialize", "ready", "crashed"},
         pc' # "build" => calls = <<>>
  PROVE  BuildInv'
<1>1. plan' = plan /\ CallSet' = CallSet /\ GroupSet' = GroupSet
      /\ \A call : Starts(call)' = Starts(call)
  BY PlanKept
<1>2. TypeInv'
  BY <1>1 DEF BuildInv, TypeInv
<1>3. \A k \in DOMAIN calls : Starts(calls[k])' <=> Starts(calls[k])
  BY <1>1 DEF Starts
<1>4. CallInv'
  BY <1>3 DEF BuildInv, CallInv
<1>5. \A g, fn : Pending(g, fn)' <=> Pending(g, fn)
  BY <1>3 DEF Pending
<1>6. \A g : Fed(g)' <=> Fed(g)
  BY DEF Fed
<1>7. SourceInv'
  BY <1>1, <1>5, <1>6 DEF BuildInv, SourceInv
<1> QED BY <1>2, <1>4, <1>7 DEF BuildInv

LEMMA BuildInvKept ==
  ASSUME BuildInv, [Next]_vars
  PROVE  BuildInv'
<1>1. CASE BuildSink \/ BuildScan \/ BuildOperator \/ BuildJoin
  BY <1>1, BuildParses, ParseKeepsInv
<1>2. CASE CreateChildGroup
  BY <1>2, CreateKeepsInv
<1>3. CASE BuildDone
  BY <1>3, GroupsKept DEF BuildDone, buildVars
<1>4. CASE PlanDfs \/ TraverseDone \/ Initialize \/ InitializeFails \/ InitializeDone
  <2>1. UNCHANGED <<input, calls, groups>> /\ pc # "build"
        /\ pc' \in {pc, "initialize", "crashed", "ready"}
    BY <1>4 DEF PlanDfs, TraverseDone, Initialize, InitializeFails, InitializeDone, buildVars
  <2> QED BY <2>1, GroupsKept DEF BuildInv, TypeInv
<1>5. CASE UNCHANGED vars
  <2>1. UNCHANGED <<input, calls, groups, pc>>
    BY <1>5 DEF vars, buildVars
  <2> QED BY <2>1, GroupsKept DEF BuildInv, TypeInv
<1> QED BY <1>1, <1>2, <1>3, <1>4, <1>5 DEF Next

-----------------------------------------------------------------------------
(* Initialize *)

\* A complete group reads a scan, or its first dependency ends in its source.
LEMMA GroupFacts ==
  ASSUME BuildInv, pc # "build", NEW g \in DOMAIN groups
  PROVE  /\ DOMAIN groups \subseteq Nat \ {0}
         /\ groups[g].source \in DOMAIN plan
         /\ groups[g].dependencies \in Seq(Nat)
         /\ \A m \in DOMAIN groups[g].dependencies : Dep(g, m) \in DOMAIN groups
         /\ IsScan(g) => input.partitions[groups[g].source] \in Nat
         /\ ~IsScan(g) => /\ 1 \in DOMAIN groups[g].dependencies /\ Dep(g, 1) \in DOMAIN groups
                          /\ groups[g].parent = Dep(g, 1)
                          /\ groups[Dep(g, 1)].sink = groups[g].source
<1>1. calls = <<>> /\ input \in Inputs /\ groups \in Seq(GroupSet)
  BY DEF BuildInv, TypeInv
<1>2. DOMAIN groups \subseteq Nat \ {0} /\ groups[g] \in GroupSet
  BY <1>1
<1>3. groups[g].source \in DOMAIN plan \cup {NoOp} /\ groups[g].dependencies \in Seq(Nat)
  BY <1>2 DEF GroupSet
<1>4. \A fn : ~Pending(g, fn)
  BY <1>1 DEF Pending
<1>5. groups[g].source # NoOp
      /\ (plan[groups[g].source] = "table_scan" \/ Fed(g))
  BY <1>4 DEF BuildInv, SourceInv
<1>6. \A m \in DOMAIN groups[g].dependencies : Dep(g, m) \in DOMAIN groups
  BY DEF BuildInv, TypeInv, Dep
<1>7. IsScan(g) => input.partitions[groups[g].source] \in Nat
  BY <1>1, <1>3, <1>5, PlanFacts DEF IsScan
<1>8. ~IsScan(g) => /\ 1 \in DOMAIN groups[g].dependencies
                    /\ groups[g].parent = Dep(g, 1)
                    /\ groups[Dep(g, 1)].sink = groups[g].source
  BY <1>3, <1>5 DEF IsScan, Fed, Dep
<1> QED BY <1>2, <1>3, <1>5, <1>6, <1>7, <1>8

LEMMA ParallelismFacts ==
  ASSUME BuildInv, WireInv, pc # "build", NEW g \in DOMAIN groups
  PROVE  ParallelismCount(g) \in Nat /\ (NoEmptyTable => ParallelismCount(g) > 0)
<1>1. CASE IsScan(g)
  <2>1. ParallelismCount(g) = input.partitions[groups[g].source]
    BY <1>1 DEF ParallelismCount
  <2>2. groups[g].source \in DOMAIN input.partitions
    BY <1>1, GroupFacts, PlanAssumption DEF BuildInv, TypeInv, IsScan, plan
  <2> QED BY <1>1, <2>1, <2>2, GroupFacts DEF NoEmptyTable
<1>2. CASE ~IsScan(g)
  <2>1. ParallelismCount(g) = count[Dep(g, 1)] /\ Dep(g, 1) \in DOMAIN groups
    BY <1>2, GroupFacts DEF ParallelismCount
  <2> QED BY <2>1 DEF WireInv
<1> QED BY <1>1, <1>2

LEMMA PlanOfGroupKept ==
  ASSUME UNCHANGED <<input, groups>>
  PROVE  /\ \A g : IsScan(g)' = IsScan(g) /\ \A k : Dep(g, k)' = Dep(g, k)
         /\ plan' = plan /\ NoEmptyTable' = NoEmptyTable
<1>1. plan' = plan /\ NoEmptyTable' = NoEmptyTable
  BY PlanKept
<1>2. \A g : IsScan(g)' = IsScan(g) /\ \A k : Dep(g, k)' = Dep(g, k)
  BY <1>1 DEF IsScan, Dep
<1> QED BY <1>1, <1>2

\* While the groups are built nothing is traversed or connected.
LEMMA BuildingKeepsWires ==
  ASSUME BuildingInv, pc = "build", pc' = "build", UNCHANGED <<traverseVars, wiringVars>>
  PROVE  WireInv' /\ OrderInv'
<1>1. /\ dfs' = <<1>> /\ pipe_stack' = <<>> /\ input_of' = <<>> /\ table_of' = <<>>
  BY DEF BuildingInv, WireInv, traverseVars, wiringVars
<1>2. DOMAIN pipe_stack' = {}
  BY <1>1
<1> QED BY <1>1, <1>2 DEF WireInv, OrderInv, SetUpInv, StackInv

LEMMA BuildDoneKeepsInv ==
  ASSUME BuildingInv, BuildDone
  PROVE  WireInv' /\ OrderInv'
<1>1. /\ pc = "build" /\ pc' = "traverse" /\ UNCHANGED <<input, calls, groups, dfs, pipe_stack>>
      /\ count' = [g \in DOMAIN groups |-> 1] /\ initialized' = [g \in DOMAIN groups |-> 0]
      /\ input_of' = [g \in DOMAIN groups |-> <<>>]
      /\ table_of' = [g \in DOMAIN groups |-> <<>>]
  BY DEF BuildDone, buildVars, traverseVars
<1>2. dfs' = <<1>> /\ pipe_stack' = <<>> /\ 1 \in DOMAIN groups
  BY <1>1 DEF BuildingInv, WireInv, BuildInv, TypeInv
<1>3. dfs' \in Seq(DOMAIN groups) /\ pipe_stack' \in Seq(DOMAIN groups)
      /\ DOMAIN pipe_stack' = {}
  BY <1>2
<1>4. DOMAIN <<>> = 0 .. 0 - 1 /\ 0 .. 0 - 1 = {}
  OBVIOUS
<1>5. WireInv'
  <2>1. \A g \in DOMAIN groups' :
          /\ DOMAIN input_of'[g] = 0 .. initialized'[g] - 1
          /\ DOMAIN table_of'[g] = 0 .. initialized'[g] - 1
          /\ \A j \in DOMAIN input_of'[g] : FALSE
    BY <1>1, <1>4
  <2> QED BY <1>1, <1>3, <2>1 DEF WireInv
<1>6. OrderInv'
  BY <1>1, <1>3 DEF OrderInv, SetUpInv, StackInv
<1> QED BY <1>5, <1>6

\* The sink states handed out stay where they are.
LEMMA WiresKept ==
  ASSUME BuildingInv, pc # "build", pc' # "build",
         UNCHANGED <<input, groups, count, initialized, input_of, table_of>>,
         dfs' \in Seq(DOMAIN groups), pipe_stack' \in Seq(DOMAIN groups)
  PROVE  WireInv' /\ SetUpInv' = SetUpInv
<1>1. /\ \A g : IsScan(g)' = IsScan(g) /\ \A k : Dep(g, k)' = Dep(g, k)
  BY PlanOfGroupKept
<1>2. \A g : ParallelismCount(g)' = ParallelismCount(g)
  BY <1>1 DEF ParallelismCount
<1>3. \A g : SetUp(g)' = SetUp(g)
  BY <1>1, <1>2 DEF SetUp
<1>4. WireInv'
  BY <1>1 DEF BuildingInv, WireInv
<1> QED BY <1>3, <1>4 DEF SetUpInv

LEMMA PlanDfsKeepsInv ==
  ASSUME BuildingInv, PlanDfs
  PROVE  WireInv' /\ OrderInv'
<1> DEFINE h == Head(dfs)
           deps == groups[h].dependencies
<1>1. /\ pc = "traverse" /\ pc' = "traverse" /\ dfs # <<>>
      /\ UNCHANGED <<input, groups, count, initialized, input_of, table_of>>
      /\ pipe_stack' = Append(pipe_stack, h) /\ dfs' = deps \o Tail(dfs)
  BY DEF PlanDfs, buildVars, wiringVars
<1>2. dfs \in Seq(DOMAIN groups) /\ pipe_stack \in Seq(DOMAIN groups) /\ BuildInv
  BY <1>1 DEF BuildingInv, WireInv
<1>3. h \in DOMAIN groups /\ h = dfs[1]
  BY <1>1, <1>2
<1>4. deps \in Seq(DOMAIN groups)
  <2>1. deps \in Seq(Nat) /\ \A m \in DOMAIN deps : deps[m] \in DOMAIN groups
    BY <1>1, <1>2, <1>3, GroupFacts DEF Dep
  <2> HIDE DEF deps
  <2> QED BY <2>1
<1> HIDE DEF h, deps
<1>5. /\ dfs' \in Seq(DOMAIN groups) /\ pipe_stack' \in Seq(DOMAIN groups)
      /\ \A m \in DOMAIN deps : m \in DOMAIN dfs' /\ dfs'[m] = deps[m]
      /\ \A l \in DOMAIN dfs \ {1} : \E k \in DOMAIN dfs' : dfs'[k] = dfs[l]
  <2>1. Tail(dfs) \in Seq(DOMAIN groups)
        /\ \A l \in DOMAIN dfs \ {1} : l - 1 \in DOMAIN Tail(dfs) /\ Tail(dfs)[l - 1] = dfs[l]
    BY <1>1, <1>2, HeadDropped
  <2> DEFINE t == Tail(dfs)
  <2> HIDE DEF t
  <2>2. /\ deps \o t \in Seq(DOMAIN groups)
        /\ \A m \in DOMAIN deps : m \in DOMAIN (deps \o t) /\ (deps \o t)[m] = deps[m]
        /\ \A k \in DOMAIN t : Len(deps) + k \in DOMAIN (deps \o t)
                               /\ (deps \o t)[Len(deps) + k] = t[k]
    <3>1. t \in Seq(DOMAIN groups)
      BY <2>1 DEF t
    <3> QED BY <1>4, <3>1
  <2>3. ASSUME NEW l \in DOMAIN dfs \ {1} PROVE \E k \in DOMAIN dfs' : dfs'[k] = dfs[l]
    <3>1. l - 1 \in DOMAIN t /\ t[l - 1] = dfs[l]
      BY <2>1 DEF t
    <3>2. Len(deps) + (l - 1) \in DOMAIN (deps \o t)
          /\ (deps \o t)[Len(deps) + (l - 1)] = dfs[l]
      BY <2>2, <3>1
    <3> QED BY <1>1, <3>2 DEF t
  <2>4. pipe_stack' \in Seq(DOMAIN groups)
    BY <1>1, <1>2, <1>3
  <2> QED BY <1>1, <2>2, <2>3, <2>4 DEF t
<1>6. WireInv' /\ SetUpInv' = SetUpInv
  BY <1>1, <1>5, WiresKept
<1>7. DOMAIN pipe_stack = 1 .. Len(pipe_stack) /\ Len(pipe_stack) \in Nat
  BY <1>2
<1>8. /\ DOMAIN pipe_stack' = DOMAIN pipe_stack \cup {Len(pipe_stack) + 1}
      /\ pipe_stack'[Len(pipe_stack) + 1] = h
      /\ \A k \in DOMAIN pipe_stack : pipe_stack'[k] = pipe_stack[k]
  BY <1>1, <1>2, <1>3, <1>7
<1>9. ASSUME NoEmptyTable PROVE StackInv'
  <2>1. StackInv
    BY <1>9 DEF BuildingInv, OrderInv
  <2> SUFFICES ASSUME NEW k \in DOMAIN pipe_stack',
                      NEW m \in DOMAIN groups[pipe_stack'[k]].dependencies
               PROVE  \/ \E l \in DOMAIN pipe_stack' :
                           l > k /\ pipe_stack'[l] = Dep(pipe_stack'[k], m)
                      \/ \E l \in DOMAIN dfs' : dfs'[l] = Dep(pipe_stack'[k], m)
    BY <1>1, ZenonT(40) DEF StackInv, Dep
  <2>2. CASE k = Len(pipe_stack) + 1
    BY <1>5, <1>8, <2>2 DEF Dep, deps
  <2>3. CASE k \in DOMAIN pipe_stack
    <3> DEFINE d == Dep(pipe_stack[k], m)
    <3>1. m \in DOMAIN groups[pipe_stack[k]].dependencies /\ pipe_stack'[k] = pipe_stack[k]
      BY <1>8, <2>3
    <3>2. \/ \E l \in DOMAIN pipe_stack : l > k /\ pipe_stack[l] = d
          \/ \E l \in DOMAIN dfs : dfs[l] = d
      BY <1>1, <2>1, <2>3, <3>1 DEF StackInv
    <3>3. CASE \E l \in DOMAIN pipe_stack : l > k /\ pipe_stack[l] = d
      BY <1>8, <3>1, <3>3
    <3>4. CASE \E l \in DOMAIN dfs \ {1} : dfs[l] = d
      BY <1>5, <3>1, <3>4
    <3>5. CASE dfs[1] = d
      <4>1. Len(pipe_stack) + 1 > k
        BY <1>7, <2>3
      <4> QED BY <1>3, <1>8, <3>1, <3>5, <4>1
    <3> QED BY <3>2, <3>3, <3>4, <3>5
  <2> QED BY <1>8, <2>2, <2>3
<1>10. NoEmptyTable' = NoEmptyTable
  BY <1>1, PlanOfGroupKept
<1> QED BY <1>6, <1>9, <1>10 DEF BuildingInv, OrderInv

\* The steps between the phases.
LEMMA PhaseKeepsInv ==
  ASSUME BuildingInv, pc # "build", pc' # "build",
         UNCHANGED <<input, groups, count, initialized, input_of, table_of, dfs, pipe_stack>>,
         StackInv /\ pc' \in {"initialize", "ready"} => dfs = <<>>,
         pc \in {"initialize", "ready", "crashed"} => pc' \in {"initialize", "ready", "crashed"}
  PROVE  WireInv' /\ OrderInv'
<1>1. WireInv' /\ SetUpInv' = SetUpInv
  BY WiresKept DEF BuildingInv, WireInv
<1>2. NoEmptyTable' = NoEmptyTable
  BY PlanOfGroupKept
<1>3. StackInv => StackInv'
  <2> SUFFICES ASSUME StackInv PROVE StackInv'
    OBVIOUS
  <2>1. ASSUME NEW k \in DOMAIN pipe_stack,
               NEW m \in DOMAIN groups[pipe_stack[k]].dependencies
        PROVE  \/ \E l \in DOMAIN pipe_stack : l > k /\ pipe_stack[l] = Dep(pipe_stack[k], m)
               \/ \E l \in DOMAIN dfs : dfs[l] = Dep(pipe_stack[k], m)
               \/ /\ pc' \in {"initialize", "ready", "crashed"}
                  /\ initialized[Dep(pipe_stack[k], m)] > 0
    BY DEF StackInv
  <2>2. \A k \in DOMAIN pipe_stack : \A m : Dep(pipe_stack[k], m)' = Dep(pipe_stack[k], m)
    BY DEF Dep
  <2> QED BY <2>1, <2>2 DEF StackInv
<1> QED BY <1>1, <1>2, <1>3 DEF BuildingInv, OrderInv

LEMMA InitializeKeepsInv ==
  ASSUME BuildingInv, Initialize
  PROVE  WireInv' /\ OrderInv'
<1>1. PICK g : g = Top
  OBVIOUS
<1>2. PICK n : n = ParallelismCount(g)
  OBVIOUS
<1>3. /\ pc = "initialize" /\ pc' = "initialize" /\ pipe_stack # <<>> /\ InRange(g)
      /\ UNCHANGED <<input, groups, dfs>> /\ pipe_stack' = Front(pipe_stack)
      /\ count' = [count EXCEPT ![g] = IF n > 1 THEN n ELSE 1]
      /\ initialized' = [initialized EXCEPT ![g] = n]
      /\ input_of' = [input_of EXCEPT ![g] =
           [j \in 0 .. n - 1 |-> IF IsScan(g) THEN <<0, j>> ELSE Parent(g, j)]]
      /\ table_of' = [table_of EXCEPT ![g] =
           [j \in 0 .. n - 1 |-> [k \in DOMAIN Slot(g) |-> <<Dep(g, Slot(g)[k]), j>>]]]
  BY <1>1, <1>2 DEF Initialize, buildVars
<1>4. /\ BuildInv /\ WireInv
      /\ pipe_stack \in Seq(DOMAIN groups) /\ dfs \in Seq(DOMAIN groups)
      /\ count \in [DOMAIN groups -> Nat \ {0}] /\ initialized \in [DOMAIN groups -> Nat]
      /\ DOMAIN input_of = DOMAIN groups /\ DOMAIN table_of = DOMAIN groups
  BY <1>3 DEF BuildingInv, WireInv
<1>5. /\ Len(pipe_stack) \in Nat \ {0} /\ DOMAIN pipe_stack = 1 .. Len(pipe_stack)
      /\ g = pipe_stack[Len(pipe_stack)] /\ g \in DOMAIN groups
  BY <1>1, <1>3, <1>4 DEF Top, Last
<1>6. /\ pipe_stack' \in Seq(DOMAIN groups) /\ DOMAIN pipe_stack' = 1 .. Len(pipe_stack) - 1
      /\ \A k \in DOMAIN pipe_stack' : pipe_stack'[k] = pipe_stack[k]
  BY <1>3, <1>4, <1>5, SMTT(30) DEF Front
<1>7. n \in Nat /\ (NoEmptyTable => n > 0)
  BY <1>2, <1>3, <1>4, <1>5, ParallelismFacts
<1>8. /\ \A h : IsScan(h)' = IsScan(h) /\ \A k : Dep(h, k)' = Dep(h, k)
      /\ NoEmptyTable' = NoEmptyTable
  BY <1>3, PlanOfGroupKept
<1>9. ~IsScan(g) => \A j \in 0 .. n - 1 : Parent(g, j) = <<Dep(g, 1), j>>
  BY <1>3, <1>4, <1>5, GroupFacts DEF Parent
<1>10. WireInv'
  <2>1. count' \in [DOMAIN groups -> Nat \ {0}] /\ initialized' \in [DOMAIN groups -> Nat]
    <3> DEFINE w == IF n > 1 THEN n ELSE 1
    <3>1. w \in Nat \ {0}
      BY <1>7
    <3>2. count' = [count EXCEPT ![g] = w]
      BY <1>3
    <3> HIDE DEF w
    <3>3. count' \in [DOMAIN groups -> Nat \ {0}]
      BY <1>4, <3>1, <3>2
    <3> QED BY <1>3, <1>4, <1>7, <3>3
  <2>2. ASSUME NEW h \in DOMAIN groups
        PROVE  /\ DOMAIN input_of'[h] = 0 .. initialized'[h] - 1
               /\ DOMAIN table_of'[h] = 0 .. initialized'[h] - 1
               /\ ~IsScan(h) => \A j \in DOMAIN input_of'[h] : input_of'[h][j] = <<Dep(h, 1), j>>
    <3>1. CASE h = g
      BY <1>3, <1>4, <1>9, <3>1
    <3>2. CASE h # g
      <4>1. /\ input_of'[h] = input_of[h] /\ table_of'[h] = table_of[h]
            /\ initialized'[h] = initialized[h]
        BY <1>3, <1>4, <3>2
      <4> QED BY <1>3, <1>4, <4>1 DEF WireInv
    <3> QED BY <3>1, <3>2
  <2>3. DOMAIN input_of' = DOMAIN groups /\ DOMAIN table_of' = DOMAIN groups
    BY <1>3, <1>4
  <2> QED BY <1>3, <1>4, <1>6, <1>8, <2>1, <2>2, <2>3, ZenonT(40) DEF WireInv
<1>11. ASSUME NoEmptyTable PROVE SetUpInv' /\ StackInv'
  <2>1. SetUpInv /\ StackInv /\ dfs = <<>> /\ DOMAIN dfs = {}
    BY <1>3, <1>11 DEF BuildingInv, OrderInv, StackInv
  <2>2. \A h \in DOMAIN groups : initialized[h] > 0 => SetUp(h)
    BY <1>3, <2>1 DEF SetUpInv
  <2>3. \A m \in DOMAIN groups[g].dependencies :
          Dep(g, m) \in DOMAIN groups /\ initialized[Dep(g, m)] > 0
    <3> TAKE m \in DOMAIN groups[g].dependencies
    <3>1. Dep(g, m) \in DOMAIN groups
      BY <1>3, <1>4, <1>5, GroupFacts
    <3>2. ~\E l \in DOMAIN pipe_stack : l > Len(pipe_stack)
      BY <1>5
    <3>3. Len(pipe_stack) \in DOMAIN pipe_stack
      BY <1>5
    <3> QED BY <1>5, <2>1, <3>1, <3>2, <3>3 DEF StackInv
  <2>4. n > 0 /\ initialized'[g] = n /\ count'[g] = n
    BY <1>3, <1>4, <1>5, <1>7, <1>11
  <2>5. \A h \in DOMAIN groups : initialized[h] > 0 =>
          count'[h] = count[h] /\ initialized'[h] = initialized[h]
    <3> SUFFICES ASSUME NEW h \in DOMAIN groups, initialized[h] > 0
                 PROVE  count'[h] = count[h] /\ initialized'[h] = initialized[h]
      OBVIOUS
    <3>1. CASE h # g
      BY <1>3, <1>4, <3>1
    <3>2. CASE h = g
      <4>1. count[g] = n /\ initialized[g] = n
        BY <1>2, <2>2, <3>2 DEF SetUp
      <4> QED BY <2>4, <3>2, <4>1
    <3> QED BY <3>1, <3>2
  <2>6. \A h \in DOMAIN groups : initialized[h] > 0 => initialized'[h] > 0
    BY <2>5
  <2>7. ASSUME NEW h \in DOMAIN groups, initialized[h] > 0 \/ h = g
        PROVE  ParallelismCount(h)' = ParallelismCount(h)
    <3>1. CASE IsScan(h)
      BY <1>3, <1>8, <3>1 DEF ParallelismCount
    <3>2. CASE ~IsScan(h)
      <4>1. 1 \in DOMAIN groups[h].dependencies /\ Dep(h, 1) \in DOMAIN groups
        BY <1>3, <1>4, <3>2, GroupFacts
      <4>2. initialized[Dep(h, 1)] > 0
        BY <2>2, <2>3, <2>7, <4>1 DEF SetUp
      <4>3. count'[Dep(h, 1)] = count[Dep(h, 1)]
        BY <2>5, <4>1, <4>2
      <4> QED BY <1>8, <3>2, <4>3 DEF ParallelismCount
    <3> QED BY <3>1, <3>2
  <2>8. SetUpInv'
    <3> SUFFICES ASSUME NEW h \in DOMAIN groups, initialized'[h] > 0
                 PROVE  SetUp(h)'
      BY <1>3 DEF SetUpInv
    <3> SUFFICES /\ count'[h] = initialized'[h]
                 /\ initialized'[h] = ParallelismCount(h)'
                 /\ \A m \in DOMAIN groups[h].dependencies : initialized'[Dep(h, m)] > 0
                 /\ \A j \in DOMAIN table_of'[h] : \A k \in DOMAIN table_of'[h][j] :
                      \E m \in DOMAIN groups[h].dependencies :
                        /\ table_of'[h][j][k][1] = Dep(h, m)
                        /\ initialized'[h] <= initialized'[Dep(h, m)]
      BY <1>3, <1>8 DEF SetUp
    <3>1. CASE h = g
      <4>1. ParallelismCount(g)' = n
        BY <1>2, <1>5, <2>7
      <4>2. \A m \in DOMAIN groups[g].dependencies : initialized'[Dep(g, m)] > 0
        BY <2>3, <2>6
      <4>3. ASSUME NEW j \in DOMAIN table_of'[g], NEW k \in DOMAIN table_of'[g][j]
            PROVE  \E m \in DOMAIN groups[g].dependencies :
                     /\ table_of'[g][j][k][1] = Dep(g, m)
                     /\ n <= initialized'[Dep(g, m)]
        <5> DEFINE s == Slot(g)
        <5>1. /\ table_of'[g] = [i \in 0 .. n - 1 |-> [l \in DOMAIN s |-> <<Dep(g, s[l]), i>>]]
              /\ \A l \in DOMAIN s : s[l] \in DOMAIN groups[g].dependencies
                                     /\ n <= count[Dep(g, s[l])]
          BY <1>2, <1>3, <1>4, <1>5 DEF InRange
        <5> HIDE DEF s
        <5>2. k \in DOMAIN s /\ table_of'[g][j][k][1] = Dep(g, s[k])
          BY <5>1
        <5>3. s[k] \in DOMAIN groups[g].dependencies /\ n <= count[Dep(g, s[k])]
          BY <5>1, <5>2
        <5>4. initialized'[Dep(g, s[k])] = count[Dep(g, s[k])]
          BY <2>2, <2>3, <2>5, <5>3 DEF SetUp
        <5> QED BY <5>2, <5>3, <5>4
      <4> QED BY <2>4, <3>1, <4>1, <4>2, <4>3
    <3>2. CASE h # g
      <4>1. /\ initialized'[h] = initialized[h] /\ table_of'[h] = table_of[h]
        BY <1>3, <1>4, <3>2
      <4>2. initialized[h] > 0 /\ SetUp(h)
        BY <2>2, <4>1
      <4>3. \A m \in DOMAIN groups[h].dependencies :
              initialized'[Dep(h, m)] = initialized[Dep(h, m)] /\ initialized'[Dep(h, m)] > 0
        <5> TAKE m \in DOMAIN groups[h].dependencies
        <5>1. Dep(h, m) \in DOMAIN groups /\ initialized[Dep(h, m)] > 0
          BY <1>3, <1>4, <4>2, GroupFacts DEF SetUp
        <5> QED BY <2>5, <5>1
      <4>4. count'[h] = initialized'[h] /\ initialized'[h] = ParallelismCount(h)'
        BY <2>5, <2>7, <4>2 DEF SetUp
      <4> QED BY <4>1, <4>2, <4>3, <4>4 DEF SetUp
    <3> QED BY <3>1, <3>2
  <2>9. StackInv'
    <3> SUFFICES ASSUME NEW k \in DOMAIN pipe_stack',
                        NEW m \in DOMAIN groups[pipe_stack'[k]].dependencies
                 PROVE  \/ \E l \in DOMAIN pipe_stack' :
                             l > k /\ pipe_stack'[l] = Dep(pipe_stack'[k], m)
                        \/ initialized'[Dep(pipe_stack'[k], m)] > 0
      BY <1>3, <2>1 DEF StackInv, Dep
    <3>1. k \in DOMAIN pipe_stack /\ pipe_stack'[k] = pipe_stack[k]
      BY <1>5, <1>6
    <3> DEFINE d == Dep(pipe_stack[k], m)
    <3>2. \/ \E l \in DOMAIN pipe_stack : l > k /\ pipe_stack[l] = d
          \/ initialized[d] > 0
      BY <2>1, <3>1 DEF StackInv
    <3>3. d \in DOMAIN groups
      BY <1>3, <1>4, <3>1, GroupFacts
    <3>4. CASE initialized[d] > 0
      BY <2>6, <3>1, <3>3, <3>4
    <3>5. ASSUME NEW l \in DOMAIN pipe_stack, l > k, pipe_stack[l] = d
          PROVE  \/ \E x \in DOMAIN pipe_stack' : x > k /\ pipe_stack'[x] = d
                 \/ initialized'[d] > 0
      <4>1. CASE l = Len(pipe_stack)
        BY <1>5, <2>4, <3>5, <4>1
      <4>2. CASE l # Len(pipe_stack)
        <5>1. l \in DOMAIN pipe_stack'
          BY <1>5, <1>6, <4>2
        <5> QED BY <1>6, <3>5, <5>1
      <4> QED BY <4>1, <4>2
    <3> QED BY <3>1, <3>2, <3>4, <3>5
  <2> QED BY <2>8, <2>9
<1> QED BY <1>8, <1>10, <1>11 DEF OrderInv

-----------------------------------------------------------------------------
(* The invariant and what follows from it *)

\* Every group is cut, stacked and connected as BuildingInv says.
THEOREM BuildingInvHolds == Spec => []BuildingInv
<1>1. Init => BuildingInv
  <2> SUFFICES ASSUME Init PROVE BuildingInv
    OBVIOUS
  <2>1. BuildInv
    BY BuildInvInitially
  <2>2. pc = "build" /\ dfs = <<1>> /\ pipe_stack = <<>> /\ input_of = <<>> /\ table_of = <<>>
        /\ DOMAIN pipe_stack = {}
    BY DEF Init
  <2> QED BY <2>1, <2>2 DEF BuildingInv, WireInv, OrderInv, SetUpInv, StackInv
<1>2. BuildingInv /\ [Next]_vars => BuildingInv'
  <2> SUFFICES ASSUME BuildingInv, [Next]_vars PROVE BuildingInv'
    OBVIOUS
  <2>1. BuildInv'
    BY BuildInvKept DEF BuildingInv
  <2>2. CASE BuildSink \/ BuildScan \/ BuildOperator \/ BuildJoin \/ CreateChildGroup
    <3>1. pc = "build" /\ pc' = "build" /\ UNCHANGED <<traverseVars, wiringVars>>
      BY <2>2 DEF BuildSink, BuildScan, BuildOperator, BuildJoin, CreateChildGroup, Running
    <3> QED BY <2>1, <3>1, BuildingKeepsWires DEF BuildingInv
  <2>3. CASE BuildDone
    BY <2>1, <2>3, BuildDoneKeepsInv DEF BuildingInv
  <2>4. CASE PlanDfs
    BY <2>1, <2>4, PlanDfsKeepsInv DEF BuildingInv
  <2>5. CASE Initialize
    BY <2>1, <2>5, InitializeKeepsInv DEF BuildingInv
  <2>6. CASE TraverseDone \/ InitializeFails \/ InitializeDone
    <3>1. UNCHANGED <<input, groups, count, initialized, input_of, table_of, dfs, pipe_stack>>
      BY <2>6 DEF TraverseDone, InitializeFails, InitializeDone, buildVars, traverseVars, wiringVars
    <3>2. \/ pc = "traverse" /\ dfs = <<>> /\ pc' = "initialize"
          \/ pc = "initialize" /\ pc' \in {"crashed", "ready"}
      BY <2>6 DEF TraverseDone, InitializeFails, InitializeDone
    <3>3. StackInv /\ pc' \in {"initialize", "ready"} => dfs = <<>>
      BY <3>2 DEF StackInv
    <3> QED BY <3>1, <3>2, <3>3, PhaseKeepsInv, <2>1 DEF BuildingInv
  <2>7. CASE UNCHANGED vars
    <3>1. UNCHANGED <<pc, input, groups, count, initialized, input_of, table_of, dfs, pipe_stack>>
      BY <2>7 DEF vars, buildVars, traverseVars, wiringVars
    <3>2. CASE pc = "build"
      BY <2>1, <3>1, <3>2, BuildingKeepsWires DEF BuildingInv, traverseVars, wiringVars
    <3>3. CASE pc # "build"
      <4>1. StackInv /\ pc' \in {"initialize", "ready"} => dfs = <<>>
        BY <3>1 DEF StackInv
      <4> QED BY <2>1, <3>1, <3>3, <4>1, PhaseKeepsInv DEF BuildingInv
    <3> QED BY <3>2, <3>3
  <2> QED BY <2>2, <2>3, <2>4, <2>5, <2>6, <2>7 DEF Next
<1> QED BY <1>1, <1>2, PTL DEF Spec

(***************************************************************************)
(* Initialize connects the source of every pipeline, copies included, to   *)
(* the pipeline of the same index in the group whose sink it is, however   *)
(* joins and sinks are nested in the plan.                                 *)
(***************************************************************************)
THEOREM SourcesReadTheirSinks == Spec => []SourceReadsItsSink
<1>1. BuildingInv => SourceReadsItsSink
  <2> SUFFICES ASSUME BuildingInv, NEW g \in DOMAIN input_of, NEW i \in DOMAIN input_of[g],
                      ~IsScan(g)
               PROVE  /\ input_of[g][i][1] # 0
                      /\ groups[input_of[g][i][1]].sink = groups[g].source
                      /\ input_of[g][i][2] = i
    BY DEF SourceReadsItsSink
  <2>1. pc # "build"
    BY DEF BuildingInv, WireInv
  <2>2. g \in DOMAIN groups /\ input_of[g][i] = <<Dep(g, 1), i>>
    BY <2>1 DEF BuildingInv, WireInv
  <2>3. /\ Dep(g, 1) \in DOMAIN groups /\ DOMAIN groups \subseteq Nat \ {0}
        /\ groups[Dep(g, 1)].sink = groups[g].source
    BY <2>1, <2>2, GroupFacts DEF BuildingInv
  <2> QED BY <2>2, <2>3
<1> QED BY <1>1, BuildingInvHolds, PTL

(***************************************************************************)
(* The order in which traverse_plan stacks the groups sets every pipeline  *)
(* up before its sink state is handed to a source or to a join.            *)
(***************************************************************************)
THEOREM StatesAreThere == Spec => []StatesExist
<1>1. BuildingInv => StatesExist
  <2> SUFFICES ASSUME BuildingInv, NoEmptyTable
               PROVE  /\ \A g \in DOMAIN input_of : \A i \in DOMAIN input_of[g] :
                           ~IsScan(g) => i < initialized[input_of[g][i][1]]
                      /\ \A g \in DOMAIN table_of : \A i \in DOMAIN table_of[g] :
                           \A k \in DOMAIN table_of[g][i] :
                             i < initialized[table_of[g][i][k][1]]
    BY DEF StatesExist
  <2>1. CASE pc = "build"
    BY <2>1 DEF BuildingInv, WireInv
  <2>2. CASE pc # "build"
    <3>1. /\ BuildInv /\ DOMAIN input_of = DOMAIN groups /\ DOMAIN table_of = DOMAIN groups
          /\ initialized \in [DOMAIN groups -> Nat]
          /\ \A g \in DOMAIN groups :
               /\ DOMAIN input_of[g] = 0 .. initialized[g] - 1
               /\ DOMAIN table_of[g] = 0 .. initialized[g] - 1
               /\ ~IsScan(g) => \A i \in DOMAIN input_of[g] : input_of[g][i] = <<Dep(g, 1), i>>
      BY <2>2 DEF BuildingInv, WireInv
    <3>2. \A g \in DOMAIN groups : initialized[g] > 0 => SetUp(g)
      BY <2>2 DEF BuildingInv, OrderInv, SetUpInv
    <3>3. ASSUME NEW g \in DOMAIN groups, NEW i \in DOMAIN input_of[g], ~IsScan(g)
          PROVE  i < initialized[input_of[g][i][1]]
      <4>1. input_of[g][i][1] = Dep(g, 1) /\ i \in 0 .. initialized[g] - 1
            /\ initialized[g] \in Nat
        BY <3>1, <3>3
      <4>2. initialized[g] > 0 /\ i < initialized[g]
        BY <4>1
      <4>3. initialized[g] = count[Dep(g, 1)]
        BY <3>2, <3>3, <4>2 DEF SetUp, ParallelismCount
      <4>4. Dep(g, 1) \in DOMAIN groups /\ initialized[Dep(g, 1)] > 0
        BY <2>2, <3>1, <3>2, <3>3, <4>2, GroupFacts DEF SetUp
      <4>5. count[Dep(g, 1)] = initialized[Dep(g, 1)]
        BY <3>2, <4>4 DEF SetUp
      <4> QED BY <4>1, <4>2, <4>3, <4>5
    <3>4. ASSUME NEW g \in DOMAIN groups, NEW i \in DOMAIN table_of[g],
                 NEW k \in DOMAIN table_of[g][i]
          PROVE  i < initialized[table_of[g][i][k][1]]
      <4>1. i \in 0 .. initialized[g] - 1 /\ initialized[g] \in Nat
        BY <3>1
      <4>2. initialized[g] > 0 /\ i < initialized[g] /\ i \in Nat
        BY <4>1
      <4>3. PICK m \in DOMAIN groups[g].dependencies :
              /\ table_of[g][i][k][1] = Dep(g, m)
              /\ initialized[g] <= initialized[Dep(g, m)]
        BY <3>2, <4>2 DEF SetUp
      <4>4. initialized[Dep(g, m)] \in Nat
        BY <2>2, <3>1, GroupFacts
      <4> QED BY <4>1, <4>2, <4>3, <4>4
    <3> QED BY <3>1, <3>3, <3>4
  <2> QED BY <2>1, <2>2
<1> QED BY <1>1, BuildingInvHolds, PTL

-----------------------------------------------------------------------------
(* Which dependency a join is connected to                                 *)

Ops(g) == groups[g].operators
Served(g, m) == groups[Dep(g, m)].sink
JoinCalls(g) ==
  {c \in DOMAIN calls : /\ calls[c].group = g /\ calls[c].fn = "create_child_group"
                        /\ ~Starts(calls[c])}

\* The dependencies for joins come after the source's, if it has one.
Offset(g) ==
  IF groups[g].source # NoOp /\ plan[groups[g].source] \in SinkKinds THEN 1 ELSE 0
JoinDeps(g) == {m \in DOMAIN groups[g].dependencies : m > Offset(g)}

(* The operators of a pipeline go down the plan. *)
Chains(g) ==
  /\ \A k, l \in DOMAIN Ops(g) : k < l => Len(Ops(g)[k]) < Len(Ops(g)[l])
  /\ \A c \in DOMAIN calls : calls[c].group = g /\ calls[c].fn = "build_pipelines" =>
       \A k \in DOMAIN Ops(g) : Len(Ops(g)[k]) < Len(calls[c].op)

(* The joins of a group are served from the deepest up: first those that   *)
(* have become dependencies, in this order, then those whose calls are     *)
(* pending, in the order of the stack.                                     *)
Serves(g) ==
  /\ \A m \in JoinDeps(g) : \E k \in Joins(g) : Served(g, m) = Ops(g)[k]
  /\ \A c \in JoinCalls(g) : \E k \in Joins(g) : calls[c].op = Ops(g)[k]
  /\ \A k \in Joins(g) : \/ \E m \in JoinDeps(g) : Served(g, m) = Ops(g)[k]
                         \/ \E c \in JoinCalls(g) : calls[c].op = Ops(g)[k]
  /\ \A m, n \in JoinDeps(g) : m < n => Len(Served(g, n)) < Len(Served(g, m))
  /\ \A m \in JoinDeps(g), c \in JoinCalls(g) : Len(calls[c].op) < Len(Served(g, m))
  /\ \A c, d \in JoinCalls(g) : c < d => Len(calls[d].op) < Len(calls[c].op)

ServeInv == \A g \in DOMAIN groups : Chains(g) /\ Serves(g)

(* What Initialize has connected the joins to. *)
TableInv ==
  pc # "build" => \A g \in DOMAIN table_of : \A j \in DOMAIN table_of[g] :
    table_of[g][j] = [k \in Joins(g) |-> <<Dep(g, CountPg(g)[k]), j>>]

\* A path is a sequence, and that of a child is longer by one.
LEMMA PathFacts ==
  ASSUME input \in Inputs, NEW op \in DOMAIN plan
  PROVE  /\ op \in Seq(Nat) /\ Len(op) \in Nat
         /\ \A n \in {1, 2} : Len(Kid(op, n)) = Len(op) + 1
         /\ Len(Down(op)) = Len(op) + 1
<1>1. op \in Seq(Nat)
  BY PlanAssumption DEF plan
<1>2. \A n \in {1, 2} : Len(Kid(op, n)) = Len(op) + 1
  BY <1>1 DEF Kid
<1> QED BY <1>1, <1>2 DEF Down

\* What a step leaves of a group it does not change.
LEMMA SameGroup ==
  ASSUME BuildInv, input' = input, NEW h \in DOMAIN groups, groups'[h] = groups[h],
         \A d \in DOMAIN groups : groups'[d].sink = groups[d].sink
  PROVE  /\ Ops(h)' = Ops(h) /\ Joins(h)' = Joins(h) /\ Offset(h)' = Offset(h)
         /\ JoinDeps(h)' = JoinDeps(h)
         /\ \A m \in JoinDeps(h) : Served(h, m)' = Served(h, m)
<1>1. plan' = plan
  BY PlanKept
<1>2. Ops(h)' = Ops(h) /\ Joins(h)' = Joins(h)
  BY <1>1 DEF Ops, Joins
<1>3. Offset(h)' = Offset(h)
  BY <1>1 DEF Offset
<1>4. JoinDeps(h)' = JoinDeps(h)
  BY <1>3 DEF JoinDeps
<1>5. \A m \in JoinDeps(h) : Dep(h, m) \in DOMAIN groups
  BY DEF BuildInv, TypeInv, JoinDeps, Dep
<1>6. \A m \in JoinDeps(h) : Served(h, m)' = Served(h, m)
  BY <1>5 DEF Served, Dep
<1> QED BY <1>2, <1>3, <1>4, <1>6

\* The pending joins of a group when build_pipelines has run.
LEMMA JoinCallsShifted ==
  ASSUME BuildInv, Running("build_pipelines"), input' = input, NEW n \in {0, 1, 2}, RestKept(n),
         NEW h
  PROVE  /\ JoinCalls(h) \subseteq Nat /\ JoinCalls(h)' \subseteq Nat
         /\ \A c \in JoinCalls(h) :
              c + n - 1 > n /\ c + n - 1 \in JoinCalls(h)' /\ calls'[c + n - 1].op = calls[c].op
         /\ \A c \in JoinCalls(h)' : c > n =>
              c - n + 1 \in JoinCalls(h) /\ calls'[c].op = calls[c - n + 1].op
<1>1. calls[1].fn = "build_pipelines" /\ DOMAIN calls = 1 .. Len(calls) /\ Len(calls) \in Nat
  BY HeadFacts
<1>2. calls' \in Seq(CallSet) /\ DOMAIN calls' = 1 .. Len(calls') /\ Len(calls') \in Nat
  BY DEF RestKept
<1>3. \A c \in DOMAIN calls' : c \in JoinCalls(h)' <=>
        calls'[c].group = h /\ calls'[c].fn = "create_child_group" /\ ~Starts(calls'[c])
  BY PlanKept DEF JoinCalls, Starts
<1>4. JoinCalls(h)' \subseteq DOMAIN calls'
  BY DEF JoinCalls
<1>5. ASSUME NEW c \in JoinCalls(h)
      PROVE  /\ c \in DOMAIN calls \ {1} /\ c + n - 1 > n
             /\ c + n - 1 \in JoinCalls(h)' /\ calls'[c + n - 1].op = calls[c].op
  <2>1. c \in DOMAIN calls \ {1}
    BY <1>1 DEF JoinCalls
  <2>2. c + n - 1 \in DOMAIN calls' /\ calls'[c + n - 1] = calls[c]
    BY <2>1 DEF RestKept
  <2>3. c + n - 1 > n
    BY <1>1, <2>1
  <2> QED BY <1>3, <2>1, <2>2, <2>3 DEF JoinCalls
<1>6. ASSUME NEW c \in JoinCalls(h)', c > n
      PROVE  c - n + 1 \in JoinCalls(h) /\ calls'[c].op = calls[c - n + 1].op
  <2>1. c - n + 1 \in DOMAIN calls /\ calls'[c] = calls[c - n + 1]
    BY <1>4, <1>6 DEF RestKept
  <2> QED BY <1>3, <1>4, <2>1 DEF JoinCalls
<1> QED BY <1>1, <1>2, <1>4, <1>5, <1>6

\* No join was added to a group.
LEMMA ServesShifted ==
  ASSUME BuildInv, Running("build_pipelines"), input' = input, NEW n \in {0, 1, 2}, RestKept(n),
         NEW h, Serves(h), Joins(h)' = Joins(h), JoinDeps(h)' = JoinDeps(h),
         \A k \in Joins(h) : Ops(h)'[k] = Ops(h)[k],
         \A m \in JoinDeps(h) : Served(h, m)' = Served(h, m),
         \A c \in JoinCalls(h)' : c > n
  PROVE  Serves(h)'
<1>1. /\ JoinCalls(h) \subseteq Nat /\ JoinCalls(h)' \subseteq Nat
      /\ \A c \in JoinCalls(h) : c + n - 1 \in JoinCalls(h)' /\ calls'[c + n - 1].op = calls[c].op
      /\ \A c \in JoinCalls(h)' : c - n + 1 \in JoinCalls(h) /\ calls'[c].op = calls[c - n + 1].op
  BY JoinCallsShifted
<1>2. \A m \in JoinDeps(h)' : \E k \in Joins(h)' : Served(h, m)' = Ops(h)'[k]
  BY DEF Serves
<1>3. \A c \in JoinCalls(h)' : \E k \in Joins(h)' : calls'[c].op = Ops(h)'[k]
  BY <1>1 DEF Serves
<1>4. \A k \in Joins(h)' : \/ \E m \in JoinDeps(h)' : Served(h, m)' = Ops(h)'[k]
                          \/ \E c \in JoinCalls(h)' : calls'[c].op = Ops(h)'[k]
  BY <1>1 DEF Serves
<1>5. \A m, l \in JoinDeps(h)' : m < l => Len(Served(h, l)') < Len(Served(h, m)')
  BY DEF Serves
<1>6. \A m \in JoinDeps(h)', c \in JoinCalls(h)' : Len(calls'[c].op) < Len(Served(h, m)')
  BY <1>1 DEF Serves
<1>7. ASSUME NEW c \in JoinCalls(h)', NEW d \in JoinCalls(h)', c < d
      PROVE  Len(calls'[d].op) < Len(calls'[c].op)
  <2>1. c - n + 1 < d - n + 1
    BY <1>1, <1>7
  <2> QED BY <1>1, <2>1 DEF Serves
<1> QED BY <1>2, <1>3, <1>4, <1>5, <1>6, <1>7 DEF Serves

LEMMA ParseKeepsServing ==
  ASSUME BuildInv, ServeInv, Running("build_pipelines"), NEW n \in {0, 1, 2}, NEW g,
         NEW e \in GroupSet, Parsed(n, g, e)
  PROVE  ServeInv'
<1> DEFINE op == calls[1].op
<1> USE DEF Parsed, GroupParsed
<1>1. /\ input \in Inputs /\ 1 \in DOMAIN calls /\ DOMAIN calls = 1 .. Len(calls)
      /\ Len(calls) \in Nat /\ calls[1].fn = "build_pipelines" /\ op \in DOMAIN plan
      /\ g \in DOMAIN groups /\ groups \in Seq(GroupSet)
      /\ \A h \in DOMAIN groups : groups[h] \in GroupSet
  BY HeadFacts
<1>2. /\ DOMAIN groups' = DOMAIN groups /\ groups'[g] = e
      /\ \A h \in DOMAIN groups : h # g => groups'[h] = groups[h]
  BY <1>1, GroupChanged
<1>3. \A h \in DOMAIN groups : groups'[h].sink = groups[h].sink
  BY <1>2
<1>4. plan' = plan /\ \A call : Starts(call)' = Starts(call)
  BY PlanKept
<1>5. /\ groups[g].dependencies = <<>>
      /\ \A l \in DOMAIN calls \ {1} : calls[l].group = g => ~Starts(calls[l])
  BY <1>1 DEF BuildInv, CallInv, Starts
<1>6. DOMAIN calls' = 1 .. Len(calls') /\ Len(calls') \in Nat
      /\ \A c \in DOMAIN calls' : c \in Nat /\ (c \in 1 .. n \/ c > n)
  BY DEF RestKept
<1>7. \A c \in DOMAIN calls' : c > n => \E l \in DOMAIN calls \ {1} : calls'[c] = calls[l]
  BY DEF RestKept
<1>8. \A c \in 1 .. n : calls'[c].group = g
  BY DEF CallsPut
<1>9. ASSUME NEW h \in DOMAIN groups, h # g
      PROVE  Chains(h)' /\ Serves(h)'
  <2>1. /\ Ops(h)' = Ops(h) /\ Joins(h)' = Joins(h) /\ JoinDeps(h)' = JoinDeps(h)
        /\ \A m \in JoinDeps(h) : Served(h, m)' = Served(h, m)
    BY <1>2, <1>3, <1>9, SameGroup
  <2>2. \A c \in JoinCalls(h)' : c > n
    BY <1>6, <1>8, <1>9 DEF JoinCalls
  <2>3. Serves(h)'
    BY <2>1, <2>2, ServesShifted DEF ServeInv
  <2>4. ASSUME NEW c \in DOMAIN calls', calls'[c].group = h, calls'[c].fn = "build_pipelines",
               NEW k \in DOMAIN Ops(h)
        PROVE  Len(Ops(h)[k]) < Len(calls'[c].op)
    BY <1>6, <1>7, <1>8, <1>9, <2>4 DEF ServeInv, Chains
  <2>5. Chains(h)'
    BY <2>1, <2>4 DEF ServeInv, Chains
  <2> QED BY <2>3, <2>5
<1>10. JoinDeps(g) = {} /\ JoinDeps(g)' = {} /\ Ops(g)' = e.operators
       /\ Ops(g) = groups[g].operators /\ Ops(g) \in Seq(DOMAIN plan)
  <2>1. groups'[g].dependencies = <<>> /\ DOMAIN <<>> = {}
    BY <1>2, <1>5
  <2> QED BY <1>1, <1>2, <1>5, <2>1 DEF JoinDeps, Ops, GroupSet
<1>11. CASE e.operators = groups[g].operators
  <2>1. /\ \A c \in 1 .. n : calls'[c].fn # "build_pipelines"
        /\ \A c \in 1 .. n : Starts(calls'[c])
    <3>1. groups[g].operators # Append(groups[g].operators, op)
      BY <1>10
    <3>2. 1 .. 0 = {} /\ 1 .. 1 = {1}
      OBVIOUS
    <3> QED BY <1>11, <3>1, <3>2 DEF ChainPut, Starts
  <2>2. Ops(g)' = Ops(g) /\ Joins(g)' = Joins(g)
    BY <1>2, <1>4, <1>10, <1>11 DEF Joins
  <2>3. \A c \in JoinCalls(g)' : c > n
    BY <1>4, <1>6, <2>1 DEF JoinCalls
  <2>4. Serves(g)'
    BY <1>1, <1>10, <2>2, <2>3, ServesShifted DEF ServeInv
  <2>5. \A c \in DOMAIN calls' : calls'[c].group = g => calls'[c].fn # "build_pipelines"
    BY <1>5, <1>6, <1>7, <2>1 DEF Starts
  <2>6. Chains(g)'
    BY <1>1, <2>2, <2>5 DEF ServeInv, Chains
  <2> QED BY <1>2, <1>9, <2>4, <2>6 DEF ServeInv
<1>12. CASE e.operators = Append(groups[g].operators, op)
  <2>1. /\ calls'[1].fn = "build_pipelines" /\ calls'[1].op = Down(op)
        /\ \/ n = 1 /\ plan[op] = "operator"
           \/ /\ n = 2 /\ plan[op] \in JoinKinds
              /\ calls'[2].fn = "create_child_group" /\ calls'[2].op = op
    <3>1. groups[g].operators # Append(groups[g].operators, op)
      BY <1>10
    <3> QED BY <1>12, <3>1 DEF ChainPut
  <2>2. PICK p : p = Len(Ops(g)) + 1
    OBVIOUS
  <2>3. /\ p \in Nat /\ DOMAIN Ops(g)' = DOMAIN Ops(g) \cup {p} /\ p \notin DOMAIN Ops(g)
        /\ Ops(g)'[p] = op /\ \A k \in DOMAIN Ops(g) : Ops(g)'[k] = Ops(g)[k] /\ k < p
        /\ DOMAIN Ops(g) \subseteq Nat
    BY <1>1, <1>10, <1>12, <2>2
  <2>4. \A k \in DOMAIN Ops(g) : Len(Ops(g)[k]) < Len(op) /\ Len(Ops(g)[k]) \in Nat
    <3>1. \A k \in DOMAIN Ops(g) : Ops(g)[k] \in DOMAIN plan
      BY <1>10
    <3> QED BY <1>1, <3>1, PathFacts DEF ServeInv, Chains, GroupParsed
  <2>5. Len(op) \in Nat /\ Len(Down(op)) = Len(op) + 1
    BY <1>1, PathFacts
  <2>6. Chains(g)'
    <3>1. ASSUME NEW k \in DOMAIN Ops(g)', NEW l \in DOMAIN Ops(g)', k < l
          PROVE  Len(Ops(g)'[k]) < Len(Ops(g)'[l])
      <4>1. k # p
        BY <2>3, <3>1
      <4>2. CASE l = p
        BY <2>3, <2>4, <4>1, <4>2
      <4>3. CASE l # p
        BY <1>1, <2>3, <3>1, <4>1, <4>3 DEF ServeInv, Chains
      <4> QED BY <4>2, <4>3
    <3>2. ASSUME NEW c \in DOMAIN calls', calls'[c].group = g, calls'[c].fn = "build_pipelines",
                 NEW k \in DOMAIN Ops(g)'
          PROVE  Len(Ops(g)'[k]) < Len(calls'[c].op)
      <4>1. c \in 1 .. n
        BY <1>5, <1>6, <1>7, <3>2 DEF Starts
      <4>2. c = 1
        BY <2>1, <3>2, <4>1
      <4>3. Len(Ops(g)'[k]) <= Len(op) /\ Len(Ops(g)'[k]) \in Nat
        BY <2>3, <2>4, <2>5
      <4> QED BY <2>1, <2>5, <4>2, <4>3
    <3> QED BY <3>1, <3>2 DEF Chains
  <2>7. CASE plan[op] \notin JoinKinds
    <3>1. n = 1
      BY <2>1, <2>7
    <3>2. Joins(g)' = Joins(g)
      BY <1>4, <2>3, <2>7 DEF Joins, Ops
    <3>3. \A k \in Joins(g) : Ops(g)'[k] = Ops(g)[k]
      BY <2>3 DEF Joins, Ops
    <3>4. \A c \in JoinCalls(g)' : c > n
      <4>1. 1 \notin JoinCalls(g)'
        BY <2>1 DEF JoinCalls
      <4> QED BY <1>6, <3>1, <4>1 DEF JoinCalls
    <3>5. Serves(g)'
      BY <1>1, <1>10, <3>2, <3>3, <3>4, ServesShifted DEF ServeInv
    <3> QED BY <1>2, <1>9, <2>6, <3>5 DEF ServeInv
  <2>8. CASE plan[op] \in JoinKinds
    <3>1. n = 2 /\ calls'[2].fn = "create_child_group" /\ calls'[2].op = op
      BY <1>1, <2>1, <2>8, PlanFacts
    <3>2. /\ Joins(g)' = Joins(g) \cup {p}
          /\ \A k \in Joins(g) : k \in DOMAIN Ops(g) /\ Ops(g)'[k] = Ops(g)[k]
      BY <1>4, <2>3, <2>8 DEF Joins, Ops
    <3>3. /\ 2 \in JoinCalls(g)' /\ JoinCalls(g)' \subseteq Nat
          /\ \A c \in JoinCalls(g)' : c = 2 \/ c > 2
      <4>1. ~Starts(calls'[2])
        BY <1>1, <2>8, <3>1, PlanFacts DEF Starts
      <4>2. 2 \in DOMAIN calls' /\ 2 \in 1 .. n
        BY <3>1 DEF RestKept
      <4>3. 2 \in JoinCalls(g)'
        BY <1>4, <1>8, <3>1, <4>1, <4>2 DEF JoinCalls
      <4>4. 1 \notin JoinCalls(g)'
        BY <2>1 DEF JoinCalls
      <4>5. \A c \in 1 .. 2 : c = 1 \/ c = 2
        OBVIOUS
      <4> QED BY <1>6, <3>1, <4>3, <4>4, <4>5 DEF JoinCalls
    <3>4. /\ \A c \in JoinCalls(g) :
               c + 2 - 1 \in JoinCalls(g)' /\ calls'[c + 2 - 1].op = calls[c].op
          /\ \A c \in JoinCalls(g)' : c > 2 =>
               c - 2 + 1 \in JoinCalls(g) /\ calls'[c].op = calls[c - 2 + 1].op
      BY <3>1, JoinCallsShifted
    <3>5. \A c \in JoinCalls(g)' : \E k \in Joins(g)' : calls'[c].op = Ops(g)'[k]
      BY <1>1, <2>3, <3>1, <3>2, <3>3, <3>4 DEF ServeInv, Serves
    <3>6. \A k \in Joins(g)' : \E c \in JoinCalls(g)' : calls'[c].op = Ops(g)'[k]
      <4>1. ASSUME NEW k \in Joins(g)
            PROVE  \E c \in JoinCalls(g)' : calls'[c].op = Ops(g)'[k]
        <5>1. PICK c \in JoinCalls(g) : calls[c].op = Ops(g)[k]
          BY <1>1, <1>10 DEF ServeInv, Serves
        <5> QED BY <3>2, <3>4, <5>1
      <4> QED BY <2>3, <3>1, <3>2, <3>3, <4>1
    <3>7. ASSUME NEW c \in JoinCalls(g)', NEW d \in JoinCalls(g)', c < d
          PROVE  Len(calls'[d].op) < Len(calls'[c].op)
      <4>1. d > 2 /\ d - 2 + 1 \in JoinCalls(g) /\ calls'[d].op = calls[d - 2 + 1].op
        BY <3>3, <3>4, <3>7
      <4>2. CASE c = 2
        <5>1. PICK k \in Joins(g) : calls[d - 2 + 1].op = Ops(g)[k]
          BY <1>1, <4>1 DEF ServeInv, Serves
        <5> QED BY <2>4, <3>1, <3>2, <4>1, <4>2, <5>1
      <4>3. CASE c > 2
        <5>1. c - 2 + 1 \in JoinCalls(g) /\ calls'[c].op = calls[c - 2 + 1].op
          BY <3>4, <4>3
        <5>2. c - 2 + 1 < d - 2 + 1
          BY <3>3, <3>7
        <5> QED BY <1>1, <4>1, <5>1, <5>2 DEF ServeInv, Serves
      <4> QED BY <3>3, <4>2, <4>3
    <3>8. Serves(g)'
      BY <1>10, <3>5, <3>6, <3>7 DEF Serves
    <3> QED BY <1>2, <1>9, <2>6, <3>8 DEF ServeInv
  <2> QED BY <2>7, <2>8
<1> QED BY <1>11, <1>12 DEF ChainPut

LEMMA CreateKeepsServing ==
  ASSUME BuildInv, ServeInv, CreateChildGroup
  PROVE  ServeInv'
<1>0. PICK g, op, new : g = calls[1].group /\ op = calls[1].op /\ new = Len(groups) + 1
  OBVIOUS
<1>1. /\ Running("create_child_group") /\ input \in Inputs
      /\ calls[1].fn = "create_child_group" /\ calls \in Seq(CallSet) /\ calls # <<>>
      /\ DOMAIN calls = 1 .. Len(calls) /\ Len(calls) \in Nat /\ 1 \in DOMAIN calls
      /\ op \in DOMAIN plan /\ g \in DOMAIN groups /\ plan[op] \in SinkKinds \cup JoinKinds
      /\ \A h \in DOMAIN groups : groups[h] \in GroupSet
  BY <1>0, HeadFacts DEF CreateChildGroup, BuildInv, TypeInv
<1>2. /\ input' = input /\ DOMAIN groups' = DOMAIN groups \cup {new} /\ new \notin DOMAIN groups
      /\ groups'[new] = NewGroup(op)
      /\ \A h \in DOMAIN groups : h # g => groups'[h] = groups[h]
      /\ groups'[g].operators = groups[g].operators
      /\ groups'[g].source = groups[g].source /\ groups'[g].sink = groups[g].sink
      /\ groups'[g].dependencies = Append(groups[g].dependencies, new)
  BY <1>0, <1>1, GroupCreated
<1>3. /\ DOMAIN calls' = DOMAIN calls
      /\ calls'[1].group = new /\ calls'[1].fn = "build_pipelines"
      /\ \A k \in DOMAIN calls : k # 1 => calls'[k] = calls[k]
  BY <1>0, <1>1, GroupCreated
<1>4. plan' = plan /\ \A call : Starts(call)' = Starts(call)
  BY <1>2, PlanKept
<1>5. \A h \in DOMAIN groups : groups'[h].sink = groups[h].sink
  BY <1>2
<1>6. /\ \A c \in DOMAIN calls : calls[c].group \in DOMAIN groups
      /\ \A c \in DOMAIN calls : c # 1 => c > 1 /\ c \in Nat
  BY <1>1 DEF BuildInv, TypeInv
<1>7. ASSUME NEW h \in DOMAIN groups
      PROVE  /\ JoinCalls(h)' = JoinCalls(h) \ {1}
             /\ \A c \in JoinCalls(h) \ {1} : calls'[c] = calls[c]
             /\ \A c \in DOMAIN calls' : calls'[c].group = h =>
                  c \in DOMAIN calls /\ calls'[c] = calls[c]
  <2>1. calls'[1].group # h
    BY <1>2, <1>3
  <2>2. \A c \in DOMAIN calls' : c \in JoinCalls(h)' <=>
          calls'[c].group = h /\ calls'[c].fn = "create_child_group" /\ ~Starts(calls'[c])
    BY <1>4 DEF JoinCalls, Starts
  <2>3. JoinCalls(h)' \subseteq DOMAIN calls' /\ JoinCalls(h) \subseteq DOMAIN calls
    BY DEF JoinCalls
  <2>4. \A c \in DOMAIN calls : c \in JoinCalls(h)' <=> c \in JoinCalls(h) \ {1}
    BY <1>3, <2>1, <2>2 DEF JoinCalls
  <2> QED BY <1>3, <2>1, <2>3, <2>4
<1>8. ASSUME NEW h \in DOMAIN groups
      PROVE  Chains(h)'
  <2>1. Ops(h)' = Ops(h)
    BY <1>2 DEF Ops
  <2> QED BY <1>7, <2>1 DEF ServeInv, Chains
<1>9. Chains(new)' /\ Serves(new)'
  <2>1. Ops(new)' = <<>> /\ DOMAIN <<>> = {} /\ groups'[new].dependencies = <<>>
    BY <1>2 DEF Ops, NewGroup
  <2>2. JoinDeps(new)' = {} /\ Joins(new)' = {}
    BY <2>1 DEF JoinDeps, Joins, Ops
  <2>3. JoinCalls(new)' = {}
    <3>1. \A c \in DOMAIN calls' : c # 1 => calls'[c].group # new
      BY <1>2, <1>3, <1>6
    <3> QED BY <1>3, <3>1 DEF JoinCalls
  <2> QED BY <2>1, <2>2, <2>3 DEF Chains, Serves
<1>10. ASSUME NEW h \in DOMAIN groups, h # g
       PROVE  Serves(h)'
  <2>1. /\ Ops(h)' = Ops(h) /\ Joins(h)' = Joins(h) /\ JoinDeps(h)' = JoinDeps(h)
        /\ \A m \in JoinDeps(h) : Served(h, m)' = Served(h, m)
    BY <1>2, <1>5, <1>10, SameGroup
  <2>2. 1 \notin JoinCalls(h)
    BY <1>0, <1>10 DEF JoinCalls
  <2>3. JoinCalls(h)' = JoinCalls(h) /\ \A c \in JoinCalls(h) : calls'[c] = calls[c]
    BY <1>7, <2>2
  <2> QED BY <2>1, <2>3 DEF ServeInv, Serves
<1>11. PICK deps : deps = groups[g].dependencies
  OBVIOUS
<1>12. /\ deps \in Seq(Nat) /\ Ops(g)' = Ops(g) /\ Joins(g)' = Joins(g) /\ Offset(g)' = Offset(g)
       /\ groups'[g].dependencies = Append(deps, new)
       /\ \A m \in DOMAIN deps : deps[m] \in DOMAIN groups
  BY <1>1, <1>2, <1>4, <1>11 DEF GroupSet, Ops, Joins, Offset, BuildInv, TypeInv
<1>13. CASE plan[op] \in SinkKinds
  <2>1. deps = <<>> /\ groups[g].source = op /\ Starts(calls[1])
    BY <1>0, <1>1, <1>11, <1>13 DEF BuildInv, CallInv, Starts
  <2>2. Offset(g) = 1
    BY <1>1, <1>13, <2>1, PlanFacts DEF Offset
  <2>3. JoinDeps(g) = {} /\ JoinDeps(g)' = {}
    <3>1. DOMAIN deps = {} /\ DOMAIN Append(deps, new) = {1}
      BY <2>1
    <3> QED BY <1>11, <1>12, <2>2, <3>1 DEF JoinDeps
  <2>4. JoinCalls(g)' = JoinCalls(g) /\ \A c \in JoinCalls(g) : calls'[c] = calls[c]
    <3>1. 1 \notin JoinCalls(g)
      BY <2>1 DEF JoinCalls
    <3> QED BY <1>1, <1>7, <3>1
  <2>5. Serves(g)'
    BY <1>1, <1>12, <2>3, <2>4, SMTT(30) DEF ServeInv, Serves
  <2> QED BY <1>2, <1>8, <1>9, <1>10, <2>5 DEF ServeInv
<1>14. CASE plan[op] \in JoinKinds
  <2>1. PICK p : p = Len(deps) + 1
    OBVIOUS
  <2>2. p > Offset(g) /\ p \in Nat
    <3>1. groups[g].source # NoOp /\ (plan[groups[g].source] = "table_scan" \/ deps # <<>>)
      BY <1>0, <1>1, <1>11, <1>14, SourceIsKnown DEF Fed
    <3>2. Offset(g) = 1 => deps # <<>>
      BY <1>1, <3>1, PlanFacts DEF Offset
    <3>3. Offset(g) \in {0, 1}
      BY DEF Offset
    <3> QED BY <1>12, <2>1, <3>2, <3>3
  <2>3. /\ DOMAIN Append(deps, new) = DOMAIN deps \cup {p} /\ p \notin DOMAIN deps
        /\ \A m \in DOMAIN deps : Append(deps, new)[m] = deps[m] /\ m < p /\ m \in Nat
        /\ Append(deps, new)[p] = new
    BY <1>12, <2>1
  <2>4. JoinDeps(g)' = JoinDeps(g) \cup {p} /\ JoinDeps(g) \subseteq DOMAIN deps
    BY <1>11, <1>12, <2>2, <2>3 DEF JoinDeps
  <2>5. Served(g, p)' = op /\ \A m \in JoinDeps(g) : Served(g, m)' = Served(g, m)
    <3>1. Served(g, p)' = op
      BY <1>2, <1>12, <2>3 DEF Served, Dep, NewGroup
    <3>2. ASSUME NEW m \in JoinDeps(g) PROVE Served(g, m)' = Served(g, m)
      <4>1. m \in DOMAIN deps /\ groups'[g].dependencies[m] = groups[g].dependencies[m]
        BY <1>11, <1>12, <2>3, <2>4
      <4>2. groups[g].dependencies[m] \in DOMAIN groups
        BY <1>11, <1>12, <4>1
      <4> QED BY <1>5, <4>1, <4>2 DEF Served, Dep
    <3> QED BY <3>1, <3>2
  <2>6. 1 \in JoinCalls(g)
    BY <1>0, <1>1, <1>14, PlanFacts DEF JoinCalls, Starts
  <2>7. /\ JoinCalls(g)' = JoinCalls(g) \ {1} /\ \A c \in JoinCalls(g) \ {1} : calls'[c] = calls[c]
        /\ \A c \in JoinCalls(g) \ {1} : 1 < c
    BY <1>1, <1>6, <1>7 DEF JoinCalls
  <2>8. Serves(g)
    BY <1>1 DEF ServeInv
  <2>9. \A m \in JoinDeps(g)' : \E k \in Joins(g)' : Served(g, m)' = Ops(g)'[k]
    BY <1>0, <1>12, <2>4, <2>5, <2>6, <2>8 DEF Serves
  <2>10. \A c \in JoinCalls(g)' : \E k \in Joins(g)' : calls'[c].op = Ops(g)'[k]
    BY <1>12, <2>7, <2>8 DEF Serves
  <2>11. ASSUME NEW k \in Joins(g)
         PROVE  \/ \E m \in JoinDeps(g)' : Served(g, m)' = Ops(g)'[k]
                \/ \E c \in JoinCalls(g)' : calls'[c].op = Ops(g)'[k]
    <3>1. CASE \E m \in JoinDeps(g) : Served(g, m) = Ops(g)[k]
      BY <1>12, <2>4, <2>5, <3>1
    <3>2. CASE \E c \in JoinCalls(g) : calls[c].op = Ops(g)[k]
      <4>1. PICK c \in JoinCalls(g) : calls[c].op = Ops(g)[k]
        BY <3>2
      <4>2. CASE c = 1
        BY <1>0, <1>12, <2>4, <2>5, <4>1, <4>2
      <4>3. CASE c # 1
        BY <1>12, <2>7, <4>1, <4>3
      <4> QED BY <4>2, <4>3
    <3> QED BY <2>8, <3>1, <3>2 DEF Serves
  <2>12. ASSUME NEW m \in JoinDeps(g)', NEW l \in JoinDeps(g)', m < l
         PROVE  Len(Served(g, l)') < Len(Served(g, m)')
    <3>1. m # p
      BY <2>2, <2>3, <2>4, <2>12
    <3>2. CASE l = p
      BY <1>0, <2>4, <2>5, <2>6, <2>8, <3>1, <3>2 DEF Serves
    <3>3. CASE l # p
      BY <2>4, <2>5, <2>8, <2>12, <3>1, <3>3 DEF Serves
    <3> QED BY <3>2, <3>3
  <2>13. ASSUME NEW m \in JoinDeps(g)', NEW c \in JoinCalls(g)'
         PROVE  Len(calls'[c].op) < Len(Served(g, m)')
    <3>1. CASE m = p
      BY <1>0, <2>5, <2>6, <2>7, <2>8, <3>1 DEF Serves
    <3>2. CASE m # p
      BY <2>4, <2>5, <2>7, <2>8, <3>2 DEF Serves
    <3> QED BY <3>1, <3>2
  <2>14. \A c, d \in JoinCalls(g)' : c < d => Len(calls'[d].op) < Len(calls'[c].op)
    BY <2>7, <2>8 DEF Serves
  <2>15. Serves(g)'
    BY <1>12, <2>9, <2>10, <2>11, <2>12, <2>13, <2>14 DEF Serves
  <2> QED BY <1>2, <1>8, <1>9, <1>10, <2>15 DEF ServeInv
<1> QED BY <1>1, <1>13, <1>14

LEMMA ServingUnchanged ==
  ASSUME ServeInv, UNCHANGED <<input, calls, groups>>
  PROVE  ServeInv'
<1>1. plan' = plan
  BY PlanKept
<1>2. \A g : /\ Ops(g)' = Ops(g) /\ Joins(g)' = Joins(g) /\ JoinDeps(g)' = JoinDeps(g)
             /\ JoinCalls(g)' = JoinCalls(g) /\ \A m : Served(g, m)' = Served(g, m)
  BY <1>1 DEF Ops, Joins, JoinDeps, Offset, JoinCalls, Starts, Served, Dep
<1>3. \A g : (Chains(g) => Chains(g)') /\ (Serves(g) => Serves(g)')
  BY <1>2 DEF Chains, Serves
<1> QED BY <1>3 DEF ServeInv

LEMMA LeastOf ==
  ASSUME NEW T \in SUBSET Nat, T # {}
  PROVE  \E m \in T : \A n \in T : m <= n
<1> DEFINE R == OpToRel(<, Nat)
<1>1. PICK m \in T : \A n \in T : <<n, m>> \notin R
  <2>1. IsWellFoundedOn(R, Nat)
    BY NatLessThanWellFounded
  <2> HIDE DEF R
  <2> QED BY <2>1, WFMin
<1>2. \A n \in T : ~(n < m)
  BY <1>1 DEF OpToRel
<1> QED BY <1>2

\* The equation that CountPg satisfies when some function does.
CountStep(g, k, x) ==
  IF k \notin Joins(g) THEN x
  ELSE IF SinkKind(g, x + 1) # plan[Ops(g)[k]] THEN x + 2 ELSE x + 1
Counts(g, f) ==
  f = [k \in 1 .. Len(Ops(g)) + 1 |->
         IF k = Len(Ops(g)) + 1 THEN 0 ELSE CountStep(g, k, f[k + 1])]

LEMMA CountPgIsCounted ==
  ASSUME NEW g, NEW f, Counts(g, f)
  PROVE  Counts(g, CountPg(g))
<1>1. CountPg(g) = CHOOSE h : Counts(g, h)
  BY DEF CountPg, Counts, CountStep, Ops
<1> QED BY <1>1

JoinsFrom(g, k) == {l \in Joins(g) : l >= k}

\* x is the position of the dependency of the first join from position k on.
Reaches(g, k, x) ==
  \/ JoinsFrom(g, k) = {} /\ x = 0
  \/ /\ x \in JoinDeps(g)
     /\ \E l \in JoinsFrom(g, k) : /\ \A j \in JoinsFrom(g, k) : l <= j
                                   /\ Served(g, x) = Ops(g)[l]

\* The dependencies of a finished group: its joins, the deepest first, behind the
\* group that ends in the source, if the source is a sink.
LEMMA JoinsAreServed ==
  ASSUME BuildInv, ServeInv, pc # "build", NEW g \in DOMAIN groups
  PROVE  /\ Ops(g) \in Seq(DOMAIN plan) /\ Joins(g) \subseteq 1 .. Len(Ops(g))
         /\ Len(Ops(g)) \in Nat
         /\ Offset(g) \in {0, 1}
         /\ JoinDeps(g) = Offset(g) + 1 .. Len(groups[g].dependencies)
         /\ Len(groups[g].dependencies) \in Nat /\ JoinDeps(g) \subseteq Nat
         /\ \A m \in JoinDeps(g) : \E k \in Joins(g) : Served(g, m) = Ops(g)[k]
         /\ \A k \in Joins(g) : \E m \in JoinDeps(g) : Served(g, m) = Ops(g)[k]
         /\ \A m, n \in JoinDeps(g) : m < n => Len(Served(g, n)) < Len(Served(g, m))
         /\ \A k, l \in Joins(g) : k < l => Len(Ops(g)[k]) < Len(Ops(g)[l])
         /\ \A k \in Joins(g) : Len(Ops(g)[k]) \in Nat
<1>1. calls = <<>> /\ input \in Inputs /\ groups[g] \in GroupSet
  BY DEF BuildInv, TypeInv
<1>2. Ops(g) \in Seq(DOMAIN plan) /\ groups[g].dependencies \in Seq(Nat)
  BY <1>1 DEF Ops, GroupSet
<1>3. Len(Ops(g)) \in Nat /\ Len(groups[g].dependencies) \in Nat
      /\ DOMAIN Ops(g) = 1 .. Len(Ops(g))
      /\ DOMAIN groups[g].dependencies = 1 .. Len(groups[g].dependencies)
  BY <1>2
<1>4. Joins(g) \subseteq DOMAIN Ops(g) /\ Offset(g) \in {0, 1}
  BY DEF Joins, Ops, Offset
<1>5. JoinDeps(g) = Offset(g) + 1 .. Len(groups[g].dependencies)
  BY <1>3, <1>4 DEF JoinDeps
<1>6. JoinCalls(g) = {}
  <2>1. DOMAIN calls = {}
    BY <1>1
  <2> QED BY <2>1 DEF JoinCalls
<1>7. Serves(g) /\ Chains(g)
  BY DEF ServeInv
<1>8. \A k \in Joins(g) : Len(Ops(g)[k]) \in Nat
  <2>1. \A k \in Joins(g) : Ops(g)[k] \in DOMAIN plan
    BY <1>2, <1>3, <1>4
  <2> QED BY <1>1, <2>1, PathFacts
<1>9. \A k, l \in Joins(g) : k < l => Len(Ops(g)[k]) < Len(Ops(g)[l])
  BY <1>4, <1>7 DEF Chains
<1>10. /\ \A m \in JoinDeps(g) : \E k \in Joins(g) : Served(g, m) = Ops(g)[k]
       /\ \A k \in Joins(g) : \E m \in JoinDeps(g) : Served(g, m) = Ops(g)[k]
       /\ \A m, n \in JoinDeps(g) : m < n => Len(Served(g, n)) < Len(Served(g, m))
  BY <1>6, <1>7 DEF Serves
<1>11. JoinDeps(g) \subseteq Nat
  BY <1>3, <1>4, <1>5
<1> QED BY <1>2, <1>3, <1>4, <1>5, <1>8, <1>9, <1>10, <1>11

LEMMA ReachUnique ==
  ASSUME BuildInv, ServeInv, pc # "build", NEW g \in DOMAIN groups, NEW k \in Nat,
         NEW x, NEW y, Reaches(g, k, x), Reaches(g, k, y)
  PROVE  x = y
<1>1. CASE JoinsFrom(g, k) = {}
  BY <1>1 DEF Reaches
<1>2. CASE JoinsFrom(g, k) # {}
  <2>1. PICK l \in JoinsFrom(g, k) :
          (\A j \in JoinsFrom(g, k) : l <= j) /\ Served(g, x) = Ops(g)[l]
    BY <1>2 DEF Reaches
  <2>2. PICK j \in JoinsFrom(g, k) :
          (\A i \in JoinsFrom(g, k) : j <= i) /\ Served(g, y) = Ops(g)[j]
    BY <1>2 DEF Reaches
  <2>3. l \in Nat /\ j \in Nat /\ Len(Ops(g)[l]) \in Nat
    BY JoinsAreServed DEF JoinsFrom
  <2>4. l = j
    BY <2>1, <2>2, <2>3
  <2>5. x \in JoinDeps(g) /\ y \in JoinDeps(g) /\ x \in Nat /\ y \in Nat
    <3>1. x \in JoinDeps(g) /\ y \in JoinDeps(g)
      BY <1>2 DEF Reaches
    <3> QED BY <3>1, JoinsAreServed
  <2>6. ~(x < y) /\ ~(y < x)
    <3>1. /\ x < y => Len(Served(g, y)) < Len(Served(g, x))
          /\ y < x => Len(Served(g, x)) < Len(Served(g, y))
      BY <2>5, JoinsAreServed
    <3> QED BY <2>1, <2>2, <2>3, <2>4, <3>1
  <2> QED BY <2>5, <2>6
<1> QED BY <1>1, <1>2

LEMMA ReachExists ==
  ASSUME BuildInv, ServeInv, pc # "build", NEW g \in DOMAIN groups, NEW k \in Nat
  PROVE  \E x : Reaches(g, k, x)
<1>1. CASE JoinsFrom(g, k) = {}
  BY <1>1 DEF Reaches
<1>2. CASE JoinsFrom(g, k) # {}
  <2>1. JoinsFrom(g, k) \in SUBSET Nat
    BY JoinsAreServed DEF JoinsFrom
  <2>2. PICK l \in JoinsFrom(g, k) : \A j \in JoinsFrom(g, k) : l <= j
    BY <1>2, <2>1, LeastOf
  <2>3. PICK x \in JoinDeps(g) : Served(g, x) = Ops(g)[l]
    BY JoinsAreServed DEF JoinsFrom
  <2> QED BY <2>2, <2>3 DEF Reaches
<1> QED BY <1>1, <1>2

\* One round of the loop in Initialize reaches the next join's dependency.
LEMMA ReachStep ==
  ASSUME BuildInv, ServeInv, pc # "build", NEW g \in DOMAIN groups,
         NEW k \in 1 .. Len(Ops(g)), NEW x, Reaches(g, k + 1, x)
  PROVE  Reaches(g, k, CountStep(g, k, x))
<1>1. k \in Nat /\ Joins(g) \subseteq Nat
  BY JoinsAreServed
<1>2. CASE k \notin Joins(g)
  <2>1. JoinsFrom(g, k) = JoinsFrom(g, k + 1)
    BY <1>1, <1>2 DEF JoinsFrom
  <2> QED BY <1>2, <2>1 DEF Reaches, CountStep
<1>3. CASE k \in Joins(g)
  <2>1. JoinsFrom(g, k) = JoinsFrom(g, k + 1) \cup {k} /\ \A l \in JoinsFrom(g, k + 1) : k < l
    BY <1>1, <1>3 DEF JoinsFrom
  <2>2. PICK m \in JoinDeps(g) : Served(g, m) = Ops(g)[k]
    BY <1>3, JoinsAreServed
  <2>3. PICK last : last = Len(groups[g].dependencies)
    OBVIOUS
  <2>4. /\ last \in Nat /\ Offset(g) \in {0, 1} /\ JoinDeps(g) = Offset(g) + 1 .. last
        /\ m \in Offset(g) + 1 .. last
    BY <2>2, <2>3, JoinsAreServed
  <2>5. ASSUME NEW q \in JoinDeps(g), q < m
        PROVE  \E j \in JoinsFrom(g, k + 1) : Served(g, q) = Ops(g)[j]
    <3>1. PICK j \in Joins(g) : Served(g, q) = Ops(g)[j]
      BY JoinsAreServed
    <3>2. Len(Ops(g)[k]) < Len(Ops(g)[j])
      BY <2>2, <2>5, <3>1, JoinsAreServed
    <3>3. ~(j < k) /\ j # k
      <4>1. Len(Ops(g)[k]) \in Nat /\ Len(Ops(g)[j]) \in Nat
            /\ (j < k => Len(Ops(g)[j]) < Len(Ops(g)[k]))
        BY <1>3, <3>1, JoinsAreServed
      <4> QED BY <3>2, <4>1
    <3>4. j >= k + 1
      BY <1>1, <3>3
    <3> QED BY <3>1, <3>4 DEF JoinsFrom
  <2>6. ASSUME NEW q \in JoinDeps(g) PROVE SinkKind(g, q) = plan[Served(g, q)]
    BY <2>3, <2>4 DEF SinkKind, Served
  <2>7. Reaches(g, k, m)
    <3>1. \A j \in JoinsFrom(g, k) : k <= j
      BY <1>1, <2>1 DEF JoinsFrom
    <3> QED BY <2>1, <2>2, <3>1 DEF Reaches
  <2>8. CASE JoinsFrom(g, k + 1) = {}
    <3>1. x = 0
      BY <2>8 DEF Reaches
    <3>2. m = Offset(g) + 1
      <4>1. Offset(g) + 1 \in JoinDeps(g) /\ Offset(g) + 1 <= m
        BY <2>4
      <4>2. ~(Offset(g) + 1 < m)
        BY <2>5, <2>8, <4>1
      <4> QED BY <2>4, <4>1, <4>2
    <3>3. CASE Offset(g) = 0
      BY <1>3, <2>2, <2>6, <2>7, <3>1, <3>2, <3>3 DEF CountStep
    <3>4. CASE Offset(g) = 1
      <4>1. plan[groups[g].source] \in SinkKinds /\ input \in Inputs
        BY <3>4 DEF Offset, BuildInv, TypeInv
      <4>2. ~IsScan(g)
        BY <4>1, PlanFacts DEF IsScan
      <4>3. groups[Dep(g, 1)].sink = groups[g].source
        BY <4>2, GroupFacts
      <4>4. SinkKind(g, 1) = plan[groups[g].source]
        BY <2>3, <2>4, <4>3 DEF SinkKind
      <4>5. plan[Ops(g)[k]] \in JoinKinds
        BY <1>3 DEF Joins, Ops
      <4>6. SinkKind(g, 0 + 1) # plan[Ops(g)[k]]
        BY <4>1, <4>4, <4>5, PlanFacts
      <4>7. CountStep(g, k, x) = 2 /\ m = 2
        BY <1>3, <3>1, <3>2, <3>4, <4>6 DEF CountStep
      <4> QED BY <2>7, <4>7
    <3> QED BY <2>4, <3>3, <3>4
  <2>9. CASE JoinsFrom(g, k + 1) # {}
    <3>1. x \in JoinDeps(g) /\ x \in Nat /\ m \in Nat
      <4>1. x \in JoinDeps(g)
        BY <2>9 DEF Reaches
      <4> QED BY <2>4, <4>1
    <3>2. PICK l \in JoinsFrom(g, k + 1) :
            (\A j \in JoinsFrom(g, k + 1) : l <= j) /\ Served(g, x) = Ops(g)[l]
      BY <2>9 DEF Reaches
    <3>3. \A j \in JoinsFrom(g, k + 1) : j \in Joins(g) /\ j \in Nat /\ Len(Ops(g)[j]) \in Nat
      BY JoinsAreServed DEF JoinsFrom
    <3>4. Len(Ops(g)[k]) < Len(Ops(g)[l]) /\ Len(Ops(g)[k]) \in Nat
      BY <1>3, <2>1, <3>2, <3>3, JoinsAreServed
    <3>5. x < m
      <4>1. x # m
        BY <2>2, <3>2, <3>3, <3>4
      <4>2. m < x => Len(Ops(g)[l]) < Len(Ops(g)[k])
        BY <2>2, <3>1, <3>2, JoinsAreServed
      <4>3. ~(m < x)
        BY <3>2, <3>3, <3>4, <4>2
      <4> QED BY <3>1, <4>1, <4>3
    <3>6. x + 1 \in JoinDeps(g)
      BY <2>4, <3>1, <3>5
    <3>7. ~(x + 1 < m)
      <4> SUFFICES ASSUME x + 1 < m PROVE FALSE
        OBVIOUS
      <4>1. PICK j \in JoinsFrom(g, k + 1) : Served(g, x + 1) = Ops(g)[j]
        BY <2>5, <3>6
      <4>2. x < x + 1
        BY <3>1
      <4>3. Len(Ops(g)[j]) < Len(Ops(g)[l])
        BY <3>1, <3>2, <3>6, <4>1, <4>2, JoinsAreServed
      <4>4. ~(l < j) /\ l # j
        <5>1. l < j => Len(Ops(g)[l]) < Len(Ops(g)[j])
          BY <3>2, <3>3, <4>1, JoinsAreServed
        <5> QED BY <3>2, <3>3, <4>1, <4>3, <5>1
      <4> QED BY <3>2, <3>3, <4>1, <4>4
    <3>8. m = x + 1
      BY <3>1, <3>5, <3>7
    <3>9. CountStep(g, k, x) = m
      BY <1>3, <2>2, <2>6, <3>8 DEF CountStep
    <3> QED BY <2>7, <3>9
  <2> QED BY <2>8, <2>9
<1> QED BY <1>2, <1>3

\* Every join is connected to the dependency that ends in it.
LEMMA CountPgServes ==
  ASSUME BuildInv, ServeInv, pc # "build", NEW g \in DOMAIN groups, NEW k \in Joins(g)
  PROVE  CountPg(g)[k] \in JoinDeps(g) /\ Served(g, CountPg(g)[k]) = Ops(g)[k]
<1>1. PICK n : n = Len(Ops(g))
  OBVIOUS
<1>2. n \in Nat /\ Joins(g) \subseteq 1 .. n
  BY <1>1, JoinsAreServed
<1>3. JoinsFrom(g, n + 1) = {}
  BY <1>2 DEF JoinsFrom
<1>4. \A i \in 1 .. n + 1 : i \in Nat /\ (i # n + 1 => i \in 1 .. n /\ i + 1 \in 1 .. n + 1)
  BY <1>2
<1> DEFINE f == [i \in 1 .. n + 1 |-> CHOOSE x : Reaches(g, i, x)]
<1>5. \A i \in 1 .. n + 1 : Reaches(g, i, f[i])
  BY <1>4, ReachExists
<1> HIDE DEF f
<1>6. Counts(g, f)
  <2>1. ASSUME NEW i \in 1 .. n + 1
        PROVE  f[i] = IF i = n + 1 THEN 0 ELSE CountStep(g, i, f[i + 1])
    <3>1. CASE i = n + 1
      BY <1>3, <1>5, <3>1 DEF Reaches
    <3>2. CASE i # n + 1
      <4>1. Reaches(g, i, CountStep(g, i, f[i + 1]))
        BY <1>1, <1>4, <1>5, <3>2, ReachStep
      <4> QED BY <1>4, <1>5, <3>2, <4>1, ReachUnique
    <3> QED BY <3>1, <3>2
  <2>2. f = [i \in 1 .. n + 1 |-> IF i = n + 1 THEN 0 ELSE CountStep(g, i, f[i + 1])]
    BY <2>1 DEF f
  <2> QED BY <1>1, <2>2 DEF Counts
<1>7. PICK h : h = CountPg(g)
  OBVIOUS
<1>8. \A i \in 1 .. n + 1 : h[i] = IF i = n + 1 THEN 0 ELSE CountStep(g, i, h[i + 1])
  BY <1>1, <1>6, <1>7, CountPgIsCounted DEF Counts
<1>9. \A i \in 1 .. n + 1 : Reaches(g, i, h[i])
  <2> SUFFICES ASSUME NEW j \in 1 .. n + 1, ~Reaches(g, j, h[j]) PROVE FALSE
    OBVIOUS
  <2> DEFINE T == {t \in 0 .. n : ~Reaches(g, n + 1 - t, h[n + 1 - t])}
  <2>1. T # {} /\ T \in SUBSET Nat
    <3>1. n + 1 - j \in 0 .. n /\ n + 1 - (n + 1 - j) = j
      BY <1>2
    <3> QED BY <3>1
  <2>2. PICK t \in T : \A u \in T : t <= u
    <3> HIDE DEF T
    <3> QED BY <2>1, LeastOf
  <2>3. PICK i : i = n + 1 - t
    OBVIOUS
  <2>4. i \in 1 .. n + 1 /\ ~Reaches(g, i, h[i])
    BY <1>2, <2>3
  <2>5. i # n + 1
    BY <1>2, <1>3, <1>8, <2>4 DEF Reaches
  <2>6. Reaches(g, i + 1, h[i + 1])
    <3>1. t - 1 \in 0 .. n /\ ~(t <= t - 1) /\ n + 1 - (t - 1) = i + 1
      BY <1>2, <2>3, <2>5
    <3>2. t - 1 \notin T
      BY <2>2, <3>1
    <3> QED BY <3>1, <3>2
  <2>7. Reaches(g, i, CountStep(g, i, h[i + 1]))
    BY <1>1, <1>4, <2>4, <2>5, <2>6, ReachStep
  <2> QED BY <1>8, <2>4, <2>5, <2>7
<1>10. Reaches(g, k, h[k]) /\ k \in Nat
  BY <1>2, <1>9
<1>11. k \in JoinsFrom(g, k) /\ \A l \in JoinsFrom(g, k) : l \in Nat /\ k <= l
  BY <1>2 DEF JoinsFrom
<1> QED
  <2>1. PICK l \in JoinsFrom(g, k) :
          (\A j \in JoinsFrom(g, k) : l <= j) /\ Served(g, h[k]) = Ops(g)[l]
    BY <1>10, <1>11 DEF Reaches
  <2>2. l = k
    BY <1>10, <1>11, <2>1
  <2>3. h[k] \in JoinDeps(g)
    BY <1>10, <1>11 DEF Reaches
  <2> QED BY <1>7, <2>1, <2>2, <2>3

-----------------------------------------------------------------------------
(* Which hash tables a join probes *)

LEMMA ServeInvInitially == Init => ServeInv
<1> SUFFICES ASSUME Init PROVE ServeInv
  OBVIOUS
<1> DEFINE c == [fn |-> "build_pipelines", op |-> Root, group |-> 1]
<1>1. calls = <<c>> /\ groups = << NewGroup(NoOp) >>
  BY DEF Init
<1>2. DOMAIN calls = {1} /\ calls[1] = c /\ DOMAIN groups = {1} /\ groups[1] = NewGroup(NoOp)
  BY <1>1
<1>3. c.fn = "build_pipelines" /\ DOMAIN <<>> = {} /\ Ops(1) = <<>>
      /\ groups[1].operators = <<>> /\ groups[1].dependencies = <<>>
  BY <1>2 DEF NewGroup, Ops
<1> HIDE DEF c
<1>4. JoinDeps(1) = {} /\ Joins(1) = {} /\ JoinCalls(1) = {}
  BY <1>2, <1>3 DEF JoinDeps, Joins, JoinCalls
<1> QED BY <1>2, <1>3, <1>4 DEF ServeInv, Chains, Serves

LEMMA ServeInvKept ==
  ASSUME BuildInv, ServeInv, [Next]_vars
  PROVE  ServeInv'
<1>1. CASE BuildSink \/ BuildScan \/ BuildOperator \/ BuildJoin
  BY <1>1, BuildParses, ParseKeepsServing
<1>2. CASE CreateChildGroup
  BY <1>2, CreateKeepsServing
<1>3. CASE BuildDone \/ PlanDfs \/ TraverseDone \/ Initialize \/ InitializeFails \/ InitializeDone
  BY <1>3, ServingUnchanged DEF BuildDone, PlanDfs, TraverseDone, Initialize, InitializeFails,
     InitializeDone, buildVars
<1>4. CASE UNCHANGED vars
  BY <1>4, ServingUnchanged DEF vars, buildVars
<1> QED BY <1>1, <1>2, <1>3, <1>4 DEF Next

LEMMA TableInvKept ==
  ASSUME BuildingInv, TableInv, [Next]_vars
  PROVE  TableInv'
<1> DEFINE Right(g, j) == [k \in Joins(g) |-> <<Dep(g, CountPg(g)[k]), j>>]
<1>1. CASE UNCHANGED <<input, groups>>
  <2>1. \A g : Joins(g)' = Joins(g) /\ CountPg(g)' = CountPg(g) /\ \A m : Dep(g, m)' = Dep(g, m)
    <3>1. \A g : Joins(g)' = Joins(g) /\ \A m : Dep(g, m)' = Dep(g, m)
      BY <1>1 DEF Joins, Dep, plan
    <3>2. ASSUME NEW g PROVE CountPg(g)' = CountPg(g)
      BY <1>1 DEF CountPg, Joins, Dep, SinkKind, plan
    <3> QED BY <3>1, <3>2
  <2>2. \A g, j : Right(g, j)' = Right(g, j)
    BY <2>1
  <2>3. pc # "build" => \A g \in DOMAIN table_of : \A j \in DOMAIN table_of[g] :
          table_of[g][j] = Right(g, j)
    BY DEF TableInv
  <2> SUFFICES pc' # "build" => \A g \in DOMAIN table_of' : \A j \in DOMAIN table_of'[g] :
                 table_of'[g][j] = Right(g, j)
    BY <2>2 DEF TableInv
  <2>4. CASE BuildDone
    <3>1. table_of' = [g \in DOMAIN groups |-> <<>>] /\ DOMAIN <<>> = {}
      BY <2>4 DEF BuildDone
    <3> QED BY <3>1
  <2>5. CASE Initialize
    <3>1. PICK g, n : /\ pc = "initialize"
                      /\ table_of' = [table_of EXCEPT ![g] = [i \in 0 .. n - 1 |->
                           [k \in DOMAIN Slot(g) |-> <<Dep(g, Slot(g)[k]), i>>]]]
      BY <2>5 DEF Initialize
    <3>2. ASSUME NEW i
          PROVE  [k \in DOMAIN Slot(g) |-> <<Dep(g, Slot(g)[k]), i>>] = Right(g, i)
      BY DEF Slot
    <3>3. table_of' = [table_of EXCEPT ![g] = [i \in 0 .. n - 1 |-> Right(g, i)]]
      BY <3>1, <3>2
    <3> HIDE DEF Right
    <3> QED BY <2>3, <3>1, <3>3
  <2>6. CASE pc # "build" /\ table_of' = table_of
    BY <2>3, <2>6
  <2>7. CASE pc' = "build"
    BY <2>7
  <2> QED BY <2>4, <2>5, <2>6, <2>7 DEF Next, BuildSink, BuildScan, BuildOperator, BuildJoin,
         CreateChildGroup, PlanDfs, TraverseDone, InitializeFails, InitializeDone,
         Running, wiringVars, vars
<1>2. CASE BuildSink \/ BuildScan \/ BuildOperator \/ BuildJoin \/ CreateChildGroup
  <2>1. pc' = "build"
    BY <1>2 DEF BuildSink, BuildScan, BuildOperator, BuildJoin, CreateChildGroup, Running
  <2> QED BY <2>1 DEF TableInv
<1> QED BY <1>1, <1>2 DEF Next, BuildDone, PlanDfs, TraverseDone, Initialize, InitializeFails,
     InitializeDone, buildVars, vars

(***************************************************************************)
(* The loop of Pipeline::Initialize, which counts through the dependencies *)
(* and skips one whose sink is not of the join's type, connects every join *)
(* to the pipelines of its own build side: for every plan, however many    *)
(* joins a pipeline has and whatever its source is.                        *)
(***************************************************************************)
THEOREM JoinsProbeTheirTables == Spec => []JoinProbesItsTable
<1>1. Init => ServeInv /\ TableInv
  <2>1. Init => TableInv
    BY DEF Init, TableInv
  <2> QED BY <2>1, ServeInvInitially
<1>2. BuildingInv /\ ServeInv /\ TableInv /\ [Next]_vars => ServeInv' /\ TableInv'
  BY ServeInvKept, TableInvKept DEF BuildingInv
<1>3. BuildingInv /\ ServeInv /\ TableInv => JoinProbesItsTable
  <2> SUFFICES ASSUME BuildInv, WireInv, ServeInv, TableInv, NEW g \in DOMAIN table_of,
                      NEW i \in DOMAIN table_of[g], NEW k \in DOMAIN table_of[g][i]
               PROVE  /\ groups[table_of[g][i][k][1]].sink = groups[g].operators[k]
                      /\ table_of[g][i][k][2] = i
    BY DEF BuildingInv, JoinProbesItsTable
  <2>1. pc # "build" /\ g \in DOMAIN groups
    <3>1. pc = "build" => table_of = <<>>
      BY DEF WireInv
    <3>2. pc # "build"
      BY <3>1
    <3> QED BY <3>2 DEF WireInv
  <2>2. table_of[g][i] = [l \in Joins(g) |-> <<Dep(g, CountPg(g)[l]), i>>]
    BY <2>1 DEF TableInv
  <2>3. k \in Joins(g) /\ table_of[g][i][k] = <<Dep(g, CountPg(g)[k]), i>>
    BY <2>2
  <2>4. Served(g, CountPg(g)[k]) = Ops(g)[k]
    BY <2>1, <2>3, CountPgServes
  <2> QED BY <2>3, <2>4 DEF Served, Ops
<1> QED BY <1>1, <1>2, <1>3, BuildingInvHolds, PTL DEF Spec

-----------------------------------------------------------------------------
(* The groups are the plan *)

\* What comes at position k of a group's operators, its source included.
First(g) == IF groups[g].sink = NoOp THEN Root ELSE Kid(groups[g].sink, 1)
At(g, k) == IF k = 1 THEN First(g) ELSE Down(Ops(g)[k - 1])
Goes(g) == At(g, Len(Ops(g)) + 1)

Links(g) ==
  /\ \A k \in DOMAIN Ops(g) : /\ Ops(g)[k] = At(g, k)
                              /\ plan[Ops(g)[k]] \in JoinKinds \cup {"operator"}
  /\ groups[g].source # NoOp => groups[g].source = Goes(g)
  /\ groups[g].sink # NoOp => plan[groups[g].sink] \in SinkKinds \cup JoinKinds
  /\ \A c \in DOMAIN calls : calls[c].group = g /\ calls[c].fn = "build_pipelines" =>
       calls[c].op = Goes(g)

(* build_pipelines has met op, or is called for it; a group ends in op, or *)
(* create_child_group is called for it.                                    *)
Met(op) ==
  \/ \E g \in DOMAIN groups : groups[g].source = op
  \/ \E g \in DOMAIN groups : \E k \in DOMAIN Ops(g) : Ops(g)[k] = op
  \/ \E c \in DOMAIN calls : calls[c].fn = "build_pipelines" /\ calls[c].op = op
Ended(op) ==
  \/ \E g \in DOMAIN groups : groups[g].sink = op
  \/ \E c \in DOMAIN calls : calls[c].fn = "create_child_group" /\ calls[c].op = op

(* What is below an operator that was met is met in turn. *)
Covers(g) ==
  /\ groups[g].source # NoOp /\ plan[groups[g].source] \in SinkKinds =>
       Ended(groups[g].source)
  /\ \A k \in DOMAIN Ops(g) : /\ Met(Down(Ops(g)[k]))
                              /\ plan[Ops(g)[k]] \in JoinKinds => Ended(Ops(g)[k])
  /\ groups[g].sink # NoOp => Met(Kid(groups[g].sink, 1))

CoverInv == Met(Root) /\ \A g \in DOMAIN groups : Links(g) /\ Covers(g)

LEMMA BelowFacts ==
  ASSUME input \in Inputs, NEW op \in DOMAIN plan
  PROVE  /\ plan[op] \in SinkKinds \cup JoinKinds => Kid(op, 1) # NoOp
         /\ plan[op] \in JoinKinds \cup {"operator"} => Down(op) # NoOp
<1>1. NoOp \notin DOMAIN plan
  BY PlanFacts
<1>2. plan[op] \in SinkKinds \cup JoinKinds => Kid(op, 1) \in DOMAIN plan
  BY PlanFacts
<1>3. plan[op] \in JoinKinds \cup {"operator"} => Down(op) \in DOMAIN plan
  BY PlanFacts DEF Down
<1> QED BY <1>1, <1>2, <1>3

LEMMA ParseKeepsCover ==
  ASSUME BuildInv, CoverInv, Running("build_pipelines"), NEW n \in {0, 1, 2}, NEW g,
         NEW e \in GroupSet, Parsed(n, g, e)
  PROVE  CoverInv'
<1>0. PICK op : op = calls[1].op
  OBVIOUS
<1> USE DEF Parsed, GroupParsed
<1>1. /\ input \in Inputs /\ 1 \in DOMAIN calls /\ DOMAIN calls = 1 .. Len(calls)
      /\ Len(calls) \in Nat /\ calls[1].fn = "build_pipelines" /\ op \in DOMAIN plan
      /\ g \in DOMAIN groups /\ groups \in Seq(GroupSet)
      /\ \A h \in DOMAIN groups : groups[h] \in GroupSet
  BY <1>0, HeadFacts
<1>2. /\ DOMAIN groups' = DOMAIN groups /\ groups'[g] = e
      /\ \A h \in DOMAIN groups : h # g => groups'[h] = groups[h]
  BY <1>1, GroupChanged
<1>3. \A h \in DOMAIN groups : groups'[h].sink = groups[h].sink
  BY <1>2
<1>4. plan' = plan /\ \A p : Down(p)' = Down(p)
  BY PlanKept DEF Down
<1>5. /\ groups[g].source = NoOp
      /\ \A l \in DOMAIN calls \ {1} : calls[l].group = g => calls[l].fn # "build_pipelines"
  BY <1>1 DEF BuildInv, CallInv, Starts
<1>6. DOMAIN calls' = 1 .. Len(calls') /\ Len(calls') \in Nat
      /\ \A c \in DOMAIN calls' : c \in Nat /\ (c \in 1 .. n \/ c > n)
  BY DEF RestKept
<1>7. /\ \A c \in DOMAIN calls' : c > n => \E l \in DOMAIN calls \ {1} : calls'[c] = calls[l]
      /\ \A l \in DOMAIN calls \ {1} : \E c \in DOMAIN calls' : calls'[c] = calls[l]
      /\ 1 .. n \subseteq DOMAIN calls'
  BY DEF RestKept
<1>8. \A c \in 1 .. n : calls'[c].group = g
  BY DEF CallsPut
<1>9. \A h \in DOMAIN groups : h # g => Ops(h)' = Ops(h)
  BY <1>2 DEF Ops
<1>10. PICK p : p = Len(Ops(g)) + 1
  OBVIOUS
<1>11. Ops(g) = groups[g].operators /\ Ops(g)' = e.operators /\ Ops(g) \in Seq(DOMAIN plan)
       /\ p \in Nat \ {0} /\ DOMAIN Ops(g) = 1 .. p - 1
  <2>1. Ops(g) = groups[g].operators /\ Ops(g)' = e.operators /\ Ops(g) \in Seq(DOMAIN plan)
    BY <1>1, <1>2 DEF Ops, GroupSet
  <2> QED BY <1>10, <2>1
<1>12. \/ /\ Ops(g)' = Ops(g) /\ e.source = op
          /\ plan[op] \in SinkKinds => \E c \in DOMAIN calls' :
               calls'[c].fn = "create_child_group" /\ calls'[c].op = op
          /\ \A c \in 1 .. n : calls'[c].fn # "build_pipelines"
       \/ /\ Ops(g)' = Append(Ops(g), op) /\ e.source = NoOp
          /\ 1 \in DOMAIN calls' /\ calls'[1].fn = "build_pipelines" /\ calls'[1].op = Down(op)
          /\ plan[op] \in JoinKinds \cup {"operator"}
          /\ plan[op] \in JoinKinds => \E c \in DOMAIN calls' :
               calls'[c].fn = "create_child_group" /\ calls'[c].op = op
          /\ \A c \in 1 .. n : c # 1 => calls'[c].fn # "build_pipelines"
  <2>1. 1 .. 0 = {} /\ 1 .. 1 = {1} /\ 1 .. 2 = {1, 2}
    OBVIOUS
  <2> QED BY <1>0, <1>1, <1>5, <1>7, <1>11, <2>1, PlanFacts DEF ChainPut
<1>13. /\ DOMAIN Ops(g) \subseteq DOMAIN Ops(g)' /\ \A k \in DOMAIN Ops(g) : Ops(g)'[k] = Ops(g)[k]
       /\ \/ Ops(g)' = Ops(g)
          \/ DOMAIN Ops(g)' = DOMAIN Ops(g) \cup {p} /\ Ops(g)'[p] = op /\ Len(Ops(g)') = p
  BY <1>1, <1>10, <1>11, <1>12, SMTT(30)
<1>14. ASSUME NEW q, q # NoOp, Met(q) PROVE Met(q)'
  <2>1. CASE \E h \in DOMAIN groups : groups[h].source = q
    BY <1>2, <1>5, <1>14, <2>1 DEF Met
  <2>2. CASE \E h \in DOMAIN groups : \E k \in DOMAIN Ops(h) : Ops(h)[k] = q
    <3>1. \E h \in DOMAIN groups' : \E k \in DOMAIN Ops(h)' : Ops(h)'[k] = q
      BY <1>2, <1>9, <1>13, <2>2
    <3> QED BY <3>1 DEF Met
  <2>3. CASE \E c \in DOMAIN calls : calls[c].fn = "build_pipelines" /\ calls[c].op = q
    <3>1. PICK c \in DOMAIN calls : calls[c].fn = "build_pipelines" /\ calls[c].op = q
      BY <2>3
    <3>2. CASE c # 1
      BY <1>7, <3>1, <3>2 DEF Met
    <3>3. CASE c = 1
      <4>1. q = op
        BY <1>0, <3>1, <3>3
      <4>2. groups'[g].source = q \/ (p \in DOMAIN Ops(g)' /\ Ops(g)'[p] = q)
        BY <1>2, <1>11, <1>12, <4>1
      <4>3. (\E h \in DOMAIN groups' : groups'[h].source = q)
            \/ (\E h \in DOMAIN groups' : \E k \in DOMAIN Ops(h)' : Ops(h)'[k] = q)
        BY <1>1, <1>2, <4>2
      <4> QED BY <4>3 DEF Met
    <3> QED BY <3>2, <3>3
  <2> QED BY <1>14, <2>1, <2>2, <2>3 DEF Met
<1>15. ASSUME NEW q, Ended(q) PROVE Ended(q)'
  <2>1. CASE \E h \in DOMAIN groups : groups[h].sink = q
    BY <1>2, <1>3, <2>1 DEF Ended
  <2>2. CASE \E c \in DOMAIN calls : calls[c].fn = "create_child_group" /\ calls[c].op = q
    BY <1>1, <1>7, <2>2 DEF Ended
  <2> QED BY <1>15, <2>1, <2>2 DEF Ended
<1>16. /\ Met(Root)'
       /\ \A h \in DOMAIN groups : groups[h].sink # NoOp => Met(Kid(groups[h].sink, 1))'
  <2>1. Root # NoOp
    BY <1>1, PlanFacts
  <2>2. \A h \in DOMAIN groups : groups[h].sink # NoOp => Kid(groups[h].sink, 1) # NoOp
    <3>1. \A h \in DOMAIN groups : groups[h].sink # NoOp => groups[h].sink \in DOMAIN plan
      BY <1>1 DEF GroupSet
    <3> QED BY <1>1, <3>1, BelowFacts DEF CoverInv, Links
  <2> QED BY <1>14, <2>1, <2>2 DEF CoverInv, Covers
<1>17. ASSUME NEW h \in DOMAIN groups, NEW k \in DOMAIN Ops(h), NEW q, q = Ops(h)[k]
       PROVE  Met(Down(q))' /\ (plan[q] \in JoinKinds => Ended(q)')
  <2>1. Ops(h)[k] \in DOMAIN plan
    BY <1>1 DEF Ops, GroupSet
  <2>2. Down(Ops(h)[k]) # NoOp
    BY <1>1, <2>1, BelowFacts DEF CoverInv, Links
  <2> QED BY <1>4, <1>14, <1>15, <1>17, <2>2 DEF CoverInv, Covers
<1>18. ASSUME NEW h \in DOMAIN groups
       PROVE  Covers(h)'
  <2>1. ASSUME NEW k \in DOMAIN Ops(h)', NEW q, q = Ops(h)'[k]
        PROVE  Met(Down(q))' /\ (plan[q] \in JoinKinds => Ended(q)')
    <3>1. CASE k \in DOMAIN Ops(h) /\ q = Ops(h)[k]
      BY <1>17, <3>1
    <3>2. CASE h = g /\ Ops(g)' # Ops(g) /\ k = p /\ q = op
      <4>1. \E c \in DOMAIN calls' : calls'[c].fn = "build_pipelines" /\ calls'[c].op = Down(q)
        BY <1>12, <3>2
      <4>2. Met(Down(q))'
        BY <1>4, <4>1 DEF Met
      <4>3. plan[q] \in JoinKinds => Ended(q)'
        BY <1>12, <3>2 DEF Ended
      <4> QED BY <4>2, <4>3
    <3> QED BY <1>9, <1>13, <2>1, <3>1, <3>2
  <2>2. ASSUME NEW q, q = groups'[h].source, q # NoOp, plan[q] \in SinkKinds
        PROVE  Ended(q)'
    <3>1. CASE h # g
      BY <1>2, <1>15, <2>2, <3>1 DEF CoverInv, Covers
    <3>2. CASE h = g
      BY <1>2, <1>12, <2>2, <3>2 DEF Ended
    <3> QED BY <3>1, <3>2
  <2>3. ASSUME NEW k \in DOMAIN Ops(h)'
        PROVE  Met(Down(Ops(h)[k]))' /\ (plan'[Ops(h)'[k]] \in JoinKinds => Ended(Ops(h)[k])')
    <3>1. PICK q : q = Ops(h)'[k]
      OBVIOUS
    <3>2. Met(Down(q))' /\ (plan[q] \in JoinKinds => Ended(q)')
      BY <2>1, <3>1
    <3> QED BY <1>4, <3>1, <3>2 DEF Met, Ended, Down
  <2>4. groups'[h].source # NoOp /\ plan'[groups'[h].source] \in SinkKinds =>
          Ended(groups[h].source)'
    <3>1. PICK q : q = groups'[h].source
      OBVIOUS
    <3>2. q # NoOp /\ plan[q] \in SinkKinds => Ended(q)'
      BY <2>2, <3>1
    <3> QED BY <1>4, <3>1, <3>2 DEF Ended
  <2>5. groups'[h].sink # NoOp => Met(Kid(groups[h].sink, 1))'
    BY <1>3, <1>16
  <2> QED BY <2>3, <2>4, <2>5 DEF Covers
<1>19. ASSUME NEW h \in DOMAIN groups, h # g
       PROVE  Links(h)'
  <2>1. Ops(h)' = Ops(h) /\ groups'[h] = groups[h] /\ Goes(h)' = Goes(h)
        /\ \A k : At(h, k)' = At(h, k)
    BY <1>2, <1>4, <1>9, <1>19 DEF Goes, At, First
  <2>2. \A c \in DOMAIN calls' : calls'[c].group = h /\ calls'[c].fn = "build_pipelines" =>
          calls'[c].op = Goes(h)
    BY <1>6, <1>7, <1>8, <1>19 DEF CoverInv, Links
  <2> QED BY <1>4, <2>1, <2>2 DEF CoverInv, Links
<1>20. Links(g)'
  <2>1. op = Goes(g) /\ Links(g)
    BY <1>0, <1>1 DEF CoverInv, Links
  <2>2. First(g)' = First(g)
    BY <1>1, <1>3 DEF First
  <2>3. \A k \in 1 .. p : At(g, k)' = At(g, k)
    <3>1. \A k \in 1 .. p : k # 1 => k - 1 \in DOMAIN Ops(g)
      BY <1>11
    <3> QED BY <1>4, <1>13, <2>2, <3>1 DEF At
  <2>4. Goes(g) = At(g, p)
    BY <1>10 DEF Goes
  <2>5. groups'[g].sink # NoOp => plan'[groups'[g].sink] \in SinkKinds \cup JoinKinds
    BY <1>1, <1>3, <1>4, <2>1 DEF Links
  <2>6. ASSUME NEW c \in DOMAIN calls', calls'[c].group = g, calls'[c].fn = "build_pipelines"
        PROVE  c \in 1 .. n
    BY <1>5, <1>6, <1>7, <2>6
  <2>7. CASE Ops(g)' = Ops(g)
    <3>1. e.source = op /\ \A c \in 1 .. n : calls'[c].fn # "build_pipelines"
      BY <1>11, <1>12, <2>7
    <3>2. Goes(g)' = Goes(g)
      BY <1>10, <1>11, <2>3, <2>7 DEF Goes
    <3>3. \A k \in DOMAIN Ops(g) : Ops(g)[k] = At(g, k)'
      BY <1>11, <2>1, <2>3 DEF Links
    <3> QED BY <1>2, <1>4, <2>1, <2>5, <2>6, <2>7, <3>1, <3>2, <3>3 DEF Links
  <2>8. CASE Ops(g)' # Ops(g)
    <3>1. /\ DOMAIN Ops(g)' = DOMAIN Ops(g) \cup {p} /\ Ops(g)'[p] = op /\ Len(Ops(g)') = p
          /\ e.source = NoOp /\ calls'[1].op = Down(op)
          /\ plan[op] \in JoinKinds \cup {"operator"}
          /\ \A c \in 1 .. n : c # 1 => calls'[c].fn # "build_pipelines"
      BY <1>12, <1>13, <2>8
    <3>2. \A k \in DOMAIN Ops(g)' : /\ Ops(g)'[k] = At(g, k)'
                                     /\ plan[Ops(g)'[k]] \in JoinKinds \cup {"operator"}
      <4>1. \A k \in DOMAIN Ops(g)' : k \in 1 .. p
        BY <1>11, <3>1
      <4>2. \A k \in DOMAIN Ops(g) : Ops(g)'[k] = At(g, k)
              /\ plan[Ops(g)'[k]] \in JoinKinds \cup {"operator"}
        BY <1>13, <2>1 DEF Links
      <4> QED BY <2>1, <2>3, <2>4, <3>1, <4>1, <4>2
    <3>3. Goes(g)' = Down(op)
      <4>1. Goes(g)' = At(g, p + 1)'
        BY <3>1 DEF Goes
      <4>2. p + 1 # 1 /\ (p + 1) - 1 = p
        BY <1>11
      <4> QED BY <1>4, <3>1, <4>1, <4>2 DEF At
    <3>4. \A c \in DOMAIN calls' : calls'[c].group = g /\ calls'[c].fn = "build_pipelines" =>
            calls'[c].op = Goes(g)'
      BY <2>6, <3>1, <3>3
    <3> QED BY <1>2, <1>4, <2>5, <3>1, <3>2, <3>4 DEF Links
  <2> QED BY <2>7, <2>8
<1> QED BY <1>2, <1>16, <1>18, <1>19, <1>20 DEF CoverInv

LEMMA CreateKeepsCover ==
  ASSUME BuildInv, CoverInv, CreateChildGroup
  PROVE  CoverInv'
<1>0. PICK g, op, new : g = calls[1].group /\ op = calls[1].op /\ new = Len(groups) + 1
  OBVIOUS
<1>1. /\ input \in Inputs /\ calls[1].fn = "create_child_group" /\ 1 \in DOMAIN calls
      /\ op \in DOMAIN plan /\ g \in DOMAIN groups /\ plan[op] \in SinkKinds \cup JoinKinds
      /\ \A c \in DOMAIN calls : calls[c].group \in DOMAIN groups
  BY <1>0, HeadFacts DEF CreateChildGroup, BuildInv, TypeInv
<1>2. /\ input' = input /\ DOMAIN groups' = DOMAIN groups \cup {new} /\ new \notin DOMAIN groups
      /\ groups'[new] = NewGroup(op)
      /\ \A h \in DOMAIN groups : /\ groups'[h].operators = groups[h].operators
                                  /\ groups'[h].source = groups[h].source
                                  /\ groups'[h].sink = groups[h].sink
  BY <1>0, <1>1, GroupCreated
<1>3. /\ DOMAIN calls' = DOMAIN calls /\ calls'[1].group = new
      /\ calls'[1].fn = "build_pipelines" /\ calls'[1].op = Kid(op, 1)
      /\ \A k \in DOMAIN calls : k # 1 => calls'[k] = calls[k]
  BY <1>0, <1>1, GroupCreated
<1>4. plan' = plan /\ \A p : Down(p)' = Down(p)
  BY <1>2, PlanKept DEF Down
<1>5. \A h \in DOMAIN groups : Ops(h)' = Ops(h)
  BY <1>2 DEF Ops
<1>6. op # NoOp
  BY <1>1, PlanFacts
<1>7. groups'[new].source = NoOp /\ groups'[new].sink = op /\ Ops(new)' = <<>>
      /\ DOMAIN <<>> = {} /\ Len(<<>>) = 0
  BY <1>2 DEF NewGroup, Ops
<1>8. ASSUME NEW q, Met(q) PROVE Met(q)'
  <2>1. CASE \E h \in DOMAIN groups : groups[h].source = q
    BY <1>2, <2>1 DEF Met
  <2>2. CASE \E h \in DOMAIN groups : \E k \in DOMAIN Ops(h) : Ops(h)[k] = q
    <3>1. \E h \in DOMAIN groups' : \E k \in DOMAIN Ops(h)' : Ops(h)'[k] = q
      BY <1>2, <1>5, <2>2
    <3> QED BY <3>1 DEF Met
  <2>3. CASE \E c \in DOMAIN calls : calls[c].fn = "build_pipelines" /\ calls[c].op = q
    BY <1>1, <1>3, <2>3 DEF Met
  <2> QED BY <1>8, <2>1, <2>2, <2>3 DEF Met
<1>9. ASSUME NEW q, Ended(q) PROVE Ended(q)'
  <2>1. CASE \E h \in DOMAIN groups : groups[h].sink = q
    BY <1>2, <2>1 DEF Ended
  <2>2. CASE \E c \in DOMAIN calls : calls[c].fn = "create_child_group" /\ calls[c].op = q
    <3>1. PICK c \in DOMAIN calls : calls[c].fn = "create_child_group" /\ calls[c].op = q
      BY <2>2
    <3>2. CASE c = 1
      BY <1>0, <1>2, <1>7, <3>1, <3>2 DEF Ended
    <3>3. CASE c # 1
      BY <1>3, <3>1, <3>3 DEF Ended
    <3> QED BY <3>2, <3>3
  <2> QED BY <1>9, <2>1, <2>2 DEF Ended
<1>10. ASSUME NEW h \in DOMAIN groups
       PROVE  Links(h)' /\ Covers(h)'
  <2>1. Links(h) /\ Covers(h)
    BY DEF CoverInv
  <2>2. Ops(h)' = Ops(h) /\ Goes(h)' = Goes(h) /\ \A k : At(h, k)' = At(h, k)
    BY <1>2, <1>4, <1>5 DEF Goes, At, First
  <2>3. \A c \in DOMAIN calls' : calls'[c].group = h /\ calls'[c].fn = "build_pipelines" =>
          calls'[c].op = Goes(h)
    BY <1>2, <1>3, <2>1 DEF Links
  <2>4. Links(h)'
    BY <1>2, <1>4, <2>1, <2>2, <2>3 DEF Links
  <2>5. ASSUME NEW k \in DOMAIN Ops(h)
        PROVE  Met(Down(Ops(h)[k]))' /\ (plan[Ops(h)[k]] \in JoinKinds => Ended(Ops(h)[k])')
    <3>1. PICK q : q = Ops(h)[k]
      OBVIOUS
    <3>2. Met(Down(q))' /\ (plan[q] \in JoinKinds => Ended(q)')
      BY <1>4, <1>8, <1>9, <2>1, <3>1 DEF Covers
    <3> QED BY <1>4, <2>2, <3>1, <3>2 DEF Met, Ended, Down
  <2>6. groups'[h].source # NoOp /\ plan'[groups'[h].source] \in SinkKinds =>
          Ended(groups[h].source)'
    <3>1. PICK q : q = groups[h].source
      OBVIOUS
    <3>2. q # NoOp /\ plan[q] \in SinkKinds => Ended(q)'
      BY <1>9, <2>1, <3>1 DEF Covers
    <3> QED BY <1>2, <1>4, <3>1, <3>2 DEF Ended
  <2>7. groups'[h].sink # NoOp => Met(Kid(groups[h].sink, 1))'
    <3>1. PICK q : q = groups[h].sink
      OBVIOUS
    <3>2. q # NoOp => Met(Kid(q, 1))'
      BY <1>8, <2>1, <3>1 DEF Covers
    <3> QED BY <1>2, <3>1, <3>2 DEF Met
  <2>8. Covers(h)'
    BY <1>4, <2>2, <2>5, <2>6, <2>7 DEF Covers
  <2> QED BY <2>4, <2>8
<1>11. Links(new)'
  <2>1. Goes(new)' = Kid(op, 1)
    BY <1>6, <1>7 DEF Goes, At, First
  <2>2. \A c \in DOMAIN calls' : calls'[c].group = new /\ calls'[c].fn = "build_pipelines" =>
          calls'[c].op = Kid(op, 1)
    BY <1>1, <1>2, <1>3
  <2> QED BY <1>1, <1>4, <1>7, <2>1, <2>2 DEF Links
<1>12. Covers(new)'
  <2>1. Met(Kid(op, 1))'
    BY <1>1, <1>3 DEF Met
  <2>2. Met(Kid(groups[new].sink, 1))'
    BY <1>7, <2>1 DEF Met
  <2> QED BY <1>7, <2>2 DEF Covers
<1>13. Met(Root)'
  BY <1>8 DEF CoverInv
<1> QED BY <1>2, <1>10, <1>11, <1>12, <1>13 DEF CoverInv

LEMMA CoverInvKept ==
  ASSUME BuildInv, CoverInv, [Next]_vars
  PROVE  CoverInv'
<1>1. CASE BuildSink \/ BuildScan \/ BuildOperator \/ BuildJoin
  BY <1>1, BuildParses, ParseKeepsCover
<1>2. CASE CreateChildGroup
  BY <1>2, CreateKeepsCover
<1>3. CASE UNCHANGED <<input, calls, groups>>
  <2>1. plan' = plan
    BY <1>3, PlanKept
  <2>2. \A g : Ops(g)' = Ops(g)
    BY <1>3 DEF Ops
  <2>3. \A q : Met(q)' = Met(q) /\ Ended(q)' = Ended(q) /\ Down(q)' = Down(q)
    BY <1>3, <2>1, <2>2 DEF Met, Ended, Down
  <2>4. \A g : Goes(g)' = Goes(g) /\ \A k : At(g, k)' = At(g, k)
    BY <1>3, <2>2, <2>3 DEF Goes, At, First
  <2>5. \A g \in DOMAIN groups : Links(g)'
    BY <1>3, <2>1, <2>2, <2>4 DEF CoverInv, Links
  <2>6. ASSUME NEW g \in DOMAIN groups PROVE Covers(g)'
    <3>1. \A k \in DOMAIN Ops(g) :
            Met(Down(Ops(g)[k]))' /\ (plan[Ops(g)[k]] \in JoinKinds => Ended(Ops(g)[k])')
      BY <1>3, <2>1, <2>2, <2>6 DEF CoverInv, Covers, Met, Ended, Down, Ops
    <3>2. /\ groups[g].source # NoOp /\ plan[groups[g].source] \in SinkKinds =>
               Ended(groups[g].source)'
          /\ groups[g].sink # NoOp => Met(Kid(groups[g].sink, 1))'
      BY <1>3, <2>1, <2>2, <2>6 DEF CoverInv, Covers, Met, Ended
    <3> QED BY <1>3, <2>1, <2>2, <3>1, <3>2 DEF Covers
  <2>7. Met(Root)'
    BY <2>3 DEF CoverInv
  <2> QED BY <1>3, <2>5, <2>6, <2>7 DEF CoverInv
<1> QED BY <1>1, <1>2, <1>3 DEF Next, BuildDone, PlanDfs, TraverseDone, Initialize,
     InitializeFails, InitializeDone, buildVars, vars

LEMMA CoverInvInitially == Init => CoverInv
<1> SUFFICES ASSUME Init PROVE CoverInv
  OBVIOUS
<1> DEFINE c == [fn |-> "build_pipelines", op |-> Root, group |-> 1]
<1>1. calls = <<c>> /\ groups = << NewGroup(NoOp) >>
  BY DEF Init
<1>2. DOMAIN calls = {1} /\ calls[1] = c /\ DOMAIN groups = {1} /\ groups[1] = NewGroup(NoOp)
  BY <1>1
<1>3. c.fn = "build_pipelines" /\ c.op = Root /\ DOMAIN <<>> = {} /\ Len(<<>>) = 0
      /\ Ops(1) = <<>> /\ groups[1].sink = NoOp /\ groups[1].source = NoOp
  BY <1>2 DEF NewGroup, Ops
<1> HIDE DEF c
<1>4. Goes(1) = Root
  BY <1>3 DEF Goes, At, First
<1>5. Met(Root)
  BY <1>2, <1>3 DEF Met
<1> QED BY <1>2, <1>3, <1>4, <1>5 DEF CoverInv, Links, Covers

\* When no call is pending every operator of the plan has been met: the one with
\* the shortest path that was not would have a parent that was.
LEMMA EverythingIsMet ==
  ASSUME BuildInv, CoverInv, pc # "build"
  PROVE  /\ \A op \in DOMAIN plan :
              plan[op] \in SinkKinds \cup {"table_scan"} =>
                \E g \in DOMAIN groups : groups[g].source = op
         /\ \A op \in DOMAIN plan :
              plan[op] \in JoinKinds \cup {"operator"} =>
                \E g \in DOMAIN groups : \E k \in DOMAIN Ops(g) : Ops(g)[k] = op
         /\ \A op \in DOMAIN plan :
              plan[op] \in SinkKinds \cup JoinKinds => \E g \in DOMAIN groups : groups[g].sink = op
<1>1. calls = <<>> /\ DOMAIN calls = {} /\ input \in Inputs
      /\ \A g \in DOMAIN groups : groups[g] \in GroupSet
  BY DEF BuildInv, TypeInv
<1>2. \A g \in DOMAIN groups :
        groups[g].source # NoOp /\ plan[groups[g].source] \in SinkKinds \cup {"table_scan"}
  <2>1. \A g, fn : ~Pending(g, fn)
    BY <1>1 DEF Pending
  <2> QED BY <2>1 DEF BuildInv, SourceInv
<1>3. \A g \in DOMAIN groups : \A k \in DOMAIN Ops(g) :
        Ops(g)[k] \in DOMAIN plan /\ plan[Ops(g)[k]] \in JoinKinds \cup {"operator"}
  BY <1>1 DEF CoverInv, Links, Ops, GroupSet
<1>4. ASSUME NEW op \in DOMAIN plan, Met(op)
      PROVE  /\ plan[op] \in SinkKinds \cup {"table_scan"} =>
                  \E g \in DOMAIN groups : groups[g].source = op
             /\ plan[op] \in JoinKinds \cup {"operator"} =>
                  \E g \in DOMAIN groups : \E k \in DOMAIN Ops(g) : Ops(g)[k] = op
             /\ plan[op] \in SinkKinds \cup JoinKinds =>
                  \E g \in DOMAIN groups : groups[g].sink = op
  <2>1. \/ \E g \in DOMAIN groups : groups[g].source = op
        \/ \E g \in DOMAIN groups : \E k \in DOMAIN Ops(g) : Ops(g)[k] = op
    BY <1>1, <1>4 DEF Met
  <2>2. Ended(op) => \E g \in DOMAIN groups : groups[g].sink = op
    BY <1>1 DEF Ended
  <2>3. CASE \E g \in DOMAIN groups : groups[g].source = op
    <3>1. plan[op] \in SinkKinds \cup {"table_scan"} /\ (plan[op] \in SinkKinds => Ended(op))
      BY <1>2, <2>3 DEF CoverInv, Covers
    <3>2. plan[op] \notin JoinKinds \cup {"operator"}
      BY <1>1, <3>1, PlanFacts DEF SinkKinds
    <3> QED BY <2>2, <2>3, <3>1, <3>2, PlanFacts, <1>1
  <2>4. CASE \E g \in DOMAIN groups : \E k \in DOMAIN Ops(g) : Ops(g)[k] = op
    <3>1. plan[op] \in JoinKinds \cup {"operator"} /\ (plan[op] \in JoinKinds => Ended(op))
      BY <1>3, <2>4 DEF CoverInv, Covers
    <3>2. plan[op] \notin SinkKinds \cup {"table_scan"}
      BY <1>1, <3>1, PlanFacts DEF SinkKinds
    <3> QED BY <2>2, <2>4, <3>1, <3>2
  <2> QED BY <2>1, <2>3, <2>4
<1>5. ASSUME NEW op \in DOMAIN plan, op # Root,
             \A p \in DOMAIN plan : Len(p) < Len(op) => Met(p)
      PROVE  Met(op)
  <2>1. PICK p \in DOMAIN plan : \/ op = Kid(p, 1) /\ plan[p] # "table_scan"
                                 \/ op = Kid(p, 2) /\ plan[p] \in JoinKinds
    BY <1>1, <1>5, ParentFacts
  <2>2. Met(p)
    <3>1. Len(p) \in Nat /\ Len(op) = Len(p) + 1
      BY <1>1, <2>1, PathFacts
    <3> QED BY <1>5, <3>1
  <2>3. plan[p] \in SinkKinds \cup JoinKinds \cup {"operator", "table_scan"}
    BY <1>1, PlanAssumption DEF plan
  <2>4. CASE plan[p] \in SinkKinds \cup JoinKinds /\ op = Kid(p, 1)
    <3>1. PICK g \in DOMAIN groups : groups[g].sink = p
      BY <1>4, <2>2, <2>4
    <3>2. p # NoOp
      BY <1>1, PlanFacts
    <3> QED BY <2>4, <3>1, <3>2 DEF CoverInv, Covers
  <2>5. CASE plan[p] \in JoinKinds \cup {"operator"} /\ op = Down(p)
    <3>1. PICK g \in DOMAIN groups : \E k \in DOMAIN Ops(g) : Ops(g)[k] = p
      BY <1>4, <2>2, <2>5
    <3> QED BY <2>5, <3>1 DEF CoverInv, Covers
  <2>6. plan[p] = "operator" => Down(p) = Kid(p, 1)
    BY <1>1, PlanFacts DEF Down
  <2> QED BY <2>1, <2>3, <2>4, <2>5, <2>6 DEF Down
<1>6. \A op \in DOMAIN plan : Met(op)
  <2> SUFFICES ASSUME NEW op \in DOMAIN plan, ~Met(op) PROVE FALSE
    OBVIOUS
  <2> DEFINE T == {Len(p) : p \in {q \in DOMAIN plan : ~Met(q)}}
  <2>1. T \in SUBSET Nat /\ T # {}
    BY <1>1, PathFacts
  <2>2. PICK m \in T : \A l \in T : m <= l
    <3> HIDE DEF T
    <3> QED BY <2>1, LeastOf
  <2>3. PICK q \in DOMAIN plan : ~Met(q) /\ Len(q) = m
    OBVIOUS
  <2>4. ASSUME NEW p \in DOMAIN plan, Len(p) < Len(q) PROVE Met(p)
    <3>1. Len(p) \in Nat /\ Len(q) \in Nat
      BY <1>1, PathFacts
    <3>2. Len(p) \notin T
      <4> HIDE DEF T
      <4> QED BY <2>2, <2>3, <2>4, <3>1
    <3> QED BY <3>2
  <2>5. Met(Root)
    BY DEF CoverInv
  <2> HIDE DEF T
  <2> QED BY <1>5, <2>3, <2>4, <2>5
<1> QED BY <1>4, <1>6

(***************************************************************************)
(* build_pipelines and create_child_group cut every plan into groups that  *)
(* hold each of its operators in each part it plays, in the order of the   *)
(* plan.                                                                   *)
(***************************************************************************)
THEOREM PlanIsCutIntoGroups == Spec => []GroupsAreThePlan
<1>1. BuildInv /\ CoverInv => GroupsAreThePlan
  <2> SUFFICES ASSUME BuildInv, CoverInv, pc = "traverse" PROVE GroupsAreThePlan
    BY DEF GroupsAreThePlan
  <2> DEFINE Operators == {p \in DOMAIN plan : plan[p] \in JoinKinds \cup {"operator"}}
             Sources == {p \in DOMAIN plan : plan[p] \in SinkKinds \cup {"table_scan"}}
             Sinks == {p \in DOMAIN plan : plan[p] \in SinkKinds \cup JoinKinds}
  <2>1. calls = <<>> /\ input \in Inputs /\ \A g \in DOMAIN groups : groups[g] \in GroupSet
    BY DEF BuildInv, TypeInv
  <2>2. \A g \in DOMAIN groups : groups[g].source # NoOp /\ groups[g].source \in Sources
    <3>1. \A g, fn : ~Pending(g, fn)
      BY <2>1 DEF Pending
    <3> QED BY <2>1, <3>1 DEF BuildInv, SourceInv, GroupSet
  <2>3. \A g \in DOMAIN groups : \A k \in DOMAIN groups[g].operators :
          groups[g].operators[k] \in Operators
    BY <2>1 DEF CoverInv, Links, Ops, GroupSet
  <2>4. \A g \in DOMAIN groups : groups[g].sink # NoOp => groups[g].sink \in Sinks
    BY <2>1 DEF CoverInv, Links, GroupSet
  <2>5. /\ \A op \in Sources : \E g \in DOMAIN groups : groups[g].source = op
        /\ \A op \in Operators : \E g \in DOMAIN groups :
             \E k \in DOMAIN groups[g].operators : groups[g].operators[k] = op
        /\ \A op \in Sinks : op # NoOp /\ \E g \in DOMAIN groups : groups[g].sink = op
    BY <2>1, EverythingIsMet, PlanFacts DEF Ops
  <2>6. ASSUME NEW g \in DOMAIN groups
        PROVE  LET chain == groups[g].operators \o <<groups[g].source>> IN
               /\ \A k \in 1 .. Len(chain) - 1 : chain[k + 1] = Down(chain[k])
               /\ groups[g].sink # NoOp => chain[1] = Kid(groups[g].sink, 1)
    <3>1. PICK ops, src : ops = groups[g].operators /\ src = groups[g].source
      OBVIOUS
    <3>2. ops \in Seq(DOMAIN plan) /\ Ops(g) = ops
      BY <2>1, <3>1 DEF GroupSet, Ops
    <3>3. PICK n : n = Len(ops)
      OBVIOUS
    <3>4. n \in Nat /\ DOMAIN ops = 1 .. n
      BY <3>2, <3>3
    <3>5. PICK chain : chain = ops \o <<src>>
      OBVIOUS
    <3>6. /\ Len(chain) = n + 1 /\ chain[n + 1] = src
          /\ \A k \in 1 .. n : chain[k] = ops[k]
      BY <3>2, <3>3, <3>4, <3>5
    <3>7. \A k \in 1 .. n + 1 : chain[k] = At(g, k)
      <4>1. \A k \in 1 .. n : ops[k] = At(g, k)
        BY <3>2, <3>4 DEF CoverInv, Links
      <4>2. src = At(g, n + 1)
        BY <2>2, <3>1, <3>2, <3>3 DEF CoverInv, Links, Goes
      <4> QED BY <3>4, <3>6, <4>1, <4>2
    <3>8. ASSUME NEW k \in 1 .. n PROVE chain[k + 1] = Down(chain[k])
      <4>1. k + 1 \in 1 .. n + 1 /\ k + 1 # 1 /\ (k + 1) - 1 = k
        BY <3>4
      <4> QED BY <3>2, <3>6, <3>7, <4>1 DEF At
    <3>9. groups[g].sink # NoOp => chain[1] = Kid(groups[g].sink, 1)
      <4>1. 1 \in 1 .. n + 1
        BY <3>4
      <4> QED BY <3>7, <4>1 DEF At, First
    <3>10. Len(chain) - 1 = n
      BY <3>4, <3>6
    <3> QED BY <3>1, <3>5, <3>8, <3>9, <3>10
  <2>7. Places = {<<op, "operator">> : op \in Operators} \cup {<<op, "source">> : op \in Sources}
                 \cup {<<op, "sink">> : op \in Sinks}
    <3> HIDE DEF Operators, Sources, Sinks
    <3>1. \A op : /\ <<op, "operator">> # <<NoOp, "sink">> /\ <<op, "source">> # <<NoOp, "sink">>
                  /\ op # NoOp => <<op, "sink">> # <<NoOp, "sink">>
      OBVIOUS
    <3>2. ASSUME NEW x \in Places
          PROVE  x \in {<<op, "operator">> : op \in Operators}
                   \cup {<<op, "source">> : op \in Sources} \cup {<<op, "sink">> : op \in Sinks}
      <4>1. PICK g \in DOMAIN groups : x \in PlacesOf(g) /\ x # <<NoOp, "sink">>
        BY <3>2 DEF Places
      <4>2. \/ \E k \in DOMAIN groups[g].operators : x = <<groups[g].operators[k], "operator">>
            \/ x = <<groups[g].source, "source">>
            \/ x = <<groups[g].sink, "sink">>
        BY <4>1 DEF PlacesOf
      <4> QED BY <2>2, <2>3, <2>4, <4>1, <4>2
    <3>3. ASSUME NEW g \in DOMAIN groups, NEW x \in PlacesOf(g), x # <<NoOp, "sink">>
          PROVE  x \in Places
      BY <3>3 DEF Places
    <3>4. /\ \A op \in Operators : <<op, "operator">> \in Places
          /\ \A op \in Sources : <<op, "source">> \in Places
          /\ \A op \in Sinks : <<op, "sink">> \in Places
      <4>1. ASSUME NEW op \in Operators PROVE <<op, "operator">> \in Places
        <5>1. PICK g \in DOMAIN groups :
                \E k \in DOMAIN groups[g].operators : groups[g].operators[k] = op
          BY <2>5
        <5>2. <<op, "operator">> \in PlacesOf(g)
          BY <5>1 DEF PlacesOf
        <5> QED BY <3>1, <3>3, <5>2
      <4>2. ASSUME NEW op \in Sources PROVE <<op, "source">> \in Places
        <5>1. PICK g \in DOMAIN groups : groups[g].source = op
          BY <2>5
        <5>2. <<op, "source">> \in PlacesOf(g)
          BY <5>1 DEF PlacesOf
        <5> QED BY <3>1, <3>3, <5>2
      <4>3. ASSUME NEW op \in Sinks PROVE <<op, "sink">> \in Places
        <5>1. PICK g \in DOMAIN groups : groups[g].sink = op
          BY <2>5
        <5>2. <<op, "sink">> \in PlacesOf(g) /\ op # NoOp
          BY <2>5, <5>1 DEF PlacesOf
        <5> QED BY <3>1, <3>3, <5>2
      <4> QED BY <4>1, <4>2, <4>3
    <3> QED BY <3>2, <3>4
  <2> QED BY <2>6, <2>7 DEF GroupsAreThePlan
<1>2. BuildInv /\ CoverInv /\ [Next]_vars => CoverInv'
  BY CoverInvKept
<1>3. BuildingInv => BuildInv
  BY DEF BuildingInv
<1> QED BY <1>1, <1>2, <1>3, CoverInvInitially, BuildingInvHolds, PTL DEF Spec

-----------------------------------------------------------------------------
(* How wide the groups are *)

Widths(w) ==
  w = [p \in DOMAIN plan |->
         IF plan[p] = "table_scan" THEN input.partitions[p] ELSE w[Down(p)]]

\* There is a function that Width can choose: it is found from the leaves up.
LEMMA WidthsExist ==
  ASSUME input \in Inputs
  PROVE  \E w : Widths(w)
<1>1. PICK depth \in Nat : \A op \in DOMAIN plan : Len(op) <= depth
  BY PlanAssumption DEF plan
<1> DEFINE From(d) == {p \in DOMAIN plan : Len(p) >= d}
           Width1(w, p) == IF plan[p] = "table_scan" THEN input.partitions[p] ELSE w[Down(p)]
           Fits(w, d) == w = [p \in From(d) |-> Width1(w, p)]
<1>2. \A p \in DOMAIN plan : /\ Len(p) \in Nat
                             /\ plan[p] # "table_scan" => /\ Down(p) \in DOMAIN plan
                                                          /\ Len(Down(p)) = Len(p) + 1
  BY PathFacts, PlanFacts DEF Down
<1>3. Fits([p \in From(depth + 1) |-> 0], depth + 1)
  <2>1. From(depth + 1) = {}
    BY <1>1, <1>2
  <2> QED BY <2>1
<1>4. ASSUME NEW d \in Nat, NEW w, Fits(w, d + 1)
      PROVE  \E v : Fits(v, d)
  <2> DEFINE v == [p \in From(d) |-> Width1(w, p)]
  <2>1. \A p \in From(d + 1) : p \in From(d) /\ w[p] = Width1(w, p)
    BY <1>2, <1>4
  <2>2. \A p \in From(d + 1) : v[p] = w[p]
    BY <2>1
  <2>3. \A p \in From(d) : plan[p] # "table_scan" => Down(p) \in From(d + 1)
    BY <1>2
  <2>4. \A p \in From(d) : Width1(v, p) = Width1(w, p)
    <3> HIDE DEF v
    <3> QED BY <2>2, <2>3
  <2>5. v = [p \in From(d) |-> Width1(v, p)]
    BY <2>4
  <2> QED BY <2>5
<1>5. \A d \in 0 .. depth + 1 : \E w : Fits(w, d)
  <2> HIDE DEF Fits
  <2> SUFFICES ASSUME NEW d \in 0 .. depth + 1, ~\E w : Fits(w, d) PROVE FALSE
    OBVIOUS
  <2> DEFINE T == {t \in 0 .. depth + 1 : ~\E w : Fits(w, depth + 1 - t)}
  <2>1. T # {} /\ T \in SUBSET Nat
    <3>1. depth + 1 - d \in 0 .. depth + 1 /\ depth + 1 - (depth + 1 - d) = d
      OBVIOUS
    <3> QED BY <3>1
  <2>2. PICK t \in T : \A u \in T : t <= u
    <3> HIDE DEF T
    <3> QED BY <2>1, LeastOf
  <2>3. t # 0
    <3>1. depth + 1 - 0 = depth + 1
      OBVIOUS
    <3> QED BY <1>3, <3>1
  <2>4. t - 1 \in 0 .. depth + 1 /\ ~(t <= t - 1) /\ depth + 1 - t \in Nat
        /\ depth + 1 - (t - 1) = (depth + 1 - t) + 1
    BY <2>3
  <2>5. \E w : Fits(w, depth + 1 - (t - 1))
    BY <2>2, <2>4
  <2> QED BY <1>4, <2>4, <2>5
<1>6. From(0) = DOMAIN plan
  <2>1. \A p \in DOMAIN plan : Len(p) >= 0
    BY <1>2
  <2>2. \A p \in DOMAIN plan : p \in From(0)
    BY <2>1
  <2> QED BY <2>2
<1>7. PICK w : Fits(w, 0)
  <2>1. 0 \in 0 .. depth + 1
    OBVIOUS
  <2> HIDE DEF Fits
  <2> QED BY <1>5, <2>1
<1> QED BY <1>6, <1>7 DEF Widths

LEMMA WidthFacts ==
  ASSUME input \in Inputs, NEW op \in DOMAIN plan
  PROVE  Width(op) = IF plan[op] = "table_scan" THEN input.partitions[op] ELSE Width(Down(op))
<1>1. PICK w : w = CHOOSE v : Widths(v)
  OBVIOUS
<1>2. Widths(w)
  BY <1>1, WidthsExist
<1>3. \A p : Width(p) = w[p]
  BY <1>1 DEF Width, Widths
<1> QED BY <1>2, <1>3 DEF Widths

GroupWidth(g) == Width(groups[g].source)

\* The operators of a group are as wide as its source, and so is the first
\* group it depends on if the source is no scan.
LEMMA GroupWidthFacts ==
  ASSUME BuildInv, CoverInv, pc # "build", NEW g \in DOMAIN groups
  PROVE  /\ \A k \in 1 .. Len(Ops(g)) + 1 : Width(At(g, k)) = GroupWidth(g)
         /\ \A k \in DOMAIN Ops(g) : Width(Ops(g)[k]) = GroupWidth(g)
         /\ groups[g].sink # NoOp => Width(Kid(groups[g].sink, 1)) = GroupWidth(g)
         /\ IsScan(g) => GroupWidth(g) = input.partitions[groups[g].source]
         /\ ~IsScan(g) => GroupWidth(g) = Width(Kid(groups[g].source, 1))
<1>1. PICK n : n = Len(Ops(g))
  OBVIOUS
<1>2. /\ input \in Inputs /\ groups[g] \in GroupSet /\ groups[g].source \in DOMAIN plan
  BY GroupFacts DEF BuildInv, TypeInv
<1>3. n \in Nat /\ DOMAIN Ops(g) = 1 .. n /\ \A k \in 1 .. n : Ops(g)[k] \in DOMAIN plan
  <2>1. Ops(g) \in Seq(DOMAIN plan)
    BY <1>2 DEF Ops, GroupSet
  <2> QED BY <1>1, <2>1
<1>4. Links(g) /\ groups[g].source # NoOp
  BY <1>2, PlanFacts DEF CoverInv
<1>5. ASSUME NEW k \in 1 .. n
      PROVE  Ops(g)[k] = At(g, k) /\ Width(At(g, k)) = Width(At(g, k + 1))
  <2>1. Ops(g)[k] = At(g, k) /\ plan[Ops(g)[k]] # "table_scan"
    BY <1>2, <1>3, <1>4, PlanFacts DEF Links
  <2>2. At(g, k + 1) = Down(Ops(g)[k])
    <3>1. k + 1 # 1 /\ (k + 1) - 1 = k
      BY <1>3
    <3> QED BY <3>1 DEF At
  <2> QED BY <1>2, <1>3, <2>1, <2>2, WidthFacts
<1>6. At(g, n + 1) = groups[g].source
  BY <1>1, <1>4 DEF Links, Goes
<1>7. \A k \in 1 .. n + 1 : Width(At(g, k)) = GroupWidth(g)
  <2> DEFINE R(k) == Width(At(g, k)) = GroupWidth(g)
  <2>1. R(n + 1)
    BY <1>6 DEF GroupWidth
  <2>2. \A k \in 1 .. n : R(k + 1) => R(k)
    BY <1>5
  <2> HIDE DEF R
  <2> SUFFICES ASSUME NEW j \in 1 .. n + 1, ~R(j) PROVE FALSE
    BY DEF R
  <2> DEFINE T == {t \in 0 .. n : ~R(n + 1 - t)}
  <2>3. T # {} /\ T \in SUBSET Nat
    <3>1. n + 1 - j \in 0 .. n /\ n + 1 - (n + 1 - j) = j
      BY <1>3
    <3> QED BY <3>1
  <2>4. PICK t \in T : \A u \in T : t <= u
    <3> HIDE DEF T
    <3> QED BY <2>3, LeastOf
  <2>5. t # 0
    <3>1. n + 1 - 0 = n + 1
      BY <1>3
    <3> QED BY <2>1, <3>1
  <2>6. t - 1 \in 0 .. n /\ ~(t <= t - 1) /\ n + 1 - t \in 1 .. n
        /\ n + 1 - (t - 1) = (n + 1 - t) + 1
    BY <1>3, <2>5
  <2>7. R((n + 1 - t) + 1)
    BY <2>4, <2>6
  <2> QED BY <2>2, <2>6, <2>7
<1>8. groups[g].sink # NoOp => Width(Kid(groups[g].sink, 1)) = GroupWidth(g)
  <2>1. 1 \in 1 .. n + 1
    BY <1>3
  <2> QED BY <1>7, <2>1 DEF At, First
<1>9. \A k \in DOMAIN Ops(g) : Width(Ops(g)[k]) = GroupWidth(g)
  <2>1. \A k \in 1 .. n : k \in 1 .. n + 1
    BY <1>3
  <2> QED BY <1>3, <1>5, <1>7, <2>1
<1>10. IsScan(g) => GroupWidth(g) = input.partitions[groups[g].source]
  BY <1>2, WidthFacts DEF IsScan, GroupWidth
<1>11. ~IsScan(g) => GroupWidth(g) = Width(Kid(groups[g].source, 1))
  <2>1. plan[groups[g].source] \notin JoinKinds
    <3>1. \A fn : ~Pending(g, fn)
      BY DEF Pending, BuildInv, TypeInv
    <3> QED BY <1>2, <3>1, PlanFacts DEF BuildInv, SourceInv
  <2>2. Down(groups[g].source) = Kid(groups[g].source, 1)
    BY <2>1 DEF Down
  <2> QED BY <1>2, <2>2, WidthFacts DEF IsScan, GroupWidth
<1> QED BY <1>1, <1>7, <1>8, <1>9, <1>10, <1>11

(* A group that is set up has as many pipelines as its source has feeding  *)
(* partitions.                                                             *)
WidthInv ==
  NoEmptyTable /\ pc # "build" =>
    \A g \in DOMAIN groups : initialized[g] > 0 => initialized[g] = GroupWidth(g)

\* What the group on top of the stack depends on has been set up.
LEMMA TopFacts ==
  ASSUME BuildingInv, NoEmptyTable, pc = "initialize", pipe_stack # <<>>
  PROVE  /\ Top \in DOMAIN groups
         /\ \A m \in DOMAIN groups[Top].dependencies :
              /\ Dep(Top, m) \in DOMAIN groups /\ initialized[Dep(Top, m)] > 0
              /\ count[Dep(Top, m)] = initialized[Dep(Top, m)]
<1>1. PICK n, g : n = Len(pipe_stack) /\ g = Top
  OBVIOUS
<1>2. pipe_stack \in Seq(DOMAIN groups) /\ DOMAIN dfs = {} /\ BuildInv /\ StackInv
      /\ \A h \in DOMAIN groups : initialized[h] > 0 => SetUp(h)
  BY DEF BuildingInv, WireInv, OrderInv, StackInv, SetUpInv
<1>3. n \in DOMAIN pipe_stack /\ g = pipe_stack[n] /\ ~\E l \in DOMAIN pipe_stack : l > n
  BY <1>1, <1>2 DEF Top, Last
<1>4. g \in DOMAIN groups
  BY <1>2, <1>3
<1>5. ASSUME NEW m \in DOMAIN groups[g].dependencies
      PROVE  Dep(g, m) \in DOMAIN groups /\ initialized[Dep(g, m)] > 0
  <2>1. Dep(g, m) \in DOMAIN groups
    BY <1>2, <1>4, GroupFacts
  <2> QED BY <1>2, <1>3, <2>1 DEF StackInv
<1> QED BY <1>1, <1>2, <1>4, <1>5 DEF SetUp

LEMMA TopWidth ==
  ASSUME BuildingInv, CoverInv, WidthInv, NoEmptyTable, pc = "initialize", pipe_stack # <<>>
  PROVE  /\ ParallelismCount(Top) = GroupWidth(Top)
         /\ \A m \in DOMAIN groups[Top].dependencies :
              count[Dep(Top, m)] = GroupWidth(Dep(Top, m))
<1>1. PICK g : g = Top
  OBVIOUS
<1>2. g \in DOMAIN groups /\ BuildInv
  BY <1>1, TopFacts DEF BuildingInv
<1>3. \A m \in DOMAIN groups[g].dependencies : count[Dep(g, m)] = GroupWidth(Dep(g, m))
  BY <1>1, TopFacts DEF WidthInv
<1>4. CASE IsScan(g)
  BY <1>1, <1>2, <1>3, <1>4, GroupWidthFacts DEF ParallelismCount
<1>5. CASE ~IsScan(g)
  <2>1. /\ 1 \in DOMAIN groups[g].dependencies /\ Dep(g, 1) \in DOMAIN groups
        /\ groups[Dep(g, 1)].sink = groups[g].source /\ groups[g].source # NoOp
    BY <1>2, <1>5, GroupFacts, PlanFacts DEF BuildInv, TypeInv
  <2>2. GroupWidth(Dep(g, 1)) = Width(Kid(groups[g].source, 1))
    BY <1>2, <2>1, GroupWidthFacts
  <2>3. GroupWidth(g) = Width(Kid(groups[g].source, 1))
    BY <1>2, <1>5, GroupWidthFacts
  <2>4. ParallelismCount(g) = count[Dep(g, 1)]
    BY <1>5 DEF ParallelismCount
  <2> QED BY <1>1, <1>3, <2>1, <2>2, <2>3, <2>4
<1> QED BY <1>4, <1>5

LEMMA WidthInvKept ==
  ASSUME BuildingInv, CoverInv, WidthInv, [Next]_vars
  PROVE  WidthInv'
<1>1. CASE UNCHANGED <<input, groups>>
  <2>1. NoEmptyTable' = NoEmptyTable /\ \A g : GroupWidth(g)' = GroupWidth(g)
    <3>1. \A g : GroupWidth(g)' = GroupWidth(g)
      BY <1>1 DEF GroupWidth, Width, Down, plan
    <3> QED BY <1>1, <3>1, PlanOfGroupKept
  <2> SUFFICES ASSUME NoEmptyTable, pc' # "build", NEW g \in DOMAIN groups, initialized'[g] > 0
               PROVE  initialized'[g] = GroupWidth(g)
    BY <1>1, <2>1 DEF WidthInv
  <2>2. CASE BuildDone
    BY <2>2 DEF BuildDone
  <2>3. CASE Initialize
    <3>1. PICK t : t = Top
      OBVIOUS
    <3>2. pc = "initialize" /\ pipe_stack # <<>>
          /\ initialized' = [initialized EXCEPT ![t] = ParallelismCount(t)]
      BY <2>3, <3>1 DEF Initialize
    <3>3. DOMAIN initialized = DOMAIN groups
      BY <3>2 DEF BuildingInv, WireInv
    <3>4. CASE g = t
      BY <3>1, <3>2, <3>3, <3>4, TopWidth
    <3>5. CASE g # t
      BY <3>2, <3>3, <3>5 DEF WidthInv
    <3> QED BY <3>4, <3>5
  <2>4. CASE pc # "build" /\ initialized' = initialized
    BY <2>4 DEF WidthInv
  <2> QED BY <2>2, <2>3, <2>4 DEF Next, BuildSink, BuildScan, BuildOperator, BuildJoin,
         CreateChildGroup, PlanDfs, TraverseDone, InitializeFails, InitializeDone,
         Running, wiringVars, vars
<1>2. CASE BuildSink \/ BuildScan \/ BuildOperator \/ BuildJoin \/ CreateChildGroup
  <2>1. pc' = "build"
    BY <1>2 DEF BuildSink, BuildScan, BuildOperator, BuildJoin, CreateChildGroup, Running
  <2> QED BY <2>1 DEF WidthInv
<1> QED BY <1>1, <1>2 DEF Next, BuildDone, PlanDfs, TraverseDone, Initialize, InitializeFails,
     InitializeDone, buildVars, vars

(***************************************************************************)
(* Initialize indexes no vector of pipelines past its end in a plan whose  *)
(* joins have as many build pipelines as probe pipelines, or more.         *)
(***************************************************************************)
THEOREM LookupsStayInRange == Spec => []LookupsInRange
<1> DEFINE Inv == BuildingInv /\ ServeInv /\ CoverInv /\ WidthInv
           Wide == \A op \in JoinsOfPlan : Width(Kid(op, 1)) >= Width(op)
<1>1. ASSUME Inv, NoEmptyTable, Wide, pc = "initialize", pipe_stack # <<>>
      PROVE  InRange(Top)
  <2>1. PICK g, n : g = Top /\ n = ParallelismCount(g)
    OBVIOUS
  <2>2. /\ BuildInv /\ WireInv /\ g \in DOMAIN groups /\ n = GroupWidth(g)
        /\ count \in [DOMAIN groups -> Nat \ {0}]
        /\ \A m \in DOMAIN groups[g].dependencies :
             Dep(g, m) \in DOMAIN groups /\ count[Dep(g, m)] = GroupWidth(Dep(g, m))
    BY <1>1, <2>1, TopFacts, TopWidth DEF BuildingInv, WireInv
  <2>3. n \in Nat /\ input \in Inputs /\ groups[g] \in GroupSet
    <3>1. n \in Nat
      BY <1>1, <2>1, <2>2, ParallelismFacts
    <3> QED BY <2>2, <3>1 DEF BuildInv, TypeInv
  <2>4. ASSUME NEW m \in JoinDeps(g)
        PROVE  m \in DOMAIN groups[g].dependencies /\ n <= count[Dep(g, m)]
    <3>1. m \in DOMAIN groups[g].dependencies
      BY DEF JoinDeps
    <3>2. PICK k \in Joins(g) : Served(g, m) = Ops(g)[k]
      BY <1>1, <2>2 DEF ServeInv, Serves
    <3>3. PICK op : op = Ops(g)[k]
      OBVIOUS
    <3>4. k \in DOMAIN Ops(g) /\ op \in DOMAIN plan /\ op \in JoinsOfPlan
      BY <2>3, <3>3 DEF Joins, JoinsOfPlan, Ops, GroupSet
    <3>5. groups[Dep(g, m)].sink = op /\ op # NoOp
      BY <2>3, <3>2, <3>3, <3>4, PlanFacts DEF Served
    <3>6. GroupWidth(Dep(g, m)) = Width(Kid(op, 1))
      BY <1>1, <2>2, <3>1, <3>5, GroupWidthFacts
    <3>7. GroupWidth(g) = Width(op)
      BY <1>1, <2>2, <3>3, <3>4, GroupWidthFacts
    <3>8. Width(Kid(op, 1)) >= Width(op)
      BY <1>1, <3>4
    <3>9. count[Dep(g, m)] \in Nat
      BY <2>2, <3>1
    <3> QED BY <2>2, <2>3, <3>1, <3>6, <3>7, <3>8, <3>9
  <2>5. groups[g].dependencies # <<>> => n <= count[Dep(g, 1)]
    <3>1. CASE IsScan(g)
      <4>1. Offset(g) = 0
        BY <2>3, <3>1, PlanFacts DEF Offset, IsScan, SinkKinds
      <4>2. groups[g].dependencies # <<>> => 1 \in JoinDeps(g)
        BY <2>2, <4>1, GroupFacts, <1>1 DEF JoinDeps
      <4> QED BY <2>4, <4>2
    <3>2. CASE ~IsScan(g)
      <4>1. n = count[Dep(g, 1)]
        BY <2>1, <3>2 DEF ParallelismCount
      <4> QED BY <2>3, <4>1
    <3> QED BY <3>1, <3>2
  <2>6. \A k \in DOMAIN Slot(g) :
          Slot(g)[k] \in DOMAIN groups[g].dependencies /\ n <= count[Dep(g, Slot(g)[k])]
    <3>1. ASSUME NEW k \in DOMAIN Slot(g) PROVE Slot(g)[k] \in JoinDeps(g)
      <4>1. k \in Joins(g) /\ Slot(g)[k] = CountPg(g)[k]
        BY DEF Slot
      <4> QED BY <1>1, <2>2, <4>1, CountPgServes
    <3> QED BY <2>4, <3>1
  <2> QED BY <2>1, <2>5, <2>6 DEF InRange
<1>2. ASSUME Inv, LookupsInRange, [Next]_vars
      PROVE  LookupsInRange'
  <2> SUFFICES ASSUME NoEmptyTable', Wide', pc' = "crashed" PROVE FALSE
    BY DEF LookupsInRange
  <2>1. input' = input
    BY <1>2 DEF Next, BuildSink, BuildScan, BuildOperator, BuildJoin, CreateChildGroup, BuildDone,
       PlanDfs, TraverseDone, Initialize, InitializeFails, InitializeDone, vars
  <2>2. NoEmptyTable /\ Wide
    <3>1. plan' = plan /\ NoEmptyTable' = NoEmptyTable /\ JoinsOfPlan' = JoinsOfPlan
      BY <2>1 DEF plan, NoEmptyTable, JoinsOfPlan
    <3>2. \A op : Width(op)' = Width(op)
      BY <2>1 DEF Width, Down, plan
    <3> QED BY <3>1, <3>2
  <2>3. pc # "crashed"
    BY <1>2, <2>2 DEF LookupsInRange
  <2>4. InitializeFails
    BY <1>2, <2>3 DEF Next, BuildSink, BuildScan, BuildOperator, BuildJoin, CreateChildGroup,
       BuildDone, PlanDfs, TraverseDone, Initialize, InitializeDone, vars
  <2>5. pc = "initialize" /\ pipe_stack # <<>> /\ ~InRange(Top)
    BY <2>4 DEF InitializeFails
  <2> QED BY <1>1, <1>2, <2>2, <2>5
<1>3. Init => ServeInv /\ CoverInv /\ WidthInv /\ LookupsInRange
  <2>1. Init => WidthInv /\ LookupsInRange
    BY DEF Init, WidthInv, LookupsInRange
  <2> QED BY <2>1, ServeInvInitially, CoverInvInitially
<1>4. Inv /\ [Next]_vars => ServeInv' /\ CoverInv' /\ WidthInv'
  BY ServeInvKept, CoverInvKept, WidthInvKept DEF BuildingInv
<1> QED BY <1>2, <1>3, <1>4, BuildingInvHolds, PTL DEF Spec

-----------------------------------------------------------------------------
(* Every group is set up, and no two end in the same operator *)

(* Every group but the first was created as a dependency of an older one.  *)
Created(b) ==
  /\ groups[b].sink # NoOp
  /\ \E h \in DOMAIN groups :
       h < b /\ \E m \in DOMAIN groups[h].dependencies : Dep(h, m) = b

CreatedInv ==
  groups[1].sink = NoOp /\ \A b \in DOMAIN groups : b # 1 => Created(b)

LEMMA CreatedInvKept ==
  ASSUME BuildInv, CreatedInv, [Next]_vars
  PROVE  CreatedInv'
<1>0. 1 \in DOMAIN groups /\ DOMAIN groups = 1 .. Len(groups) /\ Len(groups) \in Nat
  BY DEF BuildInv, TypeInv
<1>1. ASSUME DOMAIN groups \subseteq DOMAIN groups', NEW b \in DOMAIN groups, Created(b),
             \A h \in DOMAIN groups :
               /\ groups'[h].sink = groups[h].sink
               /\ \A m \in DOMAIN groups[h].dependencies :
                    /\ m \in DOMAIN groups'[h].dependencies
                    /\ groups'[h].dependencies[m] = groups[h].dependencies[m]
      PROVE  Created(b)'
  <2>1. PICK h \in DOMAIN groups :
          h < b /\ \E m \in DOMAIN groups[h].dependencies : Dep(h, m) = b
    BY <1>1 DEF Created
  <2>2. PICK m \in DOMAIN groups[h].dependencies : Dep(h, m) = b
    BY <2>1
  <2>3. h \in DOMAIN groups' /\ m \in DOMAIN groups'[h].dependencies
        /\ groups'[h].dependencies[m] = b
    BY <1>1, <2>2 DEF Dep
  <2>4. groups'[b].sink # NoOp
    BY <1>1 DEF Created
  <2> QED BY <2>1, <2>3, <2>4 DEF Created, Dep
<1>2. CASE BuildSink \/ BuildScan \/ BuildOperator \/ BuildJoin
  <2>1. PICK e \in GroupSet : GroupParsed(calls[1].group, e)
    BY <1>2, BuildParses DEF Parsed
  <2>2. /\ DOMAIN groups' = DOMAIN groups
        /\ \A h \in DOMAIN groups : groups'[h].sink = groups[h].sink
                                    /\ groups'[h].dependencies = groups[h].dependencies
    BY <2>1 DEF GroupParsed, BuildInv, TypeInv
  <2> QED BY <1>0, <1>1, <2>2 DEF CreatedInv
<1>3. CASE CreateChildGroup
  <2>0. PICK g, op, new : g = calls[1].group /\ op = calls[1].op /\ new = Len(groups) + 1
    OBVIOUS
  <2>1. /\ g \in DOMAIN groups /\ groups[g] \in GroupSet /\ op \in DOMAIN plan
        /\ input \in Inputs
    BY <1>3, <2>0, HeadFacts DEF CreateChildGroup, BuildInv, TypeInv
  <2>2. /\ DOMAIN groups' = DOMAIN groups \cup {new} /\ groups'[new] = NewGroup(op)
        /\ \A h \in DOMAIN groups : h # g => groups'[h] = groups[h]
        /\ groups'[g].sink = groups[g].sink
        /\ groups'[g].dependencies = Append(groups[g].dependencies, new)
    BY <1>3, <2>0, GroupCreated
  <2>3. \A m \in DOMAIN groups[g].dependencies :
          /\ m \in DOMAIN groups'[g].dependencies
          /\ groups'[g].dependencies[m] = groups[g].dependencies[m]
    <3>1. groups[g].dependencies \in Seq(Nat)
      BY <2>1 DEF GroupSet
    <3> QED BY <2>2, <3>1
  <2>4. \A b \in DOMAIN groups : b # 1 => Created(b)'
    BY <1>1, <2>2, <2>3 DEF CreatedInv
  <2>5. Created(new)'
    <3>1. groups[g].dependencies \in Seq(Nat)
      BY <2>1 DEF GroupSet
    <3>2. PICK m : m \in DOMAIN groups'[g].dependencies /\ groups'[g].dependencies[m] = new
      <4>1. PICK m : m = Len(groups[g].dependencies) + 1
        OBVIOUS
      <4>2. m \in DOMAIN groups'[g].dependencies /\ groups'[g].dependencies[m] = new
        BY <2>2, <3>1, <4>1
      <4> QED BY <4>2
    <3>3. groups'[new].sink # NoOp
      BY <2>1, <2>2, PlanFacts DEF NewGroup
    <3>4. g \in DOMAIN groups'
      BY <2>1, <2>2
    <3>5. g < new
      <4>1. g \in 1 .. Len(groups)
        BY <1>0, <2>1
      <4> QED BY <1>0, <2>0, <4>1
    <3> QED BY <3>2, <3>3, <3>4, <3>5 DEF Created, Dep
  <2>6. groups'[1].sink = NoOp
    BY <1>0, <2>2 DEF CreatedInv
  <2> QED BY <2>2, <2>4, <2>5, <2>6 DEF CreatedInv
<1>4. CASE UNCHANGED groups
  BY <1>0, <1>1, <1>4 DEF CreatedInv
<1> QED BY <1>2, <1>3, <1>4 DEF Next, BuildDone, PlanDfs, TraverseDone, Initialize,
     InitializeFails, InitializeDone, buildVars, vars

(* The first group waits to be put on the stack, lies there or is set up.  *)
Waits(g) ==
  \/ \E l \in DOMAIN dfs : dfs[l] = g
  \/ \E l \in DOMAIN pipe_stack : pipe_stack[l] = g
  \/ initialized[g] > 0

RootInv ==
  /\ NoEmptyTable /\ pc # "build" => Waits(1)
  /\ pc = "ready" => pipe_stack = <<>>

LEMMA RootInvKept ==
  ASSUME BuildingInv, RootInv, [Next]_vars
  PROVE  RootInv'
<1>1. CASE BuildSink \/ BuildScan \/ BuildOperator \/ BuildJoin \/ CreateChildGroup
  <2>1. pc' = "build"
    BY <1>1 DEF BuildSink, BuildScan, BuildOperator, BuildJoin, CreateChildGroup, Running
  <2> QED BY <2>1 DEF RootInv
<1>2. CASE BuildDone
  <2>1. dfs' = <<1>> /\ pc' = "traverse"
    BY <1>2 DEF BuildDone, traverseVars, BuildingInv, WireInv
  <2>2. 1 \in DOMAIN dfs' /\ dfs'[1] = 1
    BY <2>1
  <2> QED BY <2>1, <2>2 DEF RootInv, Waits
<1>3. CASE PlanDfs
  <2>1. /\ pc = "traverse" /\ pc' = "traverse" /\ dfs # <<>> /\ input' = input
        /\ pipe_stack' = Append(pipe_stack, Head(dfs)) /\ initialized' = initialized
        /\ dfs' = groups[Head(dfs)].dependencies \o Tail(dfs)
    BY <1>3 DEF PlanDfs, wiringVars
  <2>2. dfs \in Seq(DOMAIN groups) /\ pipe_stack \in Seq(DOMAIN groups) /\ BuildInv
    BY <2>1 DEF BuildingInv, WireInv
  <2>3. \A l \in DOMAIN pipe_stack : l \in DOMAIN pipe_stack' /\ pipe_stack'[l] = pipe_stack[l]
    BY <2>1, <2>2
  <2>4. \E k \in DOMAIN pipe_stack' : pipe_stack'[k] = dfs[1]
    <3>1. PICK h : h = Head(dfs) /\ h = dfs[1] /\ h \in DOMAIN groups
      BY <2>1, <2>2
    <3>2. PICK k : k = Len(pipe_stack) + 1
      OBVIOUS
    <3>3. k \in DOMAIN pipe_stack' /\ pipe_stack'[k] = h
      BY <2>1, <2>2, <3>1, <3>2
    <3> QED BY <3>1, <3>3
  <2>5. ASSUME NEW l \in DOMAIN dfs, l # 1
        PROVE  \E k \in DOMAIN dfs' : dfs'[k] = dfs[l]
    <3>1. PICK deps, rest : deps = groups[Head(dfs)].dependencies /\ rest = Tail(dfs)
      OBVIOUS
    <3>2. rest \in Seq(DOMAIN groups) /\ l - 1 \in DOMAIN rest /\ rest[l - 1] = dfs[l]
      BY <2>1, <2>2, <2>5, <3>1, HeadDropped
    <3>3. Head(dfs) \in DOMAIN groups
      BY <2>1, <2>2
    <3>4. deps \in Seq(Nat)
      BY <2>1, <2>2, <3>1, <3>3, GroupFacts
    <3>5. PICK k : k = Len(deps) + (l - 1)
      OBVIOUS
    <3>6. k \in DOMAIN dfs' /\ dfs'[k] = rest[l - 1]
      BY <2>1, <3>1, <3>2, <3>4, <3>5, SMTT(30)
    <3> QED BY <3>2, <3>6
  <2>6. NoEmptyTable' = NoEmptyTable
    BY <2>1, PlanKept
  <2>7. Waits(1) => Waits(1)'
    BY <2>1, <2>3, <2>4, <2>5, ZenonT(40) DEF Waits
  <2> QED BY <2>1, <2>6, <2>7 DEF RootInv
<1>4. CASE Initialize
  <2>1. PICK t : t = Top
    OBVIOUS
  <2>2. /\ pc = "initialize" /\ pc' = "initialize" /\ pipe_stack # <<>> /\ input' = input
        /\ dfs' = dfs /\ pipe_stack' = Front(pipe_stack)
        /\ initialized' = [initialized EXCEPT ![t] = ParallelismCount(t)]
    BY <1>4, <2>1 DEF Initialize
  <2>3. /\ pipe_stack \in Seq(DOMAIN groups) /\ initialized \in [DOMAIN groups -> Nat]
        /\ BuildInv /\ WireInv
    BY <2>2 DEF BuildingInv, WireInv
  <2>4. t = pipe_stack[Len(pipe_stack)] /\ t \in DOMAIN groups
    BY <2>1, <2>2, <2>3 DEF Top, Last
  <2>5. \A l \in DOMAIN pipe_stack : l # Len(pipe_stack) =>
          l \in DOMAIN pipe_stack' /\ pipe_stack'[l] = pipe_stack[l]
    BY <2>2, <2>3 DEF Front
  <2>6. NoEmptyTable' = NoEmptyTable
    BY <2>2, PlanKept
  <2>7. NoEmptyTable => ParallelismCount(t) > 0
    BY <2>2, <2>3, <2>4, ParallelismFacts
  <2>8. NoEmptyTable => initialized'[t] > 0
        /\ \A g \in DOMAIN groups : initialized[g] > 0 => initialized'[g] > 0
    BY <2>2, <2>3, <2>4, <2>7
  <2>9. 1 \in DOMAIN groups
    BY <2>3 DEF BuildInv, TypeInv
  <2>10. NoEmptyTable /\ Waits(1) => Waits(1)'
    BY <2>2, <2>4, <2>5, <2>8, <2>9 DEF Waits
  <2> QED BY <2>2, <2>6, <2>10 DEF RootInv
<1>5. CASE TraverseDone \/ InitializeFails \/ InitializeDone \/ UNCHANGED vars
  <2>1. /\ input' = input /\ dfs' = dfs /\ pipe_stack' = pipe_stack /\ initialized' = initialized
        /\ pc' # "build" => pc # "build"
        /\ pc' = "ready" => pc = "ready" \/ pipe_stack = <<>>
    BY <1>5 DEF TraverseDone, InitializeFails, InitializeDone, traverseVars, wiringVars, vars
  <2>2. NoEmptyTable' = NoEmptyTable
    BY <2>1, PlanKept
  <2> QED BY <2>1, <2>2 DEF RootInv, Waits
<1> QED BY <1>1, <1>2, <1>3, <1>4, <1>5 DEF Next

LEMMA AllAreSetUp ==
  ASSUME BuildingInv, CreatedInv, RootInv, NoEmptyTable, pc = "ready", NEW g \in DOMAIN groups
  PROVE  initialized[g] > 0
<1>1. \A h \in DOMAIN groups : initialized[h] > 0 =>
        \A m \in DOMAIN groups[h].dependencies : initialized[Dep(h, m)] > 0
  BY DEF BuildingInv, OrderInv, SetUpInv, SetUp
<1>2. initialized[1] > 0
  <2>1. DOMAIN dfs = {} /\ DOMAIN pipe_stack = {}
    BY DEF RootInv, BuildingInv, OrderInv, StackInv
  <2> QED BY <2>1 DEF RootInv, Waits
<1>3. DOMAIN groups \subseteq Nat
  BY GroupFacts DEF BuildingInv
<1> SUFFICES ASSUME ~(initialized[g] > 0) PROVE FALSE
  OBVIOUS
<1> DEFINE T == {b \in DOMAIN groups : ~(initialized[b] > 0)}
<1>4. T # {} /\ T \in SUBSET Nat
  BY <1>3
<1>5. PICK b \in T : \A c \in T : b <= c
  <2> HIDE DEF T
  <2> QED BY <1>4, LeastOf
<1>6. PICK h \in DOMAIN groups :
        h < b /\ \E m \in DOMAIN groups[h].dependencies : Dep(h, m) = b
  BY <1>2, <1>5 DEF CreatedInv, Created
<1>7. h \notin T
  <2>1. h \in Nat /\ b \in Nat
    BY <1>3, <1>5, <1>6
  <2> HIDE DEF T
  <2> QED BY <1>5, <1>6, <2>1
<1> QED BY <1>1, <1>5, <1>6, <1>7

\* The last path determines the way to it.
LEMMA KidFacts ==
  ASSUME input \in Inputs, NEW p \in DOMAIN plan, NEW q \in DOMAIN plan,
         NEW i \in {1, 2}, NEW j \in {1, 2}
  PROVE  /\ Kid(p, i) # Root
         /\ Kid(p, i) = Kid(q, j) => p = q /\ i = j
<1>1. p \in Seq(Nat) /\ q \in Seq(Nat)
  BY PathFacts
<1>2. Kid(p, i) # Root
  <2>1. Len(Kid(p, i)) = Len(p) + 1 /\ Len(p) \in Nat /\ Len(Root) = 0
    BY <1>1 DEF Kid, Root
  <2> QED BY <2>1
<1>3. ASSUME Kid(p, i) = Kid(q, j) PROVE p = q /\ i = j
  <2>1. /\ Len(Kid(p, i)) = Len(p) + 1 /\ Len(Kid(q, j)) = Len(q) + 1
        /\ Kid(p, i)[Len(p) + 1] = i /\ Kid(q, j)[Len(q) + 1] = j
        /\ \A k \in 1 .. Len(p) : Kid(p, i)[k] = p[k]
        /\ \A k \in 1 .. Len(q) : Kid(q, j)[k] = q[k]
    BY <1>1 DEF Kid
  <2>2. Len(p) = Len(q) /\ i = j
    <3>1. Len(p) \in Nat /\ Len(q) \in Nat
      BY <1>1
    <3>2. Len(p) = Len(q)
      BY <1>3, <2>1, <3>1
    <3> QED BY <1>3, <2>1, <3>2
  <2>3. \A k \in 1 .. Len(p) : p[k] = q[k]
    BY <1>3, <2>1, <2>2
  <2> QED BY <1>1, <2>2, <2>3
<1> QED BY <1>2, <1>3

Spots(g) == 1 .. Len(Ops(g)) + 1

\* What stands above position k of a group.
LEMMA SpotFacts ==
  ASSUME BuildInv, CoverInv, CreatedInv, pc # "build", NEW g \in DOMAIN groups, NEW k \in Spots(g)
  PROVE  \/ g = 1 /\ k = 1 /\ At(g, k) = Root
         \/ /\ g # 1 /\ k = 1 /\ At(g, k) = Kid(groups[g].sink, 1)
            /\ groups[g].sink \in DOMAIN plan /\ plan[groups[g].sink] \in SinkKinds \cup JoinKinds
         \/ /\ k - 1 \in Spots(g) /\ At(g, k) = Down(At(g, k - 1))
            /\ At(g, k - 1) \in DOMAIN plan
            /\ plan[At(g, k - 1)] \in JoinKinds \cup {"operator"}
<1>1. /\ groups[g] \in GroupSet /\ Links(g)
      /\ (g = 1 => groups[g].sink = NoOp) /\ (g # 1 => groups[g].sink # NoOp)
  BY DEF BuildInv, TypeInv, CoverInv, CreatedInv, Created
<1>2. Ops(g) \in Seq(DOMAIN plan)
  BY <1>1 DEF Ops, GroupSet
<1>3. CASE k = 1
  <2>1. At(g, k) = First(g)
    BY <1>3 DEF At
  <2>2. groups[g].sink # NoOp =>
          groups[g].sink \in DOMAIN plan /\ plan[groups[g].sink] \in SinkKinds \cup JoinKinds
    BY <1>1 DEF Links, GroupSet
  <2> QED BY <1>1, <1>3, <2>1, <2>2 DEF First
<1>4. CASE k # 1
  <2>1. k - 1 \in DOMAIN Ops(g) /\ k - 1 \in Spots(g)
    BY <1>2, <1>4 DEF Spots
  <2>2. At(g, k) = Down(Ops(g)[k - 1])
    BY <1>4 DEF At
  <2>3. Ops(g)[k - 1] = At(g, k - 1) /\ Ops(g)[k - 1] \in DOMAIN plan
        /\ plan[Ops(g)[k - 1]] \in JoinKinds \cup {"operator"}
    BY <1>1, <1>2, <2>1 DEF Links
  <2> QED BY <2>1, <2>2, <2>3
<1> QED BY <1>3, <1>4

\* Where the operator stands that a group ends in.
LEMMA SinkFacts ==
  ASSUME BuildInv, ServeInv, CoverInv, CreatedInv, pc # "build", NEW b \in DOMAIN groups, b # 1
  PROVE  \E h \in DOMAIN groups : \E m \in DOMAIN groups[h].dependencies : \E k \in Spots(h) :
           /\ b = Dep(h, m) /\ At(h, k) = groups[b].sink
           /\ \/ k = Len(Ops(h)) + 1 /\ m = 1
              \/ k # Len(Ops(h)) + 1 /\ m \in JoinDeps(h)
<1>1. PICK h \in DOMAIN groups : \E m \in DOMAIN groups[h].dependencies : Dep(h, m) = b
  BY DEF CreatedInv, Created
<1>2. PICK m \in DOMAIN groups[h].dependencies : Dep(h, m) = b
  BY <1>1
<1>3. /\ Joins(h) \subseteq 1 .. Len(Ops(h)) /\ Len(Ops(h)) \in Nat /\ Offset(h) \in {0, 1}
      /\ \A n \in JoinDeps(h) : \E k \in Joins(h) : Served(h, n) = Ops(h)[k]
  BY JoinsAreServed
<1>4. CASE m \in JoinDeps(h)
  <2>1. PICK k \in Joins(h) : Served(h, m) = Ops(h)[k]
    BY <1>3, <1>4
  <2>2. k \in Spots(h) /\ k # Len(Ops(h)) + 1
    BY <1>3 DEF Spots
  <2>3. At(h, k) = groups[b].sink
    <3>1. k \in DOMAIN Ops(h)
      BY DEF Joins, Ops
    <3> QED BY <1>2, <2>1, <3>1 DEF CoverInv, Links, Served
  <2> QED BY <1>2, <1>4, <2>2, <2>3
<1>5. CASE m \notin JoinDeps(h)
  <2>1. groups[h].dependencies \in Seq(Nat) /\ groups[h].source \in DOMAIN plan
    BY GroupFacts
  <2>2. Offset(h) = 1 /\ m = 1
    BY <1>3, <1>5, <2>1 DEF JoinDeps
  <2>3. ~IsScan(h) /\ groups[h].source # NoOp
    BY <2>2, PlanFacts DEF Offset, IsScan, BuildInv, TypeInv
  <2>4. groups[b].sink = groups[h].source
    BY <1>2, <2>2, <2>3, GroupFacts
  <2>5. groups[h].source = At(h, Len(Ops(h)) + 1)
    BY <2>3 DEF CoverInv, Links, Goes
  <2>6. Len(Ops(h)) + 1 \in Spots(h)
    BY <1>3 DEF Spots
  <2> QED BY <1>2, <2>2, <2>4, <2>5, <2>6
<1> QED BY <1>4, <1>5

OnlyOnce(op) ==
  \A g, h \in DOMAIN groups : \A k \in Spots(g), l \in Spots(h) :
    At(g, k) = op /\ At(h, l) = op => g = h /\ k = l

LEMMA EndsOnce ==
  ASSUME BuildInv, ServeInv, CoverInv, CreatedInv, pc # "build",
         NEW b \in DOMAIN groups, NEW c \in DOMAIN groups, b # 1, c # 1,
         groups[b].sink = groups[c].sink, OnlyOnce(groups[b].sink)
  PROVE  b = c
<1>1. PICK g, m, k :
        /\ g \in DOMAIN groups /\ m \in DOMAIN groups[g].dependencies /\ k \in Spots(g)
        /\ b = Dep(g, m) /\ At(g, k) = groups[b].sink
        /\ \/ k = Len(Ops(g)) + 1 /\ m = 1
           \/ k # Len(Ops(g)) + 1 /\ m \in JoinDeps(g)
  BY SinkFacts
<1>2. PICK h, n, l :
        /\ h \in DOMAIN groups /\ n \in DOMAIN groups[h].dependencies /\ l \in Spots(h)
        /\ c = Dep(h, n) /\ At(h, l) = groups[c].sink
        /\ \/ l = Len(Ops(h)) + 1 /\ n = 1
           \/ l # Len(Ops(h)) + 1 /\ n \in JoinDeps(h)
  BY SinkFacts
<1>3. g = h /\ k = l
  BY <1>1, <1>2 DEF OnlyOnce
<1>4. CASE m = 1 /\ n = 1
  BY <1>1, <1>2, <1>3, <1>4
<1>5. CASE m \in JoinDeps(g) /\ n \in JoinDeps(g)
  <2>1. Served(g, m) = Served(g, n) /\ Len(Served(g, m)) \in Nat
    <3>1. Served(g, m) = Served(g, n)
      BY <1>1, <1>2, <1>3 DEF Served
    <3>2. PICK j \in Joins(g) : Served(g, m) = Ops(g)[j]
      BY <1>1, <1>5 DEF ServeInv, Serves
    <3>3. Ops(g)[j] \in DOMAIN plan /\ input \in Inputs
      BY <1>1, JoinsAreServed, SMTT(30) DEF BuildInv, TypeInv
    <3> QED BY <3>1, <3>2, <3>3, PathFacts
  <2>2. ~(m < n) /\ ~(n < m)
    <3>1. \A x, y \in JoinDeps(g) : x < y => Len(Served(g, y)) < Len(Served(g, x))
      BY <1>1 DEF ServeInv, Serves
    <3> QED BY <1>5, <2>1, <3>1
  <2>3. m \in Nat /\ n \in Nat
    BY <1>1, <1>5, JoinsAreServed
  <2> QED BY <1>1, <1>2, <1>3, <2>2, <2>3
<1> QED BY <1>1, <1>2, <1>3, <1>4, <1>5

\* No operator stands at two positions: its parent would, or two groups would
\* end in its parent.
LEMMA StandsOnce ==
  ASSUME BuildInv, ServeInv, CoverInv, CreatedInv, pc # "build", NEW op \in DOMAIN plan,
         \A p \in DOMAIN plan : Len(p) < Len(op) => OnlyOnce(p)
  PROVE  OnlyOnce(op)
<1>0. input \in Inputs
  BY DEF BuildInv, TypeInv
<1>1. \A p \in DOMAIN plan : /\ op = Kid(p, 1) \/ op = Kid(p, 2) => OnlyOnce(p) /\ op # Root
                             /\ op = Down(p) => op = Kid(p, 1) \/ op = Kid(p, 2)
  <2> TAKE p \in DOMAIN plan
  <2>1. op = Kid(p, 1) \/ op = Kid(p, 2) => OnlyOnce(p)
    <3>1. Len(p) \in Nat /\ (op = Kid(p, 1) \/ op = Kid(p, 2) => Len(op) = Len(p) + 1)
      BY <1>0, PathFacts
    <3> QED BY <3>1
  <2>2. op = Kid(p, 1) \/ op = Kid(p, 2) => op # Root
    BY <1>0, KidFacts
  <2> QED BY <2>1, <2>2 DEF Down
<1> SUFFICES ASSUME NEW g \in DOMAIN groups, NEW h \in DOMAIN groups,
                    NEW k \in Spots(g), NEW l \in Spots(h), At(g, k) = op, At(h, l) = op
             PROVE  g = h /\ k = l
  BY DEF OnlyOnce
<1> DEFINE IsRoot(x, i) == x = 1 /\ i = 1 /\ op = Root
           IsFirst(x, i) ==
             /\ x # 1 /\ i = 1 /\ op = Kid(groups[x].sink, 1)
             /\ groups[x].sink \in DOMAIN plan
             /\ plan[groups[x].sink] \in SinkKinds \cup JoinKinds
           IsBelow(x, i) ==
             /\ i - 1 \in Spots(x) /\ op = Down(At(x, i - 1)) /\ At(x, i - 1) \in DOMAIN plan
             /\ plan[At(x, i - 1)] \in JoinKinds \cup {"operator"}
<1>2. ASSUME NEW x \in DOMAIN groups, NEW i \in Spots(x), At(x, i) = op
      PROVE  IsRoot(x, i) \/ IsFirst(x, i) \/ IsBelow(x, i)
  BY <1>2, SpotFacts
<1>3. ASSUME NEW x, NEW y, NEW i, NEW j, IsFirst(x, i), IsBelow(y, j)
      PROVE  FALSE
  <2>1. PICK p, q : p = groups[x].sink /\ q = At(y, j - 1)
    OBVIOUS
  <2>2. /\ p \in DOMAIN plan /\ plan[p] \in SinkKinds \cup JoinKinds /\ op = Kid(p, 1)
        /\ q \in DOMAIN plan /\ plan[q] \in JoinKinds \cup {"operator"} /\ op = Down(q)
    BY <1>3, <2>1
  <2>3. p = q
    BY <1>0, <2>2, KidFacts DEF Down
  <2>4. plan[q] \in JoinKinds
    BY <1>0, <2>2, <2>3, PlanFacts
  <2>5. op = Kid(q, 2)
    BY <2>2, <2>4 DEF Down
  <2> QED BY <1>0, <2>2, <2>5, KidFacts
<1>4. ASSUME IsFirst(g, k), IsFirst(h, l) PROVE g = h /\ k = l
  <2>1. groups[g].sink = groups[h].sink /\ OnlyOnce(groups[g].sink)
    BY <1>0, <1>1, <1>4, KidFacts
  <2> QED BY <1>4, <2>1, EndsOnce
<1>5. ASSUME IsBelow(g, k), IsBelow(h, l) PROVE g = h /\ k = l
  <2>1. PICK p, q : p = At(g, k - 1) /\ q = At(h, l - 1)
    OBVIOUS
  <2>2. p \in DOMAIN plan /\ q \in DOMAIN plan /\ op = Down(p) /\ op = Down(q)
    BY <1>5, <2>1
  <2>3. p = q /\ OnlyOnce(p)
    BY <1>0, <1>1, <2>2, KidFacts DEF Down
  <2>4. g = h /\ k - 1 = l - 1
    BY <1>5, <2>1, <2>3 DEF OnlyOnce
  <2>5. k \in Int /\ l \in Int
    BY DEF Spots
  <2> QED BY <2>4, <2>5
<1>6. ~(IsRoot(g, k) /\ (IsFirst(h, l) \/ IsBelow(h, l)))
      /\ ~(IsRoot(h, l) /\ (IsFirst(g, k) \/ IsBelow(g, k)))
  BY <1>1
<1>7. IsRoot(g, k) /\ IsRoot(h, l) => g = h /\ k = l
  OBVIOUS
<1> HIDE DEF IsRoot, IsFirst, IsBelow
<1> QED BY <1>2, <1>3, <1>4, <1>5, <1>6, <1>7

LEMMA NothingStandsTwice ==
  ASSUME BuildInv, ServeInv, CoverInv, CreatedInv, pc # "build", NEW op \in DOMAIN plan
  PROVE  OnlyOnce(op)
<1> SUFFICES ASSUME ~OnlyOnce(op) PROVE FALSE
  OBVIOUS
<1>0. input \in Inputs
  BY DEF BuildInv, TypeInv
<1> DEFINE T == {Len(p) : p \in {q \in DOMAIN plan : ~OnlyOnce(q)}}
<1>1. T \in SUBSET Nat /\ T # {}
  BY <1>0, PathFacts
<1>2. PICK m \in T : \A l \in T : m <= l
  <2> HIDE DEF T
  <2> QED BY <1>1, LeastOf
<1>3. PICK q \in DOMAIN plan : ~OnlyOnce(q) /\ Len(q) = m
  OBVIOUS
<1>4. ASSUME NEW p \in DOMAIN plan, Len(p) < Len(q) PROVE OnlyOnce(p)
  <2>1. Len(p) \in Nat /\ Len(q) \in Nat
    BY <1>0, PathFacts
  <2>2. Len(p) \notin T
    <3> HIDE DEF T
    <3> QED BY <1>2, <1>3, <1>4, <2>1
  <2> QED BY <2>2
<1> HIDE DEF T
<1> QED BY <1>3, <1>4, StandsOnce

(***************************************************************************)
(* The copies of a probe pipeline reach the hash tables of all pipelines   *)
(* of the build side, in a plan whose joins have as many probe pipelines   *)
(* as build pipelines, or more: every group comes off the stack, and a     *)
(* join has one group that builds for it.                                  *)
(***************************************************************************)
THEOREM TablesAreProbed == Spec => []EveryTableProbed
<1> DEFINE Inv == /\ BuildingInv /\ ServeInv /\ TableInv /\ CoverInv /\ WidthInv
                  /\ CreatedInv /\ RootInv
<1>1. Inv => EveryTableProbed
  <2> SUFFICES ASSUME Inv, pc = "ready", NoEmptyTable,
                      \A op \in JoinsOfPlan : Width(Kid(op, 1)) <= Width(op),
                      NEW g \in DOMAIN groups, NEW b \in DOMAIN groups, NEW k \in Joins(g),
                      groups[b].sink = groups[g].operators[k],
                      NEW j \in 0 .. initialized[b] - 1
               PROVE  \E i \in 0 .. initialized[g] - 1 : table_of[g][i][k] = <<b, j>>
    BY DEF EveryTableProbed
  <2>1. /\ BuildInv /\ initialized \in [DOMAIN groups -> Nat] /\ DOMAIN table_of = DOMAIN groups
        /\ DOMAIN table_of[g] = 0 .. initialized[g] - 1
    BY DEF BuildingInv, WireInv
  <2>2. PICK op : op = groups[g].operators[k]
    OBVIOUS
  <2>3. op \in DOMAIN plan /\ k \in DOMAIN Ops(g) /\ op = Ops(g)[k] /\ op \in JoinsOfPlan
        /\ op # NoOp /\ input \in Inputs
    <3>1. groups[g] \in GroupSet /\ input \in Inputs
      BY <2>1 DEF BuildInv, TypeInv
    <3> QED BY <2>2, <3>1, PlanFacts DEF Joins, JoinsOfPlan, Ops, GroupSet
  <2>4. initialized[b] = GroupWidth(b) /\ initialized[g] = GroupWidth(g)
    BY AllAreSetUp DEF WidthInv
  <2>5. GroupWidth(b) = Width(Kid(op, 1)) /\ GroupWidth(g) = Width(op)
    BY <2>1, <2>2, <2>3, GroupWidthFacts
  <2>6. j \in 0 .. initialized[g] - 1
    <3>1. initialized[b] <= initialized[g]
      BY <2>3, <2>4, <2>5
    <3>2. initialized[b] \in Nat /\ initialized[g] \in Nat
      BY <2>1
    <3> QED BY <3>1, <3>2
  <2>7. PICK m : m = CountPg(g)[k]
    OBVIOUS
  <2>8. m \in JoinDeps(g) /\ Served(g, m) = op
    BY <2>1, <2>3, <2>7, CountPgServes
  <2>9. Dep(g, m) \in DOMAIN groups /\ groups[Dep(g, m)].sink = op
    BY <2>1, <2>8, GroupFacts DEF JoinDeps, Served
  <2>10. Dep(g, m) = b
    <3>1. groups[1].sink = NoOp
      BY DEF CreatedInv
    <3>2. Dep(g, m) # 1 /\ b # 1
      BY <2>2, <2>3, <2>9, <3>1
    <3>3. OnlyOnce(op)
      BY <2>1, <2>3, NothingStandsTwice
    <3> QED BY <2>1, <2>2, <2>9, <3>2, <3>3, EndsOnce
  <2>11. table_of[g][j] = [l \in Joins(g) |-> <<Dep(g, CountPg(g)[l]), j>>]
    BY <2>1, <2>6 DEF TableInv
  <2>12. table_of[g][j][k] = <<b, j>>
    BY <2>7, <2>10, <2>11
  <2> QED BY <2>6, <2>12
<1>2. Init => ServeInv /\ TableInv /\ CoverInv /\ WidthInv /\ CreatedInv /\ RootInv
  <2>1. Init => TableInv /\ WidthInv /\ RootInv
    BY DEF Init, TableInv, WidthInv, RootInv
  <2>2. Init => CreatedInv
    BY DEF Init, CreatedInv, NewGroup
  <2> QED BY <2>1, <2>2, ServeInvInitially, CoverInvInitially
<1>3. Inv /\ [Next]_vars
        => ServeInv' /\ TableInv' /\ CoverInv' /\ WidthInv' /\ CreatedInv' /\ RootInv'
  <2> SUFFICES ASSUME Inv, [Next]_vars
               PROVE  ServeInv' /\ TableInv' /\ CoverInv' /\ WidthInv' /\ CreatedInv' /\ RootInv'
    OBVIOUS
  <2>1. BuildInv
    BY DEF BuildingInv
  <2> QED BY <2>1, ServeInvKept, TableInvKept, CoverInvKept, WidthInvKept, CreatedInvKept, RootInvKept
<1> QED BY <1>1, <1>2, <1>3, BuildingInvHolds, PTL DEF Spec
=============================================================================
