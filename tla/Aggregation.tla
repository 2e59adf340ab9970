---------------------------- MODULE Aggregation -----------------------------
(***************************************************************************)
(* The two aggregation operators.  Every pipeline of the group aggregates  *)
(* its chunks into tables of its own, one table a partition; behind the    *)
(* barrier pipeline p merges partition p of all pipelines.  ChunkFlow has   *)
(* how the next pipeline group reads the results.                          *)
(*                                                                         *)
(* A row is [key, val]: key is a pair of integers or NULLs, val an integer *)
(* or NULL, the column of all aggregates.  An aggregate is [f, star].      *)
(***************************************************************************)
EXTENDS AggregationState, Bitwise, Sequences, SequencesExt

CONSTANTS
  Inputs,                     \* [op, aggs, chunks]
  N,                          \* the number of pipelines, numbered from 0
  AGG_TABLE_BUCKET_NUMS,
  AVG_BUCKET_LOAD_THRESHOLD

Pipelines == 0 .. N - 1

ASSUME ConfigAssumption ==
  /\ N \in Nat \ {0}
  /\ AVG_BUCKET_LOAD_THRESHOLD \in Nat \ {0}
  /\ AGG_TABLE_BUCKET_NUMS \in Nat \ {0}
  /\ (AGG_TABLE_BUCKET_NUMS & (AGG_TABLE_BUCKET_NUMS - 1)) = 0

VARIABLES
  input,         \* the aggregation being run
  phase,         \* of a pipeline: "local", "barrier", "finished" or "crashed"
  taken,         \* chunks the pipeline has sunk
  tables,        \* partition_table, partitioned_hash_tables: by pipeline, partition
  local_state,   \* without GROUP BY: the pipeline's states
  merged,        \* pipelines global_agg has gone through
  result         \* the pipeline's result rows

vars == <<input, phase, taken, tables, local_state, merged, result>>

MULTI  == "MULTI_FIELD_HASH_GROUP_BY"     \* PhysicalMultiFieldHashAgg
SINGLE == "HASH_GROUP_BY"                 \* PhysicalHashAgg, group_by_id # -1
ALL    == "HASH_GROUP_BY -1"              \* PhysicalHashAgg without GROUP BY

-----------------------------------------------------------------------------
(* The hash table of PhysicalMultiFieldHashAgg. *)

\* ArrayVecToRowVec: a null of the key is a 0, and compares as one.
KeyValues(row) == [i \in DOMAIN row.key |-> Number(row.key[i])]

\* RadixPartitionTable::Hashs of two integer columns; std::hash<int> is the
\* identity.
Hashs(key) == key[1] ^^ (2 * key[2])

\* ComputePartitionIndices
PartitionIndex(hash) == hash & (N - 1)

\* InitializeState: a null first value is added to all but COUNT.
InitializeState(val) ==
  [i \in DOMAIN input.aggs |->
     LET a == input.aggs[i]
     IN  IF a.f = "COUNT" /\ val = NULL /\ ~a.star THEN NewState(a.f)
         ELSE Add(a.f, NewState(a.f), val)]

\* EntrySet::UpdateState: later nulls are passed over.
UpdateEntry(states, val) ==
  [i \in DOMAIN states |->
     LET a == input.aggs[i]
     IN  IF val = NULL /\ ~(a.f = "COUNT" /\ a.star) THEN states[i]
         ELSE Add(a.f, states[i], val)]

\* EntrySet::MergeState
MergeStates(states, other) ==
  [i \in DOMAIN states |-> Merge(input.aggs[i].f, states[i], other[i])]

\* An AggHashTable.  An empty bucket is a null pointer, and bucket_map is 1
\* exactly where there is a bucket.
NewAggHashTable ==
  [bucket_num |-> AGG_TABLE_BUCKET_NUMS,
   buckets    |-> [b \in 0 .. AGG_TABLE_BUCKET_NUMS - 1 |-> <<>>],
   used_bucket_num |-> 0,
   total_group_num |-> 0]

\* AggBucket::FindEntry: where the key is in the bucket, or 0.
FindEntry(bucket, key) ==
  LET at == {i \in DOMAIN bucket : bucket[i].key = key /\ bucket[i].hash = Hashs(key)}
  IN  IF at = {} THEN 0 ELSE CHOOSE i \in at : \A j \in at : i <= j

\* Mutant: the used buckets are not counted again.
ResizeButUsed(t) ==
  LET n == 2 * t.bucket_num
  IN  [t EXCEPT !.bucket_num = n,
                !.buckets = [b \in 0 .. n - 1 |->
                   SelectSeq(t.buckets[b % t.bucket_num], LAMBDA e : e.hash % n = b)]]

\* ResizeBuckets: every entry goes to its bucket of the doubled table.
ResizeBuckets(t) ==
  LET n       == 2 * t.bucket_num
      buckets == [b \in 0 .. n - 1 |->
                    SelectSeq(t.buckets[b % t.bucket_num], LAMBDA e : e.hash % n = b)]
  IN  [t EXCEPT !.bucket_num = n,
                !.buckets = buckets,
                !.used_bucket_num = Cardinality({b \in DOMAIN buckets : buckets[b] # <<>>})]

\* The average load of the used buckets, rounded down, is over the threshold.
Overloaded(t) == t.total_group_num \div t.used_bucket_num > AVG_BUCKET_LOAD_THRESHOLD

\* AggHashTable::UpdateState with AggBucket::InsertEntrySet.
UpdateState(t, key, val) ==
  LET hash   == Hashs(key)
      b      == hash % t.bucket_num
      bucket == t.buckets[b]
      at     == FindEntry(bucket, key)
      entry  == [key |-> key, hash |-> hash, states |-> InitializeState(val)]
      next   == IF at # 0
                THEN [t EXCEPT !.buckets[b][at].states = UpdateEntry(@, val)]
                ELSE [t EXCEPT !.buckets[b] = Append(@, entry),
                               !.total_group_num = @ + 1,
                               !.used_bucket_num = @ + (IF bucket = <<>> THEN 1 ELSE 0)]
  IN  IF Overloaded(next) THEN ResizeBuckets(next) ELSE next

\* RadixPartitionTable::InsertData
InsertData(partitions, chunk) ==
  FoldLeft(LAMBDA parts, row :
             [parts EXCEPT ![PartitionIndex(Hashs(KeyValues(row)))] =
                UpdateState(@, KeyValues(row), row.val)],
           partitions, chunk)

\* One entry of another table goes into bucket b.
MergeEntry(bucket, e) ==
  LET at == FindEntry(bucket, e.key)
  IN  IF at # 0 THEN [bucket EXCEPT ![at].states = MergeStates(@, e.states)]
                ELSE Append(bucket, e)

\* AggHashTable::MergeState: bucket by bucket, as many as this table has, from
\* the other table's bucket of the same number.  The count of groups stays.
MergeTables(t, o) ==
  IF t.total_group_num = 0
  THEN [o EXCEPT !.used_bucket_num = t.used_bucket_num]
  ELSE [t EXCEPT !.buckets =
          [b \in DOMAIN t.buckets |->
             IF b \in DOMAIN o.buckets
             THEN FoldLeft(MergeEntry, t.buckets[b], o.buckets[b])
             ELSE t.buckets[b]]]

\* That loop reads bucket_map of the other table behind its end.
ReadsBehindMap(t, o) == t.total_group_num # 0 /\ o.bucket_num < t.bucket_num

\* GetFormatRow, AddOneRowToValueArray, FillArrayVector.
FormatRow(key, states) ==
  [key |-> key, values |-> [i \in DOMAIN states |-> Finalize(input.aggs[i].f, states[i])]]
MultiResult(t) ==
  FlattenSeq([b \in 1 .. t.bucket_num |->
    [j \in DOMAIN t.buckets[b - 1] |->
       FormatRow(t.buckets[b - 1][j].key, t.buckets[b - 1][j].states)]])

-----------------------------------------------------------------------------
(* PhysicalHashAgg: a map from the group to its states, or the states alone. *)

\* The states of a group's first row: only COUNT looks for a null, and one star
\* among the aggregates is_star for all.
FirstStates(val) ==
  LET is_star == \E i \in DOMAIN input.aggs : input.aggs[i].star
  IN  [i \in DOMAIN input.aggs |->
         LET f == input.aggs[i].f
         IN  IF f = "COUNT" /\ val = NULL /\ ~is_star THEN NewState(f)
             ELSE Add(f, NewState(f), val)]

\* The later rows' nulls are added like a 0, by COUNT too.
AddAll(states, val) == [i \in DOMAIN states |-> Add(input.aggs[i].f, states[i], val)]

\* PhysicalHashAgg::local_agg
LocalAgg(partitions, chunk) ==
  FoldLeft(LAMBDA parts, row :
             LET key == <<Number(row.key[1])>>
             IN  [parts EXCEPT ![key[1] % N] =
                    IF key \in DOMAIN @
                    THEN [@ EXCEPT ![key] = AddAll(@, row.val)]
                    ELSE (key :> FirstStates(row.val)) @@ @],
           partitions, chunk)

\* The rows in cache_data.
CacheData(p) == FlattenSeq(SubSeq(input.chunks[p], 1, taken[p]))

\* PhysicalHashAgg::local_agg_without_groupby
LocalAggWithoutGroupby(rows) ==
  FoldLeft(LAMBDA states, row : AddAll(states, row.val),
           [i \in DOMAIN input.aggs |-> NewState(input.aggs[i].f)], rows)

\* The merge loop of PhysicalHashAgg::global_agg.
MergeMaps(m, o) ==
  [k \in DOMAIN m \cup DOMAIN o |->
     IF k \notin DOMAIN m THEN o[k]
     ELSE IF k \notin DOMAIN o THEN m[k] ELSE MergeStates(m[k], o[k])]

MapResult(m) ==
  LET keys == SetToSortSeq(DOMAIN m, LAMBDA k, l : k[1] < l[1])
  IN  [i \in DOMAIN keys |-> FormatRow(keys[i], m[keys[i]])]

-----------------------------------------------------------------------------
(* The operators. *)

\* The sink states as Pipeline::Initialize makes them.
Init ==
  /\ input \in Inputs
  /\ phase = [p \in Pipelines |-> "local"]
  /\ taken = [p \in Pipelines |-> 0]
  /\ tables = [p \in Pipelines |->
                 [q \in Pipelines |-> IF input.op = MULTI THEN NewAggHashTable ELSE <<>>]]
  /\ local_state = [p \in Pipelines |-> <<>>]
  /\ merged = [p \in Pipelines |-> 0]
  /\ result = [p \in Pipelines |-> <<>>]

\* sink, for a chunk that is not the last.
Sink(p) ==
  /\ phase[p] = "local"
  /\ taken[p] < Len(input.chunks[p])
  /\ LET chunk == input.chunks[p][taken[p] + 1] IN
     tables' = [tables EXCEPT ![p] = CASE input.op = MULTI  -> InsertData(@, chunk)
                                       [] input.op = SINGLE -> LocalAgg(@, chunk)
                                       [] input.op = ALL    -> @]
  /\ taken' = [taken EXCEPT ![p] = @ + 1]
  /\ UNCHANGED <<input, phase, local_state, merged, result>>

\* sink, for the final chunk, up to the barrier.
FinalChunk(p) ==
  /\ phase[p] = "local"
  /\ taken[p] = Len(input.chunks[p])
  /\ local_state' = [local_state EXCEPT ![p] =
                       IF input.op = ALL THEN LocalAggWithoutGroupby(CacheData(p)) ELSE @]
  /\ phase' = [phase EXCEPT ![p] = "barrier"]
  /\ UNCHANGED <<input, taken, tables, merged, result>>

\* barrier->wait() returns once everyone has come to it.
BehindBarrier(p) == phase[p] = "barrier" /\ \A q \in Pipelines : phase[q] # "local"

\* One round of the loop over the pipelines in global_agg; without GROUP BY only
\* pipeline 0 merges.
MergeNext(p) ==
  LET i == merged[p] IN
  /\ BehindBarrier(p)
  /\ i < N
  /\ merged' = [merged EXCEPT ![p] = @ + 1]
  /\ tables' =
       IF i = p \/ input.op = ALL THEN tables
       ELSE [tables EXCEPT ![p][p] = IF input.op = MULTI THEN MergeTables(@, tables[i][p])
                                     ELSE MergeMaps(@, tables[i][p])]
  /\ local_state' =
       IF i = p \/ p # 0 \/ input.op # ALL THEN local_state
       ELSE [local_state EXCEPT ![0] = MergeStates(@, local_state[i])]
  /\ UNCHANGED <<input, phase, taken, result>>

\* What lies behind the shorter bucket_map need not be zero.
MergeCrashes(p) ==
  LET i == merged[p] IN
  /\ input.op = MULTI
  /\ BehindBarrier(p)
  /\ i < N /\ i # p
  /\ ReadsBehindMap(tables[p][p], tables[i][p])
  /\ phase' = [phase EXCEPT ![p] = "crashed"]
  /\ UNCHANGED <<input, taken, tables, local_state, merged, result>>

\* The rest of global_agg: the states become result rows.
MakeResult(p) ==
  /\ BehindBarrier(p)
  /\ merged[p] = N
  /\ result' = [result EXCEPT ![p] =
                  CASE input.op = MULTI  -> MultiResult(tables[p][p])
                    [] input.op = SINGLE -> MapResult(tables[p][p])
                    [] input.op = ALL    ->
                         IF p = 0 THEN <<FormatRow(<<>>, local_state[0])>> ELSE <<>>]
  /\ phase' = [phase EXCEPT ![p] = "finished"]
  /\ UNCHANGED <<input, taken, tables, local_state, merged>>

Step(p) == \/ Sink(p) \/ FinalChunk(p)
           \/ MergeNext(p) \/ MergeCrashes(p) \/ MakeResult(p)

\* A crash ends the process.
Next == \E p \in Pipelines :
          /\ \A q \in Pipelines : phase[q] # "crashed"
          /\ Step(p)

Spec == Init /\ [][Next]_vars

-----------------------------------------------------------------------------
(* What the query asks for. *)

Rows == FlattenSeq([p \in 1 .. N |-> FlattenSeq(input.chunks[p - 1])])
GroupOf(row) == CASE input.op = MULTI  -> row.key
                  [] input.op = SINGLE -> <<row.key[1]>>
                  [] input.op = ALL    -> <<>>
Groups == IF input.op = ALL THEN {<<>>} ELSE {GroupOf(Rows[i]) : i \in DOMAIN Rows}

\* An aggregate of the rows of a group, from its definition.
Aggregate(a, rows) ==
  LET vals == SelectSeq([i \in DOMAIN rows |-> rows[i].val], LAMBDA v : v # NULL)
      sum  == FoldLeft(LAMBDA x, y : x + y, 0, vals)
  IN  CASE a.f = "COUNT" -> IF a.star THEN Len(rows) ELSE Len(vals)
        [] a.f = "SUM"   -> sum
        [] a.f = "AVG"   -> IF vals = <<>> THEN 0 ELSE (1000 * sum) \div Len(vals)
        [] a.f = "MIN"   -> IF vals = <<>> THEN 0 ELSE Min(Range(vals))
        [] a.f = "MAX"   -> IF vals = <<>> THEN 0 ELSE Max(Range(vals))
Expected ==
  {[key    |-> k,
    values |-> [i \in DOMAIN input.aggs |->
                  Aggregate(input.aggs[i],
                            SelectSeq(Rows, LAMBDA row : GroupOf(row) = k))]] : k \in Groups}

-----------------------------------------------------------------------------
(* Where the code is known to differ from that. *)

PipelineRows(p) == FlattenSeq(input.chunks[p])

\* A group that begins with a null in some pipeline: it enters SUM, AVG, MIN
\* and MAX as a 0.
NullFirst ==
  \E p \in Pipelines : \E i \in DOMAIN PipelineRows(p) :
    /\ PipelineRows(p)[i].val = NULL
    /\ \A j \in 1 .. i - 1 : GroupOf(PipelineRows(p)[j]) # GroupOf(PipelineRows(p)[i])
    /\ \E k \in DOMAIN input.aggs : input.aggs[k].f \in {"AVG", "MIN", "MAX"}

NullAnywhere == \E i \in DOMAIN Rows : Rows[i].val = NULL

\* Without GROUP BY and without a row in pipeline 0, MIN and MAX are those of
\* the last pipeline that has rows.
UninitializedExtremum ==
  /\ input.op = ALL
  /\ PipelineRows(0) = <<>>
  /\ \E k \in DOMAIN input.aggs : input.aggs[k].f \in {"MIN", "MAX"}
  /\ Cardinality({p \in Pipelines : PipelineRows(p) # <<>>}) > 1

\* The tables a pipeline ends its first phase with.
LocalTables(p) ==
  FoldLeft(InsertData, [q \in Pipelines |-> NewAggHashTable], input.chunks[p])

\* Tables of one partition of which some grew more than others.
BucketsDiffer ==
  /\ input.op = MULTI
  /\ \E p, o \in Pipelines : \E q \in Pipelines :
       LocalTables(p)[q].bucket_num # LocalTables(o)[q].bucket_num

Exact ==
  /\ IF input.op = MULTI THEN ~NullFirst ELSE ~NullAnywhere
  /\ ~UninitializedExtremum
  /\ ~BucketsDiffer

-----------------------------------------------------------------------------
(* Properties. *)

AllResults == FlattenSeq([p \in 1 .. N |-> result[p - 1]])

\* Every group comes out of one pipeline, once, with the aggregates of all its
\* rows, whoever sank them and in whatever order the pipelines merged
\* (InsertData, MergeState, global_agg), for the inputs Exact admits.
GroupsExact ==
  Exact =>
    /\ \A p \in Pipelines : phase[p] # "crashed"
    /\ (\A p \in Pipelines : phase[p] = "finished") =>
         /\ Range(AllResults) = Expected
         /\ Len(AllResults) = Cardinality(Groups)

\* In the first phase a table finds every group it has: each entry lies in the
\* bucket and the partition of its hash, once, and the two counters the resize
\* goes by are those of the table (UpdateState, ResizeBuckets).
TableConsistent ==
  input.op = MULTI =>
    \A p, q \in Pipelines : phase[p] = "local" =>
      LET t == tables[p][q]
          entries == FlattenSeq([b \in 1 .. t.bucket_num |-> t.buckets[b - 1]])
      IN  /\ t.total_group_num = Len(entries)
          /\ t.used_bucket_num = Cardinality({b \in DOMAIN t.buckets : t.buckets[b] # <<>>})
          /\ \A b \in DOMAIN t.buckets : \A j \in DOMAIN t.buckets[b] :
               t.buckets[b][j].hash % t.bucket_num = b
          /\ \A i, j \in DOMAIN entries : entries[i].key = entries[j].key => i = j
          /\ \A i \in DOMAIN entries : PartitionIndex(entries[i].hash) = q
=============================================================================
