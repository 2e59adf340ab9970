------------------------------ MODULE OrderBy -------------------------------
(***************************************************************************)
(* ORDER BY: every pipeline caches its chunks and sorts them into one run, *)
(* and MergeSortTask merges the runs of all pipelines with a heap that     *)
(* holds the next row of each.  PipelineExecution has why the task starts  *)
(* after all runs are published, ChunkFlow how the result is read.         *)
(*                                                                         *)
(* A row is [id, cols]; a column holds an integer or NULL.                 *)
(***************************************************************************)
EXTENDS Integers, Sequences, SequencesExt

CONSTANTS
  Inputs,      \* [orders, chunks]: the sort keys' orders, the pipelines' chunks
  N,           \* the number of pipelines
  NULL         \* a null cell

Pipelines == 1 .. N

ASSUME OrderAssumption == N \in Nat \ {0}

\* The rows pipeline p is given, and all of them.
RowsOf(inp, p) == UNION {Range(inp.chunks[p][c]) : c \in DOMAIN inp.chunks[p]}
RowsGiven(inp) == UNION {RowsOf(inp, p) : p \in Pipelines}

(* Every pipeline ends with its final chunk, every row has the sort keys,  *)
(* and a row is itself only: its id tells it from rows with equal columns. *)
ASSUME InputAssumption ==
  \A inp \in Inputs :
    /\ inp.orders \in Seq({"ASCENDING", "DESCENDING"})
    /\ inp.chunks \in [Pipelines -> Seq(Seq(RowsGiven(inp)))]
    /\ \A p \in Pipelines : inp.chunks[p] # <<>>
    /\ \A row \in RowsGiven(inp) : \A k \in DOMAIN inp.orders :
         row.cols[k] # NULL => row.cols[k] \in Int
    /\ \A p, q \in Pipelines :
         \A c \in DOMAIN inp.chunks[p], d \in DOMAIN inp.chunks[q] :
           \A i \in DOMAIN inp.chunks[p][c], j \in DOMAIN inp.chunks[q][d] :
             inp.chunks[p][c][i] = inp.chunks[q][d][j] => p = q /\ c = d /\ i = j

VARIABLES
  input,            \* the ORDER BY being run
  phase,            \* of a pipeline: "sink", "sorted" or "published"
  taken,            \* chunks the pipeline has sunk; its last is the final one
  order_cache,      \* the rows cached by each pipeline
  sort_data,        \* each pipeline's rows in the order of sort_idx
  local_cache,      \* the runs in the global sink state
  task,             \* MergeSortTask: "waiting", "merging" or "ended"
  minHeap,          \* the elements of the heap: [row, sequence_index]
  slice_idx,        \* how far each run has gone into the heap
  global_sort_data  \* the merged rows

vars == <<input, phase, taken, order_cache, sort_data, local_cache, task, minHeap,
          slice_idx, global_sort_data>>

Keys == DOMAIN input.orders

\* What Value(0) gives for a null cell.
Raw(cell) == IF cell = NULL THEN 0 ELSE cell

\* RecordBatchComparator: left comes after right, by the first key they differ
\* in.  It does not look for nulls.
RecordBatchComparator(left, right) ==
  \E k \in Keys :
    /\ \A j \in 1 .. k - 1 : Raw(left.cols[j]) = Raw(right.cols[j])
    /\ IF input.orders[k] = "DESCENDING" THEN Raw(left.cols[k]) < Raw(right.cols[k])
                                         ELSE Raw(left.cols[k]) > Raw(right.cols[k])

\* A run, and the null pointer of a pipeline without rows.
Run(rows) == [null |-> FALSE, rows |-> rows]
NoRun == [null |-> TRUE, rows |-> <<>>]

\* sort_indices puts nulls last, whatever the order, and keeps the order of
\* equal rows.
CellLess(order, x, y) ==
  \/ x # NULL /\ y = NULL
  \/ x # NULL /\ y # NULL /\ IF order = "DESCENDING" THEN x > y ELSE x < y
RowLess(r, s) ==
  \E k \in Keys : /\ \A j \in 1 .. k - 1 : r.cols[j] = s.cols[j]
                  /\ CellLess(input.orders[k], r.cols[k], s.cols[k])
SortIndices(rows) ==
  {idx \in Bijection(DOMAIN rows, DOMAIN rows) :
     \A i, j \in DOMAIN rows : i < j =>
       \/ RowLess(rows[idx[i]], rows[idx[j]])
       \/ ~RowLess(rows[idx[j]], rows[idx[i]]) /\ idx[i] < idx[j]}

\* SortInLocal: what sort_data, read through sort_idx, can be.
SortInLocal(rows) ==
  IF rows = <<>> THEN {NoRun}
  ELSE {Run([i \in DOMAIN rows |-> rows[idx[i]]]) : idx \in SortIndices(rows)}

-----------------------------------------------------------------------------

Init ==
  /\ input \in Inputs
  /\ phase = [p \in Pipelines |-> "sink"]
  /\ taken = [p \in Pipelines |-> 0]
  /\ order_cache = [p \in Pipelines |-> <<>>]
  /\ sort_data = [p \in Pipelines |-> NoRun]
  /\ local_cache = [p \in Pipelines |-> NoRun]
  /\ task = "waiting"
  /\ minHeap = {}
  /\ slice_idx = [p \in Pipelines |-> 1]
  /\ global_sort_data = <<>>

\* sink, for a chunk that is not the final one.
Sink(p) ==
  /\ phase[p] = "sink"
  /\ taken[p] < Len(input.chunks[p]) - 1
  /\ order_cache' = [order_cache EXCEPT ![p] = @ \o input.chunks[p][taken[p] + 1]]
  /\ taken' = [taken EXCEPT ![p] = @ + 1]
  /\ UNCHANGED <<input, phase, sort_data, local_cache, task, minHeap, slice_idx,
                 global_sort_data>>

\* sink, for the final chunk, which may still hold rows, up to the barrier.
FinalChunk(p) ==
  /\ phase[p] = "sink"
  /\ taken[p] = Len(input.chunks[p]) - 1
  /\ order_cache' = [order_cache EXCEPT ![p] = @ \o Last(input.chunks[p])]
  /\ \E run \in SortInLocal(order_cache'[p]) :
       sort_data' = [sort_data EXCEPT ![p] = run]
  /\ taken' = [taken EXCEPT ![p] = @ + 1]
  /\ phase' = [phase EXCEPT ![p] = "sorted"]
  /\ UNCHANGED <<input, local_cache, task, minHeap, slice_idx, global_sort_data>>

\* Behind the barrier the run goes into the global sink state.
Publish(p) ==
  /\ phase[p] = "sorted"
  /\ \A q \in Pipelines : phase[q] # "sink"
  /\ order_cache' = [order_cache EXCEPT ![p] = <<>>]
  /\ local_cache' = [local_cache EXCEPT ![p] = sort_data[p]]
  /\ phase' = [phase EXCEPT ![p] = "published"]
  /\ UNCHANGED <<input, taken, sort_data, task, minHeap, slice_idx, global_sort_data>>

RunSize(p) == IF local_cache[p].null THEN 0 ELSE Len(local_cache[p].rows)

\* MergeSortTask up to the loop of MergeRecordBatch: the first row of each run
\* goes into the heap.  Without a run the task ends at once.
StartMerge ==
  /\ task = "waiting"
  /\ \A p \in Pipelines : phase[p] = "published"
  /\ LET runs == {p \in Pipelines : RunSize(p) # 0} IN
     /\ minHeap' = {[row |-> local_cache[p].rows[1], sequence_index |-> p] : p \in runs}
     /\ task' = IF runs = {} THEN "ended" ELSE "merging"
  /\ UNCHANGED <<input, phase, taken, order_cache, sort_data, local_cache, slice_idx,
                 global_sort_data>>

\* Mutant: the last row of a run is never pushed.
NextButLast(p) == IF slice_idx[p] + 1 < RunSize(p) THEN {slice_idx[p] + 1} ELSE {}

\* Which row of run p follows the ones that are in the heap or through it.
NextOfRun(p) == IF slice_idx[p] < RunSize(p) THEN {slice_idx[p] + 1} ELSE {}

\* Mutant: the heap's greatest element comes out.
TopReversed(e) == \A f \in minHeap : ~RecordBatchComparator(f.row, e.row)

\* minHeap.top(): no element comes before it.  Which of equal ones is on top
\* depends on how the heap grew.
IsTop(e) == \A f \in minHeap : ~RecordBatchComparator(e.row, f.row)

\* One round of the loop: the top goes to the result, the next of its run into
\* the heap.  After the last round the runs are dropped.
MergeStep ==
  /\ task = "merging"
  /\ \E e \in minHeap :
       LET p    == e.sequence_index
           next == {[row |-> local_cache[p].rows[i], sequence_index |-> p] :
                      i \in NextOfRun(p)}
       IN
       /\ IsTop(e)
       /\ global_sort_data' = Append(global_sort_data, e.row)
       /\ minHeap' = (minHeap \ {e}) \cup next
       /\ slice_idx' = [slice_idx EXCEPT ![p] = IF next = {} THEN @ ELSE @ + 1]
       /\ IF minHeap' = {}
          THEN task' = "ended" /\ local_cache' = [q \in Pipelines |-> NoRun]
          ELSE UNCHANGED <<task, local_cache>>
  /\ UNCHANGED <<input, phase, taken, order_cache, sort_data>>

Next == \/ \E p \in Pipelines : Sink(p) \/ FinalChunk(p) \/ Publish(p)
        \/ StartMerge \/ MergeStep

Spec == Init /\ [][Next]_vars

-----------------------------------------------------------------------------
(* Properties. *)

Given == RowsGiven(input)
NoNullKeys == \A row \in Given : \A k \in Keys : row.cols[k] # NULL

\* The merge loop: the result is sorted, and no row that is still to come
\* belongs before one that is there, as long as no key is null (the runs have
\* nulls last, RecordBatchComparator takes them for 0).
MergedInOrder ==
  NoNullKeys =>
    /\ \A i, j \in DOMAIN global_sort_data :
         i < j => ~RecordBatchComparator(global_sort_data[i], global_sort_data[j])
    /\ \A i \in DOMAIN global_sort_data : \A row \in Given :
         row \in Range(global_sort_data)
           \/ ~RecordBatchComparator(global_sort_data[i], row)

\* Nothing is lost or doubled, nulls or not: at the end the result is a
\* rearrangement of all rows the pipelines were given.
Rearranged ==
  task = "ended" =>
    /\ IsInjective(global_sort_data)
    /\ Range(global_sort_data) = Given
=============================================================================
