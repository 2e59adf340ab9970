----------------------------- MODULE ChunkFlow -----------------------------
(***************************************************************************)
(* Pipeline::execute_pipeline: one thread pulls chunks from the pipeline's *)
(* source, pushes each through the operators, the last of the list first,  *)
(* and into the sink, until the source says FINISHED.                      *)
(*                                                                         *)
(* A chunk (arrow::RecordBatch) is a sequence of rows, and a row is known  *)
(* by its number in the source: what an operator does to its columns is    *)
(* left out, how many rows it makes of it is kept.  temporary_chunk, the   *)
(* shared_ptr all parts of the pipeline work on, is NoChunk while it is    *)
(* null; a part that dereferences it then ends the process.                *)
(***************************************************************************)
EXTENDS Integers, Sequences, SequencesExt

CONSTANTS
  CHUNK_SIZE,   \* rows in a chunk
  WordSize,     \* 2^64: unsigned arithmetic is modulo WordSize
  Inputs        \* the pipelines to run: [source, operators, sink]

ASSUME ChunkAssumption ==
  /\ CHUNK_SIZE \in Nat \ {0}
  /\ WordSize \in Nat \ {0}

\* The rows of a source, each known by its number.
RowsOfSource(src) ==
  IF src.kind = "table_scan" THEN UNION {ToSet(chunk) : chunk \in ToSet(src.chunks)}
                             ELSE ToSet(src.result)

(* A table is a sequence of chunks, none of them empty, as insert_data     *)
(* refuses those, and a result is a sequence of rows.  An aggregate        *)
(* without GROUP BY has a result of one row, far shorter than a chunk.     *)
ASSUME InputAssumption ==
  \A inp \in Inputs :
    /\ inp.source.kind \in {"table_scan", "multi_field_agg", "hash_agg", "order"}
    /\ inp.source.kind = "table_scan" =>
         inp.source.chunks \in Seq(Seq(RowsOfSource(inp.source)) \ {<<>>})
    /\ inp.source.kind # "table_scan" =>
         inp.source.result \in Seq(RowsOfSource(inp.source))
    /\ inp.source.kind = "hash_agg" => Len(inp.source.result) + 1 < CHUNK_SIZE
    /\ inp.source.kind = "order" =>
         /\ inp.source.parallelism \in Nat \ {0}
         /\ inp.source.pipeline_id \in 0 .. inp.source.parallelism - 1
    /\ inp.operators \in Seq(ToSet(inp.operators))
    /\ \A op \in ToSet(inp.operators) :
         /\ op.kind \in {"filter", "project", "join"}
         /\ op.kind = "join" => \A r \in RowsOfSource(inp.source) : op.matches[r] \in Nat

VARIABLES
  input,             \* the pipeline that runs, a member of Inputs
  pc,                \* "source", "operators", "sink", "done", "crashed"
  idx,               \* idx_chunk or idx_nums of the local source state
  temporary_chunk,
  is_final_chunk,
  operator_idx,      \* operators[operator_idx + 1] is next; -1: none is left
  operator_result,
  sunk,              \* the rows the sink's local state holds
  finals             \* calls of sink with is_final_chunk set

vars == <<input, pc, idx, temporary_chunk, is_final_chunk, operator_idx,
          operator_result, sunk, finals>>

source == input.source
operators == input.operators

Chunk(rows) == [null |-> FALSE, rows |-> rows]
NoChunk == [null |-> TRUE, rows |-> <<>>]

Sinks == {"result_collector", "order", "multi_field_agg", "hash_agg",
          "hash_join", "nested_loop_join"}

Init ==
  /\ input \in Inputs
  /\ pc = "source"
  /\ idx = 0
  /\ temporary_chunk = NoChunk
  /\ is_final_chunk = FALSE
  /\ operator_idx = -1
  /\ operator_result = "FINISHED"
  /\ sunk = <<>>
  /\ finals = 0

-----------------------------------------------------------------------------
(* Sources. *)

\* What the loop does with a source's answer before the operators run.
Fetched(result) ==
  /\ is_final_chunk' = (is_final_chunk \/ result = "FINISHED")
  /\ operator_idx' = Len(operators) - 1
  /\ pc' = IF operators = <<>> THEN "sink" ELSE "operators"
  /\ UNCHANGED <<input, operator_result, sunk, finals>>

\* PartitionedTable::get_data gives an empty chunk past the last one.
ScanGetData ==
  /\ pc = "source"
  /\ source.kind = "table_scan"
  /\ \/ /\ idx >= Len(source.chunks)
        /\ temporary_chunk' = Chunk(<<>>)
        /\ UNCHANGED idx
        /\ Fetched("FINISHED")
     \/ /\ idx < Len(source.chunks)
        /\ temporary_chunk' = Chunk(source.chunks[idx + 1])
        /\ idx' = idx + 1
        /\ Fetched(IF source.chunks[idx + 1] = <<>> THEN "FINISHED"
                                                    ELSE "HAVE_MORE_OUTPUT")

\* RecordBatch::Slice; an offset past the end fails arrow's own check.
Slice(offset, length) ==
  SubSeq(source.result, offset + 1,
         IF offset + length < Len(source.result) THEN offset + length
                                                 ELSE Len(source.result))

AggTakeFull ==
  /\ idx' = idx + CHUNK_SIZE
  /\ IF idx <= Len(source.result)
     THEN /\ temporary_chunk' = Chunk(Slice(idx, CHUNK_SIZE))
          /\ Fetched("HAVE_MORE_OUTPUT")
     ELSE /\ pc' = "crashed"
          /\ UNCHANGED <<input, temporary_chunk, is_final_chunk, operator_idx,
                         operator_result, sunk, finals>>

\* Mutant: the last rows come with FINISHED.
AggTakeRestFinal ==
  IF idx >= Len(source.result)
  THEN /\ temporary_chunk' = Chunk(<<>>)
       /\ UNCHANGED idx
       /\ Fetched("FINISHED")
  ELSE /\ temporary_chunk' = Chunk(Slice(idx, Len(source.result)))
       /\ idx' = Len(source.result)
       /\ Fetched("FINISHED")

AggTakeRest ==
  \/ /\ idx >= Len(source.result)
     /\ temporary_chunk' = Chunk(<<>>)
     /\ UNCHANGED idx
     /\ Fetched("FINISHED")
  \/ /\ idx < Len(source.result)
     /\ temporary_chunk' = Chunk(Slice(idx, Len(source.result)))
     /\ idx' = Len(source.result)
     /\ Fetched("HAVE_MORE_OUTPUT")

\* Mutant: idx_nums is unsigned here too.
MultiFieldAggUnsigned ==
  /\ pc = "source"
  /\ source.kind = "multi_field_agg"
  /\ IF (Len(source.result) - idx) % WordSize >= CHUNK_SIZE - 1
     THEN AggTakeFull ELSE AggTakeRest

\* PhysicalMultiFieldHashAgg: result_size and idx_nums are both int64_t.
MultiFieldAggGetData ==
  /\ pc = "source"
  /\ source.kind = "multi_field_agg"
  /\ \/ /\ Len(source.result) - idx >= CHUNK_SIZE - 1
        /\ AggTakeFull
     \/ /\ Len(source.result) - idx < CHUNK_SIZE - 1
        /\ AggTakeRest

\* PhysicalHashAgg: idx_nums is uint64_t, so the difference is unsigned.
HashAggGetData ==
  /\ pc = "source"
  /\ source.kind = "hash_agg"
  /\ IF (Len(source.result) - idx) % WordSize >= CHUNK_SIZE - 1
     THEN AggTakeFull ELSE AggTakeRest

\* The rows of an ORDER BY result that this pipeline hands on.
row_nums == Len(source.result)
row_per_pipeline ==
  IF source.pipeline_id # source.parallelism - 1
  THEN row_nums \div source.parallelism
  ELSE row_nums - source.pipeline_id * (row_nums \div source.parallelism)
Share ==
  IF row_nums <= source.parallelism
  THEN IF source.pipeline_id < row_nums
       THEN <<source.result[source.pipeline_id + 1]>>
       ELSE <<>>
  ELSE LET start == source.pipeline_id * (row_nums \div source.parallelism)
       IN  SubSeq(source.result, start + 1, start + row_per_pipeline)

\* The loop that fills buffers, up to CHUNK_SIZE rows of the share.
OrderTakeChunk ==
  LET left == row_per_pipeline - idx IN
  \/ /\ left >= CHUNK_SIZE
     /\ temporary_chunk' = Chunk(SubSeq(Share, idx + 1, idx + CHUNK_SIZE))
     /\ idx' = idx + CHUNK_SIZE
     /\ Fetched("HAVE_MORE_OUTPUT")
  \/ /\ 0 < left /\ left < CHUNK_SIZE
     /\ temporary_chunk' = Chunk(SubSeq(Share, idx + 1, row_per_pipeline))
     /\ idx' = row_per_pipeline
     /\ Fetched("FINISHED")
  \/ /\ left = 0
     /\ UNCHANGED <<temporary_chunk, idx>>
     /\ Fetched("FINISHED")

OrderGetData ==
  /\ pc = "source"
  /\ source.kind = "order"
  /\ \/ /\ row_nums = 0
        /\ UNCHANGED <<temporary_chunk, idx>>
        /\ Fetched("FINISHED")
     \/ /\ row_nums # 0
        /\ row_nums <= source.parallelism
        /\ temporary_chunk' = Chunk(Share)
        /\ UNCHANGED idx
        /\ Fetched("FINISHED")
     \/ /\ row_nums > source.parallelism
        /\ OrderTakeChunk

-----------------------------------------------------------------------------
(* Operators. *)

\* How many rows the operator makes of row r: a filter keeps it or not, a
\* join gives one for each match, a projection always one.
Copies(op, r) ==
  CASE op.kind = "filter"  -> IF r \in op.keep THEN 1 ELSE 0
    [] op.kind = "project" -> 1
    [] op.kind = "join"    -> op.matches[r]

Through(op, rows) ==
  FlattenSeq([i \in DOMAIN rows |->
                [k \in 1 .. Copies(op, rows[i]) |-> rows[i]]])

\* A filter that selects nothing answers NO_MORE_OUTPUT, a join with no
\* match does not; all answer FINISHED to an empty chunk.
Answer(op, rows) ==
  CASE rows = <<>> -> "FINISHED"
    [] rows # <<>> /\ op.kind = "filter" /\ Through(op, rows) = <<>> -> "NO_MORE_OUTPUT"
    [] OTHER -> "HAVE_MORE_OUTPUT"

\* Only PhysicalFilter looks whether there is a chunk.
Dereferences(op) == op.kind # "filter"

ExecuteOperator ==
  /\ pc = "operators"
  /\ LET op == operators[operator_idx + 1] IN
     \/ /\ ~(temporary_chunk = NoChunk /\ Dereferences(op))
        /\ operator_result' = Answer(op, temporary_chunk.rows)
        /\ temporary_chunk' = IF temporary_chunk = NoChunk THEN NoChunk
                              ELSE Chunk(Through(op, temporary_chunk.rows))
        /\ operator_idx' = operator_idx - 1
        /\ pc' = IF operator_result' = "NO_MORE_OUTPUT" \/ operator_idx = 0
                 THEN "sink" ELSE "operators"
     \/ /\ temporary_chunk = NoChunk /\ Dereferences(op)
        /\ pc' = "crashed"
        /\ UNCHANGED <<temporary_chunk, operator_idx, operator_result>>
  /\ UNCHANGED <<input, idx, is_final_chunk, sunk, finals>>

-----------------------------------------------------------------------------
(* The sink and the end of a round of the loop. *)

\* Mutant: the rest of the round is skipped after the final chunk too.
SkipAlways == operator_result = "NO_MORE_OUTPUT"

\* `continue': the chunk came to nothing and more are to come.
Skip == operator_result = "NO_MORE_OUTPUT" /\ ~is_final_chunk

SkipSink ==
  /\ pc = "sink"
  /\ Skip
  /\ pc' = "source"
  /\ UNCHANGED <<input, idx, temporary_chunk, is_final_chunk, operator_idx,
                 operator_result, sunk, finals>>

\* Joins and aggregations take no rows from the final chunk.
KeepsFinal == {"result_collector", "order"}

\* Mutant: the loop goes on after the final chunk.
SinkChunkNoBreak ==
  /\ pc = "sink"
  /\ ~Skip
  /\ temporary_chunk # NoChunk
  /\ sunk' = IF is_final_chunk /\ input.sink \notin KeepsFinal
             THEN sunk ELSE sunk \o temporary_chunk.rows
  /\ finals' = IF is_final_chunk THEN finals + 1 ELSE finals
  /\ pc' = IF is_final_chunk /\ finals > 0 THEN "done" ELSE "source"
  /\ UNCHANGED <<input, idx, temporary_chunk, is_final_chunk, operator_idx,
                 operator_result>>

\* sink->sink, then add_count and break when the source has FINISHED.
SinkChunk ==
  /\ pc = "sink"
  /\ ~Skip
  /\ temporary_chunk # NoChunk
  /\ sunk' = IF is_final_chunk /\ input.sink \notin KeepsFinal
             THEN sunk ELSE sunk \o temporary_chunk.rows
  /\ finals' = IF is_final_chunk THEN finals + 1 ELSE finals
  /\ pc' = IF is_final_chunk THEN "done" ELSE "source"
  /\ UNCHANGED <<input, idx, temporary_chunk, is_final_chunk, operator_idx,
                 operator_result>>

\* Every sink asks the chunk for its rows or its schema.
SinkNull ==
  /\ pc = "sink"
  /\ ~Skip
  /\ temporary_chunk = NoChunk
  /\ pc' = "crashed"
  /\ UNCHANGED <<input, idx, temporary_chunk, is_final_chunk, operator_idx,
                 operator_result, sunk, finals>>

Next ==
  \/ ScanGetData \/ MultiFieldAggGetData \/ HashAggGetData \/ OrderGetData
  \/ ExecuteOperator
  \/ SkipSink \/ SinkChunk \/ SinkNull

\* The thread that runs the pipeline is scheduled as long as it can run.
Spec == Init /\ [][Next]_vars /\ WF_vars(Next)

-----------------------------------------------------------------------------
(* Every variable has the type its declaration gives it. *)
TypeOK ==
  /\ input \in Inputs
  /\ input.sink \in Sinks
  /\ pc \in {"source", "operators", "sink", "done", "crashed"}
  /\ idx \in Nat
  /\ is_final_chunk \in BOOLEAN
  /\ operator_idx \in -1 .. Len(operators) - 1
  /\ operator_result \in {"HAVE_MORE_OUTPUT", "NO_MORE_OUTPUT", "FINISHED"}
  /\ finals \in Nat

Count(r, s) == Cardinality({i \in DOMAIN s : s[i] = r})

\* The rows the source has for this pipeline, one after the other.
Rows ==
  CASE source.kind = "table_scan" -> FlattenSeq(source.chunks)
    [] source.kind = "order"      -> Share
    [] OTHER                      -> source.result

\* How many rows the first k operators of the list make of row r.
Factors(r) ==
  LET factor[k \in 0 .. Len(operators)] ==
        IF k = 0 THEN 1 ELSE factor[k - 1] * Copies(operators[k], r)
  IN  factor

\* How often row r of the source belongs into the sink.
Expected(r) == Count(r, Rows) * Factors(r)[Len(operators)]

\* An ORDER BY source ends with rows in hand, or with an old chunk when its
\* share is a whole number of chunks; it suits only some sinks and shares.
EndsWell ==
  source.kind = "order" =>
    \/ input.sink \in KeepsFinal /\ (row_nums <= source.parallelism
                                     \/ row_per_pipeline % CHUNK_SIZE # 0)
    \/ input.sink \notin KeepsFinal /\ row_nums > source.parallelism
                                    /\ row_per_pipeline % CHUNK_SIZE = 0

(***************************************************************************)
(* When the loop ends, the sink holds every row of the source exactly as   *)
(* often as filters and joins let it through: no chunk is dropped between  *)
(* two parts or sunk twice, whatever the sizes of the chunks.              *)
(***************************************************************************)
EveryRowSunk ==
  pc = "done" /\ EndsWell =>
    \A r \in Range(Rows) \cup Range(sunk) : Count(r, sunk) = Expected(r)

(***************************************************************************)
(* The sink is closed exactly once, as its barrier and the group's count   *)
(* of finished pipelines need, and sees no chunk afterwards.               *)
(***************************************************************************)
ClosedOnce ==
  /\ finals <= 1
  /\ finals = 1 <=> pc = "done"

(***************************************************************************)
(* No slice begins past the end of a result, and nobody dereferences a     *)
(* chunk that is not there, unless an ORDER BY has no rows at all.         *)
(***************************************************************************)
NeverCrashes ==
  pc = "crashed" => source.kind = "order" /\ row_nums = 0

(***************************************************************************)
(* The loop ends: every source says FINISHED at last, whatever the         *)
(* operators answer.                                                       *)
(***************************************************************************)
PipelineEnds == <>(pc \in {"done", "crashed"})

=============================================================================
